---------------------------- MODULE KeyRootWallet ----------------------------
(***************************************************************************)
(* Key roots, wallets and recovery (internal/core/service/key_root.go,     *)
(* key_root_seed.go, wallet.go, recovery.go and their repositories) over   *)
(* one database and one runtime store, which is the atomic vault.  Each    *)
(* request runs on a thread, one step per statement and per store call;    *)
(* the vault is sealed and unsealed and the process restarts at any time.  *)
(*                                                                         *)
(* A root id names its seed: idgen never repeats an id, and a row or a     *)
(* backup entry carries the seed generated with it, under whatever key.    *)
(* A definition named Op_Fault is Op with a plausible bug.                 *)
(***************************************************************************)
EXTENDS Naturals

CONSTANTS Threads,      \* requests served at once
          Roots, Users,
          ForeignRoots, \* the roots of a backup made by another installation
          MaxIndex,     \* bound for 2147483648, the non-hardened indexes
          NoRoot, NoUser,
          NoReply, Ok, Refused, Failed   \* answers without a wallet

Wallet == [root : Roots, user : Users, index : 0..(MaxIndex - 1)]

ASSUME KeyRootAssumption ==
    /\ ForeignRoots \subseteq Roots
    /\ NoRoot \notin Roots
    /\ NoUser \notin Users
    /\ MaxIndex \in Nat \ {0}
    /\ {NoReply, Ok, Refused, Failed} \cap Wallet = {}

VARIABLES
    rows,      \* durable: key_roots
    counter,   \* durable: wallet_counters.next_index, 0 without a row
    wallets,   \* durable: wallets
    open,      \* thread -> rows its open transaction has inserted
    unsealed, cached,   \* the vault
    used,      \* the root ids generated so far, here or elsewhere
    backups,   \* the backups operators hold, as the roots they contain
    pc,        \* where each request stands
    root, user, index,  \* its key root, its user, the index it was allocated
    manifest,  \* the roots of the backup it imports or exports
    work,      \* those it has yet to handle
    began,     \* history: the rows there were when its export began
    reply      \* what the last request returned

dbVars == <<rows, counter, wallets, open>>
vaultVars == <<unsealed, cached>>
localVars == <<root, user, index, manifest, work, began, reply>>
vars == <<dbVars, vaultVars, used, backups, pc, localVars>>

V == INSTANCE Vault WITH MaxKeys <- 1, required <- 1, pending <- {}

Steps == {"idle",
          "crCheck", "crSeal", "crStore", "crPersist", "crRollback",
          "wlLookup", "wlCheck", "wlRoot", "wlIndex", "wlSeed", "wlOpen",
          "wlCache", "wlUse", "wlInsert", "wlReload",
          "exCheck", "exList", "exSeed", "exOpen",
          "imCheck", "imSeal", "imRead", "imInsert", "imDrop"}

TypeOK ==
    /\ rows \subseteq Roots
    /\ counter \in [Roots -> 0..MaxIndex]
    /\ wallets \subseteq Wallet
    /\ open \in [Threads -> SUBSET Roots]
    /\ unsealed \in BOOLEAN
    /\ cached \subseteq Roots
    /\ used \subseteq Roots
    /\ backups \subseteq SUBSET Roots
    /\ pc \in [Threads -> Steps]
    /\ root \in [Threads -> Roots \cup {NoRoot}]
    /\ user \in [Threads -> Users \cup {NoUser}]
    /\ index \in [Threads -> 0..MaxIndex]
    /\ manifest \in [Threads -> SUBSET Roots]
    /\ work \in [Threads -> SUBSET Roots]
    /\ began \in [Threads -> SUBSET Roots]
    /\ reply \in [Threads -> Wallet \cup {NoReply, Ok, Refused, Failed}]

Init ==
    /\ rows = {} /\ wallets = {}
    /\ counter = [r \in Roots |-> 0]
    /\ open = [t \in Threads |-> {}]
    /\ unsealed = FALSE /\ cached = {}
    /\ used = ForeignRoots
    /\ backups = {ForeignRoots} \ {{}}
    /\ pc = [t \in Threads |-> "idle"]
    /\ root = [t \in Threads |-> NoRoot]
    /\ user = [t \in Threads |-> NoUser]
    /\ index = [t \in Threads |-> 0]
    /\ manifest = [t \in Threads |-> {}]
    /\ work = [t \in Threads |-> {}]
    /\ began = [t \in Threads |-> {}]
    /\ reply = [t \in Threads |-> NoReply]
-----------------------------------------------------------------------------
(* Moving a request on, and ending it.                                     *)

Goto(t, step) == pc' = [pc EXCEPT ![t] = step]
Continue(t, step) == Goto(t, step) /\ UNCHANGED localVars

Return(t, answer) ==
    /\ Goto(t, "idle")
    /\ root' = [root EXCEPT ![t] = NoRoot]
    /\ user' = [user EXCEPT ![t] = NoUser]
    /\ index' = [index EXCEPT ![t] = 0]
    /\ manifest' = [manifest EXCEPT ![t] = {}]
    /\ work' = [work EXCEPT ![t] = {}]
    /\ began' = [began EXCEPT ![t] = {}]
    /\ reply' = [reply EXCEPT ![t] = answer]

Refuse(t) == Return(t, Refused)
Fail(t) == Return(t, Failed)

Begin(t, step, r, u, m, b) ==
    /\ pc[t] = "idle"
    /\ Goto(t, step)
    /\ root' = [root EXCEPT ![t] = r]
    /\ user' = [user EXCEPT ![t] = u]
    /\ manifest' = [manifest EXCEPT ![t] = m]
    /\ began' = [began EXCEPT ![t] = b]
    /\ reply' = [reply EXCEPT ![t] = NoReply]
    /\ UNCHANGED <<dbVars, vaultVars, used, backups, index, work>>

\* A call on the store that only needs it unsealed.
IfUnsealed(t, here, step) ==
    /\ pc[t] = here
    /\ IF unsealed THEN Continue(t, step) ELSE Refuse(t)
    /\ UNCHANGED <<dbVars, vaultVars, used, backups>>
-----------------------------------------------------------------------------
(* KeyRootService.Create                                                   *)

CreateCheck(t) ==
    /\ pc[t] = "crCheck"
    /\ IF unsealed
         THEN \E r \in Roots \ used :
                /\ used' = used \cup {r}
                /\ root' = [root EXCEPT ![t] = r]
                /\ Goto(t, "crSeal")
                /\ UNCHANGED <<user, index, manifest, work, began, reply>>
         ELSE Refuse(t) /\ UNCHANGED used
    /\ UNCHANGED <<dbVars, vaultVars, backups>>

\* The new seed is sealed under the vault key.
CreateSeal(t) == IfUnsealed(t, "crSeal", "crStore")

\* StoreKeyRootSeed, before the row exists.
CreateStore(t) ==
    /\ pc[t] = "crStore"
    /\ IF unsealed /\ root[t] \notin cached
         THEN V!CacheSeed(root[t]) /\ Continue(t, "crPersist")
         ELSE Refuse(t) /\ UNCHANGED vaultVars
    /\ UNCHANGED <<dbVars, used, backups>>

\* The INSERT: acknowledged, failed, or committed without acknowledgement.
CreatePersist(t) ==
    /\ pc[t] = "crPersist"
    /\ \/ rows' = rows \cup {root[t]} /\ Return(t, Ok)
       \/ rows' \in {rows, rows \cup {root[t]}} /\ Continue(t, "crRollback")
    /\ UNCHANGED <<counter, wallets, open, vaultVars, used, backups>>

CreateRollback_Skipped(t) ==
    /\ pc[t] = "crRollback"
    /\ Fail(t)
    /\ UNCHANGED <<dbVars, vaultVars, used, backups>>

CreateRollback(t) ==
    /\ pc[t] = "crRollback"
    /\ V!DropSeed(root[t])
    /\ Fail(t)
    /\ UNCHANGED <<dbVars, used, backups>>
-----------------------------------------------------------------------------
(* WalletService.Create                                                    *)

WalletOf(r, u) == {w \in wallets : w.root = r /\ w.user = u}

\* GetByUser, before anything else and without the vault.
Lookup(t) ==
    /\ pc[t] = "wlLookup"
    /\ IF WalletOf(root[t], user[t]) # {}
         THEN \E w \in WalletOf(root[t], user[t]) : Return(t, w)
         ELSE Continue(t, "wlCheck")
    /\ UNCHANGED <<dbVars, vaultVars, used, backups>>

CheckUnsealed(t) == IfUnsealed(t, "wlCheck", "wlRoot")

LoadRoot(t) ==
    /\ pc[t] = "wlRoot"
    /\ IF root[t] \in rows THEN Continue(t, "wlIndex") ELSE Refuse(t)
    /\ UNCHANGED <<dbVars, vaultVars, used, backups>>

NextIndex_FromWallets(t) ==
    /\ pc[t] = "wlIndex"
    /\ LET taken == {w.index : w \in {w \in wallets : w.root = root[t]}}
           free == {i \in 0..(MaxIndex - 1) : i \notin taken}
       IN IF free = {} THEN Refuse(t)
          ELSE \E i \in free : /\ \A j \in free : i <= j
                               /\ index' = [index EXCEPT ![t] = i]
                               /\ Goto(t, "wlSeed")
                               /\ UNCHANGED <<root, user, manifest, work, began, reply>>
    /\ UNCHANGED <<dbVars, vaultVars, used, backups>>

NextIndex_BoundOffByOne(t) ==
    /\ pc[t] = "wlIndex"
    /\ counter' = [counter EXCEPT ![root[t]] = @ + 1]
    /\ index' = [index EXCEPT ![t] = counter[root[t]]]
    /\ Goto(t, "wlSeed")
    /\ UNCHANGED <<root, user, manifest, work, began, reply, rows, wallets, open>>
    /\ UNCHANGED <<vaultVars, used, backups>>

NextIndex_ReturnsNext(t) ==
    /\ pc[t] = "wlIndex"
    /\ counter[root[t]] < MaxIndex
    /\ counter' = [counter EXCEPT ![root[t]] = @ + 1]
    /\ index' = [index EXCEPT ![t] = counter[root[t]] + 1]
    /\ Goto(t, "wlSeed")
    /\ UNCHANGED <<root, user, manifest, work, began, reply, rows, wallets, open>>
    /\ UNCHANGED <<vaultVars, used, backups>>

\* NextIndex: one statement increments the counter, up to its bound.
NextIndex(t) ==
    /\ pc[t] = "wlIndex"
    /\ IF counter[root[t]] < MaxIndex
         THEN /\ counter' = [counter EXCEPT ![root[t]] = @ + 1]
              /\ \/ /\ index' = [index EXCEPT ![t] = counter[root[t]]]
                    /\ Goto(t, "wlSeed")
                    /\ UNCHANGED <<root, user, manifest, work, began, reply>>
                 \/ Fail(t)
         ELSE Refuse(t) /\ UNCHANGED counter
    /\ UNCHANGED <<rows, wallets, open, vaultVars, used, backups>>

\* withKeyRootSeed: the cached seed, or else the row's is opened under the
\* vault key, cached, and looked up again.
WithSeed(t, here, absent) ==
    /\ pc[t] = here
    /\ IF unsealed /\ root[t] \in cached
         THEN Continue(t, "wlInsert")
         ELSE IF unsealed /\ absent # "refuse" THEN Continue(t, absent) ELSE Refuse(t)
    /\ UNCHANGED <<dbVars, vaultVars, used, backups>>

UseCachedSeed(t) == WithSeed(t, "wlSeed", "wlOpen")
OpenSeed(t) == IfUnsealed(t, "wlOpen", "wlCache")
UseNewSeed(t) == WithSeed(t, "wlUse", "refuse")

\* A seed another request has cached meanwhile serves as well.
CacheOpened(t) ==
    /\ pc[t] = "wlCache"
    /\ IF ~unsealed
         THEN Refuse(t) /\ UNCHANGED vaultVars
         ELSE /\ Continue(t, "wlUse")
              /\ IF root[t] \in cached THEN UNCHANGED vaultVars ELSE V!CacheSeed(root[t])
    /\ UNCHANGED <<dbVars, used, backups>>

\* The adapter may find no valid child key, and the seed may be destroyed
\* between its lookup and its use.
DeriveError(t) ==
    /\ pc[t] \in {"wlSeed", "wlUse"}
    /\ Fail(t)
    /\ UNCHANGED <<dbVars, vaultVars, used, backups>>

New(t) == [root |-> root[t], user |-> user[t], index |-> index[t]]

\* The unique indexes of the wallets table.
Conflicts_PathOnly(w) == \E v \in wallets : v.root = w.root /\ v.index = w.index

Conflicts(w) ==
    \E v \in wallets : v.root = w.root /\ (v.user = w.user \/ v.index = w.index)

\* The INSERT: acknowledged, refused by an index, or committed unheard.
Insert(t) ==
    /\ pc[t] = "wlInsert"
    /\ IF Conflicts(New(t))
         THEN Continue(t, "wlReload") /\ UNCHANGED wallets
         ELSE /\ wallets' = wallets \cup {New(t)}
              /\ Return(t, New(t)) \/ Fail(t)
    /\ UNCHANGED <<rows, counter, open, vaultVars, used, backups>>

Reload_OwnWallet(t) ==
    /\ pc[t] = "wlReload"
    /\ Return(t, New(t))
    /\ UNCHANGED <<dbVars, vaultVars, used, backups>>

\* After a conflict: the wallet a concurrent request created for the user.
Reload(t) ==
    /\ pc[t] = "wlReload"
    /\ IF WalletOf(root[t], user[t]) # {}
         THEN \E w \in WalletOf(root[t], user[t]) : Return(t, w)
         ELSE Refuse(t)
    /\ UNCHANGED <<dbVars, vaultVars, used, backups>>
-----------------------------------------------------------------------------
(* RecoveryService.Export                                                  *)

ExportCheck(t) == IfUnsealed(t, "exCheck", "exList")

ExportList(t) ==
    /\ pc[t] = "exList"
    /\ IF rows = {} THEN Refuse(t)
       ELSE /\ work' = [work EXCEPT ![t] = rows]
            /\ Goto(t, "exSeed")
            /\ UNCHANGED <<root, user, index, manifest, began, reply>>
    /\ UNCHANGED <<dbVars, vaultVars, used, backups>>

\* The next root of the backup in hand is taken up, and dealt with.
Take(t, r, step) ==
    /\ root' = [root EXCEPT ![t] = r]
    /\ Goto(t, step)
    /\ UNCHANGED <<user, index, manifest, work, began, reply>>

Handled(t, r, step) ==
    /\ work' = [work EXCEPT ![t] = @ \ {r}]
    /\ root' = [root EXCEPT ![t] = NoRoot]
    /\ Goto(t, step)
    /\ UNCHANGED <<user, index, manifest, began, reply>>

\* The root's seed is encrypted for the backup and its entry appended.
Packed(t, r) ==
    /\ manifest' = [manifest EXCEPT ![t] = @ \cup {r}]
    /\ work' = [work EXCEPT ![t] = @ \ {r}]
    /\ root' = [root EXCEPT ![t] = NoRoot]
    /\ Goto(t, "exSeed")
    /\ UNCHANGED <<user, index, began, reply>>

ExportSeed_UncachedSkipped(t) ==
    /\ pc[t] = "exSeed"
    /\ \E r \in work[t] :
         IF ~unsealed THEN Refuse(t)
         ELSE IF r \in cached THEN Packed(t, r) ELSE Handled(t, r, "exSeed")
    /\ UNCHANGED <<dbVars, vaultVars, used, backups>>

\* withRecoveryKeyRootSeed: the cached seed, or the row's opened for this call.
ExportSeed(t) ==
    /\ pc[t] = "exSeed"
    /\ \E r \in work[t] :
         IF ~unsealed THEN Refuse(t)
         ELSE IF r \in cached THEN Packed(t, r) ELSE Take(t, r, "exOpen")
    /\ UNCHANGED <<dbVars, vaultVars, used, backups>>

ExportOpen(t) ==
    /\ pc[t] = "exOpen"
    /\ IF unsealed THEN Packed(t, root[t]) ELSE Refuse(t)
    /\ UNCHANGED <<dbVars, vaultVars, used, backups>>

ExportDone(t) ==
    /\ pc[t] = "exSeed" /\ work[t] = {}
    /\ backups' = backups \cup {manifest[t]}
    /\ Return(t, Ok)
    /\ UNCHANGED <<dbVars, vaultVars, used>>
-----------------------------------------------------------------------------
(* RecoveryService.Import                                                  *)

ImportCheck(t) == IfUnsealed(t, "imCheck", "imSeal")

\* Every seed of the backup is sealed under the vault key in one callback.
ImportSeal(t) ==
    /\ pc[t] = "imSeal"
    /\ IF unsealed
         THEN /\ work' = [work EXCEPT ![t] = manifest[t]]
              /\ Goto(t, "imRead")
              /\ UNCHANGED <<root, user, index, manifest, began, reply>>
         ELSE Refuse(t)
    /\ UNCHANGED <<dbVars, vaultVars, used, backups>>

\* RestoreKeyRoots: in one transaction, a root that exists gets a newly
\* sealed copy of its seed, one that does not is inserted.
ImportRead(t) ==
    /\ pc[t] = "imRead"
    /\ \E r \in work[t] :
         IF r \in rows THEN Handled(t, r, "imRead") ELSE Take(t, r, "imInsert")
    /\ UNCHANGED <<dbVars, vaultVars, used, backups>>

ImportInsert_NoTransaction(t) ==
    /\ pc[t] = "imInsert"
    /\ rows' = rows \cup {root[t]}
    /\ Handled(t, root[t], "imRead")
    /\ UNCHANGED <<counter, wallets, open, vaultVars, used, backups>>

\* It waits for another transaction inserting the same id, and fails if that
\* one has committed.
ImportInsert(t) ==
    /\ pc[t] = "imInsert"
    /\ \A u \in Threads : root[t] \notin open[u]
    /\ IF root[t] \in rows
         THEN Fail(t) /\ open' = [open EXCEPT ![t] = {}]
         ELSE Handled(t, root[t], "imRead") /\ open' = [open EXCEPT ![t] = @ \cup {root[t]}]
    /\ UNCHANGED <<rows, counter, wallets, vaultVars, used, backups>>

ImportCommit(t) ==
    /\ pc[t] = "imRead" /\ work[t] = {}
    /\ rows' = rows \cup open[t]
    /\ open' = [open EXCEPT ![t] = {}]
    /\ \/ /\ Goto(t, "imDrop")
          /\ work' = [work EXCEPT ![t] = manifest[t]]
          /\ UNCHANGED <<root, user, index, manifest, began, reply>>
       \/ Fail(t)
    /\ UNCHANGED <<counter, wallets, vaultVars, used, backups>>

ImportDrop(t) ==
    /\ pc[t] = "imDrop"
    /\ \E r \in work[t] : V!DropSeed(r) /\ Handled(t, r, "imDrop")
    /\ UNCHANGED <<dbVars, used, backups>>

ImportDone(t) ==
    /\ pc[t] = "imDrop" /\ work[t] = {}
    /\ Return(t, Ok)
    /\ UNCHANGED <<dbVars, vaultVars, used, backups>>
-----------------------------------------------------------------------------
(* A statement that fails, or that PostgreSQL aborts to break a deadlock,  *)
(* ends the request and rolls its transaction back.                        *)
DbError(t) ==
    /\ pc[t] \in {"wlLookup", "wlRoot", "wlIndex", "wlInsert", "wlReload",
                  "exList", "imRead", "imInsert"}
    /\ open' = [open EXCEPT ![t] = {}]
    /\ Fail(t)
    /\ UNCHANGED <<rows, counter, wallets, vaultVars, used, backups>>

SealVault == V!Seal /\ UNCHANGED <<dbVars, used, backups, pc, localVars>>
UnsealVault == V!Unseal(1) /\ UNCHANGED <<dbVars, used, backups, pc, localVars>>

Crash ==
    /\ open' = [t \in Threads |-> {}]
    /\ unsealed' = FALSE /\ cached' = {}
    /\ pc' = [t \in Threads |-> "idle"]
    /\ root' = [t \in Threads |-> NoRoot]
    /\ user' = [t \in Threads |-> NoUser]
    /\ index' = [t \in Threads |-> 0]
    /\ manifest' = [t \in Threads |-> {}]
    /\ work' = [t \in Threads |-> {}]
    /\ began' = [t \in Threads |-> {}]
    /\ reply' = [t \in Threads |-> NoReply]
    /\ UNCHANGED <<rows, counter, wallets, used, backups>>
-----------------------------------------------------------------------------
Request(t) ==
    \/ Begin(t, "crCheck", NoRoot, NoUser, {}, {})
    \/ \E r \in used, u \in Users : Begin(t, "wlLookup", r, u, {}, {})
    \/ Begin(t, "exCheck", NoRoot, NoUser, {}, rows)
    \/ \E b \in backups : Begin(t, "imCheck", NoRoot, NoUser, b, {})

CreateRoot(t) ==
    CreateCheck(t) \/ CreateSeal(t) \/ CreateStore(t) \/ CreatePersist(t) \/ CreateRollback(t)

CreateWallet(t) ==
    \/ Lookup(t) \/ CheckUnsealed(t) \/ LoadRoot(t) \/ NextIndex(t)
    \/ UseCachedSeed(t) \/ OpenSeed(t) \/ CacheOpened(t) \/ UseNewSeed(t) \/ DeriveError(t)
    \/ Insert(t) \/ Reload(t)

Export(t) ==
    ExportCheck(t) \/ ExportList(t) \/ ExportSeed(t) \/ ExportOpen(t) \/ ExportDone(t)

Import(t) ==
    \/ ImportCheck(t) \/ ImportSeal(t) \/ ImportRead(t) \/ ImportInsert(t)
    \/ ImportCommit(t) \/ ImportDrop(t) \/ ImportDone(t)

Next ==
    \/ \E t \in Threads :
         Request(t) \/ CreateRoot(t) \/ CreateWallet(t) \/ Export(t) \/ Import(t) \/ DbError(t)
    \/ SealVault \/ UnsealVault \/ Crash

Spec == Init /\ [][Next]_vars
-----------------------------------------------------------------------------
(* Every wallet a request returns exists and goes on existing unchanged:   *)
(* with one wallet per user and root (below), all requests for a user, now *)
(* and later, sealed or not, in spite of races and lost acknowledgements,  *)
(* get the same wallet (wallet.go 58-127).                                 *)
ReturnedWalletExists ==
    \A t \in Threads : reply[t] \in Wallet => reply[t] \in wallets

(* A unique index refuses a new wallet only because the same user already  *)
(* has one: indexes are never allocated twice, so the conflict is always   *)
(* the one wallet.go 109-118 resolves, and ErrWalletAlreadyExists (119) is *)
(* never returned.                                                         *)
ConflictIsOwnWallet ==
    \A t \in Threads : pc[t] = "wlReload" => WalletOf(root[t], user[t]) # {}

(* A plaintext seed is cached only for a root that is durable, or whose    *)
(* Create is still to insert it or to roll it back (key_root.go 95-113).   *)
NoOrphanSeed ==
    cached \subseteq
        rows \cup {root[t] : t \in {t \in Threads : pc[t] \in {"crPersist", "crRollback"}}}

(* An export that has walked over its rows has an entry for every root     *)
(* there was when it began, whatever was created, cached, sealed or        *)
(* imported during the walk (recovery.go 65-101).                          *)
BackupComplete ==
    \A t \in Threads :
        pc[t] = "exSeed" /\ work[t] = {} => began[t] \subseteq manifest[t]

(* An import restores all the roots of a backup or none: nobody ever sees  *)
(* part of it, through errors, concurrent imports and restarts, and one    *)
(* that goes on to drop the cached seeds has them all in the database.     *)
ImportAllOrNothing ==
    /\ ForeignRoots \subseteq rows \/ ForeignRoots \cap rows = {}
    /\ \A t \in Threads : pc[t] = "imDrop" => manifest[t] \subseteq rows

(* What one request has been allocated is nobody else's: the counter is    *)
(* beyond every index in use, stored or in flight.                         *)
Allocated == {"wlSeed", "wlOpen", "wlCache", "wlUse", "wlInsert"}
NoIndexReuse ==
    /\ \A w \in wallets : w.index < counter[w.root]
    /\ \A t \in Threads : pc[t] \in Allocated =>
         /\ index[t] < counter[root[t]]
         /\ \A w \in wallets : w.root = root[t] => w.index # index[t]
         /\ \A u \in Threads \ {t} :
              pc[u] \in Allocated /\ root[u] = root[t] => index[u] # index[t]

D == INSTANCE WalletDirectory

(* The services implement the wallet directory: roots are never lost, a    *)
(* user of a root gets one wallet for ever, at an index of its own.        *)
ImplementsDirectory == D!Spec
-----------------------------------------------------------------------------
(* The strengthening of the invariants above that a step preserves.        *)

Creating == {"crSeal", "crStore", "crPersist", "crRollback"}
ForWallet == {"wlLookup", "wlCheck", "wlRoot", "wlIndex", "wlReload"} \cup Allocated
Restoring == {"imRead", "imInsert"}

\* What a request carries at each step.
LocalInv ==
    \A t \in Threads :
        /\ pc[t] \in Creating => root[t] \in Roots \ ForeignRoots
        /\ pc[t] \in ForWallet => root[t] \in Roots /\ user[t] \in Users
        /\ pc[t] \in {"wlIndex"} \cup Allocated => root[t] \in rows
        /\ pc[t] \in {"exOpen", "imInsert"} => root[t] \in Roots

\* An export has packed, or is still to pack, the rows there were when it
\* began.
ExportInv ==
    \A t \in Threads :
        /\ pc[t] \in {"exCheck", "exList"} =>
             began[t] \subseteq rows /\ manifest[t] = {}
        /\ pc[t] \in {"exSeed", "exOpen"} => began[t] \subseteq manifest[t] \cup work[t]
        /\ pc[t] = "exOpen" => root[t] \in work[t]

\* All of the foreign roots, or none.
Whole(S) == ForeignRoots \subseteq S \/ ForeignRoots \cap S = {}

\* What an import has restored, and what it is to restore.
ImportInv ==
    /\ ForeignRoots \subseteq used
    /\ Whole(rows)
    /\ \A b \in backups : Whole(b)
    /\ \A t \in Threads :
         /\ IF pc[t] \in {"exSeed", "exOpen"} THEN Whole(manifest[t] \cup work[t])
                                             ELSE Whole(manifest[t])
         /\ open[t] \subseteq manifest[t]
         /\ open[t] # {} => pc[t] \in Restoring
         /\ pc[t] \in Restoring => manifest[t] \subseteq rows \cup open[t] \cup work[t]
         /\ pc[t] = "imInsert" => root[t] \in manifest[t]
         /\ pc[t] \in Restoring => work[t] \subseteq manifest[t]
         /\ pc[t] = "imDrop" => manifest[t] \subseteq rows

IInv ==
    /\ TypeOK
    /\ LocalInv
    /\ NoIndexReuse
    /\ ConflictIsOwnWallet
    /\ ReturnedWalletExists
    /\ NoOrphanSeed
    /\ ExportInv
    /\ ImportInv
=============================================================================
