---------------------------- MODULE SecretStore ----------------------------
(***************************************************************************)
(* The runtime secret store at the granularity of its locks: one action    *)
(* per critical section of Store.mu (pkg/secretstore/store.go) and one per *)
(* acquisition of a Secret's own mutex (pkg/securemem/secret.go), for any  *)
(* set of goroutines that call it.                                         *)
(*                                                                         *)
(* A critical section that waits for nothing is one step that needs mu     *)
(* free.  The one section that takes other locks while it holds mu, the    *)
(* derivation of the vault key, keeps mu = its thread from step to step.   *)
(* Every secret is destroyed after mu is released, one mutex at a time.    *)
(*                                                                         *)
(* A definition named Op_Fault is Op with a plausible bug.  Nothing uses   *)
(* it: a property is worth having if some such substitution breaks it.     *)
(***************************************************************************)
EXTENDS Integers, FiniteSets

CONSTANTS Threads,   \* goroutines that call the store
          Secrets,   \* securemem.Secret objects; one is reused once it is garbage
          Roots,     \* KeyRoot ids
          MaxKeys,   \* bound: the largest unseal key count configured
          NoThread, NoSecret, NoRoot

ASSUME MaxKeysAssumption == MaxKeys \in Nat \ {0}
ASSUME NullAssumption ==
    /\ NoThread \notin Threads
    /\ NoSecret \notin Secrets
    /\ NoRoot \notin Roots

VARIABLES
    mu,          \* the thread inside the derivation, which holds Store.mu
    required,    \* requiredUnsealKeys
    submitted,   \* submittedUnsealKeys
    unsealKeys,  \* slot -> its pending unseal key
    vek,         \* vaultEncryptionKey
    seeds,       \* keyRootSeeds: root -> cached seed
    region,      \* secret -> what its protected region holds, "nil" once destroyed
    lockedBy,    \* secret -> the thread holding its mutex (inside WithBytes)
    hashed,      \* slots the running derivation has consumed
    pc,          \* where each thread stands in its call
    own,         \* the secret a thread handed to the store and still carries
    slot, root,  \* the argument of that call
    ref,         \* the pointer a With... call read under the lock
    doomed,      \* the secrets a thread was refused, or detached, and destroys
    owed         \* for a running Clear: what the store had held before it and
                 \* is not yet destroyed (history, read by no action)

storeVars  == <<required, submitted, unsealKeys, vek, seeds>>
callVars   == <<own, slot, root, ref, doomed>>
vars == <<mu, hashed, storeVars, region, lockedBy, pc, callVars, owed>>

Slots == 1..MaxKeys
Kinds == {"unsealKey", "seed", "vek"}
Steps == {"idle", "submit", "derive", "storeSeed", "use", "callback",
          "reenter", "refused", "destroy", "clearing"}
Destroying == {"refused", "destroy", "clearing"}

TypeOK ==
    /\ mu \in Threads \cup {NoThread}
    /\ required \in 0..MaxKeys
    /\ submitted \in 0..MaxKeys
    /\ unsealKeys \in [Slots -> Secrets \cup {NoSecret}]
    /\ vek \in Secrets \cup {NoSecret}
    /\ seeds \in [Roots -> Secrets \cup {NoSecret}]
    /\ region \in [Secrets -> Kinds \cup {"nil"}]
    /\ lockedBy \in [Secrets -> Threads \cup {NoThread}]
    /\ hashed \in 0..MaxKeys
    /\ pc \in [Threads -> Steps]
    /\ own \in [Threads -> Secrets \cup {NoSecret}]
    /\ slot \in [Threads -> 0..MaxKeys]
    /\ root \in [Threads -> Roots \cup {NoRoot}]
    /\ ref \in [Threads -> Secrets \cup {NoSecret}]
    /\ doomed \in [Threads -> SUBSET Secrets]
    /\ owed \in [Threads -> SUBSET Secrets]

Init ==
    /\ mu = NoThread
    /\ required = 0
    /\ submitted = 0
    /\ unsealKeys = [k \in Slots |-> NoSecret]
    /\ vek = NoSecret
    /\ seeds = [r \in Roots |-> NoSecret]
    /\ region = [s \in Secrets |-> "nil"]
    /\ lockedBy = [s \in Secrets |-> NoThread]
    /\ hashed = 0
    /\ pc = [t \in Threads |-> "idle"]
    /\ own = [t \in Threads |-> NoSecret]
    /\ slot = [t \in Threads |-> 0]
    /\ root = [t \in Threads |-> NoRoot]
    /\ ref = [t \in Threads |-> NoSecret]
    /\ doomed = [t \in Threads |-> {}]
    /\ owed = [t \in Threads |-> {}]
-----------------------------------------------------------------------------
(* Who can reach a secret.                                                 *)

Filled == {k \in Slots : unsealKeys[k] # NoSecret}
PendingKeys == {unsealKeys[k] : k \in Filled}
CachedSeeds == {seeds[r] : r \in Roots} \ {NoSecret}
StoreOwns == PendingKeys \cup CachedSeeds \cup ({vek} \ {NoSecret})
Doomed == UNION {doomed[t] : t \in Threads}
\* What the store has held; a secret that was refused it never did.
Detached == UNION {doomed[t] : t \in {u \in Threads : pc[u] # "refused"}}
Live == {s \in Secrets : region[s] # "nil"}

\* A Secret the allocator may hand out: destroyed, and no pointer to it left.
Fresh(s) ==
    /\ region[s] = "nil"
    /\ s \notin StoreOwns
    /\ \A t \in Threads : s # own[t] /\ s # ref[t] /\ s \notin doomed[t]

MuFree == mu = NoThread
-----------------------------------------------------------------------------
(* ConfigureUnsealKeyCount; a repeated or refused call changes nothing.    *)
Configure(t, n) ==
    /\ pc[t] = "idle" /\ MuFree
    /\ required = 0 /\ submitted = 0 /\ vek = NoSecret
    /\ required' = n
    /\ unsealKeys' = [k \in Slots |-> NoSecret]
    /\ UNCHANGED <<mu, hashed, submitted, vek, seeds, region, lockedBy, pc,
                   callVars, owed>>
-----------------------------------------------------------------------------
(* A key of the wrong size, or a seed with an empty root id, is destroyed  *)
(* before Store.mu is ever taken.                                          *)
RefuseEarly(t, s, kind) ==
    /\ pc[t] = "idle"
    /\ Fresh(s)
    /\ region' = [region EXCEPT ![s] = kind]
    /\ doomed' = [doomed EXCEPT ![t] = {s}]
    /\ pc' = [pc EXCEPT ![t] = "refused"]
    /\ UNCHANGED <<mu, hashed, storeVars, lockedBy, own, slot, root, ref, owed>>
-----------------------------------------------------------------------------
(* SubmitUnsealKey.  The caller gives its key away with the call.          *)

SubmitCall(t, k, s) ==
    /\ pc[t] = "idle"
    /\ Fresh(s)
    /\ region' = [region EXCEPT ![s] = "unsealKey"]
    /\ own' = [own EXCEPT ![t] = s]
    /\ slot' = [slot EXCEPT ![t] = k]
    /\ pc' = [pc EXCEPT ![t] = "submit"]
    /\ UNCHANGED <<mu, hashed, storeVars, lockedBy, root, ref, doomed, owed>>

\* A refused secret leaves the section as something to destroy.
Refuse(t) ==
    /\ own' = [own EXCEPT ![t] = NoSecret]
    /\ doomed' = [doomed EXCEPT ![t] = {own[t]}]
    /\ slot' = [slot EXCEPT ![t] = 0]
    /\ root' = [root EXCEPT ![t] = NoRoot]
    /\ pc' = [pc EXCEPT ![t] = "refused"]
    /\ UNCHANGED <<mu, hashed, storeVars, region, lockedBy, ref, owed>>

Acceptable_NoDuplicateCheck(k) == k \in 1..required /\ vek = NoSecret

Acceptable_NoUnsealedCheck(k) == k \in 1..required /\ unsealKeys[k] = NoSecret

Acceptable(k) ==
    /\ k \in 1..required
    /\ vek = NoSecret
    /\ unsealKeys[k] = NoSecret

SubmitReject(t) ==
    /\ pc[t] = "submit" /\ MuFree
    /\ ~Acceptable(slot[t])
    /\ Refuse(t)

SubmitSlot(t) ==
    /\ pc[t] = "submit" /\ MuFree
    /\ Acceptable(slot[t])
    /\ unsealKeys' = [unsealKeys EXCEPT ![slot[t]] = own[t]]
    /\ submitted' = submitted + 1
    /\ own' = [own EXCEPT ![t] = NoSecret]
    /\ UNCHANGED <<required, vek, seeds, region, lockedBy, hashed, root, ref,
                   doomed, owed>>

SubmitStore(t) ==
    /\ submitted + 1 < required
    /\ SubmitSlot(t)
    /\ slot' = [slot EXCEPT ![t] = 0]
    /\ pc' = [pc EXCEPT ![t] = "idle"]
    /\ UNCHANGED mu

\* The last key: the derivation starts, and keeps Store.mu.
SubmitLast(t) ==
    /\ submitted + 1 >= required
    /\ SubmitSlot(t)
    /\ mu' = t
    /\ pc' = [pc EXCEPT ![t] = "derive"]
    /\ UNCHANGED slot

\* deriveVaultEncryptionKeyLocked reads the keys in slot order, each under
\* its own mutex.
DeriveRead(t) ==
    /\ pc[t] = "derive"
    /\ hashed < required
    /\ LET key == unsealKeys[hashed + 1] IN
         /\ key # NoSecret
         /\ region[key] # "nil"
         /\ lockedBy[key] = NoThread
    /\ hashed' = hashed + 1
    /\ UNCHANGED <<mu, storeVars, region, lockedBy, pc, callVars, owed>>

TakeUnsealKeys_CountKept(t) ==
    /\ unsealKeys' = [k \in Slots |-> NoSecret]
    /\ submitted' = submitted

\* takeUnsealKeysLocked: the attempt is detached and reset.
TakeUnsealKeys(t) ==
    /\ unsealKeys' = [k \in Slots |-> NoSecret]
    /\ submitted' = 0

\* The derivation is over: mu is released, and the keys wait for destruction.
LeaveDerivation(t) ==
    /\ TakeUnsealKeys(t)
    /\ doomed' = [doomed EXCEPT ![t] = PendingKeys]
    /\ mu' = NoThread
    /\ hashed' = 0
    /\ slot' = [slot EXCEPT ![t] = 0]
    /\ pc' = [pc EXCEPT ![t] = "destroy"]
    /\ UNCHANGED <<required, seeds, lockedBy, own, root, ref, owed>>

\* A missing slot, a region that cannot be opened, or no memory for the key.
DeriveFail(t) ==
    /\ pc[t] = "derive"
    /\ LeaveDerivation(t)
    /\ UNCHANGED <<vek, region>>

DeriveDone(t, s) ==
    /\ pc[t] = "derive"
    /\ hashed = required
    /\ Fresh(s)
    /\ region' = [region EXCEPT ![s] = "vek"]
    /\ vek' = s
    /\ LeaveDerivation(t)

\* ResetUnsealAttempt
Reset(t) ==
    /\ pc[t] = "idle" /\ MuFree
    /\ vek = NoSecret
    /\ TakeUnsealKeys(t)
    /\ doomed' = [doomed EXCEPT ![t] = PendingKeys]
    /\ pc' = [pc EXCEPT ![t] = "destroy"]
    /\ UNCHANGED <<mu, hashed, required, vek, seeds, region, lockedBy, own,
                   slot, root, ref, owed>>
-----------------------------------------------------------------------------
(* StoreKeyRootSeed and RemoveKeyRootSeed                                  *)

StoreSeedCall(t, r, s) ==
    /\ pc[t] = "idle"
    /\ Fresh(s)
    /\ region' = [region EXCEPT ![s] = "seed"]
    /\ own' = [own EXCEPT ![t] = s]
    /\ root' = [root EXCEPT ![t] = r]
    /\ pc' = [pc EXCEPT ![t] = "storeSeed"]
    /\ UNCHANGED <<mu, hashed, storeVars, lockedBy, slot, ref, doomed, owed>>

SeedAcceptable_NoExistsCheck(r) == vek # NoSecret

SeedAcceptable_NoSealedCheck(r) == seeds[r] = NoSecret

SeedAcceptable(r) == vek # NoSecret /\ seeds[r] = NoSecret

StoreSeedReject(t) ==
    /\ pc[t] = "storeSeed" /\ MuFree
    /\ ~SeedAcceptable(root[t])
    /\ Refuse(t)

StoreSeedKeep(t) ==
    /\ pc[t] = "storeSeed" /\ MuFree
    /\ SeedAcceptable(root[t])
    /\ seeds' = [seeds EXCEPT ![root[t]] = own[t]]
    /\ own' = [own EXCEPT ![t] = NoSecret]
    /\ root' = [root EXCEPT ![t] = NoRoot]
    /\ pc' = [pc EXCEPT ![t] = "idle"]
    /\ UNCHANGED <<mu, hashed, required, submitted, unsealKeys, vek, region,
                   lockedBy, slot, ref, doomed, owed>>

RemoveSeed(t, r) ==
    /\ pc[t] = "idle" /\ MuFree
    /\ seeds[r] # NoSecret
    /\ seeds' = [seeds EXCEPT ![r] = NoSecret]
    /\ doomed' = [doomed EXCEPT ![t] = {seeds[r]}]
    /\ pc' = [pc EXCEPT ![t] = "destroy"]
    /\ UNCHANGED <<mu, hashed, required, submitted, unsealKeys, vek, region,
                   lockedBy, own, slot, root, ref, owed>>

-----------------------------------------------------------------------------
(* WithVaultEncryptionKey and WithKeyRootSeed: the pointer is read under   *)
(* mu and used after it is released.                                       *)

ReadPointer(t, s) ==
    /\ pc[t] = "idle" /\ MuFree
    /\ vek # NoSecret
    /\ s # NoSecret
    /\ ref' = [ref EXCEPT ![t] = s]
    /\ pc' = [pc EXCEPT ![t] = "use"]
    /\ UNCHANGED <<mu, hashed, storeVars, region, lockedBy, own, slot, root,
                   doomed, owed>>

WithVaultEncryptionKey(t) == ReadPointer(t, vek)
WithKeyRootSeed(t, r) == ReadPointer(t, seeds[r])

\* Secret.WithBytes: the mutex, the destroyed check, then the callback, which
\* may call back into the store ("reenter").
Enter(t) ==
    /\ pc[t] = "use"
    /\ lockedBy[ref[t]] = NoThread
    /\ region[ref[t]] # "nil"
    /\ lockedBy' = [lockedBy EXCEPT ![ref[t]] = t]
    /\ \E next \in {"callback", "reenter"} : pc' = [pc EXCEPT ![t] = next]
    /\ UNCHANGED <<mu, hashed, storeVars, region, callVars, owed>>

\* ErrDestroyed: the secret was cleared between the read and the lock.
EnterDestroyed(t) ==
    /\ pc[t] = "use"
    /\ lockedBy[ref[t]] = NoThread
    /\ region[ref[t]] = "nil"
    /\ ref' = [ref EXCEPT ![t] = NoSecret]
    /\ pc' = [pc EXCEPT ![t] = "idle"]
    /\ UNCHANGED <<mu, hashed, storeVars, region, lockedBy, own, slot, root,
                   doomed, owed>>

\* The callback reads Progress or IsUnsealed.
Reenter(t) ==
    /\ pc[t] = "reenter" /\ MuFree
    /\ pc' = [pc EXCEPT ![t] = "callback"]
    /\ UNCHANGED <<mu, hashed, storeVars, region, lockedBy, callVars, owed>>

Leave_MutexKept(t) ==
    /\ pc[t] = "callback"
    /\ ref' = [ref EXCEPT ![t] = NoSecret]
    /\ pc' = [pc EXCEPT ![t] = "idle"]
    /\ UNCHANGED <<mu, hashed, storeVars, region, lockedBy, own, slot, root,
                   doomed, owed>>

Leave(t) ==
    /\ pc[t] = "callback"
    /\ lockedBy' = [lockedBy EXCEPT ![ref[t]] = NoThread]
    /\ ref' = [ref EXCEPT ![t] = NoSecret]
    /\ pc' = [pc EXCEPT ![t] = "idle"]
    /\ UNCHANGED <<mu, hashed, storeVars, region, own, slot, root, doomed, owed>>
-----------------------------------------------------------------------------
(* Clear: everything is detached under mu and destroyed after it.          *)

Clear_SeedsKept(t) ==
    /\ pc[t] = "idle" /\ MuFree
    /\ TakeUnsealKeys(t)
    /\ vek' = NoSecret
    /\ doomed' = [doomed EXCEPT ![t] = StoreOwns \ CachedSeeds]
    /\ owed' = [owed EXCEPT ![t] = StoreOwns \cup Detached]
    /\ pc' = [pc EXCEPT ![t] = "clearing"]
    /\ UNCHANGED <<mu, hashed, required, seeds, region, lockedBy, own, slot,
                   root, ref>>

Clear_MuKept(t) ==
    /\ pc[t] = "idle" /\ MuFree
    /\ mu' = t
    /\ TakeUnsealKeys(t)
    /\ vek' = NoSecret
    /\ seeds' = [r \in Roots |-> NoSecret]
    /\ doomed' = [doomed EXCEPT ![t] = StoreOwns]
    /\ owed' = [owed EXCEPT ![t] = StoreOwns \cup Detached]
    /\ pc' = [pc EXCEPT ![t] = "clearing"]
    /\ UNCHANGED <<hashed, required, region, lockedBy, own, slot, root, ref>>

Clear(t) ==
    /\ pc[t] = "idle" /\ MuFree
    /\ TakeUnsealKeys(t)
    /\ vek' = NoSecret
    /\ seeds' = [r \in Roots |-> NoSecret]
    /\ doomed' = [doomed EXCEPT ![t] = StoreOwns]
    /\ owed' = [owed EXCEPT ![t] = StoreOwns \cup Detached]
    /\ pc' = [pc EXCEPT ![t] = "clearing"]
    /\ UNCHANGED <<mu, hashed, required, region, lockedBy, own, slot, root, ref>>

Destroy_NoLock(t, s) ==
    /\ pc[t] \in Destroying
    /\ s \in doomed[t]
    /\ region' = [region EXCEPT ![s] = "nil"]
    /\ doomed' = [doomed EXCEPT ![t] = @ \ {s}]
    /\ owed' = [u \in Threads |-> owed[u] \ {s}]
    /\ UNCHANGED <<mu, hashed, storeVars, lockedBy, pc, own, slot, root, ref>>

\* Secret.Destroy waits for the secret's mutex; Clear keeps the vault key last.
Destroy(t, s) ==
    /\ pc[t] \in Destroying
    /\ s \in doomed[t]
    /\ region[s] = "vek" => doomed[t] = {s}
    /\ lockedBy[s] = NoThread
    /\ region' = [region EXCEPT ![s] = "nil"]
    /\ doomed' = [doomed EXCEPT ![t] = @ \ {s}]
    /\ owed' = [u \in Threads |-> owed[u] \ {s}]
    /\ UNCHANGED <<mu, hashed, storeVars, lockedBy, pc, own, slot, root, ref>>

Return(t) ==
    /\ pc[t] \in Destroying
    /\ doomed[t] = {}
    /\ owed' = [owed EXCEPT ![t] = {}]
    /\ pc' = [pc EXCEPT ![t] = "idle"]
    /\ UNCHANGED <<mu, hashed, storeVars, region, lockedBy, callVars>>
-----------------------------------------------------------------------------
(* A new call, a section that waits for Store.mu or for a Secret's mutex.  *)
Call(t) ==
    \/ \E n \in Slots : Configure(t, n)
    \/ \E k \in 0..MaxKeys, s \in Secrets : SubmitCall(t, k, s)
    \/ \E s \in Secrets, kind \in {"unsealKey", "seed"} : RefuseEarly(t, s, kind)
    \/ \E r \in Roots, s \in Secrets : StoreSeedCall(t, r, s)
    \/ \E r \in Roots : RemoveSeed(t, r) \/ WithKeyRootSeed(t, r)
    \/ WithVaultEncryptionKey(t)
    \/ Reset(t)
    \/ Clear(t)

StoreSection(t) ==
    \/ SubmitReject(t) \/ SubmitStore(t) \/ SubmitLast(t)
    \/ StoreSeedReject(t) \/ StoreSeedKeep(t)
    \/ Reenter(t)

SecretSection(t) ==
    \/ Enter(t) \/ EnterDestroyed(t)
    \/ DeriveRead(t)
    \/ \E s \in Secrets : Destroy(t, s)

Step(t) ==
    \/ Call(t) \/ StoreSection(t) \/ SecretSection(t)
    \/ DeriveFail(t) \/ \E s \in Secrets : DeriveDone(t, s)
    \/ Leave(t) \/ Return(t)

Next == \E t \in Threads : Step(t)

Spec == Init /\ [][Next]_vars

\* What ends a derivation that has read its keys: securemem.New or its error.
DeriveEnd(t) ==
    /\ hashed = required
    /\ DeriveFail(t) \/ \E s \in Secrets : DeriveDone(t, s)

\* Callers need not call, and a derivation need not fail to read a key.  A
\* call once made is scheduled; callbacks return;
\* a goroutine waiting for a mutex others keep taking gets it in the end
\* (sync.Mutex hands over to a starved waiter, a waiting RWMutex writer holds
\* back new readers).
Fairness ==
    \A t \in Threads :
        /\ SF_vars(StoreSection(t))
        /\ SF_vars(SecretSection(t))
        /\ WF_vars(DeriveEnd(t) \/ Leave(t) \/ Return(t))

FairSpec == Spec /\ Fairness
-----------------------------------------------------------------------------
(* Every secret whose memory is live has exactly one owner that will       *)
(* destroy it: a slot, the vault key field, the seed cache, the call it    *)
(* was handed to, or the loop that is destroying it.  Nothing leaks and    *)
(* nothing is destroyed twice, through every refusal, failure and race of  *)
(* store.go's detach-then-destroy.                                         *)
Owners(s) ==
    {<<"slot", k>> : k \in {k \in Slots : unsealKeys[k] = s}}
    \cup {<<"root", r>> : r \in {r \in Roots : seeds[r] = s}}
    \cup {<<"vek", v>> : v \in {vek} \cap {s}}
    \cup {<<"call", t>> : t \in {t \in Threads : own[t] = s}}
    \cup {<<"loop", t>> : t \in {t \in Threads : s \in doomed[t]}}

OneOwner ==
    \A s \in Secrets :
        IF s \in Live THEN \E o \in Owners(s) : Owners(s) = {o}
                      ELSE Owners(s) = {}

(* No callback of WithBytes ever runs over destroyed memory, and none runs *)
(* over an unseal key: those are read by the derivation alone.             *)
CallbackSafe ==
    \A s \in Secrets : lockedBy[s] # NoThread => region[s] \in {"seed", "vek"}

(* A sealed store caches no seed, an unsealed one holds no unseal key, and *)
(* an attempt that is not being derived is short of a key.                 *)
SealedIsEmpty ==
    /\ vek = NoSecret => CachedSeeds = {}
    /\ vek # NoSecret => PendingKeys = {}
    /\ submitted = Cardinality(Filled)
    /\ MuFree => submitted < required \/ submitted = 0

(* The derivation, which waits for Secret mutexes while it holds Store.mu, *)
(* never meets a missing, destroyed or locked key: so it cannot block the  *)
(* store (store.go 435-481), and its "missing unseal key slot" is dead.    *)
DeriveNeverBlocks ==
    mu # NoThread =>
        \A k \in 1..required :
            /\ unsealKeys[k] # NoSecret
            /\ region[unsealKeys[k]] = "unsealKey"
            /\ lockedBy[unsealKeys[k]] = NoThread

(* When Clear returns, a secret the store held before it survives only in  *)
(* the hands of a concurrent call that is already destroying it.           *)
ClearLeavesOnlyDoomed ==
    \A t \in Threads :
        pc[t] = "clearing" /\ doomed[t] = {} => owed[t] \subseteq Detached

(* The comment on Clear (store.go 361-366): after Clear returns the vault  *)
(* key, which the store held before it, no longer exists.                  *)
ClearEndsVaultKey ==
    \A t \in Threads :
        pc[t] = "clearing" /\ doomed[t] = {} => \A s \in owed[t] : region[s] # "vek"

(* Secrets refused, or detached by a seal, a removal, a reset or a finished *)
(* attempt, are in the end destroyed, whatever callbacks hold them.        *)
DetachedIsDestroyed ==
    \A s \in Secrets : s \in Doomed ~> s \notin Live

(* Every call on the store returns: no lock order, callback or re-entry    *)
(* leaves it waiting for ever (the deadlock Clear's comment is about).     *)
CallsReturn == \A t \in Threads : pc[t] # "idle" ~> pc[t] = "idle"
-----------------------------------------------------------------------------
(* The strengthening of the invariants above that a step preserves.        *)

\* What the store holds is live, of its kind, and held once.
StoreInv ==
    /\ \A k \in Filled :
         /\ region[unsealKeys[k]] = "unsealKey"
         /\ \A j \in Slots : unsealKeys[j] = unsealKeys[k] => j = k
    /\ \A r \in Roots :
         seeds[r] # NoSecret =>
            /\ region[seeds[r]] = "seed"
            /\ \A q \in Roots : seeds[q] = seeds[r] => q = r
    /\ vek # NoSecret => region[vek] = "vek"

\* A secret handed to a call belongs to that call alone.
CallInv ==
    \A t \in Threads :
        /\ pc[t] \in {"submit", "storeSeed"} => own[t] # NoSecret
        /\ pc[t] = "storeSeed" => root[t] \in Roots
        /\ own[t] # NoSecret =>
            /\ \/ pc[t] = "submit" /\ region[own[t]] = "unsealKey"
               \/ pc[t] = "storeSeed" /\ region[own[t]] = "seed"
            /\ own[t] \notin StoreOwns
            /\ \A u \in Threads : own[u] = own[t] => u = t

\* A secret in a destruction loop belongs to that loop alone.
LoopInv ==
    \A t \in Threads : \A s \in doomed[t] :
        /\ pc[t] \in Destroying
        /\ region[s] # "nil"
        /\ s \notin StoreOwns
        /\ \A u \in Threads : own[u] # s /\ (s \in doomed[u] => u = t)

\* A live secret has an owner.
NoLeak ==
    \A s \in Live :
        s \in StoreOwns \/ \E t \in Threads : own[t] = s \/ s \in doomed[t]

\* A pointer read under mu never comes to point at an unseal key, and a
\* secret's mutex is held by the call whose callback runs.
LockInv ==
    /\ \A t \in Threads :
         /\ pc[t] \in {"use", "callback", "reenter"} <=> ref[t] # NoSecret
         /\ ref[t] # NoSecret => region[ref[t]] # "unsealKey"
         /\ pc[t] \in {"callback", "reenter"} => lockedBy[ref[t]] = t
    /\ \A s \in Secrets : lockedBy[s] # NoThread =>
         /\ pc[lockedBy[s]] \in {"callback", "reenter"}
         /\ ref[lockedBy[s]] = s
         /\ region[s] # "nil"

\* The attempt: what is filled, and who is deriving from it.
AttemptInv ==
    /\ Filled \subseteq 1..required
    /\ submitted = Cardinality(Filled)
    /\ vek = NoSecret => CachedSeeds = {}
    /\ vek # NoSecret => Filled = {}
    /\ \A t \in Threads : pc[t] = "derive" <=> mu = t
    /\ mu = NoThread => submitted < required \/ submitted = 0
    /\ mu # NoThread => submitted >= required /\ vek = NoSecret
                        /\ slot[mu] \in Filled

\* What a Clear was given before it is still owned as long as it is live.
OwedInv ==
    \A t \in Threads :
        /\ pc[t] = "clearing" => owed[t] \subseteq Detached
        /\ pc[t] # "clearing" => owed[t] = {}

IInv ==
    /\ TypeOK
    /\ StoreInv
    /\ CallInv
    /\ LoopInv
    /\ NoLeak
    /\ LockInv
    /\ AttemptInv
    /\ OwedInv
-----------------------------------------------------------------------------
\* The slot being derived becomes visible with the outcome of its derivation.
PendingSlots == Filled \ {slot[t] : t \in {u \in Threads : mu = u}}

Abstract == INSTANCE Vault WITH
    pending <- PendingSlots,
    unsealed <- vek # NoSecret,
    cached <- {r \in Roots : seeds[r] # NoSecret}

(* Seen through its mutex, the store is the atomic vault: it unseals only  *)
(* with every slot of one attempt, and seals all at once.                  *)
ImplementsVault == Abstract!Spec
=============================================================================
