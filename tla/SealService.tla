----------------------------- MODULE SealService -----------------------------
(***************************************************************************)
(* The seal service (internal/core/service/seal.go) over the durable       *)
(* unseal key slots (unseal_key_slot_repository.go) and the runtime store, *)
(* which is the atomic vault that SecretStore implements.  Each request    *)
(* runs on a thread of its own, one step per database statement and one    *)
(* per call on the store; the process may crash between any two of them.   *)
(*                                                                         *)
(* The secrets one Initialize generates are named by the thread that ran   *)
(* it: a losing Initialize wipes them, and at most one wins.               *)
(* A definition named Op_Fault is Op with a plausible bug.                 *)
(***************************************************************************)
EXTENDS Naturals, FiniteSets

CONSTANTS Threads,   \* requests served at once
          MaxKeys,   \* bound: the largest unseal key count (maxUnsealKeys)
          NoThread,  \* no row, or credential material that belongs to no slot
          NoReply, Ok, Refused, Failed   \* answers without a status

Slots == 1..MaxKeys
States == {"UNINITIALIZED", "SEALED", "UNSEALED"}
Status == [state : States, submitted : 0..MaxKeys, required : 0..MaxKeys]

ASSUME SealAssumption ==
    /\ MaxKeys \in Nat \ {0}
    /\ NoThread \notin Threads

VARIABLES
    rows,      \* durable: slot id -> the Initialize that generated it
    issued,    \* history: <<Initialize, n>> whose credentials were returned
    tx,        \* thread -> slots its open transaction has inserted, 0 if none
    required, pending, unsealed,   \* the vault
    contrib,   \* history: slots whose issued credential the store has accepted
               \* since it was last emptied
    pc,        \* where each request stands
    keys,      \* the count a request was given, or read
    slot, cred,\* the slot and the credential of a submission
    read,      \* the Progress a status request has read
    reply      \* thread -> the status its last request returned

dbVars == <<rows, issued, tx>>
vaultVars == <<required, pending, unsealed, contrib>>
vars == <<dbVars, vaultVars, pc, keys, slot, cred, read, reply>>

V == INSTANCE Vault WITH Roots <- {}, cached <- {}

Steps == {"idle", "initCount", "initExists", "initInsert", "initCommit",
          "subCount", "subConfigure", "subVerify", "subKey",
          "sealCount", "sealClear",
          "statusCount", "statusProgress", "statusUnsealed"}

TypeOK ==
    /\ rows \in [Slots -> Threads \cup {NoThread}]
    /\ issued \subseteq Threads \X Slots
    /\ tx \in [Threads -> 0..MaxKeys]
    /\ required \in 0..MaxKeys
    /\ pending \subseteq Slots
    /\ unsealed \in BOOLEAN
    /\ contrib \subseteq Slots
    /\ pc \in [Threads -> Steps]
    /\ keys \in [Threads -> 0..MaxKeys]
    /\ slot \in [Threads -> 0..MaxKeys]
    /\ cred \in [Threads -> Threads \cup {NoThread}]
    /\ read \in [Threads -> 0..MaxKeys]
    /\ reply \in [Threads -> Status \cup {NoReply, Ok, Refused, Failed}]

Init ==
    /\ rows = [k \in Slots |-> NoThread]
    /\ issued = {}
    /\ tx = [t \in Threads |-> 0]
    /\ V!Init
    /\ contrib = {}
    /\ pc = [t \in Threads |-> "idle"]
    /\ keys = [t \in Threads |-> 0]
    /\ slot = [t \in Threads |-> 0]
    /\ cred = [t \in Threads |-> NoThread]
    /\ read = [t \in Threads |-> 0]
    /\ reply = [t \in Threads |-> NoReply]

\* unsealRepository.Count
Persisted == {k \in Slots : rows[k] # NoThread}
Count == Cardinality(Persisted)
-----------------------------------------------------------------------------
(* Moving a request on, and ending it: its locals are forgotten.           *)

Goto(t, step) == pc' = [pc EXCEPT ![t] = step]

Return(t, answer) ==
    /\ Goto(t, "idle")
    /\ keys' = [keys EXCEPT ![t] = 0]
    /\ slot' = [slot EXCEPT ![t] = 0]
    /\ cred' = [cred EXCEPT ![t] = NoThread]
    /\ read' = [read EXCEPT ![t] = 0]
    /\ reply' = [reply EXCEPT ![t] = answer]

\* An invalid or untimely request; a database error or a failed derivation.
Refuse(t) == Return(t, Refused)
Fail(t) == Return(t, Failed)

Continue(t, step) ==
    /\ Goto(t, step)
    /\ UNCHANGED <<keys, slot, cred, read, reply>>

Begin(t, step, n, k, c) ==
    /\ pc[t] = "idle"
    /\ Goto(t, step)
    /\ keys' = [keys EXCEPT ![t] = n]
    /\ slot' = [slot EXCEPT ![t] = k]
    /\ cred' = [cred EXCEPT ![t] = c]
    /\ reply' = [reply EXCEPT ![t] = NoReply]
    /\ UNCHANGED <<dbVars, vaultVars, read>>

\* Count, then the next step with what it read.
CountThen(t, step) ==
    /\ Goto(t, step)
    /\ keys' = [keys EXCEPT ![t] = Count]
    /\ UNCHANGED <<slot, cred, read, reply>>
-----------------------------------------------------------------------------
(* Initialize                                                              *)

InitCount_ConfiguresStore(t) ==
    /\ pc[t] = "initCount"
    /\ IF Count # 0
         THEN Refuse(t) /\ UNCHANGED required
         ELSE /\ Continue(t, "initExists")
              /\ required' = IF required = 0 THEN keys[t] ELSE required
    /\ UNCHANGED <<dbVars, pending, unsealed, contrib>>

InitCount(t) ==
    /\ pc[t] = "initCount"
    /\ IF Count # 0 THEN Refuse(t)
                    ELSE Continue(t, "initExists")
    /\ UNCHANGED <<dbVars, vaultVars>>

\* CreateInitial opens its transaction and looks for committed rows.
InitExists(t) ==
    /\ pc[t] = "initExists"
    /\ IF Count # 0 THEN Refuse(t)
                    ELSE Continue(t, "initInsert")
    /\ UNCHANGED <<dbVars, vaultVars>>

InitInsert_OnConflictDoNothing(t) ==
    /\ pc[t] = "initInsert"
    /\ \A u \in Threads : tx[u] = 0
    /\ tx' = [tx EXCEPT ![t] = keys[t]]
    /\ Continue(t, "initCommit")
    /\ UNCHANGED <<rows, issued, vaultVars>>

\* The bulk INSERT: slot 1 is in every attempt, so it waits for another open
\* transaction to end, and fails on the primary key if that one committed.
InitInsert(t) ==
    /\ pc[t] = "initInsert"
    /\ \A u \in Threads : tx[u] = 0
    /\ IF Count # 0
         THEN Refuse(t) /\ UNCHANGED tx
         ELSE /\ tx' = [tx EXCEPT ![t] = keys[t]]
              /\ Continue(t, "initCommit")
    /\ UNCHANGED <<rows, issued, vaultVars>>

\* The commit; the credentials are returned unless its acknowledgement is lost.
InitCommit(t) ==
    /\ pc[t] = "initCommit"
    /\ rows' = [k \in Slots |->
                  IF rows[k] = NoThread /\ k <= tx[t] THEN t ELSE rows[k]]
    /\ tx' = [tx EXCEPT ![t] = 0]
    /\ \/ issued' = issued \cup {<<t, keys[t]>>} /\ Return(t, Ok)
       \/ issued' = issued /\ Fail(t)
    /\ UNCHANGED vaultVars
-----------------------------------------------------------------------------
(* SubmitUnsealCredential                                                  *)

\* An owner sends a credential it was issued; anyone may send wrong material.
Owners(k) == {c \in Threads : \E n \in Slots : <<c, n>> \in issued /\ k <= n}

SubmitCount(t) ==
    /\ pc[t] = "subCount"
    /\ IF Count = 0 THEN Refuse(t) ELSE CountThen(t, "subConfigure")
    /\ UNCHANGED <<dbVars, vaultVars>>

SubmitConfigure_Skipped(t) ==
    /\ pc[t] = "subConfigure"
    /\ Continue(t, "subVerify")
    /\ UNCHANGED <<dbVars, vaultVars>>

\* ConfigureUnsealKeyCount: repeated, first, or ErrUnsealConfigurationLocked.
SubmitConfigure(t) ==
    /\ pc[t] = "subConfigure"
    /\ IF required = keys[t]
         THEN Continue(t, "subVerify") /\ UNCHANGED <<required, pending, unsealed>>
         ELSE IF required = 0 /\ pending = {} /\ ~unsealed
           THEN Continue(t, "subVerify") /\ V!Configure(keys[t])
           ELSE Refuse(t) /\ UNCHANGED <<required, pending, unsealed>>
    /\ UNCHANGED <<dbVars, contrib>>

SubmitVerify_ResetOnInvalid(t) ==
    /\ pc[t] = "subVerify"
    /\ IF cred[t] = NoThread \/ rows[slot[t]] # cred[t]
         THEN /\ Refuse(t)
              /\ pending' = {}
              /\ contrib' = IF unsealed THEN contrib ELSE {}
              /\ UNCHANGED <<required, unsealed>>
         ELSE Continue(t, "subKey") /\ UNCHANGED vaultVars
    /\ UNCHANGED dbVars

\* GetByID, the comparison of the payload and the opening of the wrapped key:
\* a row never changes, so they are one step.
SubmitVerify(t) ==
    /\ pc[t] = "subVerify"
    /\ IF cred[t] = NoThread \/ rows[slot[t]] # cred[t]
         THEN Refuse(t)
         ELSE Continue(t, "subKey")
    /\ UNCHANGED <<dbVars, vaultVars>>

Progress_KeyCountedTwice(s, n, up) ==
    [state |-> IF up THEN "UNSEALED" ELSE "SEALED", submitted |-> s + 1, required |-> n]

Progress(s, n, up) ==
    [state |-> IF up THEN "UNSEALED" ELSE "SEALED", submitted |-> s, required |-> n]

\* Whether the credential a submission carries is the one issued for its slot.
Genuine(t) == rows[slot[t]] = cred[t] /\ cred[t] \in Owners(slot[t])

\* The submission that completes the attempt starts the derivation.
CompletesAttempt(t) ==
    ~unsealed /\ slot[t] \in (1..required) \ pending
    /\ pending \cup {slot[t]} = 1..required

\* SubmitUnsealKey: one more key, the last key, a failed derivation, or a
\* key that is refused (unknown slot, duplicate, already unsealed).
SubmitKey(t) ==
    /\ pc[t] = "subKey"
    /\ \/ /\ V!Collect(slot[t])
          /\ contrib' = IF Genuine(t) THEN contrib \cup {slot[t]} ELSE contrib
          /\ Return(t, Progress(Cardinality(pending) + 1, required, FALSE))
       \/ /\ V!Unseal(slot[t])
          /\ contrib' = IF Genuine(t) THEN contrib \cup {slot[t]} ELSE contrib
          /\ Return(t, Progress(required, required, TRUE))
       \/ /\ CompletesAttempt(t)
          /\ V!DropAttempt
          /\ contrib' = {}
          /\ Fail(t)
       \/ /\ unsealed \/ slot[t] \notin (1..required) \ pending
          /\ Refuse(t)
          /\ UNCHANGED vaultVars
    /\ UNCHANGED dbVars
-----------------------------------------------------------------------------
(* Seal and Status                                                         *)

SealCount(t) ==
    /\ pc[t] = "sealCount"
    /\ IF Count = 0 THEN Refuse(t) ELSE CountThen(t, "sealClear")
    /\ UNCHANGED <<dbVars, vaultVars>>

SealClear(t) ==
    /\ pc[t] = "sealClear"
    /\ V!Seal
    /\ contrib' = {}
    /\ Return(t, Ok)
    /\ UNCHANGED dbVars

StatusCount(t) ==
    /\ pc[t] = "statusCount"
    /\ IF Count = 0
         THEN Return(t, [state |-> "UNINITIALIZED", submitted |-> 0, required |-> 0])
         ELSE CountThen(t, "statusProgress")
    /\ UNCHANGED <<dbVars, vaultVars>>

\* statusFromCount takes the store's lock twice: Progress, then IsUnsealed.
StatusProgress(t) ==
    /\ pc[t] = "statusProgress"
    /\ read' = [read EXCEPT ![t] = IF unsealed THEN required ELSE Cardinality(pending)]
    /\ Goto(t, "statusUnsealed")
    /\ UNCHANGED <<dbVars, vaultVars, keys, slot, cred, reply>>

StatusUnsealed(t) ==
    /\ pc[t] = "statusUnsealed"
    /\ Return(t, Progress(IF unsealed THEN keys[t] ELSE read[t], keys[t], unsealed))
    /\ UNCHANGED <<dbVars, vaultVars>>
-----------------------------------------------------------------------------
(* A database statement that fails ends the request; a transaction rolls   *)
(* back.  A process that stops loses its requests and its store.           *)
DbError(t) ==
    /\ pc[t] \in {"initCount", "initExists", "initInsert", "initCommit",
                  "subCount", "subVerify", "sealCount", "statusCount"}
    /\ tx' = [tx EXCEPT ![t] = 0]
    /\ Fail(t)
    /\ UNCHANGED <<rows, issued, vaultVars>>

Crash ==
    /\ tx' = [t \in Threads |-> 0]
    /\ required' = 0 /\ pending' = {} /\ unsealed' = FALSE
    /\ contrib' = {}
    /\ pc' = [t \in Threads |-> "idle"]
    /\ keys' = [t \in Threads |-> 0]
    /\ slot' = [t \in Threads |-> 0]
    /\ cred' = [t \in Threads |-> NoThread]
    /\ read' = [t \in Threads |-> 0]
    /\ reply' = [t \in Threads |-> NoReply]
    /\ UNCHANGED <<rows, issued>>
-----------------------------------------------------------------------------
Submit(t, k, c) == Begin(t, "subCount", 0, k, c)

Request(t) ==
    \/ \E n \in Slots : Begin(t, "initCount", n, 0, NoThread)
    \/ \E k \in Slots : \E c \in Owners(k) \cup {NoThread} : Submit(t, k, c)
    \/ Begin(t, "sealCount", 0, 0, NoThread)
    \/ Begin(t, "statusCount", 0, 0, NoThread)

Serve(t) ==
    \/ InitCount(t) \/ InitExists(t) \/ InitInsert(t) \/ InitCommit(t)
    \/ SubmitCount(t) \/ SubmitConfigure(t) \/ SubmitVerify(t) \/ SubmitKey(t)
    \/ SealCount(t) \/ SealClear(t)
    \/ StatusCount(t) \/ StatusProgress(t) \/ StatusUnsealed(t)

Next ==
    \/ \E t \in Threads : Request(t) \/ Serve(t) \/ DbError(t)
    \/ Crash

Spec == Init /\ [][Next]_vars

\* A request that is being served goes on (SF: the INSERT waits for another
\* transaction, and PostgreSQL's lock queue is fair), and the owners of a
\* sealed vault keep sending their credentials.
Fairness ==
    /\ \A t \in Threads : SF_vars(Serve(t))
    /\ \A k \in Slots :
         SF_vars(\E t \in Threads : \E c \in Owners(k) : Submit(t, k, c))

FairSpec == Spec /\ Fairness
-----------------------------------------------------------------------------
(* However many Initialize requests race, the slots in the database come   *)
(* from one of them and are complete, and the only credentials ever        *)
(* returned are the ones that open them (seal.go 46-96, CreateInitial).    *)
OneInitializer ==
    /\ Persisted # {} =>
         \E t \in Threads, n \in Slots :
            rows = [k \in Slots |-> IF k <= n THEN t ELSE NoThread]
    /\ \A i \in issued :
         rows = [k \in Slots |-> IF k <= i[2] THEN i[1] ELSE NoThread]

(* The runtime key count, when known, is the number of durable slots: a    *)
(* submission that read its count long ago never finds the store locked    *)
(* into another one (seal.go 113-124).                                     *)
ConfigurationNeverLocked ==
    /\ required \in {0, Count}
    /\ required = 0 => pending = {} /\ ~unsealed
    /\ \A t \in Threads : pc[t] = "subConfigure" => keys[t] = Count

(* The vault is unsealed only by the issued credentials of every durable   *)
(* slot, all accepted since it was last sealed, restarted or failed to     *)
(* derive: keys of an earlier attempt never count.                         *)
UnsealedByAllOwners ==
    /\ unsealed => contrib = Persisted /\ Persisted # {}
    /\ ~unsealed => pending = contrib

(* Once an owner's key is accepted, nothing but a seal, a restart or a     *)
(* failed derivation takes it away: a wrong or repeated credential, from   *)
(* whomever, does not disturb the attempt.                                 *)
AttemptOnlyLostBySeal ==
    [][pending \ pending' # {} =>
         \/ unsealed'
         \/ \E t \in Threads : SealClear(t)
         \/ \E t \in Threads : pc[t] = "subKey" /\ Fail(t)
         \/ Crash]_vars

(* If the owners keep sending the credentials they were issued, and from   *)
(* some time on nobody seals, the database answers, the process stays up   *)
(* and the derivation succeeds, the vault is unsealed in the end, restarts *)
(* in the past and wrong or repeated credentials notwithstanding.          *)
Undisturbed ==
    /\ ~Crash
    /\ \A t \in Threads :
        /\ ~DbError(t)
        /\ ~SealClear(t)
        /\ ~(pc[t] = "subKey" /\ Fail(t))
OwnersUnseal ==
    <>[][Undisturbed]_vars => (issued # {} ~> unsealed)

(* The documented N-of-N table (seal-unseal.md 93-95) and the meaning of   *)
(* SEALED: a status that says SEALED has fewer keys submitted than it      *)
(* requires.                                                               *)
SealedIsShort ==
    \A t \in Threads :
        reply[t] \in Status /\ reply[t].state = "SEALED" =>
            reply[t].submitted < reply[t].required
-----------------------------------------------------------------------------
(* The strengthening of the safety invariants that a step preserves.       *)

Initializing == {"initCount", "initExists", "initInsert", "initCommit"}
Submitting == {"subCount", "subConfigure", "subVerify", "subKey"}

\* At most one transaction has inserted slots, and none after one committed.
RowsInv ==
    /\ OneInitializer
    /\ \A t \in Threads :
         /\ pc[t] \in Initializing => keys[t] \in Slots
         /\ tx[t] # 0 => pc[t] = "initCommit"
         /\ pc[t] = "initCommit" => /\ tx[t] = keys[t]
                                   /\ Persisted = {}
                                   /\ \A u \in Threads \ {t} : tx[u] = 0

\* What a submission carries, and what it has established at each step.
SubmitInv ==
    \A t \in Threads :
        /\ pc[t] \in Submitting =>
             /\ slot[t] \in Slots
             /\ cred[t] # NoThread => cred[t] \in Owners(slot[t])
        /\ pc[t] \in Submitting \ {"subCount"} => Persisted # {}
        /\ pc[t] \in {"subVerify", "subKey"} => required = Count
        /\ pc[t] = "subKey" => Genuine(t)

IInv ==
    /\ TypeOK
    /\ RowsInv
    /\ SubmitInv
    /\ ConfigurationNeverLocked
    /\ UnsealedByAllOwners
=============================================================================
