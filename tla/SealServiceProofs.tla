-------------------------- MODULE SealServiceProofs --------------------------
(***************************************************************************)
(* For any number of requests and keys: the safety properties of           *)
(* SealService, from one inductive invariant, and its action property.     *)
(* That the owners unseal the vault in the end is left to TLC.             *)
(***************************************************************************)
EXTENDS SealService, TLAPS, FiniteSetTheorems

(* The durable slots are 1 to their count: one Initialize has written them *)
(* all, or none has (CreateInitial).                                       *)
LEMMA SlotsCount ==
    ASSUME TypeOK, OneInitializer
    PROVE  /\ Count \in 0..MaxKeys
           /\ Persisted = 1..Count
           /\ Count = 0 <=> Persisted = {}
<1>1. CASE Persisted = {}
  BY <1>1, FS_EmptySet, SealAssumption DEF Count
<1>2. CASE Persisted # {}
  <2>1. PICK t \in Threads, n \in Slots :
          rows = [k \in Slots |-> IF k <= n THEN t ELSE NoThread]
    BY <1>2 DEF OneInitializer
  <2>2. Persisted = 1..n
    BY <2>1, SealAssumption DEF Persisted, Slots
  <2>3. Cardinality(1..n) = n /\ n \in 1..MaxKeys
    BY FS_Interval, SealAssumption DEF Slots
  <2> QED  BY <2>2, <2>3 DEF Count
<1> QED  BY <1>1, <1>2

(* An attempt that lacks a slot has room for one more key.                 *)
LEMMA PendingCount ==
    ASSUME TypeOK, NEW k \in Slots \ pending
    PROVE  Cardinality(pending) + 1 \in 0..MaxKeys
<1>1. IsFiniteSet(Slots) /\ Cardinality(Slots) = MaxKeys
  BY FS_Interval, SealAssumption DEF Slots
<1>2. pending \cup {k} \subseteq Slots
  BY DEF TypeOK
<1>3. IsFiniteSet(pending \cup {k}) /\ Cardinality(pending \cup {k}) <= MaxKeys
  BY <1>1, <1>2, FS_Subset
<1>4. IsFiniteSet(pending)
  BY <1>1, FS_Subset DEF TypeOK
<1>5. Cardinality(pending \cup {k}) = Cardinality(pending) + 1
  BY <1>4, FS_AddElement
<1> QED  BY <1>3, <1>4, <1>5, FS_CardinalityType, SealAssumption

(* An attempt never has more keys than there are slots.                    *)
LEMMA PendingBound ==
    ASSUME TypeOK
    PROVE  Cardinality(pending) \in 0..MaxKeys
<1>1. IsFiniteSet(Slots) /\ Cardinality(Slots) = MaxKeys
  BY FS_Interval, SealAssumption DEF Slots
<1>2. IsFiniteSet(pending) /\ Cardinality(pending) <= MaxKeys
  BY <1>1, FS_Subset DEF TypeOK
<1> QED  BY <1>2, FS_CardinalityType, SealAssumption

(* Only the commit of an Initialize changes what Count returns.            *)
LEMMA CountStable ==
    ASSUME UNCHANGED rows
    PROVE  /\ Persisted' = Persisted
           /\ Count' = Count
  BY DEF Persisted, Count

(* Every step keeps the state well typed; in particular no status reports  *)
(* more keys than MaxKeys.                                                 *)
LEMMA TypeStep ==
    IInv /\ [Next]_vars => TypeOK'
<1> SUFFICES ASSUME IInv, [Next]_vars
             PROVE  TypeOK'
  OBVIOUS
<1> USE SealAssumption DEF dbVars, vaultVars, Continue, Goto, Return, Refuse,
    Fail, TypeOK, Steps, States
<1>a. TypeOK /\ RowsInv /\ SubmitInv /\ OneInitializer
  BY DEF IInv, RowsInv
<1>b. Count \in 0..MaxKeys
  BY <1>a, SlotsCount
<1>1. ASSUME NEW t \in Threads, NEW n \in Slots, Begin(t, "initCount", n, 0,
            NoThread)
      PROVE  TypeOK'
  BY <1>1, <1>a DEF Begin, Slots
<1>2. ASSUME NEW t \in Threads, NEW k \in Slots, NEW c \in Owners(k) \cup
            {NoThread}, Submit(t, k, c)
      PROVE  TypeOK'
  BY <1>2, <1>a DEF Submit, Begin, Slots, Owners
<1>3. ASSUME NEW t \in Threads, Begin(t, "sealCount", 0, 0, NoThread)
      PROVE  TypeOK'
  BY <1>3, <1>a DEF Begin
<1>4. ASSUME NEW t \in Threads, Begin(t, "statusCount", 0, 0, NoThread)
      PROVE  TypeOK'
  BY <1>4, <1>a DEF Begin
<1>5. ASSUME NEW t \in Threads, InitCount(t)
      PROVE  TypeOK'
  BY <1>5, <1>a DEF InitCount
<1>6. ASSUME NEW t \in Threads, InitExists(t)
      PROVE  TypeOK'
  BY <1>6, <1>a DEF InitExists
<1>7. ASSUME NEW t \in Threads, InitInsert(t)
      PROVE  TypeOK'
  BY <1>7, <1>a DEF InitInsert
<1>8. ASSUME NEW t \in Threads, InitCommit(t)
      PROVE  TypeOK'
  BY <1>8, <1>a DEF InitCommit, RowsInv, Initializing
<1>9. ASSUME NEW t \in Threads, SubmitCount(t)
      PROVE  TypeOK'
  BY <1>9, <1>a, <1>b DEF SubmitCount, CountThen
<1>10. ASSUME NEW t \in Threads, SubmitConfigure(t)
      PROVE  TypeOK'
  BY <1>10, <1>a DEF SubmitConfigure, V!Configure
<1>11. ASSUME NEW t \in Threads, SubmitVerify(t)
      PROVE  TypeOK'
  BY <1>11, <1>a DEF SubmitVerify
<1>12. ASSUME NEW t \in Threads, SubmitKey(t)
      PROVE  TypeOK'
  <2>1. slot[t] \in Slots
    BY <1>12, <1>a DEF SubmitKey, SubmitInv, Submitting
  <2>2. CASE V!Collect(slot[t]) /\ Return(t, Progress(Cardinality(pending) + 1, required, FALSE))
    <3>1. Progress(Cardinality(pending) + 1, required, FALSE) \in Status
      BY <1>a, <2>1, <2>2, PendingCount DEF V!Collect, Progress, Status
    <3>2. reply' \in [Threads -> Status \cup {NoReply, Ok, Refused, Failed}]
      BY <1>a, <2>2, <3>1
    <3>3. contrib' \subseteq Slots /\ UNCHANGED <<rows, issued, tx>>
      BY <1>12, <1>a, <2>1 DEF SubmitKey
    <3>4. pending' \subseteq Slots /\ UNCHANGED <<required, unsealed>>
      BY <1>a, <2>1, <2>2 DEF V!Collect
    <3>5. /\ pc' \in [Threads -> Steps]
          /\ keys' \in [Threads -> 0..MaxKeys] /\ slot' \in [Threads -> 0..MaxKeys]
          /\ read' \in [Threads -> 0..MaxKeys] /\ cred' \in [Threads -> Threads \cup {NoThread}]
      BY <1>a, <2>2
    <3> HIDE DEF Return, Status
    <3> QED  BY <1>a, <3>2, <3>3, <3>4, <3>5
  <2>3. CASE V!Unseal(slot[t]) /\ Return(t, Progress(required, required, TRUE))
    <3>1. Progress(required, required, TRUE) \in Status
      BY <1>a DEF Progress, Status
    <3>2. reply' \in [Threads -> Status \cup {NoReply, Ok, Refused, Failed}]
      BY <1>a, <2>3, <3>1
    <3>3. unsealed' \in BOOLEAN /\ pending' = {} /\ required' = required
      BY <2>3 DEF V!Unseal
    <3>4. contrib' \subseteq Slots /\ UNCHANGED <<rows, issued, tx>>
      BY <1>12, <1>a, <2>1 DEF SubmitKey
    <3>5. /\ pc' \in [Threads -> Steps]
          /\ keys' \in [Threads -> 0..MaxKeys] /\ slot' \in [Threads -> 0..MaxKeys]
          /\ read' \in [Threads -> 0..MaxKeys] /\ cred' \in [Threads -> Threads \cup {NoThread}]
      BY <1>a, <2>3
    <3> HIDE DEF Return, Status
    <3> QED  BY <1>a, <3>2, <3>3, <3>4, <3>5
  <2>4. CASE V!DropAttempt /\ contrib' = {} /\ Fail(t)
    BY <1>12, <1>a, <2>4 DEF SubmitKey, V!DropAttempt
  <2>5. CASE Refuse(t) /\ UNCHANGED vaultVars
    BY <1>12, <1>a, <2>5 DEF SubmitKey
  <2> QED  BY <1>12, <2>2, <2>3, <2>4, <2>5 DEF SubmitKey
<1>13. ASSUME NEW t \in Threads, SealCount(t)
      PROVE  TypeOK'
  BY <1>13, <1>a, <1>b DEF SealCount, CountThen
<1>14. ASSUME NEW t \in Threads, SealClear(t)
      PROVE  TypeOK'
  <2>1. unsealed' \in BOOLEAN /\ pending' = {} /\ required' = required
    BY <1>14 DEF SealClear, V!Seal
  <2> QED  BY <1>14, <1>a, <2>1 DEF SealClear
<1>15. ASSUME NEW t \in Threads, StatusCount(t)
      PROVE  TypeOK'
  BY <1>15, <1>a, <1>b DEF StatusCount, CountThen, Status
<1>16. ASSUME NEW t \in Threads, StatusProgress(t)
      PROVE  TypeOK'
  BY <1>16, <1>a, PendingBound DEF StatusProgress
<1>17. ASSUME NEW t \in Threads, StatusUnsealed(t)
      PROVE  TypeOK'
  BY <1>17, <1>a DEF StatusUnsealed, Progress, Status
<1>18. ASSUME NEW t \in Threads, DbError(t)
      PROVE  TypeOK'
  BY <1>18, <1>a DEF DbError
<1>19. ASSUME Crash
      PROVE  TypeOK'
  <2>1. unsealed' \in BOOLEAN
    BY <1>19 DEF Crash
  <2>2. /\ tx' \in [Threads -> 0..MaxKeys] /\ pc' \in [Threads -> Steps]
        /\ keys' \in [Threads -> 0..MaxKeys] /\ slot' \in [Threads -> 0..MaxKeys]
        /\ read' \in [Threads -> 0..MaxKeys]
    BY <1>19 DEF Crash
  <2>3. /\ cred' \in [Threads -> Threads \cup {NoThread}]
        /\ reply' \in [Threads -> Status \cup {NoReply, Ok, Refused, Failed}]
    BY <1>19 DEF Crash
  <2>4. rows' = rows /\ issued' = issued /\ required' = 0 /\ pending' = {} /\ contrib' = {}
    BY <1>19 DEF Crash
  <2> QED  BY <1>a, <2>1, <2>2, <2>3, <2>4
<1>20. CASE UNCHANGED vars
  BY <1>20, <1>a DEF vars
<1> QED  BY <1>1, <1>2, <1>3, <1>4, <1>5, <1>6, <1>7, <1>8, <1>9, <1>10,
    <1>11, <1>12, <1>13, <1>14, <1>15, <1>16, <1>17, <1>18, <1>19, <1>20 DEF
    Next, Request, Serve

(* Slots are written by one transaction at a time and only into an empty   *)
(* table, and credentials are returned only by the one that wrote them.    *)
LEMMA RowsStep ==
    IInv /\ [Next]_vars => RowsInv'
<1> SUFFICES ASSUME IInv, [Next]_vars
             PROVE  RowsInv'
  OBVIOUS
<1> USE SealAssumption DEF dbVars, vaultVars, Continue, Goto, Return, Refuse,
    Fail, TypeOK, RowsInv, Initializing
<1>a. TypeOK /\ RowsInv /\ OneInitializer
  BY DEF IInv
<1>b. (UNCHANGED rows) => Persisted' = Persisted
  BY CountStable
<1>c. Count = 0 <=> Persisted = {}
  BY <1>a, SlotsCount
<1>d. (UNCHANGED <<rows, issued>>) => OneInitializer'
  BY <1>a, <1>b DEF OneInitializer
<1>1. ASSUME NEW t \in Threads, NEW n \in Slots, Begin(t, "initCount", n, 0,
            NoThread)
      PROVE  RowsInv'
  BY <1>1, <1>a, <1>b, <1>c, <1>d DEF Begin
<1>2. ASSUME NEW t \in Threads, NEW k \in Slots, NEW c \in Owners(k) \cup
            {NoThread}, Submit(t, k, c)
      PROVE  RowsInv'
  BY <1>2, <1>a, <1>b, <1>c, <1>d DEF Submit, Begin
<1>3. ASSUME NEW t \in Threads, Begin(t, "sealCount", 0, 0, NoThread)
      PROVE  RowsInv'
  BY <1>3, <1>a, <1>b, <1>c, <1>d DEF Begin
<1>4. ASSUME NEW t \in Threads, Begin(t, "statusCount", 0, 0, NoThread)
      PROVE  RowsInv'
  BY <1>4, <1>a, <1>b, <1>c, <1>d DEF Begin
<1>5. ASSUME NEW t \in Threads, InitCount(t)
      PROVE  RowsInv'
  BY <1>5, <1>a, <1>b, <1>c, <1>d DEF InitCount
<1>6. ASSUME NEW t \in Threads, InitExists(t)
      PROVE  RowsInv'
  BY <1>6, <1>a, <1>b, <1>c, <1>d DEF InitExists
<1>7. ASSUME NEW t \in Threads, InitInsert(t)
      PROVE  RowsInv'
  <2>1. CASE Refuse(t) /\ UNCHANGED tx
    BY <1>7, <1>a, <1>b, <1>d, <2>1 DEF InitInsert
  <2>2. CASE Count = 0 /\ tx' = [tx EXCEPT ![t] = keys[t]] /\ Continue(t, "initCommit")
    <3>1. Persisted' = {} /\ OneInitializer'
      BY <1>7, <1>b, <1>c, <1>d, <2>2 DEF InitInsert
    <3>2. \A u \in Threads : tx[u] = 0
      BY <1>7 DEF InitInsert
    <3>3. pc[t] = "initInsert" /\ keys[t] \in Slots /\ keys' = keys
      BY <1>7, <1>a, <2>2 DEF InitInsert
    <3>4. \A u \in Threads : pc[u] # "initCommit"
      BY <1>a, <3>2 DEF Slots
    <3> QED  BY <1>a, <2>2, <3>1, <3>2, <3>3, <3>4
  <2> QED  BY <1>7, <2>1, <2>2 DEF InitInsert
<1>8. ASSUME NEW t \in Threads, InitCommit(t)
      PROVE  RowsInv'
  <2>1. pc[t] = "initCommit" /\ tx[t] = keys[t] /\ keys[t] \in Slots /\ Persisted = {}
    BY <1>8, <1>a DEF InitCommit
  <2>2. \A k \in Slots : rows[k] = NoThread
    BY <2>1 DEF Persisted
  <2>3. issued = {}
    <3>1. SUFFICES ASSUME NEW i \in issued PROVE FALSE
      OBVIOUS
    <3>2. i \in Threads \X Slots /\ 1 \in Slots /\ 1 <= i[2]
      BY <1>a, SealAssumption DEF Slots
    <3>3. rows[1] = i[1]
      BY <1>a, <3>2 DEF OneInitializer
    <3> QED  BY <2>2, <3>2, <3>3, SealAssumption
  <2>4. rows' = [k \in Slots |-> IF k <= keys[t] THEN t ELSE NoThread]
    BY <1>8, <2>1, <2>2 DEF InitCommit
  <2>5. issued' = {} \/ issued' = {<<t, keys[t]>>}
    BY <1>8, <2>3 DEF InitCommit
  <2>6. OneInitializer'
    BY <2>1, <2>4, <2>5 DEF OneInitializer
  <2>7. \A u \in Threads : pc'[u] # "initCommit" /\ tx'[u] = 0
    BY <1>8, <1>a, <2>1 DEF InitCommit, Slots
  <2>8. \A u \in Threads \ {t} : pc'[u] = pc[u] /\ keys'[u] = keys[u]
    BY <1>8, <1>a DEF InitCommit
  <2>9. pc'[t] = "idle"
    BY <1>8, <1>a DEF InitCommit
  <2> QED  BY <1>a, <2>6, <2>7, <2>8, <2>9
<1>9. ASSUME NEW t \in Threads, SubmitCount(t)
      PROVE  RowsInv'
  BY <1>9, <1>a, <1>b, <1>c, <1>d DEF SubmitCount, CountThen
<1>10. ASSUME NEW t \in Threads, SubmitConfigure(t)
      PROVE  RowsInv'
  BY <1>10, <1>a, <1>b, <1>c, <1>d DEF SubmitConfigure, V!Configure
<1>11. ASSUME NEW t \in Threads, SubmitVerify(t)
      PROVE  RowsInv'
  BY <1>11, <1>a, <1>b, <1>c, <1>d DEF SubmitVerify
<1>12. ASSUME NEW t \in Threads, SubmitKey(t)
      PROVE  RowsInv'
  <2>1. pc[t] = "subKey" /\ pc'= [pc EXCEPT ![t] = "idle"] /\ keys' = [keys EXCEPT ![t] = 0]
    BY <1>12 DEF SubmitKey
  <2>2. UNCHANGED <<rows, issued, tx>>
    BY <1>12 DEF SubmitKey
  <2> QED  BY <1>a, <1>b, <1>d, <2>1, <2>2
<1>13. ASSUME NEW t \in Threads, SealCount(t)
      PROVE  RowsInv'
  BY <1>13, <1>a, <1>b, <1>c, <1>d DEF SealCount, CountThen
<1>14. ASSUME NEW t \in Threads, SealClear(t)
      PROVE  RowsInv'
  BY <1>14, <1>a, <1>b, <1>c, <1>d DEF SealClear, V!Seal
<1>15. ASSUME NEW t \in Threads, StatusCount(t)
      PROVE  RowsInv'
  BY <1>15, <1>a, <1>b, <1>c, <1>d DEF StatusCount, CountThen
<1>16. ASSUME NEW t \in Threads, StatusProgress(t)
      PROVE  RowsInv'
  BY <1>16, <1>a, <1>b, <1>c, <1>d DEF StatusProgress
<1>17. ASSUME NEW t \in Threads, StatusUnsealed(t)
      PROVE  RowsInv'
  BY <1>17, <1>a, <1>b, <1>c, <1>d DEF StatusUnsealed
<1>18. ASSUME NEW t \in Threads, DbError(t)
      PROVE  RowsInv'
  BY <1>18, <1>a, <1>b, <1>c, <1>d DEF DbError
<1>19. ASSUME Crash
      PROVE  RowsInv'
  BY <1>19, <1>a, <1>b, <1>c, <1>d DEF Crash
<1>20. CASE UNCHANGED vars
  BY <1>20, <1>a, <1>b, <1>c, <1>d DEF vars
<1> QED  BY <1>1, <1>2, <1>3, <1>4, <1>5, <1>6, <1>7, <1>8, <1>9, <1>10,
    <1>11, <1>12, <1>13, <1>14, <1>15, <1>16, <1>17, <1>18, <1>19, <1>20 DEF
    Next, Request, Serve

(* What a submission has read stays true until it reaches the store: there *)
(* are slots, the store is configured with their number, and the           *)
(* credential verified is the one issued for its slot.                     *)
LEMMA SubmitStep ==
    IInv /\ [Next]_vars => SubmitInv'
<1> SUFFICES ASSUME IInv, [Next]_vars
             PROVE  SubmitInv'
  OBVIOUS
<1> USE SealAssumption DEF dbVars, vaultVars, Continue, Goto, Return, Refuse,
    Fail, SubmitInv, Submitting
<1>a. TypeOK /\ RowsInv /\ SubmitInv /\ OneInitializer /\ ConfigurationNeverLocked
  BY DEF IInv, RowsInv
<1>b. (UNCHANGED rows) => Persisted' = Persisted /\ Count' = Count
  BY CountStable
<1>c. Count = 0 <=> Persisted = {}
  BY <1>a, SlotsCount
<1>d. (UNCHANGED issued) => \A k : Owners(k)' = Owners(k)
  BY DEF Owners
<1>e. (UNCHANGED <<rows, issued>>) =>
        \A t \in Threads : slot'[t] = slot[t] /\ cred'[t] = cred[t] => Genuine(t)' = Genuine(t)
  BY <1>d DEF Genuine
<1>1. ASSUME NEW t \in Threads, NEW n \in Slots, Begin(t, "initCount", n, 0,
            NoThread)
      PROVE  SubmitInv'
  BY <1>1, <1>a, <1>b, <1>c, <1>d, <1>e DEF Begin, TypeOK
<1>2. ASSUME NEW t \in Threads, NEW k \in Slots, NEW c \in Owners(k) \cup
            {NoThread}, Submit(t, k, c)
      PROVE  SubmitInv'
  BY <1>2, <1>a, <1>b, <1>c, <1>d, <1>e DEF Submit, Begin, TypeOK
<1>3. ASSUME NEW t \in Threads, Begin(t, "sealCount", 0, 0, NoThread)
      PROVE  SubmitInv'
  BY <1>3, <1>a, <1>b, <1>c, <1>d, <1>e DEF Begin, TypeOK
<1>4. ASSUME NEW t \in Threads, Begin(t, "statusCount", 0, 0, NoThread)
      PROVE  SubmitInv'
  BY <1>4, <1>a, <1>b, <1>c, <1>d, <1>e DEF Begin, TypeOK
<1>5. ASSUME NEW t \in Threads, InitCount(t)
      PROVE  SubmitInv'
  BY <1>5, <1>a, <1>b, <1>c, <1>d, <1>e DEF InitCount, TypeOK
<1>6. ASSUME NEW t \in Threads, InitExists(t)
      PROVE  SubmitInv'
  BY <1>6, <1>a, <1>b, <1>c, <1>d, <1>e DEF InitExists, TypeOK
<1>7. ASSUME NEW t \in Threads, InitInsert(t)
      PROVE  SubmitInv'
  BY <1>7, <1>a, <1>b, <1>c, <1>d, <1>e DEF InitInsert, TypeOK
<1>8. ASSUME NEW t \in Threads, InitCommit(t)
      PROVE  SubmitInv'
  <2>1. Persisted = {}
    BY <1>8, <1>a DEF InitCommit, RowsInv, Initializing
  <2>2. \A u \in Threads : pc[u] \notin Submitting \ {"subCount"}
    BY <1>a, <2>1
  <2>3. \A k : Owners(k) \subseteq Owners(k)'
    BY <1>8 DEF InitCommit, Owners
  <2>4. /\ pc' = [pc EXCEPT ![t] = "idle"] /\ slot' = [slot EXCEPT ![t] = 0]
        /\ cred' = [cred EXCEPT ![t] = NoThread]
    BY <1>8 DEF InitCommit
  <2> QED  BY <1>a, <2>2, <2>3, <2>4 DEF TypeOK
<1>9. ASSUME NEW t \in Threads, SubmitCount(t)
      PROVE  SubmitInv'
  BY <1>9, <1>a, <1>b, <1>c, <1>d, <1>e DEF SubmitCount, CountThen, TypeOK
<1>10. ASSUME NEW t \in Threads, SubmitConfigure(t)
      PROVE  SubmitInv'
  <2>1. pc[t] = "subConfigure" /\ keys[t] = Count /\ Count # 0 /\ Count' = Count
    BY <1>10, <1>a, <1>b, <1>c DEF SubmitConfigure, ConfigurationNeverLocked
  <2>2. CASE Continue(t, "subVerify") /\ required' = Count
    BY <1>10, <1>a, <1>b, <1>d, <1>e, <2>1, <2>2 DEF SubmitConfigure, TypeOK
  <2>3. CASE Refuse(t) /\ UNCHANGED required
    BY <1>10, <1>a, <1>b, <1>d, <1>e, <2>1, <2>3 DEF SubmitConfigure, TypeOK
  <2> QED  BY <1>10, <2>1, <2>2, <2>3 DEF SubmitConfigure, V!Configure
<1>11. ASSUME NEW t \in Threads, SubmitVerify(t)
      PROVE  SubmitInv'
  <2>1. pc[t] = "subVerify" /\ UNCHANGED <<rows, issued, required>>
    BY <1>11 DEF SubmitVerify
  <2>2. CASE Refuse(t)
    BY <1>a, <1>b, <1>d, <1>e, <2>1, <2>2 DEF TypeOK
  <2>3. CASE cred[t] # NoThread /\ rows[slot[t]] = cred[t] /\ Continue(t, "subKey")
    <3>1. Genuine(t)
      BY <1>a, <2>1, <2>3 DEF Genuine
    <3> QED  BY <1>a, <1>b, <1>d, <1>e, <2>1, <2>3, <3>1 DEF TypeOK
  <2> QED  BY <1>11, <2>2, <2>3 DEF SubmitVerify
<1>12. ASSUME NEW t \in Threads, SubmitKey(t)
      PROVE  SubmitInv'
  <2>1. required' = required /\ UNCHANGED <<rows, issued>>
    BY <1>12 DEF SubmitKey, V!Collect, V!Unseal, V!DropAttempt
  <2>2. /\ pc' = [pc EXCEPT ![t] = "idle"] /\ slot' = [slot EXCEPT ![t] = 0]
        /\ cred' = [cred EXCEPT ![t] = NoThread]
    BY <1>12 DEF SubmitKey
  <2> QED  BY <1>a, <1>b, <1>d, <1>e, <2>1, <2>2 DEF TypeOK
<1>13. ASSUME NEW t \in Threads, SealCount(t)
      PROVE  SubmitInv'
  BY <1>13, <1>a, <1>b, <1>c, <1>d, <1>e DEF SealCount, CountThen, TypeOK
<1>14. ASSUME NEW t \in Threads, SealClear(t)
      PROVE  SubmitInv'
  BY <1>14, <1>a, <1>b, <1>c, <1>d, <1>e DEF SealClear, V!Seal, TypeOK
<1>15. ASSUME NEW t \in Threads, StatusCount(t)
      PROVE  SubmitInv'
  BY <1>15, <1>a, <1>b, <1>c, <1>d, <1>e DEF StatusCount, CountThen, TypeOK
<1>16. ASSUME NEW t \in Threads, StatusProgress(t)
      PROVE  SubmitInv'
  BY <1>16, <1>a, <1>b, <1>c, <1>d, <1>e DEF StatusProgress, TypeOK
<1>17. ASSUME NEW t \in Threads, StatusUnsealed(t)
      PROVE  SubmitInv'
  BY <1>17, <1>a, <1>b, <1>c, <1>d, <1>e DEF StatusUnsealed, TypeOK
<1>18. ASSUME NEW t \in Threads, DbError(t)
      PROVE  SubmitInv'
  BY <1>18, <1>a, <1>b, <1>c, <1>d, <1>e DEF DbError, TypeOK
<1>19. ASSUME Crash
      PROVE  SubmitInv'
  BY <1>19, <1>a, <1>b, <1>c, <1>d, <1>e DEF Crash, TypeOK
<1>20. CASE UNCHANGED vars
  BY <1>20, <1>a, <1>b, <1>c, <1>d, <1>e DEF vars, TypeOK
<1> QED  BY <1>1, <1>2, <1>3, <1>4, <1>5, <1>6, <1>7, <1>8, <1>9, <1>10,
    <1>11, <1>12, <1>13, <1>14, <1>15, <1>16, <1>17, <1>18, <1>19, <1>20 DEF
    Next, Request, Serve

(* The store is configured only with the number of durable slots.          *)
LEMMA ConfigurationStep ==
    IInv /\ [Next]_vars => ConfigurationNeverLocked'
<1> SUFFICES ASSUME IInv, [Next]_vars
             PROVE  ConfigurationNeverLocked'
  OBVIOUS
<1> USE SealAssumption DEF dbVars, vaultVars, Continue, Goto, Return, Refuse,
    Fail, ConfigurationNeverLocked
<1>a. TypeOK /\ RowsInv /\ SubmitInv /\ OneInitializer /\ ConfigurationNeverLocked
  BY DEF IInv, RowsInv
<1>b. (UNCHANGED rows) => Count' = Count
  BY CountStable
<1>c. Count = 0 <=> Persisted = {}
  BY <1>a, SlotsCount
<1>1. ASSUME NEW t \in Threads, NEW n \in Slots, Begin(t, "initCount", n, 0,
            NoThread)
      PROVE  ConfigurationNeverLocked'
  BY <1>1, <1>a, <1>b, <1>c DEF Begin, TypeOK
<1>2. ASSUME NEW t \in Threads, NEW k \in Slots, NEW c \in Owners(k) \cup
            {NoThread}, Submit(t, k, c)
      PROVE  ConfigurationNeverLocked'
  BY <1>2, <1>a, <1>b, <1>c DEF Submit, Begin, TypeOK
<1>3. ASSUME NEW t \in Threads, Begin(t, "sealCount", 0, 0, NoThread)
      PROVE  ConfigurationNeverLocked'
  BY <1>3, <1>a, <1>b, <1>c DEF Begin, TypeOK
<1>4. ASSUME NEW t \in Threads, Begin(t, "statusCount", 0, 0, NoThread)
      PROVE  ConfigurationNeverLocked'
  BY <1>4, <1>a, <1>b, <1>c DEF Begin, TypeOK
<1>5. ASSUME NEW t \in Threads, InitCount(t)
      PROVE  ConfigurationNeverLocked'
  BY <1>5, <1>a, <1>b, <1>c DEF InitCount, TypeOK
<1>6. ASSUME NEW t \in Threads, InitExists(t)
      PROVE  ConfigurationNeverLocked'
  BY <1>6, <1>a, <1>b, <1>c DEF InitExists, TypeOK
<1>7. ASSUME NEW t \in Threads, InitInsert(t)
      PROVE  ConfigurationNeverLocked'
  BY <1>7, <1>a, <1>b, <1>c DEF InitInsert, TypeOK
<1>8. ASSUME NEW t \in Threads, InitCommit(t)
      PROVE  ConfigurationNeverLocked'
  <2>1. Persisted = {}
    BY <1>8, <1>a DEF InitCommit, RowsInv, Initializing
  <2>2. required' = 0
    BY <1>8, <1>a, <1>c, <2>1 DEF InitCommit
  <2>3. pending' = {} /\ ~unsealed'
    BY <1>8, <1>a, <1>c, <2>1 DEF InitCommit
  <2>4. \A u \in Threads : pc'[u] # "subConfigure"
    BY <1>8, <1>a, <2>1 DEF InitCommit, TypeOK, SubmitInv, Submitting
  <2> QED  BY <2>2, <2>3, <2>4
<1>9. ASSUME NEW t \in Threads, SubmitCount(t)
      PROVE  ConfigurationNeverLocked'
  BY <1>9, <1>a, <1>b, <1>c DEF SubmitCount, CountThen, TypeOK
<1>10. ASSUME NEW t \in Threads, SubmitConfigure(t)
      PROVE  ConfigurationNeverLocked'
  BY <1>10, <1>a, <1>b, <1>c DEF SubmitConfigure, V!Configure, TypeOK
<1>11. ASSUME NEW t \in Threads, SubmitVerify(t)
      PROVE  ConfigurationNeverLocked'
  BY <1>11, <1>a, <1>b, <1>c DEF SubmitVerify, TypeOK
<1>12. ASSUME NEW t \in Threads, SubmitKey(t)
      PROVE  ConfigurationNeverLocked'
  <2>1. required = Count /\ required # 0
    BY <1>12, <1>a, <1>c DEF SubmitKey, SubmitInv, Submitting
  <2>2. required' = required
    BY <1>12 DEF SubmitKey, V!Collect, V!Unseal, V!DropAttempt
  <2>3. Count' = Count
    BY <1>12, <1>b DEF SubmitKey
  <2>4. pc' = [pc EXCEPT ![t] = "idle"] /\ keys' = [keys EXCEPT ![t] = 0]
    BY <1>12 DEF SubmitKey
  <2> QED  BY <1>a, <2>1, <2>2, <2>3, <2>4 DEF TypeOK
<1>13. ASSUME NEW t \in Threads, SealCount(t)
      PROVE  ConfigurationNeverLocked'
  BY <1>13, <1>a, <1>b, <1>c DEF SealCount, CountThen, TypeOK
<1>14. ASSUME NEW t \in Threads, SealClear(t)
      PROVE  ConfigurationNeverLocked'
  BY <1>14, <1>a, <1>b, <1>c DEF SealClear, V!Seal, TypeOK
<1>15. ASSUME NEW t \in Threads, StatusCount(t)
      PROVE  ConfigurationNeverLocked'
  BY <1>15, <1>a, <1>b, <1>c DEF StatusCount, CountThen, TypeOK
<1>16. ASSUME NEW t \in Threads, StatusProgress(t)
      PROVE  ConfigurationNeverLocked'
  BY <1>16, <1>a, <1>b, <1>c DEF StatusProgress, TypeOK
<1>17. ASSUME NEW t \in Threads, StatusUnsealed(t)
      PROVE  ConfigurationNeverLocked'
  BY <1>17, <1>a, <1>b, <1>c DEF StatusUnsealed, TypeOK
<1>18. ASSUME NEW t \in Threads, DbError(t)
      PROVE  ConfigurationNeverLocked'
  BY <1>18, <1>a, <1>b, <1>c DEF DbError, TypeOK
<1>19. ASSUME Crash
      PROVE  ConfigurationNeverLocked'
  BY <1>19, <1>a, <1>b, <1>c DEF Crash, TypeOK
<1>20. CASE UNCHANGED vars
  BY <1>20, <1>a, <1>b, <1>c DEF vars, TypeOK
<1> QED  BY <1>1, <1>2, <1>3, <1>4, <1>5, <1>6, <1>7, <1>8, <1>9, <1>10,
    <1>11, <1>12, <1>13, <1>14, <1>15, <1>16, <1>17, <1>18, <1>19, <1>20 DEF
    Next, Request, Serve

(* Keys accepted by the store are those of verified credentials, and the   *)
(* vault is unsealed by one for every slot.                                *)
LEMMA AttemptStep ==
    IInv /\ [Next]_vars => UnsealedByAllOwners'
<1> SUFFICES ASSUME IInv, [Next]_vars
             PROVE  UnsealedByAllOwners'
  OBVIOUS
<1> USE SealAssumption DEF dbVars, vaultVars, Continue, Goto, Return, Refuse,
    Fail, UnsealedByAllOwners
<1>a. TypeOK /\ RowsInv /\ SubmitInv /\ OneInitializer /\ UnsealedByAllOwners
  BY DEF IInv, RowsInv
<1>b. (UNCHANGED rows) => Persisted' = Persisted
  BY CountStable
<1>c. Persisted = 1..Count
  BY <1>a, SlotsCount
<1>1. ASSUME NEW t \in Threads, NEW n \in Slots, Begin(t, "initCount", n, 0,
            NoThread)
      PROVE  UnsealedByAllOwners'
  BY <1>1, <1>a, <1>b, <1>c DEF Begin
<1>2. ASSUME NEW t \in Threads, NEW k \in Slots, NEW c \in Owners(k) \cup
            {NoThread}, Submit(t, k, c)
      PROVE  UnsealedByAllOwners'
  BY <1>2, <1>a, <1>b, <1>c DEF Submit, Begin
<1>3. ASSUME NEW t \in Threads, Begin(t, "sealCount", 0, 0, NoThread)
      PROVE  UnsealedByAllOwners'
  BY <1>3, <1>a, <1>b, <1>c DEF Begin
<1>4. ASSUME NEW t \in Threads, Begin(t, "statusCount", 0, 0, NoThread)
      PROVE  UnsealedByAllOwners'
  BY <1>4, <1>a, <1>b, <1>c DEF Begin
<1>5. ASSUME NEW t \in Threads, InitCount(t)
      PROVE  UnsealedByAllOwners'
  BY <1>5, <1>a, <1>b, <1>c DEF InitCount
<1>6. ASSUME NEW t \in Threads, InitExists(t)
      PROVE  UnsealedByAllOwners'
  BY <1>6, <1>a, <1>b, <1>c DEF InitExists
<1>7. ASSUME NEW t \in Threads, InitInsert(t)
      PROVE  UnsealedByAllOwners'
  BY <1>7, <1>a, <1>b, <1>c DEF InitInsert
<1>8. ASSUME NEW t \in Threads, InitCommit(t)
      PROVE  UnsealedByAllOwners'
  <2>1. Persisted = {}
    BY <1>8, <1>a DEF InitCommit, RowsInv, Initializing
  <2>2. ~unsealed /\ UNCHANGED vaultVars
    BY <1>8, <1>a, <2>1 DEF InitCommit
  <2> QED  BY <1>a, <2>2
<1>9. ASSUME NEW t \in Threads, SubmitCount(t)
      PROVE  UnsealedByAllOwners'
  BY <1>9, <1>a, <1>b, <1>c DEF SubmitCount, CountThen
<1>10. ASSUME NEW t \in Threads, SubmitConfigure(t)
      PROVE  UnsealedByAllOwners'
  BY <1>10, <1>a, <1>b, <1>c DEF SubmitConfigure, V!Configure
<1>11. ASSUME NEW t \in Threads, SubmitVerify(t)
      PROVE  UnsealedByAllOwners'
  BY <1>11, <1>a, <1>b, <1>c DEF SubmitVerify
<1>12. ASSUME NEW t \in Threads, SubmitKey(t)
      PROVE  UnsealedByAllOwners'
  <2>1. /\ Genuine(t) /\ required = Count /\ Persisted # {}
        /\ Persisted' = Persisted
    BY <1>12, <1>a, <1>b DEF SubmitKey, SubmitInv, Submitting
  <2>2. CASE V!Collect(slot[t]) /\ contrib' = contrib \cup {slot[t]}
    BY <1>a, <2>2 DEF V!Collect
  <2>3. CASE V!Unseal(slot[t]) /\ contrib' = contrib \cup {slot[t]}
    BY <1>a, <1>c, <2>1, <2>3 DEF V!Unseal
  <2>4. CASE V!DropAttempt /\ contrib' = {}
    BY <2>4 DEF V!DropAttempt
  <2>5. CASE UNCHANGED vaultVars
    BY <1>a, <2>1, <2>5
  <2> QED  BY <1>12, <2>1, <2>2, <2>3, <2>4, <2>5 DEF SubmitKey
<1>13. ASSUME NEW t \in Threads, SealCount(t)
      PROVE  UnsealedByAllOwners'
  BY <1>13, <1>a, <1>b, <1>c DEF SealCount, CountThen
<1>14. ASSUME NEW t \in Threads, SealClear(t)
      PROVE  UnsealedByAllOwners'
  BY <1>14, <1>a, <1>b, <1>c DEF SealClear, V!Seal
<1>15. ASSUME NEW t \in Threads, StatusCount(t)
      PROVE  UnsealedByAllOwners'
  BY <1>15, <1>a, <1>b, <1>c DEF StatusCount, CountThen
<1>16. ASSUME NEW t \in Threads, StatusProgress(t)
      PROVE  UnsealedByAllOwners'
  BY <1>16, <1>a, <1>b, <1>c DEF StatusProgress
<1>17. ASSUME NEW t \in Threads, StatusUnsealed(t)
      PROVE  UnsealedByAllOwners'
  BY <1>17, <1>a, <1>b, <1>c DEF StatusUnsealed
<1>18. ASSUME NEW t \in Threads, DbError(t)
      PROVE  UnsealedByAllOwners'
  BY <1>18, <1>a, <1>b, <1>c DEF DbError
<1>19. ASSUME Crash
      PROVE  UnsealedByAllOwners'
  BY <1>19, <1>a, <1>b, <1>c DEF Crash
<1>20. CASE UNCHANGED vars
  BY <1>20, <1>a, <1>b, <1>c DEF vars
<1> QED  BY <1>1, <1>2, <1>3, <1>4, <1>5, <1>6, <1>7, <1>8, <1>9, <1>10,
    <1>11, <1>12, <1>13, <1>14, <1>15, <1>16, <1>17, <1>18, <1>19, <1>20 DEF
    Next, Request, Serve

(* The initial state satisfies the inductive invariant.                    *)
LEMMA InitIInv == Init => IInv
<1> SUFFICES ASSUME Init PROVE IInv
  OBVIOUS
<1> USE SealAssumption DEF Init, V!Init
<1>1. Persisted = {} /\ Count = 0
  BY FS_EmptySet DEF Persisted, Count
<1>2. pc \in [Threads -> Steps] /\ unsealed \in BOOLEAN
  BY DEF Steps
<1>3. TypeOK
  BY <1>2 DEF TypeOK
<1>4. RowsInv /\ SubmitInv
  BY <1>1 DEF RowsInv, OneInitializer, Initializing, SubmitInv, Submitting
<1>5. ConfigurationNeverLocked /\ UnsealedByAllOwners
  BY <1>1 DEF ConfigurationNeverLocked, UnsealedByAllOwners
<1> QED
  BY <1>3, <1>4, <1>5 DEF IInv

(* Every step preserves the inductive invariant.                           *)
LEMMA StepIInv == IInv /\ [Next]_vars => IInv'
  BY TypeStep, RowsStep, SubmitStep, ConfigurationStep, AttemptStep DEF IInv

(* The inductive invariant holds of every reachable state.                 *)
THEOREM Invariance == Spec => []IInv
  BY InitIInv, StepIInv, PTL DEF Spec

(* The state is always well typed.                                         *)
THEOREM TypeCorrect == Spec => []TypeOK
<1>1. IInv => TypeOK
  BY DEF IInv
<1> QED
  BY <1>1, Invariance, PTL

(* However many Initialize requests race (seal.go 46-96), the durable      *)
(* slots come from one of them and only its credentials are ever returned. *)
THEOREM InitializedOnce == Spec => []OneInitializer
<1>1. IInv => OneInitializer
  BY DEF IInv, RowsInv
<1> QED
  BY <1>1, Invariance, PTL

(* The store is never configured with a key count other than the number of *)
(* durable slots, so ErrUnsealConfigurationLocked is never returned        *)
(* (seal.go 113-124).                                                      *)
THEOREM NeverLockedOut == Spec => []ConfigurationNeverLocked
<1>1. IInv => ConfigurationNeverLocked
  BY DEF IInv
<1> QED
  BY <1>1, Invariance, PTL

(* The vault is unsealed only by a credential issued for each durable      *)
(* slot, all accepted in the current attempt (seal.go 98-179).             *)
THEOREM AllOwnersNeeded == Spec => []UnsealedByAllOwners
<1>1. IInv => UnsealedByAllOwners
  BY DEF IInv
<1> QED
  BY <1>1, Invariance, PTL

(* An accepted key is lost to nothing but a seal, a restart or a failed    *)
(* derivation: of the steps, only SubmitKey, SealClear and Crash touch the *)
(* attempt.                                                                *)
THEOREM AttemptsAreKept == Spec => AttemptOnlyLostBySeal
<1> DEFINE Lost == pending \ pending' # {}
           Allowed == \/ unsealed'
                      \/ \E t \in Threads : SealClear(t)
                      \/ \E t \in Threads : pc[t] = "subKey" /\ Fail(t)
                      \/ Crash
<1>1. ASSUME [Next]_vars, Lost PROVE Allowed
  <2>1. CASE \E t \in Threads : Request(t) \/ DbError(t)
    <3>1. pending' = pending
      BY <2>1 DEF Request, Submit, Begin, DbError, vaultVars
    <3> QED  BY <1>1, <3>1
  <2>2. ASSUME NEW t \in Threads, SubmitKey(t) PROVE Allowed
    <3>1. CASE V!Collect(slot[t])
      BY <1>1, <3>1 DEF V!Collect
    <3>2. CASE V!Unseal(slot[t])
      BY <3>2 DEF V!Unseal
    <3>3. CASE Fail(t)
      BY <2>2, <3>3 DEF SubmitKey
    <3>4. CASE UNCHANGED vaultVars
      BY <1>1, <3>4 DEF vaultVars
    <3> QED  BY <2>2, <3>1, <3>2, <3>3, <3>4 DEF SubmitKey
  <2>3. ASSUME NEW t \in Threads, SubmitConfigure(t) PROVE Allowed
    BY <1>1, <2>3 DEF SubmitConfigure, V!Configure
  <2>4. ASSUME NEW t \in Threads,
               \/ InitCount(t) \/ InitExists(t) \/ InitInsert(t) \/ InitCommit(t)
               \/ SubmitCount(t) \/ SubmitVerify(t) \/ SealCount(t)
               \/ StatusCount(t) \/ StatusProgress(t) \/ StatusUnsealed(t)
        PROVE  Allowed
    <3>1. pending' = pending
      BY <2>4 DEF InitCount, InitExists, InitInsert, InitCommit, SubmitCount, SubmitVerify,
         SealCount, StatusCount, StatusProgress, StatusUnsealed, vaultVars
    <3> QED  BY <1>1, <3>1
  <2>5. CASE UNCHANGED vars
    BY <1>1, <2>5 DEF vars, vaultVars
  <2> QED
    BY <1>1, <2>1, <2>2, <2>3, <2>4, <2>5 DEF Next, Serve
<1>2. [Next]_vars => [Lost => Allowed]_vars
  BY <1>1
<1> QED
  BY <1>2, PTL DEF Spec, AttemptOnlyLostBySeal
=============================================================================
