-------------------------- MODULE AuditTrailProofs --------------------------
(***************************************************************************)
(* For any number of processes, rows, days and any batch size: the safety  *)
(* properties of AuditTrail, and what resolveClientIP rests on.            *)
(***************************************************************************)
EXTENDS AuditTrail, DataLemmas, FiniteSetTheorems, TLAPS

USE RoutesAssumption, ConfigAssumption, UnwrittenAssumption

(* An INSERT adds one row that was not there, and keeps the others.        *)
LEMMA Inserted ==
  ASSUME TypeOK, NEW e \in Event, Insert(e)
  PROVE  /\ event' \in [Rows -> Event \cup {Unwritten}]
         /\ \E r \in Rows \ Written :
              /\ event'[r] = e
              /\ live' = live \cup {r}
              /\ Written' = Written \cup {r}
         /\ \A s \in Written : event'[s] = event[s]
<1>1. PICK r \in Rows \ Written :
        event' = [event EXCEPT ![r] = e] /\ live' = live \cup {r}
  BY DEF Insert
<1>2. event' \in [Rows -> Event \cup {Unwritten}] /\ event'[r] = e
  BY <1>1 DEF TypeOK
<1>3. \A s \in Rows \ {r} : event'[s] = event[s]
  BY <1>1 DEF TypeOK
<1>4. Written' = Written \cup {r}
  BY <1>1, <1>2, <1>3 DEF Written
<1> QED  BY <1>1, <1>2, <1>3, <1>4 DEF Written

LEMMA AuditEventType == ASSUME TypeOK, NEW a PROVE AuditEvent(a) \in Event
  BY DEF AuditEvent, DefaultAuditRetentionClass, Event, Classes, NoneDeleted, TypeOK

LEMMA CleanupEventType ==
  ASSUME TypeOK, NEW p \in Processes PROVE CleanupEvent(p) \in Event
  BY DEF CleanupEvent, Event, Classes, TypeOK

(* What the table and the clock may do in a step.                          *)
TableNext ==
  \/ UNCHANGED <<event, live, now>>
  \/ UNCHANGED <<event, live>> /\ now < MaxClock /\ now' = now + 1
  \/ \E e \in Event : Insert(e) /\ UNCHANGED now
  \/ \E p \in Processes : live' = live \ held[p] /\ UNCHANGED <<event, now>>

LEMMA TableStep ==
  TypeOK /\ [Next]_vars => TableNext
<1> SUFFICES ASSUME TypeOK, [Next]_vars
             PROVE  TableNext
  OBVIOUS
<1> USE AuditEventType DEF TableNext, tableVars, requestVars, workerVars,
      historyVars, Forget, Unwind, EndCycle, GiveUp, Purging
<1>1. ASSUME NEW p \in Processes, NEW r \in Routes, Receive(p, r)
      PROVE  TableNext
  BY <1>1 DEF Receive
<1>2. ASSUME NEW p \in Processes, Refuse(p)
      PROVE  TableNext
  BY <1>2 DEF Refuse
<1>3. ASSUME NEW p \in Processes, Admit(p)
      PROVE  TableNext
  BY <1>3 DEF Admit
<1>4. ASSUME NEW p \in Processes, Handle(p)
      PROVE  TableNext
  BY <1>4 DEF Handle
<1>5. ASSUME NEW p \in Processes, Panic(p)
      PROVE  TableNext
  BY <1>5 DEF Panic
<1>6. ASSUME NEW p \in Processes, AppendEvent(p)
      PROVE  TableNext
  BY <1>6 DEF AppendEvent
<1>7. ASSUME NEW p \in Processes, AppendFail(p)
      PROVE  TableNext
  BY <1>7 DEF AppendFail
<1>8. ASSUME NEW p \in Processes, LogError(p)
      PROVE  TableNext
  BY <1>8 DEF LogError
<1>9. ASSUME NEW p \in Processes, BeginCycle(p)
      PROVE  TableNext
  BY <1>9 DEF BeginCycle
<1>10. ASSUME NEW p \in Processes, PurgeNone(p)
      PROVE  TableNext
  BY <1>10 DEF PurgeNone
<1>11. ASSUME NEW p \in Processes, PurgeLock(p)
      PROVE  TableNext
  BY <1>11 DEF PurgeLock
<1>12. ASSUME NEW p \in Processes, PurgeCommit(p)
      PROVE  TableNext
  BY <1>12 DEF PurgeCommit
<1>13. ASSUME NEW p \in Processes, PurgeFail(p)
      PROVE  TableNext
  BY <1>13 DEF PurgeFail
<1>14. ASSUME NEW p \in Processes, RecordCleanup(p)
      PROVE  TableNext
  BY <1>14, CleanupEventType DEF RecordCleanup
<1>15. ASSUME NEW p \in Processes, Start(p)
      PROVE  TableNext
  BY <1>15 DEF Start
<1>16. ASSUME NEW p \in Processes, Stop(p)
      PROVE  TableNext
  BY <1>16 DEF Stop
<1>17. ASSUME NEW p \in Processes, Exit(p)
      PROVE  TableNext
  BY <1>17 DEF Exit
<1>18. ASSUME NEW p \in Processes, Crash(p)
      PROVE  TableNext
  BY <1>18 DEF Crash
<1>19. CASE Tick
  BY <1>19 DEF Tick
<1>20. CASE UNCHANGED vars
  BY <1>20 DEF vars, tableVars, requestVars, workerVars
<1> QED  BY <1>1, <1>2, <1>3, <1>4, <1>5, <1>6, <1>7, <1>8, <1>9, <1>10,
      <1>11, <1>12, <1>13, <1>14, <1>15, <1>16, <1>17, <1>18, <1>19, <1>20 DEF
      Next, Serve, Cleanup

(* The same, as each part of the invariant uses it.                        *)
LEMMA TableKept ==
  ASSUME TypeOK, TableNext
  PROVE  /\ now \in Nat /\ now' \in 0..MaxClock /\ now <= now'
         /\ event' \in [Rows -> Event \cup {Unwritten}]
         /\ Written \subseteq Written'
         /\ \A r \in Written : event'[r] = event[r]
         /\ live' \subseteq Written'
         /\ Written \ live \subseteq Written' \ live'
         /\ \A r \in Written' \ live' :
              \/ r \in Written \ live
              \/ \E p \in Processes : r \in held[p]
<1>1. CASE UNCHANGED <<event, live, now>>
  BY <1>1 DEF TypeOK, Written
<1>2. CASE UNCHANGED <<event, live>> /\ now < MaxClock /\ now' = now + 1
  BY <1>2 DEF TypeOK, Written
<1>3. ASSUME NEW e \in Event, Insert(e), UNCHANGED now
      PROVE  /\ now \in Nat /\ now' \in 0..MaxClock /\ now <= now'
             /\ event' \in [Rows -> Event \cup {Unwritten}]
             /\ Written \subseteq Written'
             /\ \A r \in Written : event'[r] = event[r]
             /\ live' \subseteq Written'
             /\ Written \ live \subseteq Written' \ live'
             /\ \A r \in Written' \ live' :
                  \/ r \in Written \ live
                  \/ \E q \in Processes : r \in held[q]
  BY <1>3, Inserted DEF TypeOK
<1>4. ASSUME NEW p \in Processes, live' = live \ held[p], UNCHANGED <<event, now>>
      PROVE  /\ now \in Nat /\ now' \in 0..MaxClock /\ now <= now'
             /\ event' \in [Rows -> Event \cup {Unwritten}]
             /\ Written \subseteq Written'
             /\ \A r \in Written : event'[r] = event[r]
             /\ live' \subseteq Written'
             /\ Written \ live \subseteq Written' \ live'
             /\ \A r \in Written' \ live' :
                  \/ r \in Written \ live
                  \/ \E q \in Processes : r \in held[q]
  BY <1>4 DEF TypeOK, Written
<1> QED  BY <1>1, <1>2, <1>3, <1>4 DEF TableNext

(* What is due stays due, and the events of a row do not change.           *)
LEMMA ExpiredKept ==
  ASSUME TypeOK, TableNext, NEW r \in Written, NEW d \in Nat, NEW e \in Nat, d <= e,
         Expired(r, d)
  PROVE  Expired(r, e)'
<1>1. event[r] \in Event /\ event'[r] = event[r]
  BY TableKept DEF Written, TypeOK
<1>2. Days[event[r].class] \in Nat /\ event[r].at \in Nat
  BY <1>1 DEF Event
<1> QED  BY <1>1, <1>2 DEF Expired

LEMMA FiniteRows == ASSUME NEW S \in SUBSET Rows PROVE IsFiniteSet(S)
<1>1. IsFiniteSet(Rows)
  BY FS_Interval DEF Rows
<1> QED  BY <1>1, FS_Subset

(* Counting what a statement removed: a cycle ends there only if nothing   *)
(* is counted, so that the counts are always the total.                    *)
LEMMA CountType ==
  ASSUME TypeOK, NEW p \in Processes, NEW S \in SUBSET Rows, Purging(p), Count(p, S)
  PROVE  /\ phase' \in [Processes -> Classes \cup {"wait", "record"}]
         /\ started' \in [Processes -> 0..now]
         /\ deleted' \in [Processes -> [Classes -> Nat]]
         /\ deleted'[p] = [deleted[p] EXCEPT ![phase[p]] = @ + Cardinality(S)]
         /\ phase'[p] = "wait" => deleted'[p] = NoneDeleted
         /\ \A q \in Processes \ {p} :
              phase'[q] = phase[q] /\ started'[q] = started[q] /\ deleted'[q] = deleted[q]
<1>1. Cardinality(S) \in Nat
  BY FiniteRows, FS_CardinalityType
<1> DEFINE total == [deleted[p] EXCEPT ![phase[p]] = @ + Cardinality(S)]
<1>2. total \in [Classes -> Nat]
  BY <1>1 DEF TypeOK, Purging
<1>3. CASE EndCycle(p) /\ total = NoneDeleted
  <2> HIDE DEF total
  <2>1. NoneDeleted \in [Classes -> Nat]
    BY DEF NoneDeleted
  <2> QED  BY <1>3, <2>1 DEF EndCycle, TypeOK, total
<1>4. CASE ~(EndCycle(p) /\ total = NoneDeleted)
  <2>1. /\ deleted' = [deleted EXCEPT ![p] = total]
        /\ UNCHANGED started
    BY <1>4 DEF Count
  <2>2. PICK x \in Classes \cup {"record"} : phase' = [phase EXCEPT ![p] = x]
    BY <1>4 DEF Count, Purging, Classes, TypeOK
  <2>3. x # "wait"
    BY DEF Classes
  <2>4. deleted'[p] = total
    BY <2>1 DEF TypeOK
  <2> HIDE DEF total
  <2> QED  BY <2>1, <2>2, <2>3, <2>4, <1>2 DEF TypeOK, total
<1> QED  BY <1>3, <1>4

(* The types of the workers' variables.                                    *)
WorkerTypeOK ==
    /\ phase \in [Processes -> Classes \cup {"wait", "record"}]
    /\ started \in [Processes -> 0..now]
    /\ deleted \in [Processes -> [Classes -> Nat]]

LEMMA WorkerType ==
  TypeOK /\ HeldInv /\ [Next]_vars => WorkerTypeOK'
<1> SUFFICES ASSUME TypeOK, HeldInv, [Next]_vars
             PROVE  WorkerTypeOK'
  OBVIOUS
<1> USE TableStep, TableKept DEF WorkerTypeOK, TypeOK, tableVars, requestVars,
      workerVars, historyVars, Forget, Unwind, EndCycle, GiveUp, Purging, NoneDeleted
<1>1. ASSUME NEW p \in Processes, NEW r \in Routes, Receive(p, r)
      PROVE  WorkerTypeOK'
  BY <1>1 DEF Receive
<1>2. ASSUME NEW p \in Processes, Refuse(p)
      PROVE  WorkerTypeOK'
  BY <1>2 DEF Refuse
<1>3. ASSUME NEW p \in Processes, Admit(p)
      PROVE  WorkerTypeOK'
  BY <1>3 DEF Admit
<1>4. ASSUME NEW p \in Processes, Handle(p)
      PROVE  WorkerTypeOK'
  BY <1>4 DEF Handle
<1>5. ASSUME NEW p \in Processes, Panic(p)
      PROVE  WorkerTypeOK'
  BY <1>5 DEF Panic
<1>6. ASSUME NEW p \in Processes, AppendEvent(p)
      PROVE  WorkerTypeOK'
  BY <1>6 DEF AppendEvent
<1>7. ASSUME NEW p \in Processes, AppendFail(p)
      PROVE  WorkerTypeOK'
  BY <1>7 DEF AppendFail
<1>8. ASSUME NEW p \in Processes, LogError(p)
      PROVE  WorkerTypeOK'
  BY <1>8 DEF LogError
<1>9. ASSUME NEW p \in Processes, BeginCycle(p)
      PROVE  WorkerTypeOK'
  BY <1>9 DEF BeginCycle, Classes
<1>10. ASSUME NEW p \in Processes, PurgeNone(p)
      PROVE  WorkerTypeOK'
  BY <1>10, CountType DEF PurgeNone
<1>11. ASSUME NEW p \in Processes, PurgeLock(p)
      PROVE  WorkerTypeOK'
  BY <1>11 DEF PurgeLock
<1>12. ASSUME NEW p \in Processes, PurgeCommit(p)
      PROVE  WorkerTypeOK'
  <2>1. held[p] \in SUBSET Rows
    BY <1>12 DEF Written
  <2> QED  BY <1>12, <2>1, CountType DEF PurgeCommit, HeldInv
<1>13. ASSUME NEW p \in Processes, PurgeFail(p)
      PROVE  WorkerTypeOK'
  BY <1>13 DEF PurgeFail
<1>14. ASSUME NEW p \in Processes, RecordCleanup(p)
      PROVE  WorkerTypeOK'
  <2>1. EndCycle(p) /\ UNCHANGED now
    BY <1>14 DEF RecordCleanup
  <2> QED  BY <2>1
<1>15. ASSUME NEW p \in Processes, Start(p)
      PROVE  WorkerTypeOK'
  BY <1>15 DEF Start
<1>16. ASSUME NEW p \in Processes, Stop(p)
      PROVE  WorkerTypeOK'
  BY <1>16 DEF Stop
<1>17. ASSUME NEW p \in Processes, Exit(p)
      PROVE  WorkerTypeOK'
  BY <1>17 DEF Exit
<1>18. ASSUME NEW p \in Processes, Crash(p)
      PROVE  WorkerTypeOK'
  BY <1>18 DEF Crash
<1>19. CASE Tick
  BY <1>19 DEF Tick
<1>20. CASE UNCHANGED vars
  BY <1>20 DEF vars, tableVars, requestVars, workerVars
<1> QED  BY <1>1, <1>2, <1>3, <1>4, <1>5, <1>6, <1>7, <1>8, <1>9, <1>10,
      <1>11, <1>12, <1>13, <1>14, <1>15, <1>16, <1>17, <1>18, <1>19, <1>20 DEF
      Next, Serve, Cleanup

(* The processes and their requests.                                       *)
RequestTypeOK ==
    /\ state \in [Processes -> {"down", "up", "stopping"}]
    /\ stage \in [Processes -> {"idle", "auth", "handler", "audit", "log"}]
    /\ request \in [Processes -> Routes \cup {NoRequest}]
    /\ \A p \in Processes : stage[p] = "idle" <=> request[p] = NoRequest

LEMMA RequestType ==
  TypeOK /\ [Next]_vars => RequestTypeOK'
<1> SUFFICES ASSUME TypeOK, [Next]_vars
             PROVE  RequestTypeOK'
  OBVIOUS
<1> USE DEF RequestTypeOK, TypeOK, tableVars, requestVars, workerVars,
      historyVars, Forget, Unwind, EndCycle, GiveUp, Purging
<1>1. ASSUME NEW p \in Processes, NEW r \in Routes, Receive(p, r)
      PROVE  RequestTypeOK'
  BY <1>1 DEF Receive
<1>2. ASSUME NEW p \in Processes, Refuse(p)
      PROVE  RequestTypeOK'
  BY <1>2 DEF Refuse
<1>3. ASSUME NEW p \in Processes, Admit(p)
      PROVE  RequestTypeOK'
  BY <1>3 DEF Admit
<1>4. ASSUME NEW p \in Processes, Handle(p)
      PROVE  RequestTypeOK'
  BY <1>4 DEF Handle
<1>5. ASSUME NEW p \in Processes, Panic(p)
      PROVE  RequestTypeOK'
  BY <1>5 DEF Panic
<1>6. ASSUME NEW p \in Processes, AppendEvent(p)
      PROVE  RequestTypeOK'
  BY <1>6 DEF AppendEvent
<1>7. ASSUME NEW p \in Processes, AppendFail(p)
      PROVE  RequestTypeOK'
  BY <1>7 DEF AppendFail
<1>8. ASSUME NEW p \in Processes, LogError(p)
      PROVE  RequestTypeOK'
  BY <1>8 DEF LogError
<1>9. ASSUME NEW p \in Processes, BeginCycle(p)
      PROVE  RequestTypeOK'
  BY <1>9 DEF BeginCycle
<1>10. ASSUME NEW p \in Processes, PurgeNone(p)
      PROVE  RequestTypeOK'
  BY <1>10 DEF PurgeNone
<1>11. ASSUME NEW p \in Processes, PurgeLock(p)
      PROVE  RequestTypeOK'
  BY <1>11 DEF PurgeLock
<1>12. ASSUME NEW p \in Processes, PurgeCommit(p)
      PROVE  RequestTypeOK'
  BY <1>12 DEF PurgeCommit
<1>13. ASSUME NEW p \in Processes, PurgeFail(p)
      PROVE  RequestTypeOK'
  BY <1>13 DEF PurgeFail
<1>14. ASSUME NEW p \in Processes, RecordCleanup(p)
      PROVE  RequestTypeOK'
  BY <1>14 DEF RecordCleanup
<1>15. ASSUME NEW p \in Processes, Start(p)
      PROVE  RequestTypeOK'
  BY <1>15 DEF Start
<1>16. ASSUME NEW p \in Processes, Stop(p)
      PROVE  RequestTypeOK'
  BY <1>16 DEF Stop
<1>17. ASSUME NEW p \in Processes, Exit(p)
      PROVE  RequestTypeOK'
  BY <1>17 DEF Exit
<1>18. ASSUME NEW p \in Processes, Crash(p)
      PROVE  RequestTypeOK'
  BY <1>18 DEF Crash
<1>19. CASE Tick
  BY <1>19 DEF Tick
<1>20. CASE UNCHANGED vars
  BY <1>20 DEF vars, tableVars, requestVars, workerVars
<1> QED  BY <1>1, <1>2, <1>3, <1>4, <1>5, <1>6, <1>7, <1>8, <1>9, <1>10,
      <1>11, <1>12, <1>13, <1>14, <1>15, <1>16, <1>17, <1>18, <1>19, <1>20 DEF
      Next, Serve, Cleanup

(* Locks and history.                                                      *)
HeldTypeOK ==
    /\ held \in [Processes -> SUBSET live]
    /\ \A p, q \in Processes : p # q => held[p] \cap held[q] = {}

LEMMA HeldType ==
  TypeOK /\ HeldInv /\ [Next]_vars => HeldTypeOK'
<1> SUFFICES ASSUME TypeOK /\ HeldInv, [Next]_vars
             PROVE  HeldTypeOK'
  OBVIOUS
<1> USE TableStep, TableKept DEF HeldTypeOK, TypeOK, tableVars, requestVars,
      workerVars, historyVars, Forget, Unwind, EndCycle, GiveUp, Purging
<1>1. ASSUME NEW p \in Processes, NEW r \in Routes, Receive(p, r)
      PROVE  HeldTypeOK'
  BY <1>1 DEF Receive
<1>2. ASSUME NEW p \in Processes, Refuse(p)
      PROVE  HeldTypeOK'
  BY <1>2 DEF Refuse
<1>3. ASSUME NEW p \in Processes, Admit(p)
      PROVE  HeldTypeOK'
  BY <1>3 DEF Admit
<1>4. ASSUME NEW p \in Processes, Handle(p)
      PROVE  HeldTypeOK'
  BY <1>4 DEF Handle
<1>5. ASSUME NEW p \in Processes, Panic(p)
      PROVE  HeldTypeOK'
  BY <1>5 DEF Panic
<1>6. ASSUME NEW p \in Processes, AppendEvent(p)
      PROVE  HeldTypeOK'
  <2>1. live \subseteq live'
    BY <1>6, AuditEventType, Inserted DEF AppendEvent
  <2> QED  BY <1>6, <2>1 DEF AppendEvent
<1>7. ASSUME NEW p \in Processes, AppendFail(p)
      PROVE  HeldTypeOK'
  <2>1. live \subseteq live'
    BY <1>7, AuditEventType, Inserted DEF AppendFail
  <2> QED  BY <1>7, <2>1 DEF AppendFail
<1>8. ASSUME NEW p \in Processes, LogError(p)
      PROVE  HeldTypeOK'
  BY <1>8 DEF LogError
<1>9. ASSUME NEW p \in Processes, BeginCycle(p)
      PROVE  HeldTypeOK'
  BY <1>9 DEF BeginCycle, HeldInv
<1>10. ASSUME NEW p \in Processes, PurgeNone(p)
      PROVE  HeldTypeOK'
  BY <1>10 DEF PurgeNone, Count
<1>11. ASSUME NEW p \in Processes, PurgeLock(p)
      PROVE  HeldTypeOK'
  BY <1>11 DEF PurgeLock, Candidates
<1>12. ASSUME NEW p \in Processes, PurgeCommit(p)
      PROVE  HeldTypeOK'
  BY <1>12 DEF PurgeCommit
<1>13. ASSUME NEW p \in Processes, PurgeFail(p)
      PROVE  HeldTypeOK'
  BY <1>13 DEF PurgeFail
<1>14. ASSUME NEW p \in Processes, RecordCleanup(p)
      PROVE  HeldTypeOK'
  <2>1. live \subseteq live'
    BY <1>14, CleanupEventType, Inserted DEF RecordCleanup
  <2> QED  BY <1>14, <2>1 DEF RecordCleanup
<1>15. ASSUME NEW p \in Processes, Start(p)
      PROVE  HeldTypeOK'
  BY <1>15 DEF Start
<1>16. ASSUME NEW p \in Processes, Stop(p)
      PROVE  HeldTypeOK'
  BY <1>16 DEF Stop
<1>17. ASSUME NEW p \in Processes, Exit(p)
      PROVE  HeldTypeOK'
  BY <1>17 DEF Exit
<1>18. ASSUME NEW p \in Processes, Crash(p)
      PROVE  HeldTypeOK'
  BY <1>18 DEF Crash
<1>19. CASE Tick
  BY <1>19 DEF Tick
<1>20. CASE UNCHANGED vars
  BY <1>20 DEF vars, tableVars, requestVars, workerVars
<1> QED  BY <1>1, <1>2, <1>3, <1>4, <1>5, <1>6, <1>7, <1>8, <1>9, <1>10,
      <1>11, <1>12, <1>13, <1>14, <1>15, <1>16, <1>17, <1>18, <1>19, <1>20 DEF
      Next, Serve, Cleanup

(* What a step may do to the table and the history.                        *)
AddsRow(r, d) ==
  /\ r \in Rows \ Written
  /\ live' = live \cup {r}
  /\ Written' = Written \cup {r}
  /\ event'[r].deleted = d
  /\ \A s \in Written : event'[s] = event[s]

Appended == \E r : AddsRow(r, NoneDeleted) /\ UNCHANGED historyVars

Removed(p) ==
  /\ live' = live \ held[p]
  /\ purged' = [purged EXCEPT ![p] = @ \cup held[p]]
  /\ UNCHANGED <<event, reports, lost>>

Failed(p) ==
  /\ live' \in {live, live \ held[p]}
  /\ lost' = lost \cup purged[p] \cup (live \ live')
  /\ purged' = [purged EXCEPT ![p] = {}]
  /\ UNCHANGED <<event, reports>>

Recorded(p) ==
  \E r :
    /\ AddsRow(r, deleted[p])
    /\ reports' = [reports EXCEPT ![r] = purged[p]]
    /\ purged' = [purged EXCEPT ![p] = {}]
    /\ UNCHANGED lost

HistoryNext ==
  \/ UNCHANGED <<tableVars, historyVars>>
  \/ Appended
  \/ \E p \in Processes : Removed(p) \/ Failed(p) \/ Recorded(p)

LEMMA Adds ==
  ASSUME TypeOK, NEW e \in Event, Insert(e)
  PROVE  \E r : AddsRow(r, e.deleted)
<1>1. PICK r \in Rows \ Written :
        event'[r] = e /\ live' = live \cup {r} /\ Written' = Written \cup {r}
  BY Inserted
<1>2. \A s \in Written : event'[s] = event[s]
  BY Inserted
<1> QED  BY <1>1, <1>2 DEF AddsRow

LEMMA HistoryStep ==
  TypeOK /\ [Next]_vars => HistoryNext
<1> SUFFICES ASSUME TypeOK, [Next]_vars
             PROVE  HistoryNext
  OBVIOUS
<1> USE DEF HistoryNext, tableVars, requestVars, workerVars, historyVars, Unwind
<1>1. ASSUME NEW p \in Processes, NEW r \in Routes, Receive(p, r)
      PROVE  HistoryNext
  BY <1>1 DEF Receive
<1>2. ASSUME NEW p \in Processes, Refuse(p)
      PROVE  HistoryNext
  BY <1>2 DEF Refuse
<1>3. ASSUME NEW p \in Processes, Admit(p)
      PROVE  HistoryNext
  BY <1>3 DEF Admit
<1>4. ASSUME NEW p \in Processes, Handle(p)
      PROVE  HistoryNext
  BY <1>4 DEF Handle
<1>5. ASSUME NEW p \in Processes, Panic(p)
      PROVE  HistoryNext
  BY <1>5 DEF Panic
<1>6. ASSUME NEW p \in Processes, AppendEvent(p)
      PROVE  HistoryNext
  <2>1. AuditEvent(request[p]) \in Event /\ AuditEvent(request[p]).deleted = NoneDeleted
    BY AuditEventType DEF AuditEvent
  <2>2. Insert(AuditEvent(request[p])) /\ UNCHANGED historyVars
    BY <1>6 DEF AppendEvent
  <2>3. \E r : AddsRow(r, NoneDeleted)
    BY <2>1, <2>2, Adds
  <2> QED  BY <2>2, <2>3 DEF Appended
<1>7. ASSUME NEW p \in Processes, AppendFail(p)
      PROVE  HistoryNext
  <2>1. AuditEvent(request[p]) \in Event /\ AuditEvent(request[p]).deleted = NoneDeleted
    BY AuditEventType DEF AuditEvent
  <2>2. UNCHANGED historyVars
    BY <1>7 DEF AppendFail
  <2>3. CASE Insert(AuditEvent(request[p]))
    <3>1. \E r : AddsRow(r, NoneDeleted)
      BY <2>1, <2>3, Adds
    <3> QED  BY <2>2, <3>1 DEF Appended
  <2>4. CASE UNCHANGED tableVars
    BY <2>2, <2>4
  <2> QED  BY <1>7, <2>3, <2>4 DEF AppendFail
<1>8. ASSUME NEW p \in Processes, LogError(p)
      PROVE  HistoryNext
  BY <1>8 DEF LogError
<1>9. ASSUME NEW p \in Processes, BeginCycle(p)
      PROVE  HistoryNext
  BY <1>9 DEF BeginCycle
<1>10. ASSUME NEW p \in Processes, PurgeNone(p)
      PROVE  HistoryNext
  BY <1>10 DEF PurgeNone
<1>11. ASSUME NEW p \in Processes, PurgeLock(p)
      PROVE  HistoryNext
  BY <1>11 DEF PurgeLock
<1>12. ASSUME NEW p \in Processes, PurgeCommit(p)
      PROVE  HistoryNext
  <2>1. Removed(p)
    BY <1>12 DEF PurgeCommit, Removed
  <2> QED  BY <2>1
<1>13. ASSUME NEW p \in Processes, PurgeFail(p)
      PROVE  HistoryNext
  <2>1. Failed(p)
    BY <1>13 DEF PurgeFail, GiveUp, Failed
  <2> QED  BY <2>1
<1>14. ASSUME NEW p \in Processes, RecordCleanup(p)
      PROVE  HistoryNext
  <2>1. CASE UNCHANGED tableVars /\ GiveUp(p, {})
    <3>1. Failed(p)
      BY <2>1 DEF GiveUp, Failed
    <3> QED  BY <3>1
  <2>2. CASE /\ Insert(CleanupEvent(p))
             /\ reports' = [r \in Rows |-> IF r \in live' \ live THEN purged[p] ELSE reports[r]]
             /\ purged' = [purged EXCEPT ![p] = {}]
             /\ UNCHANGED lost
    <3>1. CleanupEvent(p) \in Event /\ CleanupEvent(p).deleted = deleted[p]
      BY CleanupEventType DEF CleanupEvent
    <3>2. PICK r : AddsRow(r, deleted[p])
      BY <2>2, <3>1, Adds
    <3>3. r \in Rows /\ live' \ live = {r}
      BY <3>2 DEF AddsRow, TypeOK
    <3>4. reports' = [reports EXCEPT ![r] = purged[p]]
      BY <2>2, <3>3 DEF TypeOK
    <3>5. Recorded(p)
      BY <2>2, <3>2, <3>4 DEF Recorded
    <3> QED  BY <3>5
  <2> QED  BY <1>14, <2>1, <2>2 DEF RecordCleanup
<1>15. ASSUME NEW p \in Processes, Start(p)
      PROVE  HistoryNext
  BY <1>15 DEF Start
<1>16. ASSUME NEW p \in Processes, Stop(p)
      PROVE  HistoryNext
  BY <1>16 DEF Stop
<1>17. ASSUME NEW p \in Processes, Exit(p)
      PROVE  HistoryNext
  BY <1>17 DEF Exit
<1>18. ASSUME NEW p \in Processes, Crash(p)
      PROVE  HistoryNext
  <2>1. Failed(p)
    BY <1>18 DEF Crash, GiveUp, Failed
  <2> QED  BY <2>1
<1>19. CASE Tick
  BY <1>19 DEF Tick
<1>20. CASE UNCHANGED vars
  BY <1>20 DEF vars
<1> QED  BY <1>1, <1>2, <1>3, <1>4, <1>5, <1>6, <1>7, <1>8, <1>9, <1>10,
      <1>11, <1>12, <1>13, <1>14, <1>15, <1>16, <1>17, <1>18, <1>19, <1>20 DEF
      Next, Serve, Cleanup

(* The removed rows after each of them.                                    *)
LEMMA AddsGone ==
  ASSUME TypeOK, NEW r, NEW d, AddsRow(r, d)
  PROVE  Gone' = Gone
  BY DEF TypeOK, AddsRow, Gone

LEMMA RemovedGone ==
  ASSUME TypeOK, NEW p \in Processes, Removed(p)
  PROVE  Gone' = Gone \cup held[p] /\ held[p] \cap Gone = {}
<1>1. Written' = Written
  BY DEF Removed, Written
<1> QED  BY <1>1 DEF TypeOK, Removed, Gone

LEMMA FailedGone ==
  ASSUME TypeOK, NEW p \in Processes, Failed(p)
  PROVE  Gone' = Gone \cup (live \ live') /\ (live \ live') \cap Gone = {}
<1>1. Written' = Written
  BY DEF Failed, Written
<1> QED  BY <1>1 DEF TypeOK, Failed, Gone

HistoryTypeOK ==
    /\ purged \in [Processes -> SUBSET Gone]
    /\ reports \in [Rows -> SUBSET Gone]
    /\ lost \subseteq Gone

LEMMA HistoryType ==
  TypeOK /\ HistoryNext => HistoryTypeOK'
<1> SUFFICES ASSUME TypeOK, HistoryNext
             PROVE  HistoryTypeOK'
  OBVIOUS
<1>1. HistoryTypeOK
  BY DEF TypeOK, HistoryTypeOK, Gone
<1>2. CASE UNCHANGED <<tableVars, historyVars>>
  BY <1>1, <1>2 DEF HistoryTypeOK, Gone, Written, tableVars, historyVars
<1>3. CASE Appended
  BY <1>1, <1>3, AddsGone DEF Appended, HistoryTypeOK, historyVars
<1>4. ASSUME NEW p \in Processes, Removed(p)
      PROVE  HistoryTypeOK'
  BY <1>1, <1>4, RemovedGone DEF Removed, HistoryTypeOK
<1>5. ASSUME NEW p \in Processes, Failed(p)
      PROVE  HistoryTypeOK'
  BY <1>1, <1>5, FailedGone DEF Failed, HistoryTypeOK
<1>6. ASSUME NEW p \in Processes, Recorded(p)
      PROVE  HistoryTypeOK'
  BY <1>1, <1>6, AddsGone DEF Recorded, HistoryTypeOK
<1> QED  BY <1>2, <1>3, <1>4, <1>5, <1>6 DEF HistoryNext

(* The state stays well typed.                                             *)
LEMMA TypeStep == TypeOK /\ HeldInv /\ [Next]_vars => TypeOK'
<1> SUFFICES ASSUME TypeOK, HeldInv, [Next]_vars
             PROVE  TypeOK'
  OBVIOUS
<1>1. /\ now' \in 0..MaxClock
      /\ event' \in [Rows -> Event \cup {Unwritten}]
      /\ live' \subseteq Written'
  BY TableStep, TableKept
<1> QED
  BY <1>1, WorkerType, RequestType, HeldType, HistoryStep, HistoryType
  DEF TypeOK, WorkerTypeOK, RequestTypeOK, HeldTypeOK, HistoryTypeOK, Gone

(* A statement's rows are due, and what is gone was due.                   *)
LEMMA HeldStep ==
  TypeOK /\ HeldInv /\ [Next]_vars => HeldInv'
<1> SUFFICES ASSUME TypeOK /\ HeldInv, [Next]_vars
             PROVE  HeldInv'
  OBVIOUS
<1> USE TableStep, TableKept DEF HeldInv, TypeOK, Written, Expired, tableVars,
      requestVars, workerVars, historyVars, Forget, Unwind, EndCycle, GiveUp, Purging
<1>1. ASSUME NEW p \in Processes, NEW r \in Routes, Receive(p, r)
      PROVE  HeldInv'
  BY <1>1 DEF Receive
<1>2. ASSUME NEW p \in Processes, Refuse(p)
      PROVE  HeldInv'
  BY <1>2 DEF Refuse
<1>3. ASSUME NEW p \in Processes, Admit(p)
      PROVE  HeldInv'
  BY <1>3 DEF Admit
<1>4. ASSUME NEW p \in Processes, Handle(p)
      PROVE  HeldInv'
  BY <1>4 DEF Handle
<1>5. ASSUME NEW p \in Processes, Panic(p)
      PROVE  HeldInv'
  BY <1>5 DEF Panic
<1>6. ASSUME NEW p \in Processes, AppendEvent(p)
      PROVE  HeldInv'
  BY <1>6 DEF AppendEvent
<1>7. ASSUME NEW p \in Processes, AppendFail(p)
      PROVE  HeldInv'
  BY <1>7 DEF AppendFail
<1>8. ASSUME NEW p \in Processes, LogError(p)
      PROVE  HeldInv'
  BY <1>8 DEF LogError
<1>9. ASSUME NEW p \in Processes, BeginCycle(p)
      PROVE  HeldInv'
  <2>1. held' = held /\ UNCHANGED event /\ held[p] = {}
    BY <1>9 DEF BeginCycle, Classes
  <2>2. \A q \in Processes \ {p} : phase'[q] = phase[q] /\ started'[q] = started[q]
    BY <1>9 DEF BeginCycle, Classes
  <2> QED  BY <2>1, <2>2
<1>10. ASSUME NEW p \in Processes, PurgeNone(p)
      PROVE  HeldInv'
  <2>1. held' = held /\ held[p] = {} /\ UNCHANGED event
    BY <1>10 DEF PurgeNone
  <2>2. \A q \in Processes \ {p} : phase'[q] = phase[q] /\ started'[q] = started[q]
    BY <1>10, CountType DEF PurgeNone
  <2> QED  BY <2>1, <2>2
<1>11. ASSUME NEW p \in Processes, PurgeLock(p)
      PROVE  HeldInv'
  BY <1>11 DEF PurgeLock, Candidates
<1>12. ASSUME NEW p \in Processes, PurgeCommit(p)
      PROVE  HeldInv'
  <2>1. held[p] \in SUBSET Rows /\ held' = [held EXCEPT ![p] = {}]
    BY <1>12 DEF PurgeCommit
  <2>2. \A q \in Processes \ {p} : phase'[q] = phase[q] /\ started'[q] = started[q]
    BY <1>12, <2>1, CountType DEF PurgeCommit
  <2>3. UNCHANGED event
    BY <1>12 DEF PurgeCommit
  <2> QED  BY <2>1, <2>2, <2>3
<1>13. ASSUME NEW p \in Processes, PurgeFail(p)
      PROVE  HeldInv'
  BY <1>13 DEF PurgeFail
<1>14. ASSUME NEW p \in Processes, RecordCleanup(p)
      PROVE  HeldInv'
  <2>1. held' = held /\ held[p] = {} /\ \A r \in Written : event'[r] = event[r]
    BY <1>14 DEF RecordCleanup, Classes
  <2>2. \A q \in Processes \ {p} : phase'[q] = phase[q] /\ started'[q] = started[q]
    BY <1>14 DEF RecordCleanup, Classes
  <2> QED  BY <2>1, <2>2
<1>15. ASSUME NEW p \in Processes, Start(p)
      PROVE  HeldInv'
  BY <1>15 DEF Start
<1>16. ASSUME NEW p \in Processes, Stop(p)
      PROVE  HeldInv'
  BY <1>16 DEF Stop
<1>17. ASSUME NEW p \in Processes, Exit(p)
      PROVE  HeldInv'
  BY <1>17 DEF Exit
<1>18. ASSUME NEW p \in Processes, Crash(p)
      PROVE  HeldInv'
  BY <1>18 DEF Crash
<1>19. CASE Tick
  BY <1>19 DEF Tick
<1>20. CASE UNCHANGED vars
  BY <1>20 DEF vars, tableVars, requestVars, workerVars
<1> QED  BY <1>1, <1>2, <1>3, <1>4, <1>5, <1>6, <1>7, <1>8, <1>9, <1>10,
      <1>11, <1>12, <1>13, <1>14, <1>15, <1>16, <1>17, <1>18, <1>19, <1>20 DEF
      Next, Serve, Cleanup

LEMMA GoneStep == TypeOK /\ HeldInv /\ GoneInv /\ [Next]_vars => GoneInv'
<1> SUFFICES ASSUME TypeOK, HeldInv, GoneInv, [Next]_vars,
                    NEW r \in Written' \ live'
             PROVE  Expired(r, now)'
  BY DEF GoneInv, Gone
<1>1. now \in Nat /\ now' \in Nat /\ now <= now'
  BY TableStep, TableKept
<1>2. CASE r \in Written \ live
  BY <1>1, <1>2, TableStep, ExpiredKept DEF GoneInv, Gone
<1>3. ASSUME NEW p \in Processes, r \in held[p]
      PROVE  Expired(r, now)'
  <2>1. r \in Written /\ Expired(r, started[p]) /\ started[p] \in 0..now
    BY <1>3 DEF HeldInv, TypeOK
  <2> QED  BY <1>1, <2>1, TableStep, ExpiredKept
<1> QED  BY <1>2, <1>3, TableStep, TableKept

(* What a cycle counts of a class is what it removed of it.                *)
LEMMA CountKept ==
  ASSUME TypeOK, TypeOK', TableNext, CountInv, NEW q \in Processes,
         UNCHANGED <<deleted[q], purged[q]>>
  PROVE  \A c \in Classes : deleted'[q][c] = Cardinality(OfClass(purged[q], c)')
<1>1. \A r \in purged[q] : event'[r] = event[r]
  BY TableKept DEF TypeOK
<1>2. \A c \in Classes : OfClass(purged[q], c)' = OfClass(purged[q], c)
  BY <1>1 DEF OfClass
<1> QED  BY <1>2 DEF CountInv

LEMMA CountEnded ==
  ASSUME TypeOK, NEW p \in Processes, EndCycle(p), purged' = [purged EXCEPT ![p] = {}]
  PROVE  /\ \A c \in Classes : deleted'[p][c] = Cardinality(OfClass(purged[p], c)')
         /\ \A q \in Processes \ {p} : UNCHANGED <<deleted[q], purged[q]>>
<1>1. \A c \in Classes : OfClass(purged[p], c)' = {} /\ deleted'[p][c] = 0
  BY DEF EndCycle, OfClass, NoneDeleted, TypeOK
<1> QED  BY <1>1, FS_EmptySet DEF EndCycle, TypeOK

LEMMA CountAdded ==
  ASSUME TypeOK, CountInv, NEW p \in Processes, NEW S \in SUBSET live,
         \A r \in S : event[r].class = phase[p],
         Purging(p), Count(p, S), UNCHANGED event,
         purged' = [purged EXCEPT ![p] = @ \cup S]
  PROVE  /\ \A c \in Classes : deleted'[p][c] = Cardinality(OfClass(purged[p], c)')
         /\ \A q \in Processes \ {p} : UNCHANGED <<deleted[q], purged[q]>>
<1>1. S \in SUBSET Rows
  BY DEF TypeOK, Written
<1>2. /\ deleted'[p] = [deleted[p] EXCEPT ![phase[p]] = @ + Cardinality(S)]
      /\ \A q \in Processes \ {p} : deleted'[q] = deleted[q]
  BY <1>1, CountType
<1>3. \A q \in Processes \ {p} : UNCHANGED <<deleted[q], purged[q]>>
  BY <1>2 DEF TypeOK
<1>4. ASSUME NEW c \in Classes
      PROVE  deleted'[p][c] = Cardinality(OfClass(purged[p], c)')
  <2>1. deleted[p][c] = Cardinality(OfClass(purged[p], c)) /\ deleted[p] \in [Classes -> Nat]
    BY DEF CountInv, TypeOK
  <2>2. purged'[p] = purged[p] \cup S
    BY DEF TypeOK
  <2>3. CASE c # phase[p]
    <3>1. OfClass(purged[p], c)' = OfClass(purged[p], c)
      BY <2>2, <2>3 DEF OfClass
    <3>2. deleted'[p][c] = deleted[p][c]
      BY <1>2, <2>1, <2>3
    <3> QED  BY <2>1, <3>1, <3>2
  <2>4. CASE c = phase[p]
    <3>1. OfClass(purged[p], c)' = OfClass(purged[p], c) \cup S /\ OfClass(purged[p], c) \cap S = {}
      BY <2>2, <2>4 DEF OfClass, TypeOK
    <3>2. deleted'[p][c] = deleted[p][c] + Cardinality(S)
      BY <1>2, <2>1, <2>4
    <3>3. OfClass(purged[p], c) \in SUBSET Rows
      BY DEF OfClass, TypeOK, Written
    <3>4. IsFiniteSet(OfClass(purged[p], c)) /\ IsFiniteSet(S)
      BY <1>1, <3>3, FiniteRows
    <3>5. Cardinality(OfClass(purged[p], c) \cup S)
            = Cardinality(OfClass(purged[p], c)) + Cardinality(S)
      <4>1. Cardinality(OfClass(purged[p], c)) \in Nat /\ Cardinality(S) \in Nat
        BY <3>4, FS_CardinalityType
      <4>2. Cardinality(OfClass(purged[p], c) \cap S) = 0
        BY <3>1, FS_EmptySet
      <4>3. Cardinality(OfClass(purged[p], c) \cup S)
              = Cardinality(OfClass(purged[p], c)) + Cardinality(S)
                  - Cardinality(OfClass(purged[p], c) \cap S)
        BY <3>4, FS_Union
      <4> QED  BY ONLY <4>1, <4>2, <4>3
    <3> QED  BY <2>1, <3>1, <3>2, <3>5
  <2> QED  BY <2>3, <2>4
<1> QED  BY <1>3, <1>4

LEMMA CountStep ==
  TypeOK /\ HeldInv /\ CountInv /\ [Next]_vars => CountInv'
<1> SUFFICES ASSUME TypeOK /\ HeldInv /\ CountInv, [Next]_vars
             PROVE  CountInv'
  OBVIOUS
<1> USE TableStep, TypeStep, CountKept DEF requestVars, workerVars, historyVars,
      CountInv, Unwind
<1>1. ASSUME NEW p \in Processes, NEW r \in Routes, Receive(p, r)
      PROVE  CountInv'
  BY <1>1 DEF Receive
<1>2. ASSUME NEW p \in Processes, Refuse(p)
      PROVE  CountInv'
  BY <1>2 DEF Refuse
<1>3. ASSUME NEW p \in Processes, Admit(p)
      PROVE  CountInv'
  BY <1>3 DEF Admit
<1>4. ASSUME NEW p \in Processes, Handle(p)
      PROVE  CountInv'
  BY <1>4 DEF Handle
<1>5. ASSUME NEW p \in Processes, Panic(p)
      PROVE  CountInv'
  BY <1>5 DEF Panic
<1>6. ASSUME NEW p \in Processes, AppendEvent(p)
      PROVE  CountInv'
  BY <1>6 DEF AppendEvent
<1>7. ASSUME NEW p \in Processes, AppendFail(p)
      PROVE  CountInv'
  BY <1>7 DEF AppendFail
<1>8. ASSUME NEW p \in Processes, LogError(p)
      PROVE  CountInv'
  BY <1>8 DEF LogError
<1>9. ASSUME NEW p \in Processes, BeginCycle(p)
      PROVE  CountInv'
  BY <1>9 DEF BeginCycle
<1>10. ASSUME NEW p \in Processes, PurgeNone(p)
      PROVE  CountInv'
  <2>1. Purging(p) /\ Count(p, {}) /\ UNCHANGED event
    BY <1>10 DEF PurgeNone, tableVars
  <2>2. purged' = [purged EXCEPT ![p] = @ \cup {}]
    BY <1>10 DEF PurgeNone, TypeOK
  <2> QED  BY <2>1, <2>2, CountAdded
<1>11. ASSUME NEW p \in Processes, PurgeLock(p)
      PROVE  CountInv'
  BY <1>11 DEF PurgeLock
<1>12. ASSUME NEW p \in Processes, PurgeCommit(p)
      PROVE  CountInv'
  <2>1. /\ Purging(p) /\ Count(p, held[p]) /\ UNCHANGED event
        /\ purged' = [purged EXCEPT ![p] = @ \cup held[p]]
    BY <1>12 DEF PurgeCommit, HeldInv
  <2>2. held[p] \in SUBSET live /\ \A r \in held[p] : event[r].class = phase[p]
    BY <1>12 DEF HeldInv, TypeOK, PurgeCommit
  <2> QED  BY <2>1, <2>2, CountAdded
<1>13. ASSUME NEW p \in Processes, PurgeFail(p)
      PROVE  CountInv'
  BY <1>13, CountEnded, CountKept DEF PurgeFail, GiveUp
<1>14. ASSUME NEW p \in Processes, RecordCleanup(p)
      PROVE  CountInv'
  <2>1. EndCycle(p) /\ purged' = [purged EXCEPT ![p] = {}]
    BY <1>14 DEF RecordCleanup, GiveUp
  <2> QED  BY <2>1, CountEnded, CountKept
<1>15. ASSUME NEW p \in Processes, Start(p)
      PROVE  CountInv'
  BY <1>15 DEF Start
<1>16. ASSUME NEW p \in Processes, Stop(p)
      PROVE  CountInv'
  BY <1>16 DEF Stop
<1>17. ASSUME NEW p \in Processes, Exit(p)
      PROVE  CountInv'
  BY <1>17 DEF Exit
<1>18. ASSUME NEW p \in Processes, Crash(p)
      PROVE  CountInv'
  BY <1>18, CountEnded, CountKept DEF Crash, GiveUp
<1>19. CASE Tick
  BY <1>19 DEF Tick
<1>20. CASE UNCHANGED vars
  BY <1>20 DEF vars
<1> QED  BY <1>1, <1>2, <1>3, <1>4, <1>5, <1>6, <1>7, <1>8, <1>9, <1>10,
      <1>11, <1>12, <1>13, <1>14, <1>15, <1>16, <1>17, <1>18, <1>19, <1>20 DEF
      Next, Serve, Cleanup

(* A cycle ends with its counts reset, or without any.                     *)
LEMMA IdleStep ==
  TypeOK /\ HeldInv /\ IdleInv /\ [Next]_vars => IdleInv'
<1> SUFFICES ASSUME TypeOK /\ HeldInv /\ IdleInv, [Next]_vars
             PROVE  IdleInv'
  OBVIOUS
<1> USE DEF TypeOK, IdleInv, requestVars, workerVars, Unwind, EndCycle, GiveUp
<1>1. ASSUME NEW p \in Processes, NEW r \in Routes, Receive(p, r)
      PROVE  IdleInv'
  BY <1>1 DEF Receive
<1>2. ASSUME NEW p \in Processes, Refuse(p)
      PROVE  IdleInv'
  BY <1>2 DEF Refuse
<1>3. ASSUME NEW p \in Processes, Admit(p)
      PROVE  IdleInv'
  BY <1>3 DEF Admit
<1>4. ASSUME NEW p \in Processes, Handle(p)
      PROVE  IdleInv'
  BY <1>4 DEF Handle
<1>5. ASSUME NEW p \in Processes, Panic(p)
      PROVE  IdleInv'
  BY <1>5 DEF Panic
<1>6. ASSUME NEW p \in Processes, AppendEvent(p)
      PROVE  IdleInv'
  BY <1>6 DEF AppendEvent
<1>7. ASSUME NEW p \in Processes, AppendFail(p)
      PROVE  IdleInv'
  BY <1>7 DEF AppendFail
<1>8. ASSUME NEW p \in Processes, LogError(p)
      PROVE  IdleInv'
  BY <1>8 DEF LogError
<1>9. ASSUME NEW p \in Processes, BeginCycle(p)
      PROVE  IdleInv'
  BY <1>9 DEF BeginCycle, Classes
<1>10. ASSUME NEW p \in Processes, PurgeNone(p)
      PROVE  IdleInv'
  <2>1. Purging(p) /\ Count(p, {})
    BY <1>10 DEF PurgeNone
  <2> QED  BY <2>1, CountType
<1>11. ASSUME NEW p \in Processes, PurgeLock(p)
      PROVE  IdleInv'
  BY <1>11 DEF PurgeLock
<1>12. ASSUME NEW p \in Processes, PurgeCommit(p)
      PROVE  IdleInv'
  <2>1. Purging(p) /\ Count(p, held[p])
    BY <1>12 DEF PurgeCommit, HeldInv
  <2>2. held[p] \in SUBSET Rows
    BY DEF Written
  <2> QED  BY <2>1, <2>2, CountType
<1>13. ASSUME NEW p \in Processes, PurgeFail(p)
      PROVE  IdleInv'
  BY <1>13 DEF PurgeFail
<1>14. ASSUME NEW p \in Processes, RecordCleanup(p)
      PROVE  IdleInv'
  BY <1>14 DEF RecordCleanup
<1>15. ASSUME NEW p \in Processes, Start(p)
      PROVE  IdleInv'
  BY <1>15 DEF Start
<1>16. ASSUME NEW p \in Processes, Stop(p)
      PROVE  IdleInv'
  BY <1>16 DEF Stop
<1>17. ASSUME NEW p \in Processes, Exit(p)
      PROVE  IdleInv'
  BY <1>17 DEF Exit
<1>18. ASSUME NEW p \in Processes, Crash(p)
      PROVE  IdleInv'
  BY <1>18 DEF Crash
<1>19. CASE Tick
  BY <1>19 DEF Tick
<1>20. CASE UNCHANGED vars
  BY <1>20 DEF vars
<1> QED  BY <1>1, <1>2, <1>3, <1>4, <1>5, <1>6, <1>7, <1>8, <1>9, <1>10,
      <1>11, <1>12, <1>13, <1>14, <1>15, <1>16, <1>17, <1>18, <1>19, <1>20 DEF
      Next, Serve, Cleanup

LEMMA NothingCounted ==
  ASSUME TypeOK, CountInv, NEW p \in Processes, deleted[p] = NoneDeleted
  PROVE  purged[p] = {}
<1> SUFFICES ASSUME NEW r \in purged[p]
             PROVE  FALSE
  OBVIOUS
<1>1. r \in Rows /\ event[r] \in Event
  BY DEF TypeOK, Written
<1> DEFINE c == event[r].class
<1>2. c \in Classes /\ r \in OfClass(purged[p], c)
  BY <1>1 DEF Event, OfClass
<1>3. Cardinality(OfClass(purged[p], c)) = 0
  BY <1>2 DEF CountInv, NoneDeleted
<1>4. OfClass(purged[p], c) \in SUBSET Rows
  BY DEF OfClass, TypeOK, Written
<1> QED  BY <1>2, <1>3, <1>4, FiniteRows, FS_EmptySet

(* No removed row is accounted for twice, and none is forgotten.           *)
LEMMA ShareStep ==
  TypeOK /\ ReportInv /\ ShareInv /\ HistoryNext => ShareInv'
<1> SUFFICES ASSUME TypeOK, ReportInv, ShareInv, HistoryNext
             PROVE  ShareInv'
  OBVIOUS
<1>1. HistoryTypeOK
  BY DEF TypeOK, HistoryTypeOK, Gone
<1>2. CASE UNCHANGED <<tableVars, historyVars>>
  BY <1>2 DEF ShareInv, Gone, Written, tableVars, historyVars
<1>3. CASE Appended
  BY <1>3, AddsGone DEF Appended, ShareInv, historyVars
<1>4. ASSUME NEW p \in Processes, Removed(p)
      PROVE  ShareInv'
  <2>1. Gone' = Gone \cup held[p] /\ held[p] \cap Gone = {}
    BY <1>4, RemovedGone
  <2>2. reports' = reports /\ lost' = lost
    BY <1>4 DEF Removed
  <2>3. \A q \in Processes : purged'[q] = IF q = p THEN purged[p] \cup held[p] ELSE purged[q]
    BY <1>1, <1>4 DEF Removed, HistoryTypeOK
  <2> QED  BY <1>1, <2>1, <2>2, <2>3 DEF ShareInv, HistoryTypeOK
<1>5. ASSUME NEW p \in Processes, Failed(p)
      PROVE  ShareInv'
  <2> DEFINE now_gone == live \ live'
  <2>1. Gone' = Gone \cup now_gone /\ now_gone \cap Gone = {}
    BY <1>5, FailedGone
  <2>2. reports' = reports /\ lost' = lost \cup purged[p] \cup now_gone
    BY <1>5 DEF Failed
  <2>3. \A q \in Processes : purged'[q] = IF q = p THEN {} ELSE purged[q]
    BY <1>1, <1>5 DEF Failed, HistoryTypeOK
  <2> HIDE DEF now_gone
  <2> QED  BY <1>1, <2>1, <2>2, <2>3 DEF ShareInv, HistoryTypeOK
<1>6. ASSUME NEW p \in Processes, Recorded(p)
      PROVE  ShareInv'
  <2>1. PICK r : AddsRow(r, deleted[p]) /\ reports' = [reports EXCEPT ![r] = purged[p]]
    BY <1>6 DEF Recorded
  <2>2. Gone' = Gone /\ r \in Rows /\ reports[r] = {}
    BY <2>1, AddsGone DEF AddsRow, ReportInv
  <2>3. \A q \in Processes : purged'[q] = IF q = p THEN {} ELSE purged[q]
    BY <1>1, <1>6 DEF Recorded, HistoryTypeOK
  <2>4. \A s \in Rows : reports'[s] = IF s = r THEN purged[p] ELSE reports[s]
    BY <1>1, <2>1 DEF HistoryTypeOK
  <2>5. lost' = lost
    BY <1>6 DEF Recorded
  <2> QED  BY <2>2, <2>3, <2>4, <2>5 DEF ShareInv
<1> QED  BY <1>2, <1>3, <1>4, <1>5, <1>6 DEF HistoryNext

(* What a cleanup event counts is what the cycle counted, and removed.     *)
LEMMA ReportStep ==
  TypeOK /\ CountInv /\ ReportInv /\ HistoryNext => ReportInv'
<1> SUFFICES ASSUME TypeOK, CountInv, ReportInv, HistoryNext
             PROVE  ReportInv'
  OBVIOUS
<1>1. \A r \in Rows : reports[r] \subseteq Written
  BY DEF TypeOK
<1>2. ASSUME UNCHANGED <<event, reports>>
      PROVE  ReportInv'
  BY <1>2 DEF ReportInv, Written, OfClass
<1>3. ASSUME NEW r, NEW d, AddsRow(r, d),
             \A s \in Rows \ {r} : reports'[s] = reports[s],
             \A c \in Classes : d[c] = Cardinality(OfClass(reports'[r], c)),
             reports'[r] \subseteq Written
      PROVE  ReportInv'
  <2>1. /\ r \in Rows \ Written /\ Written' = Written \cup {r} /\ event'[r].deleted = d
        /\ \A s \in Written : event'[s] = event[s]
    BY <1>3 DEF AddsRow
  <2>2. \A s \in Rows : reports'[s] \subseteq Written
    BY <1>1, <1>3
  <2>3. \A s \in Rows, c \in Classes : OfClass(reports[s], c)' = OfClass(reports'[s], c)
    BY <2>1, <2>2 DEF OfClass
  <2>4. \A c \in Classes : event'[r].deleted[c] = Cardinality(OfClass(reports[r], c)')
    BY <1>3, <2>1, <2>3
  <2>5. \A s \in Written, c \in Classes :
          event'[s].deleted[c] = Cardinality(OfClass(reports[s], c)')
    <3>1. \A s \in Written : s \in Rows \ {r}
      BY <2>1 DEF Written
    <3> QED  BY <1>3, <2>1, <2>3, <3>1 DEF ReportInv
  <2>6. \A s \in Rows \ Written' : reports'[s] = {}
    BY <1>3, <2>1 DEF ReportInv
  <2> QED  BY <2>1, <2>4, <2>5, <2>6 DEF ReportInv
<1>4. CASE Appended
  <2>1. PICK r : AddsRow(r, NoneDeleted) /\ UNCHANGED reports
    BY <1>4 DEF Appended, historyVars
  <2>2. r \in Rows /\ reports'[r] = {}
    BY <2>1 DEF AddsRow, ReportInv
  <2>3. \A c \in Classes : NoneDeleted[c] = Cardinality(OfClass(reports'[r], c))
    <3>1. \A c \in Classes : OfClass(reports'[r], c) = {}
      BY <2>2 DEF OfClass
    <3> QED  BY <3>1, FS_EmptySet DEF NoneDeleted
  <2> QED  BY <1>3, <2>1, <2>2, <2>3
<1>5. ASSUME NEW p \in Processes, Recorded(p)
      PROVE  ReportInv'
  <2>1. PICK r : AddsRow(r, deleted[p]) /\ reports' = [reports EXCEPT ![r] = purged[p]]
    BY <1>5 DEF Recorded
  <2>2. r \in Rows
    BY <2>1 DEF AddsRow
  <2>3. reports'[r] = purged[p] /\ \A s \in Rows \ {r} : reports'[s] = reports[s]
    BY <2>1, <2>2 DEF TypeOK
  <2>4. purged[p] \subseteq Written
    BY DEF TypeOK
  <2> QED  BY <1>3, <2>1, <2>3, <2>4 DEF CountInv
<1> QED  BY <1>2, <1>4, <1>5 DEF HistoryNext, Removed, Failed, tableVars, historyVars

LEMMA Initially == Init => IInv
<1> SUFFICES ASSUME Init PROVE IInv
  OBVIOUS
<1>1. TypeOK
  BY DEF Init, TypeOK, Written, NoneDeleted
<1>2. HeldInv /\ GoneInv /\ IdleInv /\ ReportInv /\ ShareInv
  BY DEF Init, HeldInv, GoneInv, IdleInv, ReportInv, ShareInv, Gone, Written
<1>3. CountInv
  <2>1. \A p \in Processes, c \in Classes : OfClass(purged[p], c) = {} /\ deleted[p][c] = 0
    BY DEF Init, OfClass, NoneDeleted
  <2> QED  BY <2>1, FS_EmptySet DEF CountInv
<1> QED  BY <1>1, <1>2, <1>3 DEF IInv

THEOREM Invariance == Spec => []IInv
<1>1. IInv /\ [Next]_vars => IInv'
  BY TypeStep, HeldStep, GoneStep, CountStep, IdleStep, HistoryStep, ReportStep, ShareStep
  DEF IInv
<1> QED  BY <1>1, Initially, PTL DEF Spec

(* Well-typedness, with the exclusion of row locks.                        *)
THEOREM TypeCorrect == Spec => []TypeOK
<1>1. IInv => TypeOK
  BY DEF IInv
<1> QED  BY <1>1, Invariance, PTL

(* No event is purged early; what cleanup events count is right, row by    *)
(* row; and a removed row that none of them counts is one of a cycle that  *)
(* is under way or has failed.  For any number of processes, rows and      *)
(* batches, and any retention.                                             *)
THEOREM PurgesAreAccounted == Spec => []PurgeIsAccounted
<1>1. IInv => PurgeIsAccounted
  <2> SUFFICES ASSUME IInv
               PROVE  PurgeIsAccounted
    OBVIOUS
  <2>1. UnderWay = UNION {purged[p] : p \in Processes}
    <3>1. \A p \in Processes : phase[p] = "wait" => purged[p] = {}
      BY NothingCounted DEF IInv, IdleInv
    <3> QED  BY <3>1 DEF UnderWay
  <2>2. Gone = Reported \cup UnderWay \cup lost
    <3>1. Gone \subseteq Reported \cup UnderWay \cup lost
      BY <2>1 DEF IInv, ShareInv, Reported
    <3>2. Reported \subseteq Gone /\ UnderWay \subseteq Gone /\ lost \subseteq Gone
      BY <2>1 DEF IInv, TypeOK, Reported, Gone
    <3> QED  BY <3>1, <3>2
  <2>3. Reported \cap UnderWay = {} /\ Reported \cap lost = {}
    BY <2>1 DEF IInv, ShareInv, Reported
  <2> QED  BY <2>2, <2>3 DEF IInv, GoneInv, ReportInv, ShareInv, PurgeIsAccounted
<1> QED  BY <1>1, Invariance, PTL

Audited ==
  \A p \in Processes :
     /\ stage[p] \in {"auth", "handler", "audit"} /\ stage'[p] = "idle"
     /\ request[p] \notin SkippedRoutes
     /\ state'[p] # "down"
     => \E r \in live' \ live : event'[r] = AuditEvent(request[p])

LEMMA AuditStep ==
  TypeOK /\ [Next]_vars => Audited
<1> SUFFICES ASSUME TypeOK, [Next]_vars
             PROVE  Audited
  OBVIOUS
<1> USE DEF Audited, TypeOK, tableVars, requestVars, workerVars, Forget,
      Unwind, Purging
<1>1. ASSUME NEW p \in Processes, NEW r \in Routes, Receive(p, r)
      PROVE  Audited
  BY <1>1 DEF Receive
<1>2. ASSUME NEW p \in Processes, Refuse(p)
      PROVE  Audited
  BY <1>2 DEF Refuse
<1>3. ASSUME NEW p \in Processes, Admit(p)
      PROVE  Audited
  BY <1>3 DEF Admit
<1>4. ASSUME NEW p \in Processes, Handle(p)
      PROVE  Audited
  BY <1>4 DEF Handle
<1>5. ASSUME NEW p \in Processes, Panic(p)
      PROVE  Audited
  BY <1>5 DEF Panic
<1>6. ASSUME NEW p \in Processes, AppendEvent(p)
      PROVE  Audited
  <2>1. \E r \in live' \ live : event'[r] = AuditEvent(request[p])
    BY <1>6, AuditEventType, Inserted DEF AppendEvent
  <2>2. \A q \in Processes \ {p} : stage'[q] = stage[q]
    BY <1>6 DEF AppendEvent
  <2> QED  BY <2>1, <2>2
<1>7. ASSUME NEW p \in Processes, AppendFail(p)
      PROVE  Audited
  BY <1>7 DEF AppendFail
<1>8. ASSUME NEW p \in Processes, LogError(p)
      PROVE  Audited
  BY <1>8 DEF LogError
<1>9. ASSUME NEW p \in Processes, BeginCycle(p)
      PROVE  Audited
  BY <1>9 DEF BeginCycle
<1>10. ASSUME NEW p \in Processes, PurgeNone(p)
      PROVE  Audited
  BY <1>10 DEF PurgeNone
<1>11. ASSUME NEW p \in Processes, PurgeLock(p)
      PROVE  Audited
  BY <1>11 DEF PurgeLock
<1>12. ASSUME NEW p \in Processes, PurgeCommit(p)
      PROVE  Audited
  BY <1>12 DEF PurgeCommit
<1>13. ASSUME NEW p \in Processes, PurgeFail(p)
      PROVE  Audited
  BY <1>13 DEF PurgeFail
<1>14. ASSUME NEW p \in Processes, RecordCleanup(p)
      PROVE  Audited
  BY <1>14 DEF RecordCleanup
<1>15. ASSUME NEW p \in Processes, Start(p)
      PROVE  Audited
  BY <1>15 DEF Start
<1>16. ASSUME NEW p \in Processes, Stop(p)
      PROVE  Audited
  BY <1>16 DEF Stop
<1>17. ASSUME NEW p \in Processes, Exit(p)
      PROVE  Audited
  BY <1>17 DEF Exit
<1>18. ASSUME NEW p \in Processes, Crash(p)
      PROVE  Audited
  BY <1>18 DEF Crash
<1>19. CASE Tick
  BY <1>19 DEF Tick
<1>20. CASE UNCHANGED vars
  BY <1>20 DEF vars, tableVars, requestVars, workerVars
<1> QED  BY <1>1, <1>2, <1>3, <1>4, <1>5, <1>6, <1>7, <1>8, <1>9, <1>10,
      <1>11, <1>12, <1>13, <1>14, <1>15, <1>16, <1>17, <1>18, <1>19, <1>20 DEF
      Next, Serve, Cleanup

(* Every answered request leaves its event or an error in the log.         *)
THEOREM RequestsAreAudited == Spec => RequestIsAudited
<1>1. IInv /\ [Next]_vars => [Audited]_vars
  BY AuditStep DEF IInv
<1> QED  BY <1>1, Invariance, PTL DEF Spec, RequestIsAudited, Audited

(* resolveClientIP (auth_middleware.go 169-202): behind a trusted peer the *)
(* rightmost forwarded address that is no trusted proxy is the client,     *)
(* whatever stands to its left and whatever else the request claims.       *)
THEOREM RightmostClientCounts ==
  ASSUME NEW Addresses, NEW Trusted, NEW Entries, NEW forwarded \in Seq(Entries),
         NEW peer \in Trusted, NEW realIP,
         NEW i \in DOMAIN forwarded, forwarded[i] \in Addresses \ Trusted,
         \A j \in DOMAIN forwarded : j > i => forwarded[j] \notin Addresses \ Trusted
  PROVE  ClientIP(peer, forwarded, realIP, Addresses, Trusted) = forwarded[i]
<1> DEFINE clients == {j \in DOMAIN forwarded : forwarded[j] \in Addresses \ Trusted}
<1>1. DOMAIN forwarded \subseteq Nat
  OBVIOUS
<1>2. i \in clients /\ \A j \in clients : i >= j
  BY <1>1
<1>3. \A k \in clients : (\A j \in clients : k >= j) => k = i
  BY <1>1, <1>2
<1>4. Max(clients) = i
  BY <1>2, <1>3 DEF Max
<1> QED  BY <1>2, <1>4 DEF ClientIP

(* Nothing a caller that is not a trusted proxy forwards is believed.      *)
THEOREM UntrustedPeerCounts ==
  ASSUME NEW Addresses, NEW Trusted, NEW forwarded, NEW realIP, NEW peer, peer \notin Trusted
  PROVE  ClientIP(peer, forwarded, realIP, Addresses, Trusted) = peer
  BY DEF ClientIP

(* ClientIP is what resolveClientIP's loop finds, for a header of any      *)
(* length (auth_middleware.go 185-195).                                    *)
THEOREM LoopFindsClient ==
  ASSUME NEW Addresses, NEW Trusted, NEW Entries, NEW forwarded \in Seq(Entries),
         NEW realIP, NEW peer
  PROVE  resolveClientIP(peer, forwarded, realIP, Addresses, Trusted)
            = ClientIP(peer, forwarded, realIP, Addresses, Trusted)
<1> DEFINE n == Len(forwarded)
           Client(i) == forwarded[i] \in Addresses \ Trusted
           fallback == IF realIP \in Addresses THEN realIP ELSE peer
           loop[i \in 0..n] ==
             IF i = 0 THEN fallback ELSE IF Client(i) THEN forwarded[i] ELSE loop[i - 1]
           S == Entries \cup {realIP, peer}
           step == [p \in (1..n) \X S |-> IF Client(p[1]) THEN forwarded[p[1]] ELSE p[2]]
<1>1. n \in Nat /\ DOMAIN forwarded = 1..n /\ \A i \in 1..n : forwarded[i] \in S
  OBVIOUS
<1>2. loop = [i \in 0..n |-> IF i = 0 THEN fallback
                            ELSE IF Client(i) THEN forwarded[i] ELSE loop[i - 1]]
  <2> HIDE DEF n
  <2>1. step \in [(1..n) \X S -> S]
    BY <1>1
  <2>2. fallback \in S
    OBVIOUS
  <2>3. \A i \in 1..n, v \in S : step[<<i, v>>] = IF Client(i) THEN forwarded[i] ELSE v
    OBVIOUS
  <2> HIDE DEF step, fallback
  <2>4. PICK f \in [0..n -> S] : Iterates(f, n, fallback, step)
    BY <1>1, <2>1, <2>2, Recursion
  <2> HIDE DEF S, Client
  <2>5. f = [i \in 0..n |-> IF i = 0 THEN fallback
                           ELSE IF Client(i) THEN forwarded[i] ELSE f[i - 1]]
    <3>1. \A i \in 1..n : f[i - 1] \in S
      BY <1>1, <2>4
    <3>2. \A i \in 1..n : f[i] = IF Client(i) THEN forwarded[i] ELSE f[i - 1]
      BY <2>3, <2>4, <3>1 DEF Iterates
    <3> QED BY <1>1, <2>4, <3>2 DEF Iterates
  <2> QED BY <2>5
<1> DEFINE LastUpTo(k, i) == /\ k \in 1..i /\ Client(k)
                             /\ \A j \in 1..i : Client(j) => j <= k
           Found(i) == /\ (\A j \in 1..i : ~Client(j)) => loop[i] = fallback
                       /\ \A k : LastUpTo(k, i) => loop[i] = forwarded[k]
           T == {i \in 0..n : Found(i)}
<1>3. \A i \in 0..n : i \in T
  <2> HIDE DEF n, Client, loop, fallback
  <2>1. 0 \in T
    BY <1>1, <1>2
  <2>2. ASSUME NEW i \in 0..(n - 1), i \in T
        PROVE  i + 1 \in T
    <3>1. /\ i + 1 \in 0..n
          /\ loop[i + 1] = IF Client(i + 1) THEN forwarded[i + 1] ELSE loop[i]
      BY <1>1, <1>2
    <3>2. ASSUME \A j \in 1..(i + 1) : ~Client(j)
          PROVE  loop[i + 1] = fallback
      BY <1>1, <2>2, <3>1, <3>2
    <3>3. ASSUME NEW k, LastUpTo(k, i + 1)
          PROVE  loop[i + 1] = forwarded[k]
      <4>1. CASE Client(i + 1)
        <5>1. k = i + 1
          BY <1>1, <3>3, <4>1
        <5> QED BY <3>1, <4>1, <5>1
      <4>2. CASE ~Client(i + 1)
        <5>1. LastUpTo(k, i)
          BY <1>1, <3>3, <4>2
        <5> HIDE DEF LastUpTo
        <5> QED BY <2>2, <3>1, <4>2, <5>1
      <4> QED BY <4>1, <4>2
    <3> HIDE DEF LastUpTo
    <3> QED BY <3>1, <3>2, <3>3
  <2> HIDE DEF T
  <2> QED BY <1>1, <2>1, <2>2, UpTo
<1>4. Found(n)
  BY <1>1, <1>3
<1>5. resolveClientIP(peer, forwarded, realIP, Addresses, Trusted)
        = IF peer \in Trusted THEN loop[n] ELSE peer
  BY DEF resolveClientIP
<1> HIDE DEF loop
<1>6. CASE peer \notin Trusted
  BY <1>5, <1>6 DEF ClientIP
<1>7. CASE peer \in Trusted /\ \A j \in 1..n : ~Client(j)
  BY <1>1, <1>4, <1>5, <1>7 DEF ClientIP
<1>8. CASE peer \in Trusted /\ \E j \in 1..n : Client(j)
  <2> DEFINE Behind == {b \in Nat : \E j \in 1..n : Client(j) /\ b = n - j}
  <2>1. PICK b \in Behind : \A c \in Behind : b <= c
    <3>1. Behind \in SUBSET Nat /\ Behind # {}
      <4>1. PICK j \in 1..n : Client(j)
        BY <1>8
      <4> HIDE DEF n, Client
      <4>2. n - j \in Nat
        BY <1>1
      <4> QED BY <4>1, <4>2
    <3> HIDE DEF Behind
    <3> QED BY <3>1, LeastNumber
  <2>2. PICK k \in 1..n : Client(k) /\ b = n - k
    BY <2>1
  <2>3. \A j \in 1..n : Client(j) => j <= k
    <3> HIDE DEF n, Client
    <3>1. \A j \in 1..n : Client(j) => n - j \in Behind
      <4> SUFFICES ASSUME NEW j \in 1..n, Client(j)
                   PROVE  n - j \in Behind
        OBVIOUS
      <4>1. n - j \in Nat
        BY <1>1
      <4> QED BY <4>1
    <3> HIDE DEF Behind
    <3> QED BY <1>1, <2>1, <2>2, <3>1
  <2>4. LastUpTo(k, n)
    BY <2>2, <2>3
  <2>5. loop[n] = forwarded[k]
    <3> HIDE DEF LastUpTo
    <3> QED BY <1>4, <2>4
  <2>6. /\ k \in DOMAIN forwarded /\ forwarded[k] \in Addresses \ Trusted
        /\ \A j \in DOMAIN forwarded : j > k => forwarded[j] \notin Addresses \ Trusted
    BY <1>1, <2>2, <2>3
  <2>7. ClientIP(peer, forwarded, realIP, Addresses, Trusted) = forwarded[k]
    BY <1>8, <2>6, RightmostClientCounts
  <2> QED BY <1>5, <1>8, <2>5, <2>7
<1> QED BY <1>6, <1>7, <1>8
=============================================================================
