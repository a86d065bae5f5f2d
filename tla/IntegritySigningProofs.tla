----------------------- MODULE IntegritySigningProofs -----------------------
(***************************************************************************)
(* For any number of requests, wallets, objects and documents: the safety  *)
(* properties of IntegritySigning and that it implements SigningLedger.    *)
(* The argument is the inductive invariant IInv, preserved part by part;   *)
(* at its heart records are immutable (Immutable), so that what a request  *)
(* has read, or was once told, stays true.                                 *)
(***************************************************************************)
EXTENDS IntegritySigning, TLAPS

(* What the input of an operation carries.                                 *)
LEMMA Requests ==
    ASSUME NEW q \in Request
    PROVE  /\ q.op \in {"generic", "sign", "verify"}
           /\ q.wallet \in Wallet /\ q.wallet.root \in Roots
           /\ q.op # "generic" => /\ q.object \in Objects
                                 /\ q.doc \in Document
                                 /\ Sign(q) \in Signature
                                 /\ NewRecord(q) \in Record
  BY DEF Request, Wallet, Sign, NewRecord, Signature, Record

(* Past the wallet's lookup a request of the integrity operations carries  *)
(* an object and a document.                                               *)
LEMMA Carried ==
    ASSUME TypeOK, LocalInv, NEW t \in Threads,
           pc[t] \in {"get"} \cup Signing \cup Verifying \cup Reporting
    PROVE  /\ req[t] \in Request /\ req[t].op \in {"sign", "verify"}
           /\ req[t].object \in Objects
           /\ req[t].wallet \in Wallet /\ req[t].doc \in Document
           /\ Sign(req[t]) \in Signature /\ NewRecord(req[t]) \in Record
           /\ records[req[t].object] \in Record \cup {NoRecord}
<1>1. req[t] \in Request /\ req[t].op # "generic"
  BY DEF LocalInv, Signing, Verifying, Reporting
<1> QED  BY <1>1, Requests DEF TypeOK

(* A comparison with a record finds nothing or one of its codes.           *)
LEMMA Mismatches ==
    ASSUME NEW q, NEW r
    PROVE  /\ ReuseMismatch(q, r) \in ReuseCodes \cup {NoCode}
           /\ VerifyMismatch(q, r) \in VerifyCodes \cup {NoCode}
  BY DEF ReuseMismatch, VerifyMismatch, ReuseCodes, VerifyCodes

(* Appending an audit event keeps the trail typed.                         *)
LEMMA Collected ==
    ASSUME NEW t \in Threads, NEW event \in AuditEvents,
           trail \in [Threads -> SUBSET AuditEvents]
    PROVE  [trail EXCEPT ![t] = @ \cup {event}] \in [Threads -> SUBSET AuditEvents]
  OBVIOUS

(* Every step keeps the state well typed, and caches no seed while the     *)
(* vault is sealed.                                                        *)
LEMMA TypeStep == TypeOK /\ LocalInv /\ LoadedInv /\ [Next]_vars => TypeOK'
<1> SUFFICES ASSUME TypeOK /\ LocalInv /\ LoadedInv, [Next]_vars PROVE TypeOK'
  OBVIOUS
<1> USE SigningAssumption DEF vaultVars, localVars, Continue, Goto, Return,
    Refuse, TypeOK, Steps
<1>1. ASSUME NEW t \in Threads, NEW q \in Request, Begin(t, q)
      PROVE  TypeOK'
  <2>1. known'[t] \in BOOLEAN
    BY <1>1 DEF Begin
  <2> QED  BY <1>1, <2>1 DEF Begin
<1>2. ASSUME NEW t \in Threads, CheckUnsealed(t)
      PROVE  TypeOK'
  BY <1>2 DEF CheckUnsealed
<1>3. ASSUME NEW t \in Threads, LoadWallet(t)
      PROVE  TypeOK'
  BY <1>3 DEF LoadWallet
<1>4. ASSUME NEW t \in Threads, SignGet(t)
      PROVE  TypeOK'
  <2>1. records[req[t].object] \in Record \cup {NoRecord}
    BY <1>4, Carried DEF SignGet, Signing, Verifying, Reporting
  <2>2. CASE Load(t, "reuse")
    BY <1>4, <2>1, <2>2 DEF SignGet, Load
  <2>3. CASE ~Load(t, "reuse")
    BY <1>4, <2>3 DEF SignGet
  <2> QED  BY <2>2, <2>3
<1>5. ASSUME NEW t \in Threads, LoadRoot(t)
      PROVE  TypeOK'
  BY <1>5 DEF LoadRoot
<1>6. ASSUME NEW t \in Threads, UseCachedSeed(t)
      PROVE  TypeOK'
  BY <1>6 DEF UseCachedSeed, WithSeed
<1>7. ASSUME NEW t \in Threads, OpenSeed(t)
      PROVE  TypeOK'
  BY <1>7 DEF OpenSeed
<1>8. ASSUME NEW t \in Threads, CacheOpened(t)
      PROVE  TypeOK'
  <2>1. req[t].wallet.root \in Roots
    BY <1>8, Requests DEF CacheOpened, LocalInv
  <2>2. CASE ~unsealed
    BY <1>8, <2>2 DEF CacheOpened
  <2>3. CASE unsealed
    <3>1. /\ cached' \in {cached, cached \cup {req[t].wallet.root}}
          /\ UNCHANGED unsealed
      BY <1>8, <2>3 DEF CacheOpened, V!CacheSeed
    <3> QED  BY <1>8, <2>1, <2>3, <3>1 DEF CacheOpened
  <2> QED  BY <2>2, <2>3
<1>9. ASSUME NEW t \in Threads, UseNewSeed(t)
      PROVE  TypeOK'
  BY <1>9 DEF UseNewSeed, WithSeed
<1>10. ASSUME NEW t \in Threads, SealRecord(t)
      PROVE  TypeOK'
  BY <1>10 DEF SealRecord
<1>11. ASSUME NEW t \in Threads, CreateRecord(t)
      PROVE  TypeOK'
  <2>1. /\ req[t].object \in Objects /\ req[t].wallet \in Wallet
        /\ req[t].doc \in Document
        /\ Sign(req[t]) \in Signature /\ NewRecord(req[t]) \in Record
    BY <1>11, Carried DEF CreateRecord, Signing
  <2>2. CASE Continue(t, "reget") /\ UNCHANGED <<records, issued>>
    BY <1>11, <2>2 DEF CreateRecord
  <2>3. records' \in [Objects -> Record \cup {NoRecord}]
    BY <1>11, <2>1 DEF CreateRecord
  <2>4. CASE IssueSignature(t, Sign(req[t]))
    <3>1. issued' \subseteq [object : Objects, record : Record]
      BY <2>1, <2>4 DEF IssueSignature, Record
    <3> QED  BY <1>11, <2>3, <2>4, <3>1 DEF CreateRecord, IssueSignature
  <2>5. CASE Refuse(t) /\ UNCHANGED issued
    BY <1>11, <2>3, <2>5 DEF CreateRecord
  <2> QED  BY <1>11, <2>2, <2>4, <2>5 DEF CreateRecord
<1>12. ASSUME NEW t \in Threads, ReGet(t)
      PROVE  TypeOK'
  <2>1. records[req[t].object] \in Record \cup {NoRecord}
    BY <1>12, Carried DEF ReGet, Signing
  <2>2. CASE Load(t, "reuse")
    BY <1>12, <2>1, <2>2 DEF ReGet, Load
  <2>3. CASE Refuse(t)
    BY <1>12, <2>3 DEF ReGet
  <2> QED  BY <1>12, <2>2, <2>3 DEF ReGet
<1>13. ASSUME NEW t \in Threads, Reuse(t)
      PROVE  TypeOK'
  <2> DEFINE found == IF unsealed THEN ReuseMismatch(req[t], loaded[t])
                                  ELSE "SIGNING_RECORD_TAMPERED"
  <2>1. found \in ReuseCodes \cup {NoCode}
    BY Mismatches DEF ReuseCodes
  <2>2. CASE found # NoCode
    <3>1. Incident(t, found) /\ UNCHANGED <<issued, records, unsealed, cached>>
      BY <1>13, <2>2 DEF Reuse
    <3> HIDE DEF found
    <3> QED  BY <2>1, <3>1 DEF Incident
  <2>3. CASE found = NoCode
    <3>1. /\ IssueSignature(t, loaded[t].signature)
          /\ UNCHANGED <<records, unsealed, cached>> /\ pc[t] = "reuse"
      BY <1>13, <2>3 DEF Reuse
    <3>2. /\ req[t].object \in Objects /\ req[t].wallet \in Wallet
          /\ req[t].doc \in Document
      BY <3>1, Carried DEF Signing
    <3>3. loaded[t] \in Record
      BY <3>1 DEF LoadedInv
    <3>4. issued' \subseteq [object : Objects, record : Record]
      BY <3>1, <3>2, <3>3 DEF IssueSignature, Record
    <3> HIDE DEF found
    <3> QED  BY <3>1, <3>4 DEF IssueSignature
  <2> QED  BY <2>2, <2>3
<1>14. ASSUME NEW t \in Threads, VerifyGet(t)
      PROVE  TypeOK'
  <2>1. records[req[t].object] \in Record \cup {NoRecord}
    BY <1>14, Carried DEF VerifyGet
  <2>2. CASE Load(t, "match")
    BY <1>14, <2>1, <2>2 DEF VerifyGet, Load
  <2>3. CASE Incident(t, "SIGNING_RECORD_NOT_FOUND")
    BY <1>14, <2>3 DEF VerifyGet, Incident, VerifyCodes
  <2>4. CASE Refuse(t)
    BY <1>14, <2>4 DEF VerifyGet
  <2> QED  BY <1>14, <2>2, <2>3, <2>4 DEF VerifyGet
<1>15. ASSUME NEW t \in Threads, Match(t)
      PROVE  TypeOK'
  <2> DEFINE found == IF unsealed THEN VerifyMismatch(req[t], loaded[t])
                                  ELSE "SIGNING_RECORD_TAMPERED"
  <2>1. found \in VerifyCodes \cup {NoCode}
    BY Mismatches DEF VerifyCodes
  <2>2. /\ Continue(t, "recheck") \/ Incident(t, found)
        /\ UNCHANGED <<issued, records, unsealed, cached>>
    BY <1>15 DEF Match
  <2> HIDE DEF found
  <2>3. CASE Continue(t, "recheck")
    BY <2>2, <2>3
  <2>4. CASE Incident(t, found)
    BY <2>1, <2>2, <2>4 DEF Incident
  <2> QED  BY <2>2, <2>3, <2>4
<1>16. ASSUME NEW t \in Threads, ReCheck(t)
      PROVE  TypeOK'
  <2>1. CASE Incident(t, "STORED_SIGNATURE_INVALID")
    BY <1>16, <2>1 DEF ReCheck, Incident, VerifyCodes
  <2>2. CASE Return(t, [signature_valid |-> SignatureValid(req[t]), reason |-> NoCode])
    <3>1. [signature_valid |-> SignatureValid(req[t]), reason |-> NoCode] \in Verdict
      BY DEF SignatureValid, Verdict
    <3> QED  BY <1>16, <2>2, <3>1 DEF ReCheck
  <2> QED  BY <1>16, <2>1, <2>2 DEF ReCheck
<1>17. ASSUME NEW t \in Threads, AuditIncident(t)
      PROVE  TypeOK'
  <2>1. trail' \in [Threads -> SUBSET AuditEvents]
    BY <1>17, Collected, "security.integrity_violation" \in AuditEvents DEF
       AuditIncident, AppendEvent, AuditEvents
  <2> QED  BY <1>17, <2>1 DEF AuditIncident, AppendEvent
<1>18. ASSUME NEW t \in Threads, SendAlert(t)
      PROVE  TypeOK'
  BY <1>18 DEF SendAlert
<1>19. ASSUME NEW t \in Threads, AuditUndelivered(t)
      PROVE  TypeOK'
  <2>1. trail' \in [Threads -> SUBSET AuditEvents]
    BY <1>19, Collected, "security.alert_delivery_failed" \in AuditEvents DEF
       AuditUndelivered, AppendEvent, AuditEvents
  <2> QED  BY <1>19, <2>1 DEF AuditUndelivered, AppendEvent
<1>20. ASSUME NEW t \in Threads, Answer(t)
      PROVE  TypeOK'
  <2> DEFINE verdict ==
             [signature_valid |-> SignatureValid(req[t]), reason |-> code[t]]
  <2>1. req[t].op \in {"sign", "verify"}
    BY <1>20, Carried DEF Answer, Reporting
  <2>2. CASE req[t].op = "sign"
    BY <1>20, <2>2 DEF Answer, AnswerIncident
  <2>3. CASE req[t].op = "verify"
    <3>1. verdict \in Verdict
      BY <1>20, <2>3 DEF Answer, LocalInv, Reporting, SignatureValid, Verdict
    <3>2. Return(t, verdict) /\ UNCHANGED <<records, unsealed, cached, issued>>
      BY <1>20, <2>3 DEF Answer, AnswerIncident
    <3> HIDE DEF verdict
    <3> QED  BY <3>1, <3>2
  <2> QED  BY <2>1, <2>2, <2>3
<1>21. ASSUME SealVault
      PROVE  TypeOK'
  BY <1>21 DEF SealVault, V!Seal
<1>22. ASSUME UnsealVault
      PROVE  TypeOK'
  BY <1>22 DEF UnsealVault, V!Unseal
<1>23. ASSUME Crash
      PROVE  TypeOK'
  BY <1>23 DEF Crash
<1>24. CASE UNCHANGED vars
  BY <1>24 DEF vars
<1> QED  BY <1>1, <1>2, <1>3, <1>4, <1>5, <1>6, <1>7, <1>8, <1>9, <1>10,
    <1>11, <1>12, <1>13, <1>14, <1>15, <1>16, <1>17, <1>18, <1>19, <1>20,
    <1>21, <1>22, <1>23, <1>24 DEF Next, SignIntegrity, VerifyIntegrity,
    ReportIncident

(* What a request carries at each step fits the operation.                 *)
LEMMA LocalStep == TypeOK /\ LocalInv /\ [Next]_vars => LocalInv'
<1> SUFFICES ASSUME TypeOK /\ LocalInv, [Next]_vars PROVE LocalInv'
  OBVIOUS
<1> USE SigningAssumption DEF vaultVars, localVars, Continue, Goto, Return,
    Refuse, TypeOK, LocalInv, Deriving, Signing, Verifying, Reporting
<1>1. ASSUME NEW t \in Threads, NEW q \in Request, Begin(t, q)
      PROVE  LocalInv'
  BY <1>1 DEF Begin
<1>2. ASSUME NEW t \in Threads, CheckUnsealed(t)
      PROVE  LocalInv'
  BY <1>2 DEF CheckUnsealed
<1>3. ASSUME NEW t \in Threads, LoadWallet(t)
      PROVE  LocalInv'
  BY <1>3 DEF LoadWallet
<1>4. ASSUME NEW t \in Threads, SignGet(t)
      PROVE  LocalInv'
  BY <1>4 DEF SignGet, Load
<1>5. ASSUME NEW t \in Threads, LoadRoot(t)
      PROVE  LocalInv'
  BY <1>5 DEF LoadRoot
<1>6. ASSUME NEW t \in Threads, UseCachedSeed(t)
      PROVE  LocalInv'
  BY <1>6 DEF UseCachedSeed, WithSeed
<1>7. ASSUME NEW t \in Threads, OpenSeed(t)
      PROVE  LocalInv'
  BY <1>7 DEF OpenSeed
<1>8. ASSUME NEW t \in Threads, CacheOpened(t)
      PROVE  LocalInv'
  BY <1>8 DEF CacheOpened, V!CacheSeed
<1>9. ASSUME NEW t \in Threads, UseNewSeed(t)
      PROVE  LocalInv'
  BY <1>9 DEF UseNewSeed, WithSeed
<1>10. ASSUME NEW t \in Threads, SealRecord(t)
      PROVE  LocalInv'
  BY <1>10 DEF SealRecord
<1>11. ASSUME NEW t \in Threads, CreateRecord(t)
      PROVE  LocalInv'
  BY <1>11 DEF CreateRecord, IssueSignature
<1>12. ASSUME NEW t \in Threads, ReGet(t)
      PROVE  LocalInv'
  BY <1>12 DEF ReGet, Load
<1>13. ASSUME NEW t \in Threads, Reuse(t)
      PROVE  LocalInv'
  BY <1>13 DEF Reuse, IssueSignature, Incident
<1>14. ASSUME NEW t \in Threads, VerifyGet(t)
      PROVE  LocalInv'
  BY <1>14, "SIGNING_RECORD_NOT_FOUND" \in VerifyCodes DEF VerifyGet, Load,
    Incident, VerifyCodes
<1>15. ASSUME NEW t \in Threads, Match(t)
      PROVE  LocalInv'
  <2> DEFINE found == IF unsealed THEN VerifyMismatch(req[t], loaded[t])
                                  ELSE "SIGNING_RECORD_TAMPERED"
  <2>1. found \in VerifyCodes \cup {NoCode}
    BY Mismatches DEF VerifyCodes
  <2>2. /\ pc[t] = "match"
        /\ IF found = NoCode THEN Continue(t, "recheck") ELSE Incident(t, found)
    BY <1>15 DEF Match
  <2> HIDE DEF found
  <2>3. CASE found = NoCode
    BY <2>2, <2>3
  <2>4. CASE found # NoCode
    BY <2>1, <2>2, <2>4 DEF Incident
  <2> QED  BY <2>3, <2>4
<1>16. ASSUME NEW t \in Threads, ReCheck(t)
      PROVE  LocalInv'
  <2>1. "STORED_SIGNATURE_INVALID" \in VerifyCodes
    BY DEF VerifyCodes
  <2>2. CASE Incident(t, "STORED_SIGNATURE_INVALID")
    BY <1>16, <2>1, <2>2 DEF ReCheck, Incident
  <2>3. CASE Return(t, [signature_valid |-> SignatureValid(req[t]), reason |-> NoCode])
    BY <1>16, <2>3 DEF ReCheck
  <2> QED  BY <1>16, <2>2, <2>3 DEF ReCheck
<1>17. ASSUME NEW t \in Threads, AuditIncident(t)
      PROVE  LocalInv'
  BY <1>17 DEF AuditIncident, AppendEvent
<1>18. ASSUME NEW t \in Threads, SendAlert(t)
      PROVE  LocalInv'
  BY <1>18 DEF SendAlert
<1>19. ASSUME NEW t \in Threads, AuditUndelivered(t)
      PROVE  LocalInv'
  BY <1>19 DEF AuditUndelivered, AppendEvent
<1>20. ASSUME NEW t \in Threads, Answer(t)
      PROVE  LocalInv'
  BY <1>20 DEF Answer, AnswerIncident
<1>21. ASSUME SealVault
      PROVE  LocalInv'
  BY <1>21 DEF SealVault, V!Seal
<1>22. ASSUME UnsealVault
      PROVE  LocalInv'
  BY <1>22 DEF UnsealVault, V!Unseal
<1>23. ASSUME Crash
      PROVE  LocalInv'
  BY <1>23 DEF Crash
<1>24. CASE UNCHANGED vars
  BY <1>24 DEF vars
<1> QED  BY <1>1, <1>2, <1>3, <1>4, <1>5, <1>6, <1>7, <1>8, <1>9, <1>10,
    <1>11, <1>12, <1>13, <1>14, <1>15, <1>16, <1>17, <1>18, <1>19, <1>20,
    <1>21, <1>22, <1>23, <1>24 DEF Next, SignIntegrity, VerifyIntegrity,
    ReportIncident

(* The records there are, before and after a step.                         *)
Kept == \A o \in Objects : records[o] # NoRecord => records'[o] = records[o]

(* No step changes or removes a record: signing.go only inserts, and the   *)
(* insert of an object that has one is refused.                            *)
LEMMA Immutable == TypeOK /\ LocalInv /\ [Next]_vars => Kept
<1> SUFFICES ASSUME TypeOK /\ LocalInv, [Next]_vars PROVE Kept
  OBVIOUS
<1> USE DEF vaultVars, localVars, Continue, Goto, Return, Refuse, Kept
<1>1. ASSUME NEW t \in Threads, NEW q \in Request, Begin(t, q)
      PROVE  Kept
  BY <1>1 DEF Begin
<1>2. ASSUME NEW t \in Threads, CheckUnsealed(t)
      PROVE  Kept
  BY <1>2 DEF CheckUnsealed
<1>3. ASSUME NEW t \in Threads, LoadWallet(t)
      PROVE  Kept
  BY <1>3 DEF LoadWallet
<1>4. ASSUME NEW t \in Threads, SignGet(t)
      PROVE  Kept
  BY <1>4 DEF SignGet, Load
<1>5. ASSUME NEW t \in Threads, LoadRoot(t)
      PROVE  Kept
  BY <1>5 DEF LoadRoot
<1>6. ASSUME NEW t \in Threads, UseCachedSeed(t)
      PROVE  Kept
  BY <1>6 DEF UseCachedSeed, WithSeed
<1>7. ASSUME NEW t \in Threads, OpenSeed(t)
      PROVE  Kept
  BY <1>7 DEF OpenSeed
<1>8. ASSUME NEW t \in Threads, CacheOpened(t)
      PROVE  Kept
  BY <1>8 DEF CacheOpened, V!CacheSeed
<1>9. ASSUME NEW t \in Threads, UseNewSeed(t)
      PROVE  Kept
  BY <1>9 DEF UseNewSeed, WithSeed
<1>10. ASSUME NEW t \in Threads, SealRecord(t)
      PROVE  Kept
  BY <1>10 DEF SealRecord
<1>11. ASSUME NEW t \in Threads, CreateRecord(t)
      PROVE  Kept
  BY <1>11, Carried DEF CreateRecord, IssueSignature, Signing, TypeOK
<1>12. ASSUME NEW t \in Threads, ReGet(t)
      PROVE  Kept
  BY <1>12 DEF ReGet, Load
<1>13. ASSUME NEW t \in Threads, Reuse(t)
      PROVE  Kept
  BY <1>13 DEF Reuse, IssueSignature, Incident
<1>14. ASSUME NEW t \in Threads, VerifyGet(t)
      PROVE  Kept
  BY <1>14 DEF VerifyGet, Load, Incident
<1>15. ASSUME NEW t \in Threads, Match(t)
      PROVE  Kept
  BY <1>15 DEF Match, Incident
<1>16. ASSUME NEW t \in Threads, ReCheck(t)
      PROVE  Kept
  BY <1>16 DEF ReCheck, Incident
<1>17. ASSUME NEW t \in Threads, AuditIncident(t)
      PROVE  Kept
  BY <1>17 DEF AuditIncident, AppendEvent
<1>18. ASSUME NEW t \in Threads, SendAlert(t)
      PROVE  Kept
  BY <1>18 DEF SendAlert
<1>19. ASSUME NEW t \in Threads, AuditUndelivered(t)
      PROVE  Kept
  BY <1>19 DEF AuditUndelivered, AppendEvent
<1>20. ASSUME NEW t \in Threads, Answer(t)
      PROVE  Kept
  BY <1>20 DEF Answer, AnswerIncident
<1>21. ASSUME SealVault
      PROVE  Kept
  BY <1>21 DEF SealVault, V!Seal
<1>22. ASSUME UnsealVault
      PROVE  Kept
  BY <1>22 DEF UnsealVault, V!Unseal
<1>23. ASSUME Crash
      PROVE  Kept
  BY <1>23 DEF Crash
<1>24. CASE UNCHANGED vars
  BY <1>24 DEF vars
<1> QED  BY <1>1, <1>2, <1>3, <1>4, <1>5, <1>6, <1>7, <1>8, <1>9, <1>10,
    <1>11, <1>12, <1>13, <1>14, <1>15, <1>16, <1>17, <1>18, <1>19, <1>20,
    <1>21, <1>22, <1>23, <1>24 DEF Next, SignIntegrity, VerifyIntegrity,
    ReportIncident

(* What a request has read of the append-only table stays true.            *)
LEMMA LoadedStep ==
    TypeOK /\ LocalInv /\ LoadedInv /\ RecordsInv /\ [Next]_vars => LoadedInv'
<1> SUFFICES ASSUME TypeOK /\ LocalInv /\ LoadedInv /\ RecordsInv, [Next]_vars
             PROVE  LoadedInv'
  OBVIOUS
<1> USE DEF vaultVars, localVars, Continue, Goto, Return, Refuse, TypeOK,
    LoadedInv, Verifying, MatchesRecord
<1>1. ASSUME NEW t \in Threads, NEW q \in Request, Begin(t, q)
      PROVE  LoadedInv'
  BY <1>1 DEF Begin
<1>2. ASSUME NEW t \in Threads, CheckUnsealed(t)
      PROVE  LoadedInv'
  BY <1>2 DEF CheckUnsealed
<1>3. ASSUME NEW t \in Threads, LoadWallet(t)
      PROVE  LoadedInv'
  BY <1>3 DEF LoadWallet
<1>4. ASSUME NEW t \in Threads, SignGet(t)
      PROVE  LoadedInv'
  BY <1>4 DEF SignGet, Load
<1>5. ASSUME NEW t \in Threads, LoadRoot(t)
      PROVE  LoadedInv'
  BY <1>5 DEF LoadRoot
<1>6. ASSUME NEW t \in Threads, UseCachedSeed(t)
      PROVE  LoadedInv'
  BY <1>6 DEF UseCachedSeed, WithSeed
<1>7. ASSUME NEW t \in Threads, OpenSeed(t)
      PROVE  LoadedInv'
  BY <1>7 DEF OpenSeed
<1>8. ASSUME NEW t \in Threads, CacheOpened(t)
      PROVE  LoadedInv'
  BY <1>8 DEF CacheOpened, V!CacheSeed
<1>9. ASSUME NEW t \in Threads, UseNewSeed(t)
      PROVE  LoadedInv'
  BY <1>9 DEF UseNewSeed, WithSeed
<1>10. ASSUME NEW t \in Threads, SealRecord(t)
      PROVE  LoadedInv'
  BY <1>10 DEF SealRecord
<1>11. ASSUME NEW t \in Threads, CreateRecord(t)
      PROVE  LoadedInv'
  <2> SUFFICES ASSUME NEW u \in Threads, pc'[u] \in {"reuse"} \cup Verifying
                PROVE  /\ loaded'[u] = records'[req'[u].object]
                       /\ loaded'[u] # NoRecord
                       /\ pc'[u] = "recheck" => MatchesRecord(req[u])'
    BY DEF LoadedInv
  <2>1. u # t /\ pc'[u] = pc[u] /\ loaded'[u] = loaded[u] /\ req'[u] = req[u]
    BY <1>11 DEF CreateRecord, IssueSignature
  <2>2. req[u].object \in Objects
    BY <2>1, Carried DEF Signing
  <2>3. records[req[u].object] # NoRecord
    BY <2>1
  <2>4. records'[req[u].object] = records[req[u].object]
    BY <2>2, <2>3, Immutable, <1>11 DEF Next, SignIntegrity, Kept
  <2> QED  BY <2>1, <2>4
<1>12. ASSUME NEW t \in Threads, ReGet(t)
      PROVE  LoadedInv'
  BY <1>12 DEF ReGet, Load
<1>13. ASSUME NEW t \in Threads, Reuse(t)
      PROVE  LoadedInv'
  BY <1>13 DEF Reuse, IssueSignature, Incident
<1>14. ASSUME NEW t \in Threads, VerifyGet(t)
      PROVE  LoadedInv'
  BY <1>14 DEF VerifyGet, Load, Incident
<1>15. ASSUME NEW t \in Threads, Match(t)
      PROVE  LoadedInv'
  <2> DEFINE found == IF unsealed THEN VerifyMismatch(req[t], loaded[t])
                                  ELSE "SIGNING_RECORD_TAMPERED"
  <2>1. CASE Incident(t, found)
    BY <1>15, <2>1 DEF Match, Incident
  <2>2. CASE found = NoCode
    <3>1. Continue(t, "recheck") /\ UNCHANGED records /\ pc[t] = "match"
      BY <1>15, <2>2 DEF Match
    <3>2. loaded[t] \in Record /\ loaded[t] = records[req[t].object]
      BY <1>15 DEF Match
    <3>3. /\ loaded[t].wallet = req[t].wallet /\ loaded[t].doc = req[t].doc
          /\ loaded[t].signature = req[t].signature
      BY <2>2, SigningAssumption DEF VerifyMismatch, VerifyCodes
    <3>4. MatchesRecord(req[t])
      BY <3>2, <3>3, SigningAssumption DEF Record
    <3> QED  BY <3>1, <3>2, <3>4
  <2> QED  BY <1>15, <2>1, <2>2 DEF Match
<1>16. ASSUME NEW t \in Threads, ReCheck(t)
      PROVE  LoadedInv'
  BY <1>16 DEF ReCheck, Incident
<1>17. ASSUME NEW t \in Threads, AuditIncident(t)
      PROVE  LoadedInv'
  BY <1>17 DEF AuditIncident, AppendEvent
<1>18. ASSUME NEW t \in Threads, SendAlert(t)
      PROVE  LoadedInv'
  BY <1>18 DEF SendAlert
<1>19. ASSUME NEW t \in Threads, AuditUndelivered(t)
      PROVE  LoadedInv'
  BY <1>19 DEF AuditUndelivered, AppendEvent
<1>20. ASSUME NEW t \in Threads, Answer(t)
      PROVE  LoadedInv'
  BY <1>20 DEF Answer, AnswerIncident
<1>21. ASSUME SealVault
      PROVE  LoadedInv'
  BY <1>21 DEF SealVault, V!Seal
<1>22. ASSUME UnsealVault
      PROVE  LoadedInv'
  BY <1>22 DEF UnsealVault, V!Unseal
<1>23. ASSUME Crash
      PROVE  LoadedInv'
  BY <1>23 DEF Crash
<1>24. CASE UNCHANGED vars
  BY <1>24 DEF vars
<1> QED  BY <1>1, <1>2, <1>3, <1>4, <1>5, <1>6, <1>7, <1>8, <1>9, <1>10,
    <1>11, <1>12, <1>13, <1>14, <1>15, <1>16, <1>17, <1>18, <1>19, <1>20,
    <1>21, <1>22, <1>23, <1>24 DEF Next, SignIntegrity, VerifyIntegrity,
    ReportIncident

(* The one place that writes a record signs it first.                      *)
LEMMA RecordsStep ==
    TypeOK /\ LocalInv /\ RecordsInv /\ [Next]_vars => RecordsInv'
<1> SUFFICES ASSUME TypeOK /\ LocalInv /\ RecordsInv, [Next]_vars
             PROVE  RecordsInv'
  OBVIOUS
<1> USE DEF vaultVars, localVars, Continue, Goto, Return, Refuse, TypeOK,
    RecordsInv
<1>1. ASSUME NEW t \in Threads, NEW q \in Request, Begin(t, q)
      PROVE  RecordsInv'
  BY <1>1 DEF Begin
<1>2. ASSUME NEW t \in Threads, CheckUnsealed(t)
      PROVE  RecordsInv'
  BY <1>2 DEF CheckUnsealed
<1>3. ASSUME NEW t \in Threads, LoadWallet(t)
      PROVE  RecordsInv'
  BY <1>3 DEF LoadWallet
<1>4. ASSUME NEW t \in Threads, SignGet(t)
      PROVE  RecordsInv'
  BY <1>4 DEF SignGet, Load
<1>5. ASSUME NEW t \in Threads, LoadRoot(t)
      PROVE  RecordsInv'
  BY <1>5 DEF LoadRoot
<1>6. ASSUME NEW t \in Threads, UseCachedSeed(t)
      PROVE  RecordsInv'
  BY <1>6 DEF UseCachedSeed, WithSeed
<1>7. ASSUME NEW t \in Threads, OpenSeed(t)
      PROVE  RecordsInv'
  BY <1>7 DEF OpenSeed
<1>8. ASSUME NEW t \in Threads, CacheOpened(t)
      PROVE  RecordsInv'
  BY <1>8 DEF CacheOpened, V!CacheSeed
<1>9. ASSUME NEW t \in Threads, UseNewSeed(t)
      PROVE  RecordsInv'
  BY <1>9 DEF UseNewSeed, WithSeed
<1>10. ASSUME NEW t \in Threads, SealRecord(t)
      PROVE  RecordsInv'
  BY <1>10 DEF SealRecord
<1>11. ASSUME NEW t \in Threads, CreateRecord(t)
      PROVE  RecordsInv'
  BY <1>11, Carried DEF CreateRecord, IssueSignature, Signing, NewRecord, Sign
<1>12. ASSUME NEW t \in Threads, ReGet(t)
      PROVE  RecordsInv'
  BY <1>12 DEF ReGet, Load
<1>13. ASSUME NEW t \in Threads, Reuse(t)
      PROVE  RecordsInv'
  BY <1>13 DEF Reuse, IssueSignature, Incident
<1>14. ASSUME NEW t \in Threads, VerifyGet(t)
      PROVE  RecordsInv'
  BY <1>14 DEF VerifyGet, Load, Incident
<1>15. ASSUME NEW t \in Threads, Match(t)
      PROVE  RecordsInv'
  BY <1>15 DEF Match, Incident
<1>16. ASSUME NEW t \in Threads, ReCheck(t)
      PROVE  RecordsInv'
  BY <1>16 DEF ReCheck, Incident
<1>17. ASSUME NEW t \in Threads, AuditIncident(t)
      PROVE  RecordsInv'
  BY <1>17 DEF AuditIncident, AppendEvent
<1>18. ASSUME NEW t \in Threads, SendAlert(t)
      PROVE  RecordsInv'
  BY <1>18 DEF SendAlert
<1>19. ASSUME NEW t \in Threads, AuditUndelivered(t)
      PROVE  RecordsInv'
  BY <1>19 DEF AuditUndelivered, AppendEvent
<1>20. ASSUME NEW t \in Threads, Answer(t)
      PROVE  RecordsInv'
  BY <1>20 DEF Answer, AnswerIncident
<1>21. ASSUME SealVault
      PROVE  RecordsInv'
  BY <1>21 DEF SealVault, V!Seal
<1>22. ASSUME UnsealVault
      PROVE  RecordsInv'
  BY <1>22 DEF UnsealVault, V!Unseal
<1>23. ASSUME Crash
      PROVE  RecordsInv'
  BY <1>23 DEF Crash
<1>24. CASE UNCHANGED vars
  BY <1>24 DEF vars
<1> QED  BY <1>1, <1>2, <1>3, <1>4, <1>5, <1>6, <1>7, <1>8, <1>9, <1>10,
    <1>11, <1>12, <1>13, <1>14, <1>15, <1>16, <1>17, <1>18, <1>19, <1>20,
    <1>21, <1>22, <1>23, <1>24 DEF Next, SignIntegrity, VerifyIntegrity,
    ReportIncident

(* A signature is returned with the record inserted for it, or out of a    *)
(* record that matched the request.                                        *)
LEMMA IssuedStep ==
    /\ TypeOK /\ LocalInv /\ LoadedInv
    /\ RecordsInv /\ IssuedIsRecorded /\ [Next]_vars
  => IssuedIsRecorded'
<1> SUFFICES ASSUME TypeOK /\ LocalInv /\ LoadedInv /\
                    RecordsInv /\ IssuedIsRecorded, [Next]_vars
             PROVE  IssuedIsRecorded'
  OBVIOUS
<1> USE DEF vaultVars, localVars, Continue, Goto, Return, Refuse
<1>1. ASSUME NEW t \in Threads, NEW q \in Request, Begin(t, q)
      PROVE  IssuedIsRecorded'
  BY <1>1 DEF Begin, IssuedIsRecorded
<1>2. ASSUME NEW t \in Threads, CheckUnsealed(t)
      PROVE  IssuedIsRecorded'
  BY <1>2 DEF CheckUnsealed, IssuedIsRecorded
<1>3. ASSUME NEW t \in Threads, LoadWallet(t)
      PROVE  IssuedIsRecorded'
  BY <1>3 DEF LoadWallet, IssuedIsRecorded
<1>4. ASSUME NEW t \in Threads, SignGet(t)
      PROVE  IssuedIsRecorded'
  BY <1>4 DEF SignGet, Load, IssuedIsRecorded
<1>5. ASSUME NEW t \in Threads, LoadRoot(t)
      PROVE  IssuedIsRecorded'
  BY <1>5 DEF LoadRoot, IssuedIsRecorded
<1>6. ASSUME NEW t \in Threads, UseCachedSeed(t)
      PROVE  IssuedIsRecorded'
  BY <1>6 DEF UseCachedSeed, WithSeed, IssuedIsRecorded
<1>7. ASSUME NEW t \in Threads, OpenSeed(t)
      PROVE  IssuedIsRecorded'
  BY <1>7 DEF OpenSeed, IssuedIsRecorded
<1>8. ASSUME NEW t \in Threads, CacheOpened(t)
      PROVE  IssuedIsRecorded'
  BY <1>8 DEF CacheOpened, V!CacheSeed, IssuedIsRecorded
<1>9. ASSUME NEW t \in Threads, UseNewSeed(t)
      PROVE  IssuedIsRecorded'
  BY <1>9 DEF UseNewSeed, WithSeed, IssuedIsRecorded
<1>10. ASSUME NEW t \in Threads, SealRecord(t)
      PROVE  IssuedIsRecorded'
  BY <1>10 DEF SealRecord, IssuedIsRecorded
<1>11. ASSUME NEW t \in Threads, CreateRecord(t)
      PROVE  IssuedIsRecorded'
  <2>1. req[t].object \in Objects /\ NewRecord(req[t]) \in Record
    BY <1>11, Carried DEF CreateRecord, Signing
  <2>2. \A i \in issued : records'[i.object] = i.record
    <3> TAKE i \in issued
    <3>1. i.object \in Objects /\ records[i.object] # NoRecord
      BY SigningAssumption DEF TypeOK, IssuedIsRecorded
    <3>2. records'[i.object] = records[i.object]
      BY <3>1, Immutable, <1>11 DEF Next, SignIntegrity, Kept
    <3> QED  BY <3>2 DEF IssuedIsRecorded
  <2>3. CASE UNCHANGED issued
    BY <2>2, <2>3 DEF IssuedIsRecorded
  <2>4. CASE /\ IssueSignature(t, Sign(req[t]))
            /\ records' = [records EXCEPT ![req[t].object] = NewRecord(req[t])]
    <3>1. records'[req[t].object] = NewRecord(req[t])
      BY <2>1, <2>4 DEF TypeOK
    <3> QED  BY <2>2, <2>4, <3>1 DEF IssueSignature, NewRecord, IssuedIsRecorded
  <2> QED  BY <1>11, <2>3, <2>4 DEF CreateRecord
<1>12. ASSUME NEW t \in Threads, ReGet(t)
      PROVE  IssuedIsRecorded'
  BY <1>12 DEF ReGet, Load, IssuedIsRecorded
<1>13. ASSUME NEW t \in Threads, Reuse(t)
      PROVE  IssuedIsRecorded'
  <2> DEFINE found == IF unsealed THEN ReuseMismatch(req[t], loaded[t])
                                  ELSE "SIGNING_RECORD_TAMPERED"
  <2>1. CASE found # NoCode
    BY <1>13, <2>1 DEF Reuse, IssuedIsRecorded
  <2>2. CASE found = NoCode
    <3>1. IssueSignature(t, loaded[t].signature) /\ UNCHANGED records
      BY <1>13, <2>2 DEF Reuse
    <3>2. /\ req[t].object \in Objects
          /\ loaded[t] \in Record /\ loaded[t] = records[req[t].object]
      BY <1>13, Carried DEF Reuse, Signing, LoadedInv, TypeOK
    <3>3. loaded[t].wallet = req[t].wallet /\ loaded[t].doc = req[t].doc
      BY <2>2, SigningAssumption DEF ReuseMismatch, ReuseCodes
    <3>4. [wallet |-> req[t].wallet, doc |-> req[t].doc,
           signature |-> loaded[t].signature] = loaded[t]
      BY <3>2, <3>3 DEF Record
    <3> QED  BY <3>1, <3>2, <3>4 DEF IssueSignature, IssuedIsRecorded
  <2> QED  BY <2>1, <2>2
<1>14. ASSUME NEW t \in Threads, VerifyGet(t)
      PROVE  IssuedIsRecorded'
  BY <1>14 DEF VerifyGet, Load, Incident, IssuedIsRecorded
<1>15. ASSUME NEW t \in Threads, Match(t)
      PROVE  IssuedIsRecorded'
  BY <1>15 DEF Match, Incident, IssuedIsRecorded
<1>16. ASSUME NEW t \in Threads, ReCheck(t)
      PROVE  IssuedIsRecorded'
  BY <1>16 DEF ReCheck, Incident, IssuedIsRecorded
<1>17. ASSUME NEW t \in Threads, AuditIncident(t)
      PROVE  IssuedIsRecorded'
  BY <1>17 DEF AuditIncident, AppendEvent, IssuedIsRecorded
<1>18. ASSUME NEW t \in Threads, SendAlert(t)
      PROVE  IssuedIsRecorded'
  BY <1>18 DEF SendAlert, IssuedIsRecorded
<1>19. ASSUME NEW t \in Threads, AuditUndelivered(t)
      PROVE  IssuedIsRecorded'
  BY <1>19 DEF AuditUndelivered, AppendEvent, IssuedIsRecorded
<1>20. ASSUME NEW t \in Threads, Answer(t)
      PROVE  IssuedIsRecorded'
  BY <1>20 DEF Answer, AnswerIncident, IssuedIsRecorded
<1>21. ASSUME SealVault
      PROVE  IssuedIsRecorded'
  BY <1>21 DEF SealVault, V!Seal, IssuedIsRecorded
<1>22. ASSUME UnsealVault
      PROVE  IssuedIsRecorded'
  BY <1>22 DEF UnsealVault, V!Unseal, IssuedIsRecorded
<1>23. ASSUME Crash
      PROVE  IssuedIsRecorded'
  BY <1>23 DEF Crash, IssuedIsRecorded
<1>24. CASE UNCHANGED vars
  BY <1>24 DEF vars, IssuedIsRecorded
<1> QED  BY <1>1, <1>2, <1>3, <1>4, <1>5, <1>6, <1>7, <1>8, <1>9, <1>10,
    <1>11, <1>12, <1>13, <1>14, <1>15, <1>16, <1>17, <1>18, <1>19, <1>20,
    <1>21, <1>22, <1>23, <1>24 DEF Next, SignIntegrity, VerifyIntegrity,
    ReportIncident

(* A verification of a returned signature matches a record from its        *)
(* beginning, and records do not change.                                   *)
LEMMA KnownStep ==
    TypeOK /\ LocalInv /\ IssuedIsRecorded /\ KnownInv /\ [Next]_vars
  => KnownInv'
<1> SUFFICES ASSUME TypeOK /\ LocalInv /\ IssuedIsRecorded /\
                    KnownInv, [Next]_vars
             PROVE  KnownInv'
  OBVIOUS
<1> USE DEF vaultVars, localVars, Continue, Goto, Return, Refuse, TypeOK,
    KnownInv, MatchesRecord
<1>1. ASSUME NEW t \in Threads, NEW q \in Request, Begin(t, q)
      PROVE  KnownInv'
  <2> SUFFICES ASSUME NEW u \in Threads, known'[u], pc'[u] # "idle"
                PROVE  req'[u].op = "verify" /\ MatchesRecord(req[u])'
    OBVIOUS
  <2>1. CASE u = t
    <3>1. req'[t] = q /\ q.op = "verify"
      BY <1>1, <2>1 DEF Begin
    <3>2. PICK e \in issued :
            /\ e.object = q.object
            /\ e.record = [wallet |-> q.wallet, doc |-> q.doc, signature |-> q.signature]
      BY <1>1, <2>1 DEF Begin
    <3>3. MatchesRecord(q) /\ UNCHANGED records
      BY <1>1, <3>2, SigningAssumption DEF Begin, IssuedIsRecorded
    <3> QED  BY <2>1, <3>1, <3>3
  <2>2. CASE u # t
    BY <1>1, <2>2 DEF Begin
  <2> QED  BY <2>1, <2>2
<1>2. ASSUME NEW t \in Threads, CheckUnsealed(t)
      PROVE  KnownInv'
  BY <1>2 DEF CheckUnsealed
<1>3. ASSUME NEW t \in Threads, LoadWallet(t)
      PROVE  KnownInv'
  BY <1>3 DEF LoadWallet
<1>4. ASSUME NEW t \in Threads, SignGet(t)
      PROVE  KnownInv'
  BY <1>4 DEF SignGet, Load
<1>5. ASSUME NEW t \in Threads, LoadRoot(t)
      PROVE  KnownInv'
  BY <1>5 DEF LoadRoot
<1>6. ASSUME NEW t \in Threads, UseCachedSeed(t)
      PROVE  KnownInv'
  BY <1>6 DEF UseCachedSeed, WithSeed
<1>7. ASSUME NEW t \in Threads, OpenSeed(t)
      PROVE  KnownInv'
  BY <1>7 DEF OpenSeed
<1>8. ASSUME NEW t \in Threads, CacheOpened(t)
      PROVE  KnownInv'
  BY <1>8 DEF CacheOpened, V!CacheSeed
<1>9. ASSUME NEW t \in Threads, UseNewSeed(t)
      PROVE  KnownInv'
  BY <1>9 DEF UseNewSeed, WithSeed
<1>10. ASSUME NEW t \in Threads, SealRecord(t)
      PROVE  KnownInv'
  BY <1>10 DEF SealRecord
<1>11. ASSUME NEW t \in Threads, CreateRecord(t)
      PROVE  KnownInv'
  <2> SUFFICES ASSUME NEW u \in Threads, known'[u], pc'[u] # "idle"
                PROVE  req'[u].op = "verify" /\ MatchesRecord(req[u])'
    OBVIOUS
  <2>1. known[u] /\ pc[u] # "idle" /\ req'[u] = req[u]
    BY <1>11 DEF CreateRecord, IssueSignature
  <2>2. req[u] \in Request /\ req[u].op = "verify" /\ MatchesRecord(req[u])
    BY <2>1 DEF LocalInv
  <2>3. req[u].object \in Objects /\ records[req[u].object] # NoRecord
    BY <2>2, Requests
  <2>4. records'[req[u].object] = records[req[u].object]
    BY <2>3, Immutable, <1>11 DEF Next, SignIntegrity, Kept
  <2> QED  BY <2>1, <2>2, <2>4
<1>12. ASSUME NEW t \in Threads, ReGet(t)
      PROVE  KnownInv'
  BY <1>12 DEF ReGet, Load
<1>13. ASSUME NEW t \in Threads, Reuse(t)
      PROVE  KnownInv'
  BY <1>13 DEF Reuse, IssueSignature, Incident
<1>14. ASSUME NEW t \in Threads, VerifyGet(t)
      PROVE  KnownInv'
  BY <1>14 DEF VerifyGet, Load, Incident
<1>15. ASSUME NEW t \in Threads, Match(t)
      PROVE  KnownInv'
  BY <1>15 DEF Match, Incident
<1>16. ASSUME NEW t \in Threads, ReCheck(t)
      PROVE  KnownInv'
  BY <1>16 DEF ReCheck, Incident
<1>17. ASSUME NEW t \in Threads, AuditIncident(t)
      PROVE  KnownInv'
  BY <1>17 DEF AuditIncident, AppendEvent
<1>18. ASSUME NEW t \in Threads, SendAlert(t)
      PROVE  KnownInv'
  BY <1>18 DEF SendAlert
<1>19. ASSUME NEW t \in Threads, AuditUndelivered(t)
      PROVE  KnownInv'
  BY <1>19 DEF AuditUndelivered, AppendEvent
<1>20. ASSUME NEW t \in Threads, Answer(t)
      PROVE  KnownInv'
  BY <1>20 DEF Answer, AnswerIncident
<1>21. ASSUME SealVault
      PROVE  KnownInv'
  BY <1>21 DEF SealVault, V!Seal
<1>22. ASSUME UnsealVault
      PROVE  KnownInv'
  BY <1>22 DEF UnsealVault, V!Unseal
<1>23. ASSUME Crash
      PROVE  KnownInv'
  BY <1>23 DEF Crash
<1>24. CASE UNCHANGED vars
  BY <1>24 DEF vars
<1> QED  BY <1>1, <1>2, <1>3, <1>4, <1>5, <1>6, <1>7, <1>8, <1>9, <1>10,
    <1>11, <1>12, <1>13, <1>14, <1>15, <1>16, <1>17, <1>18, <1>19, <1>20,
    <1>21, <1>22, <1>23, <1>24 DEF Next, SignIntegrity, VerifyIntegrity,
    ReportIncident

(* The incidents that come from a comparison with the record.              *)
Compared(c) == c \notin Spurious \cup {NoCode, "SIGNING_RECORD_NOT_FOUND"}

Justified(t) ==
    /\ records[req[t].object] # NoRecord
    /\ Differs(code[t], req[t], records[req[t].object])

(* A comparison names the first difference, and neither side changes while *)
(* the incident is reported.                                               *)
LEMMA ComparisonStep ==
    /\ TypeOK /\ LocalInv /\ LoadedInv
    /\ RecordsInv /\ ComparisonsHold /\ [Next]_vars
  => ComparisonsHold'
<1> SUFFICES ASSUME TypeOK /\ LocalInv /\ LoadedInv /\
                    RecordsInv /\ ComparisonsHold, [Next]_vars
             PROVE  ComparisonsHold'
  OBVIOUS
<1> USE DEF vaultVars, localVars, Continue, Goto, Return, Refuse, TypeOK
<1>1. ASSUME NEW t \in Threads, NEW q \in Request, Begin(t, q)
      PROVE  ComparisonsHold'
  <2> SUFFICES ASSUME NEW u \in Threads, Compared(code'[u])
                PROVE  (Justified(u))'
    BY DEF ComparisonsHold, Justified, Compared
  <2>1. u # t
    BY <1>1 DEF Begin, LocalInv, Compared, Reporting
  <2> QED  BY <1>1, <2>1 DEF Begin, Justified, ComparisonsHold, Compared
<1>2. ASSUME NEW t \in Threads, CheckUnsealed(t)
      PROVE  ComparisonsHold'
  BY <1>2 DEF CheckUnsealed, ComparisonsHold
<1>3. ASSUME NEW t \in Threads, LoadWallet(t)
      PROVE  ComparisonsHold'
  BY <1>3 DEF LoadWallet, ComparisonsHold
<1>4. ASSUME NEW t \in Threads, SignGet(t)
      PROVE  ComparisonsHold'
  BY <1>4 DEF SignGet, Load, ComparisonsHold
<1>5. ASSUME NEW t \in Threads, LoadRoot(t)
      PROVE  ComparisonsHold'
  BY <1>5 DEF LoadRoot, ComparisonsHold
<1>6. ASSUME NEW t \in Threads, UseCachedSeed(t)
      PROVE  ComparisonsHold'
  BY <1>6 DEF UseCachedSeed, WithSeed, ComparisonsHold
<1>7. ASSUME NEW t \in Threads, OpenSeed(t)
      PROVE  ComparisonsHold'
  BY <1>7 DEF OpenSeed, ComparisonsHold
<1>8. ASSUME NEW t \in Threads, CacheOpened(t)
      PROVE  ComparisonsHold'
  BY <1>8 DEF CacheOpened, V!CacheSeed, ComparisonsHold
<1>9. ASSUME NEW t \in Threads, UseNewSeed(t)
      PROVE  ComparisonsHold'
  BY <1>9 DEF UseNewSeed, WithSeed, ComparisonsHold
<1>10. ASSUME NEW t \in Threads, SealRecord(t)
      PROVE  ComparisonsHold'
  BY <1>10 DEF SealRecord, ComparisonsHold
<1>11. ASSUME NEW t \in Threads, CreateRecord(t)
      PROVE  ComparisonsHold'
  <2> SUFFICES ASSUME NEW u \in Threads, Compared(code'[u])
                PROVE  (Justified(u))'
    BY DEF ComparisonsHold, Justified, Compared
  <2>1. u # t /\ code'[u] = code[u] /\ req'[u] = req[u]
    BY <1>11 DEF CreateRecord, IssueSignature, LocalInv, Compared, Signing,
       Reporting
  <2>2. Justified(u)
    BY <2>1 DEF ComparisonsHold, Justified, Compared
  <2>3. req[u].object \in Objects
    BY <2>1, Carried DEF LocalInv, Compared
  <2>4. records'[req[u].object] = records[req[u].object]
    BY <2>2, <2>3, Immutable, <1>11 DEF Next, SignIntegrity, Kept, Justified
  <2> QED  BY <2>1, <2>2, <2>4 DEF Justified
<1>12. ASSUME NEW t \in Threads, ReGet(t)
      PROVE  ComparisonsHold'
  BY <1>12 DEF ReGet, Load, ComparisonsHold
<1>13. ASSUME NEW t \in Threads, Reuse(t)
      PROVE  ComparisonsHold'
  <2> SUFFICES ASSUME NEW u \in Threads, Compared(code'[u])
                PROVE  (Justified(u))'
    BY DEF ComparisonsHold, Justified, Compared
  <2> DEFINE found == IF unsealed THEN ReuseMismatch(req[t], loaded[t])
                                  ELSE "SIGNING_RECORD_TAMPERED"
  <2>1. CASE u # t \/ code'[t] = code[t] \/ code'[t] = NoCode
    BY <1>13, <2>1 DEF Reuse, Incident, IssueSignature, Justified,
       ComparisonsHold, Compared
  <2>2. CASE u = t /\ code'[t] = found
    <3>1. UNCHANGED <<records, req>>
      BY <1>13, <2>2 DEF Reuse, Incident, IssueSignature, Compared
    <3>2. /\ loaded[t] \in Record /\ loaded[t] = records[req[t].object]
          /\ req[t].object \in Objects /\ req[t].doc \in Document
      BY <1>13, Carried DEF Reuse, LoadedInv, Signing, Verifying
    <3>3. loaded[t].signature.doc = loaded[t].doc
      <4>1. records[req[t].object] # NoRecord
        BY <3>2, SigningAssumption
      <4>2. loaded[t].signature = [wallet |-> loaded[t].wallet,
                  object |-> req[t].object, doc |-> loaded[t].doc]
        BY <3>2, <4>1 DEF RecordsInv
      <4> QED  BY <4>2
    <3>4. /\ loaded[t].doc.fields = req[t].doc.fields
          /\ loaded[t].doc.value = req[t].doc.value
          => loaded[t].doc = req[t].doc
      BY <3>2 DEF Record, Document
    <3>5. Compared(found) /\ TRUE
      BY <1>13, <2>2 DEF Reuse, LocalInv, Verifying
    <3>6. Differs(found, req[t], loaded[t])
      BY <3>3, <3>4, <3>5 DEF Differs, ReuseMismatch, Compared, Spurious
    <3>7. loaded[t] # NoRecord
      BY <3>2, SigningAssumption
    <3> QED  BY <2>2, <3>1, <3>2, <3>6, <3>7 DEF Justified
  <2> QED  BY <1>13, <2>1, <2>2 DEF Reuse, Incident, IssueSignature
<1>14. ASSUME NEW t \in Threads, VerifyGet(t)
      PROVE  ComparisonsHold'
  BY <1>14 DEF VerifyGet, Load, Incident, ComparisonsHold
<1>15. ASSUME NEW t \in Threads, Match(t)
      PROVE  ComparisonsHold'
  <2> SUFFICES ASSUME NEW u \in Threads, Compared(code'[u])
                PROVE  (Justified(u))'
    BY DEF ComparisonsHold, Justified, Compared
  <2> DEFINE found == IF unsealed THEN VerifyMismatch(req[t], loaded[t])
                                  ELSE "SIGNING_RECORD_TAMPERED"
  <2>1. CASE u # t \/ code'[t] = code[t] \/ code'[t] = NoCode
    BY <1>15, <2>1 DEF Match, Incident, IssueSignature, Justified,
       ComparisonsHold, Compared
  <2>2. CASE u = t /\ code'[t] = found
    <3>1. UNCHANGED <<records, req>>
      BY <1>15, <2>2 DEF Match, Incident, IssueSignature, Compared
    <3>2. /\ loaded[t] \in Record /\ loaded[t] = records[req[t].object]
          /\ req[t].object \in Objects /\ req[t].doc \in Document
      BY <1>15, Carried DEF Match, LoadedInv, Signing, Verifying
    <3>3. loaded[t].signature.doc = loaded[t].doc
      <4>1. records[req[t].object] # NoRecord
        BY <3>2, SigningAssumption
      <4>2. loaded[t].signature = [wallet |-> loaded[t].wallet,
                  object |-> req[t].object, doc |-> loaded[t].doc]
        BY <3>2, <4>1 DEF RecordsInv
      <4> QED  BY <4>2
    <3>4. /\ loaded[t].doc.fields = req[t].doc.fields
          /\ loaded[t].doc.value = req[t].doc.value
          => loaded[t].doc = req[t].doc
      BY <3>2 DEF Record, Document
    <3>5. Compared(found) /\ req[t].op = "verify"
      BY <1>15, <2>2 DEF Match, LocalInv, Verifying
    <3>6. Differs(found, req[t], loaded[t])
      BY <3>3, <3>4, <3>5 DEF Differs, VerifyMismatch, Compared, Spurious
    <3>7. loaded[t] # NoRecord
      BY <3>2, SigningAssumption
    <3> QED  BY <2>2, <3>1, <3>2, <3>6, <3>7 DEF Justified
  <2> QED  BY <1>15, <2>1, <2>2 DEF Match, Incident, IssueSignature
<1>16. ASSUME NEW t \in Threads, ReCheck(t)
      PROVE  ComparisonsHold'
  BY <1>16, NoCode = NoCode DEF ReCheck, Incident, Spurious, ComparisonsHold
<1>17. ASSUME NEW t \in Threads, AuditIncident(t)
      PROVE  ComparisonsHold'
  BY <1>17 DEF AuditIncident, AppendEvent, ComparisonsHold
<1>18. ASSUME NEW t \in Threads, SendAlert(t)
      PROVE  ComparisonsHold'
  BY <1>18 DEF SendAlert, ComparisonsHold
<1>19. ASSUME NEW t \in Threads, AuditUndelivered(t)
      PROVE  ComparisonsHold'
  BY <1>19 DEF AuditUndelivered, AppendEvent, ComparisonsHold
<1>20. ASSUME NEW t \in Threads, Answer(t)
      PROVE  ComparisonsHold'
  BY <1>20 DEF Answer, AnswerIncident, ComparisonsHold
<1>21. ASSUME SealVault
      PROVE  ComparisonsHold'
  BY <1>21 DEF SealVault, V!Seal, ComparisonsHold
<1>22. ASSUME UnsealVault
      PROVE  ComparisonsHold'
  BY <1>22 DEF UnsealVault, V!Unseal, ComparisonsHold
<1>23. ASSUME Crash
      PROVE  ComparisonsHold'
  BY <1>23 DEF Crash, ComparisonsHold
<1>24. CASE UNCHANGED vars
  BY <1>24 DEF vars, ComparisonsHold
<1> QED  BY <1>1, <1>2, <1>3, <1>4, <1>5, <1>6, <1>7, <1>8, <1>9, <1>10,
    <1>11, <1>12, <1>13, <1>14, <1>15, <1>16, <1>17, <1>18, <1>19, <1>20,
    <1>21, <1>22, <1>23, <1>24 DEF Next, SignIntegrity, VerifyIntegrity,
    ReportIncident

(* A request past IsUnsealed finds the vault sealed only if it has been    *)
(* sealed since.                                                           *)
LEMMA UnsealedStep ==
  TypeOK /\ UnsealedInv /\ [Next]_vars => UnsealedInv'
<1> SUFFICES ASSUME TypeOK /\ UnsealedInv, [Next]_vars PROVE UnsealedInv'
  OBVIOUS
<1> USE DEF vaultVars, localVars, Continue, Goto, Return, Refuse, TypeOK, UnsealedInv
<1>1. ASSUME NEW t \in Threads, NEW q \in Request, Begin(t, q)
      PROVE  UnsealedInv'
  BY <1>1 DEF Begin
<1>2. ASSUME NEW t \in Threads, CheckUnsealed(t)
      PROVE  UnsealedInv'
  BY <1>2 DEF CheckUnsealed
<1>3. ASSUME NEW t \in Threads, LoadWallet(t)
      PROVE  UnsealedInv'
  BY <1>3 DEF LoadWallet
<1>4. ASSUME NEW t \in Threads, SignGet(t)
      PROVE  UnsealedInv'
  BY <1>4 DEF SignGet, Load
<1>5. ASSUME NEW t \in Threads, LoadRoot(t)
      PROVE  UnsealedInv'
  BY <1>5 DEF LoadRoot
<1>6. ASSUME NEW t \in Threads, UseCachedSeed(t)
      PROVE  UnsealedInv'
  BY <1>6 DEF UseCachedSeed, WithSeed
<1>7. ASSUME NEW t \in Threads, OpenSeed(t)
      PROVE  UnsealedInv'
  BY <1>7 DEF OpenSeed
<1>8. ASSUME NEW t \in Threads, CacheOpened(t)
      PROVE  UnsealedInv'
  BY <1>8 DEF CacheOpened, V!CacheSeed
<1>9. ASSUME NEW t \in Threads, UseNewSeed(t)
      PROVE  UnsealedInv'
  BY <1>9 DEF UseNewSeed, WithSeed
<1>10. ASSUME NEW t \in Threads, SealRecord(t)
      PROVE  UnsealedInv'
  BY <1>10 DEF SealRecord
<1>11. ASSUME NEW t \in Threads, CreateRecord(t)
      PROVE  UnsealedInv'
  BY <1>11 DEF CreateRecord, IssueSignature
<1>12. ASSUME NEW t \in Threads, ReGet(t)
      PROVE  UnsealedInv'
  BY <1>12 DEF ReGet, Load
<1>13. ASSUME NEW t \in Threads, Reuse(t)
      PROVE  UnsealedInv'
  BY <1>13 DEF Reuse, Incident, IssueSignature
<1>14. ASSUME NEW t \in Threads, VerifyGet(t)
      PROVE  UnsealedInv'
  BY <1>14 DEF VerifyGet, Load, Incident
<1>15. ASSUME NEW t \in Threads, Match(t)
      PROVE  UnsealedInv'
  BY <1>15 DEF Match, Incident
<1>16. ASSUME NEW t \in Threads, ReCheck(t)
      PROVE  UnsealedInv'
  BY <1>16 DEF ReCheck, Incident
<1>17. ASSUME NEW t \in Threads, AuditIncident(t)
      PROVE  UnsealedInv'
  BY <1>17 DEF AuditIncident, AppendEvent
<1>18. ASSUME NEW t \in Threads, SendAlert(t)
      PROVE  UnsealedInv'
  BY <1>18 DEF SendAlert
<1>19. ASSUME NEW t \in Threads, AuditUndelivered(t)
      PROVE  UnsealedInv'
  BY <1>19 DEF AuditUndelivered, AppendEvent
<1>20. ASSUME NEW t \in Threads, Answer(t)
      PROVE  UnsealedInv'
  BY <1>20 DEF Answer, AnswerIncident
<1>21. ASSUME SealVault
      PROVE  UnsealedInv'
  BY <1>21 DEF SealVault, V!Seal
<1>22. ASSUME UnsealVault
      PROVE  UnsealedInv'
  BY <1>22 DEF UnsealVault, V!Unseal
<1>23. ASSUME Crash
      PROVE  UnsealedInv'
  BY <1>23 DEF Crash
<1>24. CASE UNCHANGED vars
  BY <1>24 DEF vars
<1> QED  BY <1>1, <1>2, <1>3, <1>4, <1>5, <1>6, <1>7, <1>8, <1>9, <1>10,
    <1>11, <1>12, <1>13, <1>14, <1>15, <1>16, <1>17, <1>18, <1>19, <1>20,
    <1>21, <1>22, <1>23, <1>24 DEF Next, SignIntegrity, VerifyIntegrity,
    ReportIncident

LEMMA NoCodeIsNone == NoCode # "SIGNING_RECORD_TAMPERED"
  BY SigningAssumption DEF VerifyCodes

(* An open record is never found to be tampered with.                      *)
LEMMA NotTampered ==
    ASSUME TypeOK, LocalInv, LoadedInv, RecordsInv,
           NEW t \in Threads, pc[t] \in {"reuse", "match"}
    PROVE  /\ pc[t] = "reuse" =>
                ReuseMismatch(req[t], loaded[t]) # "SIGNING_RECORD_TAMPERED"
           /\ VerifyMismatch(req[t], loaded[t]) # "SIGNING_RECORD_TAMPERED"
<1>1. VerifyMismatch(req[t], loaded[t]) # "SIGNING_RECORD_TAMPERED"
  BY NoCodeIsNone DEF VerifyMismatch
<1>2. ASSUME pc[t] = "reuse"
      PROVE  ReuseMismatch(req[t], loaded[t]) # "SIGNING_RECORD_TAMPERED"
  <2>1. loaded[t] = records[req[t].object] /\ loaded[t] # NoRecord
    BY <1>2 DEF LoadedInv
  <2>2. req[t].object \in Objects
    BY <1>2, Carried DEF Signing
  <2>3. loaded[t].signature =
          [wallet |-> loaded[t].wallet, object |-> req[t].object, doc |-> loaded[t].doc]
    BY <2>1, <2>2 DEF RecordsInv
  <2> QED  BY NoCodeIsNone, <2>3 DEF ReuseMismatch, Sign
<1> QED  BY <1>1, <1>2

(* A record counts as tampered with only when a sealed vault cannot open   *)
(* it.                                                                     *)
LEMMA TamperedStep ==
  TypeOK /\ LocalInv /\ LoadedInv /\ RecordsInv /\ UnsealedInv /\ TamperedIfSealed /\ [Next]_vars => TamperedIfSealed'
<1> SUFFICES ASSUME TypeOK /\ LocalInv /\ LoadedInv /\ RecordsInv /\ UnsealedInv /\ TamperedIfSealed, [Next]_vars PROVE TamperedIfSealed'
  OBVIOUS
<1> USE NoCodeIsNone DEF vaultVars, localVars, Continue, Goto, Return, Refuse, TypeOK,
    TamperedIfSealed
<1>1. ASSUME NEW t \in Threads, NEW q \in Request, Begin(t, q)
      PROVE  TamperedIfSealed'
  BY <1>1 DEF Begin
<1>2. ASSUME NEW t \in Threads, CheckUnsealed(t)
      PROVE  TamperedIfSealed'
  BY <1>2 DEF CheckUnsealed
<1>3. ASSUME NEW t \in Threads, LoadWallet(t)
      PROVE  TamperedIfSealed'
  BY <1>3 DEF LoadWallet
<1>4. ASSUME NEW t \in Threads, SignGet(t)
      PROVE  TamperedIfSealed'
  BY <1>4 DEF SignGet, Load
<1>5. ASSUME NEW t \in Threads, LoadRoot(t)
      PROVE  TamperedIfSealed'
  BY <1>5 DEF LoadRoot
<1>6. ASSUME NEW t \in Threads, UseCachedSeed(t)
      PROVE  TamperedIfSealed'
  BY <1>6 DEF UseCachedSeed, WithSeed
<1>7. ASSUME NEW t \in Threads, OpenSeed(t)
      PROVE  TamperedIfSealed'
  BY <1>7 DEF OpenSeed
<1>8. ASSUME NEW t \in Threads, CacheOpened(t)
      PROVE  TamperedIfSealed'
  BY <1>8 DEF CacheOpened, V!CacheSeed
<1>9. ASSUME NEW t \in Threads, UseNewSeed(t)
      PROVE  TamperedIfSealed'
  BY <1>9 DEF UseNewSeed, WithSeed
<1>10. ASSUME NEW t \in Threads, SealRecord(t)
      PROVE  TamperedIfSealed'
  BY <1>10 DEF SealRecord
<1>11. ASSUME NEW t \in Threads, CreateRecord(t)
      PROVE  TamperedIfSealed'
  BY <1>11 DEF CreateRecord, IssueSignature
<1>12. ASSUME NEW t \in Threads, ReGet(t)
      PROVE  TamperedIfSealed'
  BY <1>12 DEF ReGet, Load
<1>13. ASSUME NEW t \in Threads, Reuse(t)
      PROVE  TamperedIfSealed'
  <2> DEFINE found == IF unsealed THEN ReuseMismatch(req[t], loaded[t])
                                  ELSE "SIGNING_RECORD_TAMPERED"
  <2>1. found = "SIGNING_RECORD_TAMPERED" => t \in interrupted
    BY <1>13, NotTampered DEF Reuse, UnsealedInv
  <2>2. \/ IssueSignature(t, loaded[t].signature)
        \/ Incident(t, found)
    BY <1>13 DEF Reuse
  <2> HIDE DEF found
  <2> QED  BY <2>1, <2>2 DEF Incident, IssueSignature, ReuseCodes
<1>14. ASSUME NEW t \in Threads, VerifyGet(t)
      PROVE  TamperedIfSealed'
  BY <1>14 DEF VerifyGet, Load, Incident
<1>15. ASSUME NEW t \in Threads, Match(t)
      PROVE  TamperedIfSealed'
  <2> DEFINE found == IF unsealed THEN VerifyMismatch(req[t], loaded[t])
                                  ELSE "SIGNING_RECORD_TAMPERED"
  <2>1. found = "SIGNING_RECORD_TAMPERED" => t \in interrupted
    BY <1>15, NotTampered DEF Match, UnsealedInv
  <2>2. \/ Continue(t, "recheck")
        \/ Incident(t, found)
    BY <1>15 DEF Match
  <2> HIDE DEF found
  <2> QED  BY <2>1, <2>2 DEF Incident
<1>16. ASSUME NEW t \in Threads, ReCheck(t)
      PROVE  TamperedIfSealed'
  BY <1>16 DEF ReCheck, Incident
<1>17. ASSUME NEW t \in Threads, AuditIncident(t)
      PROVE  TamperedIfSealed'
  BY <1>17 DEF AuditIncident, AppendEvent
<1>18. ASSUME NEW t \in Threads, SendAlert(t)
      PROVE  TamperedIfSealed'
  BY <1>18 DEF SendAlert
<1>19. ASSUME NEW t \in Threads, AuditUndelivered(t)
      PROVE  TamperedIfSealed'
  BY <1>19 DEF AuditUndelivered, AppendEvent
<1>20. ASSUME NEW t \in Threads, Answer(t)
      PROVE  TamperedIfSealed'
  BY <1>20 DEF Answer, AnswerIncident
<1>21. ASSUME SealVault
      PROVE  TamperedIfSealed'
  BY <1>21 DEF SealVault, V!Seal
<1>22. ASSUME UnsealVault
      PROVE  TamperedIfSealed'
  BY <1>22 DEF UnsealVault, V!Unseal
<1>23. ASSUME Crash
      PROVE  TamperedIfSealed'
  BY <1>23 DEF Crash
<1>24. CASE UNCHANGED vars
  BY <1>24 DEF vars
<1> QED  BY <1>1, <1>2, <1>3, <1>4, <1>5, <1>6, <1>7, <1>8, <1>9, <1>10,
    <1>11, <1>12, <1>13, <1>14, <1>15, <1>16, <1>17, <1>18, <1>19, <1>20,
    <1>21, <1>22, <1>23, <1>24 DEF Next, SignIntegrity, VerifyIntegrity,
    ReportIncident

LEMMA IncidentStep ==
  /\ TypeOK /\ LocalInv /\ LoadedInv /\ RecordsInv /\ UnsealedInv
  /\ IncidentsJustified /\ [Next]_vars
  => IncidentsJustified'
  BY ComparisonStep, TamperedStep DEF IncidentsJustified

(* A verification that matches the record presents its wallet's signature. *)
LEMMA MatchedSignature ==
    ASSUME RecordsInv, NEW q \in Request, q.op = "verify", MatchesRecord(q)
    PROVE  SignatureValid(q)
<1> DEFINE r == records[q.object]
<1>1. r.signature = [wallet |-> r.wallet, object |-> q.object, doc |-> r.doc]
  BY Requests DEF MatchesRecord, RecordsInv
<1>2. r.wallet = q.wallet /\ r.doc = q.doc /\ r.signature = q.signature
  BY DEF MatchesRecord
<1> HIDE DEF r
<1> QED  BY <1>1, <1>2 DEF SignatureValid, Sign

(* So does the verification of a returned signature.                       *)
LEMMA KnownSignature ==
    ASSUME LocalInv, RecordsInv, KnownInv,
           NEW t \in Threads, pc[t] # "idle", known[t]
    PROVE  SignatureValid(req[t])
  BY MatchedSignature DEF LocalInv, KnownInv

(* Only a verification answers with a verdict.                             *)
LEMMA NoVerdicts == NoReply \notin Verdict /\ Ok \notin Verdict /\ Refused \notin Verdict
  BY SigningAssumption

(* A returned signature is found, matches, and is valid, unless its record *)
(* cannot be opened or its wallet not be read.                             *)
LEMMA StaysKnownStep ==
    /\ TypeOK /\ LocalInv /\ LoadedInv
    /\ RecordsInv /\ KnownInv /\ IssuedStaysKnown /\ [Next]_vars
  => IssuedStaysKnown'
<1> SUFFICES ASSUME TypeOK /\ LocalInv /\ LoadedInv /\
                    RecordsInv /\ KnownInv /\ IssuedStaysKnown, [Next]_vars
             PROVE  IssuedStaysKnown'
  OBVIOUS
<1> USE NoVerdicts DEF vaultVars, localVars, Continue, Goto, Return, Refuse,
    TypeOK, IssuedStaysKnown
<1>1. ASSUME NEW t \in Threads, NEW q \in Request, Begin(t, q)
      PROVE  IssuedStaysKnown'
  <2>1. \A u \in Threads : code'[u] = code[u] /\ reply'[u] \in {reply[u], NoReply}
    BY <1>1 DEF Begin
  <2>2. code[t] = NoCode /\ reply'[t] = NoReply
    BY <1>1 DEF Begin, LocalInv, Reporting
  <2>3. \A u \in Threads \ {t} : known'[u] = known[u]
    BY <1>1 DEF Begin
  <2> QED  BY <2>1, <2>2, <2>3
<1>2. ASSUME NEW t \in Threads, CheckUnsealed(t)
      PROVE  IssuedStaysKnown'
  BY <1>2 DEF CheckUnsealed
<1>3. ASSUME NEW t \in Threads, LoadWallet(t)
      PROVE  IssuedStaysKnown'
  BY <1>3 DEF LoadWallet
<1>4. ASSUME NEW t \in Threads, SignGet(t)
      PROVE  IssuedStaysKnown'
  BY <1>4 DEF SignGet, Load
<1>5. ASSUME NEW t \in Threads, LoadRoot(t)
      PROVE  IssuedStaysKnown'
  BY <1>5 DEF LoadRoot
<1>6. ASSUME NEW t \in Threads, UseCachedSeed(t)
      PROVE  IssuedStaysKnown'
  BY <1>6 DEF UseCachedSeed, WithSeed
<1>7. ASSUME NEW t \in Threads, OpenSeed(t)
      PROVE  IssuedStaysKnown'
  BY <1>7 DEF OpenSeed
<1>8. ASSUME NEW t \in Threads, CacheOpened(t)
      PROVE  IssuedStaysKnown'
  BY <1>8 DEF CacheOpened, V!CacheSeed
<1>9. ASSUME NEW t \in Threads, UseNewSeed(t)
      PROVE  IssuedStaysKnown'
  BY <1>9 DEF UseNewSeed, WithSeed
<1>10. ASSUME NEW t \in Threads, SealRecord(t)
      PROVE  IssuedStaysKnown'
  BY <1>10 DEF SealRecord
<1>11. ASSUME NEW t \in Threads, CreateRecord(t)
      PROVE  IssuedStaysKnown'
  BY <1>11 DEF CreateRecord, IssueSignature
<1>12. ASSUME NEW t \in Threads, ReGet(t)
      PROVE  IssuedStaysKnown'
  BY <1>12 DEF ReGet, Load
<1>13. ASSUME NEW t \in Threads, Reuse(t)
      PROVE  IssuedStaysKnown'
  <2>1. ~known[t]
    BY <1>13 DEF Reuse, KnownInv, LocalInv, Signing
  <2> QED  BY <1>13, <2>1 DEF Reuse, IssueSignature, Incident
<1>14. ASSUME NEW t \in Threads, VerifyGet(t)
      PROVE  IssuedStaysKnown'
  <2>1. known[t] => records[req[t].object] # NoRecord
    BY <1>14 DEF VerifyGet, KnownInv, MatchesRecord
  <2> QED  BY <1>14, <2>1 DEF VerifyGet, Load, Incident
<1>15. ASSUME NEW t \in Threads, Match(t)
      PROVE  IssuedStaysKnown'
  <2> DEFINE found == IF unsealed THEN VerifyMismatch(req[t], loaded[t])
                                  ELSE "SIGNING_RECORD_TAMPERED"
  <2>1. known[t] => found \in Spurious \cup {NoCode}
    <3> SUFFICES ASSUME known[t], unsealed PROVE found = NoCode
      BY DEF Spurious
    <3>1. /\ loaded[t] = [wallet |-> req[t].wallet, doc |-> req[t].doc,
                          signature |-> req[t].signature]
          /\ loaded[t] = records[req[t].object]
          /\ req[t].object \in Objects
      BY <1>15, Carried DEF Match, KnownInv, MatchesRecord, LoadedInv,
         Verifying
    <3>2. records[req[t].object] # NoRecord
      BY <1>15 DEF Match, LoadedInv, Verifying
    <3>3. loaded[t].signature = [wallet |-> loaded[t].wallet,
                object |-> req[t].object, doc |-> loaded[t].doc]
      BY <3>1, <3>2 DEF RecordsInv
    <3>4. /\ loaded[t].wallet = req[t].wallet /\ loaded[t].doc = req[t].doc
          /\ loaded[t].signature = req[t].signature
          /\ loaded[t].signature.doc = req[t].doc
      BY <3>1, <3>3
    <3> QED  BY <3>4 DEF VerifyMismatch
  <2>2. Continue(t, "recheck") \/ Incident(t, found)
    BY <1>15 DEF Match
  <2> HIDE DEF found
  <2> QED  BY <2>1, <2>2 DEF Incident
<1>16. ASSUME NEW t \in Threads, ReCheck(t)
      PROVE  IssuedStaysKnown'
  <2>1. CASE Incident(t, "STORED_SIGNATURE_INVALID")
    BY <1>16, <2>1 DEF ReCheck, Incident, Spurious
  <2>2. CASE Return(t, [signature_valid |-> SignatureValid(req[t]), reason |-> NoCode])
    <3>1. known[t] => SignatureValid(req[t])
      BY <1>16, KnownSignature DEF ReCheck, KnownInv
    <3> QED  BY <2>2, <3>1
  <2> QED  BY <1>16, <2>1, <2>2 DEF ReCheck
<1>17. ASSUME NEW t \in Threads, AuditIncident(t)
      PROVE  IssuedStaysKnown'
  BY <1>17 DEF AuditIncident, AppendEvent
<1>18. ASSUME NEW t \in Threads, SendAlert(t)
      PROVE  IssuedStaysKnown'
  BY <1>18 DEF SendAlert
<1>19. ASSUME NEW t \in Threads, AuditUndelivered(t)
      PROVE  IssuedStaysKnown'
  BY <1>19 DEF AuditUndelivered, AppendEvent
<1>20. ASSUME NEW t \in Threads, Answer(t)
      PROVE  IssuedStaysKnown'
  <2>1. known[t] => SignatureValid(req[t])
    BY <1>20, KnownSignature DEF Answer, KnownInv
  <2>2. \/ Return(t, Refused)
        \/ Return(t, [signature_valid |-> SignatureValid(req[t]), reason |-> code[t]])
    BY <1>20 DEF Answer, AnswerIncident
  <2> QED  BY <2>1, <2>2
<1>21. ASSUME SealVault
      PROVE  IssuedStaysKnown'
  BY <1>21 DEF SealVault, V!Seal
<1>22. ASSUME UnsealVault
      PROVE  IssuedStaysKnown'
  BY <1>22 DEF UnsealVault, V!Unseal
<1>23. ASSUME Crash
      PROVE  IssuedStaysKnown'
  BY <1>23 DEF Crash
<1>24. CASE UNCHANGED vars
  BY <1>24 DEF vars
<1> QED  BY <1>1, <1>2, <1>3, <1>4, <1>5, <1>6, <1>7, <1>8, <1>9, <1>10,
    <1>11, <1>12, <1>13, <1>14, <1>15, <1>16, <1>17, <1>18, <1>19, <1>20,
    <1>21, <1>22, <1>23, <1>24 DEF Next, SignIntegrity, VerifyIntegrity,
    ReportIncident

(* A verdict that the record matches is right.                             *)
Truthful(t) ==
    pc[t] # "idle" /\ reply'[t] \in Verdict =>
        (reply'[t].reason = NoCode => MatchesRecord(req[t]) /\ reply'[t].signature_valid)

(* Such a verdict comes from ReCheck alone, after the comparison.          *)
LEMMA VerdictStep ==
    TypeOK /\ LocalInv /\ LoadedInv /\ RecordsInv /\ [Next]_vars
  => (\A u \in Threads : Truthful(u))
<1> SUFFICES ASSUME TypeOK /\ LocalInv /\ LoadedInv /\ RecordsInv, [Next]_vars
             PROVE  (\A u \in Threads : Truthful(u))
  OBVIOUS
<1> USE NoVerdicts DEF vaultVars, localVars, Continue, Goto, Return, Refuse,
    TypeOK, LocalInv, Truthful
<1>1. ASSUME NEW t \in Threads, NEW q \in Request, Begin(t, q)
      PROVE  (\A u \in Threads : Truthful(u))
  BY <1>1 DEF Begin
<1>2. ASSUME NEW t \in Threads, CheckUnsealed(t)
      PROVE  (\A u \in Threads : Truthful(u))
  BY <1>2 DEF CheckUnsealed
<1>3. ASSUME NEW t \in Threads, LoadWallet(t)
      PROVE  (\A u \in Threads : Truthful(u))
  BY <1>3 DEF LoadWallet
<1>4. ASSUME NEW t \in Threads, SignGet(t)
      PROVE  (\A u \in Threads : Truthful(u))
  BY <1>4 DEF SignGet, Load
<1>5. ASSUME NEW t \in Threads, LoadRoot(t)
      PROVE  (\A u \in Threads : Truthful(u))
  BY <1>5 DEF LoadRoot
<1>6. ASSUME NEW t \in Threads, UseCachedSeed(t)
      PROVE  (\A u \in Threads : Truthful(u))
  BY <1>6 DEF UseCachedSeed, WithSeed
<1>7. ASSUME NEW t \in Threads, OpenSeed(t)
      PROVE  (\A u \in Threads : Truthful(u))
  BY <1>7 DEF OpenSeed
<1>8. ASSUME NEW t \in Threads, CacheOpened(t)
      PROVE  (\A u \in Threads : Truthful(u))
  BY <1>8 DEF CacheOpened, V!CacheSeed
<1>9. ASSUME NEW t \in Threads, UseNewSeed(t)
      PROVE  (\A u \in Threads : Truthful(u))
  BY <1>9 DEF UseNewSeed, WithSeed
<1>10. ASSUME NEW t \in Threads, SealRecord(t)
      PROVE  (\A u \in Threads : Truthful(u))
  BY <1>10 DEF SealRecord
<1>11. ASSUME NEW t \in Threads, CreateRecord(t)
      PROVE  (\A u \in Threads : Truthful(u))
  BY <1>11 DEF CreateRecord, IssueSignature
<1>12. ASSUME NEW t \in Threads, ReGet(t)
      PROVE  (\A u \in Threads : Truthful(u))
  BY <1>12 DEF ReGet, Load
<1>13. ASSUME NEW t \in Threads, Reuse(t)
      PROVE  (\A u \in Threads : Truthful(u))
  BY <1>13 DEF Reuse, IssueSignature, Incident
<1>14. ASSUME NEW t \in Threads, VerifyGet(t)
      PROVE  (\A u \in Threads : Truthful(u))
  BY <1>14 DEF VerifyGet, Load, Incident
<1>15. ASSUME NEW t \in Threads, Match(t)
      PROVE  (\A u \in Threads : Truthful(u))
  BY <1>15 DEF Match, Incident
<1>16. ASSUME NEW t \in Threads, ReCheck(t)
      PROVE  (\A u \in Threads : Truthful(u))
  <2>1. \A u \in Threads \ {t} : reply'[u] = reply[u]
    BY <1>16 DEF ReCheck, Incident
  <2>2. CASE Incident(t, "STORED_SIGNATURE_INVALID")
    BY <2>1, <2>2 DEF Incident
  <2>3. CASE Return(t, [signature_valid |-> SignatureValid(req[t]), reason |-> NoCode])
    <3>1. MatchesRecord(req[t]) /\ SignatureValid(req[t])
      BY <1>16, MatchedSignature DEF ReCheck, LoadedInv, Verifying
    <3>2. reply'[t].signature_valid
      BY <2>3, <3>1
    <3> QED  BY <2>1, <3>1, <3>2
  <2> QED  BY <1>16, <2>2, <2>3 DEF ReCheck
<1>17. ASSUME NEW t \in Threads, AuditIncident(t)
      PROVE  (\A u \in Threads : Truthful(u))
  BY <1>17 DEF AuditIncident, AppendEvent
<1>18. ASSUME NEW t \in Threads, SendAlert(t)
      PROVE  (\A u \in Threads : Truthful(u))
  BY <1>18 DEF SendAlert
<1>19. ASSUME NEW t \in Threads, AuditUndelivered(t)
      PROVE  (\A u \in Threads : Truthful(u))
  BY <1>19 DEF AuditUndelivered, AppendEvent
<1>20. ASSUME NEW t \in Threads, Answer(t)
      PROVE  (\A u \in Threads : Truthful(u))
  <2>1. code[t] # NoCode
    BY <1>20 DEF Answer, Reporting
  <2>2. \/ Return(t, Refused)
        \/ Return(t, [signature_valid |-> SignatureValid(req[t]), reason |-> code[t]])
    BY <1>20 DEF Answer, AnswerIncident
  <2> QED  BY <2>1, <2>2
<1>21. ASSUME SealVault
      PROVE  (\A u \in Threads : Truthful(u))
  BY <1>21 DEF SealVault, V!Seal
<1>22. ASSUME UnsealVault
      PROVE  (\A u \in Threads : Truthful(u))
  BY <1>22 DEF UnsealVault, V!Unseal
<1>23. ASSUME Crash
      PROVE  (\A u \in Threads : Truthful(u))
  BY <1>23 DEF Crash
<1>24. CASE UNCHANGED vars
  BY <1>24 DEF vars
<1> QED  BY <1>1, <1>2, <1>3, <1>4, <1>5, <1>6, <1>7, <1>8, <1>9, <1>10,
    <1>11, <1>12, <1>13, <1>14, <1>15, <1>16, <1>17, <1>18, <1>19, <1>20,
    <1>21, <1>22, <1>23, <1>24 DEF Next, SignIntegrity, VerifyIntegrity,
    ReportIncident

(* A first insert fixes a record; a reuse issues the one there is; all     *)
(* other steps change nothing of the ledger.                               *)
LEMMA LedgerStep ==
    TypeOK /\ LocalInv /\ LoadedInv /\ [Next]_vars
  => (L!Next \/ UNCHANGED L!vars)
<1> SUFFICES ASSUME TypeOK /\ LocalInv /\ LoadedInv, [Next]_vars
             PROVE  (L!Next \/ UNCHANGED L!vars)
  OBVIOUS
<1> USE DEF vaultVars, localVars, Continue, Goto, Return, Refuse
<1>1. ASSUME NEW t \in Threads, NEW q \in Request, Begin(t, q)
      PROVE  (L!Next \/ UNCHANGED L!vars)
  BY <1>1 DEF Begin, L!vars
<1>2. ASSUME NEW t \in Threads, CheckUnsealed(t)
      PROVE  (L!Next \/ UNCHANGED L!vars)
  BY <1>2 DEF CheckUnsealed, L!vars
<1>3. ASSUME NEW t \in Threads, LoadWallet(t)
      PROVE  (L!Next \/ UNCHANGED L!vars)
  BY <1>3 DEF LoadWallet, L!vars
<1>4. ASSUME NEW t \in Threads, SignGet(t)
      PROVE  (L!Next \/ UNCHANGED L!vars)
  BY <1>4 DEF SignGet, Load, L!vars
<1>5. ASSUME NEW t \in Threads, LoadRoot(t)
      PROVE  (L!Next \/ UNCHANGED L!vars)
  BY <1>5 DEF LoadRoot, L!vars
<1>6. ASSUME NEW t \in Threads, UseCachedSeed(t)
      PROVE  (L!Next \/ UNCHANGED L!vars)
  BY <1>6 DEF UseCachedSeed, WithSeed, L!vars
<1>7. ASSUME NEW t \in Threads, OpenSeed(t)
      PROVE  (L!Next \/ UNCHANGED L!vars)
  BY <1>7 DEF OpenSeed, L!vars
<1>8. ASSUME NEW t \in Threads, CacheOpened(t)
      PROVE  (L!Next \/ UNCHANGED L!vars)
  BY <1>8 DEF CacheOpened, V!CacheSeed, L!vars
<1>9. ASSUME NEW t \in Threads, UseNewSeed(t)
      PROVE  (L!Next \/ UNCHANGED L!vars)
  BY <1>9 DEF UseNewSeed, WithSeed, L!vars
<1>10. ASSUME NEW t \in Threads, SealRecord(t)
      PROVE  (L!Next \/ UNCHANGED L!vars)
  BY <1>10 DEF SealRecord, L!vars
<1>11. ASSUME NEW t \in Threads, CreateRecord(t)
      PROVE  (L!Next \/ UNCHANGED L!vars)
  <2>1. req[t].object \in Objects /\ NewRecord(req[t]) \in Record
    BY <1>11, Carried DEF CreateRecord, Signing
  <2>2. CASE UNCHANGED <<records, issued>>
    BY <2>2 DEF L!vars
  <2>3. CASE ~UNCHANGED <<records, issued>>
    <3>1. /\ records[req[t].object] = NoRecord
          /\ records' = [records EXCEPT ![req[t].object] = NewRecord(req[t])]
          /\ IssueSignature(t, Sign(req[t])) \/ UNCHANGED issued
      BY <1>11, <2>3 DEF CreateRecord
    <3>2. issued' \in {issued, issued \cup
                         {[object |-> req[t].object, record |-> NewRecord(req[t])]}}
      BY <3>1 DEF IssueSignature, NewRecord
    <3>3. L!Fix(req[t].object, NewRecord(req[t]))
      BY <3>1, <3>2 DEF L!Fix
    <3> QED  BY <2>1, <3>3 DEF L!Next
  <2> QED  BY <2>2, <2>3
<1>12. ASSUME NEW t \in Threads, ReGet(t)
      PROVE  (L!Next \/ UNCHANGED L!vars)
  BY <1>12 DEF ReGet, Load, L!vars
<1>13. ASSUME NEW t \in Threads, Reuse(t)
      PROVE  (L!Next \/ UNCHANGED L!vars)
  <2> DEFINE found == IF unsealed THEN ReuseMismatch(req[t], loaded[t])
                                  ELSE "SIGNING_RECORD_TAMPERED"
  <2>1. CASE found # NoCode
    BY <1>13, <2>1 DEF Reuse, L!vars
  <2>2. CASE found = NoCode
    <3>1. IssueSignature(t, loaded[t].signature) /\ UNCHANGED records
      BY <1>13, <2>2 DEF Reuse
    <3>2. /\ req[t].object \in Objects
          /\ loaded[t] \in Record /\ loaded[t] = records[req[t].object]
          /\ loaded[t] # NoRecord
      BY <1>13, Carried DEF Reuse, Signing, LoadedInv, TypeOK
    <3>3. loaded[t].wallet = req[t].wallet /\ loaded[t].doc = req[t].doc
      BY <2>2, SigningAssumption DEF ReuseMismatch, ReuseCodes
    <3>4. [wallet |-> req[t].wallet, doc |-> req[t].doc,
           signature |-> loaded[t].signature] = loaded[t]
      BY <3>2, <3>3 DEF Record
    <3>5. L!Issue(req[t].object)
      BY <3>1, <3>2, <3>4 DEF IssueSignature, L!Issue
    <3> QED  BY <3>2, <3>5 DEF L!Next
  <2> QED  BY <2>1, <2>2
<1>14. ASSUME NEW t \in Threads, VerifyGet(t)
      PROVE  (L!Next \/ UNCHANGED L!vars)
  BY <1>14 DEF VerifyGet, Load, Incident, L!vars
<1>15. ASSUME NEW t \in Threads, Match(t)
      PROVE  (L!Next \/ UNCHANGED L!vars)
  BY <1>15 DEF Match, Incident, L!vars
<1>16. ASSUME NEW t \in Threads, ReCheck(t)
      PROVE  (L!Next \/ UNCHANGED L!vars)
  BY <1>16 DEF ReCheck, Incident, L!vars
<1>17. ASSUME NEW t \in Threads, AuditIncident(t)
      PROVE  (L!Next \/ UNCHANGED L!vars)
  BY <1>17 DEF AuditIncident, AppendEvent, L!vars
<1>18. ASSUME NEW t \in Threads, SendAlert(t)
      PROVE  (L!Next \/ UNCHANGED L!vars)
  BY <1>18 DEF SendAlert, L!vars
<1>19. ASSUME NEW t \in Threads, AuditUndelivered(t)
      PROVE  (L!Next \/ UNCHANGED L!vars)
  BY <1>19 DEF AuditUndelivered, AppendEvent, L!vars
<1>20. ASSUME NEW t \in Threads, Answer(t)
      PROVE  (L!Next \/ UNCHANGED L!vars)
  BY <1>20 DEF Answer, AnswerIncident, L!vars
<1>21. ASSUME SealVault
      PROVE  (L!Next \/ UNCHANGED L!vars)
  BY <1>21 DEF SealVault, V!Seal, L!vars
<1>22. ASSUME UnsealVault
      PROVE  (L!Next \/ UNCHANGED L!vars)
  BY <1>22 DEF UnsealVault, V!Unseal, L!vars
<1>23. ASSUME Crash
      PROVE  (L!Next \/ UNCHANGED L!vars)
  BY <1>23 DEF Crash, L!vars
<1>24. CASE UNCHANGED vars
  BY <1>24 DEF vars, L!vars
<1> QED  BY <1>1, <1>2, <1>3, <1>4, <1>5, <1>6, <1>7, <1>8, <1>9, <1>10,
    <1>11, <1>12, <1>13, <1>14, <1>15, <1>16, <1>17, <1>18, <1>19, <1>20,
    <1>21, <1>22, <1>23, <1>24 DEF Next, SignIntegrity, VerifyIntegrity,
    ReportIncident

-----------------------------------------------------------------------------
(* IInv holds in every reachable state; the theorems below rest on it.     *)
THEOREM Inductive == Spec => []IInv
<1>1. Init => IInv
  BY SigningAssumption, NoCodeIsNone DEF Init, IInv, TypeOK, Steps, LocalInv, LoadedInv,
     RecordsInv,
     IssuedIsRecorded, KnownInv, UnsealedInv, IncidentsJustified, ComparisonsHold,
     TamperedIfSealed, IssuedStaysKnown, Deriving,
     Signing, Verifying, Reporting
<1>2. IInv /\ [Next]_vars => IInv'
  BY TypeStep, LocalStep, LoadedStep, RecordsStep, IssuedStep, KnownStep,
     UnsealedStep, IncidentStep, StaysKnownStep DEF IInv
<1> QED  BY <1>1, <1>2, PTL DEF Spec

(* The state of the signing service keeps its types.                       *)
THEOREM TypeCorrect == Spec => []TypeOK
  BY Inductive, PTL DEF IInv

(* Whatever a caller was given is durable, and the only one of its object. *)
THEOREM SignaturesAreRecorded == Spec => []IssuedIsRecorded
  BY Inductive, PTL DEF IInv

(* Every comparison incident reported is true of the immutable record, and *)
(* a record is said to be tampered with only under a seal.                 *)
THEOREM IncidentsAreTrue == Spec => []IncidentsJustified
  BY Inductive, PTL DEF IInv

(* A returned signature is never disowned by a comparison.                 *)
THEOREM SignaturesStayKnown == Spec => []IssuedStaysKnown
  BY Inductive, PTL DEF IInv

(* A record match is reported only for what the record holds.              *)
THEOREM MatchesAreTrue == Spec => MatchMeansRecorded
<1>1. IInv /\ [Next]_vars =>
        [\A t \in Threads :
           pc[t] # "idle" /\ reply'[t] \in Verdict =>
             (reply'[t].reason = NoCode =>
                MatchesRecord(req[t]) /\ reply'[t].signature_valid)]_vars
  BY VerdictStep DEF IInv, Truthful
<1> QED  BY <1>1, Inductive, PTL DEF Spec, MatchMeansRecorded

(* The service implements the ledger of immutable records.                 *)
THEOREM RefinesLedger == Spec => ImplementsLedger
<1>1. Init => L!Init
  BY DEF Init, L!Init
<1>2. IInv /\ [Next]_vars => [L!Next]_(L!vars)
  BY LedgerStep DEF IInv
<1> QED  BY <1>1, <1>2, Inductive, PTL DEF Spec, ImplementsLedger, L!Spec
=============================================================================
