-------------------------- MODULE IntegritySigning --------------------------
(***************************************************************************)
(* The signing service (internal/core/service/signing.go) over one         *)
(* database and one runtime store, which is the atomic vault.  Each        *)
(* request runs on a thread, one step per statement, store call and alert; *)
(* the vault is sealed and unsealed and the process restarts at any time.  *)
(*                                                                         *)
(* An object is a (context, object_id) pair.  A document is the selection  *)
(* of the payload's protected fields; its canonical form has the fields as *)
(* its keys, so equal forms have equal fields, and its digest stands for   *)
(* it.  Signing is deterministic (RFC 6979): a wallet has one signature of *)
(* an object's document, and a signature is what it signs.  The tables are *)
(* append-only, so nothing tampers with a record.                          *)
(* A definition named Op_Fault is Op with a plausible bug.                 *)
(***************************************************************************)
EXTENDS Naturals

CONSTANTS Threads, Roots, Users, Objects,
          Fields, Values,   \* the field selections, the values they select
          Forged,           \* 64 bytes that are nobody's signature
          NoRecord, NoRequest, NoCode,
          NoReply, Ok, Refused   \* answers without a verdict

Wallet == [root : Roots, user : Users]
Document == [fields : Fields, value : Values]
Signature == [wallet : Wallet, object : Objects, doc : Document]
Record == [wallet : Wallet, doc : Document, signature : Signature]

Request ==
    [op : {"generic"}, wallet : Wallet]
        \cup [op : {"sign"}, wallet : Wallet, object : Objects, doc : Document]
        \cup [op : {"verify"}, wallet : Wallet, object : Objects, doc : Document,
              signature : Signature \cup {Forged}]

ReuseCodes == {"SIGNING_RECORD_TAMPERED", "INTEGRITY_WALLET_MISMATCH",
               "INTEGRITY_SCHEMA_MISMATCH", "INTEGRITY_VALUE_MISMATCH"}
VerifyCodes == {"SIGNING_RECORD_NOT_FOUND", "SIGNING_RECORD_TAMPERED", "WALLET_MISMATCH",
                "INTEGRITY_SCHEMA_MISMATCH", "INTEGRITY_VALUE_MISMATCH", "DIGEST_MISMATCH",
                "SIGNATURE_MISMATCH", "STORED_SIGNATURE_INVALID"}

AuditEvents == {"security.integrity_violation", "security.alert_delivery_failed"}

\* The answer to a verification; NoCode when the record matches.  Of the
\* other answers, signatures are in the history of what was issued.
Verdict == [signature_valid : BOOLEAN, reason : VerifyCodes \cup {NoCode}]

ASSUME SigningAssumption ==
    /\ Forged \notin Signature
    /\ NoRecord \notin Record
    /\ NoRequest \notin Request
    /\ NoCode \notin ReuseCodes \cup VerifyCodes
    /\ {NoReply, Ok, Refused} \cap Verdict = {}

VARIABLES
    records,   \* durable: signing_records
    unsealed, cached,   \* the vault
    pc,        \* where each request stands
    req,       \* its input
    loaded,    \* the record it has read
    code,      \* the incident it has found
    trail,     \* the audit events appended for it
    reply,     \* what the last request returned
    issued,    \* history: the records whose signatures were returned
    known,     \* history: the signature it verifies had been returned to someone
    interrupted  \* history: the requests for which the vault has been sealed since
                 \* their IsUnsealed

vaultVars == <<unsealed, cached>>
localVars == <<req, loaded, code, trail, reply, known, interrupted>>
vars == <<records, vaultVars, pc, localVars, issued>>

V == INSTANCE Vault WITH MaxKeys <- 1, required <- 1, pending <- {}

Steps == {"idle", "check", "wallet", "get", "root", "seed", "open", "cache", "use",
          "seal", "create", "reget", "reuse", "match", "recheck",
          "audit", "alert", "undelivered", "answer"}

\* With it: no plaintext seed is in memory while the vault is sealed.
TypeOK ==
    /\ records \in [Objects -> Record \cup {NoRecord}]
    /\ unsealed \in BOOLEAN
    /\ cached \subseteq Roots /\ (unsealed \/ cached = {})
    /\ pc \in [Threads -> Steps]
    /\ req \in [Threads -> Request \cup {NoRequest}]
    /\ loaded \in [Threads -> Record \cup {NoRecord}]
    /\ code \in [Threads -> ReuseCodes \cup VerifyCodes \cup {NoCode}]
    /\ trail \in [Threads -> SUBSET AuditEvents]
    /\ reply \in [Threads -> Verdict \cup {NoReply, Ok, Refused}]
    /\ issued \subseteq [object : Objects, record : Record]
    /\ known \in [Threads -> BOOLEAN]
    /\ interrupted \subseteq Threads

Init ==
    /\ records = [o \in Objects |-> NoRecord]
    /\ unsealed = FALSE /\ cached = {}
    /\ pc = [t \in Threads |-> "idle"]
    /\ req = [t \in Threads |-> NoRequest]
    /\ loaded = [t \in Threads |-> NoRecord]
    /\ code = [t \in Threads |-> NoCode]
    /\ trail = [t \in Threads |-> {}]
    /\ reply = [t \in Threads |-> NoReply]
    /\ issued = {}
    /\ known = [t \in Threads |-> FALSE]
    /\ interrupted = {}
-----------------------------------------------------------------------------
(* Moving a request on, and ending it.                                     *)

Goto(t, step) == pc' = [pc EXCEPT ![t] = step]
Continue(t, step) == Goto(t, step) /\ UNCHANGED localVars

Return(t, answer) ==
    /\ Goto(t, "idle")
    /\ req' = [req EXCEPT ![t] = NoRequest]
    /\ loaded' = [loaded EXCEPT ![t] = NoRecord]
    /\ code' = [code EXCEPT ![t] = NoCode]
    /\ trail' = [trail EXCEPT ![t] = {}]
    /\ reply' = [reply EXCEPT ![t] = answer]
    /\ interrupted' = interrupted \ {t}
    /\ UNCHANGED known

\* Errors are not told apart: a sealed vault, a missing row, a statement
\* that fails, a conflict with the record.
Refuse(t) == Return(t, Refused)

Load(t, step) ==
    /\ loaded' = [loaded EXCEPT ![t] = records[req[t].object]]
    /\ Goto(t, step)
    /\ UNCHANGED <<req, code, trail, reply, known, interrupted>>

Incident(t, c) ==
    /\ code' = [code EXCEPT ![t] = c]
    /\ Goto(t, "audit")
    /\ UNCHANGED <<req, loaded, trail, reply, known, interrupted>>

Begin(t, q) ==
    /\ pc[t] = "idle"
    /\ Goto(t, "check")
    /\ req' = [req EXCEPT ![t] = q]
    /\ reply' = [reply EXCEPT ![t] = NoReply]
    /\ known' = [known EXCEPT ![t] =
                   /\ q.op = "verify"
                   /\ \E i \in issued :
                        /\ i.object = q.object
                        /\ i.record = [wallet |-> q.wallet, doc |-> q.doc,
                                       signature |-> q.signature]]
    /\ UNCHANGED <<records, vaultVars, loaded, code, trail, interrupted, issued>>
-----------------------------------------------------------------------------
(* What every request does first.                                          *)

\* IsUnsealed; what follows may find the vault sealed again.
CheckUnsealed(t) ==
    /\ pc[t] = "check"
    /\ IF unsealed THEN Continue(t, "wallet") ELSE Refuse(t)
    /\ UNCHANGED <<records, vaultVars, issued>>

\* The wallet's row may not exist, or not be read.
LoadWallet(t) ==
    /\ pc[t] = "wallet"
    /\ \/ Continue(t, IF req[t].op = "generic" THEN "root" ELSE "get")
       \/ Refuse(t)
    /\ UNCHANGED <<records, vaultVars, issued>>
-----------------------------------------------------------------------------
(* SignIntegrity, and the generic signing operations as far as "use".      *)

SignGet(t) ==
    /\ pc[t] = "get" /\ req[t].op = "sign"
    /\ \/ IF records[req[t].object] # NoRecord THEN Load(t, "reuse") ELSE Continue(t, "root")
       \/ Refuse(t)
    /\ UNCHANGED <<records, vaultVars, issued>>

LoadRoot(t) ==
    /\ pc[t] = "root"
    /\ Continue(t, "seed") \/ Refuse(t)
    /\ UNCHANGED <<records, vaultVars, issued>>

\* withKeyRootSeed: the cached seed, or else the row's is opened under the
\* vault key, cached, and looked up again.  Deriving the key may fail, and
\* the seed may be destroyed between its lookup and its use.
WithSeed(t, here, absent) ==
    /\ pc[t] = here
    /\ IF req[t].wallet.root \in cached
         THEN \/ IF req[t].op = "generic" THEN Return(t, Ok) ELSE Continue(t, "seal")
              \/ Refuse(t)
         ELSE IF unsealed /\ absent # "refuse" THEN Continue(t, absent) ELSE Refuse(t)
    /\ UNCHANGED <<records, vaultVars, issued>>

UseCachedSeed(t) == WithSeed(t, "seed", "open")
UseNewSeed(t) == WithSeed(t, "use", "refuse")

OpenSeed(t) ==
    /\ pc[t] = "open"
    /\ IF unsealed THEN Continue(t, "cache") ELSE Refuse(t)
    /\ UNCHANGED <<records, vaultVars, issued>>

CacheOpened_Unchecked(t) ==
    /\ pc[t] = "cache"
    /\ cached' = cached \cup {req[t].wallet.root}
    /\ Continue(t, "use")
    /\ UNCHANGED <<records, unsealed, issued>>

\* A seed another request has cached meanwhile serves as well.
CacheOpened(t) ==
    /\ pc[t] = "cache"
    /\ IF ~unsealed
         THEN Refuse(t) /\ UNCHANGED vaultVars
         ELSE /\ Continue(t, "use")
              /\ IF req[t].wallet.root \in cached
                   THEN UNCHANGED vaultVars
                   ELSE V!CacheSeed(req[t].wallet.root)
    /\ UNCHANGED <<records, issued>>

\* The signature is sealed into a record under the vault key.
SealRecord(t) ==
    /\ pc[t] = "seal"
    /\ IF unsealed THEN Continue(t, "create") ELSE Refuse(t)
    /\ UNCHANGED <<records, vaultVars, issued>>

Sign(q) == [wallet |-> q.wallet, object |-> q.object, doc |-> q.doc]

NewRecord(q) == [wallet |-> q.wallet, doc |-> q.doc, signature |-> Sign(q)]

\* A signature goes back to the caller.
IssueSignature(t, s) ==
    /\ Return(t, Ok)
    /\ issued' = issued \cup
         {[object |-> req[t].object,
           record |-> [wallet |-> req[t].wallet, doc |-> req[t].doc, signature |-> s]]}

CreateRecord_LoserKeepsOwn(t) ==
    /\ pc[t] = "create"
    /\ IF records[req[t].object] # NoRecord
         THEN IssueSignature(t, Sign(req[t])) /\ UNCHANGED records
         ELSE /\ records' = [records EXCEPT ![req[t].object] = NewRecord(req[t])]
              /\ IssueSignature(t, Sign(req[t]))
    /\ UNCHANGED vaultVars

CreateRecord_UpsertThenRead(t) ==
    /\ pc[t] = "create"
    /\ records' = [records EXCEPT ![req[t].object] = NewRecord(req[t])]
    /\ Continue(t, "reget")
    /\ UNCHANGED <<vaultVars, issued>>

\* The INSERT: refused by the unique index on the object, committed, or
\* failed, with or without effect.
CreateRecord(t) ==
    /\ pc[t] = "create"
    /\ \/ /\ records[req[t].object] # NoRecord
          /\ Continue(t, "reget")
          /\ UNCHANGED <<records, issued>>
       \/ /\ records[req[t].object] = NoRecord
          /\ records' = [records EXCEPT ![req[t].object] = NewRecord(req[t])]
          /\ IssueSignature(t, Sign(req[t])) \/ (Refuse(t) /\ UNCHANGED issued)
       \/ Refuse(t) /\ UNCHANGED <<records, issued>>
    /\ UNCHANGED vaultVars

\* The loser of a race reads what the winner committed.
ReGet(t) ==
    /\ pc[t] = "reget"
    /\ \/ IF records[req[t].object] # NoRecord THEN Load(t, "reuse") ELSE Refuse(t)
       \/ Refuse(t)
    /\ UNCHANGED <<records, vaultVars, issued>>

ReuseMismatch_SignatureFirst(q, r) ==
    IF r.signature # Sign(q) THEN "SIGNING_RECORD_TAMPERED"
    ELSE IF r.wallet # q.wallet THEN "INTEGRITY_WALLET_MISMATCH"
    ELSE IF r.doc.fields # q.doc.fields THEN "INTEGRITY_SCHEMA_MISMATCH"
    ELSE IF r.doc # q.doc THEN "INTEGRITY_VALUE_MISMATCH"
    ELSE NoCode

\* What sets the request apart from the stored record, first of all.
ReuseMismatch(q, r) ==
    IF r.wallet # q.wallet THEN "INTEGRITY_WALLET_MISMATCH"
    ELSE IF r.doc.fields # q.doc.fields THEN "INTEGRITY_SCHEMA_MISMATCH"
    ELSE IF r.doc # q.doc THEN "INTEGRITY_VALUE_MISMATCH"
    ELSE IF r.signature # Sign(q) THEN "SIGNING_RECORD_TAMPERED"
    ELSE NoCode

\* reuseIntegrityRecord: a record that cannot be opened counts as tampered
\* with, and a sealed vault opens none.
Reuse(t) ==
    /\ pc[t] = "reuse"
    /\ LET found == IF unsealed THEN ReuseMismatch(req[t], loaded[t])
                                ELSE "SIGNING_RECORD_TAMPERED"
       IN IF found = NoCode
            THEN IssueSignature(t, loaded[t].signature)
            ELSE Incident(t, found) /\ UNCHANGED issued
    /\ UNCHANGED <<records, vaultVars>>
-----------------------------------------------------------------------------
(* VerifyIntegrity                                                         *)

VerifyGet_ErrorIsNotFound(t) ==
    /\ pc[t] = "get" /\ req[t].op = "verify"
    /\ \/ records[req[t].object] # NoRecord /\ Load(t, "match")
       \/ Incident(t, "SIGNING_RECORD_NOT_FOUND")
    /\ UNCHANGED <<records, vaultVars, issued>>

VerifyGet(t) ==
    /\ pc[t] = "get" /\ req[t].op = "verify"
    /\ \/ IF records[req[t].object] # NoRecord
            THEN Load(t, "match")
            ELSE Incident(t, "SIGNING_RECORD_NOT_FOUND")
       \/ Refuse(t)
    /\ UNCHANGED <<records, vaultVars, issued>>

VerifyMismatch_ValueFirst(q, r) ==
    IF r.wallet # q.wallet THEN "WALLET_MISMATCH"
    ELSE IF r.doc # q.doc THEN "INTEGRITY_VALUE_MISMATCH"
    ELSE IF r.doc.fields # q.doc.fields THEN "INTEGRITY_SCHEMA_MISMATCH"
    ELSE IF r.signature # q.signature THEN "SIGNATURE_MISMATCH"
    ELSE NoCode

VerifyMismatch_AnySignature(q, r) ==
    IF r.wallet # q.wallet THEN "WALLET_MISMATCH"
    ELSE IF r.doc.fields # q.doc.fields THEN "INTEGRITY_SCHEMA_MISMATCH"
    ELSE IF r.doc # q.doc THEN "INTEGRITY_VALUE_MISMATCH"
    ELSE NoCode

VerifyMismatch(q, r) ==
    IF r.wallet # q.wallet THEN "WALLET_MISMATCH"
    ELSE IF r.doc.fields # q.doc.fields THEN "INTEGRITY_SCHEMA_MISMATCH"
    ELSE IF r.doc # q.doc THEN "INTEGRITY_VALUE_MISMATCH"
    ELSE IF r.signature.doc # q.doc THEN "DIGEST_MISMATCH"
    ELSE IF r.signature # q.signature THEN "SIGNATURE_MISMATCH"
    ELSE NoCode

\* The record is opened and compared, or counts as tampered with.
Match(t) ==
    /\ pc[t] = "match"
    /\ LET found == IF unsealed THEN VerifyMismatch(req[t], loaded[t])
                                ELSE "SIGNING_RECORD_TAMPERED"
       IN IF found = NoCode THEN Continue(t, "recheck") ELSE Incident(t, found)
    /\ UNCHANGED <<records, vaultVars, issued>>

SignatureValid(q) == q.signature = Sign(q)

\* The stored signature is verified with the stored wallet, whose row is
\* read again: a row that cannot be read counts as an invalid signature.
ReCheck(t) ==
    /\ pc[t] = "recheck"
    /\ \/ IF loaded[t].signature.wallet = loaded[t].wallet
            THEN Return(t, [signature_valid |-> SignatureValid(req[t]), reason |-> NoCode])
            ELSE Incident(t, "STORED_SIGNATURE_INVALID")
       \/ Incident(t, "STORED_SIGNATURE_INVALID")
    /\ UNCHANGED <<records, vaultVars, issued>>
-----------------------------------------------------------------------------
(* integrityIncident, and the answer after it.  The audit event is written *)
(* or lost, the alert is sent or the failure to send it is audited too.    *)

AnswerIncident(t) ==
    Return(t, IF req[t].op = "sign" THEN Refused
              ELSE [signature_valid |-> SignatureValid(req[t]), reason |-> code[t]])

AppendEvent(t, event, step) ==
    /\ trail' \in {trail, [trail EXCEPT ![t] = @ \cup {event}]}
    /\ Goto(t, step)
    /\ UNCHANGED <<req, loaded, code, reply, known, interrupted>>

AuditIncident(t) ==
    /\ pc[t] = "audit"
    /\ AppendEvent(t, "security.integrity_violation", "alert")
    /\ UNCHANGED <<records, vaultVars, issued>>

SendAlert(t) ==
    /\ pc[t] = "alert"
    /\ Continue(t, "answer") \/ Continue(t, "undelivered")
    /\ UNCHANGED <<records, vaultVars, issued>>

AuditUndelivered(t) ==
    /\ pc[t] = "undelivered"
    /\ AppendEvent(t, "security.alert_delivery_failed", "answer")
    /\ UNCHANGED <<records, vaultVars, issued>>

Answer(t) ==
    /\ pc[t] = "answer"
    /\ AnswerIncident(t)
    /\ UNCHANGED <<records, vaultVars, issued>>
-----------------------------------------------------------------------------
SealVault ==
    /\ V!Seal
    /\ interrupted' = interrupted \cup {t \in Threads : pc[t] \notin {"idle", "check"}}
    /\ UNCHANGED <<records, pc, req, loaded, code, trail, reply, known, issued>>

UnsealVault == V!Unseal(1) /\ UNCHANGED <<records, pc, localVars, issued>>

Crash ==
    /\ unsealed' = FALSE /\ cached' = {}
    /\ pc' = [t \in Threads |-> "idle"]
    /\ req' = [t \in Threads |-> NoRequest]
    /\ loaded' = [t \in Threads |-> NoRecord]
    /\ code' = [t \in Threads |-> NoCode]
    /\ trail' = [t \in Threads |-> {}]
    /\ reply' = [t \in Threads |-> NoReply]
    /\ known' = [t \in Threads |-> FALSE]
    /\ interrupted' = {}
    /\ UNCHANGED <<records, issued>>
-----------------------------------------------------------------------------
SignIntegrity(t) ==
    \/ SignGet(t) \/ LoadRoot(t) \/ UseCachedSeed(t) \/ OpenSeed(t) \/ CacheOpened(t)
    \/ UseNewSeed(t) \/ SealRecord(t) \/ CreateRecord(t) \/ ReGet(t) \/ Reuse(t)

VerifyIntegrity(t) == VerifyGet(t) \/ Match(t) \/ ReCheck(t)

ReportIncident(t) == AuditIncident(t) \/ SendAlert(t) \/ AuditUndelivered(t) \/ Answer(t)

Next ==
    \/ \E t \in Threads :
         \/ \E q \in Request : Begin(t, q)
         \/ CheckUnsealed(t) \/ LoadWallet(t)
         \/ SignIntegrity(t) \/ VerifyIntegrity(t) \/ ReportIncident(t)
    \/ SealVault \/ UnsealVault \/ Crash

Spec == Init /\ [][Next]_vars
-----------------------------------------------------------------------------
(* A signature is returned only with a durable record of it, which stays:  *)
(* the loser of a race, a retry after a lost acknowledgement and a request *)
(* after a restart all get the one signature of the object (205-269).      *)
IssuedIsRecorded == \A i \in issued : records[i.object] = i.record

(* A record match means just that: wallet, fields, values and signature    *)
(* presented are those of the immutable record, so the verdict is valid    *)
(* only for what was signed, whatever happens between its reads (271-355). *)
MatchesRecord(q) ==
    /\ records[q.object] # NoRecord
    /\ records[q.object] = [wallet |-> q.wallet, doc |-> q.doc, signature |-> q.signature]
MatchMeansRecorded ==
    [][\A t \in Threads :
         pc[t] # "idle" /\ reply'[t] \in Verdict =>
           (reply'[t].reason = NoCode => MatchesRecord(req[t]) /\ reply'[t].signature_valid)]_vars

(* The incident audited is true of the request and of the record there is, *)
(* and it is the first that applies, however late it is written (319-346,  *)
(* 371-390); a record is said to be tampered with only by a request that   *)
(* the vault was sealed under, after it had passed IsUnsealed, and never   *)
(* because of what other requests do to the object (310-316, 365-369).     *)
(* SIGNING_RECORD_NOT_FOUND and STORED_SIGNATURE_INVALID are left out.     *)
Differs(c, q, r) ==
    CASE c \in {"WALLET_MISMATCH", "INTEGRITY_WALLET_MISMATCH"} -> r.wallet # q.wallet
      [] c = "INTEGRITY_SCHEMA_MISMATCH" ->
           r.wallet = q.wallet /\ r.doc.fields # q.doc.fields
      [] c = "INTEGRITY_VALUE_MISMATCH" ->
           /\ r.wallet = q.wallet
           /\ r.doc.fields = q.doc.fields
           /\ r.doc.value # q.doc.value
      [] c = "SIGNATURE_MISMATCH" -> q.op = "verify" /\ r.doc = q.doc /\ r.signature # q.signature
      [] OTHER -> FALSE
Spurious == {"SIGNING_RECORD_TAMPERED", "STORED_SIGNATURE_INVALID"}
ComparisonsHold ==
    \A t \in Threads :
        code[t] \notin Spurious \cup {NoCode, "SIGNING_RECORD_NOT_FOUND"} =>
            /\ records[req[t].object] # NoRecord
            /\ Differs(code[t], req[t], records[req[t].object])
TamperedIfSealed ==
    \A t \in Threads : code[t] = "SIGNING_RECORD_TAMPERED" => t \in interrupted
IncidentsJustified == ComparisonsHold /\ TamperedIfSealed

(* A signature that was returned to anyone is never disowned: verified     *)
(* with the same input it is found and matches, unless the record could    *)
(* not be opened or the wallet not be read.                                *)
IssuedStaysKnown ==
    \A t \in Threads :
        known[t] =>
            /\ code[t] \in Spurious \cup {NoCode}
            /\ reply[t] \in Verdict => reply[t].signature_valid

L == INSTANCE SigningLedger

(* The service implements the ledger of one immutable record per object.   *)
ImplementsLedger == L!Spec

(* The record check answers whether the input matches the immutable record *)
(* (concepts/integrity-signing.md 146-150), so an issued signature passes. *)
IssuedVerifies ==
    \A t \in Threads :
        known[t] /\ reply[t] \in Verdict => reply[t].reason = NoCode
-----------------------------------------------------------------------------
(* The strengthening of the invariants above that a step preserves.        *)

Deriving == {"root", "seed", "open", "cache", "use"}
Signing == {"seal", "create", "reget", "reuse"}
Verifying == {"match", "recheck"}
Reporting == {"audit", "alert", "undelivered", "answer"}

\* What a request carries at each step.
LocalInv ==
    \A t \in Threads :
        /\ pc[t] # "idle" => req[t] \in Request /\ reply[t] = NoReply
        /\ pc[t] \in {"get"} \cup Signing \cup Verifying \cup Reporting => req[t].op # "generic"
        /\ pc[t] \in Deriving => req[t].op \in {"generic", "sign"}
        /\ pc[t] \in Signing => req[t].op = "sign"
        /\ pc[t] \in Verifying => req[t].op = "verify"
        /\ code[t] # NoCode <=> pc[t] \in Reporting
        /\ pc[t] \in Reporting /\ req[t].op = "verify" => code[t] \in VerifyCodes

\* What a request has read is still what there is.
LoadedInv ==
    \A t \in Threads :
        /\ pc[t] \in {"reuse"} \cup Verifying =>
             /\ loaded[t] = records[req[t].object]
             /\ loaded[t] # NoRecord
        /\ pc[t] = "recheck" => MatchesRecord(req[t])

\* A record holds its wallet's signature of its document.
RecordsInv ==
    \A o \in Objects : records[o] # NoRecord =>
        records[o].signature = [wallet |-> records[o].wallet, object |-> o, doc |-> records[o].doc]

KnownInv ==
    \A t \in Threads :
        known[t] /\ pc[t] # "idle" => req[t].op = "verify" /\ MatchesRecord(req[t])

\* Past IsUnsealed, the vault is unsealed or has been sealed in between.
UnsealedInv ==
    \A t \in Threads : pc[t] \notin {"idle", "check"} => unsealed \/ t \in interrupted

IInv ==
    /\ TypeOK
    /\ LocalInv
    /\ LoadedInv
    /\ RecordsInv
    /\ IssuedIsRecorded
    /\ KnownInv
    /\ UnsealedInv
    /\ IncidentsJustified
    /\ IssuedStaysKnown
=============================================================================
