---------------------------- MODULE SigningLedger ----------------------------
(***************************************************************************)
(* What integrity signing promises its callers: the first signature of an  *)
(* object fixes its record, nothing changes or removes it afterwards, and  *)
(* what is issued for the object, then or later, is that record.           *)
(* IntegritySigning.tla shows that the service implements this.            *)
(***************************************************************************)
CONSTANTS Objects, Record, NoRecord

VARIABLES records,  \* object -> its record, NoRecord before it is signed
          issued    \* what callers were given: an object and its record

vars == <<records, issued>>

Init ==
    /\ records = [o \in Objects |-> NoRecord]
    /\ issued = {}

\* The record is fixed, whether or not its caller is told.
Fix(o, r) ==
    /\ records[o] = NoRecord
    /\ records' = [records EXCEPT ![o] = r]
    /\ issued' \in {issued, issued \cup {[object |-> o, record |-> r]}}

Issue(o) ==
    /\ records[o] # NoRecord
    /\ issued' = issued \cup {[object |-> o, record |-> records[o]]}
    /\ UNCHANGED records

Next == \E o \in Objects : Issue(o) \/ \E r \in Record : Fix(o, r)

Spec == Init /\ [][Next]_vars
=============================================================================
