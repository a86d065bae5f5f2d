--------------------------- MODULE SigningDigests ---------------------------
(***************************************************************************)
(* What SHA-256 is given for a generic and for an integrity signature      *)
(* (genericDigest and integrityDigest in service/signing.go): a label, and *)
(* then each part with its length in front.  A byte string is a sequence   *)
(* of numbers, and so is a length; the labels differ before either ends,   *)
(* so that a number stands for each.                                       *)
(***************************************************************************)
EXTENDS Naturals, Sequences

CONSTANT Marshal(_)   \* canonicaljson.Marshal, which may reject its payload

Refused == [refused |-> TRUE]

Raw  == <<1>>         \* the names of the formats
Json == <<2>>

writeFramed(value) == <<Len(value)>> \o value

Labelled(label, first, second, third) ==
    <<label>> \o (writeFramed(first) \o (writeFramed(second) \o writeFramed(third)))

genericDigest(context, format, payload) ==
    IF context = <<>> \/ payload = <<>> THEN Refused
    ELSE IF format = Raw THEN [sha256 |-> Labelled(1, context, format, payload)]
    ELSE IF format = Json
      THEN IF Marshal(payload) = Refused THEN Refused
           ELSE [sha256 |-> Labelled(1, context, format, Marshal(payload).bytes)]
    ELSE Refused

integrityDigest(context, objectID, canonical) ==
    [sha256 |-> Labelled(2, context, objectID, canonical)]
=============================================================================
