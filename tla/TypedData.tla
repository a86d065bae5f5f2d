----------------------------- MODULE TypedData -----------------------------
(***************************************************************************)
(* The digest of EIP-712 typed data (blockchain/ethereum/eip712.go).       *)
(*                                                                         *)
(* Names of types are numbers, so that they have an order, and hold none   *)
(* of the marks of a type string; Primitive maps those isPrimitiveType     *)
(* accepts to what they are.  A field's type is such a name and the        *)
(* lengths of its array brackets, Dynamic for "[]".  The types of an       *)
(* envelope map each defined name to its fields.  The name of a field is   *)
(* the sequence of its tokens: it is never validated, and a mark in it     *)
(* reads like one of the type string.                                      *)
(*                                                                         *)
(* A JSON value is a record with its kind.  A string is what its readers   *)
(* make of it: the bytes that decodeHex returns and the integer, in the    *)
(* parts encodeInteger looks at; a number has no bytes.  keccak256 is      *)
(* taken to be injective: a hash is what was hashed.                       *)
(***************************************************************************)
EXTENDS Integers, SequencesExt

CONSTANTS
    Primitive,     \* name of a primitive type -> [kind, size, signed]
    DomainType,    \* the name EIP712Domain
    WordBits       \* 256

Invalid == [invalid |-> TRUE]
Dynamic == -1

Hash(content) == [hash |-> content]
Word(content) == [word |-> content]

\* The tokens of a type string.
Text(word) == [text |-> word]
Mark(char) == [mark |-> char]
TypeName(name) == [type |-> name]
Brackets(length) == [length |-> length]
-----------------------------------------------------------------------------
(* Types.                                                                  *)

\* The walk adds to what it has seen and to the dependencies, depth first;
\* ok becomes FALSE where the code returns an error.  A field whose base is
\* primitive always passes validateType, which strips the same brackets.
RECURSIVE walk(_, _, _)
walk(types, name, progress) ==
    LET Visit(at, field) ==
            LET base == field.type.base
            IN IF ~at.ok THEN at
               ELSE IF field.name = <<>> THEN [at EXCEPT !.ok = FALSE]
               ELSE IF base \in DOMAIN Primitive THEN at
               ELSE IF base \notin DOMAIN types THEN [at EXCEPT !.ok = FALSE]
               ELSE IF base \in at.seen THEN at
               ELSE walk(types, base, [at EXCEPT !.seen = @ \union {base},
                                                 !.dependencies = Append(@, base)])
    IN FoldLeft(Visit, progress, types[name])

typeDefinition(types, name) ==
    LET Written(field) ==
            <<TypeName(field.type.base)>>
              \o [i \in DOMAIN field.type.lengths |-> Brackets(field.type.lengths[i])]
              \o <<Mark(" ")>> \o field.name
        Separated(i, field) == IF i > 1 THEN <<Mark(",")>> \o Written(field) ELSE Written(field)
        fields == types[name]
    IN <<TypeName(name), Mark("(")>>
         \o FlattenSeq([i \in DOMAIN fields |-> Separated(i, fields[i])]) \o <<Mark(")")>>

\* The definitions, one after the other.
encodeType(types, primary) ==
    LET walked == walk(types, primary, [seen |-> {primary}, dependencies |-> <<>>, ok |-> TRUE])
        names == <<primary>> \o SortSeq(walked.dependencies, <)
    IN IF primary \notin DOMAIN types THEN Invalid
       ELSE IF ~walked.ok THEN Invalid
       ELSE [string |-> FlattenSeq([i \in DOMAIN names |-> typeDefinition(types, names[i])])]
-----------------------------------------------------------------------------
(* Values.                                                                 *)

\* value.integer is what is left of the text after one "-" and one "0x":
\* big.Int reads a sign there as well.
encodeInteger(value, bits, signed) ==
    LET text == value.integer
        n == IF text.negative THEN -text.rest ELSE text.rest
        limit == 2^(bits - 1)
    IN IF value.kind \notin {"number", "string"} THEN Invalid
       ELSE IF text = Invalid THEN Invalid
       ELSE IF text.negative /\ text.hex THEN Invalid
       ELSE IF signed
         THEN IF n < -limit \/ n > limit - 1 THEN Invalid
              ELSE Word(IF n < 0 THEN n + 2^WordBits ELSE n)
       ELSE IF n < 0 \/ n >= 2^bits THEN Invalid
       ELSE Word(n)

encodePrimitive(primitive, value) ==
    CASE primitive.kind = "string" ->
            IF value.kind = "string" THEN Hash(value.text) ELSE Invalid
      [] primitive.kind = "bytes" ->
            IF value.kind # "string" THEN Invalid
            ELSE IF value.bytes = Invalid THEN Invalid ELSE Hash(value.bytes.hex)
      [] primitive.kind = "bool" ->
            IF value.kind = "bool" THEN Word(IF value.true THEN 1 ELSE 0) ELSE Invalid
      [] primitive.kind \in {"address", "bytesN"} ->   \* padded left or right
            IF value.kind # "string" THEN Invalid
            ELSE IF value.bytes = Invalid THEN Invalid
            ELSE IF Len(value.bytes.hex) # primitive.size THEN Invalid
            ELSE Word(value.bytes.hex)
      [] primitive.kind = "integer" ->
            encodeInteger(value, primitive.size, primitive.signed)

RECURSIVE hashStruct(_, _, _), encodeTypedValue(_, _, _)
encodeTypedValue(types, type, value) ==
    IF type.lengths # <<>>
      THEN LET length == Last(type.lengths)
               words == [i \in DOMAIN value.items |->
                   encodeTypedValue(types, [type EXCEPT !.lengths = Front(@)], value.items[i])]
           IN IF value.kind # "array" THEN Invalid
              ELSE IF length # Dynamic /\ Len(value.items) # length THEN Invalid
              ELSE IF Invalid \in ToSet(words) THEN Invalid ELSE Hash(words)
    ELSE IF type.base \in DOMAIN types
      THEN IF value.kind # "object" THEN Invalid
           ELSE hashStruct(types, type.base, value.members)
    ELSE IF type.base \in DOMAIN Primitive THEN encodePrimitive(Primitive[type.base], value)
    ELSE Invalid

hashStruct(types, name, members) ==
    LET encodedType == encodeType(types, name)
        fields == types[name]
        words == [i \in DOMAIN fields |->
            IF fields[i].name \in DOMAIN members
              THEN encodeTypedValue(types, fields[i].type, members[fields[i].name])
              ELSE Invalid]
    IN IF encodedType = Invalid THEN Invalid
       ELSE IF Invalid \in ToSet(words) THEN Invalid
       ELSE Hash(<<Hash(encodedType)>> \o words)

\* An envelope whose four members are present.
typedDataDigest(data) ==
    IF ~({DomainType, data.primaryType} \subseteq DOMAIN data.types) THEN Invalid
    ELSE LET domainHash == hashStruct(data.types, DomainType, data.domain)
             messageHash == hashStruct(data.types, data.primaryType, data.message)
         IN IF Invalid \in {domainHash, messageHash} THEN Invalid
            ELSE Hash(<<domainHash, messageHash>>)
=============================================================================
