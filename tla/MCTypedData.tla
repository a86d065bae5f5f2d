---------------------------- MODULE MCTypedData ----------------------------
(***************************************************************************)
(* The digests of TypedData on every graph of up to three structures, and  *)
(* on words of five bits.  Types 1 to 7 are primitive, 10 is the domain,   *)
(* 11 to 13 are structures, and 14 is never defined.                       *)
(***************************************************************************)
EXTENDS Integers, Sequences, FiniteSets, TLC

Kind(kind, size, signed) == [kind |-> kind, size |-> size, signed |-> signed]
PrimitiveTypes ==
    << Kind("string", 0, FALSE), Kind("bytes", 0, FALSE), Kind("bool", 0, FALSE),
       Kind("address", 2, FALSE), Kind("bytesN", 1, FALSE),
       Kind("integer", 3, FALSE), Kind("integer", 3, TRUE) >>
EIP712 == INSTANCE TypedData WITH Primitive <- PrimitiveTypes, DomainType <- 10, WordBits <- 5

Named(word) == IF word = "" THEN <<>> ELSE <<EIP712!Text(word)>>
ArrayField(word, base, lengths) ==
    [name |-> Named(word), type |-> [base |-> base, lengths |-> lengths]]
Field(name, base) == ArrayField(name, base, <<>>)

\* How one or two plain fields are written, and what they are joined to.
Spelled(field) == <<EIP712!TypeName(field.type.base), EIP712!Mark(" ")>> \o field.name
Definition(name, fields) ==
    <<EIP712!TypeName(name), EIP712!Mark("(")>>
      \o (CASE Len(fields) = 0 -> <<>>
             [] Len(fields) = 1 -> Spelled(fields[1])
             [] Len(fields) = 2 -> Spelled(fields[1]) \o <<EIP712!Mark(",")>> \o Spelled(fields[2]))
      \o <<EIP712!Mark(")")>>
Joined(parts) ==
    CASE Len(parts) = 1 -> parts[1]
      [] Len(parts) = 2 -> parts[1] \o parts[2]
      [] Len(parts) = 3 -> parts[1] \o parts[2] \o parts[3]

Number(n) ==
    [kind |-> "number", bytes |-> EIP712!Invalid,
     integer |-> [negative |-> n < 0, hex |-> FALSE, rest |-> IF n < 0 THEN -n ELSE n]]

FieldsOf(types, name) == {types[name][i] : i \in DOMAIN types[name]}

(* A type is written with the structures that its fields reach and no      *)
(* other, each once, itself first and the others in order; it is refused   *)
(* if one of them is not defined or has a field without a name, cycles or  *)
(* not (eip712.go 88-137).                                                 *)
ASSUME TypeHasItsDependencies ==
    LET fields == {Field("a", base) : base \in {1, 11, 12, 13, 14}} \union {Field("", 1)}
        upToOne == {<<>>} \union {<<f>> : f \in fields}
        upToTwo == upToOne \union (fields \X fields)
        names == {11, 12, 13}
    IN \A first, second \in upToTwo, third \in upToOne :
         LET types == (11 :> first) @@ (12 :> second) @@ (13 :> third)
             Further(reached) == reached \union
                 {f.type.base : f \in UNION {FieldsOf(types, n) : n \in reached \intersect names}}
             reached == Further(Further(Further({11}))) \ DOMAIN PrimitiveTypes
             refused == 14 \in reached
                        \/ \E n \in reached : Field("", 1) \in FieldsOf(types, n)
             order == SelectSeq(<<11, 12, 13>>, LAMBDA n : n \in reached)
         IN EIP712!encodeType(types, 11) =
                IF refused THEN EIP712!Invalid
                ELSE [string |-> Joined([i \in DOMAIN order |-> Definition(order[i], types[order[i]])])]

(* A type string tells types apart only if the names of their fields hold  *)
(* no mark: nothing validates a name, and a field named "a,uint b" reads   *)
(* as two fields.  The hashes of these structures differ all the same, one *)
(* being of one word and the other of two (eip712.go 65-86 and 139-153).   *)
ASSUME NamesAreNotValidated ==
    LET two == (11 :> <<Field("a", 6), Field("b", 6)>>)
        name == <<EIP712!Text("a"), EIP712!Mark(","), EIP712!TypeName(6), EIP712!Mark(" "),
                  EIP712!Text("b")>>
        one == (11 :> <<[Field("a", 6) EXCEPT !.name = name]>>)
        struct(types) == EIP712!hashStruct(types, 11,
            (Named("a") :> Number(1)) @@ (Named("b") :> Number(1)) @@ (name :> Number(1)))
    IN /\ two # one
       /\ EIP712!encodeType(two, 11) = EIP712!encodeType(one, 11)
       /\ EIP712!encodeType(two, 11) # EIP712!Invalid
       /\ EIP712!Invalid \notin {struct(two), struct(one)}
       /\ struct(two) # struct(one)

(* An integer becomes its two's complement in a word, if the type has it   *)
(* (eip712.go 243-308).  A text may have a second sign, after the "-" or   *)
(* the "0x": "--2" is 2, and "0x-2" is -2.                                 *)
ASSUME IntegersAreWords ==
    \A bits \in 1..4, signed, negative, hex \in BOOLEAN, rest \in -18..18 :
        LET text == [negative |-> negative, hex |-> hex, rest |-> rest]
            word == EIP712!encodeInteger([kind |-> "string", integer |-> text], bits, signed)
            n == IF negative THEN -rest ELSE rest
            half == 2^(bits - 1)
            values == IF signed THEN -half..(half - 1) ELSE 0..(2 * half - 1)
        IN IF n \notin values \/ (negative /\ hex)
             THEN word = EIP712!Invalid
             ELSE \E w \in 0..31 : word = EIP712!Word(w) /\ (w - n) % 32 = 0

String(text, bytes) ==
    [kind |-> "string", text |-> text, bytes |-> bytes, integer |-> EIP712!Invalid]
HexString(bytes) == String(0, [hex |-> bytes])
Items(items) == [kind |-> "array", items |-> items]

\* A mail to a person, amounts in rows of two of any length, and a flag
\* whose name makes the types differ.
MailTypes(flag) ==
    (10 :> <<Field("name", 1)>>)
      @@ (11 :> <<Field("to", 12), ArrayField("amounts", 6, <<EIP712!Dynamic, 2>>), Field(flag, 7)>>)
      @@ (12 :> <<Field("wallet", 4), Field("tag", 5), Field("note", 2)>>)

Rows == {Items(<<>>), Items(<<Number(1)>>), Items(<<Number(1), Number(0)>>), Items(<<Number(8)>>)}
Amounts == {Items(<<a, b>>) : a, b \in Rows} \union {Items(<<Items(<<>>)>>), Number(1)}
People ==
    {[kind |-> "object",
      members |-> (Named("wallet") :> HexString(w)) @@ (Named("tag") :> t)
                    @@ (Named("note") :> HexString(<<>>))] :
        w \in {<<0, 1>>, <<1, 0>>, <<1>>},
        t \in {HexString(<<0>>), HexString(<<1>>), String(0, EIP712!Invalid)}}
Envelopes(flag) ==
    [types : {MailTypes(flag)}, primaryType : {11},
     domain : {(Named("name") :> String(text, EIP712!Invalid)) : text \in {1, 2}},
     message : {(Named("to") :> p) @@ (Named("amounts") :> a) @@ (Named(flag) :> Number(f)) :
                   p \in People, a \in Amounts, f \in {-1, 0, 4}}]

(* With plain names of fields, two envelopes have the same digest only if  *)
(* they have the same types, domain and message in all that the types      *)
(* declare; members no type declares leave the digest as it is             *)
(* (eip712.go 27-86 and 155-241).                                          *)
ASSUME DigestsDiffer ==
    LET envelopes == Envelopes("paid") \union Envelopes("sent")
        digests == [e \in envelopes |-> EIP712!typedDataDigest(e)]
        accepted == {e \in envelopes : digests[e] # EIP712!Invalid}
        Extended(e) == [e EXCEPT !.message = @ @@ (Named("extra") :> Number(1))]
    IN /\ Cardinality(accepted) = 2 * 2 * (2 * 2) * (3 * 3) * 2
       /\ Cardinality({digests[e] : e \in accepted}) = Cardinality(accepted)
       /\ \A e \in accepted : EIP712!typedDataDigest(Extended(e)) = digests[e]
=============================================================================
