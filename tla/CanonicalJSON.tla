--------------------------- MODULE CanonicalJSON ---------------------------
(***************************************************************************)
(* Canonical JSON and the selection of its protected fields                *)
(* (pkg/canonicaljson): what is signed and compared for an integrity       *)
(* record.                                                                 *)
(*                                                                         *)
(* A JSON text is the tree its tokens make, the members of an object in    *)
(* the order of the text and possibly with a key twice.  The canonical     *)
(* text of an object is determined by its members, as its keys are sorted: *)
(* it is a function here.  A number is its sign, its digits before and     *)
(* after the point, and its exponent; a pointer is its characters.         *)
(***************************************************************************)
EXTENDS Integers, SequencesExt

CONSTANTS
    MaxDigits,           \* 4096
    MaxExponentDigits    \* 6

Invalid   == [invalid |-> TRUE]
NotFound  == [notFound |-> TRUE]
Duplicate == [duplicate |-> TRUE]
-----------------------------------------------------------------------------
(* Numbers.                                                                *)

Zeros(n) == [i \in 1..n |-> 0]

\* The number without the zeros at its end, or at its start.
RECURSIVE TrimRight(_), TrimLeft(_)
TrimRight(digits) ==
    IF digits # <<>> /\ Last(digits) = 0 THEN TrimRight(Front(digits)) ELSE digits
TrimLeft(digits) ==
    IF digits # <<>> /\ Head(digits) = 0 THEN TrimLeft(Tail(digits)) ELSE digits

abs(n) == IF n < 0 THEN -n ELSE n

\* The exponent of a text that has one is a sign and digits.
parseExponent(text) ==
    LET n == FoldLeft(LAMBDA sum, digit : 10 * sum + digit, 0, text.digits)
    IN IF text.digits = <<>> \/ Len(text.digits) > MaxExponentDigits THEN Invalid
       ELSE [value |-> IF text.negative THEN -n ELSE n]

canonicalNumber(text) ==
    LET parsed == parseExponent(text.exponent)
        digits == TrimLeft(text.whole \o text.fraction)
        value == TrimRight(digits)
        exponent == parsed.value + Len(digits) - Len(value) - Len(text.fraction)
        point == Len(value) + exponent
        Result(negative, whole, fraction) ==
            [negative |-> negative, whole |-> whole, fraction |-> fraction]
    IN IF parsed = Invalid THEN Invalid
       ELSE IF value = <<>> THEN Result(FALSE, <<0>>, <<>>)
       ELSE IF Len(value) + abs(exponent) > MaxDigits THEN Invalid
       ELSE IF exponent >= 0
         THEN Result(text.negative, value \o Zeros(exponent), <<>>)
       ELSE IF point > 0
         THEN Result(text.negative, SubSeq(value, 1, point),
                                    SubSeq(value, point + 1, Len(value)))
       ELSE Result(text.negative, <<0>>, Zeros(-point) \o value)
-----------------------------------------------------------------------------
(* Values.  A leaf other than a number is its own canonical text.          *)

RECURSIVE decodeValue(_), encodeValue(_)
decodeValue(text) ==
    CASE text.kind = "object" ->
            LET keys == {text.members[i].key : i \in DOMAIN text.members}
                decoded == [key \in keys |->
                    decodeValue((CHOOSE m \in ToSet(text.members) : m.key = key).value)]
            IN IF Cardinality(keys) < Len(text.members) THEN Invalid
               ELSE IF \E key \in keys : decoded[key] = Invalid THEN Invalid
               ELSE [kind |-> "object", members |-> decoded]
      [] text.kind = "array" ->
            LET decoded == [i \in DOMAIN text.items |-> decodeValue(text.items[i])]
            IN IF Invalid \in ToSet(decoded) THEN Invalid
               ELSE [kind |-> "array", items |-> decoded]
      [] OTHER -> text

encodeValue(value) ==
    CASE value.kind = "object" ->
            LET encoded == [key \in DOMAIN value.members |-> encodeValue(value.members[key])]
            IN IF \E key \in DOMAIN encoded : encoded[key] = Invalid THEN Invalid
               ELSE [kind |-> "object", members |-> encoded]
      [] value.kind = "array" ->
            LET encoded == [i \in DOMAIN value.items |-> encodeValue(value.items[i])]
            IN IF Invalid \in ToSet(encoded) THEN Invalid
               ELSE [kind |-> "array", items |-> encoded]
      [] value.kind = "number" ->
            LET number == canonicalNumber(value.number)
            IN IF number = Invalid THEN Invalid ELSE [kind |-> "number", number |-> number]
      [] OTHER -> value

Marshal(text) ==
    LET value == decodeValue(text)
    IN IF value = Invalid THEN Invalid ELSE encodeValue(value)
-----------------------------------------------------------------------------
(* Pointers.                                                               *)

BadToken == <<"invalid">>

\* Without its escapes, or BadToken.
RECURSIVE unescapePointerToken(_)
unescapePointerToken(token) ==
    LET escaped == token # <<>> /\ Head(token) = "~"
        rest == unescapePointerToken(SubSeq(token, IF escaped THEN 3 ELSE 2, Len(token)))
    IN IF token = <<>> THEN <<>>
       ELSE IF escaped /\ (Len(token) = 1 \/ token[2] \notin {"0", "1"}) THEN BadToken
       ELSE IF rest = BadToken THEN BadToken
       ELSE <<IF ~escaped THEN Head(token) ELSE IF token[2] = "0" THEN "~" ELSE "/">> \o rest

Escaped(token) ==
    FlattenSeq([i \in DOMAIN token |->
        CASE token[i] = "~" -> <<"~", "0">> [] token[i] = "/" -> <<"~", "1">>
          [] OTHER -> <<token[i]>>])

\* The pieces of a text between its slashes.
Split(text) ==
    FoldLeft(LAMBDA parts, char :
                 IF char = "/" THEN Append(parts, <<>>)
                 ELSE [parts EXCEPT ![Len(parts)] = Append(@, char)],
             <<<<>>>>, text)

parsePointer(pointer) ==
    LET raw == Split(Tail(pointer))
        tokens == [i \in DOMAIN raw |-> unescapePointerToken(raw[i])]
    IN IF pointer = <<>> \/ Head(pointer) # "/" THEN Invalid
       ELSE IF BadToken \in ToSet(tokens) THEN Invalid
       ELSE [tokens |-> tokens,
             canonical |-> FlattenSeq([i \in DOMAIN tokens |-> <<"/">> \o Escaped(tokens[i])])]

Digit == [c \in {"0", "1", "2"} |-> CASE c = "0" -> 0 [] c = "1" -> 1 [] c = "2" -> 2]

\* strconv.Atoi: digits after at most one sign; -1 for any other text.
Atoi(token) ==
    LET signed == token # <<>> /\ Head(token) \in {"+", "-"}
        digits == IF signed THEN Tail(token) ELSE token
        n == FoldLeft(LAMBDA sum, c : 10 * sum + Digit[c], 0, digits)
    IN IF digits = <<>> \/ ~(ToSet(digits) \subseteq DOMAIN Digit) THEN -1
       ELSE IF signed /\ Head(token) = "-" THEN -n ELSE n

ArrayIndex(token) ==
    IF token \in {<<>>, <<"-">>} \/ (Len(token) > 1 /\ token[1] = "0") THEN -1 ELSE Atoi(token)

RECURSIVE resolvePointer(_, _)
resolvePointer(value, tokens) ==
    IF tokens = <<>> THEN value
    ELSE IF value.kind = "object" /\ Head(tokens) \in DOMAIN value.members
      THEN resolvePointer(value.members[Head(tokens)], Tail(tokens))
    ELSE IF value.kind = "array" /\ ArrayIndex(Head(tokens)) \in 0..(Len(value.items) - 1)
      THEN resolvePointer(value.items[ArrayIndex(Head(tokens)) + 1], Tail(tokens))
    ELSE NotFound

\* The loop of Select: the selected members, or the first error.
Selected(root, pointers) ==
    FoldLeft(LAMBDA selected, pointer :
        LET parsed == parsePointer(pointer)
            value == resolvePointer(root, parsed.tokens)
        IN IF selected \in {Invalid, Duplicate, NotFound} THEN selected
           ELSE IF parsed = Invalid THEN Invalid
           ELSE IF parsed.canonical \in DOMAIN selected.members THEN Duplicate
           ELSE IF value = NotFound THEN NotFound
           ELSE [selected EXCEPT !.members =
                    [path \in DOMAIN @ \union {parsed.canonical} |->
                        IF path = parsed.canonical THEN value ELSE @[path]]],
        [kind |-> "object", members |-> [path \in {} |-> NotFound]], pointers)

\* The normalized pointers it returns as well are the keys of its object.
Select(text, pointers) ==
    LET root == decodeValue(text)
        selected == Selected(root, pointers)
    IN IF pointers = <<>> \/ root = Invalid THEN Invalid
       ELSE IF selected \in {Invalid, Duplicate, NotFound} THEN selected
       ELSE encodeValue(selected)
=============================================================================
