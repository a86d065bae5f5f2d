-------------------------- MODULE MCCanonicalJSON --------------------------
(***************************************************************************)
(* Canonical numbers, texts, pointers and selections on small texts, with  *)
(* at most 6 digits in a number and 2 in an exponent.                      *)
(***************************************************************************)
EXTENDS Integers, SequencesExt, FiniteSets, TLC

JSON == INSTANCE CanonicalJSON WITH MaxDigits <- 6, MaxExponentDigits <- 2

NoExponent == [negative |-> FALSE, digits |-> <<0>>]
NumberForms ==
    [negative : BOOLEAN, whole : {<<0>>, <<1>>, <<1, 0>>, <<2>>},
     fraction : {<<>>, <<0>>, <<5>>, <<5, 0>>, <<0, 5>>},
     exponent : [negative : BOOLEAN,
                 digits : {<<0>>, <<1>>, <<3>>, <<0, 3>>, <<0, 0, 1>>}]]

\* What a number is, a hundred thousandfold.
Scaled(form) ==
    LET NaturalOf(digits) == FoldLeft(LAMBDA sum, digit : 10 * sum + digit, 0, digits)
        sign == IF form.negative THEN -1 ELSE 1
        exponent == NaturalOf(form.exponent.digits) * (IF form.exponent.negative THEN -1 ELSE 1)
    IN sign * NaturalOf(form.whole \o form.fraction) * 10^(exponent - Len(form.fraction) + 5)

(* Two numbers have the same canonical text exactly if they are equal, and *)
(* the canonical text is its own (canonicaljson.go 146-235).               *)
ASSUME NumbersAreCanonical ==
    LET accepted == {f \in NumberForms : JSON!canonicalNumber(f) # JSON!Invalid}
        pairs == {<<JSON!canonicalNumber(f), Scaled(f)>> : f \in accepted}
        Form(r) == [negative |-> r.negative, whole |-> r.whole, fraction |-> r.fraction,
                    exponent |-> NoExponent]
    IN /\ Cardinality({pair[1] : pair \in pairs}) = Cardinality(pairs)
       /\ Cardinality({pair[2] : pair \in pairs}) = Cardinality(pairs)
       /\ \A pair \in pairs : JSON!canonicalNumber(Form(pair[1])) = pair[1]
-----------------------------------------------------------------------------
Null == [kind |-> "null"]
One(fraction) ==
    [kind |-> "number", number |-> [negative |-> FALSE, whole |-> <<1>>, fraction |-> fraction,
                                    exponent |-> NoExponent]]
LeafTexts == {One(<<>>), One(<<0>>), Null, [kind |-> "string", text |-> "a"]}
Member(key, value) == [key |-> key, value |-> value]
ObjectText(members) == [kind |-> "object", members |-> members]
ArrayText(items) == [kind |-> "array", items |-> items]

\* Arrays and objects of up to two of these values.
Containers(values) ==
    LET keyed == {Member(key, v) : key \in {"a", "b"}, v \in values}
        UpToTwo(set) == {<<>>} \union {<<x>> : x \in set} \union (set \X set)
    IN {ArrayText(s) : s \in UpToTwo(values)} \union {ObjectText(s) : s \in UpToTwo(keyed)}

Texts ==
    LeafTexts \union Containers(LeafTexts)
      \union Containers({ObjectText(<<Member("a", Null), Member("b", One(<<0>>))>>),
                         ObjectText(<<Member("b", One(<<>>)), Member("a", Null)>>),
                         ObjectText(<<Member("a", Null), Member("a", Null)>>)})

RECURSIVE SameValue(_, _)
SameValue(t, u) ==
    /\ t.kind = u.kind
    /\ CASE t.kind = "object" ->
               /\ Len(t.members) = Len(u.members)
               /\ \A m \in ToSet(t.members) : \E n \in ToSet(u.members) :
                    m.key = n.key /\ SameValue(m.value, n.value)
         [] t.kind = "array" ->
               /\ Len(t.items) = Len(u.items)
               /\ \A i \in DOMAIN t.items : SameValue(t.items[i], u.items[i])
         [] t.kind = "number" -> Scaled(t.number) = Scaled(u.number)
         [] OTHER -> t = u

Within(t) ==
    CASE t.kind = "object" -> {m.value : m \in ToSet(t.members)}
      [] t.kind = "array" -> ToSet(t.items)
      [] OTHER -> {}
HasKeyTwice(t) ==
    t.kind = "object" /\ Len(t.members) = 2 /\ t.members[1].key = t.members[2].key

(* Two texts have the same canonical text exactly if they say the same     *)
(* value, whatever the order of their members and the form of their        *)
(* numbers; an object with a key twice is refused, wherever it stands      *)
(* (canonicaljson.go 15-144).                                              *)
ASSUME TextsAreCanonical ==
    LET accepted == {t \in Texts : JSON!Marshal(t) # JSON!Invalid}
    IN /\ accepted = {t \in Texts : \A u \in {t} \union Within(t) : ~HasKeyTwice(u)}
       /\ \A t, u \in accepted : JSON!Marshal(t) = JSON!Marshal(u) <=> SameValue(t, u)
-----------------------------------------------------------------------------
Pointers == UNION {[1..n -> {"/", "~", "0", "1", "a"}] : n \in 1..5}

(* A pointer that is accepted is its own normal form, so that the check    *)
(* for duplicates compares the pointers themselves, and no two of them     *)
(* name the same tokens (pointer.go 70-110).                               *)
ASSUME PointersAreNormal ==
    LET parsed == [p \in Pointers |-> JSON!parsePointer(p)]
        accepted == {p \in Pointers : parsed[p] # JSON!Invalid}
    IN /\ \A p \in accepted : parsed[p].canonical = p
       /\ Cardinality({parsed[p].tokens : p \in accepted}) = Cardinality(accepted)

(* An index of an array is written in one way, as RFC 6901 asks, but for a *)
(* sign in front that strconv.Atoi reads as well: "+1", "+01" and "-0" are *)
(* accepted (pointer.go 122-131).                                          *)
ASSUME IndicesMayHaveASign ==
    LET decimal == {"0", "1", "2"}
        Plain(token) == ToSet(token) \subseteq decimal /\ (token = <<"0">> \/ Head(token) # "0")
    IN \A n \in 1..3 : \A token \in [1..n -> decimal \union {"+", "-"}] :
         JSON!ArrayIndex(token) >= 0 <=>
           \/ Plain(token)
           \/ Head(token) = "+" /\ n > 1 /\ ToSet(Tail(token)) \subseteq decimal
           \/ Head(token) = "-" /\ n > 1 /\ ToSet(Tail(token)) = {"0"}

(* Select returns the canonical value under each pointer, in whatever      *)
(* order they are given, and nothing else; if one is missing or given      *)
(* twice it returns none (pointer.go 24-68).                               *)
ASSUME SelectsThePointers ==
    LET a == <<"/", "a">>
        pointers == {a, a \o <<"/", "0">>, a \o <<"/", "1">>, a \o <<"/", "0", "/", "a">>,
                     <<"/", "~", "0">>, <<"a">>}
        inner == ObjectText(<<Member(<<"a">>, One(<<0>>))>>)
        errors == {JSON!Invalid, JSON!NotFound, JSON!Duplicate}
    IN \A items \in {<<>>, <<inner>>, <<One(<<>>), inner>>}, leaf \in LeafTexts :
         LET text == ObjectText(<<Member(<<"~">>, leaf), Member(<<"a">>, ArrayText(items))>>)
             alone == [p \in pointers |-> JSON!Select(text, <<p>>)]
             Resolved(p) == JSON!resolvePointer(JSON!Marshal(text), JSON!parsePointer(p).tokens)
         IN /\ \A p \in pointers : alone[p] \notin errors =>
                 alone[p].members = (p :> Resolved(p))
            /\ \A p, q \in pointers :
                 LET both == JSON!Select(text, <<p, q>>)
                 IN /\ both \in errors <=> p = q \/ {alone[p], alone[q]} \cap errors # {}
                    /\ both \notin errors => both.members = alone[p].members @@ alone[q].members
=============================================================================
