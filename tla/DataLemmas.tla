----------------------------- MODULE DataLemmas -----------------------------
(***************************************************************************)
(* Lemmas about data that the proofs share.  Induction over numbers, as    *)
(* lemmas about sets and functions: a set of numbers has a least element,  *)
(* what holds of 0 and of each successor holds up to n, and a recursion on *)
(* 0..n defines a function.  A property is the set of the numbers that     *)
(* have it, and the step of a recursion is a function.  Then where the     *)
(* elements of a concatenation are, and what equal concatenations have in  *)
(* common.                                                                 *)
(***************************************************************************)
EXTENDS Integers, SequenceTheorems, WellFoundedInduction, TLAPS

(* A set of numbers that is not empty has a least element.                 *)
LEMMA LeastNumber ==
    ASSUME NEW T \in SUBSET Nat, T # {}
    PROVE  \E m \in T : \A k \in T : m <= k
<1> DEFINE R == OpToRel(<, Nat)
<1>1. IsWellFoundedOn(R, Nat)
  BY NatLessThanWellFounded
<1>2. \A x, y \in Nat : x < y => <<x, y>> \in R
  BY DEF OpToRel
<1> HIDE DEF R
<1>3. PICK m \in T : \A y \in T : ~ (<<y, m>> \in R)
  BY <1>1, WFMin
<1>4. ASSUME NEW k \in T
      PROVE  m <= k
  <2>1. m \in Nat /\ k \in Nat /\ ~ (k < m)
    BY <1>2, <1>3
  <2> QED BY <2>1
<1> QED BY <1>4

(* What holds of 0, and of i + 1 whenever it holds of i, holds up to n.    *)
LEMMA UpTo ==
    ASSUME NEW n \in Nat, NEW T,
           0 \in T,
           \A i \in 0..(n - 1) : i \in T => i + 1 \in T
    PROVE  \A i \in 0..n : i \in T
<1> DEFINE Missing == {i \in 0..n : i \notin T}
<1> SUFFICES ASSUME Missing # {}
             PROVE  FALSE
  OBVIOUS
<1>1. Missing \in SUBSET Nat
  OBVIOUS
<1>2. PICK m \in Missing : \A k \in Missing : m <= k
  <2> HIDE DEF Missing
  <2> QED BY <1>1, LeastNumber
<1>3. m \in 0..n /\ m \notin T /\ m # 0
  OBVIOUS
<1>4. m - 1 \in 0..(n - 1) /\ m - 1 \notin Missing
  BY <1>2, <1>3
<1>5. m - 1 \in T
  BY <1>3, <1>4
<1>6. (m - 1) + 1 \in T
  BY <1>4, <1>5
<1> QED BY <1>3, <1>6

\* f starts with a value, and a step leads from each value to the next.
Iterates(f, n, first, step) ==
    f[0] = first /\ \A i \in 1..n : f[i] = step[<<i, f[i - 1]>>]

(* A recursion on 0..n defines a function.                                 *)
LEMMA Recursion ==
    ASSUME NEW n \in Nat, NEW S, NEW first \in S, NEW step \in [(1..n) \X S -> S]
    PROVE  \E f \in [0..n -> S] : Iterates(f, n, first, step)
<1> DEFINE Defines(g, m) ==
             /\ g \in [0..m -> S]
             /\ g[0] = first
             /\ \A i \in 1..m : g[i] = step[<<i, g[i - 1]>>]
           Defined(m) == \E g : Defines(g, m)
           T == {m \in 0..n : Defined(m)}
<1>1. Defined(0)
  <2>1. Defines([i \in 0..0 |-> first], 0)
    OBVIOUS
  <2> HIDE DEF Defines
  <2> QED BY <2>1
<1>2. ASSUME NEW m \in 0..(n - 1), Defined(m)
      PROVE  Defined(m + 1)
  <2>1. PICK g : Defines(g, m)
    BY <1>2
  <2> DEFINE h == [i \in 0..(m + 1) |-> IF i <= m THEN g[i] ELSE step[<<m + 1, g[m]>>]]
  <2>2. step[<<m + 1, g[m]>>] \in S
    <3>1. g[m] \in S /\ m + 1 \in 1..n
      BY <2>1
    <3> QED BY <3>1
  <2>3. h \in [0..(m + 1) -> S]
    <3>1. \A i \in 0..(m + 1) : i <= m => g[i] \in S
      BY <2>1
    <3> QED BY <2>2, <3>1
  <2>4. h[0] = first
    BY <2>1
  <2>5. ASSUME NEW i \in 1..(m + 1)
        PROVE  h[i] = step[<<i, h[i - 1]>>]
    <3>1. h[i - 1] = g[i - 1]
      OBVIOUS
    <3>2. CASE i <= m
      BY <2>1, <3>1, <3>2
    <3>3. CASE i = m + 1
      <4>1. h[m + 1] = step[<<m + 1, g[m]>>] /\ (m + 1) - 1 = m /\ h[m] = g[m]
        OBVIOUS
      <4> HIDE DEF h
      <4> QED BY <3>3, <4>1
    <3> QED BY <3>2, <3>3
  <2>6. Defines(h, m + 1)
    BY <2>3, <2>4, <2>5
  <2> HIDE DEF Defines
  <2> QED BY <2>6
<1>3. Defined(n)
  <2> HIDE DEF Defined
  <2>1. 0 \in T /\ \A i \in 0..(n - 1) : i \in T => i + 1 \in T
    BY <1>1, <1>2
  <2> HIDE DEF T
  <2>2. n \in T
    BY <2>1, UpTo
  <2> QED BY <2>2 DEF T
<1> QED BY <1>3 DEF Iterates
-----------------------------------------------------------------------------
(* Where the elements of a concatenation are.                              *)
LEMMA Places ==
    ASSUME NEW S, NEW s \in Seq(S), NEW t \in Seq(S)
    PROVE  /\ s \o t \in Seq(S)
           /\ Len(s) \in Nat /\ Len(t) \in Nat
           /\ Len(s \o t) = Len(s) + Len(t)
           /\ \A i \in 1..Len(s) : (s \o t)[i] = s[i]
           /\ \A i \in 1..Len(t) : (s \o t)[Len(s) + i] = t[i]
<1>1. Len(s) \in Nat /\ Len(t) \in Nat
  OBVIOUS
<1>2. s \o t \in Seq(S) /\ Len(s \o t) = Len(s) + Len(t)
  BY ConcatProperties
<1>3. ASSUME NEW i \in 1..Len(s)
      PROVE  (s \o t)[i] = s[i]
  <2>1. i \in 1..(Len(s) + Len(t)) /\ i <= Len(s)
    BY <1>1
  <2> QED BY <2>1, ConcatProperties
<1>4. ASSUME NEW i \in 1..Len(t)
      PROVE  (s \o t)[Len(s) + i] = t[i]
  <2>1. /\ Len(s) + i \in 1..(Len(s) + Len(t))
        /\ ~(Len(s) + i <= Len(s)) /\ (Len(s) + i) - Len(s) = i
    BY <1>1
  <2>2. (s \o t)[Len(s) + i] = t[(Len(s) + i) - Len(s)]
    BY <2>1, ConcatProperties
  <2> QED BY <2>1, <2>2
<1> QED BY <1>1, <1>2, <1>3, <1>4

(* If two sequences begin with parts of one length, these are equal and so *)
(* is what follows them.                                                   *)
LEMMA Cancel ==
    ASSUME NEW S, NEW s \in Seq(S), NEW t \in Seq(S), NEW x \in Seq(S), NEW y \in Seq(S),
           s \o x = t \o y, Len(s) = Len(t)
    PROVE  s = t /\ x = y
<1>1. Len(x) = Len(y)
  BY Places
<1>2. \A i \in 1..Len(s) : s[i] = t[i]
  BY Places
<1>3. \A i \in 1..Len(x) : x[i] = y[i]
  <2> SUFFICES ASSUME NEW i \in 1..Len(x)
               PROVE  x[i] = y[i]
    OBVIOUS
  <2>1. \A j \in 1..Len(x) : (s \o x)[Len(s) + j] = x[j]
    BY ONLY Places, s \in Seq(S), x \in Seq(S)
  <2>2. \A j \in 1..Len(y) : (t \o y)[Len(t) + j] = y[j]
    BY ONLY Places, t \in Seq(S), y \in Seq(S)
  <2> QED BY <1>1, <2>1, <2>2
<1> QED BY <1>1, <1>2, <1>3, SeqEqual

(* A sequence that begins with one number.                                 *)
LEMMA Headed ==
    \A k, l, s, t : /\ k \in Nat /\ l \in Nat /\ s \in Seq(Nat) /\ t \in Seq(Nat)
                    /\ <<k>> \o s = <<l>> \o t
                    => k = l /\ s = t
<1> SUFFICES ASSUME NEW k \in Nat, NEW l \in Nat, NEW s \in Seq(Nat), NEW t \in Seq(Nat),
                    <<k>> \o s = <<l>> \o t
             PROVE  k = l /\ s = t
  OBVIOUS
<1>1. <<k>> \in Seq(Nat) /\ <<l>> \in Seq(Nat) /\ Len(<<k>>) = Len(<<l>>)
  OBVIOUS
<1>2. <<k>> = <<l>> /\ s = t
  BY <1>1, Cancel
<1> QED BY <1>2

\* Each value is made from the value of a smaller number.
Descends(f, prev, first, step) ==
    f[0] = first /\ \A n \in Nat \ {0} : f[n] = step[<<n, f[prev[n]]>>]

(* A recursion that goes from a number to a smaller one defines a function *)
(* on all numbers.                                                         *)
LEMMA RecursionBelow ==
    ASSUME NEW S, NEW first \in S, NEW prev \in [Nat -> Nat], NEW step \in [Nat \X S -> S],
           \A n \in Nat \ {0} : prev[n] < n
    PROVE  \E f \in [Nat -> S] : Descends(f, prev, first, step)
<1> DEFINE Defines(g, m) ==
             /\ g \in [0..m -> S]
             /\ g[0] = first
             /\ \A n \in 1..m : g[n] = step[<<n, g[prev[n]]>>]
           Defined(m) == \E g : Defines(g, m)
<1>1. \A n \in Nat : prev[n] \in Nat /\ (n # 0 => prev[n] < n)
  OBVIOUS
<1>2. Defined(0)
  <2>1. Defines([i \in 0..0 |-> first], 0)
    OBVIOUS
  <2> HIDE DEF Defines
  <2> QED BY <2>1
<1>3. ASSUME NEW m \in Nat, Defined(m)
      PROVE  Defined(m + 1)
  <2>1. PICK g : Defines(g, m)
    BY <1>3
  <2> DEFINE last == step[<<m + 1, g[prev[m + 1]]>>]
             h == [i \in 0..(m + 1) |-> IF i <= m THEN g[i] ELSE last]
  <2>2. last \in S
    <3>1. prev[m + 1] \in 0..m
      <4>1. m + 1 \in Nat /\ m + 1 # 0
        OBVIOUS
      <4>2. prev[m + 1] \in Nat /\ prev[m + 1] < m + 1
        BY ONLY <1>1, <4>1
      <4> QED BY <4>2
    <3>2. g[prev[m + 1]] \in S
      BY <2>1, <3>1
    <3> QED BY <3>2
  <2>3. /\ h \in [0..(m + 1) -> S]
        /\ \A i \in 0..m : h[i] = g[i]
        /\ h[m + 1] = last /\ h[0] = first
    <3> HIDE DEF last
    <3>1. \A i \in 0..(m + 1) : i <= m => g[i] \in S
      BY <2>1
    <3> QED BY <2>1, <2>2, <3>1
  <2>4. ASSUME NEW n \in 1..(m + 1)
        PROVE  h[n] = step[<<n, h[prev[n]]>>]
    <3>1. n \in Nat /\ n # 0
      OBVIOUS
    <3>2. prev[n] \in 0..m /\ prev[n] <= n - 1
      <4>1. prev[n] \in Nat /\ prev[n] < n
        BY ONLY <1>1, <3>1
      <4> QED BY <4>1
    <3>3. h[prev[n]] = g[prev[n]]
      BY <2>3, <3>2
    <3>4. CASE n <= m
      <4>1. h[n] = g[n] /\ n \in 1..m
        BY <2>3, <3>4
      <4> HIDE DEF h
      <4> QED BY <2>1, <3>3, <4>1
    <3>5. CASE n = m + 1
      <4> HIDE DEF h
      <4> QED BY <2>3, <3>3, <3>5
    <3> QED BY <3>4, <3>5
  <2>5. Defines(h, m + 1)
    <3> HIDE DEF h, last
    <3> QED BY <2>3, <2>4
  <2> HIDE DEF Defines
  <2> QED BY <2>5
<1>4. ASSUME NEW m \in Nat
      PROVE  Defined(m)
  <2> DEFINE T == {i \in 0..m : Defined(i)}
  <2> HIDE DEF Defined
  <2>1. 0 \in T
    BY <1>2
  <2>2. ASSUME NEW i \in 0..(m - 1), i \in T
        PROVE  i + 1 \in T
    BY <1>3, <2>2
  <2> HIDE DEF T
  <2>3. \A i \in 0..m : i \in T
    BY ONLY <2>1, <2>2, UpTo, m \in Nat
  <2> QED BY <2>3 DEF T
<1>5. ASSUME NEW g, NEW h, NEW k \in Nat, NEW m \in Nat, Defines(g, k), Defines(h, m),
             NEW n \in Nat, n <= k, n <= m
      PROVE  g[n] = h[n]
  <2> DEFINE D == {i \in Nat : i <= k /\ i <= m /\ g[i] # h[i]}
  <2> SUFFICES ASSUME D # {}
               PROVE  FALSE
    BY <1>5
  <2>1. D \in SUBSET Nat
    OBVIOUS
  <2>2. PICK d \in D : \A i \in D : d <= i
    <3> HIDE DEF D
    <3> QED BY <2>1, LeastNumber
  <2>3. d \in Nat /\ d <= k /\ d <= m /\ g[d] # h[d]
    OBVIOUS
  <2>4. d # 0
    BY <1>5, <2>3
  <2>5. prev[d] \in Nat /\ prev[d] < d
    BY <1>1, <2>3, <2>4
  <2>6. prev[d] \notin D
    <3> HIDE DEF D
    <3> QED BY <2>2, <2>3, <2>5
  <2>7. g[prev[d]] = h[prev[d]]
    BY <2>3, <2>5, <2>6
  <2>8. d \in 1..k /\ d \in 1..m
    BY <2>3, <2>4
  <2>9. g[d] = step[<<d, g[prev[d]]>>] /\ h[d] = step[<<d, h[prev[d]]>>]
    BY <1>5, <2>8
  <2> QED BY <2>3, <2>7, <2>9
<1> DEFINE Part(m) == CHOOSE g : Defines(g, m)
           f == [n \in Nat |-> Part(n)[n]]
<1>6. \A m \in Nat : Defines(Part(m), m)
  <2> HIDE DEF Defines
  <2> QED BY <1>4
<1> HIDE DEF Part
<1>7. f \in [Nat -> S]
  <2>1. ASSUME NEW n \in Nat
        PROVE  Part(n)[n] \in S
    <3>1. Defines(Part(n), n) /\ n \in 0..n
      BY <1>6
    <3> DEFINE g == Part(n)
    <3> HIDE DEF g
    <3>2. g \in [0..n -> S] /\ n \in 0..n
      BY <3>1 DEF g
    <3>3. g[n] \in S
      BY <3>2
    <3> QED BY <3>3 DEF g
  <2> QED BY <2>1
<1>8. f[0] = first
  BY <1>6
<1>9. ASSUME NEW n \in Nat \ {0}
      PROVE  f[n] = step[<<n, f[prev[n]]>>]
  <2> DEFINE p == prev[n]
  <2>1. p \in Nat /\ p <= n /\ n \in 1..n /\ n \in Nat /\ p <= p
    BY <1>1
  <2>2. Defines(Part(n), n) /\ Defines(Part(p), p)
    BY <1>6, <2>1
  <2>3. Part(n)[n] = step[<<n, Part(n)[p]>>]
    BY <2>1, <2>2
  <2>4. Part(n)[p] = Part(p)[p]
    <3> HIDE DEF Defines, p
    <3> QED BY ONLY <1>5, <2>1, <2>2
  <2>5. f[n] = Part(n)[n] /\ f[p] = Part(p)[p]
    <3> HIDE DEF p
    <3> QED BY <2>1
  <2> HIDE DEF f
  <2> QED BY <2>3, <2>4, <2>5
<1> HIDE DEF f
<1> QED BY <1>7, <1>8, <1>9 DEF Descends

\* The same from the last digit to the first.
IteratesDown(f, n, first, step) ==
    f[n + 1] = first /\ \A i \in 1..n : f[i] = step[<<i, f[i + 1]>>]

(* A recursion from the last index to the first one defines a function.    *)
LEMMA RecursionDown ==
    ASSUME NEW n \in Nat, NEW S, NEW first \in S, NEW step \in [(1..n) \X S -> S]
    PROVE  \E f \in [1..(n + 1) -> S] : IteratesDown(f, n, first, step)
<1> DEFINE up == [p \in (1..n) \X S |-> step[<<(n + 1) - p[1], p[2]>>]]
<1>1. /\ up \in [(1..n) \X S -> S]
      /\ \A i \in 1..n, v \in S : up[<<i, v>>] = step[<<(n + 1) - i, v>>]
  <2>1. \A i \in 1..n : (n + 1) - i \in 1..n
    OBVIOUS
  <2> QED BY <2>1
<1> HIDE DEF up
<1>2. PICK g \in [0..n -> S] : Iterates(g, n, first, up)
  BY <1>1, Recursion
<1> DEFINE f == [i \in 1..(n + 1) |-> g[(n + 1) - i]]
<1>3. f \in [1..(n + 1) -> S] /\ f[n + 1] = first
  BY <1>2 DEF Iterates
<1>4. ASSUME NEW i \in 1..n
      PROVE  f[i] = step[<<i, f[i + 1]>>]
  <2> DEFINE j == (n + 1) - i
  <2>1. j \in 1..n /\ (n + 1) - j = i /\ (n + 1) - (i + 1) = j - 1 /\ j - 1 \in 0..n
    OBVIOUS
  <2>2. f[i] = g[j] /\ f[i + 1] = g[j - 1]
    BY <2>1
  <2> HIDE DEF j, f
  <2>3. g[j] = up[<<j, g[j - 1]>>] /\ g[j - 1] \in S
    BY <1>2, <2>1 DEF Iterates
  <2>4. up[<<j, g[j - 1]>>] = step[<<i, g[j - 1]>>]
    BY <1>1, <2>1, <2>3
  <2> QED BY <2>2, <2>3, <2>4
<1> HIDE DEF f
<1> QED BY <1>3, <1>4 DEF IteratesDown
-----------------------------------------------------------------------------
(* Quotient and remainder, and the remainder of a number at most one       *)
(* divisor away.                                                           *)
LEMMA QuotientAndRemainder ==
    ASSUME NEW d \in Nat \ {0}, NEW v \in Int
    PROVE  /\ v \div d \in Int /\ v % d \in 0..(d - 1)
           /\ v = (v \div d) * d + (v % d)
           /\ v \in Nat => v \div d \in Nat
           /\ (v < 0 /\ v >= -d) => v % d = v + d
           /\ (v >= 0 /\ v < d) => v % d = v
<1>1. /\ v \div d \in Int /\ v % d \in 0..(d - 1)
      /\ v = (v \div d) * d + (v % d)
  OBVIOUS
<1> DEFINE q == v \div d
           r == v % d
<1>2. q \in Int /\ r \in 0..(d - 1) /\ v = q * d + r
  BY <1>1
<1> HIDE DEF q, r
<1>3. v >= 0 => q >= 0
  <2> SUFFICES ASSUME v >= 0, q <= -1
               PROVE  FALSE
    BY <1>2
  <2>1. q * d <= -d
    BY <1>2
  <2> QED BY <1>2, <2>1
<1>4. ASSUME v < 0, v >= -d PROVE r = v + d
  <2>1. q < 0
    <3> SUFFICES ASSUME q >= 0
                 PROVE  FALSE
      BY <1>2
    <3>1. q * d >= 0
      BY <1>2
    <3> QED BY <1>2, <1>4, <3>1
  <2>2. q > -2
    <3> SUFFICES ASSUME q <= -2
                 PROVE  FALSE
      BY <1>2
    <3>1. q * d <= -2 * d
      BY <1>2
    <3> QED BY <1>2, <1>4, <3>1
  <2>3. q = -1
    BY <1>2, <2>1, <2>2
  <2> QED BY <1>2, <2>3
<1>5. ASSUME v >= 0, v < d PROVE r = v
  <2>1. q < 1
    <3> SUFFICES ASSUME q >= 1
                 PROVE  FALSE
      BY <1>2
    <3>1. q * d >= d
      BY <1>2
    <3> QED BY <1>2, <1>5, <3>1
  <2>2. q = 0
    BY <1>2, <1>3, <1>5, <2>1
  <2> QED BY <1>2, <2>2
<1> QED BY <1>1, <1>2, <1>3, <1>4, <1>5 DEF q, r

(* The same of every number, for the remainder alone.                      *)
LEMMA RemaindersOf ==
    ASSUME NEW d \in Nat \ {0}
    PROVE  \A v \in Int :
                          /\ v % d \in 0..(d - 1)
                          /\ (v < 0 /\ v >= -d) => v % d = v + d
                          /\ (v >= 0 /\ v < d) => v % d = v
BY QuotientAndRemainder

(* How a multiple compares with the number itself.                         *)
LEMMA Multiples ==
    \A c \in Int, r \in Nat :
        /\ c * r \in Int
        /\ c = 0 => c * r = 0
        /\ c >= 1 => c * r >= r
        /\ c <= -1 => c * r <= -r
<1> SUFFICES ASSUME NEW c \in Int, NEW r \in Nat
             PROVE  /\ c * r \in Int
                    /\ c = 0 => c * r = 0
                    /\ c >= 1 => c * r >= r
                    /\ c <= -1 => c * r <= -r
  OBVIOUS
<1>1. c * r \in Int /\ (c = 0 => c * r = 0)
  OBVIOUS
<1>2. c >= 1 => c * r >= r
  OBVIOUS
<1>3. c <= -1 => c * r <= -r
  OBVIOUS
<1> QED BY <1>1, <1>2, <1>3
-----------------------------------------------------------------------------
\* The number that the first i digits stand for, the highest digit first.
Leading(digits, width, radix) ==
    LET value[i \in 0..width] ==
            IF i = 0 THEN 0 ELSE radix * value[i - 1] + digits[i]
    IN value

Value(digits, width, radix) == Leading(digits, width, radix)[width]

(* The values of the first digits are numbers, each made from the one      *)
(* before.                                                                 *)
LEMMA LeadingValues ==
    ASSUME NEW width \in Nat, NEW radix \in Nat, NEW digits, \A i \in 1..width : digits[i] \in Nat
    PROVE  /\ Leading(digits, width, radix) \in [0..width -> Nat]
           /\ Leading(digits, width, radix)[0] = 0
           /\ \A i \in 1..width : Leading(digits, width, radix)[i]
                = radix * Leading(digits, width, radix)[i - 1] + digits[i]
<1> DEFINE Next1(i, v) == radix * v + digits[i]
           value[i \in 0..width] == IF i = 0 THEN 0 ELSE Next1(i, value[i - 1])
           step == [p \in (1..width) \X Nat |-> Next1(p[1], p[2])]
<1>1. Leading(digits, width, radix) = value
  BY DEF Leading
<1>2. \A i \in 1..width, v \in Nat : Next1(i, v) \in Nat
  OBVIOUS
<1> HIDE DEF Next1
<1>3. value = [i \in 0..width |-> IF i = 0 THEN 0 ELSE Next1(i, value[i - 1])]
  <2>1. /\ step \in [(1..width) \X Nat -> Nat] /\ 0 \in Nat
        /\ \A i \in 1..width, v \in Nat : step[<<i, v>>] = Next1(i, v)
    BY <1>2
  <2> HIDE DEF step
  <2>2. PICK f \in [0..width -> Nat] : Iterates(f, width, 0, step)
    BY <2>1, Recursion
  <2>3. \A i \in 1..width : f[i - 1] \in Nat
    OBVIOUS
  <2>4. \A i \in 1..width : f[i] = Next1(i, f[i - 1])
    BY <2>1, <2>2, <2>3 DEF Iterates
  <2>5. f = [i \in 0..width |-> IF i = 0 THEN 0 ELSE Next1(i, f[i - 1])]
    BY <2>2, <2>4 DEF Iterates
  <2> QED BY <2>5
<1> HIDE DEF value
<1> DEFINE T == {i \in 0..width : value[i] \in Nat}
<1>4. 0 \in T
  BY <1>3
<1>5. ASSUME NEW i \in 0..(width - 1), i \in T
      PROVE  i + 1 \in T
  <2>1. value[i + 1] = Next1(i + 1, value[i]) /\ i + 1 \in 1..width
    BY <1>3
  <2> QED BY <1>2, <1>5, <2>1
<1> HIDE DEF T
<1>6. \A i \in 0..width : i \in T
  BY <1>4, <1>5, UpTo
<1>7. value \in [0..width -> Nat]
  BY <1>3, <1>6 DEF T
<1>8. \A i \in 1..width : value[i] = Next1(i, value[i - 1])
  BY <1>3
<1> QED BY <1>1, <1>3, <1>7, <1>8 DEF Next1

\* One more is radix to the power of the number of digits.
Nines(width, radix) == [i \in 1..width |-> radix - 1]

(* The values of a number whose digits are all the highest.                *)
LEMMA Powers ==
    ASSUME NEW width \in Nat, NEW radix \in Nat \ {0}
    PROVE  LET m == Leading(Nines(width, radix), width, radix)
           IN /\ m \in [0..width -> Nat] /\ m[0] = 0
              /\ \A i \in 1..width : m[i] = radix * m[i - 1] + (radix - 1)
<1> DEFINE nines == Nines(width, radix)
           m == Leading(nines, width, radix)
<1>1. \A i \in 1..width : nines[i] = radix - 1 /\ nines[i] \in Nat
  BY DEF Nines
<1> HIDE DEF nines
<1>2. /\ m \in [0..width -> Nat] /\ m[0] = 0
      /\ \A i \in 1..width : m[i] = radix * m[i - 1] + nines[i]
  BY <1>1, LeadingValues
<1> HIDE DEF m
<1>3. \A i \in 1..width : m[i] = radix * m[i - 1] + (radix - 1)
  BY <1>1, <1>2
<1> QED BY <1>2, <1>3 DEF m, nines

AreDigits(d, width, radix) == \A i \in 1..width : d[i] \in 0..(radix - 1)

(* No number of a width is above the one whose digits are all the highest. *)
LEMMA DigitsAreBelowPower ==
    ASSUME NEW width \in Nat, NEW radix \in Nat \ {0}, NEW digits,
           AreDigits(digits, width, radix)
    PROVE  /\ Value(digits, width, radix) \in Nat
           /\ Value(Nines(width, radix), width, radix) \in Nat
           /\ Value(digits, width, radix) <= Value(Nines(width, radix), width, radix)
<1> USE DEF AreDigits
<1> DEFINE v == Leading(digits, width, radix)
           m == Leading(Nines(width, radix), width, radix)
<1>1. \A i \in 1..width : digits[i] \in Nat /\ Nines(width, radix)[i] = radix - 1 /\ radix - 1 \in Nat
  BY DEF Nines
<1>2. /\ v \in [0..width -> Nat] /\ v[0] = 0
      /\ \A i \in 1..width : v[i] = radix * v[i - 1] + digits[i]
  BY <1>1, LeadingValues
<1>3. /\ m \in [0..width -> Nat] /\ m[0] = 0
      /\ \A i \in 1..width : m[i] = radix * m[i - 1] + (radix - 1)
  BY Powers
<1> HIDE DEF v, m
<1> DEFINE T == {i \in 0..width : v[i] <= m[i]}
<1>4. 0 \in T
  BY <1>2, <1>3
<1>5. ASSUME NEW i \in 0..(width - 1), i \in T
      PROVE  i + 1 \in T
  <2>1. /\ i + 1 \in 1..width /\ v[i] \in Nat /\ m[i] \in Nat
        /\ v[i + 1] = radix * v[i] + digits[i + 1]
        /\ m[i + 1] = radix * m[i] + (radix - 1)
    BY <1>2, <1>3
  <2>2. radix * v[i] <= radix * m[i]
    BY <1>5, <2>1
  <2>3. radix * v[i] \in Nat /\ radix * m[i] \in Nat /\ digits[i + 1] \in 0..(radix - 1)
    BY <2>1
  <2> QED BY <2>1, <2>2, <2>3
<1> HIDE DEF T
<1>6. width \in T
  BY <1>4, <1>5, UpTo
<1> QED BY <1>2, <1>3, <1>6 DEF T, Value, v, m

\* x and y are added digit by digit: s are the digits, c the carries.
AddsUp(x, y, s, c, width, radix) ==
    /\ \A i \in 1..width : x[i] \in Nat /\ y[i] \in Nat /\ s[i] \in Nat
    /\ \A i \in 1..(width + 1) : c[i] \in Nat
    /\ c[width + 1] = 0
    /\ \A i \in 1..width : x[i] + y[i] + c[i + 1] = c[i] * radix + s[i]

(* Digits that add up with carries stand for numbers that do.              *)
LEMMA CarriesAddUp ==
    ASSUME NEW width \in Nat, NEW radix \in Nat \ {0}, NEW x, NEW y, NEW s, NEW c,
           AddsUp(x, y, s, c, width, radix)
    PROVE  Value(x, width, radix) + Value(y, width, radix)
             = Value(s, width, radix) + c[1] * (Value(Nines(width, radix), width, radix) + 1)
<1> USE DEF AddsUp
<1> DEFINE vx == Leading(x, width, radix)
           vy == Leading(y, width, radix)
           vs == Leading(s, width, radix)
           m == Leading(Nines(width, radix), width, radix)
<1>2. /\ vx \in [0..width -> Nat] /\ vx[0] = 0
      /\ \A i \in 1..width : vx[i] = radix * vx[i - 1] + x[i]
  BY LeadingValues
<1>3. /\ vy \in [0..width -> Nat] /\ vy[0] = 0
      /\ \A i \in 1..width : vy[i] = radix * vy[i - 1] + y[i]
  BY LeadingValues
<1>4. /\ vs \in [0..width -> Nat] /\ vs[0] = 0
      /\ \A i \in 1..width : vs[i] = radix * vs[i - 1] + s[i]
  BY LeadingValues
<1>5. /\ m \in [0..width -> Nat] /\ m[0] = 0
      /\ \A i \in 1..width : m[i] = radix * m[i - 1] + (radix - 1)
  BY Powers
<1> HIDE DEF vx, vy, vs, m
<1> DEFINE T == {i \in 0..width : vx[i] + vy[i] + c[i + 1] = vs[i] + c[1] * (m[i] + 1)}
<1>6. 0 \in T
  <2>1. 0 \in 0..width /\ 1 \in 1..(width + 1) /\ c[1] \in Nat
    OBVIOUS
  <2>2. vx[0] + vy[0] + c[1] = vs[0] + c[1] * (m[0] + 1)
    BY <1>2, <1>3, <1>4, <1>5, <2>1
  <2> QED BY <2>1, <2>2
<1>7. ASSUME NEW i \in 0..(width - 1), i \in T
      PROVE  i + 1 \in T
  <2> DEFINE X == vx[i]  Y == vy[i]  V == vs[i]  M == m[i]  C == c[1]
             c1 == c[i + 1]  c2 == c[i + 2]  x1 == x[i + 1]  y1 == y[i + 1]  s1 == s[i + 1]
  <2>1. /\ X \in Nat /\ Y \in Nat /\ V \in Nat /\ M \in Nat /\ C \in Nat
        /\ c1 \in Nat /\ c2 \in Nat /\ x1 \in Nat /\ y1 \in Nat /\ s1 \in Nat
    <3>1. /\ i \in 0..width /\ i + 1 \in 1..width
          /\ 1 \in 1..(width + 1) /\ i + 1 \in 1..(width + 1) /\ i + 2 \in 1..(width + 1)
      OBVIOUS
    <3>2. X \in Nat /\ Y \in Nat /\ V \in Nat /\ M \in Nat
      BY <1>2, <1>3, <1>4, <1>5, <3>1
    <3>3. C \in Nat /\ c1 \in Nat /\ c2 \in Nat /\ x1 \in Nat /\ y1 \in Nat /\ s1 \in Nat
      BY <3>1
    <3> QED BY <3>2, <3>3
  <2>2. /\ vx[i + 1] = radix * X + x1 /\ vy[i + 1] = radix * Y + y1
        /\ vs[i + 1] = radix * V + s1 /\ m[i + 1] = radix * M + (radix - 1)
    BY <1>2, <1>3, <1>4, <1>5
  <2>3. x1 + y1 + c2 = c1 * radix + s1
    OBVIOUS
  <2>4. X + Y + c1 = V + C * (M + 1)
    BY <1>7
  <2>5. i + 1 \in 0..width /\ (i + 1) + 1 = i + 2
    OBVIOUS
  <2> HIDE DEF X, Y, V, M, C, c1, c2, x1, y1, s1
  <2>6. (radix * X + x1) + (radix * Y + y1) + c2 = (radix * V + s1) + C * ((radix * M + (radix - 1)) + 1)
    <3>1. (radix * X + x1) + (radix * Y + y1) + c2 = radix * (X + Y + c1) + s1
      BY <2>1, <2>3
    <3>2. radix * (V + C * (M + 1)) + s1 = (radix * V + s1) + C * ((radix * M + (radix - 1)) + 1)
      BY <2>1
    <3> QED BY <2>4, <3>1, <3>2
  <2> QED BY <2>2, <2>5, <2>6 DEF c2, C
<1> HIDE DEF T
<1>8. \A i \in 0..width : i \in T
  BY ONLY <1>6, <1>7, UpTo, width \in Nat
<1>9. vx[width] + vy[width] + c[width + 1] = vs[width] + c[1] * (m[width] + 1)
  BY <1>8 DEF T
<1> QED BY <1>2, <1>3, <1>9 DEF Value, vx, vy, vs, m

(* Of two numbers of one width the first digit that differs tells which is *)
(* greater.                                                                *)
LEMMA FirstDifferenceDecides ==
    ASSUME NEW width \in Nat, NEW radix \in Nat \ {0}, NEW s, NEW n,
           AreDigits(s, width, radix), AreDigits(n, width, radix),
           NEW k \in 1..(width + 1), \A j \in 1..(k - 1) : s[j] = n[j]
    PROVE  /\ k = width + 1 => Value(s, width, radix) = Value(n, width, radix)
           /\ k <= width /\ s[k] > n[k] => Value(s, width, radix) > Value(n, width, radix)
<1> DEFINE vs == Leading(s, width, radix)
           vn == Leading(n, width, radix)
<1>1. \A i \in 1..width : s[i] \in Nat /\ n[i] \in Nat /\ s[i] <= radix - 1 /\ n[i] <= radix - 1
  BY DEF AreDigits
<1>2. /\ vs \in [0..width -> Nat] /\ vs[0] = 0
      /\ \A i \in 1..width : vs[i] = radix * vs[i - 1] + s[i]
  BY <1>1, LeadingValues
<1>3. /\ vn \in [0..width -> Nat] /\ vn[0] = 0
      /\ \A i \in 1..width : vn[i] = radix * vn[i - 1] + n[i]
  BY <1>1, LeadingValues
<1>4. Value(s, width, radix) = vs[width] /\ Value(n, width, radix) = vn[width]
  BY DEF Value
<1> HIDE DEF vs, vn
<1> DEFINE T == {i \in 0..width : /\ i < k => vs[i] = vn[i]
                                  /\ i >= k /\ s[k] > n[k] => vs[i] >= vn[i] + 1}
<1>5. 0 \in T
  BY <1>2, <1>3
<1>6. ASSUME NEW i \in 0..(width - 1), i \in T
      PROVE  i + 1 \in T
  <2> DEFINE V == vs[i]  W == vn[i]  s1 == s[i + 1]  n1 == n[i + 1]
  <2>1. /\ V \in Nat /\ W \in Nat /\ s1 \in Nat /\ n1 \in Nat /\ n1 <= radix - 1
        /\ vs[i + 1] = radix * V + s1 /\ vn[i + 1] = radix * W + n1
        /\ i + 1 \in 0..width
    BY <1>1, <1>2, <1>3
  <2>2. /\ i < k => V = W
        /\ i >= k /\ s[k] > n[k] => V >= W + 1
        /\ i + 1 < k => s1 = n1
    BY <1>6
  <2> HIDE DEF V, W
  <2>3. CASE i + 1 < k
    <3> HIDE DEF s1, n1
    <3> QED BY <2>1, <2>2, <2>3
  <2>4. CASE i + 1 = k
    <3>1. V = W
      BY <2>2, <2>4
    <3>2. s[k] > n[k] => s1 >= n1 + 1
      BY <2>1, <2>4
    <3> HIDE DEF s1, n1
    <3>3. s[k] > n[k] => radix * V + s1 >= (radix * W + n1) + 1
      BY <2>1, <3>1, <3>2
    <3> QED BY <2>1, <2>4, <3>3
  <2>5. CASE i + 1 > k
    <3> HIDE DEF s1, n1
    <3>1. ASSUME s[k] > n[k]
          PROVE  radix * V + s1 >= (radix * W + n1) + 1
      <4>1. V >= W + 1
        BY <2>2, <2>5, <3>1
      <4>2. radix * V >= radix * (W + 1)
        BY <2>1, <4>1
      <4>3. radix * (W + 1) = radix * W + radix
        BY <2>1
      <4>4. radix * V \in Nat /\ radix * W \in Nat
        BY <2>1
      <4> QED BY <2>1, <4>2, <4>3, <4>4
    <3> QED BY <2>1, <2>5, <3>1
  <2> QED BY <2>3, <2>4, <2>5
<1> HIDE DEF T
<1>7. \A i \in 0..width : i \in T
  BY ONLY <1>5, <1>6, UpTo, width \in Nat
<1>8. /\ width < k => vs[width] = vn[width]
      /\ width >= k /\ s[k] > n[k] => vs[width] >= vn[width] + 1
  BY <1>7 DEF T
<1>9. vs[width] \in Nat /\ vn[width] \in Nat
  BY <1>2, <1>3
<1> QED BY <1>4, <1>8, <1>9
=============================================================================
