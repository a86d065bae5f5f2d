--------------------------- MODULE AlgorithmProofs ---------------------------
(***************************************************************************)
(* What holds of the pure algorithms for all of their inputs: the keys and *)
(* signatures of Secp256k1 on every curve that is a cyclic group of prime  *)
(* order, the carry and the borrow of addScalarsModN in digits of every    *)
(* radix and number, the framing of SigningDigests, and the RLP encoding   *)
(* of EthereumEncoding.                                                    *)
(*                                                                         *)
(* The loops of the code are recursive functions.  DataLemmas gives each   *)
(* its equations, and what a loop keeps is the set T of the indexes at     *)
(* which it holds: the first one is in T, and with each the next.          *)
(***************************************************************************)
EXTENDS Secp256k1, SigningDigests, EthereumEncoding, DataLemmas
-----------------------------------------------------------------------------
(* Points.                                                                 *)

(* ModInverse finds the inverse modulo P of a number that has one.         *)
LEMMA InversesExist ==
    ASSUME PrimeField, NEW a \in 1..(P - 1)
    PROVE  ModInverse(a, P) \in 1..(P - 1) /\ (a * ModInverse(a, P)) % P = 1
BY DEF PrimeField, ModInverse

(* A remainder modulo P is a coordinate.                                   *)
LEMMA Remainders ==
    ASSUME PrimeField, NEW v \in Int
    PROVE  v % P \in 0..(P - 1)
<1>1. P \in Nat /\ P > 0
  BY DEF PrimeField
<1> QED BY <1>1

(* The third point of a line has reduced coordinates.                      *)
LEMMA ChordIsReduced ==
    ASSUME PrimeField, NEW a \in Coordinates, NEW lambda \in Int, NEW otherX \in Int
    PROVE  Chord(a, lambda, otherX) \in Coordinates
<1> DEFINE x == (lambda * lambda - a[1] - otherX) % P
           ordinate == lambda * (a[1] - x) - a[2]
<1>1. a[1] \in Int /\ a[2] \in Int
  BY DEF Coordinates, PrimeField
<1>2. lambda * lambda - a[1] - otherX \in Int
  BY <1>1
<1>3. x \in 0..(P - 1)
  BY <1>2, Remainders
<1> HIDE DEF x
<1>4. ordinate \in Int
  <2>1. x \in Int
    BY <1>3 DEF PrimeField
  <2>2. lambda * (a[1] - x) \in Int
    BY <1>1, <2>1
  <2> QED BY <1>1, <2>2
<1> HIDE DEF ordinate
<1>5. ordinate % P \in 0..(P - 1)
  BY <1>4, Remainders
<1>6. Chord(a, lambda, otherX) = <<x, ordinate % P>>
  BY DEF Chord, x, ordinate
<1> QED BY <1>3, <1>5, <1>6 DEF Coordinates

(* The inverse that doubling asks for is that of a number that has one.    *)
LEMMA DoublingInverts ==
    ASSUME PrimeField, NEW y \in 1..(P - 1)
    PROVE  (2 * y) % P \in 1..(P - 1)
<1>1. P \in Nat /\ P % 2 = 1
  BY DEF PrimeField
<1>2. CASE 2 * y < P
  BY <1>1, <1>2
<1>3. CASE 2 * y >= P
  <2>1. 2 * y - P \in 1..(P - 1)
    BY <1>1, <1>3
  <2>2. (2 * y) % P = 2 * y - P
    BY <1>1, <1>3, <2>1
  <2> QED BY <2>1, <2>2
<1> QED BY <1>1, <1>2, <1>3

(* The inverse that adding asks for is that of a number that has one.      *)
LEMMA AddingInverts ==
    ASSUME PrimeField, NEW x \in 0..(P - 1), NEW y \in 0..(P - 1), x # y
    PROVE  (x - y) % P \in 1..(P - 1)
<1>1. P \in Nat /\ P > 0
  BY DEF PrimeField
<1>2. CASE x > y
  BY <1>1, <1>2
<1>3. CASE x < y
  <2>1. (x - y) % P = x - y + P
    BY <1>1, <1>3
  <2> QED BY <1>1, <1>3, <2>1
<1> QED BY <1>1, <1>2, <1>3

(* Doubling a point gives a point.                                         *)
LEMMA Doubled ==
    ASSUME PrimeField, NEW a \in ReducedPoints
    PROVE  pointDouble(a) \in ReducedPoints
<1>1. CASE a = Infinity \/ a[2] = 0
  BY <1>1 DEF pointDouble, ReducedPoints
<1>2. CASE ~(a = Infinity \/ a[2] = 0)
  <2>1. a \in Coordinates /\ a[1] \in Int /\ a[2] \in 1..(P - 1)
    BY <1>2 DEF ReducedPoints, Coordinates, PrimeField
  <2> DEFINE inverse == ModInverse((2 * a[2]) % P, P)
             lambda == (3 * a[1] * a[1] * inverse) % P
  <2>2. inverse \in 1..(P - 1)
    BY <2>1, DoublingInverts, InversesExist
  <2> HIDE DEF inverse
  <2>3. 3 * a[1] * a[1] * inverse \in Int
    BY <2>1, <2>2
  <2>4. lambda \in Int
    BY <2>3, Remainders DEF PrimeField
  <2>5. pointDouble(a) = Chord(a, lambda, a[1])
    BY <1>2 DEF pointDouble, inverse
  <2> HIDE DEF lambda
  <2> QED BY <2>1, <2>4, <2>5, ChordIsReduced DEF ReducedPoints
<1> QED BY <1>1, <1>2

(* Adding two points gives a point.                                        *)
LEMMA Added ==
    ASSUME PrimeField, NEW a \in ReducedPoints, NEW b \in ReducedPoints
    PROVE  pointAdd(a, b) \in ReducedPoints
<1>1. CASE a = Infinity \/ b = Infinity
  BY <1>1 DEF pointAdd
<1>2. CASE a # Infinity /\ b # Infinity /\ a[1] = b[1]
  <2>1. pointAdd(a, b) \in {Infinity, pointDouble(a)}
    BY <1>2 DEF pointAdd
  <2> QED BY <2>1, Doubled DEF ReducedPoints
<1>3. CASE a # Infinity /\ b # Infinity /\ a[1] # b[1]
  <2>1. /\ a \in Coordinates /\ b \in Coordinates
        /\ a[1] \in 0..(P - 1) /\ b[1] \in 0..(P - 1) /\ a[2] \in Int /\ b[2] \in Int
    BY <1>3 DEF ReducedPoints, Coordinates, PrimeField
  <2> DEFINE inverse == ModInverse((b[1] - a[1]) % P, P)
             lambda == ((b[2] - a[2]) * inverse) % P
  <2>2. inverse \in 1..(P - 1)
    BY <1>3, <2>1, AddingInverts, InversesExist
  <2> HIDE DEF inverse
  <2>3. (b[2] - a[2]) * inverse \in Int
    BY <2>1, <2>2
  <2>4. lambda \in Int
    BY <2>3, Remainders DEF PrimeField
  <2>5. pointAdd(a, b) = Chord(a, lambda, b[1])
    BY <1>3 DEF pointAdd, inverse
  <2> HIDE DEF lambda
  <2>6. b[1] \in Int
    BY <2>1 DEF PrimeField
  <2> QED BY <2>1, <2>4, <2>5, <2>6, ChordIsReduced DEF ReducedPoints
<1> QED BY <1>1, <1>2, <1>3

(* A multiple of a point is again a point, for a scalar of any width: no   *)
(* addition or doubling on the way asks for the inverse of zero.           *)
THEOREM MultiplesAreReduced ==
    ASSUME PrimeField, Bits \in Nat, NEW point \in ReducedPoints, NEW scalar
    PROVE  scalarMult(point, scalar) \in ReducedPoints
<1> DEFINE Bit(i) == (scalar \div 2^(Bits - i)) % 2 = 1
           Turn(i, r) == IF Bit(i) THEN pointAdd(pointDouble(r), point) ELSE pointDouble(r)
           result[i \in 0..Bits] == IF i = 0 THEN Infinity ELSE Turn(i, result[i - 1])
           step == [p \in (1..Bits) \X ReducedPoints |-> Turn(p[1], p[2])]
<1> HIDE DEF Bit
<1>1. scalarMult(point, scalar) = result[Bits]
  BY DEF scalarMult, Bit
<1>2. \A i \in 1..Bits, r \in ReducedPoints : Turn(i, r) \in ReducedPoints
  BY Added, Doubled
<1> HIDE DEF Turn
<1>3. Infinity \in ReducedPoints
  BY DEF ReducedPoints
<1>4. step \in [(1..Bits) \X ReducedPoints -> ReducedPoints]
  BY <1>2
<1>5. \A i \in 1..Bits, r \in ReducedPoints : step[<<i, r>>] = Turn(i, r)
  OBVIOUS
<1> HIDE DEF step
<1>6. PICK f \in [0..Bits -> ReducedPoints] : Iterates(f, Bits, Infinity, step)
  BY <1>3, <1>4, Recursion
<1>7. f = [i \in 0..Bits |-> IF i = 0 THEN Infinity ELSE Turn(i, f[i - 1])]
  <2>1. \A i \in 1..Bits : f[i - 1] \in ReducedPoints
    BY <1>6
  <2>2. \A i \in 1..Bits : f[i] = Turn(i, f[i - 1])
    BY <1>5, <1>6, <2>1 DEF Iterates
  <2> QED BY <1>6, <2>2 DEF Iterates
<1>8. result = [i \in 0..Bits |-> IF i = 0 THEN Infinity ELSE Turn(i, result[i - 1])]
  BY <1>7
<1> HIDE DEF result
<1> DEFINE T == {i \in 0..Bits : result[i] \in ReducedPoints}
<1>9. 0 \in T
  BY <1>3, <1>8
<1>10. ASSUME NEW i \in 0..(Bits - 1), i \in T
       PROVE  i + 1 \in T
  <2>1. result[i + 1] = Turn(i + 1, result[i])
    BY <1>8
  <2> QED BY <1>2, <1>10, <2>1
<1> HIDE DEF T
<1>11. \A i \in 0..Bits : i \in T
  BY <1>9, <1>10, UpTo
<1> QED BY <1>1, <1>11 DEF T
-----------------------------------------------------------------------------
(* Keys and signatures.                                                    *)

(* Two steps from one chain code give the HMAC the same data only if they  *)
(* have the same index and are both hardened or both not, and a hardened   *)
(* one only for the same key (deriveChild in hdwallet.go).                 *)
THEOREM StepsDiffer ==
    ASSUME HardenedOffset \in Nat,
           NEW key, NEW otherKey,
           NEW segment \in [index : 0..(HardenedOffset - 1), hardened : BOOLEAN],
           NEW other \in [index : 0..(HardenedOffset - 1), hardened : BOOLEAN],
           ChildData(key, segment) = ChildData(otherKey, other)
    PROVE  segment = other /\ (segment.hardened => key = otherKey)
<1> DEFINE Prefix(k, s) == IF s.hardened THEN <<0, k>> ELSE compressedPublicKey(k)
           marker(k) == IF scalarBaseMult(k)[2] % 2 = 1 THEN 3 ELSE 2
<1>1. \A k, s : Prefix(k, s) = IF s.hardened THEN <<0, k>> ELSE <<marker(k), scalarBaseMult(k)[1]>>
  BY DEF compressedPublicKey
<1>2. \A k, s : ChildData(k, s) =
          IF s.hardened THEN <<0, k, ChildNumber(s)>>
                        ELSE <<marker(k), scalarBaseMult(k)[1], ChildNumber(s)>>
  <2> HIDE DEF marker
  <2>1. ASSUME NEW x, NEW y, NEW z
        PROVE  <<x, y>> \o <<z>> = <<x, y, z>>
    <3> DEFINE S == {x, y, z}
    <3>1. <<x, y>> \in Seq(S) /\ <<z>> \in Seq(S) /\ <<x, y, z>> \in Seq(S)
      OBVIOUS
    <3>2. /\ <<x, y>> \o <<z>> \in Seq(S)
          /\ Len(<<x, y>> \o <<z>>) = 3
          /\ \A i \in 1..3 : (<<x, y>> \o <<z>>)[i] = <<x, y, z>>[i]
      BY <3>1, ConcatProperties
    <3> QED BY <3>1, <3>2, SeqEqual
  <2>2. \A k, s : ChildData(k, s) = Prefix(k, s) \o <<ChildNumber(s)>>
    BY DEF ChildData
  <2> QED BY <1>1, <2>1, <2>2
<1>3. \A k : marker(k) # 0
  OBVIOUS
<1>4. segment.hardened = other.hardened
  <2> HIDE DEF marker
  <2> QED BY <1>2, <1>3
<1>5. ChildNumber(segment) = ChildNumber(other)
  <2> HIDE DEF marker
  <2> QED BY <1>2, <1>4
<1>6. segment.index = other.index
  BY <1>4, <1>5 DEF ChildNumber
<1>7. segment.hardened => key = otherKey
  <2> HIDE DEF marker
  <2> QED BY <1>2, <1>4
<1> QED BY <1>4, <1>6, <1>7

(* Of a signature's s and its mirror image N - s, exactly one is low, and  *)
(* verifySignature refuses the other.                                      *)
LEMMA OneIsLow ==
    ASSUME N \in Nat, N % 2 = 1, NEW s \in 1..(N - 1)
    PROVE  LowS(s) <=> ~LowS(N - s)
BY DEF LowS

\* What ParseCompactSignature and verifySignature do not refuse for its form.
InForm(sig) ==
    /\ validSignatureScalar(sig.r) /\ validSignatureScalar(sig.s)
    /\ LowS(sig.s)
    /\ sig.recoveryID \in {0, 1}

(* What is made of one nonce, whatever the point it gives, has that form.  *)
LEMMA NonceSignsLow ==
    ASSUME N \in Nat, N % 2 = 1,
           NEW key \in Nat, NEW digest \in Nat, NEW k,
           scalarBaseMult(k) \in Nat \X Nat, ModInverse(k, N) \in Nat,
           SignWithNonce(key, digest, k) # Rejected
    PROVE  InForm(SignWithNonce(key, digest, k))
<1> DEFINE x == scalarBaseMult(k)[1]
           y == scalarBaseMult(k)[2]
           product == (x * key + (digest % N)) * ModInverse(k, N)
           s == product % N
           parity == y % 2
<1>1. x \in Nat /\ y \in Nat
  OBVIOUS
<1>2. product \in Nat
  <2>1. digest % N \in Nat
    OBVIOUS
  <2>2. x * key \in Nat
    BY <1>1
  <2>3. x * key + (digest % N) \in Nat
    BY <2>1, <2>2
  <2> QED BY <2>3
<1>3. s \in 0..(N - 1) /\ parity \in {0, 1}
  <2> HIDE DEF product
  <2> QED BY <1>1, <1>2
<1> HIDE DEF product
<1>4. SignWithNonce(key, digest, k) =
        IF x >= N \/ x = 0 \/ s = 0 THEN Rejected
        ELSE IF LowS(s) THEN [r |-> x, s |-> s, recoveryID |-> parity]
        ELSE [r |-> x, s |-> N - s, recoveryID |-> 1 - parity]
  BY DEF SignWithNonce, product
<1> HIDE DEF x, s, parity
<1>5. x \in 1..(N - 1) /\ s \in 1..(N - 1)
  BY <1>1, <1>3, <1>4 DEF x
<1>6. CASE LowS(s)
  BY <1>3, <1>4, <1>5, <1>6 DEF validSignatureScalar, InForm
<1>7. CASE ~LowS(s)
  <2>1. LowS(N - s) /\ N - s \in 1..(N - 1)
    BY <1>5, <1>7, OneIsLow
  <2> QED BY <1>3, <1>4, <1>5, <1>7, <2>1 DEF validSignatureScalar, InForm
<1> QED BY <1>6, <1>7

(* A nonce and a half of a signature have an inverse modulo N.             *)
LEMMA InversesOfOrder ==
    ASSUME PrimeOrder, NEW a \in 1..(N - 1)
    PROVE  ModInverse(a, N) \in 1..(N - 1) /\ (a * ModInverse(a, N)) % N = 1
BY DEF PrimeOrder, ModInverse

(* SignDigest returns what the first nonce that is not rejected gives, in  *)
(* the form that verifySignature accepts, however many were tried          *)
(* (signature.go 74-130).                                                  *)
THEOREM SignaturesAreLow ==
    ASSUME PrimeField, PrimeOrder, Bits \in Nat, Base \in Coordinates,
           NEW key \in Nat, NEW digest \in Nat, NEW nonces \in Seq(1..(N - 1)),
           SignDigest(key, digest, nonces) # Rejected
    PROVE  /\ validPrivateKey(key)
           /\ InForm(SignDigest(key, digest, nonces))
           /\ \E i \in DOMAIN nonces :
                /\ SignDigest(key, digest, nonces) = SignWithNonce(key, digest, nonces[i])
                /\ \A j \in 1..(i - 1) : SignWithNonce(key, digest, nonces[j]) = Rejected
<1> DEFINE n == Len(nonces)
           With(i) == SignWithNonce(key, digest, nonces[i])
           Turn(i, r) == IF r # Rejected THEN r ELSE With(i)
           tried[i \in 0..n] == IF i = 0 THEN Rejected ELSE Turn(i, tried[i - 1])
           S == {Rejected} \cup {With(i) : i \in 1..n}
           step == [p \in (1..n) \X S |-> Turn(p[1], p[2])]
<1>1. n \in Nat /\ DOMAIN nonces = 1..n /\ \A i \in 1..n : nonces[i] \in 1..(N - 1)
  <2> DEFINE Scalars == 1..(N - 1)
  <2>1. nonces \in Seq(Scalars)
    OBVIOUS
  <2> HIDE DEF Scalars
  <2>2. n \in Nat /\ DOMAIN nonces = 1..n /\ \A i \in 1..n : nonces[i] \in Scalars
    BY <2>1
  <2> QED BY <2>2 DEF Scalars
<1>2. validPrivateKey(key) /\ SignDigest(key, digest, nonces) = tried[n]
  BY DEF SignDigest
<1> HIDE DEF n, With
<1>3. tried = [i \in 0..n |-> IF i = 0 THEN Rejected ELSE Turn(i, tried[i - 1])]
  <2>1. /\ step \in [(1..n) \X S -> S] /\ Rejected \in S
        /\ \A i \in 1..n, r \in S : step[<<i, r>>] = Turn(i, r)
    OBVIOUS
  <2> HIDE DEF step, S, Turn
  <2>2. PICK f \in [0..n -> S] : Iterates(f, n, Rejected, step)
    BY <1>1, <2>1, Recursion
  <2>3. \A i \in 1..n : f[i - 1] \in S
    BY <1>1
  <2>4. \A i \in 1..n : f[i] = Turn(i, f[i - 1])
    BY <2>1, <2>2, <2>3 DEF Iterates
  <2>5. f = [i \in 0..n |-> IF i = 0 THEN Rejected ELSE Turn(i, f[i - 1])]
    BY <1>1, <2>2, <2>4 DEF Iterates
  <2> QED BY <2>5
<1> HIDE DEF tried
<1> DEFINE First(i, k) == /\ k \in 1..i /\ With(k) # Rejected
                          /\ \A j \in 1..(k - 1) : With(j) = Rejected
           Found(i) == IF tried[i] = Rejected THEN \A j \in 1..i : With(j) = Rejected
                       ELSE \E k : First(i, k) /\ tried[i] = With(k)
           T == {i \in 0..n : Found(i)}
<1>4. \A i \in 0..n : i \in T
  <2>1. 0 \in T
    BY <1>1, <1>3
  <2>2. ASSUME NEW i \in 0..(n - 1), i \in T
        PROVE  i + 1 \in T
    <3>1. i + 1 \in 0..n /\ tried[i + 1] = Turn(i + 1, tried[i])
      BY <1>1, <1>3
    <3>2. CASE tried[i] # Rejected
      <4>1. PICK k : First(i, k) /\ tried[i] = With(k)
        BY <2>2, <3>2
      <4>2. First(i + 1, k) /\ tried[i + 1] = With(k)
        BY <1>1, <3>1, <3>2, <4>1
      <4> QED BY <3>1, <3>2, <4>2
    <3>3. CASE tried[i] = Rejected
      <4>1. \A j \in 1..i : With(j) = Rejected
        BY <2>2, <3>3
      <4>2. tried[i + 1] = With(i + 1)
        BY <3>1, <3>3
      <4>3. With(i + 1) # Rejected => First(i + 1, i + 1)
        BY <1>1, <4>1
      <4>4. With(i + 1) = Rejected => \A j \in 1..(i + 1) : With(j) = Rejected
        BY <1>1, <4>1
      <4> HIDE DEF First
      <4> QED BY <3>1, <4>2, <4>3, <4>4
    <3> QED BY <3>2, <3>3
  <2> HIDE DEF T
  <2> QED BY <1>1, <2>1, <2>2, UpTo
<1>5. PICK k : First(n, k) /\ tried[n] = With(k)
  BY <1>1, <1>2, <1>4
<1>6. k \in DOMAIN nonces /\ nonces[k] \in 1..(N - 1)
  BY <1>1, <1>5
<1>7. scalarBaseMult(nonces[k]) \in Nat \X Nat
  <2>1. scalarBaseMult(nonces[k]) \in ReducedPoints
    BY MultiplesAreReduced DEF scalarBaseMult, ReducedPoints
  <2>2. scalarBaseMult(nonces[k]) \in Coordinates
    BY <1>6, <2>1 DEF PrimeOrder, ReducedPoints
  <2> QED BY <2>2 DEF Coordinates
<1>8. ModInverse(nonces[k], N) \in Nat
  BY <1>6, InversesOfOrder DEF PrimeOrder
<1>9. InForm(With(k))
  <2>1. N \in Nat /\ N % 2 = 1 /\ SignWithNonce(key, digest, nonces[k]) # Rejected
    BY <1>5 DEF PrimeOrder, With
  <2> QED BY <1>7, <1>8, <2>1, NonceSignsLow DEF With
<1> QED BY <1>2, <1>5, <1>6, <1>9 DEF With
-----------------------------------------------------------------------------
(* Derivation.                                                             *)

Segments == [index : Nat, hardened : BOOLEAN]
ExtendedKeys(ChainCodes) == [key : 1..(N - 1), chainCode : ChainCodes]

\* The right half of an HMAC is a chain code.
GivesChainCodes(ChainCodes) ==
    \A c \in ChainCodes, k \in 1..(N - 1), s \in Segments :
        Hmac(c, ChildData(k, s)).right \in ChainCodes

Derived(parent, segment) ==
    IF parent = Rejected THEN Rejected ELSE deriveChild(parent, segment)

(* A child is rejected or a valid key, and its index is below 2^31.        *)
LEMMA ChildType ==
    ASSUME NEW ChainCodes, GivesChainCodes(ChainCodes),
           NEW parent \in ExtendedKeys(ChainCodes) \cup {Rejected}, NEW segment \in Segments
    PROVE  /\ Derived(parent, segment) \in ExtendedKeys(ChainCodes) \cup {Rejected}
           /\ Derived(parent, segment) # Rejected
                => parent # Rejected /\ ~(segment.index >= HardenedOffset)
<1>1. CASE parent = Rejected
  BY <1>1 DEF Derived
<1>2. CASE parent # Rejected
  <2>1. /\ parent.key \in 1..(N - 1) /\ parent.chainCode \in ChainCodes
        /\ Hmac(parent.chainCode, ChildData(parent.key, segment)).right \in ChainCodes
    BY <1>2 DEF ExtendedKeys, GivesChainCodes
  <2> DEFINE sum == Hmac(parent.chainCode, ChildData(parent.key, segment))
             child == addScalarsModN(sum.left, parent.key)
  <2>2. Derived(parent, segment) =
          IF segment.index >= HardenedOffset \/ ~validPrivateKey(sum.left) \/ ~validPrivateKey(child)
            THEN Rejected ELSE [key |-> child, chainCode |-> sum.right]
    BY <1>2 DEF Derived, deriveChild
  <2>3. sum.right \in ChainCodes
    BY <2>1
  <2> HIDE DEF sum, child
  <2> QED BY <1>2, <2>2, <2>3 DEF ExtendedKeys, validPrivateKey
<1> QED BY <1>1, <1>2

\* The extended keys on the way along a path.
Derivation(derived, master, path, ChainCodes) ==
    /\ derived \in [0..Len(path) -> ExtendedKeys(ChainCodes) \cup {Rejected}]
    /\ derived[0] = IF validPrivateKey(master.key) THEN master ELSE Rejected
    /\ \A i \in 1..Len(path) : derived[i] = Derived(derived[i - 1], path[i])

(* The recursion of DerivePrivateKey is defined along every path, and each *)
(* of its values is rejected or an extended key.                           *)
LEMMA DerivationExists ==
    ASSUME NEW ChainCodes, GivesChainCodes(ChainCodes),
           NEW master \in [key : Nat, chainCode : ChainCodes], NEW path \in Seq(Segments)
    PROVE  \E derived : /\ Derivation(derived, master, path, ChainCodes)
                        /\ DerivePrivateKey(master, path) = derived[Len(path)]
<1> DEFINE n == Len(path)
           first == IF validPrivateKey(master.key) THEN master ELSE Rejected
           S == ExtendedKeys(ChainCodes) \cup {Rejected}
           derived[i \in 0..n] == IF i = 0 THEN first ELSE Derived(derived[i - 1], path[i])
           step == [p \in (1..n) \X S |-> Derived(p[2], path[p[1]])]
<1>1. n \in Nat /\ \A i \in 1..n : path[i] \in Segments
  <2> HIDE DEF S
  <2>1. \A T : path \in Seq(T) => n \in Nat /\ \A i \in 1..n : path[i] \in T
    OBVIOUS
  <2> QED BY <2>1
<1>2. DerivePrivateKey(master, path) = derived[n]
  BY DEF DerivePrivateKey, Derived
<1> HIDE DEF n
<1>3. first \in S
  BY DEF validPrivateKey, ExtendedKeys
<1>4. \A i \in 1..n, d \in S : Derived(d, path[i]) \in S
  BY <1>1, ChildType
<1>5. derived \in [0..n -> S]
  /\ derived = [i \in 0..n |-> IF i = 0 THEN first ELSE Derived(derived[i - 1], path[i])]
  <2>1. /\ step \in [(1..n) \X S -> S]
        /\ \A i \in 1..n, d \in S : step[<<i, d>>] = Derived(d, path[i])
    BY <1>4
  <2> HIDE DEF step, S, first
  <2>2. PICK f \in [0..n -> S] : Iterates(f, n, first, step)
    BY <1>1, <1>3, <2>1, Recursion
  <2>3. \A i \in 1..n : f[i - 1] \in S
    BY <1>1
  <2>4. \A i \in 1..n : f[i] = Derived(f[i - 1], path[i])
    BY <2>1, <2>2, <2>3 DEF Iterates
  <2>5. f = [i \in 0..n |-> IF i = 0 THEN first ELSE Derived(f[i - 1], path[i])]
    BY <1>1, <2>2, <2>4 DEF Iterates
  <2>6. derived = [i \in 0..n |-> IF i = 0 THEN first ELSE Derived(derived[i - 1], path[i])]
    BY <2>5
  <2> HIDE DEF derived
  <2> DEFINE T == {i \in 0..n : derived[i] \in S}
  <2>7. 0 \in T
    BY <1>1, <1>3, <2>6
  <2>8. ASSUME NEW i \in 0..(n - 1), i \in T
        PROVE  i + 1 \in T
    <3>1. derived[i + 1] = Derived(derived[i], path[i + 1]) /\ i + 1 \in 1..n /\ derived[i] \in S
      BY <1>1, <2>6, <2>8
    <3> QED BY <1>1, <1>4, <3>1
  <2> HIDE DEF T
  <2>9. \A i \in 0..n : i \in T
    BY <1>1, <2>7, <2>8, UpTo
  <2> QED BY <2>6, <2>9 DEF T
<1> HIDE DEF derived
<1>6. Derivation(derived, master, path, ChainCodes)
  <2>1. derived \in [0..n -> S] /\ derived[0] = first
    <3> HIDE DEF S, first
    <3> QED BY ONLY <1>1, <1>5
  <2>2. \A i \in 1..n : derived[i] = Derived(derived[i - 1], path[i])
    <3> HIDE DEF S, first
    <3> QED BY ONLY <1>1, <1>5
  <2> QED BY ONLY <2>1, <2>2, Zenon DEF Derivation, n
<1> QED BY <1>2, <1>6 DEF n

(* Whatever the master key and the path, what is derived is refused or is  *)
(* a key the curve has, and then every index was below the hardened bit    *)
(* (DerivePrivateKey in hdwallet.go 102-219).                              *)
THEOREM DerivedKeysAreValid ==
    ASSUME NEW ChainCodes, GivesChainCodes(ChainCodes),
           NEW master \in [key : Nat, chainCode : ChainCodes], NEW path \in Seq(Segments),
           DerivePrivateKey(master, path) # Rejected
    PROVE  /\ DerivePrivateKey(master, path) \in ExtendedKeys(ChainCodes)
           /\ validPrivateKey(master.key)
           /\ \A i \in DOMAIN path : ~(path[i].index >= HardenedOffset)
<1> DEFINE n == Len(path)
<1>1. n \in Nat /\ DOMAIN path = 1..n /\ \A i \in 1..n : path[i] \in Segments
  <2>1. \A T : path \in Seq(T) => /\ n \in Nat /\ DOMAIN path = 1..n
                                  /\ \A i \in 1..n : path[i] \in T
    OBVIOUS
  <2> QED BY <2>1
<1>2. PICK derived : /\ Derivation(derived, master, path, ChainCodes)
                     /\ DerivePrivateKey(master, path) = derived[n]
  BY DerivationExists
<1> HIDE DEF n
<1>3. /\ derived[0] = IF validPrivateKey(master.key) THEN master ELSE Rejected
      /\ \A i \in 0..n : derived[i] \in ExtendedKeys(ChainCodes) \cup {Rejected}
      /\ \A i \in 1..n : derived[i] = Derived(derived[i - 1], path[i])
  BY <1>2 DEF Derivation, n
<1> DEFINE Accepted(i) == /\ validPrivateKey(master.key)
                          /\ \A j \in 1..i : ~(path[j].index >= HardenedOffset)
           T == {i \in 0..n : derived[i] # Rejected => Accepted(i)}
<1>4. 0 \in T
  BY <1>1, <1>3
<1>5. ASSUME NEW i \in 0..(n - 1), i \in T
      PROVE  i + 1 \in T
  <2>1. /\ i + 1 \in 1..n /\ derived[i + 1] = Derived(derived[i], path[i + 1])
        /\ path[i + 1] \in Segments /\ derived[i] \in ExtendedKeys(ChainCodes) \cup {Rejected}
    BY <1>1, <1>3
  <2>2. ASSUME derived[i + 1] # Rejected
        PROVE  Accepted(i + 1)
    <3>1. derived[i] # Rejected /\ ~(path[i + 1].index >= HardenedOffset)
      BY <2>1, <2>2, ChildType
    <3> QED BY <1>1, <1>5, <3>1
  <2> QED BY <1>1, <2>1, <2>2
<1> HIDE DEF T
<1>6. n \in T
  BY <1>1, <1>4, <1>5, UpTo
<1> QED BY <1>1, <1>2, <1>3, <1>6 DEF T

(* If the wallets of a root at two indexes have one chain code, the HMAC   *)
(* collides: under the chain code of the key they are both derived from it *)
(* gives the same half for the different data of the two indexes           *)
(* (WalletPath and DerivePrivateKey in hdwallet.go 102-219).               *)
THEOREM WalletsDiffer ==
    ASSUME HardenedOffset \in Nat,
           NEW ChainCodes, GivesChainCodes(ChainCodes),
           NEW master \in [key : Nat, chainCode : ChainCodes],
           NEW i \in Nat, NEW j \in Nat, i # j,
           DerivePrivateKey(master, BIP44(i)) # Rejected,
           DerivePrivateKey(master, BIP44(j)) # Rejected,
           DerivePrivateKey(master, BIP44(i)).chainCode
             = DerivePrivateKey(master, BIP44(j)).chainCode
    PROVE  \E parent \in ExtendedKeys(ChainCodes) :
             LET data(k) == ChildData(parent.key, [index |-> k, hardened |-> FALSE])
             IN /\ data(i) # data(j)
                /\ Hmac(parent.chainCode, data(i)).right = Hmac(parent.chainCode, data(j)).right
<1> DEFINE leaf(k) == [index |-> k, hardened |-> FALSE]
           Wallet(k) == DerivePrivateKey(master, BIP44(k))
<1>1. ASSUME NEW k \in Nat
      PROVE  /\ BIP44(k) \in Seq(Segments) /\ Len(BIP44(k)) = 5 /\ DOMAIN BIP44(k) = 1..5
             /\ BIP44(k)[5] = leaf(k)
             /\ \A m \in 1..4 : BIP44(k)[m] = BIP44(0)[m]
  BY DEF BIP44, Segments
<1>2. \A k \in Nat : leaf(k) \in Segments /\ leaf(k).index = k
  BY DEF Segments
<1> HIDE DEF leaf
<1>3. ASSUME NEW k \in Nat, Wallet(k) # Rejected
      PROVE  ~(k >= HardenedOffset)
  <2> DEFINE path == BIP44(k)
  <2>1. path \in Seq(Segments) /\ 5 \in DOMAIN path /\ path[5].index = k
    BY <1>1, <1>2
  <2>2. DerivePrivateKey(master, path) # Rejected
    BY <1>3
  <2> HIDE DEF path
  <2>3. ~(path[5].index >= HardenedOffset)
    BY <2>1, <2>2, DerivedKeysAreValid
  <2> QED BY <2>1, <2>3
<1> DEFINE S == ExtendedKeys(ChainCodes) \cup {Rejected}
           WayTo(d, k) == /\ Wallet(k) = d[5] /\ d[4] \in S
                          /\ d[0] = IF validPrivateKey(master.key) THEN master ELSE Rejected
                          /\ \A m \in 1..4 : d[m] = Derived(d[m - 1], BIP44(0)[m])
                          /\ d[5] = Derived(d[4], leaf(k))
<1>4. ASSUME NEW k \in Nat
      PROVE  \E d : WayTo(d, k)
  <2> DEFINE path == BIP44(k)
  <2>1. /\ path \in Seq(Segments) /\ Len(path) = 5 /\ path[5] = leaf(k)
        /\ \A m \in 1..4 : path[m] = BIP44(0)[m]
    BY <1>1
  <2> HIDE DEF path
  <2>2. PICK d : /\ Derivation(d, master, path, ChainCodes)
                 /\ DerivePrivateKey(master, path) = d[Len(path)]
    <3>1. master \in [key : Nat, chainCode : ChainCodes] /\ GivesChainCodes(ChainCodes)
      OBVIOUS
    <3> QED BY ONLY <2>1, <3>1, DerivationExists
  <2>3. WayTo(d, k)
    BY <2>1, <2>2 DEF Derivation, path
  <2> QED BY <2>3
<1>5. PICK d : WayTo(d, i)
  <2> HIDE DEF WayTo
  <2> QED BY <1>4
<1>6. PICK e : WayTo(e, j)
  <2> HIDE DEF WayTo
  <2> QED BY <1>4
<1>7. d[4] = e[4]
  <2>1. d[1] = e[1]
    BY <1>5, <1>6
  <2>2. d[2] = e[2]
    BY <1>5, <1>6, <2>1
  <2>3. d[3] = e[3]
    BY <1>5, <1>6, <2>2
  <2> QED BY <1>5, <1>6, <2>3
<1> DEFINE parent == d[4]
           half(k) == Hmac(parent.chainCode, ChildData(parent.key, leaf(k)))
<1>8. parent \in ExtendedKeys(ChainCodes)
  BY <1>5 DEF Derived
<1>9. ASSUME NEW k \in Nat, Derived(parent, leaf(k)) # Rejected
      PROVE  Derived(parent, leaf(k)).chainCode = half(k).right
  BY <1>8, <1>9 DEF Derived, deriveChild
<1>10. Wallet(i).chainCode = half(i).right /\ Wallet(j).chainCode = half(j).right
  BY <1>5, <1>6, <1>7, <1>9
<1>11. ChildData(parent.key, leaf(i)) # ChildData(parent.key, leaf(j))
  <2> DEFINE Steps == [index : 0..(HardenedOffset - 1), hardened : BOOLEAN]
  <2>1. leaf(i) \in Steps /\ leaf(j) \in Steps
    BY <1>3 DEF leaf
  <2>2. leaf(i) # leaf(j)
    BY <1>2
  <2> QED BY <2>1, <2>2, StepsDiffer
<1>12. half(i).right = half(j).right
  BY <1>10
<1> QED BY <1>8, <1>11, <1>12 DEF leaf
-----------------------------------------------------------------------------
(* Verification.                                                           *)

\* a and b are equal modulo N.
Congruent(a, b) == \E q \in Int : a = b + q * N

(* A remainder modulo N is congruent to the number.                        *)
LEMMA RemainderIsCongruent ==
    ASSUME N \in Nat \ {0}, NEW v \in Int
    PROVE  v % N \in 0..(N - 1) /\ Congruent(v % N, v)
<1>1. v % N \in 0..(N - 1) /\ v \div N \in Int /\ v = N * (v \div N) + (v % N)
  OBVIOUS
<1>2. v % N = v + (-(v \div N)) * N /\ -(v \div N) \in Int
  BY <1>1
<1> QED BY <1>1, <1>2 DEF Congruent

(* Congruent remainders are equal.                                         *)
LEMMA CongruentIsEqual ==
    ASSUME N \in Nat \ {0}, NEW a \in 0..(N - 1), NEW b \in 0..(N - 1), Congruent(a, b)
    PROVE  a = b
<1>1. PICK q \in Int : a = b + q * N
  BY DEF Congruent
<1>2. q * N < N /\ q * N > -N
  BY <1>1
<1>3. CASE q >= 1
  BY <1>2, <1>3
<1>4. CASE q <= -1
  BY <1>2, <1>4
<1>5. CASE q = 0
  BY <1>1, <1>5
<1> QED BY <1>3, <1>4, <1>5

(* Congruence is an equivalence.                                           *)
LEMMA CongruenceIsEquivalence ==
    ASSUME N \in Nat \ {0}, NEW a \in Int, NEW b \in Int, NEW c \in Int
    PROVE  /\ Congruent(a, a)
           /\ Congruent(a, b) => Congruent(b, a)
           /\ Congruent(a, b) /\ Congruent(b, c) => Congruent(a, c)
<1>1. Congruent(a, a)
  <2>1. a = a + 0 * N
    OBVIOUS
  <2> QED BY <2>1 DEF Congruent
<1>2. ASSUME Congruent(a, b) PROVE Congruent(b, a)
  <2>1. PICK q \in Int : a = b + q * N
    BY <1>2 DEF Congruent
  <2>2. b = a + (-q) * N /\ -q \in Int
    BY <2>1
  <2> QED BY <2>2 DEF Congruent
<1>3. ASSUME Congruent(a, b), Congruent(b, c) PROVE Congruent(a, c)
  <2>1. PICK q \in Int : a = b + q * N
    BY <1>3 DEF Congruent
  <2>2. PICK p \in Int : b = c + p * N
    BY <1>3 DEF Congruent
  <2>3. a = c + (p + q) * N /\ p + q \in Int
    BY <2>1, <2>2
  <2> QED BY <2>3 DEF Congruent
<1> QED BY <1>1, <1>2, <1>3

(* A number is added to both sides of a congruence.                        *)
LEMMA CongruenceAdds ==
    ASSUME N \in Nat \ {0}, NEW a \in Int, NEW b \in Int, NEW c \in Int, NEW d \in Int,
           Congruent(a, b), Congruent(c, d)
    PROVE  Congruent(a + c, b + d)
<1>1. PICK p \in Int : a = b + p * N
  BY DEF Congruent
<1>2. PICK q \in Int : c = d + q * N
  BY DEF Congruent
<1>3. a + c = (b + d) + (p + q) * N /\ p + q \in Int
  BY <1>1, <1>2
<1> QED BY <1>3 DEF Congruent

(* Both sides of a congruence are multiplied by a number.                  *)
LEMMA CongruenceMultiplies ==
    ASSUME N \in Nat \ {0}, NEW a \in Int, NEW b \in Int, NEW c \in Int, Congruent(a, b)
    PROVE  Congruent(a * c, b * c)
<1>1. PICK p \in Int : a = b + p * N
  BY DEF Congruent
<1>2. a * c = b * c + (p * c) * N /\ p * c \in Int
  BY <1>1
<1> QED BY <1>2 DEF Congruent

\* s0 is what the nonce k gives, s that or its mirror image, and u1 and u2
\* are the scalars that a verification multiplies.
Recovers(key, z, r, k, inverse, s0, s, w, u1, u2) ==
    /\ key \in Nat /\ z \in Nat /\ r \in Nat
    /\ k \in 1..(N - 1) /\ inverse \in 1..(N - 1) /\ Congruent(k * inverse, 1)
    /\ s0 \in 1..(N - 1) /\ Congruent(s0, (r * key + z) * inverse)
    /\ s \in 1..(N - 1) /\ w \in 1..(N - 1) /\ Congruent(s * w, 1)
    /\ u1 \in Nat /\ Congruent(u1, z * w) /\ u2 \in Nat /\ Congruent(u2, r * w)

(* The scalar that verifySignature multiplies the base point by is the     *)
(* nonce, or its mirror image when s was.                                  *)
LEMMA NonceIsRecovered ==
    ASSUME N \in Nat \ {0},
           NEW key, NEW z, NEW r, NEW k, NEW inverse, NEW s0, NEW s, NEW w, NEW u1, NEW u2,
           Recovers(key, z, r, k, inverse, s0, s, w, u1, u2)
    PROVE  /\ s = s0 => (u1 + ((key * u2) % N)) % N = k
           /\ s = N - s0 => (u1 + ((key * u2) % N)) % N = N - k
<1> USE DEF Recovers
<1> DEFINE m == r * key + z
           u == u1 + ((key * u2) % N)
<1>1. /\ m \in Int /\ k \in Int /\ inverse \in Int /\ s0 \in Int /\ s \in Int /\ w \in Int
      /\ key * u2 \in Int /\ m * inverse \in Int /\ m * w \in Int /\ s0 * k \in Int
      /\ s0 * w \in Int /\ k * inverse \in Int /\ z * w \in Int /\ r * w \in Int
      /\ key \in Int /\ u1 \in Int /\ u2 \in Int /\ s * w \in Int /\ -k \in Int /\ 1 \in Int
  OBVIOUS
<1>2. u \in Int /\ u % N \in 0..(N - 1) /\ Congruent(u % N, u)
  BY <1>1, RemainderIsCongruent
<1>3. Congruent(u, m * w)
  <2>1. Congruent((key * u2) % N, key * u2) /\ (key * u2) % N \in Int
    BY <1>1, RemainderIsCongruent
  <2>2. Congruent(u2 * key, (r * w) * key)
    BY <1>1, CongruenceMultiplies, Zenon
  <2>3. u2 * key = key * u2 /\ (r * w) * key \in Int
    BY <1>1
  <2>4. Congruent((key * u2) % N, (r * w) * key)
    BY <1>1, <2>1, <2>2, <2>3, CongruenceIsEquivalence
  <2>5. Congruent(u, z * w + (r * w) * key)
    <3> DEFINE v == (key * u2) % N  x == z * w  y == (r * w) * key
    <3>1. /\ u1 \in Int /\ v \in Int /\ x \in Int /\ y \in Int
          /\ Congruent(u1, x) /\ Congruent(v, y)
      BY <1>1, <2>1, <2>3, <2>4
    <3> HIDE DEF v, x, y
    <3>2. Congruent(u1 + v, x + y)
      BY <3>1, CongruenceAdds
    <3>3. u1 + v = u
      BY DEF v
    <3>4. x + y = z * w + (r * w) * key
      BY DEF x, y
    <3> HIDE DEF u
    <3> QED BY <3>2, <3>3, <3>4, Zenon
  <2>6. z * w + (r * w) * key = m * w
    OBVIOUS
  <2> QED BY <2>5, <2>6
<1>4. Congruent(m, s0 * k)
  <2>1. Congruent(s0 * k, (m * inverse) * k)
    BY <1>1, CongruenceMultiplies
  <2>2. Congruent((k * inverse) * m, 1 * m)
    BY <1>1, CongruenceMultiplies, Zenon
  <2>3. (k * inverse) * m = (m * inverse) * k /\ 1 * m = m /\ (m * inverse) * k \in Int
    BY <1>1
  <2> QED BY <1>1, <2>1, <2>2, <2>3, CongruenceIsEquivalence
<1>5. Congruent(m * w, (s0 * w) * k)
  <2>1. Congruent(m * w, (s0 * k) * w)
    BY <1>1, <1>4, CongruenceMultiplies
  <2>2. (s0 * k) * w = (s0 * w) * k
    BY <1>1
  <2> QED BY <2>1, <2>2
<1>6. Congruent(u % N, (s0 * w) * k) /\ (s0 * w) * k \in Int /\ u % N \in Int
  <2>1. (s0 * w) * k \in Int /\ u % N \in Int
    BY <1>1, <1>2
  <2> HIDE DEF m, u
  <2> QED BY <1>1, <1>2, <1>3, <1>5, <2>1, CongruenceIsEquivalence
<1> HIDE DEF m, u
<1>7. ASSUME s = s0
      PROVE  u % N = k
  <2>1. Congruent((s0 * w) * k, 1 * k) /\ 1 * k = k
    <3>1. Congruent(s0 * w, 1)
      BY <1>7
    <3>2. Congruent((s0 * w) * k, 1 * k)
      BY <1>1, <3>1, CongruenceMultiplies, Zenon
    <3> QED BY <1>1, <3>2
  <2>2. Congruent(u % N, k)
    BY <1>1, <1>6, <2>1, CongruenceIsEquivalence
  <2> QED BY <1>2, <2>2, CongruentIsEqual
<1>8. ASSUME s = N - s0
      PROVE  u % N = N - k
  <2>1. Congruent((s * w) * (-k), 1 * (-k))
    BY <1>1, CongruenceMultiplies, Zenon
  <2>2. Congruent((s0 * w) * k, (s * w) * (-k))
    <3>1. (s0 * w) * k = (s * w) * (-k) + (w * k) * N /\ w * k \in Int
      BY <1>1, <1>8
    <3> QED BY <3>1 DEF Congruent
  <2>3. Congruent(1 * (-k), N - k)
    <3>1. 1 * (-k) = (N - k) + (-1) * N /\ -1 \in Int
      BY <1>1
    <3> QED BY <3>1 DEF Congruent
  <2>4. (s * w) * (-k) \in Int /\ 1 * (-k) \in Int /\ N - k \in 0..(N - 1) /\ N - k \in Int
    BY <1>1
  <2>5. Congruent(u % N, (s * w) * (-k))
    BY <1>6, <2>2, <2>4, CongruenceIsEquivalence
  <2>6. Congruent(u % N, 1 * (-k))
    BY <1>6, <2>1, <2>4, <2>5, CongruenceIsEquivalence
  <2>7. Congruent(u % N, N - k)
    BY <1>6, <2>3, <2>4, <2>6, CongruenceIsEquivalence
  <2> QED BY <1>2, <2>4, <2>7, CongruentIsEqual
<1> QED BY <1>7, <1>8 DEF u

(* A key that is no multiple of the order has a point with two coordinates *)
(* of which the second is not zero; its mirror image has the other parity. *)
LEMMA KeyPoints ==
    ASSUME PrimeField, PrimeOrder, CyclicGroup, Bits \in Nat, Base \in Coordinates,
           NEW k \in 1..(N - 1)
    PROVE  /\ scalarBaseMult(k) # Infinity
           /\ scalarBaseMult(k)[1] \in 0..(P - 1) /\ scalarBaseMult(k)[2] \in 1..(P - 1)
           /\ scalarBaseMult(N - k) # Infinity
           /\ scalarBaseMult(N - k)[1] = scalarBaseMult(k)[1]
           /\ scalarBaseMult(N - k)[2] % 2 = 1 - (scalarBaseMult(k)[2] % 2)
<1>1. N \in Nat /\ P \in Nat /\ P % 2 = 1
  BY DEF PrimeField, PrimeOrder
<1>2. ASSUME NEW l \in 1..(N - 1)
      PROVE  /\ scalarBaseMult(l) # Infinity
             /\ scalarBaseMult(l)[1] \in 0..(P - 1) /\ scalarBaseMult(l)[2] \in 0..(P - 1)
  <2>1. scalarBaseMult(l) \in ReducedPoints
    BY MultiplesAreReduced DEF scalarBaseMult, ReducedPoints
  <2>2. scalarBaseMult(l) # Infinity
    BY DEF PrimeOrder
  <2> QED BY <2>1, <2>2 DEF ReducedPoints, Coordinates
<1>3. N - k \in 1..(N - 1)
  BY <1>1
<1> DEFINE x == scalarBaseMult(k)[1]
           y == scalarBaseMult(k)[2]
<1>4. scalarBaseMult(N - k) = <<x, P - y>>
  BY DEF CyclicGroup
<1>5. x \in 0..(P - 1) /\ y \in 0..(P - 1) /\ P - y \in 0..(P - 1)
  BY <1>2, <1>3, <1>4
<1> HIDE DEF x, y
<1>6. (P - y) % 2 = 1 - (y % 2)
  BY <1>1, <1>5
<1> QED BY <1>1, <1>2, <1>3, <1>4, <1>5, <1>6 DEF x, y

(* A signature that SignDigest returns is accepted for the public key of   *)
(* its key with its recovery id, and with the other one it is not          *)
(* (signature.go 74-130 and 167-215), on every curve whose base point      *)
(* generates a group of odd prime order.                                   *)
THEOREM SignaturesVerify ==
    ASSUME PrimeField, PrimeOrder, CyclicGroup, Bits \in Nat, Base \in Coordinates,
           NEW key \in Nat, NEW digest \in Nat, NEW nonces \in Seq(1..(N - 1)),
           SignDigest(key, digest, nonces) # Rejected
    PROVE  LET sig == SignDigest(key, digest, nonces)
               q == scalarBaseMult(key)
           IN \A id \in {0, 1} :
                verifySignature(q, digest, [sig EXCEPT !.recoveryID = id], TRUE)
                    <=> id = sig.recoveryID
<1> DEFINE sig == SignDigest(key, digest, nonces)
           q == scalarBaseMult(key)
<1>1. validPrivateKey(key) /\ InForm(sig)
  BY SignaturesAreLow
<1>2. PICK i \in DOMAIN nonces : sig = SignWithNonce(key, digest, nonces[i])
  BY SignaturesAreLow
<1> DEFINE k == nonces[i]
           inverse == ModInverse(k, N)
           point == scalarBaseMult(k)
           r == point[1]
           z == digest % N
           s0 == ((r * key + z) * inverse) % N
<1>3. k \in 1..(N - 1)
  <2> DEFINE Scalars == 1..(N - 1)
  <2>1. nonces \in Seq(Scalars)
    OBVIOUS
  <2> HIDE DEF Scalars
  <2>2. k \in Scalars
    BY <1>2, <2>1
  <2> QED BY <2>2 DEF Scalars
<1>4. N \in Nat \ {0} /\ P \in Nat /\ key \in 1..(N - 1)
  BY <1>1 DEF PrimeField, PrimeOrder, validPrivateKey
<1>5. /\ r \in 0..(P - 1) /\ point[2] \in 1..(P - 1) /\ point # Infinity
      /\ inverse \in 1..(N - 1) /\ (k * inverse) % N = 1
  BY <1>3, KeyPoints, InversesOfOrder
<1>6. sig # Rejected
  OBVIOUS
<1>7. /\ \E s, parity : sig = [r |-> r, s |-> s, recoveryID |-> parity]
      /\ r < N /\ r # 0 /\ s0 # 0 /\ sig.r = r
      /\ \/ sig.s = s0 /\ sig.recoveryID = point[2] % 2
         \/ sig.s = N - s0 /\ sig.recoveryID = 1 - (point[2] % 2)
  <2> HIDE DEF sig
  <2>1. sig = IF r >= N \/ r = 0 \/ s0 = 0 THEN Rejected
              ELSE IF LowS(s0) THEN [r |-> r, s |-> s0, recoveryID |-> point[2] % 2]
              ELSE [r |-> r, s |-> N - s0, recoveryID |-> 1 - (point[2] % 2)]
    BY <1>2 DEF SignWithNonce
  <2> HIDE DEF r, s0, point
  <2>2. r < N
    BY <1>4, <1>5, <1>6, <2>1 DEF PrimeField
  <2> QED BY <1>6, <2>1, <2>2
<1>8. sig.s \in 1..(N - 1) /\ s0 \in 1..(N - 1)
  <2>1. (r * key + z) * inverse \in Int
    <3>1. z \in Int /\ key \in Int /\ r \in Int /\ inverse \in Int
      BY <1>4, <1>5
    <3> HIDE DEF z, r, inverse
    <3> QED BY <3>1
  <2>2. s0 \in 0..(N - 1)
    BY <1>4, <2>1
  <2> HIDE DEF s0, sig
  <2> QED BY <1>1, <1>7, <2>2 DEF InForm, validSignatureScalar
<1> DEFINE w == ModInverse(sig.s, N)
           u1 == (z * w) % N
           u2 == (r * w) % N
           u == (u1 + ((key * u2) % N)) % N
<1>9. w \in 1..(N - 1) /\ (sig.s * w) % N = 1
  <2> HIDE DEF sig
  <2> QED BY <1>8, InversesOfOrder
<1>10. /\ sig.s = s0 => u = k
       /\ sig.s = N - s0 => u = N - k
       /\ u1 \in 0..(N - 1) /\ u2 \in 0..(N - 1)
  <2> DEFINE m == (r * key + z) * inverse
  <2>1. z \in Nat /\ r \in Nat /\ key \in Nat /\ w \in Int /\ k \in Int /\ inverse \in Int
    BY <1>3, <1>4, <1>5, <1>9
  <2>2. sig.s \in Int
    BY <1>8
  <2> HIDE DEF sig, w, z, r, inverse, k
  <2>3. k * inverse \in Int /\ m \in Int /\ sig.s * w \in Int /\ z * w \in Int /\ r * w \in Int
    BY <2>1, <2>2
  <2>4. Congruent(1, k * inverse) /\ Congruent(1, sig.s * w)
    BY <1>4, <1>5, <1>9, <2>3, RemainderIsCongruent
  <2>5. Congruent(k * inverse, 1) /\ Congruent(sig.s * w, 1)
    BY <1>4, <2>3, <2>4, CongruenceIsEquivalence
  <2>6. Congruent(s0, m)
    BY <1>4, <2>3, RemainderIsCongruent
  <2>7. /\ u1 \in Nat /\ Congruent(u1, z * w) /\ u1 \in 0..(N - 1)
        /\ u2 \in Nat /\ Congruent(u2, r * w) /\ u2 \in 0..(N - 1)
    <3> DEFINE a == z * w  b == r * w
    <3>1. a \in Int /\ b \in Int
      BY <2>3
    <3> HIDE DEF a, b
    <3>2. /\ a % N \in 0..(N - 1) /\ Congruent(a % N, a)
          /\ b % N \in 0..(N - 1) /\ Congruent(b % N, b)
      BY <1>4, <3>1, RemainderIsCongruent
    <3>3. a % N \in Nat /\ b % N \in Nat
      BY <1>4, <3>2
    <3> QED BY <3>2, <3>3, Zenon DEF a, b
  <2> DEFINE s == sig.s
  <2>8. s \in 1..(N - 1)
    BY <1>8
  <2> HIDE DEF u1, u2, s0, s
  <2>9. /\ s = s0 => u = k
        /\ s = N - s0 => u = N - k
    <3>1. Recovers(key, z, r, k, inverse, s0, s, w, u1, u2)
      BY <1>3, <1>4, <1>5, <1>8, <1>9, <2>1, <2>5, <2>6, <2>7, <2>8 DEF Recovers, k, inverse, w, s
    <3> QED BY <1>4, <3>1, NonceIsRecovered
  <2> QED BY <2>7, <2>9 DEF s
<1> DEFINE found == pointAdd(scalarBaseMult(u1), scalarMult(q, u2))
<1>11. found = scalarBaseMult(u)
  <2>1. key \in 0..(N - 1) /\ (key * u2) % N \in 0..(N - 1)
    <3>1. key * u2 \in Int
      BY <1>4, <1>10
    <3> HIDE DEF u2
    <3> QED BY <1>4, <3>1
  <2> HIDE DEF u1, u2
  <2>2. scalarMult(q, u2) = scalarBaseMult((key * u2) % N)
    BY <1>10, <2>1 DEF CyclicGroup
  <2> QED BY <1>10, <2>1, <2>2 DEF CyclicGroup
<1>12. /\ found # Infinity /\ found[1] = r
       /\ found[2] % 2 = sig.recoveryID
  <2>1. CASE sig.s = s0 /\ sig.recoveryID = point[2] % 2
    BY <1>5, <1>10, <1>11, <2>1
  <2>2. CASE sig.s = N - s0 /\ sig.recoveryID = 1 - (point[2] % 2)
    BY <1>3, <1>10, <1>11, <2>2, KeyPoints
  <2> QED BY <1>7, <2>1, <2>2
<1>13. ValidPublicKey(q) /\ q = scalarBaseMult(key)
  BY <1>4 DEF CyclicGroup
<1>14. sig.recoveryID \in {0, 1} /\ LowS(sig.s) /\ validSignatureScalar(sig.r) /\ validSignatureScalar(sig.s)
  BY <1>1 DEF InForm
<1>15. r % N = r
  <2>1. r \in 0..(N - 1)
    BY <1>4, <1>5, <1>7
  <2>2. r \in Int /\ r % N \in 0..(N - 1) /\ Congruent(r % N, r)
    <3> HIDE DEF r
    <3>1. r \in Int
      BY <1>4, <2>1
    <3>2. \A v \in Int : v % N \in 0..(N - 1) /\ Congruent(v % N, v)
      BY <1>4, RemainderIsCongruent
    <3> QED BY <3>1, <3>2, Zenon
  <2> HIDE DEF r
  <2> QED BY <1>4, <2>1, <2>2, CongruentIsEqual
<1>16. ASSUME NEW id \in {0, 1}
       PROVE  verifySignature(q, digest, [sig EXCEPT !.recoveryID = id], TRUE)
                <=> id = sig.recoveryID
  <2> DEFINE claimed == [sig EXCEPT !.recoveryID = id]
  <2>1. claimed.r = sig.r /\ claimed.s = sig.s /\ claimed.recoveryID = id
    <3> HIDE DEF sig, r
    <3> QED BY <1>7
  <2> HIDE DEF claimed, sig
  <2>2. verifySignature(q, digest, claimed, TRUE) <=>
          /\ validSignatureScalar(sig.r) /\ validSignatureScalar(sig.s)
          /\ ValidPublicKey(q) /\ LowS(sig.s)
          /\ found # Infinity /\ found[1] % N = sig.r /\ found[2] % 2 = id
    <3> DEFINE Point(t) == pointAdd(scalarBaseMult((z * ModInverse(t.s, N)) % N),
                                    scalarMult(q, (t.r * ModInverse(t.s, N)) % N))
    <3>1. verifySignature(q, digest, claimed, TRUE) <=>
            /\ validSignatureScalar(claimed.r) /\ validSignatureScalar(claimed.s)
            /\ ValidPublicKey(q) /\ LowS(claimed.s)
            /\ Point(claimed) # Infinity /\ Point(claimed)[1] % N = claimed.r
            /\ Point(claimed)[2] % 2 = claimed.recoveryID
      BY DEF verifySignature
    <3>2. Point(claimed) = found
      <4> HIDE DEF r
      <4> QED BY <1>7, <2>1
    <3> HIDE DEF Point, found
    <3> QED BY <2>1, <3>1, <3>2
  <2> HIDE DEF found, q, r
  <2> QED BY <1>7, <1>12, <1>13, <1>14, <1>15, <2>2 DEF claimed
<1> QED BY <1>16

(* The 65th byte is accepted as the recovery id or as 27 more, and so is   *)
(* no other (VerifyEthereumDigest in signature.go 159-165).                *)
THEOREM RecoveryBytesVerify ==
    ASSUME PrimeField, PrimeOrder, CyclicGroup, Bits \in Nat, Base \in Coordinates,
           NEW key \in Nat, NEW digest \in Nat, NEW nonces \in Seq(1..(N - 1)), NEW v,
           SignDigest(key, digest, nonces) # Rejected
    PROVE  LET sig == SignDigest(key, digest, nonces)
           IN VerifyEthereumDigest(scalarBaseMult(key), digest, sig, v)
                <=> v \in {sig.recoveryID, sig.recoveryID + 27}
<1> DEFINE sig == SignDigest(key, digest, nonces)
           q == scalarBaseMult(key)
           Accepts(id) == verifySignature(q, digest, [sig EXCEPT !.recoveryID = id], TRUE)
<1>1. sig.recoveryID \in {0, 1}
  BY SignaturesAreLow DEF InForm
<1>2. \A id \in {0, 1} : Accepts(id) <=> id = sig.recoveryID
  BY SignaturesVerify
<1>3. VerifyEthereumDigest(q, digest, sig, v) <=> \E id \in ParseRecoveryByte(v) : Accepts(id)
  BY DEF VerifyEthereumDigest
<1> HIDE DEF Accepts, sig
<1> QED BY <1>1, <1>2, <1>3 DEF ParseRecoveryByte, sig

(* A signature that is accepted for a key and a digest has no second form: *)
(* its mirror image is accepted for none (verifySignature, low S).         *)
THEOREM MirrorsAreRefused ==
    ASSUME N \in Nat, N % 2 = 1,
           NEW r, NEW s, NEW id, NEW q, NEW digest, NEW withID, NEW r2, NEW id2, NEW q2,
           NEW digest2, NEW withID2,
           verifySignature(q, digest, [r |-> r, s |-> s, recoveryID |-> id], withID)
    PROVE  ~verifySignature(q2, digest2, [r |-> r2, s |-> N - s, recoveryID |-> id2], withID2)
<1>1. s \in 1..(N - 1) /\ LowS(s)
  BY DEF verifySignature, validSignatureScalar
<1>2. ~LowS(N - s)
  BY <1>1, OneIsLow
<1> QED BY <1>2 DEF verifySignature
-----------------------------------------------------------------------------
(* Digits.                                                                 *)

\* What the two loops of addScalarsModN keep.
Carry(a, b, radix, width) ==
    LET carry[i \in 1..(width + 1)] ==
            IF i = width + 1 THEN 0 ELSE (a[i] + b[i] + carry[i + 1]) \div radix
    IN carry

SumDigits(a, b, radix, width) ==
    [i \in 1..width |-> (a[i] + b[i] + Carry(a, b, radix, width)[i + 1]) % radix]

Borrow(s, n, width) ==
    LET borrow[i \in 1..(width + 1)] ==
            IF i = width + 1 THEN 0 ELSE IF s[i] - n[i] - borrow[i + 1] < 0 THEN 1 ELSE 0
    IN borrow

RestDigits(s, n, radix, width) ==
    [i \in 1..width |-> (s[i] - n[i] - Borrow(s, n, width)[i + 1]) % radix]

(* The carries and the digits of a sum.                                    *)
LEMMA SumCarries ==
    ASSUME NEW width \in Nat, NEW radix \in Nat \ {0}, NEW a, NEW b,
           AreDigits(a, width, radix), AreDigits(b, width, radix)
    PROVE  LET s == SumDigits(a, b, radix, width)
           IN /\ AddsUp(a, b, s, Carry(a, b, radix, width), width, radix)
              /\ AreDigits(s, width, radix) /\ s \in [1..width -> 0..(radix - 1)]
<1> DEFINE Digit == 0..(radix - 1)
           Quotient(i, v) == (a[i] + b[i] + v) \div radix
           carry[i \in 1..(width + 1)] == IF i = width + 1 THEN 0 ELSE Quotient(i, carry[i + 1])
           sum == [i \in 1..width |-> (a[i] + b[i] + carry[i + 1]) % radix]
<1>1. /\ width \in Nat /\ carry = Carry(a, b, radix, width)
      /\ sum = SumDigits(a, b, radix, width)
  BY DEF Carry, SumDigits
<1>2. \A i \in 1..width : a[i] \in Nat /\ b[i] \in Nat
  BY DEF AreDigits
<1>4. \A i \in 1..width, v \in Nat : Quotient(i, v) \in Nat
  <2> SUFFICES ASSUME NEW i \in 1..width, NEW v \in Nat
               PROVE  Quotient(i, v) \in Nat
    OBVIOUS
  <2>1. a[i] + b[i] + v \in Nat
    BY <1>2
  <2> QED BY <2>1, QuotientAndRemainder
<1> HIDE DEF Quotient
<1>5. /\ carry \in [1..(width + 1) -> Nat] /\ carry[width + 1] = 0
      /\ \A i \in 1..width : carry[i] = Quotient(i, carry[i + 1])
  <2> DEFINE step == [p \in (1..width) \X Nat |-> Quotient(p[1], p[2])]
  <2>1. /\ step \in [(1..width) \X Nat -> Nat] /\ 0 \in Nat
        /\ \A i \in 1..width, v \in Nat : step[<<i, v>>] = Quotient(i, v)
    BY <1>4
  <2> HIDE DEF step
  <2>2. PICK f \in [1..(width + 1) -> Nat] : IteratesDown(f, width, 0, step)
    BY <1>1, <2>1, RecursionDown
  <2>3. \A i \in 1..width : f[i + 1] \in Nat
    BY <1>1
  <2>4. \A i \in 1..width : f[i] = Quotient(i, f[i + 1])
    BY <2>1, <2>2, <2>3 DEF IteratesDown
  <2>5. f = [i \in 1..(width + 1) |-> IF i = width + 1 THEN 0 ELSE Quotient(i, f[i + 1])]
    BY <1>1, <2>2, <2>4 DEF IteratesDown
  <2>6. carry = [i \in 1..(width + 1) |-> IF i = width + 1 THEN 0 ELSE Quotient(i, carry[i + 1])]
    BY <2>5
  <2> HIDE DEF carry
  <2> DEFINE T == {j \in 0..width : carry[(width + 1) - j] \in Nat}
  <2>7. 0 \in T
    BY <1>1, <2>6
  <2>8. ASSUME NEW j \in 0..(width - 1), j \in T
        PROVE  j + 1 \in T
    <3> DEFINE i == (width + 1) - (j + 1)
    <3>1. i \in 1..width /\ i + 1 = (width + 1) - j /\ i # width + 1 /\ i \in 1..(width + 1)
      BY <1>1
    <3>2. carry[i] = Quotient(i, carry[i + 1])
      BY <2>6, <3>1
    <3>3. carry[i + 1] \in Nat
      BY <2>8, <3>1
    <3>4. carry[i] \in Nat
      <4> HIDE DEF i
      <4> QED BY <1>4, <3>1, <3>2, <3>3
    <3>5. j + 1 \in 0..width
      BY <1>1
    <3> QED BY <3>4, <3>5
  <2> HIDE DEF T
  <2>9. \A j \in 0..width : j \in T
    BY ONLY <1>1, <2>7, <2>8, UpTo
  <2>10. ASSUME NEW i \in 1..(width + 1)
         PROVE  carry[i] \in Nat
    <3>1. (width + 1) - i \in 0..width /\ (width + 1) - ((width + 1) - i) = i
      BY <1>1
    <3> QED BY <2>9, <3>1 DEF T
  <2>11. carry \in [1..(width + 1) -> Nat]
    BY <2>6, <2>10
  <2>12. carry[width + 1] = 0 /\ \A i \in 1..width : carry[i] = Quotient(i, carry[i + 1])
    BY <1>1, <2>6
  <2> QED BY <2>11, <2>12
<1> HIDE DEF carry
<1>6. \A i \in 1..width : /\ sum[i] \in Digit
                          /\ a[i] + b[i] + carry[i + 1] = carry[i] * radix + sum[i]
  <2> SUFFICES ASSUME NEW i \in 1..width
               PROVE  /\ sum[i] \in Digit
                      /\ a[i] + b[i] + carry[i + 1] = carry[i] * radix + sum[i]
    OBVIOUS
  <2> DEFINE v == a[i] + b[i] + carry[i + 1]
  <2>1. i + 1 \in 1..(width + 1)
    BY <1>1
  <2>2. v \in Int
    BY <1>2, <1>5, <2>1
  <2>3. carry[i] = v \div radix /\ sum[i] = v % radix
    BY <1>5 DEF Quotient
  <2> HIDE DEF v, sum
  <2>4. sum[i] \in Digit /\ v = carry[i] * radix + sum[i]
    BY <2>2, <2>3, QuotientAndRemainder
  <2> QED BY <2>4 DEF v
<1>7. sum \in [1..width -> Digit]
  BY <1>6
<1>8. \A i \in 1..width : sum[i] \in Digit /\ sum[i] \in Nat
  BY <1>6
<1> HIDE DEF sum
<1> QED BY <1>1, <1>2, <1>5, <1>6, <1>7, <1>8 DEF AddsUp, AreDigits

(* The borrows and the digits of a difference: added to n they give s.     *)
LEMMA DifferenceBorrows ==
    ASSUME NEW width \in Nat, NEW radix \in Nat \ {0}, NEW s, NEW n,
           AreDigits(s, width, radix), AreDigits(n, width, radix)
    PROVE  LET rest == RestDigits(s, n, radix, width)
           IN /\ AddsUp(n, rest, s, Borrow(s, n, width), width, radix)
              /\ AreDigits(rest, width, radix) /\ rest \in [1..width -> 0..(radix - 1)]
<1> DEFINE Digit == 0..(radix - 1)
           Short(i, v) == IF s[i] - n[i] - v < 0 THEN 1 ELSE 0
           borrow[i \in 1..(width + 1)] == IF i = width + 1 THEN 0 ELSE Short(i, borrow[i + 1])
           rest == [i \in 1..width |-> (s[i] - n[i] - borrow[i + 1]) % radix]
<1>1. borrow = Borrow(s, n, width) /\ rest = RestDigits(s, n, radix, width)
  BY DEF Borrow, RestDigits
<1>2. \A i, v : Short(i, v) \in {0, 1}
  OBVIOUS
<1> HIDE DEF Short
<1>3. borrow = [i \in 1..(width + 1) |-> IF i = width + 1 THEN 0 ELSE Short(i, borrow[i + 1])]
  <2> DEFINE Bit == {0, 1}
             step == [p \in (1..width) \X Bit |-> Short(p[1], p[2])]
  <2>1. /\ step \in [(1..width) \X Bit -> Bit] /\ 0 \in Bit
        /\ \A i \in 1..width, v \in Bit : step[<<i, v>>] = Short(i, v)
    BY <1>2
  <2> HIDE DEF step, Bit
  <2>2. PICK f \in [1..(width + 1) -> Bit] : IteratesDown(f, width, 0, step)
    BY <2>1, RecursionDown
  <2>3. \A i \in 1..width : f[i + 1] \in Bit
    OBVIOUS
  <2>4. \A i \in 1..width : f[i] = Short(i, f[i + 1])
    BY <2>1, <2>2, <2>3 DEF IteratesDown
  <2>5. f = [i \in 1..(width + 1) |-> IF i = width + 1 THEN 0 ELSE Short(i, f[i + 1])]
    BY <2>2, <2>4 DEF IteratesDown
  <2> QED BY <2>5
<1> HIDE DEF borrow
<1>4. /\ borrow \in [1..(width + 1) -> {0, 1}] /\ borrow[width + 1] = 0
      /\ \A i \in 1..width : borrow[i] = Short(i, borrow[i + 1])
  BY <1>2, <1>3
<1>5. ASSUME NEW i \in 1..width
      PROVE  /\ rest[i] \in Digit
             /\ n[i] + rest[i] + borrow[i + 1] = borrow[i] * radix + s[i]
  <2> DEFINE d == s[i] - n[i] - borrow[i + 1]
  <2>1. /\ s[i] \in 0..(radix - 1) /\ n[i] \in 0..(radix - 1)
        /\ borrow[i + 1] \in {0, 1} /\ borrow[i] \in {0, 1}
    BY <1>4 DEF AreDigits
  <2>2. d \in Int /\ d < radix /\ d >= -radix
    BY <2>1
  <2>3. rest[i] = d % radix
    OBVIOUS
  <2>4. borrow[i] = IF d < 0 THEN 1 ELSE 0
    BY <1>4 DEF Short
  <2> HIDE DEF rest, d
  <2>9. \A v \in Int :
                      /\ v % radix \in Digit
                      /\ (v < 0 /\ v >= -radix) => v % radix = v + radix
                      /\ (v >= 0 /\ v < radix) => v % radix = v
    BY RemaindersOf
  <2>5. rest[i] \in Digit /\ rest[i] = d + borrow[i] * radix
    <3>1. CASE d < 0
      <4>1. rest[i] \in Digit /\ rest[i] = d + radix
        BY <2>2, <2>3, <3>1, <2>9
      <4>2. borrow[i] = 1 /\ borrow[i] * radix = radix
        BY <2>4, <3>1
      <4> QED BY <4>1, <4>2
    <3>2. CASE d >= 0
      <4>1. rest[i] \in Digit /\ rest[i] = d
        BY <2>2, <2>3, <3>2, <2>9
      <4>2. borrow[i] = 0 /\ borrow[i] * radix = 0
        BY <2>2, <2>4, <3>2
      <4> QED BY <2>2, <4>1, <4>2
    <3> QED BY <2>2, <3>1, <3>2
  <2> DEFINE more == borrow[i] * radix
  <2>6. more \in Int
    BY <2>1
  <2> HIDE DEF more
  <2>7. rest[i] = s[i] - n[i] - borrow[i + 1] + more
    BY <2>5 DEF d, more
  <2>8. n[i] + rest[i] + borrow[i + 1] = more + s[i]
    BY <2>1, <2>6, <2>7
  <2> QED BY <2>5, <2>8 DEF more
<1>6. rest \in [1..width -> Digit]
  BY <1>5
<1>7. \A i \in 1..width : /\ rest[i] \in Nat /\ n[i] \in Nat /\ s[i] \in Nat
  BY <1>5 DEF AreDigits
<1>8. \A i \in 1..(width + 1) : borrow[i] \in Nat
  BY <1>4
<1> HIDE DEF rest
<1> QED BY <1>1, <1>4, <1>5, <1>6, <1>7, <1>8 DEF AddsUp, AreDigits

(* The addition of two digit strings below n, with a carry and then a      *)
(* borrow, is the addition modulo n, for any width and radix               *)
(* (addScalarsModN in hdwallet.go 264-311).                                *)
THEOREM DigitsAddModN ==
    ASSUME NEW radix \in Nat \ {0},
           NEW a \in Seq(0..(radix - 1)), NEW b \in Seq(0..(radix - 1)),
           NEW n \in Seq(0..(radix - 1)), Len(b) = Len(a), Len(n) = Len(a),
           N = Value(n, Len(a), radix),
           Value(a, Len(a), radix) < N, Value(b, Len(a), radix) < N
    PROVE  LET sum == addDigitsModN(a, b, n, radix)
           IN /\ sum \in [1..Len(a) -> 0..(radix - 1)]
              /\ Value(sum, Len(a), radix)
                   = addScalarsModN(Value(a, Len(a), radix), Value(b, Len(a), radix))
<1> DEFINE width == Len(a)
           Digit == 0..(radix - 1)
           carry == Carry(a, b, radix, width)
           sum == SumDigits(a, b, radix, width)
           differs == {i \in 1..width : sum[i] # n[i]}
           atLeastN ==
             \/ carry[1] # 0
             \/ \A i \in differs : (\A j \in differs : i <= j) => sum[i] > n[i]
           borrow == Borrow(sum, n, width)
           rest == RestDigits(sum, n, radix, width)
           Number(d) == Value(d, width, radix)
           R == Number(Nines(width, radix)) + 1
<1>1. /\ width \in Nat
      /\ AreDigits(a, width, radix) /\ AreDigits(b, width, radix) /\ AreDigits(n, width, radix)
  <2> HIDE DEF Digit
  <2>1. a \in Seq(Digit) /\ b \in Seq(Digit) /\ n \in Seq(Digit)
    BY DEF Digit
  <2>2. /\ width \in Nat
        /\ \A i \in 1..width : a[i] \in Digit /\ b[i] \in Digit /\ n[i] \in Digit
    BY <2>1
  <2> QED BY <2>2 DEF AreDigits, Digit
<1>2. addDigitsModN(a, b, n, radix) = IF atLeastN THEN rest ELSE sum
  BY DEF addDigitsModN, Carry, Borrow, SumDigits, RestDigits
<1> HIDE DEF width
<1>3. /\ AddsUp(a, b, sum, carry, width, radix)
      /\ AreDigits(sum, width, radix) /\ sum \in [1..width -> Digit]
  BY <1>1, SumCarries
<1> HIDE DEF carry, sum
<1>4. /\ AddsUp(n, rest, sum, borrow, width, radix)
      /\ AreDigits(rest, width, radix) /\ rest \in [1..width -> Digit]
  BY <1>1, <1>3, DifferenceBorrows
<1> HIDE DEF borrow, rest
<1>5. Number(a) + Number(b) = Number(sum) + carry[1] * R
  BY <1>1, <1>3, CarriesAddUp
<1>6. Number(n) + Number(rest) = Number(sum) + borrow[1] * R
  BY <1>1, <1>4, CarriesAddUp
<1>7. /\ Number(a) \in Nat /\ Number(b) \in Nat /\ Number(n) \in Nat
      /\ Number(sum) \in Nat /\ Number(rest) \in Nat /\ R \in Nat
      /\ Number(n) < R /\ Number(sum) < R /\ Number(rest) < R
  BY <1>1, <1>3, <1>4, DigitsAreBelowPower
<1>8. carry[1] \in Nat /\ borrow[1] \in Nat
  <2>1. 1 \in 1..(width + 1)
    BY <1>1
  <2> QED BY <1>3, <1>4, <2>1 DEF AddsUp
<1>9. \A i \in 1..width : sum[i] \in Nat /\ n[i] \in Nat
  BY <1>1, <1>3 DEF AreDigits
<1> HIDE DEF Number, R
<1> DEFINE total == Number(a) + Number(b)
<1>10. atLeastN <=> total >= Number(n)
  <2>1. CASE carry[1] # 0
    <3>1. carry[1] * R >= R /\ carry[1] * R \in Int /\ carry[1] >= 1
      <4>1. carry[1] >= 1 /\ carry[1] \in Int /\ R \in Nat
        BY <1>7, <1>8, <2>1
      <4> QED BY <4>1, Multiples
    <3>2. total >= R
      BY <1>5, <1>7, <3>1
    <3> QED BY <1>7, <2>1, <3>2
  <2>2. CASE carry[1] = 0
    <3>1. total = Number(sum)
      BY <1>5, <1>7, <2>2
    <3>2. CASE differs = {}
      <4>1. \A j \in 1..width : sum[j] = n[j]
        BY <3>2
      <4>2. /\ width + 1 \in 1..(width + 1)
            /\ \A j \in 1..((width + 1) - 1) : sum[j] = n[j]
        BY <1>1, <4>1
      <4>3. Number(sum) = Number(n)
        BY ONLY <1>1, <1>3, <4>2, FirstDifferenceDecides, radix \in Nat \ {0} DEF Number
      <4>4. total >= Number(n)
        BY <1>7, <3>1, <4>3
      <4> QED BY <3>2, <4>4
    <3>3. CASE differs # {}
      <4>1. differs \in SUBSET Nat /\ \A i \in differs : i \in 1..width /\ sum[i] # n[i]
        BY <1>1
      <4>2. \A i \in 1..width : i \notin differs => sum[i] = n[i]
        OBVIOUS
      <4>3. PICK k \in differs : \A j \in differs : k <= j
        <5> HIDE DEF differs
        <5> QED BY <3>3, <4>1, LeastNumber
      <4>4. k \in 1..width /\ sum[k] # n[k] /\ sum[k] \in Nat /\ n[k] \in Nat
        BY <1>9, <4>1
      <4>5. /\ k \in 1..(width + 1) /\ k <= width
            /\ \A j \in 1..(k - 1) : sum[j] = n[j] /\ n[j] = sum[j]
        <5>1. \A j \in 1..(k - 1) : j \in 1..width /\ ~(k <= j)
          BY <1>1, <4>4
        <5>2. \A j \in 1..(k - 1) : j \notin differs
          BY <4>3, <5>1
        <5> QED BY <1>1, <4>2, <4>4, <5>1, <5>2
      <4>6. (\A i \in differs : (\A j \in differs : i <= j) => sum[i] > n[i]) <=> sum[k] > n[k]
        <5>1. ASSUME NEW i \in differs, \A j \in differs : i <= j
              PROVE  i = k
          <6>1. i <= k /\ k <= i /\ i \in Nat /\ k \in Nat
            BY <4>1, <4>3, <5>1
          <6> QED BY <6>1
        <5> QED BY <4>3, <5>1
      <4> HIDE DEF differs
      <4>7. atLeastN <=> sum[k] > n[k]
        BY <2>2, <4>6
      <4>8. CASE sum[k] > n[k]
        <5>1. Number(sum) > Number(n)
          BY ONLY <1>1, <1>3, <4>5, <4>8, FirstDifferenceDecides, radix \in Nat \ {0} DEF Number
        <5> QED BY <1>7, <3>1, <4>7, <4>8, <5>1
      <4>9. CASE n[k] > sum[k]
        <5>1. Number(n) > Number(sum)
          BY ONLY <1>1, <1>3, <4>5, <4>9, FirstDifferenceDecides, radix \in Nat \ {0} DEF Number
        <5>2. ~(sum[k] > n[k])
          BY <4>4, <4>9
        <5> QED BY <1>7, <3>1, <4>7, <5>1, <5>2
      <4> QED BY <4>4, <4>8, <4>9
    <3> QED BY <3>2, <3>3
  <2> QED BY <2>1, <2>2
<1> HIDE DEF atLeastN
<1>11. total \in Nat /\ total < Number(n) + Number(n)
  <2>1. Number(a) < Number(n) /\ Number(b) < Number(n)
    BY DEF Number, width
  <2> QED BY <1>7, <2>1
<1>12. atLeastN => Number(rest) = total - Number(n)
  <2> SUFFICES ASSUME atLeastN
               PROVE  Number(rest) = total - Number(n)
    OBVIOUS
  <2>1. total >= Number(n)
    BY <1>10
  <2> DEFINE up == carry[1] * R
             down == borrow[1] * R
             d == borrow[1] - carry[1]
  <2>2. d \in Int /\ up \in Nat /\ down \in Nat /\ down - up = d * R
    <3>1. /\ carry[1] \in Nat /\ borrow[1] \in Nat /\ R \in Nat
      BY <1>7, <1>8
    <3>2. \A x, y, z \in Nat : /\ x - y \in Int /\ x * z \in Nat /\ y * z \in Nat
                               /\ x * z - y * z = (x - y) * z
      OBVIOUS
    <3> QED BY <3>1, <3>2
  <2>3. /\ d * R \in Int
        /\ d >= 1 => d * R >= R
        /\ d <= -1 => d * R <= -R
        /\ d = 0 => d * R = 0
    <3> HIDE DEF d
    <3> QED BY <1>7, <2>2, Multiples
  <2>6. total = Number(sum) + up /\ Number(n) + Number(rest) = Number(sum) + down
    BY <1>5, <1>6
  <2> HIDE DEF up, down, d, total
  <2> DEFINE dR == d * R
  <2>7. dR \in Int
    BY <2>3
  <2> HIDE DEF dR
  <2>8. Number(rest) = (total - Number(n)) + dR
    <3>1. down - up = dR
      BY <2>2 DEF dR
    <3>3. /\ total \in Nat /\ up \in Nat /\ down \in Nat /\ dR \in Int
          /\ Number(n) \in Nat /\ Number(sum) \in Nat /\ Number(rest) \in Nat
      BY <1>7, <1>11, <2>2, <2>7
    <3>4. total - Number(sum) = up
      BY <2>6, <3>3
    <3>5. Number(n) + Number(rest) = Number(sum) + down
      BY <2>6
    <3>6. Number(rest) = (Number(sum) + down) - Number(n)
      BY <3>3, <3>5
    <3> QED BY <3>1, <3>3, <3>4, <3>6
  <2>9. total - Number(n) < R /\ total - Number(n) >= 0
    BY <1>7, <1>11, <2>1
  <2>10. dR = 0
    <3>1. dR > -R /\ dR < R
      BY <1>7, <1>11, <2>7, <2>8, <2>9
    <3>2. ~(d >= 1) /\ ~(d <= -1)
      BY <1>7, <2>3, <2>7, <3>1 DEF dR
    <3> QED BY <2>2, <2>3, <3>2 DEF dR
  <2> QED BY <1>7, <1>11, <2>8, <2>10
<1>13. ~atLeastN => Number(sum) = total
  <2> SUFFICES ASSUME ~atLeastN
               PROVE  Number(sum) = total
    OBVIOUS
  <2>1. total < Number(n)
    BY <1>7, <1>10, <1>11
  <2>2. carry[1] = 0
    <3> SUFFICES ASSUME carry[1] # 0
                 PROVE  FALSE
      OBVIOUS
    <3>1. carry[1] * R >= R /\ carry[1] * R \in Int /\ carry[1] >= 1
      <4>1. carry[1] >= 1 /\ carry[1] \in Int /\ R \in Nat
        BY <1>7, <1>8
      <4> QED BY <4>1, Multiples
    <3> QED BY <1>5, <1>7, <2>1, <3>1
  <2> QED BY <1>5, <1>7, <2>2
<1>14. addScalarsModN(Number(a), Number(b)) = IF atLeastN THEN total - Number(n) ELSE total
  <2>1. N = Number(n)
    BY DEF Number, width
  <2>2. addScalarsModN(Number(a), Number(b))
          = IF total >= Number(n) THEN total - Number(n) ELSE total
    BY <1>7, <2>1 DEF addScalarsModN
  <2> HIDE DEF total
  <2> QED BY <1>10, <2>2
<1>15. \A d : Number(d) = Value(d, Len(a), radix)
  BY DEF Number, width
<1> HIDE DEF total
<1> QED BY <1>2, <1>3, <1>4, <1>12, <1>13, <1>14, <1>15 DEF width
-----------------------------------------------------------------------------
(* Integers and byte strings.                                              *)

Octet == 0..255
Octets == Seq(Octet)

(* intBytes is defined by its recursion.                                   *)
LEMMA IntegerBytes ==
    /\ intBytes \in [Nat -> Octets]
    /\ intBytes[0] = <<>>
    /\ \A n \in Nat \ {0} : /\ intBytes[n] = Append(intBytes[n \div 256], n % 256)
                            /\ n \div 256 \in Nat /\ n \div 256 < n
                            /\ n % 256 \in Octet /\ n = 256 * (n \div 256) + (n % 256)
<1> DEFINE Longer(n, bytes) == Append(bytes, n % 256)
           prev == [n \in Nat |-> n \div 256]
           step == [p \in Nat \X Octets |-> Longer(p[1], p[2])]
<1>1. \A n \in Nat : /\ n \div 256 \in Nat /\ n % 256 \in Octet
                     /\ n = 256 * (n \div 256) + (n % 256)
                     /\ n # 0 => n \div 256 < n
  BY DEF Octet
<1>2. prev \in [Nat -> Nat] /\ \A n \in Nat \ {0} : prev[n] < n
  BY <1>1
<1>3. \A n \in Nat, b \in Octets : Longer(n, b) \in Octets
  <2> SUFFICES ASSUME NEW n \in Nat, NEW b \in Octets
               PROVE  Longer(n, b) \in Octets
    OBVIOUS
  <2>1. n % 256 \in Octet
    BY <1>1
  <2> HIDE DEF Octet
  <2> QED BY <2>1 DEF Octets
<1>4. <<>> \in Octets
  BY DEF Octets
<1> HIDE DEF Longer
<1>5. /\ step \in [Nat \X Octets -> Octets]
      /\ \A n \in Nat, b \in Octets : step[<<n, b>>] = Longer(n, b)
  BY <1>3
<1> HIDE DEF step
<1>6. \A n \in Nat : prev[n] = n \div 256
  OBVIOUS
<1> HIDE DEF prev
<1>7. PICK f \in [Nat -> Octets] : Descends(f, prev, <<>>, step)
  BY <1>2, <1>4, <1>5, RecursionBelow
<1>8. f[0] = <<>> /\ \A n \in Nat \ {0} : f[n] = Longer(n, f[n \div 256])
  <2>1. \A n \in Nat \ {0} : f[n] = step[<<n, f[n \div 256]>>] /\ f[n \div 256] \in Octets
    BY <1>1, <1>6, <1>7 DEF Descends
  <2>2. ASSUME NEW n \in Nat \ {0}
        PROVE  f[n] = Longer(n, f[n \div 256])
    <3> DEFINE b == f[n \div 256]
    <3>1. f[n] = step[<<n, b>>] /\ b \in Octets
      BY <2>1
    <3> HIDE DEF b
    <3>2. f[n] = Longer(n, b)
      BY <1>5, <3>1
    <3> QED BY <3>2 DEF b
  <2> QED BY <1>7, <2>2 DEF Descends
<1>9. f = [n \in Nat |-> IF n = 0 THEN <<>> ELSE Longer(n, f[n \div 256])]
  BY <1>7, <1>8
<1>10. intBytes = [n \in Nat |-> IF n = 0 THEN <<>> ELSE Longer(n, intBytes[n \div 256])]
  BY <1>9 DEF intBytes, Longer
<1>11. \A n \in Nat \ {0} : intBytes[n] = Longer(n, intBytes[n \div 256])
  BY <1>10
<1>12. \A n \in Nat : intBytes[n] = f[n]
  <2> DEFINE D == {n \in Nat : intBytes[n] # f[n]}
  <2> SUFFICES ASSUME D # {}
               PROVE  FALSE
    OBVIOUS
  <2>1. D \in SUBSET Nat
    OBVIOUS
  <2>2. PICK d \in D : \A n \in D : d <= n
    <3> HIDE DEF D
    <3> QED BY <2>1, LeastNumber
  <2>3. d \in Nat /\ intBytes[d] # f[d] /\ d # 0
    BY <1>8, <1>10
  <2>4. d \div 256 \in Nat /\ d \div 256 < d
    BY <1>1, <2>3
  <2>5. d \div 256 \notin D
    <3> HIDE DEF D
    <3> QED BY <2>2, <2>3, <2>4
  <2>6. intBytes[d \div 256] = f[d \div 256]
    BY <2>4, <2>5
  <2> QED BY <1>8, <1>11, <2>3, <2>6
<1>13. intBytes \in [Nat -> Octets]
  BY <1>7, <1>10, <1>12
<1>14. intBytes[0] = <<>>
  BY <1>10
<1>15. \A n \in Nat \ {0} : intBytes[n] = Append(intBytes[n \div 256], n % 256)
  BY <1>11 DEF Longer
<1> QED BY <1>1, <1>13, <1>14, <1>15

(* What bigEndian reads is a number of digits to the base 256; a byte that *)
(* is appended is its last digit.                                          *)
LEMMA BigEndian ==
    /\ bigEndian(<<>>) = 0
    /\ \A s \in Octets : bigEndian(s) \in Nat
    /\ \A s \in Octets, b \in Octet :
          /\ Append(s, b) \in Octets /\ Append(s, b) # <<>>
          /\ bigEndian(Append(s, b)) = 256 * bigEndian(s) + b
<1>1. \A s : bigEndian(s) = Value(s, Len(s), 256)
  BY DEF bigEndian, Value, Leading
<1>2. ASSUME NEW s \in Octets
      PROVE  Len(s) \in Nat /\ \A i \in 1..Len(s) : s[i] \in Octet /\ s[i] \in Nat
  <2>1. s \in Seq(Octet)
    BY DEF Octets
  <2> HIDE DEF Octet
  <2>2. Len(s) \in Nat /\ \A i \in 1..Len(s) : s[i] \in Octet
    BY <2>1
  <2>3. \A b \in Octet : b \in Nat
    BY DEF Octet
  <2> QED BY <2>2, <2>3
<1>3. ASSUME NEW s \in Octets
      PROVE  /\ Leading(s, Len(s), 256) \in [0..Len(s) -> Nat]
             /\ Leading(s, Len(s), 256)[0] = 0
             /\ \A i \in 1..Len(s) : Leading(s, Len(s), 256)[i]
                                       = 256 * Leading(s, Len(s), 256)[i - 1] + s[i]
  <2>1. 256 \in Nat /\ Len(s) \in Nat /\ \A i \in 1..Len(s) : s[i] \in Nat
    BY <1>2
  <2> QED BY ONLY <2>1, LeadingValues
<1>4. ASSUME NEW s \in Octets
      PROVE  bigEndian(s) \in Nat
  <2> DEFINE v == Leading(s, Len(s), 256)
  <2>1. v \in [0..Len(s) -> Nat] /\ Len(s) \in Nat
    BY <1>2, <1>3
  <2> HIDE DEF v
  <2>2. v[Len(s)] \in Nat
    BY <2>1
  <2> QED BY <1>1, <2>2 DEF v, Value
<1>5. <<>> \in Octets /\ Len(<<>>) = 0
  BY DEF Octets
<1>6. bigEndian(<<>>) = 0
  BY <1>1, <1>3, <1>5 DEF Value
<1>7. ASSUME NEW s \in Octets, NEW b \in Octet
      PROVE  /\ Append(s, b) \in Octets /\ Append(s, b) # <<>>
             /\ bigEndian(Append(s, b)) = 256 * bigEndian(s) + b
  <2> DEFINE t == Append(s, b)
             n == Len(s)
  <2>1. t \in Octets /\ t # <<>> /\ n \in Nat /\ Len(t) = n + 1 /\ t[n + 1] = b
        /\ \A i \in 1..n : t[i] = s[i]
    <3>1. s \in Seq(Octet) /\ b \in Octet
      BY DEF Octets
    <3> HIDE DEF Octet
    <3> QED BY <3>1, AppendProperties DEF Octets
  <2> HIDE DEF t
  <2> DEFINE v == Leading(s, n, 256)
             w == Leading(t, n + 1, 256)
  <2>2. /\ v \in [0..n -> Nat] /\ v[0] = 0
        /\ \A i \in 1..n : v[i] = 256 * v[i - 1] + s[i]
    BY <1>3
  <2>3. /\ w \in [0..(n + 1) -> Nat] /\ w[0] = 0
        /\ \A i \in 1..(n + 1) : w[i] = 256 * w[i - 1] + t[i]
    <3>1. /\ Leading(t, Len(t), 256) \in [0..Len(t) -> Nat]
          /\ Leading(t, Len(t), 256)[0] = 0
          /\ \A i \in 1..Len(t) : Leading(t, Len(t), 256)[i]
                                    = 256 * Leading(t, Len(t), 256)[i - 1] + t[i]
      BY ONLY <1>3, <2>1
    <3>2. Len(t) = n + 1
      BY <2>1
    <3> HIDE DEF n
    <3> QED BY <3>1, <3>2
  <2>4. bigEndian(s) = v[n] /\ bigEndian(t) = w[n + 1]
    BY <1>1, <2>1 DEF Value
  <2> HIDE DEF v, w, n
  <2> DEFINE T == {i \in 0..n : w[i] = v[i]}
  <2>5. 0 \in T
    BY <2>1, <2>2, <2>3
  <2>6. ASSUME NEW i \in 0..(n - 1), i \in T
        PROVE  i + 1 \in T
    <3>1. i + 1 \in 1..n /\ i + 1 \in 1..(n + 1) /\ (i + 1) - 1 = i /\ i + 1 \in 0..n
      BY <2>1
    <3>2. v[i + 1] = 256 * v[i] + s[i + 1] /\ w[i + 1] = 256 * w[i] + t[i + 1]
      BY <2>2, <2>3, <3>1
    <3>3. t[i + 1] = s[i + 1]
      BY <2>1, <3>1
    <3> QED BY <2>6, <3>1, <3>2, <3>3
  <2> HIDE DEF T
  <2>7. \A i \in 0..n : i \in T
    BY ONLY <2>1, <2>5, <2>6, UpTo
  <2>8. w[n] = v[n]
    BY <2>1, <2>7 DEF T
  <2>9. w[n + 1] = 256 * w[n] + b
    BY <2>1, <2>3
  <2>10. bigEndian(t) = 256 * bigEndian(s) + b
    BY <2>4, <2>8, <2>9
  <2> QED BY <2>1, <2>10 DEF t
<1> QED BY <1>4, <1>6, <1>7

NoLeadingZero(s) == s # <<>> => s[1] # 0

(* An integer is written as bytes that it can be read from, and no other   *)
(* bytes without a leading zero stand for it (intBytes and                 *)
(* decodeRLPLength in transaction.go 420-432 and 483-495, rlpBig 382-387   *)
(* and integer 352-359).                                                   *)
THEOREM IntegersHaveOneForm ==
    /\ \A n \in Nat : bigEndian(intBytes[n]) = n /\ NoLeadingZero(intBytes[n])
    /\ \A s \in Octets : NoLeadingZero(s) => intBytes[bigEndian(s)] = s
<1>1. ASSUME NEW s \in Octets, NEW b \in Octet
      PROVE  /\ s # <<>> => Append(s, b)[1] = s[1]
             /\ s = <<>> => Append(s, b)[1] = b
             /\ Len(s) \in Nat /\ Len(Append(s, b)) = Len(s) + 1
  <2>1. s \in Seq(Octet) /\ b \in Octet
    BY DEF Octets
  <2> HIDE DEF Octet
  <2> QED BY <2>1
<1>2. \A n \in Nat : bigEndian(intBytes[n]) = n /\ NoLeadingZero(intBytes[n])
  <2> DEFINE D == {n \in Nat : ~(bigEndian(intBytes[n]) = n /\ NoLeadingZero(intBytes[n]))}
  <2> SUFFICES ASSUME D # {}
               PROVE  FALSE
    OBVIOUS
  <2>1. D \in SUBSET Nat
    OBVIOUS
  <2>2. PICK d \in D : \A n \in D : d <= n
    <3> HIDE DEF D
    <3> QED BY <2>1, LeastNumber
  <2>3. d \in Nat /\ ~(bigEndian(intBytes[d]) = d /\ NoLeadingZero(intBytes[d]))
    OBVIOUS
  <2>4. d # 0
    BY <2>3, BigEndian, IntegerBytes DEF NoLeadingZero
  <2> DEFINE q == d \div 256
             r == d % 256
             s == intBytes[q]
  <2>5. /\ intBytes[d] = Append(s, r) /\ s \in Octets
        /\ q \in Nat /\ q < d /\ r \in Octet /\ d = 256 * q + r
    <3>1. d \in Nat \ {0}
      BY <2>3, <2>4
    <3> HIDE DEF D
    <3>2. /\ intBytes[d] = Append(intBytes[q], r)
          /\ q \in Nat /\ q < d /\ r \in Octet /\ d = 256 * q + r
      BY <3>1, IntegerBytes
    <3> HIDE DEF q, r
    <3>3. intBytes[q] \in Octets
      BY <3>2, IntegerBytes
    <3> QED BY <3>2, <3>3
  <2> HIDE DEF q, r
  <2>6. bigEndian(s) = q /\ NoLeadingZero(s)
    <3>1. q \notin D
      <4> HIDE DEF D
      <4> QED BY <2>2, <2>3, <2>5
    <3> QED BY <2>5, <3>1
  <2> HIDE DEF s, D
  <2>7. bigEndian(intBytes[d]) = d
    BY <2>5, <2>6, BigEndian
  <2>8. NoLeadingZero(intBytes[d])
    <3>1. CASE s # <<>>
      BY <1>1, <2>5, <2>6, <3>1 DEF NoLeadingZero
    <3>2. CASE s = <<>>
      <4>1. q = 0 /\ r # 0
        <5>1. q = 0
          BY <2>6, <3>2, BigEndian
        <5> QED BY <2>4, <2>5, <5>1 DEF Octet
      <4> QED BY <1>1, <2>5, <3>2, <4>1 DEF NoLeadingZero
    <3> QED BY <3>1, <3>2
  <2> QED BY <2>3, <2>7, <2>8
<1>3. ASSUME NEW n \in Nat
      PROVE  \A s \in Octets : Len(s) = n /\ NoLeadingZero(s) => intBytes[bigEndian(s)] = s
  <2> DEFINE Good(i) == \A s \in Octets : Len(s) = i /\ NoLeadingZero(s) => intBytes[bigEndian(s)] = s
             T == {i \in 0..n : Good(i)}
  <2>1. 0 \in T
    <3>1. \A s \in Octets : Len(s) = 0 => s = <<>>
      <4> HIDE DEF Octet
      <4> QED BY DEF Octets
    <3>2. Good(0)
      BY <3>1, BigEndian, IntegerBytes
    <3> QED BY <3>2
  <2>2. ASSUME NEW i \in 0..(n - 1), i \in T
        PROVE  i + 1 \in T
    <3>1. Good(i)
      BY <2>2
    <3> SUFFICES ASSUME NEW s \in Octets, Len(s) = i + 1, NoLeadingZero(s)
                 PROVE  intBytes[bigEndian(s)] = s
      OBVIOUS
    <3>2. PICK t \in Octets, b \in Octet : s = Append(t, b) /\ Len(t) = i
      <4>1. s \in Seq(Octet) /\ i \in Nat
        BY DEF Octets
      <4> HIDE DEF Octet
      <4> DEFINE t == [j \in 1..i |-> s[j]]
                 b == s[i + 1]
      <4>2. \A j \in 1..(i + 1) : s[j] \in Octet
        BY <4>1
      <4>3. t \in Seq(Octet) /\ b \in Octet /\ Len(t) = i
        BY <4>1, <4>2
      <4>4. s = Append(t, b)
        <5>1. /\ Append(t, b) \in Seq(Octet) /\ Len(Append(t, b)) = i + 1
              /\ \A j \in 1..i : Append(t, b)[j] = t[j]
              /\ Append(t, b)[i + 1] = b
          <6> HIDE DEF t, b
          <6> QED BY <4>1, <4>3, AppendProperties
        <5>2. \A j \in 1..(i + 1) : Append(t, b)[j] = s[j]
          <6>1. \A j \in 1..i : t[j] = s[j]
            OBVIOUS
          <6> HIDE DEF t
          <6> QED BY <4>1, <5>1, <6>1
        <5> HIDE DEF t, b
        <5> QED BY <4>1, <5>1, <5>2, SeqEqual
      <4> HIDE DEF t, b
      <4> QED BY <4>3, <4>4 DEF Octets
    <3> HIDE DEF T
    <3>3. NoLeadingZero(t) /\ (t = <<>> => b # 0)
      BY <1>1, <3>2, BigEndian DEF NoLeadingZero
    <3>4. intBytes[bigEndian(t)] = t /\ bigEndian(t) \in Nat
      BY <3>1, <3>2, <3>3, BigEndian
    <3> DEFINE q == bigEndian(t)
               m == bigEndian(s)
    <3>5. m = 256 * q + b /\ q \in Nat
      BY <3>2, BigEndian
    <3> HIDE DEF q, m, Good
    <3>6. m \in Nat /\ m # 0 /\ m \div 256 = q /\ m % 256 = b
      <4>1. b \in 0..255
        BY DEF Octet
      <4>2. q # 0 \/ b # 0
        BY <3>3, <3>4, IntegerBytes DEF q
      <4> QED BY <3>5, <4>1, <4>2
    <3>7. intBytes[m] = Append(intBytes[q], b)
      BY <3>6, IntegerBytes
    <3> QED BY <3>2, <3>4, <3>7 DEF q, m
  <2> HIDE DEF T
  <2>3. n \in T
    <3>1. \A i \in 0..n : i \in T
      BY ONLY <2>1, <2>2, UpTo, n \in Nat
    <3> QED BY <3>1
  <2> QED BY <2>3 DEF T
<1>4. \A s \in Octets : Len(s) \in Nat
  <2> HIDE DEF Octet
  <2> QED BY DEF Octets
<1> QED BY <1>2, <1>3, <1>4

Bytes == Seq(Nat)

Cat(s, t) == s \o t

\* A sequence with a first number.
Led(h, s) == <<h>> \o s

(* Concatenation of byte strings: its neutral element, its associativity,  *)
(* and what it takes to cancel.                                            *)
LEMMA Concats ==
    /\ Octets \subseteq Bytes /\ <<>> \in Bytes
    /\ \A s \in Bytes : /\ Len(s) \in Nat /\ Cat(<<>>, s) = s /\ Cat(s, <<>>) = s
                          /\ (s # <<>> => Len(s) >= 1)
    /\ \A s, t \in Bytes : Cat(s, t) \in Bytes
    /\ \A s, t, u \in Bytes : Cat(Cat(s, t), u) = Cat(s, Cat(t, u))
    /\ \A s, t, x, y \in Bytes : Cat(s, x) = Cat(t, y) /\ Len(s) = Len(t) => s = t /\ x = y
<1>1. Octets \subseteq Bytes
  <2>1. Octet \subseteq Nat
    BY DEF Octet
  <2> HIDE DEF Octet
  <2> SUFFICES ASSUME NEW s \in Seq(Octet)
               PROVE  s \in Seq(Nat)
    BY DEF Octets, Bytes
  <2>2. Len(s) \in Nat /\ s \in [1..Len(s) -> Octet]
    OBVIOUS
  <2>3. s \in [1..Len(s) -> Nat]
    BY <2>1, <2>2
  <2> QED BY <2>2, <2>3
<1>2. <<>> \in Bytes
  BY DEF Bytes
<1>3. \A s \in Bytes : /\ Len(s) \in Nat /\ Cat(<<>>, s) = s /\ Cat(s, <<>>) = s
                        /\ (s # <<>> => Len(s) >= 1)
  BY DEF Bytes, Cat
<1>4. \A s, t \in Bytes : Cat(s, t) \in Bytes
  BY DEF Bytes, Cat
<1>5. \A s, t, u \in Bytes : Cat(Cat(s, t), u) = Cat(s, Cat(t, u))
  BY ConcatAssociative DEF Bytes, Cat
<1>6. \A s, t, x, y \in Bytes : Cat(s, x) = Cat(t, y) /\ Len(s) = Len(t) => s = t /\ x = y
  BY ONLY Cancel DEF Bytes, Cat
<1> QED BY <1>1, <1>2, <1>3, <1>4, <1>5, <1>6

(* A first number is split off again.                                      *)
LEMMA Leds ==
    /\ \A h \in Nat, s \in Bytes : Led(h, s) \in Bytes /\ Led(h, s) # <<>>
    /\ \A h \in Nat, s, t \in Bytes : Cat(Led(h, s), t) = Led(h, Cat(s, t))
    /\ \A h, k \in Nat, s, t \in Bytes : Led(h, s) = Led(k, t) => h = k /\ s = t
<1>1. ASSUME NEW h \in Nat, NEW s \in Bytes
      PROVE  Led(h, s) \in Bytes /\ Led(h, s) # <<>>
  BY DEF Led, Bytes
<1>2. ASSUME NEW h \in Nat, NEW s \in Bytes, NEW t \in Bytes
      PROVE  Cat(Led(h, s), t) = Led(h, Cat(s, t))
  <2> DEFINE g == <<h>>
  <2>1. g \in Bytes
    BY DEF Bytes
  <2> HIDE DEF g
  <2>2. (g \o s) \o t = g \o (s \o t)
    BY <2>1, ConcatAssociative DEF Bytes
  <2> QED BY <2>2 DEF Led, g, Cat
<1>3. \A h, k \in Nat, s, t \in Bytes : Led(h, s) = Led(k, t) => h = k /\ s = t
  BY ONLY Headed, Zenon DEF Led, Bytes
<1> QED BY <1>1, <1>2, <1>3

\* What Prefixed puts before a payload of length k.
FirstByte(short, k) ==
    IF k <= 55 THEN short + k ELSE short + 55 + Len(intBytes[k])

LengthBytes(k) == IF k <= 55 THEN <<>> ELSE intBytes[k]

(* What Prefixed writes before a payload depends on its length only, and   *)
(* is more than 55 above its least where the length itself is written.     *)
LEMMA Headers ==
    ASSUME NEW short \in Nat
    PROVE  /\ \A k \in Nat : /\ LengthBytes(k) \in Bytes
                             /\ FirstByte(short, k) \in Nat
                             /\ FirstByte(short, k) >= short
                             /\ k > 55 => FirstByte(short, k) >= short + 56
           /\ \A v \in Bytes :
                Prefixed(short, v) = Led(FirstByte(short, Len(v)), Cat(LengthBytes(Len(v)), v))
<1>1. ASSUME NEW k \in Nat
      PROVE  /\ LengthBytes(k) \in Bytes
             /\ FirstByte(short, k) \in Nat
             /\ FirstByte(short, k) >= short
             /\ k > 55 => FirstByte(short, k) >= short + 56
  <2> DEFINE ib == intBytes[k]
  <2>1. ib \in Bytes
    BY IntegerBytes, Concats
  <2>2. k > 55 => ib # <<>>
    <3>1. bigEndian(ib) = k /\ bigEndian(<<>>) = 0
      BY IntegersHaveOneForm, BigEndian
    <3> QED BY <3>1
  <2> HIDE DEF ib
  <2> DEFINE l == Len(ib)
  <2>3. l \in Nat /\ (k > 55 => l >= 1)
    BY <2>1, <2>2, Concats
  <2>4. /\ FirstByte(short, k) = IF k <= 55 THEN short + k ELSE short + 55 + l
        /\ LengthBytes(k) = IF k <= 55 THEN <<>> ELSE ib
    BY DEF FirstByte, LengthBytes, ib
  <2> HIDE DEF l
  <2>5. LengthBytes(k) \in Bytes
    BY <2>1, <2>4, Concats
  <2> QED BY <2>3, <2>4, <2>5
<1>2. ASSUME NEW v \in Bytes
      PROVE  Prefixed(short, v) = Led(FirstByte(short, Len(v)), Cat(LengthBytes(Len(v)), v))
  <2> DEFINE k == Len(v)
             h == FirstByte(short, k)
             b == LengthBytes(k)
  <2>1. k \in Nat
    BY Concats
  <2>2. h \in Nat /\ b \in Bytes
    BY <1>1, <2>1
  <2>3. Cat(Led(h, b), v) = Led(h, Cat(b, v))
    BY <2>2, Leds
  <2>4. Prefixed(short, v) = Cat(Led(h, b), v)
    <3>1. CASE k <= 55
      <4>1. Prefixed(short, v) = Cat(<<h>>, v) /\ b = <<>>
        BY <3>1 DEF Prefixed, FirstByte, LengthBytes, Cat
      <4>2. <<h>> = Led(h, <<>>)
        <5> HIDE DEF h
        <5> QED BY <2>2 DEF Led
      <4> QED BY <4>1, <4>2
    <3>2. CASE ~(k <= 55)
      BY <3>2 DEF Prefixed, FirstByte, LengthBytes, Led, Cat
    <3> QED BY <3>1, <3>2
  <2> QED BY <2>3, <2>4
<1> QED BY <1>1, <1>2

(* A prefix with the length of what follows tells where it ends.           *)
LEMMA PrefixedEnds ==
    ASSUME NEW short \in Nat, NEW v \in Bytes, NEW w \in Bytes,
           NEW x \in Bytes, NEW y \in Bytes,
           Cat(Prefixed(short, v), x) = Cat(Prefixed(short, w), y)
    PROVE  v = w /\ x = y
<1> DEFINE k == Len(v)
           l == Len(w)
           bk == LengthBytes(k)
           bl == LengthBytes(l)
           hk == FirstByte(short, k)
           hl == FirstByte(short, l)
           vx == Cat(v, x)
           wy == Cat(w, y)
<1>1. k \in Nat /\ l \in Nat /\ vx \in Bytes /\ wy \in Bytes
  BY Concats
<1> HIDE DEF k, l
<1>2. /\ bk \in Bytes /\ bl \in Bytes /\ hk \in Nat /\ hl \in Nat
      /\ (k > 55 => hk >= short + 56) /\ (l > 55 => hl >= short + 56)
  BY <1>1, Headers
<1>3. Prefixed(short, v) = Led(hk, Cat(bk, v)) /\ Prefixed(short, w) = Led(hl, Cat(bl, w))
  BY Headers DEF k, l
<1> HIDE DEF bk, bl, hk, hl
<1>4. Cat(bk, v) \in Bytes /\ Cat(bl, w) \in Bytes
  BY <1>2, Concats
<1>5. /\ Cat(Led(hk, Cat(bk, v)), x) = Led(hk, Cat(Cat(bk, v), x))
      /\ Cat(Led(hl, Cat(bl, w)), y) = Led(hl, Cat(Cat(bl, w), y))
  <2> DEFINE vv == Cat(bk, v)
             ww == Cat(bl, w)
  <2> HIDE DEF vv, ww
  <2>1. vv \in Bytes /\ ww \in Bytes
    BY <1>4 DEF vv, ww
  <2>2. Cat(Led(hk, vv), x) = Led(hk, Cat(vv, x)) /\ Cat(Led(hl, ww), y) = Led(hl, Cat(ww, y))
    <3>1. hk \in Nat /\ hl \in Nat
      BY <1>2
    <3>2. \A h \in Nat, s, t \in Bytes : Cat(Led(h, s), t) = Led(h, Cat(s, t))
      BY Leds
    <3> QED BY ONLY <2>1, <3>1, <3>2, x \in Bytes, y \in Bytes, Zenon
  <2> QED BY <2>2 DEF vv, ww
<1>6. Cat(Cat(bk, v), x) = Cat(bk, vx) /\ Cat(Cat(bl, w), y) = Cat(bl, wy)
  BY <1>2, Concats
<1>7. Cat(bk, vx) \in Bytes /\ Cat(bl, wy) \in Bytes
  BY <1>1, <1>2, Concats
<1>8. Led(hk, Cat(bk, vx)) = Led(hl, Cat(bl, wy))
  BY <1>3, <1>5, <1>6
<1> HIDE DEF vx, wy
<1>9. hk = hl /\ Cat(bk, vx) = Cat(bl, wy)
  BY <1>2, <1>7, <1>8, Leds
<1>10. k = l /\ vx = wy
  <2>1. CASE k <= 55 /\ l <= 55
    <3>1. hk = short + k /\ hl = short + l /\ bk = <<>> /\ bl = <<>>
      BY <2>1 DEF hk, hl, bk, bl, FirstByte, LengthBytes
    <3>2. k = l
      <4>1. short + k = short + l
        BY <1>9, <3>1
      <4> QED BY <1>1, <4>1
    <3>3. Cat(<<>>, vx) = vx /\ Cat(<<>>, wy) = wy
      BY <1>1, Concats
    <3> QED BY <1>9, <3>1, <3>2, <3>3
  <2>2. CASE k > 55 /\ l > 55
    <3>1. /\ bk = intBytes[k] /\ bl = intBytes[l]
          /\ hk = short + 55 + Len(bk) /\ hl = short + 55 + Len(bl)
      <4>1. ~(k <= 55) /\ ~(l <= 55)
        BY <1>1, <2>2
      <4>2. bk = intBytes[k] /\ bl = intBytes[l]
        BY <4>1 DEF bk, bl, LengthBytes
      <4>3. hk = short + 55 + Len(intBytes[k]) /\ hl = short + 55 + Len(intBytes[l])
        BY <4>1 DEF hk, hl, FirstByte
      <4> QED BY <4>2, <4>3
    <3>2. Len(bk) \in Nat /\ Len(bl) \in Nat
      BY <1>2, Concats
    <3>3. Len(bk) = Len(bl)
      <4> DEFINE m == Len(bk)
                 n == Len(bl)
      <4>1. short + 55 + m = short + 55 + n
        BY <1>9, <3>1
      <4>2. m \in Nat /\ n \in Nat
        BY <3>2
      <4> HIDE DEF m, n
      <4>3. m = n
        BY <4>1, <4>2
      <4> QED BY <4>3 DEF m, n
    <3>4. bk = bl /\ vx = wy
      BY <1>1, <1>2, <1>9, <3>3, Concats
    <3>5. bigEndian(intBytes[k]) = k /\ bigEndian(intBytes[l]) = l
      BY <1>1, IntegersHaveOneForm
    <3> QED BY <3>1, <3>4, <3>5
  <2>3. CASE k <= 55 /\ l > 55
    <3>1. hk = short + k
      BY <2>3 DEF hk, FirstByte
    <3> QED BY <1>1, <1>2, <1>9, <2>3, <3>1
  <2>4. CASE k > 55 /\ l <= 55
    <3>1. hl = short + l
      BY <2>4 DEF hl, FirstByte
    <3> QED BY <1>1, <1>2, <1>9, <2>4, <3>1
  <2> QED BY <1>1, <2>1, <2>2, <2>3, <2>4
<1> QED BY <1>10, Concats DEF k, l, vx, wy

(* The first byte of a prefix is at least its short form.                  *)
LEMMA PrefixedStarts ==
    ASSUME NEW short \in Nat, NEW v \in Bytes
    PROVE  /\ Prefixed(short, v) \in Bytes
           /\ \E h \in Nat, s \in Bytes : h >= short /\ Prefixed(short, v) = Led(h, s)
<1> DEFINE h == FirstByte(short, Len(v))
           b == LengthBytes(Len(v))
           s == Cat(b, v)
<1>1. Len(v) \in Nat
  BY Concats
<1>2. h \in Nat /\ h >= short /\ b \in Bytes /\ Prefixed(short, v) = Led(h, s)
  BY <1>1, Headers
<1> HIDE DEF h, b
<1>3. s \in Bytes
  BY <1>2, Concats
<1> HIDE DEF s
<1> QED BY <1>2, <1>3, Leds

(* No byte string, with what follows it, is written as the bytes of        *)
(* another (rlpBytes, 389-405).                                            *)
LEMMA StringsEnd ==
    ASSUME NEW v \in Bytes, NEW w \in Bytes, NEW x \in Bytes, NEW y \in Bytes,
           Cat(rlpBytes(v), x) = Cat(rlpBytes(w), y)
    PROVE  v = w /\ x = y
<1> DEFINE Single(u) == Len(u) = 1 /\ u[1] < 128
<1>1. \A u : rlpBytes(u) = IF Single(u) THEN u ELSE Prefixed(128, u)
  BY DEF rlpBytes
<1>2. ASSUME NEW u \in Bytes, Single(u)
      PROVE  u[1] \in Nat /\ u[1] < 128 /\ u = Led(u[1], <<>>)
  <2> DEFINE b == u[1]
  <2>1. b \in Nat /\ b < 128 /\ u = <<b>>
    <3>1. u \in Seq(Nat) /\ Len(u) = 1 /\ 1 \in 1..Len(u)
      BY <1>2 DEF Bytes
    <3>2. b \in Nat /\ b < 128
      <4>1. \A i \in 1..Len(u) : u[i] \in Nat
        BY ONLY <3>1, ElementOfSeq
      <4>2. b \in Nat
        BY <3>1, <4>1
      <4> QED BY <1>2, <4>2
    <3> HIDE DEF b
    <3>3. <<b>> \in Seq(Nat) /\ Len(<<b>>) = 1 /\ <<b>>[1] = b
      BY <3>2
    <3>4. \A i \in 1..Len(u) : u[i] = <<b>>[i]
      <4>1. \A i \in 1..Len(u) : i = 1
        BY <3>1
      <4> QED BY <3>3, <4>1 DEF b
    <3> QED BY <3>1, <3>2, <3>3, <3>4, SeqEqual
  <2> HIDE DEF b
  <2>2. <<b>> = <<b>> \o <<>>
    BY <2>1
  <2> QED BY <2>1, <2>2 DEF b, Led
<1>3. ASSUME NEW u \in Bytes, NEW p \in Bytes, NEW z \in Bytes, NEW q \in Bytes,
             Single(u), Cat(u, z) = Cat(Prefixed(128, p), q)
      PROVE  FALSE
  <2> DEFINE b == u[1]
  <2>1. b \in Nat /\ b < 128 /\ u = Led(b, <<>>)
    BY <1>2, <1>3
  <2> HIDE DEF b
  <2>2. PICK h \in Nat, s \in Bytes : h >= 128 /\ Prefixed(128, p) = Led(h, s)
    BY PrefixedStarts
  <2>3. Cat(u, z) = Led(b, Cat(<<>>, z)) /\ Cat(Prefixed(128, p), q) = Led(h, Cat(s, q))
    BY <2>1, <2>2, Leds, Concats
  <2>4. Cat(<<>>, z) \in Bytes /\ Cat(s, q) \in Bytes
    BY <2>2, Concats
  <2>5. b = h
    BY <1>3, <2>1, <2>2, <2>3, <2>4, Leds
  <2> QED BY <2>1, <2>2, <2>5
<1>4. CASE Single(v) /\ Single(w)
  <2>1. Len(v) = Len(w) /\ Cat(v, x) = Cat(w, y)
    BY <1>1, <1>4
  <2> QED BY <2>1, Concats
<1> HIDE DEF Single
<1>5. CASE Single(v) /\ ~Single(w)
  BY <1>1, <1>3, <1>5
<1>6. CASE ~Single(v) /\ Single(w)
  <2>1. Cat(w, y) = Cat(Prefixed(128, v), x)
    BY <1>1, <1>6
  <2> QED BY <1>3, <1>6, <2>1
<1>7. CASE ~Single(v) /\ ~Single(w)
  <2>1. Cat(Prefixed(128, v), x) = Cat(Prefixed(128, w), y)
    BY <1>1, <1>7
  <2> QED BY <2>1, PrefixedEnds
<1> QED BY <1>4, <1>5, <1>6, <1>7
-----------------------------------------------------------------------------
(* What is hashed for a generic and an integrity signature.                *)

Framed(value, rest) == writeFramed(value) \o rest

(* A length in front of a value tells where it ends: no two values and     *)
(* continuations are written as the same bytes.                            *)
LEMMA FramesEnd ==
    ASSUME NEW v \in Bytes, NEW w \in Bytes, NEW x \in Bytes, NEW y \in Bytes,
           Framed(v, x) = Framed(w, y)
    PROVE  v = w /\ x = y
<1>1. /\ v \in Seq(Nat) /\ w \in Seq(Nat) /\ x \in Seq(Nat) /\ y \in Seq(Nat)
      /\ Len(v) \in Nat /\ Len(w) \in Nat
  BY DEF Bytes
<1>2. /\ <<Len(v)>> \in Seq(Nat) /\ <<Len(w)>> \in Seq(Nat)
      /\ v \o x \in Seq(Nat) /\ w \o y \in Seq(Nat)
  BY <1>1, Places
<1>3. \A n \in Nat, p, q \in Seq(Nat) : (<<n>> \o p) \o q = <<n>> \o (p \o q)
  <2> TAKE n \in Nat, p, q \in Seq(Nat)
  <2> DEFINE h == <<n>>
  <2>1. h \in Seq(Nat)
    OBVIOUS
  <2> HIDE DEF h
  <2>2. (h \o p) \o q = h \o (p \o q)
    BY <2>1, ConcatAssociative
  <2> QED BY <2>2 DEF h
<1>4. Framed(v, x) = <<Len(v)>> \o (v \o x)
  BY <1>1, <1>3, Zenon DEF Framed, writeFramed
<1>5. Framed(w, y) = <<Len(w)>> \o (w \o y)
  BY <1>1, <1>3, Zenon DEF Framed, writeFramed
<1> DEFINE m == Len(v)  n == Len(w)  s == v \o x  t == w \o y
<1>6. <<m>> \o s = <<n>> \o t
  BY <1>4, <1>5, Zenon
<1>7. m \in Nat /\ n \in Nat /\ s \in Seq(Nat) /\ t \in Seq(Nat)
  BY <1>1, <1>2
<1>8. m = n /\ s = t
  <2> HIDE DEF m, n, s, t
  <2> QED BY ONLY <1>6, <1>7, Headed, Zenon
<1> QED BY <1>1, <1>8, Cancel

(* A framed byte string is a byte string.                                  *)
LEMMA FramesAreBytes ==
    ASSUME NEW v \in Bytes
    PROVE  writeFramed(v) \in Bytes
BY ConcatProperties DEF writeFramed, Bytes

(* What is hashed determines the label and the three parts.                *)
LEMMA PartsAreDetermined ==
    ASSUME NEW k \in Nat, NEW l \in Nat,
           NEW a \in Bytes, NEW b \in Bytes, NEW c \in Bytes,
           NEW d \in Bytes, NEW e \in Bytes, NEW f \in Bytes,
           Labelled(k, a, b, c) = Labelled(l, d, e, f)
    PROVE  k = l /\ a = d /\ b = e /\ c = f
<1> DEFINE tail(u, v, w) == writeFramed(u) \o (writeFramed(v) \o writeFramed(w))
<1>1. \A u, v, w \in Bytes : /\ writeFramed(u) \in Bytes
                             /\ writeFramed(v) \o writeFramed(w) \in Bytes
                             /\ tail(u, v, w) \in Bytes
  BY FramesAreBytes, ConcatProperties DEF Bytes
<1>2. tail(a, b, c) \in Bytes /\ tail(d, e, f) \in Bytes
  BY <1>1
<1>3. <<k>> \o tail(a, b, c) = <<l>> \o tail(d, e, f)
  BY DEF Labelled
<1>4. k = l /\ tail(a, b, c) = tail(d, e, f)
  <2>1. tail(a, b, c) \in Seq(Nat) /\ tail(d, e, f) \in Seq(Nat)
    BY <1>2 DEF Bytes
  <2> HIDE DEF tail
  <2> QED BY <1>3, <2>1, Headed, Zenon
<1>5. a = d /\ writeFramed(b) \o writeFramed(c) = writeFramed(e) \o writeFramed(f)
  <2> DEFINE s == writeFramed(b) \o writeFramed(c)
             t == writeFramed(e) \o writeFramed(f)
  <2>1. s \in Bytes /\ t \in Bytes
    BY <1>1
  <2>2. Framed(a, s) = Framed(d, t)
    BY <1>4 DEF Framed
  <2> HIDE DEF s, t
  <2>3. a = d /\ s = t
    BY <2>1, <2>2, FramesEnd
  <2> QED BY <2>3 DEF s, t
<1>6. b = e /\ writeFramed(c) = writeFramed(f)
  <2>1. Framed(b, writeFramed(c)) = Framed(e, writeFramed(f))
    BY <1>5 DEF Framed
  <2> QED BY <1>1, <2>1, FramesEnd
<1>7. c = f
  <2>1. <<>> \in Bytes /\ Framed(c, <<>>) = Framed(f, <<>>)
    BY <1>6 DEF Bytes, Framed
  <2> QED BY ONLY <2>1, FramesEnd, c \in Bytes, f \in Bytes
<1> QED BY <1>4, <1>5, <1>6, <1>7

(* The same with its hypotheses as an implication, to be instantiated.     *)
LEMMA LabelsAreDetermined ==
    \A k, l, a, b, c, d, e, f :
        /\ Labelled(k, a, b, c) = Labelled(l, d, e, f)
        /\ k \in Nat /\ a \in Bytes /\ b \in Bytes /\ c \in Bytes
        /\ l \in Nat /\ d \in Bytes /\ e \in Bytes /\ f \in Bytes
        => k = l /\ a = d /\ b = e /\ c = f
BY PartsAreDetermined

(* A digest of an integrity record stands for its context, its object and  *)
(* its canonical data (integrityDigest in service/signing.go), which is    *)
(* what IntegritySigning takes it to be.                                   *)
THEOREM IntegrityDigestsDiffer ==
    ASSUME NEW context \in Bytes, NEW object \in Bytes, NEW canonical \in Bytes,
           NEW context2 \in Bytes, NEW object2 \in Bytes, NEW canonical2 \in Bytes,
           integrityDigest(context, object, canonical)
             = integrityDigest(context2, object2, canonical2)
    PROVE  context = context2 /\ object = object2 /\ canonical = canonical2
<1>1. Labelled(2, context, object, canonical) = Labelled(2, context2, object2, canonical2)
  BY DEF integrityDigest
<1> QED BY <1>1, PartsAreDetermined

(* A generic signature signs no integrity record, and a raw payload is     *)
(* never taken for the canonical text of a JSON one (genericDigest).       *)
THEOREM GenericDigestsDiffer ==
    ASSUME NEW context \in Bytes, NEW format \in {Raw, Json}, NEW payload \in Bytes,
           NEW context2 \in Bytes, NEW format2 \in {Raw, Json}, NEW payload2 \in Bytes,
           NEW object \in Bytes, NEW canonical \in Bytes,
           \A p \in Bytes : Marshal(p) \in {Refused} \cup [bytes : Bytes],
           genericDigest(context, format, payload) # Refused
    PROVE  /\ genericDigest(context, format, payload)
                # integrityDigest(context2, object, canonical)
           /\ genericDigest(context, format, payload) = genericDigest(context2, format2, payload2)
                => /\ context = context2 /\ format = format2
                   /\ format = Raw => payload = payload2
                   /\ format = Json => Marshal(payload) = Marshal(payload2)
<1> DEFINE Signed(f, p) == IF f = Raw THEN p ELSE Marshal(p).bytes
<1>1. Raw \in Bytes /\ Json \in Bytes /\ Raw # Json
  BY DEF Raw, Json, Bytes
<1>2. ASSUME NEW c \in Bytes, NEW f \in {Raw, Json}, NEW p \in Bytes,
             genericDigest(c, f, p) # Refused
      PROVE  /\ Signed(f, p) \in Bytes
             /\ f = Json => Marshal(p) \in [bytes : Bytes]
             /\ genericDigest(c, f, p) = [sha256 |-> Labelled(1, c, f, Signed(f, p))]
  BY <1>1, <1>2 DEF genericDigest
<1> HIDE DEF Signed
<1>3. genericDigest(context, format, payload) # integrityDigest(context2, object, canonical)
  <2> SUFFICES ASSUME genericDigest(context, format, payload)
                        = integrityDigest(context2, object, canonical)
               PROVE  FALSE
    OBVIOUS
  <2>1. Labelled(1, context, format, Signed(format, payload))
          = Labelled(2, context2, object, canonical)
    BY <1>2 DEF integrityDigest
  <2>2. format \in Bytes /\ Signed(format, payload) \in Bytes /\ 1 \in Nat /\ 2 \in Nat
    BY <1>1, <1>2
  <2>3. 1 = 2
    BY <2>1, <2>2, LabelsAreDetermined
  <2> QED BY <2>3
<1>4. ASSUME genericDigest(context, format, payload) = genericDigest(context2, format2, payload2)
      PROVE  /\ context = context2 /\ format = format2
             /\ format = Raw => payload = payload2
             /\ format = Json => Marshal(payload) = Marshal(payload2)
  <2>1. Labelled(1, context, format, Signed(format, payload))
          = Labelled(1, context2, format2, Signed(format2, payload2))
    BY <1>2, <1>4
  <2>2. /\ context = context2 /\ format = format2
        /\ Signed(format, payload) = Signed(format2, payload2)
    <3>1. /\ format \in Bytes /\ Signed(format, payload) \in Bytes
          /\ format2 \in Bytes /\ Signed(format2, payload2) \in Bytes
          /\ 1 \in Nat
      BY <1>1, <1>2, <1>4
    <3> QED BY <2>1, <3>1, LabelsAreDetermined
  <2>3. format = Json => Marshal(payload) = Marshal(payload2)
    BY <1>1, <1>2, <1>4, <2>2 DEF Signed
  <2> QED BY <2>2, <2>3 DEF Signed
<1> QED BY <1>3, <1>4
-----------------------------------------------------------------------------
(* RLP.                                                                    *)

(* A slice of a string between what comes before it and what comes after.  *)
LEMMA Slices ==
    ASSUME NEW a \in Bytes, NEW b \in Bytes, NEW c \in Bytes
    PROVE  /\ SubSeq(Cat(a, Cat(b, c)), Len(a) + 1, Len(a) + Len(b)) = b
           /\ Len(Cat(a, Cat(b, c))) = Len(a) + Len(b) + Len(c)
<1> DEFINE bc == b \o c
           d == a \o bc
           la == Len(a)
           lb == Len(b)
           lc == Len(c)
<1>1. /\ la \in Nat /\ lb \in Nat /\ lc \in Nat
      /\ bc \in Bytes /\ Len(bc) = lb + lc /\ \A i \in 1..lb : bc[i] = b[i]
  BY Places DEF Bytes
<1>2. /\ d \in Bytes /\ Len(d) = la + Len(bc)
      /\ \A i \in 1..Len(bc) : d[la + i] = bc[i]
  <2> HIDE DEF bc
  <2>1. a \in Seq(Nat) /\ bc \in Seq(Nat)
    BY <1>1 DEF Bytes
  <2>2. d \in Seq(Nat) /\ Len(d) = la + Len(bc)
    BY ONLY <2>1, Places
  <2>3. \A i \in 1..Len(bc) : d[la + i] = bc[i]
    BY ONLY <2>1, Places
  <2> QED BY <2>2, <2>3 DEF Bytes
<1>3. Cat(a, Cat(b, c)) = d
  BY DEF Cat
<1>4. \A i \in 1..lb : b[i] \in Nat
  BY ElementOfSeq DEF Bytes
<1>5. \A i \in 1..Len(d) : d[i] \in Nat
  BY <1>2, ElementOfSeq DEF Bytes
<1> HIDE DEF bc, d, la, lb, lc
<1>6. \A i \in 1..lb : d[la + i] = b[i]
  BY <1>1, <1>2
<1>7. Len(d) = la + lb + lc
  BY <1>1, <1>2
<1> DEFINE z == SubSeq(d, la + 1, la + lb)
<1>8. /\ z \in Seq(Nat)
      /\ Len(z) = IF la + 1 <= la + lb THEN (la + lb) - (la + 1) + 1 ELSE 0
      /\ \A i \in 1..((la + lb) - (la + 1) + 1) : z[i] = d[(la + 1) + i - 1]
  <2>1. \A i \in (la + 1)..(la + lb) : d[i] \in Nat
    BY <1>1, <1>5, <1>7
  <2>2. la + 1 \in Int /\ la + lb \in Int
    BY <1>1
  <2> QED BY <2>1, <2>2, SubSeqProperties
<1> HIDE DEF z
<1>9. Len(z) = lb
  BY <1>1, <1>8
<1>10. \A i \in 1..lb : z[i] = b[i]
  <2> SUFFICES ASSUME NEW i \in 1..lb
               PROVE  z[i] = b[i]
    OBVIOUS
  <2>1. i \in 1..((la + lb) - (la + 1) + 1) /\ (la + 1) + i - 1 = la + i
    BY <1>1
  <2>2. z[i] = d[(la + 1) + i - 1]
    BY <1>8, <2>1
  <2>3. z[i] = d[la + i]
    BY <2>1, <2>2
  <2> QED BY <1>6, <2>3
<1>11. z = b
  <2>1. b \in Seq(Nat) /\ Len(b) = lb
    BY DEF Bytes, lb
  <2> QED BY <1>8, <1>9, <1>10, <2>1, SeqEqual
<1> QED BY <1>3, <1>7, <1>11 DEF z, la, lb, lc

(* The prefix of a string or a list of at most MaxInt bytes is read back   *)
(* (decodeRLPLength, transaction.go 483-495): where the payload starts and *)
(* how long it is, whatever follows it.                                    *)
THEOREM LengthsAreRead ==
    ASSUME MaxInt \in Nat, NEW short \in Nat, NEW v \in Bytes, Len(v) <= MaxInt,
           NEW rest \in Bytes
    PROVE  LET data == Prefixed(short, v) \o rest
               at == decodeRLPLength(data, short)
           IN /\ at # Invalid
              /\ at.length = Len(v) /\ at.offset + at.length + Len(rest) = Len(data)
              /\ SubSeq(data, at.offset + 1, at.offset + at.length) = v
<1> DEFINE k == Len(v)
           h == FirstByte(short, k)
           b == LengthBytes(k)
           hh == <<h>>
           hb == Cat(hh, b)
           data == Prefixed(short, v) \o rest
<1>1. k \in Nat /\ Len(rest) \in Nat
  BY Concats
<1>2. h \in Nat /\ b \in Bytes
  BY <1>1, Headers
<1> HIDE DEF h, b
<1>3. hh \in Bytes /\ Len(hh) = 1 /\ hh[1] = h
  BY <1>2 DEF Bytes
<1>4. data = Cat(Cat(hh, Cat(b, v)), rest)
  <2>1. Prefixed(short, v) = Led(h, Cat(b, v))
    BY Headers DEF h, b
  <2> QED BY <2>1 DEF Led, Cat
<1> HIDE DEF data, hh
<1>5. data = Cat(hh, Cat(b, Cat(v, rest))) /\ data = Cat(hb, Cat(v, rest))
  <2>1. Cat(b, v) \in Bytes /\ Cat(v, rest) \in Bytes
    BY <1>2, Concats
  <2>2. Cat(Cat(hh, Cat(b, v)), rest) = Cat(hh, Cat(Cat(b, v), rest))
    BY <1>3, <2>1, Concats
  <2>3. Cat(Cat(b, v), rest) = Cat(b, Cat(v, rest))
    BY <1>2, Concats
  <2>4. Cat(hb, Cat(v, rest)) = Cat(hh, Cat(b, Cat(v, rest)))
    BY <1>2, <1>3, <2>1, Concats
  <2> QED BY <1>4, <2>2, <2>3, <2>4
<1>6. hb \in Bytes /\ Len(hb) = 1 + Len(b) /\ Len(b) \in Nat
  <2>1. hb \in Bytes
    BY <1>2, <1>3, Concats
  <2>2. Len(hb) = Len(hh) + Len(b) /\ Len(b) \in Nat
    BY <1>2, <1>3, Places DEF Bytes, Cat
  <2> QED BY <1>3, <2>1, <2>2
<1> HIDE DEF hb
<1> DEFINE lb == Len(b)
<1>7. /\ SubSeq(data, 1 + lb + 1, 1 + lb + k) = v
      /\ Len(data) = 1 + lb + k + Len(rest)
  <2> DEFINE lh == Len(hb)
  <2>1. /\ SubSeq(Cat(hb, Cat(v, rest)), lh + 1, lh + k) = v
        /\ Len(Cat(hb, Cat(v, rest))) = lh + k + Len(rest)
    BY <1>6, Slices
  <2>2. lh = 1 + lb
    BY <1>6
  <2> HIDE DEF lh, lb, k
  <2> QED BY <1>5, <2>1, <2>2
<1>8. SubSeq(data, 2, 1 + lb) = b
  <2>1. Cat(v, rest) \in Bytes
    BY Concats
  <2>2. SubSeq(data, 1 + 1, 1 + lb) = b
    <3> DEFINE lh == Len(hh)
    <3>1. SubSeq(Cat(hh, Cat(b, Cat(v, rest))), lh + 1, lh + lb) = b
      BY <1>2, <1>3, <2>1, Slices
    <3>2. lh = 1
      BY <1>3
    <3> HIDE DEF lh, lb
    <3> QED BY <1>5, <3>1, <3>2
  <2> QED BY <2>2
<1>9. data[1] = h /\ (b # <<>> => data[2] = b[1])
  <2>1. Cat(b, Cat(v, rest)) \in Bytes
    BY <1>2, Concats
  <2>2. \A i \in 1..1 : data[i] = hh[i]
    <3>1. data = hh \o Cat(b, Cat(v, rest))
      BY <1>5 DEF Cat
    <3> QED BY <1>3, <2>1, <3>1, Places DEF Bytes
  <2>3. ASSUME b # <<>>
        PROVE  data[2] = b[1]
    <3>1. lb \in Nat /\ lb >= 1
      BY <1>2, <2>3, Concats
    <3> HIDE DEF lb
    <3>2. \A i \in 1..Len(hb) : data[i] = hb[i]
      <4>1. data = hb \o Cat(v, rest) /\ Cat(v, rest) \in Bytes
        BY <1>5, Concats DEF Cat
      <4> QED BY <1>6, <4>1, Places DEF Bytes
    <3>3. \A i \in 1..lb : hb[1 + i] = b[i]
      <4>1. \A i \in 1..Len(b) : (hh \o b)[Len(hh) + i] = b[i]
        <5>1. hh \in Seq(Nat) /\ b \in Seq(Nat)
          BY <1>2, <1>3 DEF Bytes
        <5> QED BY ONLY <5>1, Places
      <4> QED BY <1>3, <4>1 DEF hb, Cat, lb
    <3>4. 2 \in 1..Len(hb) /\ 1 \in 1..lb
      BY <1>6, <3>1 DEF lb
    <3>5. hb[1 + 1] = b[1]
      BY ONLY <3>3, <3>4
    <3> QED BY <3>2, <3>4, <3>5
  <2> QED BY <1>3, <2>2, <2>3
<1>10. CASE k <= 55
  <2>1. h = short + k /\ b = <<>>
    BY <1>10 DEF h, b, FirstByte, LengthBytes
  <2>2. lb = 0
    BY <2>1
  <2>3. decodeRLPLength(data, short) = [offset |-> 1, length |-> k]
    <3>1. data[1] - short = k
      BY <1>1, <1>9, <2>1
    <3> QED BY <1>10, <3>1 DEF decodeRLPLength
  <2>4. decodeRLPLength(data, short) # Invalid
    <3>1. "offset" \in DOMAIN [offset |-> 1, length |-> k] /\ "offset" \notin DOMAIN Invalid
      BY DEF Invalid
    <3> QED BY <2>3, <3>1
  <2> QED BY <1>1, <1>7, <2>2, <2>3, <2>4 DEF data
<1>11. CASE k > 55
  <2>1. h = short + 55 + lb /\ b = intBytes[k]
    <3>1. ~(k <= 55)
      BY <1>1, <1>11
    <3> QED BY <3>1 DEF h, b, FirstByte, LengthBytes
  <2>2. bigEndian(b) = k /\ NoLeadingZero(b) /\ b # <<>>
    <3>1. bigEndian(<<>>) = 0
      BY BigEndian
    <3> QED BY <1>1, <1>11, <2>1, <3>1, IntegersHaveOneForm
  <2>3. lb \in Nat /\ lb >= 1
    BY <1>2, <2>2, Concats
  <2>4. data[2] # 0
    BY <1>9, <2>2 DEF NoLeadingZero
  <2> HIDE DEF lb
  <2>5. data[1] - short = 55 + lb
    BY <1>9, <2>1, <2>3
  <2>6. bigEndian(SubSeq(data, 2, (55 + lb) - 55 + 1)) = k
    <3>1. (55 + lb) - 55 + 1 = 1 + lb
      BY <2>3
    <3> QED BY <1>8, <2>2, <3>1
  <2> DEFINE n == data[1] - short
             length == bigEndian(SubSeq(data, 2, n - 55 + 1))
  <2>7. n = 55 + lb /\ length = k
    BY <2>5, <2>6
  <2>8. decodeRLPLength(data, short) =
          IF n <= 55 THEN [offset |-> 1, length |-> n]
          ELSE IF Len(data) < 1 + n - 55 \/ data[2] = 0 \/ length > MaxInt \/ length <= 55
            THEN Invalid
            ELSE [offset |-> 1 + n - 55, length |-> length]
    BY DEF decodeRLPLength
  <2> HIDE DEF n, length
  <2>9. /\ ~(n <= 55) /\ ~(Len(data) < 1 + n - 55) /\ ~(length > MaxInt) /\ ~(length <= 55)
        /\ 1 + n - 55 = 1 + lb
    BY <1>1, <1>7, <1>11, <2>3, <2>7 DEF lb
  <2>10. decodeRLPLength(data, short) = [offset |-> 1 + lb, length |-> k]
    BY <2>4, <2>7, <2>8, <2>9
  <2>11. decodeRLPLength(data, short) # Invalid
    <3>1. "offset" \in DOMAIN [offset |-> 1 + lb, length |-> k] /\ "offset" \notin DOMAIN Invalid
      BY DEF Invalid
    <3> QED BY <2>10, <3>1
  <2> QED BY <1>1, <1>7, <2>10, <2>11 DEF data, lb
<1>12. k <= 55 \/ k > 55
  BY <1>1
<1> QED BY ONLY <1>10, <1>11, <1>12, Zenon

\* The concatenations of the first elements of s, one by one.
Joins(f, s) ==
    /\ f \in [0..Len(s) -> Bytes] /\ f[0] = <<>>
    /\ \A i \in 1..Len(s) : f[i] = Cat(f[i - 1], s[i])

(* FlattenSeq joins the elements one by one, from the first.               *)
LEMMA FlattenJoins ==
    ASSUME NEW s \in Seq(Bytes)
    PROVE  \E f : Joins(f, s) /\ FlattenSeq(s) = f[Len(s)]
<1> DEFINE n == Len(s)
           step == [p \in (1..n) \X Bytes |-> Cat(p[2], s[p[1]])]
<1>1. n \in Nat /\ \A i \in 1..n : s[i] \in Bytes
  BY ElementOfSeq
<1>2. <<>> \in Bytes
  BY Concats
<1> HIDE DEF n
<1>3. \A i \in 1..n, v \in Bytes : Cat(v, s[i]) \in Bytes
  BY <1>1, Concats
<1>4. /\ step \in [(1..n) \X Bytes -> Bytes]
      /\ \A i \in 1..n, v \in Bytes : step[<<i, v>>] = Cat(v, s[i])
  BY <1>3
<1> HIDE DEF step
<1>5. PICK f \in [0..n -> Bytes] : Iterates(f, n, <<>>, step)
  BY ONLY <1>1, <1>2, <1>4, Recursion
<1>6. f[0] = <<>> /\ \A i \in 1..n : f[i] = Cat(f[i - 1], s[i])
  <2>1. \A i \in 1..n : f[i] = step[<<i, f[i - 1]>>] /\ f[i - 1] \in Bytes
    BY <1>1, <1>5 DEF Iterates
  <2> QED BY <1>4, <1>5, <2>1 DEF Iterates
<1>7. Joins(f, s)
  BY <1>5, <1>6 DEF Joins, n
<1>8. FlattenSeq(s) = f[n]
  <2>1. CASE n = 0
    <3>1. s = <<>>
      BY <2>1 DEF n
    <3>2. FlattenSeq(s) = s
      BY <2>1 DEF FlattenSeq, n
    <3> QED BY <1>6, <2>1, <3>1, <3>2
  <2>2. CASE n # 0
    <3> DEFINE flatten[i \in 1..n] == IF i = 1 THEN s[i] ELSE flatten[i - 1] \o s[i]
               g == [i \in 1..n |-> f[i]]
    <3>1. FlattenSeq(s) = flatten[n]
      BY <2>2 DEF FlattenSeq, n
    <3>2. g = [i \in 1..n |-> IF i = 1 THEN s[i] ELSE g[i - 1] \o s[i]]
      <4>1. ASSUME NEW i \in 1..n
            PROVE  f[i] = IF i = 1 THEN s[i] ELSE g[i - 1] \o s[i]
        <5>1. CASE i = 1
          <6>1. f[1] = Cat(f[0], s[1])
            BY <1>1, <1>6, <5>1
          <6>2. s[1] \in Bytes
            BY <1>1, <5>1
          <6> QED BY <1>6, <5>1, <6>1, <6>2, Concats
        <5>2. CASE i # 1
          <6>1. i - 1 \in 1..n
            BY <1>1, <5>2
          <6>2. g[i - 1] = f[i - 1]
            BY <6>1
          <6> HIDE DEF g
          <6> QED BY <1>6, <5>2, <6>2 DEF Cat
        <5> QED BY <5>1, <5>2
      <4> HIDE DEF g
      <4>2. g = [i \in 1..n |-> f[i]]
        BY DEF g
      <4> QED BY <4>1, <4>2
    <3>3. flatten = [i \in 1..n |-> IF i = 1 THEN s[i] ELSE flatten[i - 1] \o s[i]]
      <4> HIDE DEF g
      <4> QED BY <3>2
    <3> HIDE DEF flatten, g
    <3> DEFINE T == {i \in 0..n : i = 0 \/ flatten[i] = g[i]}
    <3>4. 0 \in T
      BY <1>1
    <3>5. ASSUME NEW i \in 0..(n - 1), i \in T
          PROVE  i + 1 \in T
      <4>1. i + 1 \in 1..n /\ i + 1 \in 0..n /\ (i + 1) - 1 = i /\ (i + 1 = 1 <=> i = 0)
        BY <1>1
      <4>2. flatten[i + 1] = IF i = 0 THEN s[i + 1] ELSE flatten[i] \o s[i + 1]
        BY <3>3, <4>1
      <4>3. g[i + 1] = IF i = 0 THEN s[i + 1] ELSE g[i] \o s[i + 1]
        BY <3>2, <4>1
      <4>4. i = 0 \/ flatten[i] = g[i]
        BY <3>5
      <4>5. flatten[i + 1] = g[i + 1]
        BY <4>2, <4>3, <4>4
      <4> QED BY <4>1, <4>5
    <3> HIDE DEF T
    <3>6. \A i \in 0..n : i \in T
      BY ONLY <1>1, <3>4, <3>5, UpTo
    <3>7. flatten[n] = g[n] /\ n \in 1..n
      BY <1>1, <2>2, <3>6 DEF T
    <3> QED BY <3>1, <3>7 DEF g
  <2> QED BY <2>1, <2>2
<1> QED BY <1>7, <1>8 DEF n

(* After any number of elements there is the rest.                         *)
LEMMA RestOfJoin ==
    ASSUME NEW s \in Seq(Bytes), NEW f, Joins(f, s), NEW k \in 0..Len(s)
    PROVE  /\ \E r \in Bytes : f[Len(s)] = Cat(f[k], r)
           /\ k < Len(s) => \E r \in Bytes : f[Len(s)] = Cat(f[k], Cat(s[k + 1], r))
<1> DEFINE n == Len(s)
           Rest(i) == \E r \in Bytes : f[n] = Cat(f[i], r)
           Next1(i) == \E r \in Bytes : f[n] = Cat(f[i], Cat(s[i + 1], r))
           T == {j \in 0..n : Rest(n - j)}
<1>1. n \in Nat /\ (\A i \in 1..n : s[i] \in Bytes) /\ k \in 0..n
  BY ElementOfSeq
<1>2. /\ f \in [0..n -> Bytes]
      /\ \A i \in 1..n : f[i] = Cat(f[i - 1], s[i])
  BY DEF Joins
<1> HIDE DEF n
<1>3. ASSUME NEW i \in 0..(n - 1), Rest(i + 1)
      PROVE  Next1(i) /\ Rest(i)
  <2>1. PICK r \in Bytes : f[n] = Cat(f[i + 1], r)
    BY <1>3
  <2> DEFINE a == f[i]
             b == s[i + 1]
  <2>2. a \in Bytes /\ b \in Bytes /\ f[i + 1] = Cat(a, b)
    <3>1. i \in 0..n /\ i + 1 \in 1..n /\ (i + 1) - 1 = i
      BY <1>1
    <3> QED BY <1>1, <1>2, <3>1
  <2> HIDE DEF a, b
  <2>3. f[n] = Cat(a, Cat(b, r)) /\ Cat(b, r) \in Bytes
    BY <2>1, <2>2, Concats
  <2> QED BY <2>3 DEF a, b
<1>4. Rest(n)
  <2> DEFINE a == f[n]
  <2>1. a \in Bytes
    BY <1>1, <1>2
  <2> HIDE DEF a
  <2>2. a = Cat(a, <<>>) /\ <<>> \in Bytes
    BY <2>1, Concats
  <2> QED BY <2>2 DEF a
<1> HIDE DEF Rest, Next1
<1>5. 0 \in T
  BY <1>1, <1>4
<1>6. ASSUME NEW j \in 0..(n - 1), j \in T
      PROVE  j + 1 \in T
  <2> DEFINE i == n - (j + 1)
  <2>1. i \in 0..(n - 1) /\ i + 1 = n - j /\ j + 1 \in 0..n
    BY <1>1
  <2>2. Rest(n - j)
    BY <1>6
  <2>3. Rest(i + 1)
    <3> HIDE DEF i
    <3> QED BY <2>1, <2>2
  <2>4. Rest(i)
    <3> HIDE DEF i
    <3> QED BY <1>3, <2>1, <2>3
  <2> QED BY <2>1, <2>4
<1> HIDE DEF T
<1>7. \A j \in 0..n : j \in T
  BY ONLY <1>1, <1>5, <1>6, UpTo
<1>8. ASSUME NEW i \in 0..n
      PROVE  Rest(i)
  <2>1. n - i \in 0..n /\ n - (n - i) = i
    BY <1>1
  <2>2. n - i \in T
    BY <1>7, <2>1
  <2>3. Rest(n - (n - i))
    BY <2>2 DEF T
  <2> QED BY <2>1, <2>3
<1>9. k < n => Next1(k)
  <2> SUFFICES ASSUME k < n
               PROVE  Next1(k)
    OBVIOUS
  <2>1. k \in 0..(n - 1) /\ k + 1 \in 0..n
    BY <1>1
  <2>2. Rest(k + 1)
    BY <1>8, <2>1
  <2> QED BY <1>3, <2>1, <2>2
<1>10. Rest(k)
  BY <1>1, <1>8
<1> QED BY <1>9, <1>10 DEF Rest, Next1, n

\* Where c and d begin the same sequence, they are the same.
Ends(c, d) == \A x, y \in Bytes : Cat(c, x) = Cat(d, y) => c = d

(* Sequences of elements that tell where they end are told apart by their  *)
(* concatenation.                                                          *)
LEMMA FlattenEnds ==
    ASSUME NEW s \in Seq(Bytes), NEW t \in Seq(Bytes), Len(s) <= Len(t),
           \A i \in 1..Len(s) : Ends(s[i], t[i]),
           \A i \in 1..Len(t) : t[i] # <<>>,
           FlattenSeq(s) = FlattenSeq(t)
    PROVE  s = t
<1>1. PICK f : Joins(f, s) /\ FlattenSeq(s) = f[Len(s)]
  BY FlattenJoins
<1>2. PICK g : Joins(g, t) /\ FlattenSeq(t) = g[Len(t)]
  BY FlattenJoins
<1> DEFINE n == Len(s)
           m == Len(t)
           T == {i \in 0..n : f[i] = g[i] /\ (i > 0 => s[i] = t[i])}
<1>3. /\ n \in Nat /\ m \in Nat /\ n <= m /\ f[n] = g[m]
      /\ \A i \in 1..n : s[i] \in Bytes
      /\ \A i \in 1..m : t[i] \in Bytes
  <2>1. n \in Nat /\ m \in Nat /\ n <= m
    OBVIOUS
  <2>2. (\A i \in 1..n : s[i] \in Bytes) /\ (\A i \in 1..m : t[i] \in Bytes)
    BY ElementOfSeq
  <2>3. f[n] = g[m]
    BY <1>1, <1>2
  <2> QED BY <2>1, <2>2, <2>3
<1>4. /\ f \in [0..n -> Bytes] /\ f[0] = <<>>
      /\ \A i \in 1..n : f[i] = Cat(f[i - 1], s[i])
  BY <1>1 DEF Joins
<1>5. /\ g \in [0..m -> Bytes] /\ g[0] = <<>>
      /\ \A i \in 1..m : g[i] = Cat(g[i - 1], t[i])
  BY <1>2 DEF Joins
<1>6. /\ \A k \in 0..n : k < n => \E r \in Bytes : f[n] = Cat(f[k], Cat(s[k + 1], r))
      /\ \A k \in 0..m : k < m => \E r \in Bytes : g[m] = Cat(g[k], Cat(t[k + 1], r))
      /\ \A k \in 0..m : \E r \in Bytes : g[m] = Cat(g[k], r)
  BY <1>1, <1>2, RestOfJoin
<1>7. /\ \A i \in 1..n : Ends(s[i], t[i])
      /\ \A i \in 1..m : t[i] # <<>>
  OBVIOUS
<1> HIDE DEF n, m
<1>8. 0 \in T
  BY <1>3, <1>4, <1>5
<1>9. ASSUME NEW i \in 0..(n - 1), i \in T
      PROVE  i + 1 \in T
  <2>1. /\ i \in 0..n /\ i \in 0..m /\ i < n /\ i < m /\ i + 1 \in 1..n /\ i + 1 \in 1..m
        /\ (i + 1) - 1 = i /\ i + 1 \in 0..n
    BY <1>3
  <2>2. PICK x \in Bytes : f[n] = Cat(f[i], Cat(s[i + 1], x))
    BY <1>6, <2>1
  <2>3. PICK y \in Bytes : g[m] = Cat(g[i], Cat(t[i + 1], y))
    BY <1>6, <2>1
  <2> DEFINE a == f[i]
             c == s[i + 1]
             d == t[i + 1]
             cx == Cat(c, x)
             dy == Cat(d, y)
  <2>4. a = g[i] /\ a \in Bytes /\ c \in Bytes /\ d \in Bytes
    BY <1>3, <1>4, <1>9, <2>1
  <2>5. Ends(c, d)
    BY <1>7, <2>1
  <2>6. f[i + 1] = Cat(a, c) /\ g[i + 1] = Cat(a, d)
    BY <1>4, <1>5, <2>1, <2>4
  <2>7. Cat(a, cx) = Cat(a, dy)
    BY <1>3, <2>2, <2>3, <2>4
  <2> HIDE DEF a, c, d
  <2>8. cx \in Bytes /\ dy \in Bytes
    BY <2>4, Concats
  <2>9. cx = dy
    <3> HIDE DEF cx, dy
    <3>1. \A u, v, x1, y1 \in Bytes :
            Cat(u, x1) = Cat(v, y1) /\ Len(u) = Len(v) => u = v /\ x1 = y1
      BY Concats
    <3>2. a \in Bytes /\ Len(a) = Len(a)
      BY <2>4
    <3> QED BY ONLY <2>7, <2>8, <3>1, <3>2, Zenon
  <2>10. c = d
    BY <2>5, <2>9 DEF Ends
  <2> QED BY <2>1, <2>6, <2>10 DEF c, d
<1> HIDE DEF T
<1>10. \A i \in 0..n : i \in T
  BY ONLY <1>3, <1>8, <1>9, UpTo
<1>11. f[n] = g[n] /\ \A i \in 1..n : s[i] = t[i]
  BY <1>3, <1>10 DEF T
<1>12. n = m
  <2> SUFFICES ASSUME n < m
               PROVE  FALSE
    BY <1>3
  <2>1. n \in 0..m /\ n + 1 \in 1..m
    BY <1>3
  <2>2. PICK r \in Bytes : g[m] = Cat(g[n], Cat(t[n + 1], r))
    BY <1>6, <2>1
  <2> DEFINE a == g[n]
             d == t[n + 1]
             dr == Cat(d, r)
  <2>3. a \in Bytes /\ d \in Bytes /\ d # <<>>
    BY <1>3, <1>5, <1>7, <2>1
  <2>4. Cat(a, dr) = a
    BY <1>3, <1>11, <2>2
  <2> HIDE DEF a, d
  <2>5. dr \in Bytes /\ <<>> \in Bytes /\ Cat(a, <<>>) = a
    BY <2>3, Concats
  <2>6. dr = <<>>
    <3> HIDE DEF dr
    <3> QED BY <2>3, <2>4, <2>5, Concats
  <2>7. d = <<>>
    <3>1. Len(d) + Len(r) = 0
      BY <2>3, <2>6 DEF Cat, Bytes
    <3>2. Len(d) \in Nat /\ Len(r) \in Nat /\ (d # <<>> => Len(d) >= 1)
      BY <2>3, Concats
    <3> QED BY <3>1, <3>2
  <2> QED BY <2>3, <2>7
<1> QED BY <1>3, <1>11, <1>12, SeqEqual DEF n, m

\* A code is not empty, and tells where it ends and which of S it stands for.
Code(f, S) ==
    /\ f \in [S -> Bytes]
    /\ \A a \in S : f[a] # <<>>
    /\ \A a, b \in S, x, y \in Bytes : Cat(f[a], x) = Cat(f[b], y) => a = b

(* The codes of two values end where they begin alike, and are equal only  *)
(* for one value.                                                          *)
LEMMA CodesEnd ==
    ASSUME NEW S, NEW f, Code(f, S), NEW a \in S, NEW b \in S
    PROVE  /\ f[a] \in Bytes /\ f[a] # <<>> /\ Ends(f[a], f[b])
           /\ f[a] = f[b] => a = b
<1>1. f[a] \in Bytes /\ f[b] \in Bytes /\ f[a] # <<>>
  BY DEF Code
<1>2. Ends(f[a], f[b])
  BY DEF Code, Ends
<1>3. f[a] = f[b] => a = b
  <2>1. <<>> \in Bytes
    BY Concats
  <2>2. f[a] = f[b] => Cat(f[a], <<>>) = Cat(f[b], <<>>)
    OBVIOUS
  <2> QED BY <2>1, <2>2 DEF Code
<1> QED BY <1>1, <1>2, <1>3

Strings == [v \in Bytes |-> rlpBytes(v)]

(* Byte strings as rlpBytes writes them are a code.                        *)
LEMMA StringsAreCodes == Code(Strings, Bytes)
<1>1. ASSUME NEW v \in Bytes
      PROVE  rlpBytes(v) \in Bytes /\ rlpBytes(v) # <<>>
  <2>1. CASE Len(v) = 1 /\ v[1] < 128
    <3>1. rlpBytes(v) = v
      BY <2>1 DEF rlpBytes
    <3>2. v # <<>>
      BY <2>1
    <3> QED BY <3>1, <3>2
  <2>2. CASE ~(Len(v) = 1 /\ v[1] < 128)
    <3>1. rlpBytes(v) = Prefixed(128, v)
      BY <2>2 DEF rlpBytes
    <3>2. PICK h \in Nat, s \in Bytes : Prefixed(128, v) = Led(h, s)
      BY PrefixedStarts
    <3> QED BY <3>1, <3>2, Leds
  <2> QED BY <2>1, <2>2
<1>2. \A v \in Bytes : Strings[v] = rlpBytes(v)
  BY DEF Strings
<1>3. Strings \in [Bytes -> Bytes]
  BY <1>1 DEF Strings
<1>4. ASSUME NEW v \in Bytes, NEW w \in Bytes, NEW x \in Bytes, NEW y \in Bytes,
             Cat(Strings[v], x) = Cat(Strings[w], y)
      PROVE  v = w
  BY <1>2, <1>4, StringsEnd
<1> QED BY <1>1, <1>2, <1>3, <1>4 DEF Code

Quantities == [n \in Nat |-> rlpBig(n)]

(* Quantities as rlpBig writes them are a code.                            *)
LEMMA QuantitiesAreCodes ==
    /\ Code(Quantities, Nat)
    /\ \A n \in Nat : intBytes[n] \in Bytes /\ rlpBig(n) = Strings[intBytes[n]]
<1>1. ASSUME NEW n \in Nat
      PROVE  intBytes[n] \in Bytes /\ rlpBig(n) = Strings[intBytes[n]]
  <2>1. intBytes[n] \in Bytes
    BY IntegerBytes, Concats
  <2> QED BY <2>1 DEF rlpBig, Strings
<1>2. \A n \in Nat : Quantities[n] = Strings[intBytes[n]]
  BY <1>1 DEF Quantities
<1>3. Quantities \in [Nat -> Bytes]
  <2>1. \A n \in Nat : rlpBig(n) \in Bytes
    BY <1>1, StringsAreCodes DEF Code
  <2> QED BY <2>1 DEF Quantities
<1>4. \A n \in Nat : Quantities[n] # <<>>
  BY <1>1, <1>2, StringsAreCodes DEF Code
<1>5. ASSUME NEW m \in Nat, NEW n \in Nat, NEW x \in Bytes, NEW y \in Bytes,
             Cat(Quantities[m], x) = Cat(Quantities[n], y)
      PROVE  m = n
  <2> DEFINE v == intBytes[m]
             w == intBytes[n]
  <2>1. v \in Bytes /\ w \in Bytes /\ Quantities[m] = Strings[v] /\ Quantities[n] = Strings[w]
    BY <1>1, <1>2
  <2>2. bigEndian(v) = m /\ bigEndian(w) = n
    BY IntegersHaveOneForm
  <2> HIDE DEF v, w
  <2>3. v = w
    BY <1>5, <2>1, StringsAreCodes DEF Code
  <2> QED BY <2>2, <2>3
<1> QED BY <1>1, <1>3, <1>4, <1>5 DEF Code

(* A list tells where it ends, and what its items are as one string.       *)
LEMMA ListsEnd ==
    ASSUME NEW s \in Seq(Bytes), NEW t \in Seq(Bytes)
    PROVE  /\ FlattenSeq(s) \in Bytes
           /\ \E h \in Nat, r \in Bytes : h >= 192 /\ rlpList(s) = Led(h, r)
           /\ rlpList(s) \in Bytes /\ rlpList(s) # <<>>
           /\ \A x, y \in Bytes : Cat(rlpList(s), x) = Cat(rlpList(t), y)
                => FlattenSeq(s) = FlattenSeq(t) /\ rlpList(s) = rlpList(t)
           /\ rlpList(s) = rlpList(t) => FlattenSeq(s) = FlattenSeq(t)
<1>1. ASSUME NEW u \in Seq(Bytes)
      PROVE  FlattenSeq(u) \in Bytes
  <2>1. PICK f : Joins(f, u) /\ FlattenSeq(u) = f[Len(u)]
    BY FlattenJoins
  <2>2. f \in [0..Len(u) -> Bytes] /\ Len(u) \in 0..Len(u)
    BY <2>1 DEF Joins
  <2> QED BY <2>1, <2>2
<1> DEFINE v == FlattenSeq(s)
           w == FlattenSeq(t)
<1>2. v \in Bytes /\ w \in Bytes /\ rlpList(s) = Prefixed(192, v) /\ rlpList(t) = Prefixed(192, w)
  BY <1>1 DEF rlpList
<1> HIDE DEF v, w
<1>3. Prefixed(192, v) \in Bytes /\ \E h \in Nat, r \in Bytes : h >= 192 /\ Prefixed(192, v) = Led(h, r)
  BY <1>2, PrefixedStarts
<1>4. Prefixed(192, v) # <<>>
  BY <1>3, Leds
<1>5. ASSUME NEW x \in Bytes, NEW y \in Bytes, Cat(Prefixed(192, v), x) = Cat(Prefixed(192, w), y)
      PROVE  v = w
  BY <1>2, <1>5, PrefixedEnds
<1>6. Prefixed(192, v) = Prefixed(192, w) => v = w
  <2>1. <<>> \in Bytes
    BY Concats
  <2>2. Prefixed(192, v) = Prefixed(192, w) => Cat(Prefixed(192, v), <<>>) = Cat(Prefixed(192, w), <<>>)
    OBVIOUS
  <2> QED BY <1>5, <2>1, <2>2
<1> QED BY <1>2, <1>3, <1>4, <1>5, <1>6 DEF v, w

(* Lists of items that tell where they end differ when the items do.       *)
LEMMA ListsDiffer ==
    ASSUME NEW s \in Seq(Bytes), NEW t \in Seq(Bytes),
           \A i \in 1..Len(s) : i <= Len(t) => Ends(s[i], t[i]),
           \A i \in 1..Len(s) : s[i] # <<>>,
           \A i \in 1..Len(t) : t[i] # <<>>,
           rlpList(s) = rlpList(t)
    PROVE  s = t
<1>1. FlattenSeq(s) = FlattenSeq(t)
  BY ListsEnd
<1>2. Len(s) \in Nat /\ Len(t) \in Nat
  OBVIOUS
<1>3. CASE Len(s) <= Len(t)
  <2>1. \A i \in 1..Len(s) : Ends(s[i], t[i])
    BY <1>2, <1>3
  <2> QED BY <1>1, <1>3, <2>1, FlattenEnds
<1>4. CASE Len(t) <= Len(s)
  <2>1. \A i \in 1..Len(t) : Ends(t[i], s[i])
    <3>1. \A i \in 1..Len(t) : Ends(s[i], t[i])
      BY <1>2, <1>4
    <3>2. \A c, d : Ends(c, d) => Ends(d, c)
      BY DEF Ends
    <3> QED BY <3>1, <3>2
  <2>2. t = s
    BY <1>1, <1>4, <2>1, FlattenEnds
  <2> QED BY <2>2
<1> QED BY <1>2, <1>3, <1>4

Coded(f, s) == [j \in DOMAIN s |-> f[s[j]]]

(* A sequence in a code is determined by the list of its codes.            *)
LEMMA CodedLists ==
    ASSUME NEW S, NEW f, Code(f, S)
    PROVE  /\ \A s \in Seq(S) : Coded(f, s) \in Seq(Bytes)
           /\ \A s, t \in Seq(S) : rlpList(Coded(f, s)) = rlpList(Coded(f, t)) => s = t
<1>1. ASSUME NEW s \in Seq(S)
      PROVE  /\ Len(s) \in Nat /\ DOMAIN s = 1..Len(s) /\ \A i \in 1..Len(s) : s[i] \in S
             /\ Coded(f, s) \in Seq(Bytes) /\ Len(Coded(f, s)) = Len(s)
             /\ \A i \in 1..Len(s) : Coded(f, s)[i] = f[s[i]]
  <2> DEFINE c == Coded(f, s)
  <2>1. Len(s) \in Nat /\ DOMAIN s = 1..Len(s) /\ \A i \in 1..Len(s) : s[i] \in S
    BY ElementOfSeq
  <2>2. \A i \in 1..Len(s) : f[s[i]] \in Bytes
    BY <2>1, CodesEnd
  <2>3. c = [i \in 1..Len(s) |-> f[s[i]]]
    BY <2>1 DEF Coded
  <2>4. c \in [1..Len(s) -> Bytes] /\ \A i \in 1..Len(s) : c[i] = f[s[i]]
    BY <2>2, <2>3
  <2> HIDE DEF c
  <2>5. c \in Seq(Bytes) /\ Len(c) = Len(s)
    BY <2>1, <2>4
  <2> QED BY <2>1, <2>4, <2>5 DEF c
<1>2. ASSUME NEW s \in Seq(S), NEW t \in Seq(S), rlpList(Coded(f, s)) = rlpList(Coded(f, t))
      PROVE  s = t
  <2> DEFINE c == Coded(f, s)
             d == Coded(f, t)
  <2>1. /\ Len(s) \in Nat /\ Len(c) = Len(s) /\ c \in Seq(Bytes)
        /\ \A i \in 1..Len(s) : c[i] = f[s[i]] /\ s[i] \in S
    BY <1>1
  <2>2. /\ Len(t) \in Nat /\ Len(d) = Len(t) /\ d \in Seq(Bytes)
        /\ \A i \in 1..Len(t) : d[i] = f[t[i]] /\ t[i] \in S
    BY <1>1
  <2> HIDE DEF c, d
  <2>3. \A i \in 1..Len(c) : i <= Len(d) => Ends(c[i], d[i])
    <3> SUFFICES ASSUME NEW i \in 1..Len(c), i <= Len(d)
                 PROVE  Ends(c[i], d[i])
      OBVIOUS
    <3>1. i \in 1..Len(s) /\ i \in 1..Len(t)
      BY <2>1, <2>2
    <3> QED BY <2>1, <2>2, <3>1, CodesEnd
  <2>4. \A i \in 1..Len(c) : c[i] # <<>>
    BY <2>1, CodesEnd
  <2>5. \A i \in 1..Len(d) : d[i] # <<>>
    BY <2>2, CodesEnd
  <2>6. c = d
    BY <1>2, <2>1, <2>2, <2>3, <2>4, <2>5, ListsDiffer DEF c, d
  <2>7. Len(s) = Len(t) /\ \A i \in 1..Len(s) : f[s[i]] = f[t[i]]
    BY <2>1, <2>2, <2>6
  <2>8. \A i \in 1..Len(s) : s[i] = t[i]
    <3> SUFFICES ASSUME NEW i \in 1..Len(s)
                 PROVE  s[i] = t[i]
      OBVIOUS
    <3>1. s[i] \in S /\ t[i] \in S /\ f[s[i]] = f[t[i]]
      BY <2>1, <2>2, <2>7
    <3> QED BY <3>1, CodesEnd
  <2> QED BY <2>7, <2>8, SeqEqual
<1> QED BY <1>1, <1>2

ListCode(f, S) == [s \in Seq(S) |-> rlpList(Coded(f, s))]

(* The lists of the values of a code are a code.                           *)
LEMMA ListsAreCodes ==
    ASSUME NEW S, NEW f, Code(f, S)
    PROVE  Code(ListCode(f, S), Seq(S))
<1>1. \A s \in Seq(S) : Coded(f, s) \in Seq(Bytes) /\ ListCode(f, S)[s] = rlpList(Coded(f, s))
  BY CodedLists DEF ListCode
<1>2. \A s \in Seq(S) : rlpList(Coded(f, s)) \in Bytes /\ rlpList(Coded(f, s)) # <<>>
  BY <1>1, ListsEnd
<1>3. ListCode(f, S) \in [Seq(S) -> Bytes]
  BY <1>2 DEF ListCode
<1>4. ASSUME NEW s \in Seq(S), NEW t \in Seq(S), NEW x \in Bytes, NEW y \in Bytes,
             Cat(ListCode(f, S)[s], x) = Cat(ListCode(f, S)[t], y)
      PROVE  s = t
  <2>1. rlpList(Coded(f, s)) = rlpList(Coded(f, t))
    BY <1>1, <1>4, ListsEnd
  <2> QED BY <2>1, CodedLists
<1> QED BY <1>1, <1>2, <1>3, <1>4 DEF Code

KeyLists == ListCode(Strings, Bytes)
AccessListEntry == [address : Bytes, keys : Seq(Bytes)]
Entries == [e \in AccessListEntry |-> rlpList(<<Strings[e.address], KeyLists[e.keys]>>)]

(* The entries of an access list are a code.                               *)
LEMMA EntriesAreCodes == Code(Entries, AccessListEntry)
<1>1. Code(Strings, Bytes) /\ Code(KeyLists, Seq(Bytes))
  BY StringsAreCodes, ListsAreCodes DEF KeyLists
<1> DEFINE Parts(e) == <<Strings[e.address], KeyLists[e.keys]>>
<1>2. ASSUME NEW e \in AccessListEntry
      PROVE  /\ e.address \in Bytes /\ e.keys \in Seq(Bytes)
             /\ Parts(e) \in Seq(Bytes) /\ Len(Parts(e)) = 2
             /\ Parts(e)[1] = Strings[e.address] /\ Parts(e)[2] = KeyLists[e.keys]
             /\ Entries[e] = rlpList(Parts(e))
             /\ Entries[e] \in Bytes /\ Entries[e] # <<>>
  <2>1. e.address \in Bytes /\ e.keys \in Seq(Bytes)
    BY DEF AccessListEntry
  <2> DEFINE a == Strings[e.address]
             k == KeyLists[e.keys]
  <2>2. a \in Bytes /\ k \in Bytes
    BY <1>1, <2>1, CodesEnd
  <2>3. Entries[e] = rlpList(<<a, k>>)
    BY DEF Entries
  <2> HIDE DEF a, k
  <2>4. <<a, k>> \in Seq(Bytes) /\ Len(<<a, k>>) = 2 /\ <<a, k>>[1] = a /\ <<a, k>>[2] = k
    BY <2>2
  <2>5. rlpList(<<a, k>>) \in Bytes /\ rlpList(<<a, k>>) # <<>>
    BY <2>4, ListsEnd
  <2> QED BY <2>1, <2>3, <2>4, <2>5 DEF a, k
<1> HIDE DEF Parts
<1>3. Entries \in [AccessListEntry -> Bytes]
  <2>1. Entries = [e \in AccessListEntry |-> Entries[e]]
    BY DEF Entries
  <2> QED BY <1>2, <2>1
<1>4. ASSUME NEW e \in AccessListEntry, NEW g \in AccessListEntry, NEW x \in Bytes, NEW y \in Bytes,
             Cat(Entries[e], x) = Cat(Entries[g], y)
      PROVE  e = g
  <2> DEFINE s == Parts(e)
             t == Parts(g)
  <2>1. s \in Seq(Bytes) /\ t \in Seq(Bytes) /\ Len(s) = 2 /\ Len(t) = 2
    BY <1>2
  <2>2. rlpList(s) = rlpList(t)
    BY <1>2, <1>4, <2>1, ListsEnd
  <2>3. \A i \in 1..2 : Ends(s[i], t[i]) /\ s[i] # <<>> /\ t[i] # <<>>
    <3>1. Ends(s[1], t[1]) /\ s[1] # <<>> /\ t[1] # <<>>
      BY <1>1, <1>2, CodesEnd
    <3>2. Ends(s[2], t[2]) /\ s[2] # <<>> /\ t[2] # <<>>
      BY <1>1, <1>2, CodesEnd
    <3>3. \A i \in 1..2 : i = 1 \/ i = 2
      OBVIOUS
    <3> QED BY <3>1, <3>2, <3>3
  <2>4. s = t
    <3> HIDE DEF s, t
    <3> QED BY <2>1, <2>2, <2>3, ListsDiffer
  <2>5. Strings[e.address] = Strings[g.address] /\ KeyLists[e.keys] = KeyLists[g.keys]
    BY <1>2, <2>4
  <2>6. e.address = g.address /\ e.keys = g.keys
    BY <1>1, <1>2, <2>5, CodesEnd
  <2> QED BY <2>6 DEF AccessListEntry
<1> QED BY <1>2, <1>3, <1>4 DEF Code

AccessLists == ListCode(Entries, AccessListEntry)

(* Access lists as encodeAccessList writes them are a code (260-278).      *)
LEMMA AccessListsAreCodes ==
    /\ Code(AccessLists, Seq(AccessListEntry))
    /\ \A l \in Seq(AccessListEntry) : encodeAccessList(l) = AccessLists[l]
<1>1. Code(AccessLists, Seq(AccessListEntry))
  BY EntriesAreCodes, ListsAreCodes DEF AccessLists
<1>2. ASSUME NEW l \in Seq(AccessListEntry)
      PROVE  encodeAccessList(l) = AccessLists[l]
  <2>1. ASSUME NEW k \in Seq(Bytes)
        PROVE  rlpList([j \in DOMAIN k |-> rlpBytes(k[j])]) = KeyLists[k]
    <3>1. \A j \in DOMAIN k : k[j] \in Bytes
      BY ElementOfSeq
    <3>2. \A j \in DOMAIN k : rlpBytes(k[j]) = Strings[k[j]]
      BY <3>1 DEF Strings
    <3>3. [j \in DOMAIN k |-> rlpBytes(k[j])] = Coded(Strings, k)
      BY <3>2 DEF Coded
    <3> QED BY <3>3 DEF KeyLists, ListCode
  <2>2. ASSUME NEW i \in DOMAIN l
        PROVE  rlpList(<<rlpBytes(l[i].address),
                         rlpList([j \in DOMAIN l[i].keys |-> rlpBytes(l[i].keys[j])])>>)
                 = Entries[l[i]]
    <3> DEFINE e == l[i]
    <3>1. e \in AccessListEntry
      BY ElementOfSeq
    <3> HIDE DEF e
    <3>2. e.address \in Bytes /\ e.keys \in Seq(Bytes)
      BY <3>1 DEF AccessListEntry
    <3>3. rlpBytes(e.address) = Strings[e.address]
      BY <3>2 DEF Strings
    <3>4. rlpList([j \in DOMAIN e.keys |-> rlpBytes(e.keys[j])]) = KeyLists[e.keys]
      BY <2>1, <3>2
    <3>5. Entries[e] = rlpList(<<Strings[e.address], KeyLists[e.keys]>>)
      BY <3>1 DEF Entries
    <3> QED BY <3>3, <3>4, <3>5 DEF e
  <2> DEFINE whole == [i \in DOMAIN l |->
                rlpList(<<rlpBytes(l[i].address),
                          rlpList([j \in DOMAIN l[i].keys |-> rlpBytes(l[i].keys[j])])>>)]
  <2>3. whole = Coded(Entries, l)
    BY <2>2 DEF Coded
  <2>4. encodeAccessList(l) = rlpList(whole)
    BY DEF encodeAccessList
  <2> HIDE DEF whole
  <2> QED BY <2>3, <2>4 DEF AccessLists, ListCode
<1> QED BY <1>1, <1>2
-----------------------------------------------------------------------------
(* Transactions.                                                           *)

\* Two strings, or two access lists.
Alike(c, d) ==
    \/ \E v, w \in Bytes : c = Strings[v] /\ d = Strings[w]
    \/ \E l, m \in Seq(AccessListEntry) : c = AccessLists[l] /\ d = AccessLists[m]

(* Fields of one kind tell where they end.                                 *)
LEMMA AlikeEnds ==
    \A c, d : Alike(c, d) => /\ c \in Bytes /\ d \in Bytes /\ c # <<>> /\ d # <<>>
                            /\ Ends(c, d)
<1> SUFFICES ASSUME NEW c, NEW d, Alike(c, d)
             PROVE  c \in Bytes /\ d \in Bytes /\ c # <<>> /\ d # <<>> /\ Ends(c, d)
  OBVIOUS
<1>1. ASSUME NEW v \in Bytes, NEW w \in Bytes, c = Strings[v], d = Strings[w]
      PROVE  c \in Bytes /\ d \in Bytes /\ c # <<>> /\ d # <<>> /\ Ends(c, d)
  BY <1>1, StringsAreCodes, CodesEnd
<1>2. ASSUME NEW l \in Seq(AccessListEntry), NEW m \in Seq(AccessListEntry),
             c = AccessLists[l], d = AccessLists[m]
      PROVE  c \in Bytes /\ d \in Bytes /\ c # <<>> /\ d # <<>> /\ Ends(c, d)
  BY <1>2, AccessListsAreCodes, CodesEnd
<1> QED BY <1>1, <1>2 DEF Alike

(* Lists of as many fields, of one kind each, are told apart by their      *)
(* fields.                                                                 *)
LEMMA FieldsDiffer ==
    ASSUME NEW s \in Seq(Bytes), NEW t \in Seq(Bytes), Len(s) = Len(t),
           \A i \in 1..Len(s) : Alike(s[i], t[i]),
           rlpList(s) = rlpList(t)
    PROVE  s = t
<1>1. \A i \in 1..Len(s) : Ends(s[i], t[i]) /\ s[i] # <<>> /\ t[i] # <<>>
  BY AlikeEnds
<1> QED BY <1>1, ListsDiffer

(* The same of the nine fields of a legacy or an unsigned EIP-1559         *)
(* transaction, one by one.                                                *)
LEMMA NineFields ==
    ASSUME NEW c1, NEW d1, NEW c2, NEW d2, NEW c3, NEW d3,
           NEW c4, NEW d4, NEW c5, NEW d5, NEW c6, NEW d6,
           NEW c7, NEW d7, NEW c8, NEW d8, NEW c9, NEW d9,
           Alike(c1, d1), Alike(c2, d2), Alike(c3, d3),
           Alike(c4, d4), Alike(c5, d5), Alike(c6, d6),
           Alike(c7, d7), Alike(c8, d8), Alike(c9, d9),
           rlpList(<<c1, c2, c3, c4, c5, c6, c7, c8, c9>>)
             = rlpList(<<d1, d2, d3, d4, d5, d6, d7, d8, d9>>)
    PROVE  /\ c1 = d1 /\ c2 = d2 /\ c3 = d3 /\ c4 = d4
           /\ c5 = d5 /\ c6 = d6 /\ c7 = d7 /\ c8 = d8
           /\ c9 = d9
<1> DEFINE s == <<c1, c2, c3, c4, c5, c6, c7, c8, c9>>
           t == <<d1, d2, d3, d4, d5, d6, d7, d8, d9>>
<1>1. /\ c1 \in Bytes /\ d1 \in Bytes /\ c2 \in Bytes /\ d2 \in Bytes
      /\ c3 \in Bytes /\ d3 \in Bytes /\ c4 \in Bytes /\ d4 \in Bytes
      /\ c5 \in Bytes /\ d5 \in Bytes /\ c6 \in Bytes /\ d6 \in Bytes
      /\ c7 \in Bytes /\ d7 \in Bytes /\ c8 \in Bytes /\ d8 \in Bytes
      /\ c9 \in Bytes /\ d9 \in Bytes
  BY AlikeEnds
<1>2. s \in Seq(Bytes) /\ t \in Seq(Bytes) /\ Len(s) = 9 /\ Len(t) = 9
  BY <1>1
<1>3. /\ s[1] = c1 /\ t[1] = d1 /\ s[2] = c2 /\ t[2] = d2 /\ s[3] = c3 /\ t[3] = d3
      /\ s[4] = c4 /\ t[4] = d4 /\ s[5] = c5 /\ t[5] = d5 /\ s[6] = c6 /\ t[6] = d6
      /\ s[7] = c7 /\ t[7] = d7 /\ s[8] = c8 /\ t[8] = d8 /\ s[9] = c9 /\ t[9] = d9
  OBVIOUS
<1>4. rlpList(s) = rlpList(t)
  OBVIOUS
<1> HIDE DEF s, t
<1>5. \A i \in 1..9 : i = 1 \/ i = 2 \/ i = 3 \/ i = 4 \/ i = 5 \/ i = 6 \/ i = 7 \/ i = 8 \/ i = 9
  OBVIOUS
<1>6. \A i \in 1..9 : Alike(s[i], t[i])
  BY <1>3, <1>5
<1>7. s = t
  BY <1>2, <1>4, <1>6, FieldsDiffer
<1> QED BY <1>3, <1>7

(* The same of the twelve fields of a signed EIP-1559 transaction.         *)
LEMMA TwelveFields ==
    ASSUME NEW c1, NEW d1, NEW c2, NEW d2, NEW c3, NEW d3,
           NEW c4, NEW d4, NEW c5, NEW d5, NEW c6, NEW d6,
           NEW c7, NEW d7, NEW c8, NEW d8, NEW c9, NEW d9,
           NEW c10, NEW d10, NEW c11, NEW d11, NEW c12, NEW d12,
           Alike(c1, d1), Alike(c2, d2), Alike(c3, d3),
           Alike(c4, d4), Alike(c5, d5), Alike(c6, d6),
           Alike(c7, d7), Alike(c8, d8), Alike(c9, d9),
           Alike(c10, d10), Alike(c11, d11), Alike(c12, d12),
           rlpList(<<c1, c2, c3, c4, c5, c6, c7, c8, c9, c10, c11, c12>>)
             = rlpList(<<d1, d2, d3, d4, d5, d6, d7, d8, d9, d10, d11, d12>>)
    PROVE  /\ c1 = d1 /\ c2 = d2 /\ c3 = d3 /\ c4 = d4
           /\ c5 = d5 /\ c6 = d6 /\ c7 = d7 /\ c8 = d8
           /\ c9 = d9 /\ c10 = d10 /\ c11 = d11 /\ c12 = d12
<1> DEFINE s == <<c1, c2, c3, c4, c5, c6, c7, c8, c9, c10, c11, c12>>
           t == <<d1, d2, d3, d4, d5, d6, d7, d8, d9, d10, d11, d12>>
<1>1. /\ c1 \in Bytes /\ d1 \in Bytes /\ c2 \in Bytes /\ d2 \in Bytes
      /\ c3 \in Bytes /\ d3 \in Bytes /\ c4 \in Bytes /\ d4 \in Bytes
      /\ c5 \in Bytes /\ d5 \in Bytes /\ c6 \in Bytes /\ d6 \in Bytes
      /\ c7 \in Bytes /\ d7 \in Bytes /\ c8 \in Bytes /\ d8 \in Bytes
      /\ c9 \in Bytes /\ d9 \in Bytes /\ c10 \in Bytes /\ d10 \in Bytes
      /\ c11 \in Bytes /\ d11 \in Bytes /\ c12 \in Bytes /\ d12 \in Bytes
  BY AlikeEnds
<1>2. s \in Seq(Bytes) /\ t \in Seq(Bytes) /\ Len(s) = 12 /\ Len(t) = 12
  BY <1>1
<1>3. /\ s[1] = c1 /\ t[1] = d1 /\ s[2] = c2 /\ t[2] = d2 /\ s[3] = c3 /\ t[3] = d3
      /\ s[4] = c4 /\ t[4] = d4 /\ s[5] = c5 /\ t[5] = d5 /\ s[6] = c6 /\ t[6] = d6
      /\ s[7] = c7 /\ t[7] = d7 /\ s[8] = c8 /\ t[8] = d8 /\ s[9] = c9 /\ t[9] = d9
      /\ s[10] = c10 /\ t[10] = d10 /\ s[11] = c11 /\ t[11] = d11 /\ s[12] = c12 /\ t[12] = d12
  OBVIOUS
<1>4. rlpList(s) = rlpList(t)
  OBVIOUS
<1> HIDE DEF s, t
<1>5. \A i \in 1..12 : i = 1 \/ i = 2 \/ i = 3 \/ i = 4 \/ i = 5 \/ i = 6 \/ i = 7 \/ i = 8 \/ i = 9 \/ i = 10 \/ i = 11 \/ i = 12
  OBVIOUS
<1>6. \A i \in 1..12 : Alike(s[i], t[i])
  BY <1>3, <1>5
<1>7. s = t
  BY <1>2, <1>4, <1>6, FieldsDiffer
<1> QED BY <1>3, <1>7

\* What the parsers return: quantities, and strings of bytes.
LegacyTransaction ==
    [type : {"legacy"}, chainID : Nat, nonce : Nat, gasPrice : Nat, gasLimit : Nat,
     to : Bytes, value : Nat, data : Bytes]

EIP1559Transaction ==
    [type : {"eip1559"}, chainID : Nat, nonce : Nat, priorityFee : Nat, maxFee : Nat,
     gasLimit : Nat, to : Bytes, value : Nat, data : Bytes,
     accessList : Seq(AccessListEntry)]

Transaction == LegacyTransaction \union EIP1559Transaction
Signature == [r : Nat, s : Nat, recoveryID : {0, 1}]

(* The fields of two transactions at one place are of one kind, and equal  *)
(* only for equal values.                                                  *)
LEMMA FieldsOfOneKind ==
    /\ \A m, n \in Nat : Alike(rlpBig(m), rlpBig(n)) /\ (rlpBig(m) = rlpBig(n) => m = n)
    /\ \A v, w \in Bytes : Alike(rlpBytes(v), rlpBytes(w)) /\ (rlpBytes(v) = rlpBytes(w) => v = w)
    /\ \A l, m \in Seq(AccessListEntry) :
         /\ Alike(encodeAccessList(l), encodeAccessList(m))
         /\ encodeAccessList(l) = encodeAccessList(m) => l = m
<1>1. ASSUME NEW v \in Bytes, NEW w \in Bytes
      PROVE  Alike(rlpBytes(v), rlpBytes(w)) /\ (rlpBytes(v) = rlpBytes(w) => v = w)
  <2>1. Strings[v] = rlpBytes(v) /\ Strings[w] = rlpBytes(w)
    BY DEF Strings
  <2>2. Alike(Strings[v], Strings[w])
    BY DEF Alike
  <2> QED BY <2>1, <2>2, StringsAreCodes, CodesEnd
<1>2. ASSUME NEW m \in Nat, NEW n \in Nat
      PROVE  Alike(rlpBig(m), rlpBig(n)) /\ (rlpBig(m) = rlpBig(n) => m = n)
  <2>1. intBytes[m] \in Bytes /\ intBytes[n] \in Bytes
    BY QuantitiesAreCodes
  <2>2. Quantities[m] = rlpBig(m) /\ Quantities[n] = rlpBig(n)
    BY DEF Quantities
  <2>3. Alike(rlpBig(m), rlpBig(n))
    BY <1>1, <2>1 DEF rlpBig
  <2> QED BY <2>2, <2>3, QuantitiesAreCodes, CodesEnd
<1>3. ASSUME NEW l \in Seq(AccessListEntry), NEW m \in Seq(AccessListEntry)
      PROVE  /\ Alike(encodeAccessList(l), encodeAccessList(m))
             /\ encodeAccessList(l) = encodeAccessList(m) => l = m
  <2>1. encodeAccessList(l) = AccessLists[l] /\ encodeAccessList(m) = AccessLists[m]
    BY AccessListsAreCodes
  <2>2. Alike(AccessLists[l], AccessLists[m])
    BY DEF Alike
  <2> QED BY <2>1, <2>2, AccessListsAreCodes, CodesEnd
<1> QED BY <1>1, <1>2, <1>3

(* The three fields that follow those of a transaction, as one sequence.   *)
LEMMA Appended ==
    /\ \A a, b, c, d, e, f, g, h, i :
         <<a, b, c, d, e, f>> \o <<g, h, i>> = <<a, b, c, d, e, f, g, h, i>>
    /\ \A a, b, c, d, e, f, g, h, i, j, k, l :
         <<a, b, c, d, e, f, g, h, i>> \o <<j, k, l>> = <<a, b, c, d, e, f, g, h, i, j, k, l>>
<1>1. ASSUME NEW a, NEW b, NEW c, NEW d, NEW e, NEW f, NEW g, NEW h, NEW i
      PROVE  <<a, b, c, d, e, f>> \o <<g, h, i>> = <<a, b, c, d, e, f, g, h, i>>
  <2> DEFINE S == {a, b, c, d, e, f, g, h, i}
             s == <<a, b, c, d, e, f>>
             t == <<g, h, i>>
             u == <<a, b, c, d, e, f, g, h, i>>
  <2>1. s \in Seq(S) /\ t \in Seq(S) /\ u \in Seq(S) /\ Len(s) = 6 /\ Len(t) = 3 /\ Len(u) = 9
    OBVIOUS
  <2>2. s[1] = u[1] /\ s[2] = u[2] /\ s[3] = u[3] /\ s[4] = u[4] /\ s[5] = u[5] /\ s[6] = u[6]
    OBVIOUS
  <2>3. t[1] = u[7] /\ t[2] = u[8] /\ t[3] = u[9]
    OBVIOUS
  <2> HIDE DEF S, s, t, u
  <2>9. /\ s \o t \in Seq(S) /\ Len(s \o t) = Len(s) + Len(t)
        /\ \A k \in 1..Len(s) : (s \o t)[k] = s[k]
        /\ \A k \in 1..Len(t) : (s \o t)[Len(s) + k] = t[k]
    <3>1. s \in Seq(S) /\ t \in Seq(S)
      BY <2>1
    <3>2. s \o t \in Seq(S) /\ Len(s \o t) = Len(s) + Len(t)
      BY ONLY <3>1, Places
    <3>3. \A k \in 1..Len(s) : (s \o t)[k] = s[k]
      BY ONLY <3>1, Places
    <3>4. \A k \in 1..Len(t) : (s \o t)[Len(s) + k] = t[k]
      BY ONLY <3>1, Places
    <3> QED BY <3>2, <3>3, <3>4
  <2>4. /\ s \o t \in Seq(S) /\ Len(s \o t) = 9
        /\ \A k \in 1..6 : (s \o t)[k] = s[k]
        /\ (s \o t)[7] = t[1] /\ (s \o t)[8] = t[2] /\ (s \o t)[9] = t[3]
    <3>1. \A k \in 1..3 : (s \o t)[6 + k] = t[k]
      BY <2>1, <2>9
    <3>2. 1 \in 1..3 /\ 2 \in 1..3 /\ 3 \in 1..3
      OBVIOUS
    <3>3. (s \o t)[6 + 1] = t[1] /\ (s \o t)[6 + 2] = t[2] /\ (s \o t)[6 + 3] = t[3]
      BY ONLY <3>1, <3>2
    <3> QED BY <2>1, <2>9, <3>3
  <2>5. (s \o t)[1] = u[1] /\ (s \o t)[2] = u[2] /\ (s \o t)[3] = u[3] /\ (s \o t)[4] = u[4] /\ (s \o t)[5] = u[5] /\ (s \o t)[6] = u[6]
    BY <2>2, <2>4
  <2>6. (s \o t)[7] = u[7] /\ (s \o t)[8] = u[8] /\ (s \o t)[9] = u[9]
    BY <2>3, <2>4
  <2>7. \A k \in 1..9 : (s \o t)[k] = u[k]
    <3>1. \A k \in 1..9 : k = 1 \/ k = 2 \/ k = 3 \/ k = 4 \/ k = 5 \/ k = 6 \/ k = 7 \/ k = 8 \/ k = 9
      OBVIOUS
    <3> QED BY <2>5, <2>6, <3>1
  <2>8. s \o t = u
    BY <2>1, <2>4, <2>7, SeqEqual
  <2> QED BY <2>8 DEF s, t, u
<1>2. ASSUME NEW a, NEW b, NEW c, NEW d, NEW e, NEW f, NEW g, NEW h, NEW i, NEW j, NEW k, NEW l
      PROVE  <<a, b, c, d, e, f, g, h, i>> \o <<j, k, l>> = <<a, b, c, d, e, f, g, h, i, j, k, l>>
  <2> DEFINE S == {a, b, c, d, e, f, g, h, i, j, k, l}
             s == <<a, b, c, d, e, f, g, h, i>>
             t == <<j, k, l>>
             u == <<a, b, c, d, e, f, g, h, i, j, k, l>>
  <2>1. s \in Seq(S) /\ t \in Seq(S) /\ u \in Seq(S) /\ Len(s) = 9 /\ Len(t) = 3 /\ Len(u) = 12
    OBVIOUS
  <2>2. s[1] = u[1] /\ s[2] = u[2] /\ s[3] = u[3] /\ s[4] = u[4] /\ s[5] = u[5] /\ s[6] = u[6] /\ s[7] = u[7] /\ s[8] = u[8] /\ s[9] = u[9]
    OBVIOUS
  <2>3. t[1] = u[10] /\ t[2] = u[11] /\ t[3] = u[12]
    OBVIOUS
  <2> HIDE DEF S, s, t, u
  <2>9. /\ s \o t \in Seq(S) /\ Len(s \o t) = Len(s) + Len(t)
        /\ \A z \in 1..Len(s) : (s \o t)[z] = s[z]
        /\ \A z \in 1..Len(t) : (s \o t)[Len(s) + z] = t[z]
    <3>1. s \in Seq(S) /\ t \in Seq(S)
      BY <2>1
    <3>2. s \o t \in Seq(S) /\ Len(s \o t) = Len(s) + Len(t)
      BY ONLY <3>1, Places
    <3>3. \A z \in 1..Len(s) : (s \o t)[z] = s[z]
      BY ONLY <3>1, Places
    <3>4. \A z \in 1..Len(t) : (s \o t)[Len(s) + z] = t[z]
      BY ONLY <3>1, Places
    <3> QED BY <3>2, <3>3, <3>4
  <2>4. /\ s \o t \in Seq(S) /\ Len(s \o t) = 12
        /\ \A z \in 1..9 : (s \o t)[z] = s[z]
        /\ (s \o t)[10] = t[1] /\ (s \o t)[11] = t[2] /\ (s \o t)[12] = t[3]
    <3>1. \A z \in 1..3 : (s \o t)[9 + z] = t[z]
      BY <2>1, <2>9
    <3>2. 1 \in 1..3 /\ 2 \in 1..3 /\ 3 \in 1..3
      OBVIOUS
    <3>3. (s \o t)[9 + 1] = t[1] /\ (s \o t)[9 + 2] = t[2] /\ (s \o t)[9 + 3] = t[3]
      BY ONLY <3>1, <3>2
    <3> QED BY <2>1, <2>9, <3>3
  <2>5. (s \o t)[1] = u[1] /\ (s \o t)[2] = u[2] /\ (s \o t)[3] = u[3] /\ (s \o t)[4] = u[4] /\ (s \o t)[5] = u[5] /\ (s \o t)[6] = u[6] /\ (s \o t)[7] = u[7] /\ (s \o t)[8] = u[8] /\ (s \o t)[9] = u[9]
    <3>1. \A z \in 1..9 : (s \o t)[z] = s[z]
      BY <2>4
    <3>2. /\ 1 \in 1..9 /\ 2 \in 1..9 /\ 3 \in 1..9 /\ 4 \in 1..9 /\ 5 \in 1..9
          /\ 6 \in 1..9 /\ 7 \in 1..9 /\ 8 \in 1..9 /\ 9 \in 1..9
      OBVIOUS
    <3>3. /\ (s \o t)[1] = s[1] /\ (s \o t)[2] = s[2] /\ (s \o t)[3] = s[3]
          /\ (s \o t)[4] = s[4] /\ (s \o t)[5] = s[5] /\ (s \o t)[6] = s[6]
          /\ (s \o t)[7] = s[7] /\ (s \o t)[8] = s[8] /\ (s \o t)[9] = s[9]
      BY ONLY <3>1, <3>2
    <3> QED BY <2>2, <3>3
  <2>6. (s \o t)[10] = u[10] /\ (s \o t)[11] = u[11] /\ (s \o t)[12] = u[12]
    BY <2>3, <2>4
  <2>7. \A z \in 1..12 : (s \o t)[z] = u[z]
    <3>1. \A z \in 1..12 : z = 1 \/ z = 2 \/ z = 3 \/ z = 4 \/ z = 5 \/ z = 6 \/ z = 7 \/ z = 8 \/ z = 9 \/ z = 10 \/ z = 11 \/ z = 12
      OBVIOUS
    <3> QED BY <2>5, <2>6, <3>1
  <2>8. s \o t = u
    BY <2>1, <2>4, <2>7, SeqEqual
  <2> QED BY <2>8 DEF s, t, u
<1> QED BY <1>1, <1>2

(* The list of a transaction's fields and of three more determines them,   *)
(* and does not begin with the type of an EIP-1559 transaction.            *)
LEMMA LegacyLists ==
    ASSUME NEW t \in LegacyTransaction, NEW u \in LegacyTransaction,
           NEW a1, NEW b1, NEW c1, NEW a2, NEW b2, NEW c2,
           Alike(a1, a2), Alike(b1, b2), Alike(c1, c2),
           rlpList(LegacyFields(t) \o <<a1, b1, c1>>) = rlpList(LegacyFields(u) \o <<a2, b2, c2>>)
    PROVE  /\ t.nonce = u.nonce /\ t.gasPrice = u.gasPrice /\ t.gasLimit = u.gasLimit
           /\ t.to = u.to /\ t.value = u.value /\ t.data = u.data
           /\ a1 = a2 /\ b1 = b2 /\ c1 = c2
<1>1. \A x \in LegacyTransaction : /\ x.nonce \in Nat /\ x.gasPrice \in Nat /\ x.gasLimit \in Nat
                                   /\ x.to \in Bytes /\ x.value \in Nat /\ x.data \in Bytes
  BY DEF LegacyTransaction
<1> DEFINE n1 == rlpBig(t.nonce)      n2 == rlpBig(u.nonce)
           p1 == rlpBig(t.gasPrice)   p2 == rlpBig(u.gasPrice)
           l1 == rlpBig(t.gasLimit)   l2 == rlpBig(u.gasLimit)
           o1 == rlpBytes(t.to)       o2 == rlpBytes(u.to)
           v1 == rlpBig(t.value)      v2 == rlpBig(u.value)
           d1 == rlpBytes(t.data)     d2 == rlpBytes(u.data)
<1>2. /\ LegacyFields(t) = <<n1, p1, l1, o1, v1, d1>>
      /\ LegacyFields(u) = <<n2, p2, l2, o2, v2, d2>>
  BY DEF LegacyFields
<1>3. /\ Alike(n1, n2) /\ Alike(p1, p2) /\ Alike(l1, l2)
      /\ Alike(o1, o2) /\ Alike(v1, v2) /\ Alike(d1, d2)
  BY <1>1, FieldsOfOneKind
<1>4. /\ n1 = n2 => t.nonce = u.nonce
      /\ p1 = p2 => t.gasPrice = u.gasPrice
      /\ l1 = l2 => t.gasLimit = u.gasLimit
      /\ o1 = o2 => t.to = u.to
      /\ v1 = v2 => t.value = u.value
      /\ d1 = d2 => t.data = u.data
  BY <1>1, FieldsOfOneKind
<1> HIDE DEF n1, n2, p1, p2, l1, l2, o1, o2, v1, v2, d1, d2
<1>5. rlpList(<<n1, p1, l1, o1, v1, d1, a1, b1, c1>>)
        = rlpList(<<n2, p2, l2, o2, v2, d2, a2, b2, c2>>)
  <2>1. LegacyFields(t) \o <<a1, b1, c1>> = <<n1, p1, l1, o1, v1, d1, a1, b1, c1>>
    BY ONLY <1>2, Appended
  <2>2. LegacyFields(u) \o <<a2, b2, c2>> = <<n2, p2, l2, o2, v2, d2, a2, b2, c2>>
    BY ONLY <1>2, Appended
  <2> QED BY <2>1, <2>2, Zenon
<1>6. /\ n1 = n2 /\ p1 = p2 /\ l1 = l2 /\ o1 = o2 /\ v1 = v2 /\ d1 = d2
      /\ a1 = a2 /\ b1 = b2 /\ c1 = c2
  BY <1>3, <1>5, NineFields
<1> QED BY <1>4, <1>6

(* The lists of two EIP-1559 transactions, unsigned or signed, are equal   *)
(* only if the transactions and what is appended are.                      *)
LEMMA EIP1559Lists ==
    ASSUME NEW t \in EIP1559Transaction, NEW u \in EIP1559Transaction
    PROVE  /\ rlpList(EIP1559Fields(t)) = rlpList(EIP1559Fields(u)) => t = u
           /\ \A a1, b1, c1, a2, b2, c2 :
                /\ Alike(a1, a2) /\ Alike(b1, b2) /\ Alike(c1, c2)
                /\ rlpList(EIP1559Fields(t) \o <<a1, b1, c1>>)
                     = rlpList(EIP1559Fields(u) \o <<a2, b2, c2>>)
                => t = u /\ a1 = a2 /\ b1 = b2 /\ c1 = c2
<1>1. \A x \in EIP1559Transaction :
        /\ x.chainID \in Nat /\ x.nonce \in Nat /\ x.priorityFee \in Nat /\ x.maxFee \in Nat
        /\ x.gasLimit \in Nat /\ x.to \in Bytes /\ x.value \in Nat /\ x.data \in Bytes
        /\ x.accessList \in Seq(AccessListEntry)
  BY DEF EIP1559Transaction
<1> DEFINE i1 == rlpBig(t.chainID)      i2 == rlpBig(u.chainID)
           n1 == rlpBig(t.nonce)        n2 == rlpBig(u.nonce)
           p1 == rlpBig(t.priorityFee)  p2 == rlpBig(u.priorityFee)
           m1 == rlpBig(t.maxFee)       m2 == rlpBig(u.maxFee)
           l1 == rlpBig(t.gasLimit)     l2 == rlpBig(u.gasLimit)
           o1 == rlpBytes(t.to)         o2 == rlpBytes(u.to)
           v1 == rlpBig(t.value)        v2 == rlpBig(u.value)
           d1 == rlpBytes(t.data)       d2 == rlpBytes(u.data)
           e1 == encodeAccessList(t.accessList)
           e2 == encodeAccessList(u.accessList)
<1>2. /\ EIP1559Fields(t) = <<i1, n1, p1, m1, l1, o1, v1, d1, e1>>
      /\ EIP1559Fields(u) = <<i2, n2, p2, m2, l2, o2, v2, d2, e2>>
  BY DEF EIP1559Fields
<1>3. /\ Alike(i1, i2) /\ Alike(n1, n2) /\ Alike(p1, p2) /\ Alike(m1, m2) /\ Alike(l1, l2)
      /\ Alike(o1, o2) /\ Alike(v1, v2) /\ Alike(d1, d2) /\ Alike(e1, e2)
  BY <1>1, FieldsOfOneKind
<1>4. /\ i1 = i2 => t.chainID = u.chainID
      /\ n1 = n2 => t.nonce = u.nonce
      /\ p1 = p2 => t.priorityFee = u.priorityFee
      /\ m1 = m2 => t.maxFee = u.maxFee
      /\ l1 = l2 => t.gasLimit = u.gasLimit
      /\ o1 = o2 => t.to = u.to
      /\ v1 = v2 => t.value = u.value
      /\ d1 = d2 => t.data = u.data
      /\ e1 = e2 => t.accessList = u.accessList
  BY <1>1, FieldsOfOneKind
<1> HIDE DEF i1, i2, n1, n2, p1, p2, m1, m2, l1, l2, o1, o2, v1, v2, d1, d2, e1, e2
<1> DEFINE Same == /\ i1 = i2 /\ n1 = n2 /\ p1 = p2 /\ m1 = m2 /\ l1 = l2
                   /\ o1 = o2 /\ v1 = v2 /\ d1 = d2 /\ e1 = e2
<1>5. ASSUME rlpList(EIP1559Fields(t)) = rlpList(EIP1559Fields(u))
      PROVE  Same
  <2>1. rlpList(<<i1, n1, p1, m1, l1, o1, v1, d1, e1>>)
          = rlpList(<<i2, n2, p2, m2, l2, o2, v2, d2, e2>>)
    BY <1>2, <1>5
  <2> QED BY <1>3, <2>1, NineFields
<1>6. ASSUME NEW a1, NEW b1, NEW c1, NEW a2, NEW b2, NEW c2,
             Alike(a1, a2), Alike(b1, b2), Alike(c1, c2),
             rlpList(EIP1559Fields(t) \o <<a1, b1, c1>>)
               = rlpList(EIP1559Fields(u) \o <<a2, b2, c2>>)
      PROVE  Same /\ a1 = a2 /\ b1 = b2 /\ c1 = c2
  <2>1. rlpList(<<i1, n1, p1, m1, l1, o1, v1, d1, e1, a1, b1, c1>>)
          = rlpList(<<i2, n2, p2, m2, l2, o2, v2, d2, e2, a2, b2, c2>>)
    <3>1. EIP1559Fields(t) \o <<a1, b1, c1>> = <<i1, n1, p1, m1, l1, o1, v1, d1, e1, a1, b1, c1>>
      BY ONLY <1>2, Appended
    <3>2. EIP1559Fields(u) \o <<a2, b2, c2>> = <<i2, n2, p2, m2, l2, o2, v2, d2, e2, a2, b2, c2>>
      BY ONLY <1>2, Appended
    <3> QED BY <1>6, <3>1, <3>2, Zenon
  <2> QED BY <1>3, <1>6, <2>1, TwelveFields
<1>7. Same => t = u
  <2> SUFFICES ASSUME Same
               PROVE  t = u
    OBVIOUS
  <2>1. /\ t.chainID = u.chainID /\ t.nonce = u.nonce /\ t.priorityFee = u.priorityFee
        /\ t.maxFee = u.maxFee /\ t.gasLimit = u.gasLimit /\ t.to = u.to
        /\ t.value = u.value /\ t.data = u.data /\ t.accessList = u.accessList
    BY <1>4
  <2> QED BY <2>1 DEF EIP1559Transaction
<1> HIDE DEF Same
<1> QED BY <1>5, <1>6, <1>7

(* The two kinds of payload begin differently.                             *)
LEMMA KindsDiffer ==
    ASSUME NEW s \in Seq(Bytes), NEW t \in Seq(Bytes)
    PROVE  /\ rlpList(s) # <<2>> \o rlpList(t)
           /\ <<2>> \o rlpList(s) = <<2>> \o rlpList(t) => rlpList(s) = rlpList(t)
<1> DEFINE v == rlpList(s)
           w == rlpList(t)
<1>1. v \in Bytes /\ w \in Bytes /\ \E h \in Nat, r \in Bytes : h >= 192 /\ v = Led(h, r)
  BY ListsEnd
<1> HIDE DEF v, w
<1>2. v # Led(2, w)
  BY <1>1, Leds
<1>3. Led(2, v) = Led(2, w) => v = w
  BY <1>1, Leds
<1> QED BY <1>2, <1>3 DEF Led, v, w

(* The fields of a transaction are byte strings.                           *)
LEMMA FieldsAreItems ==
    ASSUME NEW a \in Bytes, NEW b \in Bytes, NEW c \in Bytes
    PROVE  /\ \A t \in LegacyTransaction : LegacyFields(t) \o <<a, b, c>> \in Seq(Bytes)
           /\ \A t \in EIP1559Transaction : /\ EIP1559Fields(t) \in Seq(Bytes)
                                            /\ EIP1559Fields(t) \o <<a, b, c>> \in Seq(Bytes)
<1>1. /\ \A n \in Nat : rlpBig(n) \in Bytes
      /\ \A v \in Bytes : rlpBytes(v) \in Bytes
      /\ \A l \in Seq(AccessListEntry) : encodeAccessList(l) \in Bytes
  BY FieldsOfOneKind, AlikeEnds
<1>2. <<a, b, c>> \in Seq(Bytes)
  OBVIOUS
<1>3. ASSUME NEW t \in LegacyTransaction
      PROVE  LegacyFields(t) \in Seq(Bytes)
  <2> DEFINE n == rlpBig(t.nonce)  p == rlpBig(t.gasPrice)  l == rlpBig(t.gasLimit)
             o == rlpBytes(t.to)  v == rlpBig(t.value)  d == rlpBytes(t.data)
  <2>1. /\ n \in Bytes /\ p \in Bytes /\ l \in Bytes
        /\ o \in Bytes /\ v \in Bytes /\ d \in Bytes
    BY <1>1 DEF LegacyTransaction
  <2>2. LegacyFields(t) = <<n, p, l, o, v, d>>
    BY DEF LegacyFields
  <2> HIDE DEF n, p, l, o, v, d
  <2> QED BY <2>1, <2>2
<1>4. ASSUME NEW t \in EIP1559Transaction
      PROVE  EIP1559Fields(t) \in Seq(Bytes)
  <2> DEFINE i == rlpBig(t.chainID)  n == rlpBig(t.nonce)  p == rlpBig(t.priorityFee)
             m == rlpBig(t.maxFee)  l == rlpBig(t.gasLimit)  o == rlpBytes(t.to)
             v == rlpBig(t.value)  d == rlpBytes(t.data)  e == encodeAccessList(t.accessList)
  <2>1. /\ i \in Bytes /\ n \in Bytes /\ p \in Bytes /\ m \in Bytes /\ l \in Bytes
        /\ o \in Bytes /\ v \in Bytes /\ d \in Bytes /\ e \in Bytes
    BY <1>1 DEF EIP1559Transaction
  <2>2. EIP1559Fields(t) = <<i, n, p, m, l, o, v, d, e>>
    BY DEF EIP1559Fields
  <2> HIDE DEF i, n, p, m, l, o, v, d, e
  <2> QED BY <2>1, <2>2
<1>5. \A s, t \in Seq(Bytes) : s \o t \in Seq(Bytes)
  BY ConcatProperties
<1> DEFINE abc == <<a, b, c>>
<1> HIDE DEF abc
<1>6. abc \in Seq(Bytes)
  BY <1>2 DEF abc
<1>7. /\ \A t \in LegacyTransaction : LegacyFields(t) \o abc \in Seq(Bytes)
      /\ \A t \in EIP1559Transaction : EIP1559Fields(t) \o abc \in Seq(Bytes)
  BY <1>3, <1>4, <1>5, <1>6
<1> QED BY <1>4, <1>7 DEF abc

(* No two transactions sign the same payload, whatever their quantities    *)
(* and however long their data and access lists: a signature is for one    *)
(* transaction (signLegacyTransaction and signEIP1559Transaction in        *)
(* transaction.go 27-154).                                                 *)
THEOREM PayloadsDiffer ==
    ASSUME NEW t \in Transaction, NEW u \in Transaction,
           Unsigned(t) = Unsigned(u)
    PROVE  t = u
<1>1. <<>> \in Bytes /\ rlpBytes(<<>>) \in Bytes
  BY Concats, FieldsOfOneKind, AlikeEnds
<1>2. \A n \in Nat : rlpBig(n) \in Bytes
  BY FieldsOfOneKind, AlikeEnds
<1> DEFINE three(x) == <<rlpBig(x.chainID), rlpBytes(<<>>), rlpBytes(<<>>)>>
<1>3. ASSUME NEW x \in LegacyTransaction
      PROVE  /\ Unsigned(x) = rlpList(LegacyFields(x) \o three(x)) /\ x.chainID \in Nat
             /\ LegacyFields(x) \o three(x) \in Seq(Bytes)
  <2>1. x.chainID \in Nat /\ x.type = "legacy"
    BY DEF LegacyTransaction
  <2> QED BY <1>1, <1>2, <2>1, FieldsAreItems DEF Unsigned, LegacyPayload
<1>4. ASSUME NEW x \in EIP1559Transaction
      PROVE  Unsigned(x) = <<2>> \o rlpList(EIP1559Fields(x)) /\ EIP1559Fields(x) \in Seq(Bytes)
  <2>1. x.type # "legacy"
    BY DEF EIP1559Transaction
  <2> QED BY <1>1, <2>1, FieldsAreItems DEF Unsigned
<1>5. CASE t \in LegacyTransaction /\ u \in LegacyTransaction
  <2>1. rlpList(LegacyFields(t) \o three(t)) = rlpList(LegacyFields(u) \o three(u))
    BY <1>3, <1>5
  <2>2. /\ Alike(rlpBig(t.chainID), rlpBig(u.chainID))
        /\ Alike(rlpBytes(<<>>), rlpBytes(<<>>))
        /\ rlpBig(t.chainID) = rlpBig(u.chainID) => t.chainID = u.chainID
    BY <1>1, <1>3, <1>5, FieldsOfOneKind
  <2>3. /\ t.nonce = u.nonce /\ t.gasPrice = u.gasPrice /\ t.gasLimit = u.gasLimit
        /\ t.to = u.to /\ t.value = u.value /\ t.data = u.data
        /\ rlpBig(t.chainID) = rlpBig(u.chainID)
    BY <1>5, <2>1, <2>2, LegacyLists
  <2> QED BY <1>5, <2>2, <2>3 DEF LegacyTransaction
<1>6. CASE t \in EIP1559Transaction /\ u \in EIP1559Transaction
  <2>1. rlpList(EIP1559Fields(t)) = rlpList(EIP1559Fields(u))
    BY <1>4, <1>6, KindsDiffer
  <2> QED BY <1>6, <2>1, EIP1559Lists
<1>7. ASSUME NEW x \in LegacyTransaction, NEW y \in EIP1559Transaction
      PROVE  Unsigned(x) # Unsigned(y)
  <2> DEFINE s == LegacyFields(x) \o three(x)
             e == EIP1559Fields(y)
  <2>1. s \in Seq(Bytes) /\ e \in Seq(Bytes) /\ Unsigned(x) = rlpList(s)
        /\ Unsigned(y) = <<2>> \o rlpList(e)
    BY <1>3, <1>4
  <2> HIDE DEF s, e
  <2> QED BY <2>1, KindsDiffer
<1> QED BY <1>5, <1>6, <1>7 DEF Transaction

(* A raw transaction is that of one transaction and one signature: the     *)
(* bytes that are broadcast cannot be read as another (transaction.go      *)
(* 67-84 and 137-152; v of a legacy transaction holds the chain and the    *)
(* recovery id).                                                           *)
THEOREM RawTransactionsDiffer ==
    ASSUME NEW t \in Transaction, NEW u \in Transaction,
           NEW sig \in Signature, NEW sig2 \in Signature,
           RawTransaction(t, sig) = RawTransaction(u, sig2)
    PROVE  t = u /\ sig = sig2
<1> DEFINE v(x, g) == 2 * x.chainID + 35 + g.recoveryID
           threeL(x, g) == <<rlpBig(v(x, g)), rlpBig(g.r), rlpBig(g.s)>>
           threeE(g) == <<rlpBig(g.recoveryID), rlpBig(g.r), rlpBig(g.s)>>
<1>1. \A g \in Signature : /\ g.r \in Nat /\ g.s \in Nat /\ g.recoveryID \in {0, 1}
                                   /\ g.recoveryID \in Nat
  BY DEF Signature
<1>2. \A x \in LegacyTransaction : x.chainID \in Nat /\ x.type = "legacy"
  BY DEF LegacyTransaction
<1>3. \A x \in EIP1559Transaction : x.type # "legacy"
  BY DEF EIP1559Transaction
<1>4. \A n \in Nat : rlpBig(n) \in Bytes
  BY FieldsOfOneKind, AlikeEnds
<1>5. \A x \in LegacyTransaction, g \in Signature : v(x, g) \in Nat
  BY <1>1, <1>2
<1>6. ASSUME NEW x \in LegacyTransaction, NEW g \in Signature
      PROVE  /\ RawTransaction(x, g) = rlpList(LegacyFields(x) \o threeL(x, g))
             /\ LegacyFields(x) \o threeL(x, g) \in Seq(Bytes)
  <2>1. rlpBig(v(x, g)) \in Bytes /\ rlpBig(g.r) \in Bytes /\ rlpBig(g.s) \in Bytes
    <3> HIDE DEF v
    <3> QED BY <1>1, <1>4, <1>5
  <2>2. RawTransaction(x, g) = rlpList(LegacyFields(x) \o threeL(x, g))
    BY <1>2 DEF RawTransaction
  <2> HIDE DEF v
  <2> QED BY <2>1, <2>2, FieldsAreItems
<1>7. ASSUME NEW x \in EIP1559Transaction, NEW g \in Signature
      PROVE  /\ RawTransaction(x, g) = <<2>> \o rlpList(EIP1559Fields(x) \o threeE(g))
             /\ EIP1559Fields(x) \o threeE(g) \in Seq(Bytes)
  <2>1. rlpBig(g.recoveryID) \in Bytes /\ rlpBig(g.r) \in Bytes /\ rlpBig(g.s) \in Bytes
    BY <1>1, <1>4
  <2>2. RawTransaction(x, g) = <<2>> \o rlpList(EIP1559Fields(x) \o threeE(g))
    BY <1>3 DEF RawTransaction
  <2> QED BY <2>1, <2>2, FieldsAreItems
<1>8. /\ Alike(rlpBig(sig.r), rlpBig(sig2.r)) /\ Alike(rlpBig(sig.s), rlpBig(sig2.s))
      /\ Alike(rlpBig(sig.recoveryID), rlpBig(sig2.recoveryID))
      /\ rlpBig(sig.r) = rlpBig(sig2.r) => sig.r = sig2.r
      /\ rlpBig(sig.s) = rlpBig(sig2.s) => sig.s = sig2.s
      /\ rlpBig(sig.recoveryID) = rlpBig(sig2.recoveryID) => sig.recoveryID = sig2.recoveryID
  BY <1>1, FieldsOfOneKind
<1>9. sig.r = sig2.r /\ sig.s = sig2.s /\ sig.recoveryID = sig2.recoveryID => sig = sig2
  BY DEF Signature
<1>10. CASE t \in LegacyTransaction /\ u \in LegacyTransaction
  <2> DEFINE m == v(t, sig)
             n == v(u, sig2)
  <2>1. m \in Nat /\ n \in Nat
    BY <1>5, <1>10
  <2>2. rlpList(LegacyFields(t) \o threeL(t, sig)) = rlpList(LegacyFields(u) \o threeL(u, sig2))
    BY <1>6, <1>10
  <2>3. m = n => t.chainID = u.chainID /\ sig.recoveryID = sig2.recoveryID
    BY <1>1, <1>2, <1>10
  <2> HIDE DEF v
  <2>4. Alike(rlpBig(m), rlpBig(n)) /\ (rlpBig(m) = rlpBig(n) => m = n)
    BY <2>1, FieldsOfOneKind
  <2>5. /\ t.nonce = u.nonce /\ t.gasPrice = u.gasPrice /\ t.gasLimit = u.gasLimit
        /\ t.to = u.to /\ t.value = u.value /\ t.data = u.data
        /\ rlpBig(m) = rlpBig(n) /\ rlpBig(sig.r) = rlpBig(sig2.r) /\ rlpBig(sig.s) = rlpBig(sig2.s)
    BY <1>8, <1>10, <2>2, <2>4, LegacyLists
  <2>6. t.chainID = u.chainID /\ sig = sig2
    BY <1>8, <1>9, <2>3, <2>4, <2>5
  <2> QED BY <1>10, <2>5, <2>6 DEF LegacyTransaction
<1>11. CASE t \in EIP1559Transaction /\ u \in EIP1559Transaction
  <2>1. rlpList(EIP1559Fields(t) \o threeE(sig)) = rlpList(EIP1559Fields(u) \o threeE(sig2))
    <3> DEFINE s == EIP1559Fields(t) \o threeE(sig)
               e == EIP1559Fields(u) \o threeE(sig2)
    <3>1. s \in Seq(Bytes) /\ e \in Seq(Bytes) /\ <<2>> \o rlpList(s) = <<2>> \o rlpList(e)
      BY <1>7, <1>11
    <3> HIDE DEF s, e
    <3>2. rlpList(s) = rlpList(e)
      BY <3>1, KindsDiffer
    <3> QED BY <3>2 DEF s, e
  <2>2. /\ t = u /\ rlpBig(sig.recoveryID) = rlpBig(sig2.recoveryID)
        /\ rlpBig(sig.r) = rlpBig(sig2.r) /\ rlpBig(sig.s) = rlpBig(sig2.s)
    BY <1>8, <1>11, <2>1, EIP1559Lists
  <2> QED BY <1>8, <1>9, <2>2
<1>12. ASSUME NEW x \in LegacyTransaction, NEW y \in EIP1559Transaction,
              NEW g \in Signature, NEW h \in Signature
       PROVE  RawTransaction(x, g) # RawTransaction(y, h)
  <2> DEFINE s == LegacyFields(x) \o threeL(x, g)
             e == EIP1559Fields(y) \o threeE(h)
  <2>1. s \in Seq(Bytes) /\ e \in Seq(Bytes) /\ RawTransaction(x, g) = rlpList(s)
        /\ RawTransaction(y, h) = <<2>> \o rlpList(e)
    BY <1>6, <1>7
  <2> HIDE DEF s, e
  <2> QED BY <2>1, KindsDiffer
<1> QED BY <1>10, <1>11, <1>12 DEF Transaction
=============================================================================
