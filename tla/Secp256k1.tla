----------------------------- MODULE Secp256k1 -----------------------------
(***************************************************************************)
(* The keys and signatures of a wallet (pkg/hdwallet/hdwallet.go and       *)
(* signature.go): BIP32 private-key derivation and ECDSA with low-S        *)
(* normalization and a recovery id, over the curve y^2 = x^3 + B modulo P  *)
(* with a base point of prime order N.  The code fixes secp256k1; nothing  *)
(* below depends on the size of the numbers.  A key, a digest and a half   *)
(* of a signature are numbers.  HMAC and the nonces RFC 6979 draws with it *)
(* are parameters.                                                         *)
(***************************************************************************)
EXTENDS Integers, Sequences

CONSTANTS
    P, B, Base,       \* the curve and its base point <<x, y>>
    N,                \* the order of the base point
    Bits,             \* a scalar is a number below 2^Bits
    HardenedOffset,   \* 2^31
    Hmac(_, _)        \* a chain code and data to the halves of HMAC-SHA512

Infinity == <<>>
Rejected == [rejected |-> TRUE]

\* big.Int.ModInverse, where there is an inverse.
ModInverse(a, m) == CHOOSE i \in 1..(m - 1) : (a * i) % m = 1

isOnCurve(x, y) == (y * y) % P = (x * x * x + B) % P

\* What parsePublicKey accepts.
ValidPublicKey(q) == q[1] < P /\ q[2] < P /\ isOnCurve(q[1], q[2])
-----------------------------------------------------------------------------
(* Points.                                                                 *)

\* The third point of the line through a of slope lambda, mirrored.
Chord(a, lambda, otherX) ==
    LET x == (lambda * lambda - a[1] - otherX) % P
    IN <<x, (lambda * (a[1] - x) - a[2]) % P>>

pointDouble(a) ==
    IF a = Infinity \/ a[2] = 0
      THEN Infinity
      ELSE Chord(a, (3 * a[1] * a[1] * ModInverse((2 * a[2]) % P, P)) % P, a[1])

pointAdd(a, b) ==
    IF a = Infinity THEN b
    ELSE IF b = Infinity THEN a
    ELSE IF a[1] = b[1]
      THEN IF (a[2] + b[2]) % P = 0 THEN Infinity ELSE pointDouble(a)
      ELSE Chord(a, ((b[2] - a[2]) * ModInverse((b[1] - a[1]) % P, P)) % P, b[1])

\* Double and add, from the highest bit of the scalar.
scalarMult(point, scalar) ==
    LET result[i \in 0..Bits] ==
            IF i = 0 THEN Infinity
            ELSE LET doubled == pointDouble(result[i - 1])
                 IN IF (scalar \div 2^(Bits - i)) % 2 = 1
                      THEN pointAdd(doubled, point)
                      ELSE doubled
    IN result[Bits]

validPrivateKey(key) == key \in 1..(N - 1)

scalarBaseMult(scalar) == scalarMult(Base, scalar)
-----------------------------------------------------------------------------
(* Derivation.                                                             *)

addScalarsModN(a, b) == IF a + b >= N THEN a + b - N ELSE a + b

\* The same on numbers of Width digits, the highest first: what the code
\* does, with a carry and then a borrow.
addDigitsModN(a, b, n, radix) ==
    LET width == Len(a)
        carry[i \in 1..(width + 1)] ==
            IF i = width + 1 THEN 0 ELSE (a[i] + b[i] + carry[i + 1]) \div radix
        sum == [i \in 1..width |-> (a[i] + b[i] + carry[i + 1]) % radix]
        differs == {i \in 1..width : sum[i] # n[i]}
        atLeastN ==
            \/ carry[1] # 0
            \/ \A i \in differs : (\A j \in differs : i <= j) => sum[i] > n[i]
        borrow[i \in 1..(width + 1)] ==
            IF i = width + 1 THEN 0
            ELSE IF sum[i] - n[i] - borrow[i + 1] < 0 THEN 1 ELSE 0
    IN IF atLeastN
         THEN [i \in 1..width |-> (sum[i] - n[i] - borrow[i + 1]) % radix]
         ELSE sum

compressedPublicKey(key) ==
    LET point == scalarBaseMult(key)   \* publicPoint: the key is valid
    IN <<IF point[2] % 2 = 1 THEN 3 ELSE 2, point[1]>>

\* A segment of a path as it goes into the HMAC.
ChildNumber(segment) ==
    IF segment.hardened THEN segment.index + HardenedOffset ELSE segment.index

ChildData(key, segment) ==
    (IF segment.hardened THEN <<0, key>> ELSE compressedPublicKey(key))
        \o <<ChildNumber(segment)>>

\* An extended key is the key and its chain code.
deriveChild(parent, segment) ==
    LET sum == Hmac(parent.chainCode, ChildData(parent.key, segment))
        child == addScalarsModN(sum.left, parent.key)
    IN IF \/ segment.index >= HardenedOffset
          \/ ~validPrivateKey(sum.left) \/ ~validPrivateKey(child)
         THEN Rejected
         ELSE [key |-> child, chainCode |-> sum.right]

DerivePrivateKey(master, path) ==
    LET derived[i \in 0..Len(path)] ==
            IF i = 0
              THEN IF validPrivateKey(master.key) THEN master ELSE Rejected
              ELSE IF derived[i - 1] = Rejected THEN Rejected
              ELSE deriveChild(derived[i - 1], path[i])
    IN derived[Len(path)]

\* coin type 60, account 0, change 0, and the index of the wallet.
BIP44(index) ==
    <<[index |-> 44, hardened |-> TRUE], [index |-> 60, hardened |-> TRUE],
      [index |-> 0, hardened |-> TRUE], [index |-> 0, hardened |-> FALSE],
      [index |-> index, hardened |-> FALSE]>>
-----------------------------------------------------------------------------
(* Signatures.                                                             *)

LowS(s) == s <= N \div 2

\* One turn of SignDigest's loop: a signature, or the nonce is rejected.
SignWithNonce(key, digest, k) ==
    LET point == scalarBaseMult(k)
        s == ((point[1] * key + (digest % N)) * ModInverse(k, N)) % N
        parity == point[2] % 2
    IN IF point[1] >= N \/ point[1] = 0 \/ s = 0 THEN Rejected
       ELSE IF LowS(s) THEN [r |-> point[1], s |-> s, recoveryID |-> parity]
       ELSE [r |-> point[1], s |-> N - s, recoveryID |-> 1 - parity]

\* The nonces are those RFC 6979 draws, as far as they are needed.
SignDigest(key, digest, nonces) ==
    LET tried[i \in 0..Len(nonces)] ==
            IF i = 0 THEN Rejected
            ELSE IF tried[i - 1] # Rejected THEN tried[i - 1]
            ELSE SignWithNonce(key, digest, nonces[i])
    IN IF validPrivateKey(key) THEN tried[Len(nonces)] ELSE Rejected

validSignatureScalar(value) == value \in 1..(N - 1)

verifySignature(q, digest, sig, verifyRecoveryID) ==
    LET w == ModInverse(sig.s, N)
        u1 == ((digest % N) * w) % N
        u2 == (sig.r * w) % N
        point == pointAdd(scalarBaseMult(u1), scalarMult(q, u2))
    IN /\ validSignatureScalar(sig.r) /\ validSignatureScalar(sig.s)
       /\ ValidPublicKey(q)
       /\ LowS(sig.s)
       /\ point # Infinity
       /\ point[1] % N = sig.r
       /\ verifyRecoveryID => point[2] % 2 = sig.recoveryID

\* The recovery id that the last of 65 bytes stands for, if any.
ParseRecoveryByte(v) == {id \in {0, 1} : v \in {id, id + 27}}

VerifyEthereumDigest(q, digest, sig, v) ==
    \E id \in ParseRecoveryByte(v) :
        verifySignature(q, digest, [sig EXCEPT !.recoveryID = id], TRUE)
-----------------------------------------------------------------------------
(* What makes a curve of the parameters.  The theorems about the keys and  *)
(* the signatures assume it, and it is evaluated on the curve they are     *)
(* checked on.                                                             *)

Coordinates == (0..(P - 1)) \X (0..(P - 1))
ReducedPoints == Coordinates \cup {Infinity}

\* P is odd, and every number but zero has an inverse modulo P.
PrimeField ==
    /\ P \in Nat /\ P % 2 = 1
    /\ \A a \in 1..(P - 1) : \E i \in 1..(P - 1) : (a * i) % P = 1

\* So has every nonce modulo N, and no nonce gives the point at infinity.
PrimeOrder ==
    /\ N \in Nat /\ N % 2 = 1
    /\ \A a \in 1..(N - 1) : \E i \in 1..(N - 1) : (a * i) % N = 1
    /\ \A k \in 1..(N - 1) : scalarBaseMult(k) # Infinity

\* The multiples of the base point add up as their scalars do modulo N.
CyclicGroup ==
    /\ \A c, d \in 0..(N - 1) :
         /\ pointAdd(scalarBaseMult(c), scalarBaseMult(d)) = scalarBaseMult((c + d) % N)
         /\ scalarMult(scalarBaseMult(c), d) = scalarBaseMult((c * d) % N)
    /\ \A k \in 1..(N - 1) :
         /\ ValidPublicKey(scalarBaseMult(k))
         /\ scalarBaseMult(N - k) = <<scalarBaseMult(k)[1], P - scalarBaseMult(k)[2]>>
=============================================================================
