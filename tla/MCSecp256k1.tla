---------------------------- MODULE MCSecp256k1 ----------------------------
(***************************************************************************)
(* The keys and signatures of Secp256k1 on the curve y^2 = x^3 + 7 modulo  *)
(* 43, of prime order 31: every scalar is tried.  As on secp256k1 the      *)
(* order is below the modulus, so a coordinate may exceed it.              *)
(***************************************************************************)
EXTENDS Integers, Sequences, FiniteSets

\* An HMAC that keeps what it is given in its right half; its left half is
\* sometimes no valid key.
ToyHmac(chainCode, data) ==
    [left |-> (3 * data[Len(data)] + 5 * data[2] + Len(chainCode)) % 33,
     right |-> Append(chainCode, data)]

Curve == INSTANCE Secp256k1 WITH
    P <- 43, B <- 7, Base <- <<2, 12>>, N <- 31, Bits <- 5, HardenedOffset <- 64,
    Hmac <- ToyHmac

Scalars == 1..30
PublicKey == [d \in Scalars |-> Curve!scalarBaseMult(d)]

(* What AlgorithmProofs assumes of a curve: numbers modulo P and N have    *)
(* inverses, adding points adds their scalars, doubling and the point at   *)
(* infinity included, a multiple of a multiple is one, and every multiple  *)
(* is on the curve (hdwallet.go 347-435).                                  *)
ASSUME PointsAreAGroup ==
    /\ <<2, 12>> \in Curve!Coordinates
    /\ Curve!PrimeField /\ Curve!PrimeOrder /\ Curve!CyclicGroup

(* The carry and the borrow of addScalarsModN (hdwallet.go 264-311) on     *)
(* scalars of two digits.                                                  *)
ASSUME DigitsAddUp ==
    \A radix \in {4, 6, 8} : \A n \in radix..(radix * radix - 1), a, b \in 0..(radix * radix - 1) :
        LET Digits(v) == <<v \div radix, v % radix>>
            sum == Curve!addDigitsModN(Digits(a), Digits(b), Digits(n), radix)
        IN a < n /\ b < n => sum = Digits((a + b) % n)

(* No two derivation steps from one chain code feed the HMAC the same      *)
(* data, hardened or not (hdwallet.go 167-219).                            *)
ASSUME ChildDataDiffer ==
    LET steps == [key : Scalars, index : {0, 1, 7, 31, 32, 63}, hardened : BOOLEAN]
    IN Cardinality({Curve!ChildData(s.key, s) : s \in steps}) = Cardinality(steps)

(* A key that is derived is a valid one, an index with the hardened bit is *)
(* refused, and the wallets of a master key differ in their chain codes    *)
(* when the outputs of the HMAC do (hdwallet.go 102-219).                  *)
ASSUME WalletsAreDistinct ==
    \A seed \in 0..31 :
        LET master == [key |-> seed, chainCode |-> <<>>]
            Wallet(i) == Curve!DerivePrivateKey(master, Curve!BIP44(i))
            derived == {i \in {0, 1, 2, 62, 63, 64} : Wallet(i) # Curve!Rejected}
        IN /\ seed \in {0, 31} => derived = {}
           /\ 64 \notin derived
           /\ \A i \in derived : Wallet(i).key \in Scalars
           /\ \A i, j \in derived : Wallet(i).chainCode = Wallet(j).chainCode => i = j

(* What SignDigest returns verifies with its recovery id and no other, and *)
(* with one half negated not at all.  Whatever digest or key it verifies   *)
(* with as well is the same modulo N, unless r + N is another coordinate,  *)
(* as it is seldom on a curve that is not so small (signature.go 51-250).  *)
(* A nonce the code rejects comes first, where there is one.               *)
ASSUME SignaturesVerify ==
    \A d \in {1, 2, 15, 30}, k \in Scalars, z \in {0, 1, 5, 30, 31, 40} :
        LET rejected == {bad \in Scalars : Curve!SignWithNonce(d, z, bad) = Curve!Rejected}
            before == rejected \ {k}
            nonces == IF before = {} THEN <<k>> ELSE <<CHOOSE bad \in before : TRUE, k>>
            sig == Curve!SignDigest(d, z, nonces)
            Verifies(q, digest, s) == Curve!verifySignature(q, digest, s, TRUE)
            ambiguous == sig.r < 43 - 31
        IN IF k \in rejected THEN sig = Curve!Rejected
           ELSE /\ Verifies(PublicKey[d], z, sig)
                /\ Curve!verifySignature(PublicKey[d], z, sig, FALSE)
                /\ \A v \in {0, 1, 2, 26, 27, 28, 29} :
                     Curve!VerifyEthereumDigest(PublicKey[d], z, sig, v)
                         <=> v \in {sig.recoveryID, sig.recoveryID + 27}
                /\ \A v \in {0, 1} : LET mirrored == [sig EXCEPT !.s = 31 - @, !.recoveryID = v]
                                     IN ~Verifies(PublicKey[d], z, mirrored)
                /\ \A other \in {0, 1, 5, 30, 31, 40} : Verifies(PublicKey[d], other, sig) =>
                     (other - z) % 31 = 0 \/ ambiguous
                /\ \A c \in Scalars \ {d} : Verifies(PublicKey[c], z, sig) => ambiguous
=============================================================================
