----------------------- MODULE MCEthereumTransaction -----------------------
(***************************************************************************)
(* The encodings of EthereumTransaction on the lengths and numbers at      *)
(* which their forms change, for an int of 16 bits.                        *)
(***************************************************************************)
EXTENDS Integers, Sequences, FiniteSets

IsSmallScalar(v) == v \in 1..300
Ethereum == INSTANCE EthereumTransaction WITH IsScalar <- IsSmallScalar, MaxInt <- 32767

Repeated(byte, length) == [i \in 1..length |-> byte]

Leaves == {Ethereum!Text(<<b>>) : b \in {0, 1, 127, 128, 255}}
            \union {Ethereum!Text(Repeated(b, n)) : b \in {0, 128}, n \in {0, 2, 55, 56, 255, 256}}
Nodes ==
    LET lists == {Ethereum!List(<<>>)} \union {Ethereum!List(<<l>>) : l \in Leaves}
    IN Leaves \union lists
         \union {Ethereum!List(<<l, m>>) : l \in lists, m \in Leaves}

(* What is encoded decodes to what it was, and to its last byte, whatever  *)
(* follows it (transaction.go 341-350 and 370-508).                        *)
ASSUME RLPRoundTrips ==
    \A node \in Nodes, rest \in {<<>>, <<0>>, <<200, 1>>} :
        LET bytes == Ethereum!encode(node)
        IN Ethereum!decodeRLP(bytes \o rest) = [node |-> node, consumed |-> Len(bytes)]

ByteSamples == {0, 1, 127, 128, 129, 130, 183, 184, 192, 193, 194, 195, 248, 249}
LongSamples ==
    {prefix \o Repeated(1, n) : n \in 54..57,
        prefix \in {<<184, 54>>, <<184, 55>>, <<184, 56>>, <<185, 0, 56>>,
                    <<248, 55>>, <<248, 56>>, <<249, 0, 57>>}}

(* Every sequence of bytes the strict decoder accepts is the encoding of   *)
(* what it returns: a raw transaction has one form (transaction.go         *)
(* 434-508).                                                               *)
ASSUME RLPIsCanonical ==
    \A data \in UNION {[1..n -> ByteSamples] : n \in 1..4} \union LongSamples :
        LET decoded == Ethereum!decodeRLP(data)
        IN decoded # Ethereum!Invalid =>
             SubSeq(data, 1, decoded.consumed) = Ethereum!encode(decoded.node)

(* A length is refused or sliced, except one that the offset in front of   *)
(* it takes past MaxInt: then the decoder panics (transaction.go 455-458   *)
(* and 472-475, where offset+length is compared), inside a list as well.   *)
ASSUME LongLengthsPanic ==
    \A prefix \in {185, 249}, high \in {126, 127, 128}, low \in {0, 252, 253, 255} :
        LET panics == high = 127 /\ low >= 253
        IN \A data \in {<<prefix, high, low>>, <<196, prefix, high, low, 1>>} :
             Ethereum!decodeRLP(data) =
                 IF panics THEN Ethereum!Panic ELSE Ethereum!Invalid

Entry(byte, keys) == [address |-> Repeated(byte, 20), keys |-> keys]
Addresses == {<<>>, Repeated(0, 20), [i \in 1..20 |-> i + 120]}
Calldata == {<<>>, <<0>>, <<1, 2>>}
AccessLists == {<<>>, <<Entry(1, <<>>)>>,
                <<Entry(2, <<Repeated(0, 32), Repeated(7, 32)>>), Entry(1, <<>>)>>}

LegacyTransactions ==
    [type : {"legacy"}, chainID : {0, 1, 46, 110, 1337}, nonce : {0, 127},
     gasPrice : {0, 128}, gasLimit : {21000}, to : Addresses, value : {0, 1}, data : Calldata]
EIP1559Transactions ==
    [type : {"eip1559"}, chainID : {0, 1, 46, 1337}, nonce : {0, 128},
     priorityFee : {0, 256}, maxFee : {0, 256}, gasLimit : {21000}, to : Addresses,
     value : {0}, data : Calldata, accessList : AccessLists]
Accepted == {tx \in LegacyTransactions \union EIP1559Transactions : Ethereum!Acceptable(tx)}

(* Verification rebuilds from a raw transaction the payload that was       *)
(* signed, and its signature (transaction.go 27-231).                      *)
ASSUME SignedIsVerified ==
    \A tx \in Accepted, sig \in [r : {1, 300}, s : {127, 128}, recoveryID : {0, 1}] :
        Ethereum!verifyTransaction(Ethereum!RawTransaction(tx, sig)) =
            [payload |-> Ethereum!Unsigned(tx), sig |-> sig]

(* Two transactions never sign the same payload (transaction.go 27-154).   *)
ASSUME PayloadsDiffer ==
    Cardinality({Ethereum!Unsigned(tx) : tx \in Accepted}) = Cardinality(Accepted)
=============================================================================
