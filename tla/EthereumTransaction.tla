------------------------ MODULE EthereumTransaction ------------------------
(***************************************************************************)
(* Verifying an Ethereum transaction (blockchain/ethereum/transaction.go): *)
(* the strict RLP decoder, and the payload a verification rebuilds from    *)
(* the signed bytes.                                                       *)
(***************************************************************************)
EXTENDS EthereumEncoding

CONSTANT IsScalar(_)   \* whether a half of a signature is in range

Panic == [panics |-> TRUE]
-----------------------------------------------------------------------------
\* A node of what was decoded.
Text(bytes) == [isList |-> FALSE, bytes |-> bytes, list |-> <<>>]
List(nodes) == [isList |-> TRUE, bytes |-> <<>>, list |-> nodes]

RECURSIVE encode(_)
encode(node) ==
    IF node.isList
      THEN rlpList([i \in DOMAIN node.list |-> encode(node.list[i])])
      ELSE rlpBytes(node.bytes)

rlpListFromNodes(nodes) == encode(List(nodes))
-----------------------------------------------------------------------------
(* Decoding: a node and the bytes it took, or Invalid.  Lengths are ints:  *)
(* the sum of an offset and a length wraps above MaxInt, and then the      *)
(* slice of the payload panics.                                            *)

Drop(data, n) == SubSeq(data, n + 1, Len(data))

Wrapped(n) == IF n > MaxInt THEN n - 2 * (MaxInt + 1) ELSE n

RECURSIVE decodeRLP(_), decodeRLPList(_)
decodeRLP(data) ==
    IF data = <<>> THEN Invalid
    ELSE IF data[1] < 128 THEN [node |-> Text(<<data[1]>>), consumed |-> 1]
    ELSE LET isList == data[1] >= 192
             at == decodeRLPLength(data, IF isList THEN 192 ELSE 128)
             end == at.offset + at.length
             payload == SubSeq(data, at.offset + 1, end)
             nodes == decodeRLPList(payload)
         IN IF at = Invalid THEN Invalid
            ELSE IF Len(data) < Wrapped(end) THEN Invalid
            ELSE IF end > MaxInt THEN Panic
            ELSE IF isList
              THEN IF nodes \in {<<Invalid>>, <<Panic>>} THEN nodes[1]
                   ELSE [node |-> List(nodes), consumed |-> end]
            ELSE IF Len(payload) = 1 /\ payload[1] < 128 THEN Invalid
            ELSE [node |-> Text(payload), consumed |-> end]

decodeRLPList(payload) ==
    LET first == decodeRLP(payload)
        rest == decodeRLPList(Drop(payload, first.consumed))
    IN IF payload = <<>> THEN <<>>
       ELSE IF first \in {Invalid, Panic} THEN <<first>>
       ELSE IF rest \in {<<Invalid>>, <<Panic>>} THEN rest
       ELSE <<first.node>> \o rest

\* The whole of data as one list of a given size.
DecodedList(data, size) ==
    LET decoded == decodeRLP(data)
    IN IF decoded \in {Invalid, Panic} THEN decoded
       ELSE IF decoded.consumed = Len(data) /\ decoded.node.isList
                /\ Len(decoded.node.list) = size
         THEN decoded.node ELSE Invalid

\* node.integer(): -1 for what is not a canonical integer.
integer(node) ==
    IF node.isList THEN -1
    ELSE IF node.bytes # <<>> /\ Head(node.bytes) = 0 THEN -1
    ELSE bigEndian(node.bytes)
-----------------------------------------------------------------------------
(* Verifying: the payload and the signature that are checked against the   *)
(* public key, or Invalid.                                                 *)

Claim(payload, rNode, sNode, parity) ==
    IF IsScalar(integer(rNode)) /\ IsScalar(integer(sNode))
      THEN [payload |-> payload,
            sig |-> [r |-> integer(rNode), s |-> integer(sNode), recoveryID |-> parity]]
      ELSE Invalid

verifyLegacyTransaction(raw) ==
    LET node == DecodedList(raw, 9)
        field == node.list
        fields == SubSeq(field, 1, 6)
        v == integer(field[7])
        parity == (v - 35) % 2
        chainID == (v - 35) \div 2
    IN IF node \in {Invalid, Panic} THEN node
       ELSE IF v \in {27, 28}
         THEN Claim(rlpListFromNodes(fields), field[8], field[9], v - 27)
       ELSE IF v >= 37
         THEN Claim(LegacyPayload([i \in 1..6 |-> encode(field[i])], chainID),
                    field[8], field[9], parity)
       ELSE Invalid

verifyEIP1559Transaction(raw) ==
    LET node == DecodedList(Tail(raw), 12)
        parity == integer(node.list[10])
    IN IF node \in {Invalid, Panic} THEN node
       ELSE IF parity \in {0, 1}
         THEN Claim(<<2>> \o rlpListFromNodes(SubSeq(node.list, 1, 9)),
                    node.list[11], node.list[12], parity)
         ELSE Invalid

verifyTransaction(raw) ==
    IF raw = <<>> THEN Invalid
    ELSE IF raw[1] = 2 THEN verifyEIP1559Transaction(raw)
    ELSE verifyLegacyTransaction(raw)
=============================================================================
