-------------------------- MODULE EthereumEncoding --------------------------
(***************************************************************************)
(* What signing an Ethereum transaction writes                             *)
(* (blockchain/ethereum/transaction.go): the RLP encoding, the payload a   *)
(* legacy (EIP-155) or EIP-1559 transaction signs, the raw transaction,    *)
(* and the lengths that the decoder reads.                                 *)
(*                                                                         *)
(* Byte strings are sequences of numbers; the digest of a payload is the   *)
(* payload, as keccak256 is taken to be injective.  A transaction is what  *)
(* the parsers of quantities, addresses and data return, and a signature   *)
(* its two scalars and its recovery id.                                    *)
(***************************************************************************)
EXTENDS Integers, SequencesExt

CONSTANT MaxInt   \* the largest int, 2^63 - 1 on the machines it is built for

Invalid == [invalid |-> TRUE]
-----------------------------------------------------------------------------
intBytes[value \in Nat] ==
    IF value = 0 THEN <<>> ELSE Append(intBytes[value \div 256], value % 256)

\* 55 bytes are the longest payload whose length is in the prefix itself.
Prefixed(short, payload) ==
    LET length == intBytes[Len(payload)]
    IN (IF Len(payload) <= 55
          THEN <<short + Len(payload)>>
          ELSE <<short + 55 + Len(length)>> \o length) \o payload

rlpBytes(value) ==
    IF Len(value) = 1 /\ value[1] < 128 THEN value ELSE Prefixed(128, value)

rlpBig(value) == rlpBytes(intBytes[value])

rlpList(items) == Prefixed(192, FlattenSeq(items))
-----------------------------------------------------------------------------
(* Signing: the payload that is signed, and the raw transaction.           *)

\* Whether signTransaction accepts it.
Acceptable(tx) ==
    /\ tx.type \in {"legacy", "eip1559"} /\ tx.chainID # 0
    /\ tx.type = "eip1559" => tx.priorityFee <= tx.maxFee

encodeAccessList(entries) ==
    rlpList([i \in DOMAIN entries |->
        rlpList(<<rlpBytes(entries[i].address),
                  rlpList([j \in DOMAIN entries[i].keys |-> rlpBytes(entries[i].keys[j])])>>)])

LegacyFields(tx) ==
    <<rlpBig(tx.nonce), rlpBig(tx.gasPrice), rlpBig(tx.gasLimit), rlpBytes(tx.to),
      rlpBig(tx.value), rlpBytes(tx.data)>>

EIP1559Fields(tx) ==
    <<rlpBig(tx.chainID), rlpBig(tx.nonce), rlpBig(tx.priorityFee), rlpBig(tx.maxFee),
      rlpBig(tx.gasLimit), rlpBytes(tx.to), rlpBig(tx.value), rlpBytes(tx.data),
      encodeAccessList(tx.accessList)>>

LegacyPayload(fields, chainID) ==
    rlpList(fields \o <<rlpBig(chainID), rlpBytes(<<>>), rlpBytes(<<>>)>>)

Unsigned(tx) ==
    IF tx.type = "legacy"
      THEN LegacyPayload(LegacyFields(tx), tx.chainID)
      ELSE <<2>> \o rlpList(EIP1559Fields(tx))

RawTransaction(tx, sig) ==
    IF tx.type = "legacy"
      THEN rlpList(LegacyFields(tx) \o
             <<rlpBig(2 * tx.chainID + 35 + sig.recoveryID), rlpBig(sig.r), rlpBig(sig.s)>>)
      ELSE <<2>> \o rlpList(EIP1559Fields(tx) \o
             <<rlpBig(sig.recoveryID), rlpBig(sig.r), rlpBig(sig.s)>>)
-----------------------------------------------------------------------------
bigEndian(bytes) ==
    LET value[i \in 0..Len(bytes)] ==
            IF i = 0 THEN 0 ELSE 256 * value[i - 1] + bytes[i]
    IN value[Len(bytes)]

\* The payload a prefix announces: where it starts, and how long it is.
decodeRLPLength(data, short) ==
    LET n == data[1] - short
        length == bigEndian(SubSeq(data, 2, n - 55 + 1))
    IN IF n <= 55 THEN [offset |-> 1, length |-> n]
       ELSE IF Len(data) < 1 + n - 55 \/ data[2] = 0 \/ length > MaxInt \/ length <= 55
         THEN Invalid
         ELSE [offset |-> 1 + n - 55, length |-> length]
=============================================================================
