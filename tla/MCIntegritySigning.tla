------------------------- MODULE MCIntegritySigning -------------------------
(* Instances of IntegritySigning for TLC.  The modules of the algorithms   *)
(* that its wallets and documents stand for are extended, so that their    *)
(* assumptions are checked with it.                                        *)
EXTENDS IntegritySigning, MCSecp256k1, MCEthereumTransaction, MCTypedData, MCCanonicalJSON, TLC

Symmetry ==
    Permutations(Threads) \cup Permutations(Users) \cup Permutations(Fields)
        \cup Permutations(Values) \cup Permutations(Objects)
=============================================================================
