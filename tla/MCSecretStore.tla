--------------------------- MODULE MCSecretStore ---------------------------
(* Instances of SecretStore for TLC.                                       *)
EXTENDS SecretStore, TLC

Symmetry == Permutations(Threads) \cup Permutations(Secrets)
=============================================================================
