-------------------------- MODULE MCKeyRootWallet --------------------------
(* Instances of KeyRootWallet for TLC.                                     *)
EXTENDS KeyRootWallet, TLC

Symmetry ==
    Permutations(Threads) \cup Permutations(Users)
        \cup Permutations(Roots \ ForeignRoots) \cup Permutations(ForeignRoots)

\* Bound: only one root allocates wallets.
OneRootAllocates ==
    \A r, q \in Roots : counter[r] > 0 /\ counter[q] > 0 => r = q
=============================================================================
