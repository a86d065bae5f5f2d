--------------------------- MODULE MCAuthSessions ---------------------------
(* Instances of AuthSessions for TLC: no allowlist, or one that matches    *)
(* half of the addresses.                                                  *)
EXTENDS AuthSessions, TLC

CONSTANT inside, outside

MCAddresses == {inside, outside}
MCAllowlists == {{}, {inside}}

Symmetry ==
    Permutations(Threads) \cup Permutations(Users) \cup Permutations(Accounts)
        \cup Permutations(Roles) \cup Permutations(Passwords)
        \cup Permutations(Sessions)
=============================================================================
