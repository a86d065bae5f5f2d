CONSTANTS
    Threads = {t1, t2}
    Users = {u1, u2}
    Accounts = {a1}
    Roles = {r1}
    Passwords = {p1}
    Sessions = {s1, s2}
    inside = inside
    outside = outside
    Addresses <- MCAddresses
    Allowlists <- MCAllowlists
    MaxCalls = 5
    None = None
SPECIFICATION Spec
SYMMETRY Symmetry
INVARIANTS TypeOK OneRootAdmin TokenExchangedOnce CutOffNeverServed ChangeRevokesEarlier
PROPERTIES RevocationIsFinal ImplementsSessionLedger
CHECK_DEADLOCK FALSE
