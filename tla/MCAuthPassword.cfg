CONSTANTS
    Threads = {t1, t2}
    Users = {u1, u2}
    Accounts = {a1}
    Roles = {r1}
    Passwords = {p1, p2}
    Sessions = {s1, s2}
    inside = inside
    outside = outside
    Addresses <- MCAddresses
    Allowlists <- MCAllowlists
    MaxCalls = 4
    None = None
SPECIFICATION Spec
SYMMETRY Symmetry
INVARIANT PasswordChangeEndsSessions
CHECK_DEADLOCK FALSE
