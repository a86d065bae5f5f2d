CONSTANTS
    Threads = {t1, t2, t3}
    Secrets = {s1, s2, s3, s4, s5}
    Roots = {r1}
    MaxKeys = 2
    NoThread = NoThread
    NoSecret = NoSecret
    NoRoot = NoRoot
SPECIFICATION Spec
SYMMETRY Symmetry
INVARIANT ClearEndsVaultKey
