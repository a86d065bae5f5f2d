CONSTANTS
    Threads = {t1, t2}
    Roots = {r1, r2, r3}
    Users = {u1, u2}
    ForeignRoots = {r1, r2}
    MaxIndex = 3
    NoRoot = NoRoot
    NoUser = NoUser
    NoReply = NoReply
    Ok = Ok
    Refused = Refused
    Failed = Failed
SPECIFICATION Spec
SYMMETRY Symmetry
CONSTRAINT OneRootAllocates
INVARIANTS TypeOK ReturnedWalletExists ConflictIsOwnWallet NoIndexReuse NoOrphanSeed BackupComplete ImportAllOrNothing
PROPERTY ImplementsDirectory
