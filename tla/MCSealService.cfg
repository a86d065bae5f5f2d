CONSTANTS
    Threads = {t1, t2}
    MaxKeys = 3
    NoThread = NoThread
    NoReply = NoReply
    Ok = Ok
    Refused = Refused
    Failed = Failed
SPECIFICATION FairSpec
INVARIANTS TypeOK OneInitializer ConfigurationNeverLocked UnsealedByAllOwners
PROPERTIES OwnersUnseal AttemptOnlyLostBySeal
