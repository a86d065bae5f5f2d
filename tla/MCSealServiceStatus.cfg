CONSTANTS
    Threads = {t1, t2}
    MaxKeys = 2
    NoThread = NoThread
    NoReply = NoReply
    Ok = Ok
    Refused = Refused
    Failed = Failed
SPECIFICATION Spec
INVARIANT SealedIsShort
