CONSTANTS
    Threads = {t1, t2}
    Secrets = {s1, s2, s3, s4, s5}
    Roots = {r1}
    MaxKeys = 2
    NoThread = NoThread
    NoSecret = NoSecret
    NoRoot = NoRoot
SPECIFICATION FairSpec
INVARIANTS TypeOK OneOwner CallbackSafe SealedIsEmpty DeriveNeverBlocks ClearLeavesOnlyDoomed
PROPERTIES DetachedIsDestroyed CallsReturn ImplementsVault
