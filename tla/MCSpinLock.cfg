CONSTANTS
    CPU = {c1, c2, c3}
    rqA = rqA
    task = task
    rqB = rqB
    Lock = {rqA, task, rqB}
    NoLock = NoLock
    Order <- MigrateOrder
    MaxDepth = 4
SPECIFICATION FairSpec
INVARIANTS MutualExclusion NoSelfDeadlock IrqFlagRestored
PROPERTIES LockProgress ImplementsLockSpec
CHECK_DEADLOCK FALSE
