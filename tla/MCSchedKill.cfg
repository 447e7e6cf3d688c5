CONSTANTS
    N = 1
    t1 = t1
    t2 = t2
    t3 = t3
    t4 = t4
    Task = {t1, t2, t3}
    prio <- Prio2
    Boot <- BootOneCpu
    Prog <- OneBad
SPECIFICATION Spec
INVARIANT OnlyBadKilled
