CONSTANTS
    N = 3
    t1 = t1
    t2 = t2
    t3 = t3
    t4 = t4
    Task = {t1, t2, t3, t4}
    prio <- Prio1
    Boot <- BootFour
    Prog <- OnlyTouch
SPECIFICATION Spec
INVARIANTS TasksOnOnlineCpus PreemptionSound
