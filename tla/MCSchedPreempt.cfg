CONSTANTS
    N = 2
    t1 = t1
    t2 = t2
    t3 = t3
    t4 = t4
    Task = {t1, t2, t3, t4}
    prio <- Prio1
    Boot <- BootTwoEach
    Prog <- Beside
SPECIFICATION Spec
INVARIANTS NoSharing PreemptionSound
CHECK_DEADLOCK FALSE
