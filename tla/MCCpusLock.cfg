CONSTANTS
    CPUs = {c0, c1}
    Threads = {t0, t1, t2}
    None = None
    MaxNest = 2
SYMMETRY Symmetry
SPECIFICATION Spec
INVARIANTS
    TypeOK
    MutualExclusion
    LockFollowsThread
    SchedulerLockCounts
    OffCpuHoldsNothing
