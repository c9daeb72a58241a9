CONSTANTS
    t1 = t1
    t2 = t2
    t3 = t3
    Threads = {t1, t2, t3}
    None = None
    Forever = Forever
    Timeouts = {0, 2, Forever}
    Flags = {"FIFO", "PRIO"}
    priority <- MCPriority
    SemMax = 2
    SemInits = {0, 1}
    Bits = {1, 2}
    Requests <- MCRequests
    MbSize = 2
    MqMax = 2
    MpCount = 2
    DqSize = 2
    DqLwm = 0
    w1 = w1
    w2 = w2
    c1 = c1
    Works = {w1, w2}
    Cancellers = {c1}
    NoWork = NoWork
    WqDisciplined = FALSE
    RbGiven = 5
    RbAlign = 2
    RbBlocks <- MCBlocks
    Objects = {"workqueue"}
SYMMETRY MCSymmetry
SPECIFICATION Spec
PROPERTY SyncCancelWaits
