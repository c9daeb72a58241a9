CONSTANTS
    t0 = t0
    t1 = t1
    t2 = t2
    t3 = t3
    Threads = {t0, t1, t2, t3}
    None = None
    NMutex = 2
    init_priority <- MCPriority
    NoPrio = 4
    MaxHold = 2
    Impatient = {t0, t1}
    Sleepers = {t3}
    Asserts = FALSE
    Ordered = TRUE
    Disciplined = TRUE
    Prompts = {FALSE, TRUE}
SPECIFICATION Spec
INVARIANTS
    TypeOK
    OwnershipAgrees
    PriorityIsInherited
    MostUrgentFirst
    EndsOneWay
    PriorityGoesBack
