CONSTANTS
    t0 = t0
    t1 = t1
    t2 = t2
    t3 = t3
    Threads = {t0, t1, t2}
    None = None
    NMutex = 2
    init_priority <- MCPriority
    NoPrio = 3
    MaxHold = 1
    Impatient = {t0}
    Sleepers = {t2}
    Asserts = TRUE
    Ordered = TRUE
    Disciplined = TRUE
    Prompts = {FALSE}
SPECIFICATION Spec
INVARIANT SuspendsItself
