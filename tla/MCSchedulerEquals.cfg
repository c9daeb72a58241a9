CONSTANTS
    c0 = c0
    c1 = c1
    idle0 = idle0
    idle1 = idle1
    main = main
    worker = worker
    other = other
    On0 = {worker, other}
    On1 = {}
    CPUs = {c0}
    Threads = {idle0, main, worker, other}
    None = None
    Main = main
    Boot = c0
    Idle <- MCIdle
    Bind <- MCBind
    InitPrio <- MCInitPrio
    IdlePrio = 2
    InitTick = 1
    NewPrios = {}
    MaxCritical = 0
    CarefulEnd = TRUE
SPECIFICATION FairSpec
PROPERTY EqualsTakeTurns
