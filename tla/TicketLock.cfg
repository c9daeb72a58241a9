CONSTANTS
    CPUs = {c0, c1, c2}
    TicketRange = 4
SPECIFICATION FairSpec
INVARIANT MutualExclusion
PROPERTIES
    LockReturns
    ServesInOrder
