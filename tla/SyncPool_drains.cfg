\* Fewer workers than passes: they end or block each other, and the pool stops.
SPECIFICATION FairSpec
CONSTANTS
    Workers = {w1, w2}
    Passes = {p1, p2, p3}
    MaxParts = 2
    MaxBatches = 2
    Idle = Idle
    Returning = Returning
    Gone = Gone
    Admit = {"stop"}
INVARIANT PoolInv
PROPERTY PassFinishes
PROPERTY StuckUntilStopped
PROPERTY StopDrains
CHECK_DEADLOCK FALSE
