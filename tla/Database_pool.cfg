CONSTANTS
    None = None
    c1 = c1
    c2 = c2
    c3 = c3
    Caller = {c1, c2, c3}
    InitialQuery = TRUE
    MaxConnections = 1
    MaxPools = 2
SPECIFICATION FairSpec
INVARIANTS TypeOK OnePool PoolStays ConnectionsReturn
PROPERTIES QueryEnds
\* A metrics goroutine that panicked ends the process.
CHECK_DEADLOCK FALSE
