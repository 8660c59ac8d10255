SPECIFICATION Spec
CONSTANTS
    MinProcs = 1
    MaxProcs = 1
    MaxWorkers = 3
    MaxDisps = 2
    MaxConns = 2
    MaxDeaths = 1
    MaxStops = 1
INVARIANT PoolBounded
CHECK_DEADLOCK FALSE
