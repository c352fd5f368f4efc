SPECIFICATION PoolSpec
CONSTANTS
    NULL = NULL
    Scaler = {s1, s2}
    Initial = 3
    Extra = 1
    MaxCounter = 4
    MinWorkers = 1
    MaxWorkers = 2
    UpThreshold = 1
    DownThreshold = 1
    MaxPending = 2
SYMMETRY Symmetry
INVARIANTS
    PoolInv
    NoStrays
    StopAllStops
