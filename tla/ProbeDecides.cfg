SPECIFICATION FairQueue
CONSTANTS
    NULL = NULL
    Thread = {t1, t2}
    Error = {timeout}
    Counted = {timeout}
    FailureThreshold = 1
    RecoveryTimeout = 1
    NumShards = 2
    j1 = j1
    j2 = j2
    Job = {j2}
    MaxShards = 40
    ShardOf <- FirstAndLast
PROPERTIES
    ProbeDecides
