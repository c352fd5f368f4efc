SPECIFICATION FairBreaker
CONSTANTS
    NULL = NULL
    Thread = {t1, t2, t3}
    Error = {timeout, invalid}
    Counted = {timeout}
    FailureThreshold = 2
    RecoveryTimeout = 2
INVARIANTS
    HalfOpenIsProbing
PROPERTIES
    OpenHolds
    HalfOpenEnds
