SPECIFICATION FairLimiter
CONSTANTS
    Thread = {t1, t2}
    Capacity = 4
    Cost = 2
    Rates = {1, 3}
    Timeout = 3
    MaxElapsed = 4
INVARIANTS
    LimiterTypeOK
PROPERTIES
    KeepsBucket
    AcquireReturns
