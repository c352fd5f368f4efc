SPECIFICATION EventsSpec
CONSTANTS
    Session = {s1, s2}
    NULL = NULL
    Thread = {t1, t2, op}
    Worker = {t1, t2}
    WorkerId = {t1, t2}
    WorkerOf <- OwnId
    Priorities = {0}
    Retries = {1}
    RetryDelays = {0}
    StuckTimeout = 0
    TicksPerDay = 1
    RetentionDays = {0}
    BatchSizes = {}
    MaxJobs = 1
    MaxClaims = 4
    MaxClock = 1
    MeterCap = 0
SYMMETRY Symmetry
INVARIANTS
    EventsInv
    SoleHolder
    StrandedByDeath
    AnnouncedIsFinal
    QuietOnlyInBatch
PROPERTIES
    KeepsContract
