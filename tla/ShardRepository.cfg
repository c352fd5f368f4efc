SPECIFICATION RepoSpec
CONSTANTS
    NULL = NULL
    Thread = {t1, t2}
    WorkerId = {w1}
    Priorities = {0}
    Retries = {1}
    RetryDelays = {1}
    StuckTimeout = 1
    TicksPerDay = 2
    RetentionDays = {1}
    BatchSizes = {1}
    MaxJobs = 1
    MaxClaims = 3
    MaxClock = 3
    MeterCap = 2
SYMMETRY Symmetry
INVARIANTS
    FailedHasDeadLetter
    RepoInv
PROPERTIES
    LeaseKept
    AttemptsCountClaims
    NoResurrection
    CleanupAgeBound
