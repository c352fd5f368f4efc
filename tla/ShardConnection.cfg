SPECIFICATION FairConn
CONSTANTS
    NULL = NULL
    Producer = {p, c1}
    Consumer = {c1, c2}
    MaxJobs = 2
    Limit = 2
    BatchSize = 2
INVARIANTS
    ConnInv
    NothingLost
    DeadHasLetter
PROPERTIES
    KeepsContract
    ConsumersLetGo
