SPECIFICATION FairWait
CONSTANTS
    NULL = NULL
    Producer = {p}
    Consumer = {c1}
    MaxJobs = 2
    Limit = 2
    BatchSize = 3
PROPERTIES
    WaitSeesEmpty
