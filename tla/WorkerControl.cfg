SPECIFICATION FairControl
CONSTANTS
    NULL = NULL
    Job = {j1}
    Loop = {l1, l2}
    MaxTries = 3
INVARIANTS
    ControlInv
    OneLoop
    StopHeeded
    NoJobForgotten
PROPERTIES
    StopEnds
