CHECK_DEADLOCK FALSE
SPECIFICATION FairSpec
CONSTANTS
    Procs = {p1, p2}
    Batches = {b1}
    None = None
    Total = 1
    Cadence = 2
    MaxConcurrent = 0
    StopOnError = {}
    AutoStart = TRUE
    OperatorStarts = TRUE
    MaxCrashes = 1
    MaxLapses = 0
PROPERTIES
    ProcessingSettles
    ReapsNoLivePeer
