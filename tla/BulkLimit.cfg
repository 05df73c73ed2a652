CHECK_DEADLOCK FALSE
SPECIFICATION Spec
CONSTANTS
    Procs = {p1, p2}
    Batches = {b1, b2}
    None = None
    Total = 1
    Cadence = 1
    MaxConcurrent = 1
    StopOnError = {b1}
    AutoStart = FALSE
    OperatorStarts = FALSE
    MaxCrashes = 1
    MaxLapses = 0
SYMMETRY Symmetry
INVARIANTS
    RunsAreCounted
