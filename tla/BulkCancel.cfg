CHECK_DEADLOCK FALSE
SPECIFICATION Spec
CONSTANTS
    Procs = {p1, p2}
    Batches = {b1}
    None = None
    Total = 3
    Cadence = 2
    MaxConcurrent = 0
    StopOnError = {}
    AutoStart = FALSE
    OperatorStarts = TRUE
    MaxCrashes = 0
    MaxLapses = 1
SYMMETRY Symmetry
INVARIANTS
    CancelStops
    ReportIsExact
PROPERTIES
    TerminalIsFinal
