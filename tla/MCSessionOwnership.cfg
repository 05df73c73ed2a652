SPECIFICATION Spec
CONSTANTS
    Node = {a, b}
    Session = {s}
    NoNode = NoNode
    Timely = TRUE
    MaxOutages = 0
    MaxRequests = 2
    MaxLapses = 1
SYMMETRY Symmetry
CHECK_DEADLOCK FALSE
INVARIANTS
    AliveIsWatched
    EngineHasClaim
    StoppedIsNoOrphan
PROPERTY LiveLeaseIsExclusive
