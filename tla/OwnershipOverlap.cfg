SPECIFICATION HeartbeatSpec
CONSTANTS
    Node = {a, b}
    Session = {s}
    NoNode = NoNode
    Timely = TRUE
    MaxOutages = 0
    MaxRequests = 1
    MaxLapses = 1
CHECK_DEADLOCK FALSE
PROPERTIES
    OverlapEnds
    ClaimIsNotPinned
