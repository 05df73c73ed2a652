SPECIFICATION Spec
CONSTANTS
    Node = {a, b}
    Session = {s}
    NoNode = NoNode
    Timely = TRUE
    MaxOutages = 2
    MaxRequests = 1
    MaxLapses = 0
SYMMETRY Symmetry
CHECK_DEADLOCK FALSE
INVARIANT TwoEnginesOnlyAfterLapse
