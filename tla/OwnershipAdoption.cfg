SPECIFICATION SweepSpec
CONSTANTS
    Node = {a, b}
    Session = {s}
    NoNode = NoNode
    Timely = TRUE
    MaxOutages = 1
    MaxRequests = 1
    MaxLapses = 0
CHECK_DEADLOCK FALSE
PROPERTY OrphanIsAdopted
