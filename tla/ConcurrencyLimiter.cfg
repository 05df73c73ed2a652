SPECIFICATION FairSpec
CONSTANTS
    Task = {t1, t2, t3, t4, t5, t6}
    Max = 2
    MaxQueued = 2
PROPERTIES
    ServedInOrder
    ParkedIsSettled
    ImplementsGate
