\* Three calls and two things going wrong: enough to spend the reconnect budget.
SPECIFICATION FairSpec
CONSTANTS
  Engine = {e1, e2, e3, e4, e5}
  NoEngine = NoEngine
  Start = start
  Attempt = {t1}
  Request = {q1, q2}
  MaxAttempts = 1
  MaxCalls = 3
  MaxFaults = 2
CONSTRAINT Followed
CHECK_DEADLOCK FALSE
INVARIANTS
  NoOrphan
  StoppedStaysDown
  StopIsTheLastWriter
  DeletedLeavesNothing
  NoSilentDeath
  NoIdleReconnectState
  RemovalSparesSuccessor
PROPERTIES
  NameIsFreedClean
  WedgeIsNoticed
