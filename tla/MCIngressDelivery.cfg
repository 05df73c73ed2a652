\* One delivery, two things going wrong, one redrive, two dead letters.
SPECIFICATION FairSpec
CONSTANTS
  Event = {d1}
  Foreign = {f1}
  Sweep = sweep
  Redrive = redrive
  None = None
  MaxAttempts = 1
  MaxReplays = 2
  BatchSize = 1
  RedriveBatchSize = 2
  MaxLetters = 3
  MaxFaults = 2
  MaxRedrives = 1
CONSTRAINT Roomy
INVARIANTS Accounted FailedHasLetter RedrivenIsNotStale
PROPERTIES EventuallyAnswered
CHECK_DEADLOCK FALSE
