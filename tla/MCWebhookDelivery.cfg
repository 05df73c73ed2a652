\* One queued delivery, two crashes (a job that stalls twice), three replays.
SPECIFICATION FairSpec
CONSTANTS
  Delivery = {d1}
  Proc = {p1}
  None = None
  QueueEnabled = TRUE
  MaxAttempts = 3
  MaxCrashes = 2
  MaxJobs = 2
INVARIANTS DispatchedIsAccounted FailedIsAccounted ReplaysWithinBudget
PROPERTIES EventuallyAnswered
CHECK_DEADLOCK FALSE
