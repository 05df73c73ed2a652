\* Two sends under an allowance of one; the echo, the history and two receipts
\* reach the first.
SPECIFICATION FairSpec
CONSTANTS
  Message = {m1, m2}
  Heard = {m1}
  Cap = 1
  MaxAcks = 2
  MaxFaults = 2
INVARIANTS AcceptedIsRecorded AnsweredIsNotReaped ShownOnce CapHolds
PROPERTIES DeliveryAdvances PendingSettles
CHECK_DEADLOCK FALSE
