\* Three turns in quick succession: two AI replies in a row.
SPECIFICATION ChatSpec
CONSTANTS
  p1 = p1  none = none
  Processes = {p1}
  MaxTime = 0
  FaultBudget = 0
  None = none
  MaxTurns = 3
  MaxReplies = 0
INVARIANT NoDuplicateReply
CHECK_DEADLOCK FALSE
