\* Two processes: a step can fire twice.
SPECIFICATION EscSpec
CONSTANTS
  a1 = a1  p1 = p1  p2 = p2  none = none
  Alerts = {a1}
  Processes = {p1, p2}
  Policies <- TwoStepPolicy
  MaxTime = 0
  MaxEdits = 0
  FaultBudget = 0
  None = none
INVARIANT FiresOnce
