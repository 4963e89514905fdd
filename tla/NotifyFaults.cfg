\* Every fault, two processes: nothing is lost without a fault on record.
SPECIFICATION Spec
CONSTANTS
  n1 = n1  n2 = n2  n3 = n3  o1 = o1  i1 = i1  i2 = i2
  Notifications = {n1, n2}
  OtherEvents = {o1}
  Unsendable = {n2}
  Instances = {i1, i2}
  Count = 2
  FaultKinds <- AllFaults
  FaultBudget = 2
SYMMETRY ProcessSymmetry
INVARIANTS
  QueuedIsAccountedFor
  AckedIsSettled
CHECK_DEADLOCK FALSE
