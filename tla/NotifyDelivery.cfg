\* Fair processes, every fault but a resent command: each message goes out at
\* most once and every queued notification is settled or hit by a fault.
SPECIFICATION FairSpec
CONSTANTS
  n1 = n1  n2 = n2  n3 = n3  o1 = o1  i1 = i1  i2 = i2
  Notifications = {n1, n2}
  OtherEvents = {}
  Unsendable = {n2}
  Instances = {i1, i2}
  Count = 2
  FaultKinds <- LossFaults
  FaultBudget = 1
PROPERTIES
  ImplementsDelivery
  QueuedIsSettled
CHECK_DEADLOCK FALSE
