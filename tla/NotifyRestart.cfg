\* One process that may stop once: its unread batch is never read again.
SPECIFICATION FairSpec
CONSTANTS
  n1 = n1  n2 = n2  n3 = n3  o1 = o1  i1 = i1  i2 = i2
  Notifications = {n1, n2}
  OtherEvents = {}
  Unsendable = {}
  Instances = {i1}
  Count = 2
  FaultKinds = {"crash"}
  FaultBudget = 1
PROPERTY NeverMissesAnEvent
CHECK_DEADLOCK FALSE
