\* Two instances poll one monitor from two locations, of which only one sees
\* failures; or an agent's reports race an instance's sweep for silent agents.
\* Every rule kind, edited meanwhile; a status rule needs two locations.
SPECIFICATION Spec
CONSTRAINT OneMonitor
CONSTANTS
  m1 = m1  m2 = m2  s1 = s1  s2 = s2  g1 = g1  o1 = o1
  a1 = a1  a2 = a2  t1 = t1  t2 = t2  t3 = t3  eu = eu  us = us  none = none
  Monitors = {m1, m2}
  AgentMonitors = {m2}
  Schedulers = {s1, s2}
  Agents = {g1}
  Operators = {}
  Alerts = {a1, a2}
  Tickets = {t1, t2}
  ManualTickets = {}
  Locations = {eu, us}
  LocationOf <- LocBoth
  Window = 1
  MinLocations = 2
  NoteEvery = 1
  MaxRepeats = 1
  FaultBudget = 1
  StatusIn <- Bad
  ResultsAt <- EuFailsUsBreaches
  RuleKinds = {"status", "threshold", "anomaly"}
  None = none
SYMMETRY Rows
INVARIANTS
  OneActivePerMonitor
  AtMostOneTicketPerAlert
 
