\* The fair specification: recovery clears alerts, alerts get tickets.
SPECIFICATION FairSpec
CONSTANTS
  m1 = m1  s1 = s1  s2 = s2  g1 = g1  o1 = o1
  a1 = a1  a2 = a2  t1 = t1  t2 = t2  t3 = t3  eu = eu  us = us  none = none
  Monitors = {m1}
  AgentMonitors = {}
  Schedulers = {s1}
  Agents = {}
  Operators = {o1}
  Alerts = {a1, a2}
  Tickets = {t1, t2}
  ManualTickets = {}
  Locations = {eu}
  LocationOf <- LocEu
  Window = 1
  MinLocations = 1
  NoteEvery = 1
  MaxRepeats = 0
  FaultBudget = 1
  StatusIn <- Bad
  ResultsAt <- AtEuUpDown
  RuleKinds = {"status"}
  None = none
PROPERTIES
  ClearsAfterRecovery
  AlertGetsTicket
