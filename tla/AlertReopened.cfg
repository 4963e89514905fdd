\* A resolved alert comes back: acknowledge races a resolution.
SPECIFICATION Spec
CONSTANTS
  m1 = m1  s1 = s1  s2 = s2  g1 = g1  o1 = o1
  a1 = a1  a2 = a2  t1 = t1  t2 = t2  t3 = t3  eu = eu  us = us  none = none
  Monitors = {m1}
  AgentMonitors = {}
  Schedulers = {s1}
  Agents = {}
  Operators = {o1}
  Alerts = {a1, a2}
  Tickets = {t1, t2, t3}
  ManualTickets = {t3}
  Locations = {eu}
  LocationOf <- LocEu
  Window = 1
  MinLocations = 1
  NoteEvery = 2
  MaxRepeats = 2
  FaultBudget = 1
  StatusIn <- Bad
  ResultsAt <- AtEuUpDown
  RuleKinds = {"status"}
  None = none
SYMMETRY Rows
PROPERTIES
  ResolvedIsFinal
