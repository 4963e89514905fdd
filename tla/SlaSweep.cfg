\* Requests one after the other, imports and triage with an edited type; or with
\* one process's fair sweeps and an edited policy or a failing sweep; or two
\* processes' sweeps.
SPECIFICATION AboutSpec
CONSTANTS
  t1 = t1  incident = incident  question = question  gold = gold  silver = silver
  r1 = r1  p1 = p1  p2 = p2  none = none
  Tickets = {t1}
  Assigned = {t1}
  Types = {incident, question}
  Policies = {gold, silver}
  PolicyAtStart <- TypesWithPolicies
  Targets <- TwoTargets
  TargetsAtStart <- GoldIsFast
  Rules <- SomeRules
  Requests = {r1}
  Kinds <- AllKinds
  Asked = {"new"}
  Processes = {p1, p2}
  TriageApplies = TRUE
  MaxTime = 2
  MaxTypeEdits = 1
  MaxEdits = 1
  FaultBudget = 1
  None = none
INVARIANTS
  RightInTurn
  FlaggedIsNotified
PROPERTY OverdueIsFlagged
