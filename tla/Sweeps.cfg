\* Each timer-driven job of one process, fair, with faults and operators' edits.
SPECIFICATION Spec
CONSTANTS
  a1 = a1  a2 = a2  l1 = l1  s1 = s1  s2 = s2  m1 = m1  m2 = m2  m3 = m3
  b1 = b1  r1 = r1  r2 = r2  p1 = p1  none = none
  Processes = {p1}
  MaxTime = 1
  FaultBudget = 1
  None = none
  Alerts = {a1, a2}
  Policies <- EditedPolicies
  MaxEdits = 1
  LogRules = {l1}
  Settings <- SomeSettings
  MaxEntries = 2
  MaxRuleEdits = 1
  Reports = {s1, s2}
  Unrenderable = {s2}
  Recipients <- TwoRecipients
  Cadence <- EveryUnit
  Mails = {m1, m2, m3}
  Unusable = {m3}
  Tagged = {m2}
  Budgets = {b1}
  Requesters = {r1, r2}
  Limit = 2
  Window = 2
INVARIANTS
  OwedIsAccountedFor
  EscalatesOnceInOrder
PROPERTIES
  EscalatesForward
  JobsCatchUp
