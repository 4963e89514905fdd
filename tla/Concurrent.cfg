\* Two processes' jobs and overlapping requests, with faults and edits.  A part
\* may stop: a ticket is created once, a chat has a last turn.
SPECIFICATION MCSpec
CONSTANTS
  Parts = {"sla", "logs", "network", "reports", "mail", "automation", "chat",
           "create", "pace", "cost", "window", "conversation",
           "console", "hours"}
  t1 = t1  incident = incident  query = query  gold = gold  silver = silver
  r1 = r1  r2 = r2  p1 = p1  p2 = p2  l1 = l1  i1 = i1  s1 = s1  s2 = s2
  m1 = m1  m2 = m2  m3 = m3  f1 = f1  b1 = b1  n1 = n1  k1 = k1  k2 = k2
  k3 = k3  y1 = y1  w1 = w1  c1 = c1  c2 = c2  g1 = g1  g2 = g2  g3 = g3  none = none
  Processes = {p1, p2}
  MaxTime = 2
  FaultBudget = 1
  None = none
  Tickets = {t1}
  Assigned = {}
  Types = {incident, query}
  Policies = {gold, silver}
  PolicyAtStart <- TypesWithPolicies
  Targets <- TwoTargets
  TargetsAtStart <- GoldIsFast
  Rules <- SomeRules
  Requests = {r1, r2}
  Kinds = {"update", "scenario", "merge"}
  Asked = {"new"}
  TriageApplies = TRUE
  MaxTypeEdits = 0
  MaxEdits = 0
  LogRules = {l1}
  Settings <- SomeSettings
  MaxEntries = 2
  MaxRuleEdits = 1
  Ifaces = {i1}
  Reports = {s1, s2}
  Unrenderable = {}
  Recipients <- TwoRecipients
  Cadence <- EveryUnit
  Mails = {m1, m2, m3}
  Unusable = {m3}
  Tagged = {m2}
  AutoTickets = {t1}
  AutoRules <- SomeAutoRules
  MaxAgentEdits = 1
  MaxTurns = 2
  MaxReplies = 2
  Creates = {r1, r2}
  Imports = {f1}
  Agents = {1, 2}
  Skilled = {2}
  GroupCap = 1
  MaxStaffEdits = 1
  Budgets = {b1}
  UsageMonitors = {n1}
  Callers = {r1, r2}
  MaxRecs = 2
  Requesters = {r1, r2}
  Limit = 2
  Window = 2
  Threads = {k1, k2, k3}
  MergeCalls = {r1, r2}
  Posts = {y1}
  Watchers = {w1}
  Chats = {c1, c2}
  ChatLog = {g1, g2, g3}
  ChatOf <- TwoChats
  PollSlots = {r1, r2}
  Millisecond = 2
  MaxVisits = 2
  MinuteLen = 2
  DayLen = 6
  Anchors <- SomeAnchors
  TargetMinutes = {0, 1, 2, 5, 9}
  HourConfigs <- SomeHours
  Zones <- SomeZones
  Unset = none
INVARIANTS
  TypesOK
  ResolvedAtIsRight
  DuesFollowPolicy
  FiresSpaced
  RepetitionIsBounded
  RulesActInTurn
  OneReplyAfterHandoff
  NewestTurnIsAnswered
  NumbersAreDense
  CapHolds
  TurnsAreFair
  KeyExpires
  CarriedOver
  MergedOnceInTurn
  FailedMailCostsItself
  TranscriptIsTheChat
  DueCountsWorkingTime
PROPERTIES
  JobsImplementPromises
  MailImplementsPromise
  PaceImplementsPromise
  OutagesAreNoticed
  ClosedForGood
SYMMETRY Symmetry
CHECK_DEADLOCK FALSE
