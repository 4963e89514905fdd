---------------------------- MODULE MCConcurrent ----------------------------
(***************************************************************************)
(* Overlapping work for TLC: two processes' jobs on the same rows, and     *)
(* requests that overlap.  The parts share the environment and nothing     *)
(* else, so each behaviour runs one of them: `part' says which, and the    *)
(* state spaces add up instead of multiplying.  The BOUNDs below are those *)
(* of a part that needs less than the others.                              *)
(***************************************************************************)
EXTENDS TicketWriters, Jobs, ChatSession, TicketCreation, FixedWindow, Conversation,
        ChatConsole, BusinessHours, TLC

CONSTANTS
  Parts,   \* the parts of the run
  t1, incident, query, gold, silver, r1, r2, p1, p2, l1, i1, s1, s2,
  m1, m2, m3, f1, b1, n1, k1, k2, k3, y1, w1, c1, c2, g1, g2, g3, none

VARIABLE part    \* what this behaviour is about

-----------------------------------------------------------------------------
(* TicketSla: two types with a policy each, a rule of each trigger *)
TypesWithPolicies == [type \in Types |-> IF type = incident THEN gold ELSE silver]

SomeRules == <<[on |-> "created", when |-> "new", set |-> "open"],
               [on |-> "updated", when |-> "resolved", set |-> "closed"],
               [on |-> "updated", when |-> "new", set |-> "resolved"]>>

Fast == [first |-> 0, resolution |-> 1]
Slow == [first |-> 1, resolution |-> 2]
TwoTargets == {Fast, Slow}
GoldIsFast == [p \in Policies |-> IF p = gold THEN Fast ELSE Slow]

(* LogAlertSweep *)
SomeSettings == {[window |-> 1, threshold |-> 1], [window |-> 0, threshold |-> 2]}

(* ScheduledReports *)
TwoRecipients == [r \in Reports |-> IF r = s1 THEN 2 ELSE 1]
EveryUnit == [r \in Reports |-> 1]

(* TimeAutomation: the later rules match what the earlier ones leave *)
SomeAutoRules ==
  <<[after |-> 0, when |-> "new", actions |-> <<"note", "tag", "open">>],
    [after |-> 0, when |-> "open", actions |-> <<"tag", "resolved">>],
    [after |-> 1, when |-> None, actions |-> <<"note", "closed">>]>>

(* ChatConsole *)
TwoChats == [m \in ChatLog |-> IF m = g3 THEN c2 ELSE c1]

(* BusinessHours: days of six minutes, a zone without and two with a change *)
SomeAnchors == 84..125
SomeHours == [start : {0, 2, 4}, end : {4, 6}, days : {1..5, {1, 3}, {}}]
SomeZones == {[before |-> -3, after |-> -3, switch |-> 0],
              [before |-> 2, after |-> 3, switch |-> 116],
              [before |-> 3, after |-> 2, switch |-> 104]}

-----------------------------------------------------------------------------
concurrentVars ==
  <<part, environment, slaVars, logVars, netVars, repVars, mailVars, autoVars,
    chatVars, crVars, paceVars, costVars, windowVars, convVars, consoleVars, hoursVars>>

(* What a part could start from matters only where it runs. *)
MCInit ==
  /\ part \in Parts
  /\ Init /\ LogInit /\ NetInit /\ RepInit /\ MailInit /\ AutoInit /\ ChatInit
  /\ part \in {"sla", "create", "chat", "window", "conversation", "console", "hours"}
       => ~Alone
  /\ part # "logs" => \A r \in LogRules : setting[r].window = 0
  /\ CrInit /\ (part # "create" => strategy = "manual")
  /\ PaceInit /\ (part # "pace" => \A b \in Budgets : pace[b] = 0 /\ addressed[b])
  /\ WindowInit /\ ConsoleInit
  /\ ConvInit /\ place[k1] # None /\ place[k2] # None
  /\ part # "conversation" => place[k3] # None
  /\ CostInit /\ (part # "cost" => \A m \in UsageMonitors : usage[m] = "low")
  /\ IF part = "hours" THEN HoursInit
     ELSE question = None /\ position = None /\ due = None

(* The two processes are interchangeable, and so are the two requests:     *)
(* both pairs are swapped, or none.                                        *)
Symmetry ==
  {f \in Permutations({p1, p2, r1, r2}) :
     \/ f[p1] = p1 /\ f[p2] = p2 /\ f[r1] = r1
     \/ f[p1] = p2 /\ f[p2] = p1 /\ f[r1] = r2}

(* BOUND: the clock passes once, between requests; no sweep (SlaSweep.cfg  *)
(* has it)                                                                 *)
SlaPart ==
  /\ part = "sla"
  /\ Next /\ sweep' = sweep
  /\ \/ now' = now
     \/ now' = 1 /\ Exists(t1) /\ \A r \in Requests : request[r] = Idle
  /\ UNCHANGED <<part, logVars, netVars, repVars, mailVars, autoVars, chatVars,
                 crVars, paceVars, costVars, windowVars, convVars, consoleVars, hoursVars>>

(* BOUND: with two processes an edit or a fault *)
LogPart ==
  /\ part = "logs"
  /\ LogNext
  /\ ~Alone => ruleEdits' = 0 \/ faults' = 0
  /\ UNCHANGED <<part, slaVars, netVars, repVars, mailVars, autoVars, chatVars,
                 crVars, paceVars, costVars, windowVars, convVars, consoleVars, hoursVars>>

NetPart ==
  /\ part = "network"
  /\ NetNext
  /\ UNCHANGED <<part, slaVars, logVars, repVars, mailVars, autoVars, chatVars,
                 crVars, paceVars, costVars, windowVars, convVars, consoleVars, hoursVars>>

(* BOUND: no clock past 1 *)
RepPart ==
  /\ part = "reports"
  /\ RepNext /\ now' <= 1
  /\ UNCHANGED <<part, slaVars, logVars, netVars, mailVars, autoVars, chatVars,
                 crVars, paceVars, costVars, windowVars, convVars, consoleVars, hoursVars>>

MailPart ==
  /\ part = "mail"
  /\ MailNext
  /\ UNCHANGED <<part, slaVars, logVars, netVars, repVars, autoVars, chatVars,
                 crVars, paceVars, costVars, windowVars, convVars, consoleVars, hoursVars>>

(* BOUND: no clock past 1 *)
AutoPart ==
  /\ part = "automation"
  /\ AutoNext /\ now' <= 1
  /\ UNCHANGED <<part, slaVars, logVars, netVars, repVars, mailVars, chatVars,
                 crVars, paceVars, costVars, windowVars, convVars, consoleVars, hoursVars>>

ChatPart ==
  /\ part = "chat"
  /\ ChatNext
  /\ UNCHANGED <<part, slaVars, logVars, netVars, repVars, mailVars, autoVars,
                 crVars, paceVars, costVars, windowVars, convVars, consoleVars, hoursVars>>

CreatePart ==
  /\ part = "create"
  /\ CrNext
  /\ UNCHANGED <<part, slaVars, logVars, netVars, repVars, mailVars, autoVars,
                 chatVars, paceVars, costVars, windowVars, convVars, consoleVars,
                 hoursVars>>

PacePart ==
  /\ part = "pace"
  /\ PaceNext
  /\ UNCHANGED <<part, slaVars, logVars, netVars, repVars, mailVars, autoVars,
                 chatVars, crVars, costVars, windowVars, convVars, consoleVars, hoursVars>>

(* BOUND: no clock past 1; with one process an edit or a fault; with two   *)
(* no fault, one user, and an edit or the user's call                      *)
CostPart ==
  /\ part = "cost"
  /\ CostNext /\ now' <= 1
  /\ Alone => now' = 0 \/ faults' = 0
  /\ ~Alone => /\ faults' = 0 /\ \E u \in Callers : call'[u] = "idle"
               /\ now' = 0 \/ \A u \in Callers : call'[u] = "idle"
  /\ UNCHANGED <<part, slaVars, logVars, netVars, repVars, mailVars, autoVars,
                 chatVars, crVars, paceVars, windowVars, convVars, consoleVars, hoursVars>>

WindowPart ==
  /\ part = "window"
  /\ WindowNext
  /\ UNCHANGED <<part, slaVars, logVars, netVars, repVars, mailVars, autoVars,
                 chatVars, crVars, paceVars, costVars, convVars, consoleVars, hoursVars>>

(* BOUND: two of the tickets have a message, and where the third has none  *)
(* no message is added; one with emails is added before the merges         *)
ConvPart ==
  /\ part = "conversation"
  /\ ConvNext
  /\ place[k3] = None => UNCHANGED postVars
  /\ (\E r \in Posts : owed'[r] # {}) => \A g \in MergeCalls : mergeStage'[g] = "begin"
  /\ UNCHANGED <<part, slaVars, logVars, netVars, repVars, mailVars, autoVars,
                 chatVars, crVars, paceVars, costVars, windowVars, consoleVars, hoursVars>>

ConsolePart ==
  /\ part = "console"
  /\ ConsoleNext
  /\ UNCHANGED <<part, slaVars, logVars, netVars, repVars, mailVars, autoVars, chatVars,
                 crVars, paceVars, costVars, windowVars, convVars, hoursVars>>

HoursPart ==
  /\ part = "hours"
  /\ HoursNext
  /\ UNCHANGED <<part, environment, slaVars, logVars, netVars, repVars, mailVars,
                 autoVars, chatVars, crVars, paceVars, costVars, windowVars, convVars,
                 consoleVars>>

MCNext ==
  \/ SlaPart \/ LogPart \/ NetPart \/ RepPart \/ MailPart \/ AutoPart \/ ChatPart
  \/ CreatePart \/ PacePart \/ CostPart \/ WindowPart \/ ConvPart \/ ConsolePart
  \/ HoursPart

MCSpec == MCInit /\ [][MCNext]_concurrentVars

-----------------------------------------------------------------------------
(* Every variable of the part stays in its type; with it, no row is held   *)
(* by two transactions, no message shown twice and no limit passed.        *)
TypesOK ==
  CASE part = "sla" -> TypeOK
    [] part = "logs" -> LogTypeOK
    [] part = "network" -> NetTypeOK
    [] part = "reports" -> RepTypeOK
    [] part = "mail" -> MailTypeOK
    [] part = "automation" -> AutoTypeOK
    [] part = "chat" -> ChatTypeOK
    [] part = "create" -> CrTypeOK
    [] part = "pace" -> PaceTypeOK
    [] part = "cost" -> CostTypeOK
    [] part = "window" -> WindowTypeOK
    [] part = "conversation" -> ConvTypeOK
    [] part = "console" -> ConsoleTypeOK
    [] part = "hours" -> HoursTypeOK

=============================================================================
