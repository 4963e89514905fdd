------------------------------ MODULE MCSweeps ------------------------------
(***************************************************************************)
(* The timer-driven jobs of one process, and the counter of its rate       *)
(* limits, for TLC, with fairness.  They share the environment and nothing *)
(* else, so each behaviour runs one of them: `part' says which, and the    *)
(* state spaces add up instead of multiplying.                             *)
(***************************************************************************)
EXTENDS EscalationSweep, LogAlertSweep, ScheduledReports, EmailIntake,
        BudgetPace, FixedWindow, TLC

CONSTANTS a1, a2, l1, s1, s2, m1, m2, m3, b1, r1, r2, p1, none

VARIABLE part    \* the job of this behaviour

(* Two steps, the first at once with two targets, the second a minute later *)
TwoSteps == <<[delay |-> 0, targets |-> 2], [delay |-> 1, targets |-> 1]>>

(* What an edit can leave: one other step, or none *)
OneStep == <<[delay |-> 1, targets |-> 1]>>

EditedPolicies == {TwoSteps, OneStep, << >>}

SomeSettings == {[window |-> 0, threshold |-> 1], [window |-> 1, threshold |-> 2]}

TwoRecipients == [r \in Reports |-> IF r = s1 THEN 2 ELSE 1]

EveryUnit == [r \in Reports |-> 1]

sweepsVars ==
  <<part, environment, escVars, logVars, repVars, mailVars, paceVars, windowVars>>

(* What a job could start from matters only where it runs.                 *)
(* BOUND: a policy starts with one or two steps, so that edits change,     *)
(* take away and add steps.                                                *)
Init ==
  /\ part \in {"escalation", "logs", "reports", "mail", "pace", "window"}
  /\ EscInit /\ LogInit /\ RepInit /\ MailInit /\ PaceInit /\ WindowInit
  /\ policy \in (IF part = "escalation" THEN {TwoSteps, OneStep} ELSE {TwoSteps})
  /\ part # "logs" => \A r \in LogRules : setting[r].window = 0
  /\ part # "pace" => \A b \in Budgets : pace[b] = 0 /\ addressed[b]

EscPart(A) == /\ part = "escalation" /\ A
              /\ UNCHANGED <<part, logVars, repVars, mailVars, paceVars, windowVars>>
LogPart(A) == /\ part = "logs" /\ A
              /\ UNCHANGED <<part, escVars, repVars, mailVars, paceVars, windowVars>>
RepPart(A) == /\ part = "reports" /\ A
              /\ UNCHANGED <<part, escVars, logVars, mailVars, paceVars, windowVars>>
MailPart(A) == /\ part = "mail" /\ A
               /\ UNCHANGED <<part, escVars, logVars, repVars, paceVars, windowVars>>
PacePart(A) == /\ part = "pace" /\ A
               /\ UNCHANGED <<part, escVars, logVars, repVars, mailVars, windowVars>>
WindowPart(A) == /\ part = "window" /\ A
                 /\ UNCHANGED <<part, escVars, logVars, repVars, mailVars, paceVars>>

Next ==
  \/ EscPart(EscNext) \/ LogPart(LogNext) \/ RepPart(RepNext) \/ MailPart(MailNext)
  \/ PacePart(PaceNext) \/ WindowPart(WindowNext)

ClockRuns ==
  EscPart(Tick) \/ LogPart(LogTick) \/ RepPart(RepTick) \/ WindowPart(WindowPasses)

RunsOn(p) ==
  /\ p \in deployed
  /\ \/ EscPart(Sweep(p)) \/ LogPart(LogSweep(p)) \/ RepPart(RepSweep(p))
     \/ MailPart(MailPoll(p)) \/ PacePart(PaceJob(p))

(* The clock runs, the process's timers keep starting sweeps, and a        *)
(* request that made a key goes on to its EXPIRE.                          *)
Spec ==
  /\ Init /\ [][Next]_sweepsVars
  /\ WF_sweepsVars(ClockRuns)
  /\ \A p \in Processes : WF_sweepsVars(RunsOn(p))
  /\ \A r \in Requesters : WF_sweepsVars(WindowPart(Expire(r)))

-----------------------------------------------------------------------------
(* Every job comes to its work in the end, whatever pass of it fails: a    *)
(* rule over its threshold fires, a due report is run, a mail is taken, an *)
(* alert follows the spend, and a lock-out ends.                           *)
JobsCatchUp ==
  /\ NoisyRuleFires /\ DueReportIsRun /\ MailIsTaken
  /\ AlertFollowsSpend /\ LockoutEnds

=============================================================================
