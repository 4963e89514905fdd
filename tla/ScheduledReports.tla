-------------------------- MODULE ScheduledReports --------------------------
(***************************************************************************)
(* ScheduledReportSweepService: select the due reports, render each,       *)
(* enqueue it for one recipient after the other and only then move         *)
(* next_run_at: what fails in between is sent again from the start.        *)
(***************************************************************************)
EXTENDS Environment

CONSTANTS
  Reports,       \* scheduled_reports
  Unrenderable,  \* those that create() takes and no render can make: a
                 \* cost_by_tag report without params.tagKey
  Recipients,    \* how many recipients each has
  Cadence        \* nextRunAt: time from one run to the next

ASSUME ReportAssumption ==
  /\ Recipients \in [Reports -> Nat \ {0}]
  /\ Cadence \in [Reports -> Nat \ {0}]
  /\ Unrenderable \subseteq Reports
  /\ None \notin Reports

VARIABLES
  repState,  \* "new", "live" or "removed"
  nextRun,   \* next_run_at
  repStage,  \* where each process's sweep is
  repDue,    \* reports of its SELECT still to run
  repRow,    \* the report it is running, or None
  repTo,     \* the next recipient of it
  repSent,   \* history: times each report was enqueued for each recipient
  repRuns    \* history: runs recorded, by recipient

repRows == <<repState, nextRun>>
repJobVars == <<repStage, repDue, repRow, repTo>>
repAudit == <<repSent, repRuns>>
repVars == <<repRows, repJobVars, repAudit>>

Deliveries == UNION {{<<r, k>> : k \in 1..Recipients[r]} : r \in Reports}

RepInit ==
  /\ EnvInit
  /\ repState = [r \in Reports |-> "new"]
  /\ nextRun = [r \in Reports |-> 0]
  /\ repStage = [p \in Processes |-> "idle"]
  /\ repDue = [p \in Processes |-> {}]
  /\ repRow = [p \in Processes |-> None]
  /\ repTo = [p \in Processes |-> 1]
  /\ repSent = [d \in Deliveries |-> 0]
  /\ repRuns = [d \in Deliveries |-> 0]

-----------------------------------------------------------------------------
(* ScheduledReportsService.create: "First scheduled send happens after one *)
(* full cadence period"                                                    *)
CreateReport(r) ==
  /\ repState[r] = "new"
  /\ repState' = [repState EXCEPT ![r] = "live"]
  /\ nextRun' = [nextRun EXCEPT ![r] = now + Cadence[r]]
  /\ UNCHANGED <<environment, repJobVars, repAudit>>

(* ScheduledReportsService.remove *)
RemoveReport(r) ==
  /\ repState[r] = "live"
  /\ repState' = [repState EXCEPT ![r] = "removed"]
  /\ UNCHANGED <<environment, nextRun, repJobVars, repAudit>>

ReportDue(r) == repState[r] = "live" /\ nextRun[r] <= now

(* sweepOnce, sweepTenant: WHERE is_active AND next_run_at <= now() *)
RepSelect(p) ==
  /\ repStage[p] = "idle"
  /\ repDue' = [repDue EXCEPT ![p] = {r \in Reports : ReportDue(r)}]
  /\ repStage' = [repStage EXCEPT ![p] = "next"]
  /\ UNCHANGED <<environment, repRows, repRow, repTo, repAudit>>

(* Mutant of TakeReport: an error of render ends the pass *)
TakeReportOrStop(p) ==
  /\ repStage[p] = "next"
  /\ \E r \in repDue[p] :
       IF r \in Unrenderable
       THEN /\ repStage' = [repStage EXCEPT ![p] = "idle"]
            /\ repDue' = [repDue EXCEPT ![p] = {}]
            /\ UNCHANGED <<repRow, repTo>>
       ELSE /\ repStage' = [repStage EXCEPT ![p] = "send"]
            /\ repDue' = [repDue EXCEPT ![p] = @ \ {r}]
            /\ repRow' = [repRow EXCEPT ![p] = r]
            /\ repTo' = [repTo EXCEPT ![p] = 1]
  /\ UNCHANGED <<environment, repRows, repAudit>>

(* The next report of the loop is rendered; what cannot be is logged and   *)
(* left as it is                                                           *)
TakeReport(p) ==
  /\ repStage[p] = "next"
  /\ \E r \in repDue[p] :
       /\ repDue' = [repDue EXCEPT ![p] = @ \ {r}]
       /\ IF r \in Unrenderable
          THEN UNCHANGED <<repStage, repRow, repTo>>
          ELSE /\ repRow' = [repRow EXCEPT ![p] = r]
               /\ repTo' = [repTo EXCEPT ![p] = 1]
               /\ repStage' = [repStage EXCEPT ![p] = "send"]
  /\ UNCHANGED <<environment, repRows, repAudit>>

LastRecipient(p) == repTo[p] = Recipients[repRow[p]]

(* runAndDeliver: enqueue for the next recipient *)
EnqueueReport(p) ==
  LET d == <<repRow[p], repTo[p]>> IN
  /\ repStage[p] = "send"
  /\ repSent' = [repSent EXCEPT ![d] = @ + 1]
  /\ IF LastRecipient(p)
     THEN repStage' = [repStage EXCEPT ![p] = "mark"] /\ UNCHANGED repTo
     ELSE repTo' = [repTo EXCEPT ![p] = @ + 1] /\ UNCHANGED repStage
  /\ UNCHANGED <<environment, repRows, repDue, repRow, repRuns>>

(* nextRunAt(report.cadence, now): a removed report has no row *)
Advanced(r) == IF repState[r] = "live" THEN now + Cadence[r] ELSE nextRun[r]

(* The UPDATE of last_run_at and next_run_at *)
MarkRun(p) ==
  LET r == repRow[p] IN
  /\ repStage[p] = "mark"
  /\ nextRun' = [nextRun EXCEPT ![r] = Advanced(r)]
  /\ repRuns' = IF repState[r] = "live"
                THEN [d \in Deliveries |-> repRuns[d] + (IF d[1] = r THEN 1 ELSE 0)]
                ELSE repRuns
  /\ repStage' = [repStage EXCEPT ![p] = "next"]
  /\ repRow' = [repRow EXCEPT ![p] = None]
  /\ UNCHANGED <<environment, repState, repDue, repTo, repSent>>

(* A query of render, enqueue (before or after the message is on its way)  *)
(* or the UPDATE throws this once: logged, on to the next report           *)
ReportFails(p) ==
  /\ repStage[p] \in {"send", "mark"}
  /\ Fault
  /\ \/ UNCHANGED repSent
     \/ /\ repStage[p] = "send"
        /\ repSent' = [repSent EXCEPT ![<<repRow[p], repTo[p]>>] = @ + 1]
  /\ repStage' = [repStage EXCEPT ![p] = "next"]
  /\ repRow' = [repRow EXCEPT ![p] = None]
  /\ UNCHANGED <<repRows, repDue, repTo, repRuns>>

(* The process stops *)
RepSweepFails(p) ==
  /\ repStage[p] # "idle"
  /\ Fault
  /\ repStage' = [repStage EXCEPT ![p] = "idle"]
  /\ repDue' = [repDue EXCEPT ![p] = {}]
  /\ repRow' = [repRow EXCEPT ![p] = None]
  /\ UNCHANGED <<repRows, repTo, repAudit>>

(* finally { this.running = false } *)
RepFinish(p) ==
  /\ repStage[p] = "next" /\ repDue[p] = {}
  /\ repStage' = [repStage EXCEPT ![p] = "idle"]
  /\ UNCHANGED <<environment, repRows, repDue, repRow, repTo, repAudit>>

-----------------------------------------------------------------------------
RepTick == ClockTick /\ UNCHANGED repVars

RepSweep(p) ==
  \/ RepSelect(p) \/ TakeReport(p) \/ EnqueueReport(p) \/ MarkRun(p)
  \/ RepFinish(p)

RepNext ==
  \/ RepTick
  \/ \E r \in Reports : CreateReport(r) \/ RemoveReport(r)
  \/ \E p \in deployed : RepSweep(p) \/ ReportFails(p) \/ RepSweepFails(p)

RepSpec == RepInit /\ [][RepNext]_<<environment, repVars>>

-----------------------------------------------------------------------------
(* Every variable stays in its type. *)
RepTypeOK ==
  /\ EnvTypeOK
  /\ repState \in [Reports -> {"new", "live", "removed"}]
  /\ nextRun \in [Reports -> Nat]
  /\ repStage \in [Processes -> {"idle", "next", "send", "mark"}]
  /\ repDue \in [Processes -> SUBSET Reports]
  /\ repRow \in [Processes -> Reports \cup {None}]
  /\ repTo \in [Processes -> Nat \ {0}]
  /\ \A p \in Processes :
       /\ repRow[p] # None <=> repStage[p] \in {"send", "mark"}
       /\ repRow[p] # None => repTo[p] <= Recipients[repRow[p]]
  /\ repSent \in [Deliveries -> Nat]
  /\ repRuns \in [Deliveries -> Nat]

RepPromise == INSTANCE ActThenMark
  WITH Items <- Deliveries, acted <- repSent, marked <- repRuns

(* next_run_at moves only after every recipient was served since it last   *)
(* moved: the sweep implements ActThenMark.                                *)
RepImplementsPromise == RepPromise!ActSpec

(* What a recipient gets beyond the recorded runs is accounted for: one    *)
(* copy for each fault and one for each process that is at it.             *)
CopiesAreBounded ==
  \A d \in Deliveries : repSent[d] <= repRuns[d] + faults + Cardinality(deployed)

(* No report that can be rendered stays due for ever, although those that  *)
(* cannot do: each pass meets them again and goes on to the others.        *)
DueReportIsRun == \A r \in Reports \ Unrenderable : []<>~ReportDue(r)

=============================================================================
