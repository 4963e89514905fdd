--------------------------- MODULE EscalationSweep ---------------------------
(***************************************************************************)
(* EscalationSweepService: each API process walks the active alerts once a *)
(* tick, marks the next step that is due on the alert and, after the       *)
(* transaction committed, enqueues the notifications of that step.         *)
(*                                                                         *)
(* The sweep's SELECT and its UPDATEs with the COMMIT are two steps: at    *)
(* READ COMMITTED another process may commit in between, and the UPDATE    *)
(* does not look at the marker again.                                      *)
(***************************************************************************)
EXTENDS Environment, Sequences

CONSTANTS
  Alerts,       \* alerts of the rules that share one policy
  Policies,     \* escalation_policies.steps: sequences of [delay, targets]
  MaxEdits      \* BOUND: edits of the policy

ASSUME EscalationAssumption ==
  /\ \A q \in Policies :
       /\ q \in Seq([delay : Nat, targets : Nat])
       /\ \A s \in DOMAIN q : q[s].targets > 0
  /\ MaxEdits \in Nat
  /\ None \notin [alert : Alerts, step : Nat, next : Nat, targets : Nat]

VARIABLES
  policy,   \* the steps of the rule's policy, or None
  edits,    \* edits of it so far
  status,   \* alerts.status
  openedAt, \* alerts.opened_at
  marker,   \* alerts.last_escalated_step
  phase,    \* where each process's sweep is
  seen,     \* the rows its SELECT returned
  todo,     \* escalations it marked and has not taken up (PendingEscalation)
  current,  \* the escalation it is notifying, or None
  owed,     \* history: messages a committed mark stands for
  sent,     \* history: how often each message was enqueued
  lost      \* history: messages a fault dropped after the mark

alertVars == <<status, openedAt, marker>>
sweepVars == <<phase, seen, todo, current>>
auditVars == <<owed, sent, lost>>
escVars == <<policy, edits, alertVars, sweepVars, auditVars>>

-----------------------------------------------------------------------------
Active == {"open", "acknowledged"}

(* A message of an alert: the target'th of its step (numbered from 0) *)
Message(a, s, t) == [alert |-> a, step |-> s, target |-> t]

(* The messages an escalation still has to send *)
MessagesOf(e) == {Message(e.alert, e.step, t) : t \in e.next..e.targets}

(* Those of everything a process holds *)
Holding(p) ==
  UNION {MessagesOf(e) : e \in todo[p] \cup ({current[p]} \ {None})}

(* WHERE a.status IN ('open', 'acknowledged') *)
Selected == {a \in Alerts : status[a] \in Active}

(* The next step exists and its delay since opened_at is over. *)
Due(row) ==
  LET next == row.marker + 1
  IN  /\ next < Len(row.steps)
      /\ now >= row.openedAt + row.steps[next + 1].delay

(* Mutant of EscalationsOf: every step is queued as soon as the next is due *)
AllSteps(row) ==
  {[alert |-> row.alert, step |-> s, next |-> 1,
    targets |-> row.steps[s + 1].targets] : s \in (row.marker + 1)..(Len(row.steps) - 1)}

(* The PendingEscalation of a due row *)
EscalationsOf(row) ==
  {[alert |-> row.alert, step |-> row.marker + 1, next |-> 1,
    targets |-> row.steps[row.marker + 2].targets]}

EscInit ==
  /\ EnvInit
  /\ policy \in Policies
  /\ edits = 0
  /\ status = [a \in Alerts |-> "none"]
  /\ openedAt = [a \in Alerts |-> 0]
  /\ marker = [a \in Alerts |-> -1]
  /\ phase = [p \in Processes |-> "idle"]
  /\ seen = [p \in Processes |-> {}]
  /\ todo = [p \in Processes |-> {}]
  /\ current = [p \in Processes |-> None]
  /\ owed = {}
  /\ sent = [m \in {} |-> 0]
  /\ lost = {}

-----------------------------------------------------------------------------
Tick == ClockTick /\ UNCHANGED escVars

(* The evaluation inserts an alert: opened_at now(), no step escalated. *)
Open(a) ==
  /\ status[a] = "none"
  /\ status' = [status EXCEPT ![a] = "open"]
  /\ openedAt' = [openedAt EXCEPT ![a] = now]
  /\ UNCHANGED <<environment, policy, edits, marker, sweepVars, auditVars>>

(* AlertsService.acknowledge.  A request that read 'open' can land on an   *)
(* alert that was resolved since (see AlertLifecycle).                     *)
Acknowledge(a) ==
  /\ status[a] \in {"open", "resolved"}
  /\ status' = [status EXCEPT ![a] = "acknowledged"]
  /\ UNCHANGED <<environment, policy, edits, openedAt, marker, sweepVars, auditVars>>

(* AlertsService.resolve, and the evaluation on recovery. *)
Resolve(a) ==
  /\ status[a] \in Active
  /\ status' = [status EXCEPT ![a] = "resolved"]
  /\ UNCHANGED <<environment, policy, edits, openedAt, marker, sweepVars, auditVars>>

(* Mutant of EditPolicy: a new policy starts from its first step *)
EditPolicyRestarts(q) ==
  /\ edits < MaxEdits
  /\ q # policy
  /\ policy' = q
  /\ edits' = edits + 1
  /\ marker' = [a \in Alerts |-> -1]
  /\ UNCHANGED <<environment, status, openedAt, sweepVars, auditVars>>

(* EscalationPoliciesService.update and remove, and AlertRulesService.update *)
(* of escalation_policy_id: the markers of the alerts are left alone.      *)
EditPolicy(q) ==
  /\ edits < MaxEdits
  /\ q # policy
  /\ policy' = q
  /\ edits' = edits + 1
  /\ UNCHANGED <<environment, alertVars, sweepVars, auditVars>>

-----------------------------------------------------------------------------
(* runSweepOnce, sweepTenant: the `running' flag is FALSE; SELECT. *)
Select(p) ==
  /\ phase[p] = "idle"
  /\ phase' = [phase EXCEPT ![p] = "mark"]
  /\ seen' = [seen EXCEPT ![p] =
       IF policy = None THEN {}
       ELSE {[alert |-> a, marker |-> marker[a], openedAt |-> openedAt[a],
              steps |-> policy] : a \in Selected}]
  /\ UNCHANGED <<environment, policy, edits, alertVars, todo, current, auditVars>>

(* UPDATE alerts SET last_escalated_step of every due row, and COMMIT. *)
Mark(p) ==
  LET due == {row \in seen[p] : Due(row)}
      new == UNION {EscalationsOf(row) : row \in due}
  IN  /\ phase[p] = "mark"
      /\ marker' = [a \in Alerts |->
           IF \E row \in due : row.alert = a
           THEN (CHOOSE row \in due : row.alert = a).marker + 1
           ELSE marker[a]]
      /\ owed' = owed \cup UNION {MessagesOf(e) : e \in new}
      /\ todo' = [todo EXCEPT ![p] = new]
      /\ phase' = [phase EXCEPT ![p] = "notify"]
      /\ seen' = [seen EXCEPT ![p] = {}]
      /\ UNCHANGED <<environment, policy, edits, status, openedAt, current, sent, lost>>

(* for (const action of pending) *)
TakeUp(p) ==
  /\ phase[p] = "notify" /\ current[p] = None
  /\ \E e \in todo[p] :
       /\ current' = [current EXCEPT ![p] = e]
       /\ todo' = [todo EXCEPT ![p] = @ \ {e}]
  /\ UNCHANGED <<environment, policy, edits, alertVars, phase, seen, auditVars>>

(* Mutant of AfterTarget: the last target is left out *)
AfterTargetShort(e) ==
  IF e.next + 1 >= e.targets THEN None ELSE [e EXCEPT !.next = @ + 1]

(* What is left of an escalation after one of its targets *)
AfterTarget(e) ==
  IF e.next >= e.targets THEN None ELSE [e EXCEPT !.next = @ + 1]

(* renderBody and notifications.enqueue for the next target. *)
Notify(p) ==
  LET e == current[p]
      m == Message(e.alert, e.step, e.next)
  IN  /\ phase[p] = "notify" /\ e # None
      /\ sent' = [x \in DOMAIN sent \cup {m} |->
           (IF x \in DOMAIN sent THEN sent[x] ELSE 0) + (IF x = m THEN 1 ELSE 0)]
      /\ current' = [current EXCEPT ![p] = AfterTarget(e)]
      /\ UNCHANGED <<environment, policy, edits, alertVars, phase, seen, todo, owed,
                     lost>>

(* finally { this.running = false } *)
Finish(p) ==
  /\ phase[p] = "notify" /\ current[p] = None /\ todo[p] = {}
  /\ phase' = [phase EXCEPT ![p] = "idle"]
  /\ UNCHANGED <<environment, policy, edits, alertVars, seen, todo, current, auditVars>>

(* The transaction fails or is rolled back, renderBody or enqueue throws,  *)
(* or the process stops: the rest of the sweep is gone, what is marked     *)
(* stays marked.                                                           *)
SweepFails(p) ==
  /\ phase[p] # "idle"
  /\ Fault
  /\ lost' = lost \cup Holding(p)
  /\ phase' = [phase EXCEPT ![p] = "idle"]
  /\ seen' = [seen EXCEPT ![p] = {}]
  /\ todo' = [todo EXCEPT ![p] = {}]
  /\ current' = [current EXCEPT ![p] = None]
  /\ UNCHANGED <<policy, edits, alertVars, owed, sent>>

-----------------------------------------------------------------------------
Sweep(p) == Select(p) \/ Mark(p) \/ TakeUp(p) \/ Notify(p) \/ Finish(p)

EscNext ==
  \/ Tick
  \/ \E a \in Alerts : Open(a) \/ Acknowledge(a) \/ Resolve(a)
  \/ \E q \in Policies \cup {None} : EditPolicy(q)
  \/ \E p \in deployed : Sweep(p) \/ SweepFails(p)

EscSpec == EscInit /\ [][EscNext]_<<environment, escVars>>

-----------------------------------------------------------------------------
MaxSteps == LET lengths == {Len(q) : q \in Policies}
            IN  CHOOSE n \in lengths : \A k \in lengths : k <= n

(* Every variable stays in its type; a marker is an index of some policy. *)
EscTypeOK ==
  /\ EnvTypeOK
  /\ policy \in Policies \cup {None}
  /\ edits \in 0..MaxEdits
  /\ status \in [Alerts -> {"none", "resolved"} \cup Active]
  /\ openedAt \in [Alerts -> 0..MaxTime]
  /\ marker \in [Alerts -> -1..(MaxSteps - 1)]
  /\ phase \in [Processes -> {"idle", "mark", "notify"}]
  /\ \A p \in Processes :
       /\ \A row \in seen[p] : row.alert \in Alerts /\ row.steps \in Policies
       /\ \A e \in todo[p] \cup ({current[p]} \ {None}) :
            e.alert \in Alerts /\ e.step \in 0..(MaxSteps - 1) /\ e.next \in 1..e.targets
  /\ DOMAIN sent \subseteq owed
  /\ lost \subseteq owed

(* alerts.last_escalated_step "makes a step fire exactly once no matter    *)
(* how many overlapping sweep passes run": no message goes out twice.      *)
FiresOnce == \A m \in DOMAIN sent : sent[m] = 1

(* Every message a committed mark stands for went out, is in the hands of  *)
(* a running sweep, or a fault is on record: the loops over the pending    *)
(* escalations and their targets leave nothing out.                        *)
OwedIsAccountedFor ==
  \A m \in owed :
    m \in DOMAIN sent \/ m \in lost \/ \E p \in Processes : m \in Holding(p)

(* While a process still has to notify a step of an alert, nobody was      *)
(* notified of a later step of it.                                         *)
EscalatesInOrder ==
  \A p \in Processes : \A m \in Holding(p) :
    \A x \in DOMAIN sent : x.alert = m.alert => x.step <= m.step

(* The sweeps of one process send no message twice, and none of a step     *)
(* after one of a later step.                                              *)
EscalatesOnceInOrder == FiresOnce /\ EscalatesInOrder

(* A sweep never takes the marker of an alert back, whatever happens to    *)
(* the alert and its policy between the SELECT and the UPDATE.             *)
MarkerNeverReturns == [][\A a \in Alerts : marker'[a] >= marker[a]]_escVars

(* The clock's bound lets every delay of the policy pass for the alert. *)
ClockReaches(a) ==
  policy # None /\ \A s \in DOMAIN policy : openedAt[a] + policy[s].delay <= MaxTime

(* An alert that stays active is escalated to the last step of its policy, *)
(* acknowledged or not, whatever sweeps fail on the way.                   *)
EscalatesToTheEnd ==
  \A a \in Alerts :
    (<>[](status[a] \in Active /\ ClockReaches(a))) =>
      <>(policy # None /\ marker[a] >= Len(policy) - 1)

(* Escalation goes forward only, and to the end. *)
EscalatesForward == MarkerNeverReturns /\ EscalatesToTheEnd

=============================================================================
