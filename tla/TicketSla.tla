------------------------------ MODULE TicketSla ------------------------------
(***************************************************************************)
(* The SLA side of a ticket: TicketsService (create, update, merge, the    *)
(* first response of addMessage) with the automation rules it runs,        *)
(* scenarios and time-based rules, AI triage, the Freshdesk import, the    *)
(* SLA policies and the ticket types that name them, and                   *)
(* OverdueSweepService.                                                    *)
(*                                                                         *)
(* A request's transaction reads the ticket and later writes some of its   *)
(* columns: two steps, since READ COMMITTED lets other transactions commit *)
(* in between.  now() is the time the transaction began.                   *)
(***************************************************************************)
EXTENDS Environment, Sequences

CONSTANTS
  Tickets,         \* BOUND: rows the tickets table can take
  Assigned,        \* tickets that have an agent with an email address
  Types,           \* ticket_types
  Policies,        \* sla_policies
  Targets,         \* what the target minutes of a policy can be: [first, resolution]
  TargetsAtStart,  \* the target minutes of every policy at the start
  PolicyAtStart,   \* the default policy of every type at the start
  Rules,           \* automation_rules by position: [on, when, set]
  Requests,        \* concurrent requests
  Kinds,           \* what they do: "update", "reply", "scenario", "merge"
  Asked,           \* BOUND: the statuses they ask for
  TriageApplies,   \* the tenant's AI triage mode is 'apply'
  MaxEdits,        \* BOUND: edits of SLA policies
  MaxTypeEdits     \* BOUND: edits of ticket types

Closed   == {"resolved", "closed"}
Statuses == {"new", "open"} \cup Closed

ASSUME SlaAssumption ==
  /\ Assigned \subseteq Tickets
  /\ PolicyAtStart \in [Types -> Policies \cup {None}]
  /\ Targets \subseteq [first : Nat, resolution : Nat]
  /\ TargetsAtStart \in [Policies -> Targets]
  /\ Rules \in Seq([on : {"created", "updated"}, when : Statuses, set : Statuses])
  /\ Kinds \subseteq {"update", "reply", "scenario", "merge"}
  /\ Asked \subseteq Statuses
  /\ TriageApplies \in BOOLEAN
  /\ MaxEdits \in Nat /\ MaxTypeEdits \in Nat
  /\ None \notin Types /\ None \notin Policies /\ None \notin Statuses

VARIABLES
  targets,  \* the target minutes of every policy
  edits,    \* edits of policies so far
  policyOf, \* ticket_types.default_sla_policy_id of every type, or None
  typeEdits, \* edits of types so far
  hadPolicy, \* history: the policies that have been a type's default
  ticket,   \* the tickets table: a row, or None
  triage,   \* tickets whose triage call is under way
  request,  \* what every request does and has read
  replied,  \* history: when addMessage wrote a ticket's first agent reply
  typeOnly, \* history: tickets whose type came last from the triage or the
            \* import, which write it without a policy
  sweep,    \* where every process's overdue sweep is
  noticed,  \* history: ticket.overdue events per breach
  mailed,   \* history: overdue emails per breach
  lost      \* history: breaches a fault dropped after they were flagged

policyVars == <<targets, edits, policyOf, typeEdits, hadPolicy>>
auditVars == <<noticed, mailed, lost>>
slaVars == <<policyVars, ticket, triage, request, replied, typeOnly, sweep, auditVars>>
vars == <<environment, slaVars>>

-----------------------------------------------------------------------------
Breaches == Tickets \X {"first_response", "resolution"}

Exists(t) == ticket[t] # None

Idle == [do |-> "none"]

Resting == [at |-> "idle", seen |-> {}, todo |-> {}, mail |-> None]

(* Mutant of ResolvedAt: closing without resolving leaves the column NULL *)
ResolvedAtOnly(s, time) == IF s = "resolved" THEN time ELSE None

(* resolved_at, written with every write of status *)
ResolvedAt(s, time) == IF s \in Closed THEN time ELSE None

(* applyAction of set_status: nothing when the row it was given has it. *)
SetStatus(row, given, s, time) ==
  IF given.status = s THEN row
  ELSE [row EXCEPT !.status = s, !.resolvedAt = ResolvedAt(s, time)]

(* runRules: every active rule of the trigger, in position order, each     *)
(* seeing what the ones before it did.                                     *)
RunRules(on, row, time) ==
  LET after[i \in 0..Len(Rules)] ==
        IF i = 0 THEN row
        ELSE LET r == after[i - 1]
             IN  IF Rules[i].on = on /\ r.status = Rules[i].when
                 THEN SetStatus(r, r, Rules[i].set, time)
                 ELSE r
  IN  after[Len(Rules)]

(* calculateDueDates, anchored to created_at *)
Due(created, policy, target) ==
  IF policy = None THEN None ELSE created + targets[policy][target]

(* Mutant of WithPolicy: one of the two columns is forgotten *)
WithPolicyHalf(row, created, policy) ==
  [row EXCEPT !.policy = policy, !.firstDue = Due(created, policy, "first")]

(* The row with another policy and its due dates *)
WithPolicy(row, created, policy) ==
  [row EXCEPT !.policy = policy,
              !.firstDue = Due(created, policy, "first"),
              !.resolutionDue = Due(created, policy, "resolution")]

(* The breaches of a row that are over and not flagged *)
Overdue(t, row, time) ==
  {b \in {t} \X {"first_response", "resolution"} :
     IF b[2] = "first_response"
     THEN /\ row.firstDue # None /\ row.firstAt = None
          /\ row.firstDue < time /\ ~row.firstFlagged
     ELSE /\ row.resolutionDue # None /\ row.resolvedAt = None
          /\ row.resolutionDue < time /\ ~row.resolutionFlagged}

Init ==
  /\ EnvInit
  /\ targets = TargetsAtStart
  /\ edits = 0
  /\ policyOf = PolicyAtStart
  /\ typeEdits = 0
  /\ hadPolicy = [type \in Types |-> {PolicyAtStart[type]}]
  /\ ticket = [t \in Tickets |-> None]
  /\ triage = {}
  /\ request = [r \in Requests |-> Idle]
  /\ replied = [t \in Tickets |-> None]
  /\ typeOnly = {}
  /\ sweep = [p \in Processes |-> Resting]
  /\ noticed = [b \in Breaches |-> 0]
  /\ mailed = [b \in Breaches |-> 0]
  /\ lost = {}

-----------------------------------------------------------------------------
Tick == ClockTick /\ UNCHANGED slaVars

(* create: the row, its SLA from the type's default, the 'ticket_created'  *)
(* rules, and the triage call that is not waited for.                      *)
Create(t, type) ==
  LET policy == IF type = None THEN None ELSE policyOf[type]
      new == [status |-> "new", type |-> type, policy |-> policy,
              created |-> now,
              firstDue |-> Due(now, policy, "first"),
              resolutionDue |-> Due(now, policy, "resolution"),
              firstAt |-> None, resolvedAt |-> None,
              firstFlagged |-> FALSE, resolutionFlagged |-> FALSE,
              merged |-> FALSE]
  IN  /\ ~Exists(t)
      /\ ticket' = [ticket EXCEPT ![t] = RunRules("created", new, now)]
      /\ triage' = IF TriageApplies THEN triage \cup {t} ELSE triage
      /\ UNCHANGED <<environment, policyVars, request, replied, typeOnly, sweep, auditVars>>

(* triageTicket, mode 'apply': the suggested type is written, nothing else. *)
ApplyTriage(t, type) ==
  /\ t \in triage
  /\ ticket' = [ticket EXCEPT ![t].type = type]
  /\ triage' = triage \ {t}
  /\ typeOnly' = typeOnly \cup {t}
  /\ UNCHANGED <<environment, policyVars, request, replied, sweep, auditVars>>

(* No suggestion: the call failed, or read the ticket before it committed. *)
SkipTriage(t) ==
  /\ t \in triage
  /\ triage' = triage \ {t}
  /\ UNCHANGED <<environment, policyVars, ticket, request, replied, typeOnly, sweep,
                 auditVars>>

(* importTicket: the row as it was in Freshdesk, with created_at and       *)
(* updated_at of its own; no policy, no rules, no triage.                  *)
Import(t, type, status) ==
  /\ ~Exists(t)
  /\ \E created, updated \in 0..now :
       /\ created <= updated
       /\ ticket' = [ticket EXCEPT ![t] =
            [status |-> status, type |-> type, policy |-> None, created |-> created,
             firstDue |-> None, resolutionDue |-> None, firstAt |-> None,
             resolvedAt |-> ResolvedAt(status, updated),
             firstFlagged |-> FALSE, resolutionFlagged |-> FALSE, merged |-> FALSE]]
  /\ typeOnly' = typeOnly \cup {t}
  /\ UNCHANGED <<environment, policyVars, triage, request, replied, sweep, auditVars>>

(* SlaPoliciesService.update: no ticket is looked at. *)
EditPolicy(p, new) ==
  /\ edits < MaxEdits
  /\ targets[p] # new
  /\ targets' = [targets EXCEPT ![p] = new]
  /\ edits' = edits + 1
  /\ UNCHANGED <<environment, policyOf, typeEdits, hadPolicy, ticket, triage, request,
                 replied, typeOnly, sweep, auditVars>>

(* TicketTypesService.update: nor here, the type's tickets keep theirs. *)
EditType(type, policy) ==
  /\ typeEdits < MaxTypeEdits
  /\ policyOf[type] # policy
  /\ policyOf' = [policyOf EXCEPT ![type] = policy]
  /\ hadPolicy' = [hadPolicy EXCEPT ![type] = @ \cup {policy}]
  /\ typeEdits' = typeEdits + 1
  /\ UNCHANGED <<environment, targets, edits, ticket, triage, request, replied, typeOnly,
                 sweep, auditVars>>

-----------------------------------------------------------------------------
(* The columns a request still looks at after its SELECT *)
UsedLater(row) ==
  [status |-> row.status, policy |-> row.policy, created |-> row.created,
   firstAt |-> row.firstAt, merged |-> row.merged]

(* A request's SELECT of the ticket. *)
Read(r, t, kind, s, type) ==
  /\ request[r] = Idle
  /\ Exists(t)
  /\ request' = [request EXCEPT ![r] =
       [do |-> kind, ticket |-> t, status |-> s, type |-> type,
        seen |-> UsedLater(ticket[t]), began |-> now]]
  /\ UNCHANGED <<environment, policyVars, ticket, triage, replied, typeOnly, sweep, auditVars>>

(* What a request may ask for: an update has a status, a type or both. *)
ReadAny(r) ==
  \E t \in Tickets :
    \/ /\ "update" \in Kinds
       /\ \E s \in Asked \cup {None}, type \in Types \cup {None} :
            (s # None \/ type # None) /\ Read(r, t, "update", s, type)
    \/ /\ "scenario" \in Kinds
       /\ \E s \in Asked : Read(r, t, "scenario", s, None)
    \/ "reply" \in Kinds /\ Read(r, t, "reply", None, None)
    \/ "merge" \in Kinds /\ Read(r, t, "merge", None, None)

(* The request ends with the given row for its ticket. *)
Write(r, row) ==
  /\ ticket' = [ticket EXCEPT ![request[r].ticket] = row]
  /\ request' = [request EXCEPT ![r] = Idle]
  /\ UNCHANGED <<environment, policyVars, triage, sweep, auditVars>>

(* The columns update() writes: the SLA is derived again only when the     *)
(* type's policy differs from the one the request read.                    *)
Updated(q, row) ==
  LET moved == IF q.status = None THEN row
               ELSE [row EXCEPT !.status = q.status,
                                !.resolvedAt = ResolvedAt(q.status, now)]
      typed == IF q.type = None THEN moved ELSE [moved EXCEPT !.type = q.type]
  IN  IF q.type # None /\ policyOf[q.type] # q.seen.policy
      THEN WithPolicy(typed, q.seen.created, policyOf[q.type])
      ELSE typed

(* update: UPDATE tickets, the 'ticket_updated' rules, COMMIT. *)
WriteUpdate(r) ==
  LET q == request[r]
  IN  /\ q.do = "update"
      /\ Write(r, RunRules("updated", Updated(q, ticket[q.ticket]), q.began))
      /\ typeOnly' = IF q.type = None THEN typeOnly ELSE typeOnly \ {q.ticket}
      /\ UNCHANGED replied

(* A scenario's or a time-based rule's set_status. *)
WriteScenario(r) ==
  LET q == request[r]
  IN  /\ q.do = "scenario"
      /\ Write(r, SetStatus(ticket[q.ticket], q.seen, q.status, q.began))
      /\ UNCHANGED <<replied, typeOnly>>

(* UPDATE tickets SET first_response_at = now() if the SELECT saw NULL *)
FirstResponse(q, row) ==
  IF q.seen.firstAt = None THEN [row EXCEPT !.firstAt = q.began] ELSE row

(* addMessage of an agent's reply. *)
WriteReply(r) ==
  LET q == request[r]
  IN  /\ q.do = "reply"
      /\ Write(r, FirstResponse(q, ticket[q.ticket]))
      /\ replied' = [replied EXCEPT ![q.ticket] =
           IF @ = None \/ q.began < @ THEN q.began ELSE @]
      /\ UNCHANGED typeOnly

(* merge, for the source: closed, COALESCE(resolved_at, now()). *)
WriteMerge(r) ==
  LET q == request[r]
      row == ticket[q.ticket]
  IN  /\ q.do = "merge"
      /\ Write(r, IF q.seen.merged THEN row
                  ELSE [row EXCEPT !.status = "closed", !.merged = TRUE,
                         !.resolvedAt = IF @ = None THEN q.began ELSE @])
      /\ UNCHANGED <<replied, typeOnly>>

(* The transaction is rolled back (a lost connection, a failed assertion). *)
Abandon(r) ==
  /\ request[r] # Idle
  /\ request' = [request EXCEPT ![r] = Idle]
  /\ UNCHANGED <<environment, policyVars, ticket, triage, replied, typeOnly, sweep, auditVars>>

-----------------------------------------------------------------------------
(* runSweepOnce, sweepTenant: SELECT the open tickets with a breach. *)
SweepSelect(p) ==
  LET open == {t \in Tickets : Exists(t) /\ ticket[t].status \notin Closed}
  IN  /\ sweep[p].at = "idle"
      /\ sweep' = [sweep EXCEPT ![p] =
           [Resting EXCEPT !.at = "mark",
              !.seen = UNION {Overdue(t, ticket[t], now) : t \in open}]]
      /\ UNCHANGED <<environment, policyVars, ticket, triage, request, replied, typeOnly,
                     auditVars>>

(* Mutant of SweepMark: the flags are written after the dispatch, if ever *)
SweepMarkLate(p) ==
  /\ sweep[p].at = "mark"
  /\ sweep' = [sweep EXCEPT ![p] =
       [Resting EXCEPT !.at = "dispatch", !.todo = sweep[p].seen]]
  /\ UNCHANGED <<environment, policyVars, ticket, triage, request, replied, typeOnly,
                 auditVars>>

(* The UPDATEs of *_overdue_notified_at, by id only, and COMMIT. *)
SweepMark(p) ==
  LET found == sweep[p].seen
  IN  /\ sweep[p].at = "mark"
      /\ ticket' = [t \in Tickets |->
           IF ~Exists(t) THEN None
           ELSE [ticket[t] EXCEPT
                   !.firstFlagged = @ \/ <<t, "first_response">> \in found,
                   !.resolutionFlagged = @ \/ <<t, "resolution">> \in found]]
      /\ sweep' = [sweep EXCEPT ![p] =
           [Resting EXCEPT !.at = "dispatch", !.todo = found]]
      /\ UNCHANGED <<environment, policyVars, triage, request, replied, typeOnly, auditVars>>

(* Mutant of SweepPublish: one notice per ticket, not per breach *)
SweepPublishPerTicket(p) ==
  /\ sweep[p].at = "dispatch" /\ sweep[p].mail = None
  /\ \E b \in sweep[p].todo :
       /\ noticed' = [noticed EXCEPT ![b] = @ + 1]
       /\ sweep' = [sweep EXCEPT ![p].todo = {c \in @ : c[1] # b[1]},
                                 ![p].mail = IF b[1] \in Assigned THEN b ELSE None]
  /\ UNCHANGED <<environment, policyVars, ticket, triage, request, replied, typeOnly, mailed,
                 lost>>

(* dispatchBreach: publish ticket.overdue; a ticket without an agent ends  *)
(* there.                                                                  *)
SweepPublish(p) ==
  /\ sweep[p].at = "dispatch" /\ sweep[p].mail = None
  /\ \E b \in sweep[p].todo :
       /\ noticed' = [noticed EXCEPT ![b] = @ + 1]
       /\ sweep' = [sweep EXCEPT ![p].todo = @ \ {b},
                                 ![p].mail = IF b[1] \in Assigned THEN b ELSE None]
  /\ UNCHANGED <<environment, policyVars, ticket, triage, request, replied, typeOnly, mailed,
                 lost>>

(* dispatchBreach: resolveAgentEmail and notifications.enqueue. *)
SweepMail(p) ==
  /\ sweep[p].mail # None
  /\ mailed' = [mailed EXCEPT ![sweep[p].mail] = @ + 1]
  /\ sweep' = [sweep EXCEPT ![p].mail = None]
  /\ UNCHANGED <<environment, policyVars, ticket, triage, request, replied, typeOnly, noticed,
                 lost>>

SweepFinish(p) ==
  /\ sweep[p].at = "dispatch" /\ sweep[p].todo = {} /\ sweep[p].mail = None
  /\ sweep' = [sweep EXCEPT ![p] = Resting]
  /\ UNCHANGED <<environment, policyVars, ticket, triage, request, replied, typeOnly,
                 auditVars>>

(* The breaches a sweep has flagged and still has to tell about *)
Holding(p) == sweep[p].todo \cup ({sweep[p].mail} \ {None})

(* Mutant of SweepFails: `running' is not reset in a finally *)
SweepFailsRunning(p) ==
  /\ sweep[p].at # "idle"
  /\ Fault
  /\ lost' = lost \cup Holding(p)
  /\ sweep' = [sweep EXCEPT ![p] = [Resting EXCEPT !.at = "running"]]
  /\ UNCHANGED <<policyVars, ticket, triage, request, replied, typeOnly, noticed, mailed>>

(* The transaction, publish or enqueue fails, or the process stops: the    *)
(* rest of the sweep is gone.                                              *)
SweepFails(p) ==
  /\ sweep[p].at # "idle"
  /\ Fault
  /\ lost' = lost \cup Holding(p)
  /\ sweep' = [sweep EXCEPT ![p] = Resting]
  /\ UNCHANGED <<policyVars, ticket, triage, request, replied, typeOnly, noticed, mailed>>

-----------------------------------------------------------------------------
Finishes(r) == WriteUpdate(r) \/ WriteScenario(r) \/ WriteReply(r) \/ WriteMerge(r)

Sweep(p) == SweepSelect(p) \/ SweepMark(p) \/ SweepPublish(p) \/ SweepMail(p)
            \/ SweepFinish(p)

Next ==
  \/ Tick
  \/ \E t \in Tickets :
       \/ \E type \in Types \cup {None} : Create(t, type)
       \/ \E type \in Types : ApplyTriage(t, type)
       \/ SkipTriage(t)
       \/ \E type \in Types \cup {None}, status \in Statuses : Import(t, type, status)
  \/ \E type \in Types, policy \in Policies \cup {None} : EditType(type, policy)
  \/ \E p \in Policies, new \in Targets : EditPolicy(p, new)
  \/ \E r \in Requests : ReadAny(r) \/ Finishes(r) \/ Abandon(r)
  \/ \E p \in deployed : Sweep(p) \/ SweepFails(p)

Spec == Init /\ [][Next]_vars

(* The clock runs and every process's timer keeps starting sweeps. *)
FairSpec == Spec /\ WF_vars(Tick)
            /\ \A p \in Processes : WF_vars(p \in deployed /\ Sweep(p))

-----------------------------------------------------------------------------
Rows ==
  [status : Statuses, type : Types \cup {None}, policy : Policies \cup {None},
   created : Times, firstDue : Nat \cup {None}, resolutionDue : Nat \cup {None},
   firstAt : Times \cup {None}, resolvedAt : Times \cup {None},
   firstFlagged : BOOLEAN, resolutionFlagged : BOOLEAN, merged : BOOLEAN]

(* NULL is neither a row nor the name of a breach. *)
ASSUME NullAssumption == None \notin Rows /\ None \notin Breaches

ReadRows ==
  [status : Statuses, policy : Policies \cup {None}, created : Times,
   firstAt : Times \cup {None}, merged : BOOLEAN]

(* Every variable stays in its type. *)
TypeOK ==
  /\ EnvTypeOK
  /\ targets \in [Policies -> Targets]
  /\ edits \in 0..MaxEdits
  /\ policyOf \in [Types -> Policies \cup {None}]
  /\ typeEdits \in 0..MaxTypeEdits
  /\ hadPolicy \in [Types -> SUBSET (Policies \cup {None})]
  /\ \A t \in Tickets : Exists(t) => ticket[t] \in Rows
  /\ triage \subseteq Tickets /\ typeOnly \subseteq Tickets
  /\ \A r \in Requests : request[r] # Idle =>
       /\ request[r].ticket \in Tickets
       /\ request[r].seen \in ReadRows
       /\ request[r].began \in Times
  /\ \A p \in Processes :
       sweep[p].seen \cup Holding(p) \subseteq Breaches
  /\ noticed \in [Breaches -> Nat]
  /\ mailed \in [Breaches -> Nat]
  /\ lost \subseteq Breaches

(* resolved_at is set exactly while the status is resolved or closed,      *)
(* whichever of update, the rules, scenarios and merge wrote last.         *)
ResolvedAtMatchesStatus ==
  \A t \in Tickets : Exists(t) =>
    (ticket[t].resolvedAt # None <=> ticket[t].status \in Closed)

(* The due dates are those of the ticket's policy, counted from its        *)
(* creation, however type changes interleave.                              *)
DuesFollowPolicy ==
  \A t \in Tickets : Exists(t) =>
    LET row == ticket[t]
    IN  /\ row.firstDue = Due(row.created, row.policy, "first")
        /\ row.resolutionDue = Due(row.created, row.policy, "resolution")

(* "SLA policy is only ever derived from the ticket type's default": a     *)
(* ticket whose type came from create or update has a policy that is or    *)
(* was the default of that type; editing a type leaves its tickets with    *)
(* the policy they got.  Nothing is said of a type that the AI triage or   *)
(* the import wrote: they write no policy.                                 *)
PolicyFollowsType ==
  \A t \in Tickets :
    Exists(t) /\ ticket[t].type # None /\ t \notin typeOnly
      => ticket[t].policy \in hadPolicy[ticket[t].type]

(* first_response_at is "the first agent reply specifically" of those that *)
(* addMessage wrote: conversations of the import leave it NULL.            *)
FirstResponseIsFirst ==
  \A t \in Tickets : Exists(t) => ticket[t].firstAt = replied[t]

(* "a ticket is never notified twice": one event and one email per breach, *)
(* by the runs of one process, through all its sweeps.  Of overlapping     *)
(* runs each can have read the breach unflagged and announces it: one more *)
(* for each further process, and never one for each run.                   *)
NotifiedOncePerProcess ==
  \A b \in Breaches :
    noticed[b] <= Cardinality(deployed) /\ mailed[b] <= noticed[b]

(* What holds while there is one request at a time: the policy is one of   *)
(* the type's, the first response is the first reply; and sweeps announce  *)
(* a breach once per process.                                              *)
RightInTurn == PolicyFollowsType /\ FirstResponseIsFirst /\ NotifiedOncePerProcess

(* A flagged breach was told about in full, is in the hands of a running   *)
(* sweep, or a fault is on record: nothing else loses it.                  *)
FlaggedIsNotified ==
  \A b \in Breaches :
    LET flagged == Exists(b[1]) /\
                   IF b[2] = "first_response" THEN ticket[b[1]].firstFlagged
                                              ELSE ticket[b[1]].resolutionFlagged
        told == noticed[b] > 0 /\ (b[1] \in Assigned => mailed[b] > 0)
    IN  flagged => told \/ b \in lost \/ \E p \in Processes : b \in Holding(p)

(* A ticket that stays open past a due date is flagged in the end.         *)
OverdueIsFlagged ==
  \A t \in Tickets :
    ~ <>[](/\ Exists(t) /\ ticket[t].status \notin Closed
           /\ Overdue(t, ticket[t], now) # {})

=============================================================================
