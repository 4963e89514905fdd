--------------------------- MODULE AlertLifecycle ---------------------------
(***************************************************************************)
(* From a recorded check to an alert to a ticket: the scheduler's sweep    *)
(* and the agent's report (monitor-scheduler, agent-ingestion), the        *)
(* evaluation they both call (alert-evaluation), and the operators'        *)
(* requests on alerts (alerts.service).                                    *)
(*                                                                         *)
(* A database transaction runs at READ COMMITTED, so each of its SELECTs   *)
(* is a step of its own; its one write and the COMMIT are one step, since  *)
(* the row lock makes a concurrent writer wait.  What a transaction read   *)
(* is kept with its worker and may be stale when it writes.                *)
(***************************************************************************)
EXTENDS Naturals, FiniteSets

CONSTANTS
  Monitors,       \* monitors of one tenant, all enabled
  AgentMonitors,  \* those of type server_agent
  Schedulers,     \* API instances running the monitor scheduler
  Agents,         \* requests of the server agents, one report at a time
  Operators,      \* requests of users on /alerts
  Alerts,         \* BOUND: rows the alerts table can take
  Tickets,        \* BOUND: rows the tickets table can take
  ManualTickets,  \* tickets that exist without any alert
  Locations,      \* probe locations
  LocationOf,     \* PROBE_LOCATION of each worker
  Window,         \* consecutive_failures_to_alert / for_consecutive
  MinLocations,   \* min_failing_locations
  NoteEvery,      \* REPEAT_NOTE_EVERY
  MaxRepeats,     \* BOUND: repeat_count
  FaultBudget,    \* BOUND: crashes and failed calls
  StatusIn,       \* condition.statusIn of a status rule
  ResultsAt,      \* the check results a location can see: [status, breach]
  RuleKinds,      \* rule kinds that occur
  None

Workers == Schedulers \cup Agents

Results == UNION {ResultsAt[l] : l \in Locations}

CheckStatuses == {"up", "trouble", "down", "critical"}

ASSUME ConfigAssumption ==
  /\ AgentMonitors \subseteq Monitors
  /\ Schedulers \cap Agents = {}
  /\ ManualTickets \subseteq Tickets
  /\ LocationOf \in [Workers -> Locations] /\ IsFiniteSet(Locations)
  /\ Window \in Nat \ {0}
  /\ MinLocations \in Nat \ {0}
  /\ NoteEvery \in Nat \ {0}
  /\ MaxRepeats \in Nat
  /\ FaultBudget \in Nat
  /\ StatusIn \subseteq CheckStatuses
  /\ ResultsAt \in [Locations -> SUBSET [status : CheckStatuses,
                                         breach : BOOLEAN]]
  /\ RuleKinds \subseteq {"status", "threshold", "anomaly"}

ASSUME NoneAssumption ==
  /\ None \notin Monitors
  /\ None \notin Alerts
  /\ None \notin Tickets
  /\ None \notin Results
  /\ None \notin RuleKinds

VARIABLES
  recent,     \* the Window newest monitor_checks of a monitor, newest first
  latest,     \* the newest monitor_check of a monitor per location
  rule,       \* kind of the monitor's enabled alert rule, or None
  status,     \* alerts.status ("free": the row does not exist)
  monitorOf,  \* alerts.monitor_id
  ticketOf,   \* alerts.ticket_id
  repeats,    \* alerts.repeat_count
  origin,     \* history: the alert whose evaluation created the ticket
  tickets,    \* tickets that exist
  notes,      \* kinds of notes an evaluation posted on a ticket
  phase,      \* where each worker is
  pending,    \* recorded checks its sweep still has to evaluate
  cur,        \* what its evaluation works on and has read
  request,    \* what each operator's request does and has read
  lost,       \* history: alerts whose evaluation failed before linking
  faults      \* crashes and failed calls so far

dbVars  == <<recent, latest, rule, status, monitorOf, ticketOf, repeats,
             origin, tickets, notes>>
vars    == <<dbVars, phase, pending, cur, request, lost, faults>>

-----------------------------------------------------------------------------
Active == {"open", "acknowledged"}

Phases == {"idle", "next", "select", "debounce", "quorum", "insert",
           "resolve", "repeat", "note", "announce", "ticket", "link"}

Entries == Monitors \X Results

Nothing == [monitor |-> None, result |-> None, kind |-> None,
            reached |-> FALSE, alert |-> None, ticket |-> None,
            count |-> 0, note |-> None]

Idle == [do |-> "idle", alert |-> None, ticket |-> None]

(* isBad of a status rule *)
BadStatus(r) == r # None /\ r.status \in StatusIn

(* A metric rule's sample: value !== null and compare(value, ...) *)
Breach(r) == r # None /\ r.breach

(* The rows idx_alerts_one_active_per_monitor covers *)
ActiveAlerts(m) == {a \in Alerts : monitorOf[a] = m /\ status[a] \in Active}

FreeAlerts == {a \in Alerts : status[a] = "free"}

FreeTickets == Tickets \ tickets

Init ==
  /\ recent = [m \in Monitors |-> [i \in 1..Window |-> None]]
  /\ latest = [m \in Monitors |-> [l \in Locations |-> None]]
  /\ rule \in [Monitors -> RuleKinds \cup {None}]
  /\ status = [a \in Alerts |-> "free"]
  /\ monitorOf = [a \in Alerts |-> None]
  /\ ticketOf = [a \in Alerts |-> None]
  /\ repeats = [a \in Alerts |-> 0]
  /\ origin = [t \in Tickets |-> None]
  /\ tickets = ManualTickets
  /\ notes = [t \in Tickets |-> {}]
  /\ phase = [w \in Workers |-> "idle"]
  /\ pending = [w \in Workers |-> {}]
  /\ cur = [w \in Workers |-> Nothing]
  /\ request = [o \in Operators |-> Idle]
  /\ lost = {}
  /\ faults = 0

-----------------------------------------------------------------------------
(* INSERT INTO monitor_checks of one result per monitor of the batch, in   *)
(* one transaction; the location is the worker's.                          *)
RecordChecks(w, batch) ==
  /\ recent' = [m \in Monitors |->
       IF m \in DOMAIN batch
       THEN [i \in 1..Window |-> IF i = 1 THEN batch[m] ELSE recent[m][i-1]]
       ELSE recent[m]]
  /\ latest' = [m \in Monitors |->
       IF m \in DOMAIN batch
       THEN [latest[m] EXCEPT ![LocationOf[w]] = batch[m]]
       ELSE latest[m]]

(* runSweepOnce: the `running` flag lets one sweep of an instance run at a *)
(* time.  It polls monitors, or looks for agents that fell silent: two     *)
(* batches, each checked and recorded before any of it is evaluated.       *)
StartSweep(w) ==
  /\ phase[w] = "idle"
  /\ \E due \in (SUBSET Monitors) \ {{}} : \E batch \in [due -> ResultsAt[LocationOf[w]]] :
       /\ due \subseteq AgentMonitors \/ due \cap AgentMonitors = {}
       /\ RecordChecks(w, batch)
       /\ pending' = [pending EXCEPT ![w] = {<<m, batch[m]>> : m \in due}]
  /\ phase' = [phase EXCEPT ![w] = "next"]
  /\ UNCHANGED <<rule, status, monitorOf, ticketOf, repeats, origin, tickets,
                 notes, cur, request, lost, faults>>

(* The loop of recordAndEvaluate: publish monitor.checked, then evaluate.  *)
(* The due monitors come in no particular order.                           *)
NextEntry(w) ==
  /\ phase[w] = "next"
  /\ \E e \in pending[w] :
       /\ pending' = [pending EXCEPT ![w] = @ \ {e}]
       /\ cur' = [cur EXCEPT ![w] = [Nothing EXCEPT !.monitor = e[1],
                                                    !.result = e[2]]]
  /\ phase' = [phase EXCEPT ![w] = "select"]
  /\ UNCHANGED <<dbVars, request, lost, faults>>

FinishSweep(w) ==
  /\ phase[w] = "next"
  /\ pending[w] = {}
  /\ phase' = [phase EXCEPT ![w] = "idle"]
  /\ UNCHANGED <<dbVars, pending, cur, request, lost, faults>>

(* publishCheckRecorded is outside the loop's try: when it throws, the     *)
(* rest of the batch is never evaluated.                                   *)
PublishCheckFails(w) ==
  /\ phase[w] = "next"
  /\ pending[w] # {}
  /\ faults < FaultBudget
  /\ faults' = faults + 1
  /\ pending' = [pending EXCEPT ![w] = {}]
  /\ phase' = [phase EXCEPT ![w] = "idle"]
  /\ UNCHANGED <<dbVars, cur, request, lost>>

(* report: the check is recorded and evaluated by the request itself,      *)
(* without monitor.checked.                                                *)
Report(w) ==
  /\ phase[w] = "idle"
  /\ \E m \in AgentMonitors, r \in ResultsAt[LocationOf[w]] :
       /\ RecordChecks(w, [n \in {m} |-> r])
       /\ cur' = [cur EXCEPT ![w] = [Nothing EXCEPT !.monitor = m,
                                                    !.result = r]]
  /\ phase' = [phase EXCEPT ![w] = "select"]
  /\ UNCHANGED <<rule, status, monitorOf, ticketOf, repeats, origin, tickets,
                 notes, pending, request, lost, faults>>

-----------------------------------------------------------------------------
(* evaluate() has returned or thrown: the sweep goes on with the next      *)
(* entry, the agent's request ends.                                        *)
Return(w) ==
  /\ phase' = [phase EXCEPT ![w] = IF w \in Schedulers THEN "next" ELSE "idle"]
  /\ cur' = [cur EXCEPT ![w] = Nothing]

Goto(w, p, c) ==
  /\ phase' = [phase EXCEPT ![w] = p]
  /\ cur' = [cur EXCEPT ![w] = c]

(* The last Window checks exist and are all bad. *)
AllBad(m) == \A i \in 1..Window : BadStatus(recent[m][i])

AllBreach(m) == \A i \in 1..Window : Breach(recent[m][i])

(* The { isBad, thresholdReached } a rule can yield: computed for status   *)
(* and threshold; an anomaly is judged against a baseline of older         *)
(* samples, which leaves both open except that reached implies bad.        *)
Verdicts(m, result) ==
  CASE rule[m] = "status" ->
         {[bad |-> BadStatus(result), reached |-> FALSE]}
    [] rule[m] = "threshold" ->
         {[bad |-> Breach(recent[m][1]), reached |-> AllBreach(m)]}
    [] OTHER ->
         {v \in [bad : BOOLEAN, reached : BOOLEAN] :
            v.reached => v.bad /\ recent[m][Window] # None}

(* Mutant of ShouldResolve: an acknowledged alert is left to its operator *)
ResolveOnlyOpen(kind, result, a) ==
  (kind # "status" \/ result.status = "up") /\ status[a] = "open"

(* shouldResolve: a status rule waits for a genuine 'up' *)
ShouldResolve(kind, result, a) == kind # "status" \/ result.status = "up"

(* applyToDatabase, its SELECTs of the rule, the metric and the open alert *)
EvalSelect(w) ==
  LET c == cur[w]
      m == c.monitor
      Read(a) == [c EXCEPT !.kind = rule[m], !.alert = a,
                           !.ticket = ticketOf[a], !.count = repeats[a]]
  IN
  /\ phase[w] = "select"
  /\ \/ rule[m] = None /\ Return(w)
     \/ /\ rule[m] # None
        /\ \E v \in Verdicts(m, c.result) :
             \/ /\ ActiveAlerts(m) = {} /\ ~v.bad
                /\ Return(w)
             \/ /\ ActiveAlerts(m) = {} /\ v.bad
                /\ Goto(w, "debounce", [c EXCEPT !.kind = rule[m],
                                                 !.reached = v.reached])
             \/ \E a \in ActiveAlerts(m) :
                  \/ v.bad /\ Goto(w, "repeat", Read(a))
                  \/ /\ ~v.bad /\ ShouldResolve(rule[m], c.result, a)
                     /\ Goto(w, "resolve", Read(a))
                  \/ /\ ~v.bad /\ ~ShouldResolve(rule[m], c.result, a)
                     /\ Return(w)
  /\ UNCHANGED <<dbVars, pending, request, lost, faults>>

ResolvedStatus == "resolved"

(* UPDATE alerts SET status = 'resolved', then the note on its ticket *)
EvalResolve(w) ==
  LET c == cur[w] IN
  /\ phase[w] = "resolve"
  /\ status' = [status EXCEPT ![c.alert] = ResolvedStatus]
  /\ IF c.ticket # None
     THEN Goto(w, "note", [c EXCEPT !.note = "recovery"])
     ELSE Return(w)
  /\ UNCHANGED <<recent, latest, rule, monitorOf, ticketOf, repeats, origin,
                 tickets, notes, pending, request, lost, faults>>

(* repeat_count is written from the value read, not incremented in place   *)
EvalRepeat(w) ==
  LET c == cur[w]
      count == c.count + 1
  IN
  /\ phase[w] = "repeat"
  /\ repeats' = [repeats EXCEPT ![c.alert] = IF count > MaxRepeats THEN @ ELSE count]
  /\ IF c.ticket # None /\ count % NoteEvery = 0
     THEN Goto(w, "note", [c EXCEPT !.note = "repeat"])
     ELSE Return(w)
  /\ UNCHANGED <<recent, latest, rule, status, monitorOf, ticketOf, origin,
                 tickets, notes, pending, request, lost, faults>>

(* Mutant of ThresholdReached: checks that do not exist yet count as bad *)
ReachedEarly(c) ==
  \A i \in 1..Window : LET r == recent[c.monitor][i] IN r = None \/ BadStatus(r)

(* thresholdReached of the kind of rule *)
ThresholdReached(c) ==
  IF c.kind = "status" THEN AllBad(c.monitor) ELSE c.reached

(* Neither an agent's report nor the sweep for silent agents selects       *)
(* min_failing_locations: for server_agent monitors it is 1.               *)
NeedsQuorum(c) ==
  c.kind = "status" /\ c.monitor \notin AgentMonitors /\ MinLocations > 1

EvalDebounce(w) ==
  LET c == cur[w] IN
  /\ phase[w] = "debounce"
  /\ \/ ~ThresholdReached(c) /\ Return(w)
     \/ ThresholdReached(c) /\ NeedsQuorum(c) /\ Goto(w, "quorum", c)
     \/ ThresholdReached(c) /\ ~NeedsQuorum(c) /\ Goto(w, "insert", c)
  /\ UNCHANGED <<dbVars, pending, request, lost, faults>>

(* Mutant of FailingLocations: every location that reported counts *)
AnyLocations(m) == Cardinality({l \in Locations : latest[m][l] # None})

(* failingLocations: locations whose newest check is bad *)
FailingLocations(m) ==
  Cardinality({l \in Locations : BadStatus(latest[m][l])})

EvalQuorum(w) ==
  LET c == cur[w] IN
  /\ phase[w] = "quorum"
  /\ \/ FailingLocations(c.monitor) < MinLocations /\ Return(w)
     \/ FailingLocations(c.monitor) >= MinLocations /\ Goto(w, "insert", c)
  /\ UNCHANGED <<dbVars, pending, request, lost, faults>>

(* Mutant of EvalInsert: no partial unique index *)
EvalInsertUnchecked(w) ==
  LET c == cur[w] IN
  /\ phase[w] = "insert"
  /\ \E a \in FreeAlerts :
       /\ status' = [status EXCEPT ![a] = "open"]
       /\ monitorOf' = [monitorOf EXCEPT ![a] = c.monitor]
       /\ Goto(w, "announce", [c EXCEPT !.alert = a])
  /\ UNCHANGED <<recent, latest, rule, ticketOf, repeats, origin, tickets,
                 notes, pending, request, lost, faults>>

(* INSERT INTO alerts; idx_alerts_one_active_per_monitor makes the loser   *)
(* of a race return 'lost_race'.                                           *)
EvalInsert(w) ==
  LET c == cur[w] IN
  /\ phase[w] = "insert"
  /\ \/ /\ ActiveAlerts(c.monitor) # {}
        /\ Return(w)
        /\ UNCHANGED <<status, monitorOf>>
     \/ /\ ActiveAlerts(c.monitor) = {}
        /\ \E a \in FreeAlerts :
             /\ status' = [status EXCEPT ![a] = "open"]
             /\ monitorOf' = [monitorOf EXCEPT ![a] = c.monitor]
             /\ Goto(w, "announce", [c EXCEPT !.alert = a])
  /\ UNCHANGED <<recent, latest, rule, ticketOf, repeats, origin, tickets,
                 notes, pending, request, lost, faults>>

-----------------------------------------------------------------------------
(* publish(alert.created) *)
Announce(w) ==
  /\ phase[w] = "announce"
  /\ Goto(w, "ticket", cur[w])
  /\ UNCHANGED <<dbVars, pending, request, lost, faults>>

(* linkTicket: POST /internal/tickets/from_alert, answered with the ticket *)
CreateTicket(w) ==
  LET c == cur[w] IN
  /\ phase[w] = "ticket"
  /\ \E t \in FreeTickets :
       /\ tickets' = tickets \cup {t}
       /\ origin' = [origin EXCEPT ![t] = c.alert]
       /\ Goto(w, "link", [c EXCEPT !.ticket = t])
  /\ UNCHANGED <<recent, latest, rule, status, monitorOf, ticketOf, repeats,
                 notes, pending, request, lost, faults>>

(* Mutant of CreateTicketAnswerLost: the call is tried again *)
CreateTicketRetried(w) ==
  LET c == cur[w] IN
  /\ phase[w] = "ticket"
  /\ faults < FaultBudget
  /\ faults' = faults + 1
  /\ \E t \in FreeTickets :
       /\ tickets' = tickets \cup {t}
       /\ origin' = [origin EXCEPT ![t] = c.alert]
  /\ UNCHANGED <<recent, latest, rule, status, monitorOf, ticketOf, repeats,
                 notes, phase, pending, cur, request, lost>>

(* The call creates the ticket and then fails: from_alert adds the first   *)
(* message in a second transaction, and the answer itself can be lost.     *)
CreateTicketAnswerLost(w) ==
  LET c == cur[w] IN
  /\ phase[w] = "ticket"
  /\ faults < FaultBudget
  /\ faults' = faults + 1
  /\ \E t \in FreeTickets :
       /\ tickets' = tickets \cup {t}
       /\ origin' = [origin EXCEPT ![t] = c.alert]
  /\ lost' = lost \cup {c.alert}
  /\ Return(w)
  /\ UNCHANGED <<recent, latest, rule, status, monitorOf, ticketOf, repeats,
                 notes, pending, request>>

(* Mutant of Linkable: only an alert that is still open is linked *)
LinkableOpen(a) == ticketOf[a] = None /\ status[a] = "open"

(* UPDATE alerts SET ticket_id WHERE id AND ticket_id IS NULL *)
Linkable(a) == ticketOf[a] = None

LinkTicket(w) ==
  LET c == cur[w] IN
  /\ phase[w] = "link"
  /\ ticketOf' = IF Linkable(c.alert)
                 THEN [ticketOf EXCEPT ![c.alert] = c.ticket]
                 ELSE ticketOf
  /\ Return(w)
  /\ UNCHANGED <<recent, latest, rule, status, monitorOf, repeats, origin,
                 tickets, notes, pending, request, lost, faults>>

(* postNote *)
PostNote(w) ==
  LET c == cur[w] IN
  /\ phase[w] = "note"
  /\ notes' = [notes EXCEPT ![c.ticket] = @ \cup {c.note}]
  /\ Return(w)
  /\ UNCHANGED <<recent, latest, rule, status, monitorOf, ticketOf, repeats,
                 origin, tickets, pending, request, lost, faults>>

(* Between the alert's INSERT and the UPDATE of its ticket_id *)
Linking == {"announce", "ticket", "link"}

(* A statement, the publish or the call fails: the transaction rolls back  *)
(* and evaluate() throws, or callInternalApi returns null.  Either way the *)
(* sweep goes on, and nothing retries what was left undone.                *)
EvalFails(w) ==
  /\ phase[w] \notin {"idle", "next"}
  /\ faults < FaultBudget
  /\ faults' = faults + 1
  /\ lost' = IF phase[w] \in Linking THEN lost \cup {cur[w].alert} ELSE lost
  /\ Return(w)
  /\ UNCHANGED <<dbVars, pending, request>>

(* The process dies: its sweep is forgotten, the database stays *)
Crash(w) ==
  /\ phase[w] # "idle"
  /\ faults < FaultBudget
  /\ faults' = faults + 1
  /\ lost' = IF phase[w] \in Linking THEN lost \cup {cur[w].alert} ELSE lost
  /\ pending' = [pending EXCEPT ![w] = {}]
  /\ Goto(w, "idle", Nothing)
  /\ UNCHANGED <<dbVars, request>>

-----------------------------------------------------------------------------
AllowedFrom(do) ==
  CASE do = "acknowledged" -> {"open"}
    [] do = "resolved"     -> {"open", "acknowledged"}

(* transition: the SELECT and its check of allowedFrom *)
TransitionSelect(o) ==
  /\ request[o].do = "idle"
  /\ \E do \in {"acknowledged", "resolved"}, a \in Alerts :
       /\ status[a] \in AllowedFrom(do)
       /\ request' = [request EXCEPT ![o] = [Idle EXCEPT !.do = do, !.alert = a]]
  /\ UNCHANGED <<dbVars, phase, pending, cur, lost, faults>>

(* transition: UPDATE ... WHERE id, which the partial unique index rejects *)
(* when it would make a second alert of the monitor active.                *)
TransitionUpdate(o) ==
  LET q == request[o]
      a == q.alert
  IN
  /\ q.do \in {"acknowledged", "resolved"}
  /\ status' = IF q.do \in Active /\ ActiveAlerts(monitorOf[a]) \ {a} # {}
               THEN status
               ELSE [status EXCEPT ![a] = q.do]
  /\ request' = [request EXCEPT ![o] = Idle]
  /\ UNCHANGED <<recent, latest, rule, monitorOf, ticketOf, repeats, origin,
                 tickets, notes, phase, pending, cur, lost, faults>>

(* AlertsService.linkTicket: the SELECTs of the alert and of the ticket *)
ManualLinkSelect(o) ==
  /\ request[o].do = "idle"
  /\ \E a \in Alerts, t \in tickets :
       /\ status[a] # "free"
       /\ ticketOf[a] = None
       /\ request' = [request EXCEPT
            ![o] = [do |-> "link", alert |-> a, ticket |-> t]]
  /\ UNCHANGED <<dbVars, phase, pending, cur, lost, faults>>

(* AlertsService.linkTicket: UPDATE ... WHERE id *)
ManualLinkUpdate(o) ==
  LET q == request[o] IN
  /\ q.do = "link"
  /\ ticketOf' = [ticketOf EXCEPT ![q.alert] = q.ticket]
  /\ request' = [request EXCEPT ![o] = Idle]
  /\ UNCHANGED <<recent, latest, rule, status, monitorOf, repeats, origin,
                 tickets, notes, phase, pending, cur, lost, faults>>

(* AlertRulesService create, update, remove *)
SetRule(m) ==
  /\ \E k \in (RuleKinds \cup {None}) \ {rule[m]} :
       rule' = [rule EXCEPT ![m] = k]
  /\ UNCHANGED <<recent, latest, status, monitorOf, ticketOf, repeats, origin,
                 tickets, notes, phase, pending, cur, request, lost, faults>>

-----------------------------------------------------------------------------
Evaluate(w) ==
  \/ EvalSelect(w) \/ EvalResolve(w) \/ EvalRepeat(w) \/ EvalDebounce(w)
  \/ EvalQuorum(w) \/ EvalInsert(w) \/ Announce(w) \/ CreateTicket(w)
  \/ LinkTicket(w) \/ PostNote(w)

Fault(w) == EvalFails(w) \/ Crash(w) \/ CreateTicketAnswerLost(w)

Operate(o) ==
  \/ TransitionSelect(o) \/ TransitionUpdate(o)
  \/ ManualLinkSelect(o) \/ ManualLinkUpdate(o)

Next ==
  \/ \E w \in Schedulers : StartSweep(w) \/ NextEntry(w) \/ FinishSweep(w)
                             \/ PublishCheckFails(w)
  \/ \E w \in Agents : Report(w)
  \/ \E w \in Workers : Evaluate(w) \/ Fault(w)
  \/ \E o \in Operators : Operate(o)
  \/ \E m \in Monitors : SetRule(m)

Spec == Init /\ [][Next]_vars

(* setInterval keeps starting sweeps, and a started sweep or request runs  *)
(* on until it ends or fails; agents, users and faults promise nothing.    *)
Fairness ==
  /\ \A w \in Schedulers : WF_vars(StartSweep(w) \/ NextEntry(w) \/ FinishSweep(w))
  /\ \A w \in Workers : WF_vars(Evaluate(w))
  /\ \A o \in Operators : WF_vars(TransitionUpdate(o) \/ ManualLinkUpdate(o))

FairSpec == Spec /\ Fairness

-----------------------------------------------------------------------------
(* What a worker can hold *)
Contexts ==
  [monitor : Monitors \cup {None}, result : Results \cup {None},
   kind : RuleKinds \cup {None}, reached : BOOLEAN,
   alert : Alerts \cup {None}, ticket : Tickets \cup {None},
   count : Nat, note : {None, "repeat", "recovery"}]

(* Every variable stays in its type. *)
TypeOK ==
  /\ recent \in [Monitors -> [1..Window -> Results \cup {None}]]
  /\ latest \in [Monitors -> [Locations -> Results \cup {None}]]
  /\ rule \in [Monitors -> RuleKinds \cup {None}]
  /\ status \in [Alerts -> {"free", "open", "acknowledged", "resolved"}]
  /\ monitorOf \in [Alerts -> Monitors \cup {None}]
  /\ ticketOf \in [Alerts -> Tickets \cup {None}]
  /\ repeats \in [Alerts -> Nat]
  /\ origin \in [Tickets -> Alerts \cup {None}]
  /\ tickets \in SUBSET Tickets
  /\ notes \in [Tickets -> SUBSET {"repeat", "recovery"}]
  /\ phase \in [Workers -> Phases]
  /\ pending \in [Workers -> SUBSET Entries]
  /\ cur \in [Workers -> Contexts]
  /\ request \in [Operators ->
        [do : {"idle", "acknowledged", "resolved", "link"},
         alert : Alerts \cup {None}, ticket : Tickets \cup {None}]]
  /\ lost \in SUBSET Alerts
  /\ faults \in 0..FaultBudget

(* What a worker carries in each phase, and a request once it has read. *)
Fits(p, c) ==
  /\ p \notin {"idle", "next"} => c.monitor \in Monitors
  /\ p \in {"resolve", "repeat"} \cup Linking => c.alert \in Alerts
  /\ p \in {"note", "link"} => c.ticket \in Tickets
  /\ p = "note" => c.note \in {"repeat", "recovery"}

RequestFits(q) ==
  /\ q.do # "idle" => q.alert \in Alerts
  /\ q.do = "link" => q.ticket \in Tickets

ShapeOK ==
  /\ TypeOK
  /\ \A w \in Workers : Fits(phase[w], cur[w])
  /\ \A o \in Operators : RequestFits(request[o])

(* Rows that an evaluation or a request works on exist. *)
WorkedRowsExist ==
  \A w \in Workers : phase[w] \in {"resolve", "repeat"} \cup Linking
    => status[cur[w].alert] # "free"

RequestedRowsExist ==
  \A o \in Operators : request[o].do # "idle" => status[request[o].alert] # "free"

(* At most one evaluation is on its way to link an alert, and no ticket    *)
(* exists for the alert before it asks for one.                            *)
OneLinker ==
  \A v, w \in Workers :
    phase[v] \in Linking /\ phase[w] \in Linking /\ cur[v].alert = cur[w].alert
      => v = w

NoTicketYet ==
  \A w \in Workers, t \in Tickets :
    phase[w] \in {"announce", "ticket"} => origin[t] # cur[w].alert

OriginsExist ==
  \A t \in Tickets : origin[t] # None
    => t \in tickets /\ status[origin[t]] # "free"

(* However evaluations and operators' transitions interleave, a monitor    *)
(* never has two alerts that are open or acknowledged (applyToDatabase and *)
(* transition write with what they read before; the index stops them).     *)
OneActivePerMonitor ==
  \A a, b \in Alerts :
    /\ status[a] \in Active
    /\ status[b] \in Active
    /\ monitorOf[a] = monitorOf[b]
    => a = b

(* "One alert creates at most one ticket": no two tickets were ever        *)
(* created for the same alert, whatever fails or crashes in evaluate().    *)
AtMostOneTicketPerAlert ==
  \A t, u \in Tickets : origin[t] # None /\ origin[t] = origin[u] => t = u

(* An alert is without a ticket only while one evaluation is still on its  *)
(* way to link it, or because that evaluation failed: an alert never stays *)
(* unlinked without a logged failure.                                      *)
UnlinkedIsAccountedFor ==
  \A a \in Alerts :
    status[a] # "free" /\ ticketOf[a] = None
      => \/ a \in lost
         \/ \E w \in Workers : phase[w] \in Linking /\ cur[w].alert = a

(* The inductive strengthening of the two properties above. *)
LinkInv ==
  /\ WorkedRowsExist
  /\ RequestedRowsExist
  /\ OneLinker
  /\ NoTicketYet
  /\ OriginsExist
  /\ AtMostOneTicketPerAlert
  /\ UnlinkedIsAccountedFor

(* When one instance alone checks a monitor under a status rule, an alert  *)
(* opens only while the last Window recorded checks are all bad: the       *)
(* debounce read by the evaluation still describes the monitor at INSERT.  *)
OpensWhileStillFailing ==
  [][\A a \in Alerts : status[a] = "free" /\ status'[a] = "open"
       => AllBad(monitorOf'[a])]_vars

(* False-positive suppression: when fewer locations than                   *)
(* min_failing_locations ever see a failure, no evaluation of a status     *)
(* rule opens an alert for a monitor that is polled, however the workers   *)
(* interleave and the rule is edited meanwhile.  Metric rules have no      *)
(* quorum, and of a server_agent monitor no evaluation reads the column:   *)
(* there "at least that many distinct locations" is not what happens.      *)
FewLocationsNeverAlert ==
  [][Cardinality({l \in Locations : \E r \in ResultsAt[l] : BadStatus(r)})
       < MinLocations
     => \A w \in Workers, a \in Alerts :
          phase[w] = "insert" /\ phase'[w] = "announce" /\ status[a] = "free"
            /\ status'[a] = "open" /\ cur[w].monitor \notin AgentMonitors
            => cur[w].kind # "status"]_vars

(* What transition's check of allowedFrom promises: nothing brings a       *)
(* resolved alert back ("cannot move to 'acknowledged' from 'resolved'").  *)
ResolvedIsFinal ==
  [][\A a \in Alerts : status[a] = "resolved" => status'[a] = "resolved"]_vars

(* Once a monitor under a status rule stays up, its alerts get resolved    *)
(* for good, including one that a stale evaluation opened or a stale       *)
(* acknowledgement reopened after the recovery.  (A free row: the bound.)  *)
ClearsAfterRecovery ==
  \A m \in Monitors :
    <>[](/\ rule[m] = "status"
         /\ \A i \in 1..Window : recent[m][i] # None /\ recent[m][i].status = "up"
         /\ FreeAlerts # {})
      => <>[](ActiveAlerts(m) = {})

(* Every alert that is created gets its ticket, or its evaluation failed.  *)
AlertGetsTicket ==
  \A a \in Alerts :
    status[a] # "free" ~> (ticketOf[a] # None \/ a \in lost)

=============================================================================
