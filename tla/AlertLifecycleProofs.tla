------------------------ MODULE AlertLifecycleProofs ------------------------
(***************************************************************************)
(* Theorems about AlertLifecycle, for every set of monitors, instances,    *)
(* agents, operators, rows and results, and every debounce window, quorum  *)
(* and number of faults.                                                   *)
(***************************************************************************)
EXTENDS AlertLifecycle, FiniteSetTheorems, TLAPS

(* The parts of ShapeOK that an action touches or leaves alone together. *)
ChecksOK ==
  /\ recent \in [Monitors -> [1..Window -> Results \cup {None}]]
  /\ latest \in [Monitors -> [Locations -> Results \cup {None}]]

AlertsOK ==
  /\ status \in [Alerts -> {"free", "open", "acknowledged", "resolved"}]
  /\ monitorOf \in [Alerts -> Monitors \cup {None}]
  /\ ticketOf \in [Alerts -> Tickets \cup {None}]
  /\ repeats \in [Alerts -> Nat]

TicketsOK ==
  /\ origin \in [Tickets -> Alerts \cup {None}]
  /\ tickets \in SUBSET Tickets
  /\ notes \in [Tickets -> SUBSET {"repeat", "recovery"}]

WorkersOK ==
  /\ phase \in [Workers -> Phases]
  /\ cur \in [Workers -> Contexts]
  /\ \A w \in Workers : Fits(phase[w], cur[w])

RequestsOK ==
  /\ request \in [Operators ->
        [do : {"idle", "acknowledged", "resolved", "link"},
         alert : Alerts \cup {None}, ticket : Tickets \cup {None}]]
  /\ \A o \in Operators : RequestFits(request[o])

RestOK ==
  /\ rule \in [Monitors -> RuleKinds \cup {None}]
  /\ pending \in [Workers -> SUBSET Entries]
  /\ lost \in SUBSET Alerts
  /\ faults \in 0..FaultBudget

LEMMA ShapeParts ==
  ShapeOK <=> /\ ChecksOK /\ AlertsOK /\ TicketsOK
              /\ WorkersOK /\ RequestsOK /\ RestOK
BY DEF ShapeOK, TypeOK, ChecksOK, AlertsOK, TicketsOK, WorkersOK, RequestsOK,
       RestOK

LEMMA ShapePartsNext ==
  ShapeOK' <=> /\ ChecksOK' /\ AlertsOK' /\ TicketsOK'
               /\ WorkersOK' /\ RequestsOK' /\ RestOK'
BY DEF ShapeOK, TypeOK, ChecksOK, AlertsOK, TicketsOK, WorkersOK, RequestsOK,
       RestOK

-----------------------------------------------------------------------------
(* A result a worker's location can see is a result. *)
LEMMA LocationOfWorker ==
  ASSUME NEW w \in Workers
  PROVE  LocationOf[w] \in Locations /\ ResultsAt[LocationOf[w]] \subseteq Results
BY ConfigAssumption DEF Results

(* Recording a batch keeps the two views of monitor_checks well-formed. *)
LEMMA RecordChecksType ==
  ASSUME ChecksOK, NEW w \in Workers, NEW due \in SUBSET Monitors,
         NEW batch \in [due -> ResultsAt[LocationOf[w]]],
         RecordChecks(w, batch)
  PROVE  ChecksOK'
<1>1. \A m \in due : batch[m] \in Results
  BY LocationOfWorker
<1>2. recent' \in [Monitors -> [1..Window -> Results \cup {None}]]
  <2>1. ASSUME NEW m \in Monitors, NEW i \in 1..Window, i # 1
        PROVE  recent[m][i-1] \in Results \cup {None}
    <3>1. i - 1 \in 1..Window
      BY <2>1, ConfigAssumption
    <3>2. QED BY <3>1 DEF ChecksOK
  <2>2. ASSUME NEW m \in Monitors
        PROVE  (IF m \in DOMAIN batch
                THEN [i \in 1..Window |-> IF i = 1 THEN batch[m] ELSE recent[m][i-1]]
                ELSE recent[m]) \in [1..Window -> Results \cup {None}]
    <3>1. CASE m \in DOMAIN batch
      <4>1. batch[m] \in Results
        BY <1>1, <3>1
      <4>2. QED BY <2>1, <3>1, <4>1
    <3>2. CASE m \notin DOMAIN batch
      BY <3>2 DEF ChecksOK
    <3>3. QED BY <3>1, <3>2
  <2>3. QED BY <2>2 DEF RecordChecks
<1>3. latest' \in [Monitors -> [Locations -> Results \cup {None}]]
  BY <1>1, LocationOfWorker DEF RecordChecks, ChecksOK
<1>4. QED BY <1>2, <1>3 DEF ChecksOK

(* What an evaluation keeps while it runs has the right shape. *)
LEMMA NothingFits ==
  Nothing \in Contexts /\ Fits("idle", Nothing) /\ Fits("next", Nothing)
BY DEF Nothing, Contexts, Fits, Linking

LEMMA ContextFields ==
  ASSUME NEW c \in Contexts
  PROVE  /\ c.monitor \in Monitors \cup {None}
         /\ c.kind \in RuleKinds \cup {None}
         /\ c.reached \in BOOLEAN
         /\ c.alert \in Alerts \cup {None}
         /\ c.ticket \in Tickets \cup {None}
         /\ c.count \in Nat
         /\ c.note \in {None, "repeat", "recovery"}
BY DEF Contexts

LEMMA GotoOK ==
  ASSUME WorkersOK, NEW w \in Workers, NEW p \in Phases, NEW c \in Contexts,
         Fits(p, c), Goto(w, p, c)
  PROVE  WorkersOK'
BY DEF Goto, WorkersOK

LEMMA ReturnOK ==
  ASSUME WorkersOK, NEW w \in Workers, Return(w)
  PROVE  WorkersOK'
BY NothingFits DEF Return, WorkersOK, Phases

(* Verdicts yields Booleans. *)
LEMMA VerdictsType ==
  ASSUME NEW m, NEW r, NEW v \in Verdicts(m, r)
  PROVE  v.reached \in BOOLEAN
<1>1. CASE rule[m] = "status"
  <2>1. Verdicts(m, r) = {[bad |-> BadStatus(r), reached |-> FALSE]}
    BY <1>1, Zenon DEF Verdicts
  <2>2. v = [bad |-> BadStatus(r), reached |-> FALSE]
    BY <2>1, Zenon
  <2>3. v.reached = FALSE
    BY <2>2, Zenon
  <2>4. QED BY <2>3
<1>2. CASE rule[m] # "status" /\ rule[m] = "threshold"
  <2>1. AllBreach(m) \in BOOLEAN
    BY DEF AllBreach
  <2>2. v = [bad |-> Breach(recent[m][1]), reached |-> AllBreach(m)]
    BY <1>2 DEF Verdicts
  <2>3. v.reached = AllBreach(m)
    BY <2>2, Zenon
  <2>4. QED BY <2>1, <2>3, Zenon
<1>3. CASE rule[m] # "status" /\ rule[m] # "threshold"
  BY <1>3 DEF Verdicts
<1>4. QED BY <1>1, <1>2, <1>3

-----------------------------------------------------------------------------
LEMMA EvaluateShape ==
  ASSUME ShapeOK, NEW w \in Workers, Evaluate(w)
  PROVE  ShapeOK'
<1> DEFINE c == cur[w]
<1>a. ChecksOK /\ AlertsOK /\ TicketsOK /\ WorkersOK /\ RequestsOK /\ RestOK
  BY ShapeParts
<1>b. c \in Contexts /\ Fits(phase[w], c)
  BY <1>a DEF WorkersOK
<1>1. CASE EvalSelect(w)
  <2>1. c.monitor \in Monitors /\ rule[c.monitor] \in RuleKinds \cup {None}
    BY <1>1, <1>a, <1>b DEF EvalSelect, Fits, RestOK
  <2>2. ASSUME NEW v \in Verdicts(c.monitor, c.result)
        PROVE  LET d == [c EXCEPT !.kind = rule[c.monitor], !.reached = v.reached]
               IN d \in Contexts /\ Fits("debounce", d)
    <3>1. v.reached \in BOOLEAN
      BY VerdictsType
    <3>2. QED BY <1>b, <2>1, <3>1 DEF Contexts, Fits, Linking
  <2>3. ASSUME NEW a \in Alerts
        PROVE  LET d == [c EXCEPT !.kind = rule[c.monitor], !.alert = a,
                                  !.ticket = ticketOf[a], !.count = repeats[a]]
               IN d \in Contexts /\ Fits("repeat", d) /\ Fits("resolve", d)
    <3>1. ticketOf[a] \in Tickets \cup {None} /\ repeats[a] \in Nat
      BY <1>a DEF AlertsOK
    <3>2. QED BY <1>b, <2>1, <3>1 DEF Contexts, Fits, Linking
  <2>4. {"debounce", "repeat", "resolve"} \subseteq Phases
    BY DEF Phases
  <2>5. \/ Return(w)
        \/ \E v \in Verdicts(c.monitor, c.result) :
             Goto(w, "debounce", [c EXCEPT !.kind = rule[c.monitor],
                                           !.reached = v.reached])
        \/ \E a \in Alerts, p \in {"repeat", "resolve"} :
             Goto(w, p, [c EXCEPT !.kind = rule[c.monitor], !.alert = a,
                                  !.ticket = ticketOf[a], !.count = repeats[a]])
    BY <1>1 DEF EvalSelect, ActiveAlerts
  <2>6. WorkersOK'
    <3>1. CASE Return(w)
      BY <3>1, <1>a, ReturnOK
    <3>2. CASE \E v \in Verdicts(c.monitor, c.result) :
                 Goto(w, "debounce", [c EXCEPT !.kind = rule[c.monitor],
                                               !.reached = v.reached])
      <4>1. PICK v \in Verdicts(c.monitor, c.result) :
              Goto(w, "debounce", [c EXCEPT !.kind = rule[c.monitor],
                                            !.reached = v.reached])
        BY <3>2
      <4> DEFINE d == [c EXCEPT !.kind = rule[c.monitor], !.reached = v.reached]
      <4>2. d \in Contexts /\ Fits("debounce", d)
        BY <2>2
      <4>3. Goto(w, "debounce", d)
        BY <4>1
      <4> HIDE DEF d
      <4>4. QED BY <1>a, <2>4, <4>2, <4>3, GotoOK
    <3>3. CASE \E a \in Alerts, p \in {"repeat", "resolve"} :
                 Goto(w, p, [c EXCEPT !.kind = rule[c.monitor], !.alert = a,
                                      !.ticket = ticketOf[a], !.count = repeats[a]])
      <4>1. PICK a \in Alerts, p \in {"repeat", "resolve"} :
              Goto(w, p, [c EXCEPT !.kind = rule[c.monitor], !.alert = a,
                                   !.ticket = ticketOf[a], !.count = repeats[a]])
        BY <3>3
      <4> DEFINE d == [c EXCEPT !.kind = rule[c.monitor], !.alert = a,
                                !.ticket = ticketOf[a], !.count = repeats[a]]
      <4>2. d \in Contexts /\ Fits("repeat", d) /\ Fits("resolve", d)
        BY <2>3
      <4>3. Goto(w, p, d)
        BY <4>1
      <4>4. p \in Phases /\ Fits(p, d)
        BY <2>4, <4>2
      <4> HIDE DEF d
      <4>5. QED BY <1>a, <4>2, <4>3, <4>4, GotoOK
    <3>4. QED BY <2>5, <3>1, <3>2, <3>3
  <2>7. ChecksOK' /\ AlertsOK' /\ TicketsOK' /\ RequestsOK' /\ RestOK'
    BY <1>1, <1>a
    DEF EvalSelect, dbVars, ChecksOK, AlertsOK, TicketsOK, RequestsOK, RestOK
  <2>8. QED BY <2>6, <2>7, ShapePartsNext
<1>2. CASE EvalResolve(w)
  <2>1. WorkersOK'
    <3>1. ASSUME c.ticket # None
          PROVE  LET d == [c EXCEPT !.note = "recovery"]
                 IN d \in Contexts /\ Fits("note", d) /\ "note" \in Phases
      BY <1>2, <1>b, <3>1 DEF Contexts, Fits, Linking, Phases, EvalResolve
    <3>2. QED BY <1>2, <1>a, <3>1, GotoOK, ReturnOK DEF EvalResolve
  <2>2. AlertsOK'
    BY <1>2, <1>a DEF EvalResolve, ResolvedStatus, AlertsOK
  <2>3. ChecksOK' /\ TicketsOK' /\ RequestsOK' /\ RestOK'
    BY <1>2, <1>a DEF EvalResolve, ChecksOK, TicketsOK, RequestsOK, RestOK
  <2>4. QED BY <2>1, <2>2, <2>3, ShapePartsNext
<1>3. CASE EvalRepeat(w)
  <2>1. WorkersOK'
    <3>1. ASSUME c.ticket # None
          PROVE  LET d == [c EXCEPT !.note = "repeat"]
                 IN d \in Contexts /\ Fits("note", d) /\ "note" \in Phases
      BY <1>3, <1>b, <3>1 DEF Contexts, Fits, Linking, Phases, EvalRepeat
    <3>2. QED BY <1>3, <1>a, <3>1, GotoOK, ReturnOK DEF EvalRepeat
  <2>2. AlertsOK'
    <3>1. c.count + 1 \in Nat
      BY <1>b, ContextFields
    <3>2. QED BY <1>3, <1>a, <3>1 DEF EvalRepeat, AlertsOK
  <2>3. ChecksOK' /\ TicketsOK' /\ RequestsOK' /\ RestOK'
    BY <1>3, <1>a DEF EvalRepeat, ChecksOK, TicketsOK, RequestsOK, RestOK
  <2>4. QED BY <2>1, <2>2, <2>3, ShapePartsNext
<1>4. CASE EvalDebounce(w) \/ EvalQuorum(w)
  <2>1. Fits("quorum", c) /\ Fits("insert", c)
        /\ "quorum" \in Phases /\ "insert" \in Phases
    BY <1>4, <1>b DEF EvalDebounce, EvalQuorum, Fits, Linking, Phases
  <2>2. Return(w) \/ Goto(w, "quorum", c) \/ Goto(w, "insert", c)
    BY <1>4 DEF EvalDebounce, EvalQuorum
  <2>3. WorkersOK'
    BY <1>a, <1>b, <2>1, <2>2, GotoOK, ReturnOK
  <2>4. ChecksOK' /\ AlertsOK' /\ TicketsOK' /\ RequestsOK' /\ RestOK'
    BY <1>4, <1>a
    DEF EvalDebounce, EvalQuorum, dbVars, ChecksOK, AlertsOK, TicketsOK,
        RequestsOK, RestOK
  <2>5. QED BY <2>3, <2>4, ShapePartsNext
<1>5. CASE EvalInsert(w)
  <2>1. ChecksOK' /\ TicketsOK' /\ RequestsOK' /\ RestOK'
    BY <1>5, <1>a DEF EvalInsert, ChecksOK, TicketsOK, RequestsOK, RestOK
  <2>2. CASE Return(w) /\ UNCHANGED <<status, monitorOf>>
    <3>1. AlertsOK'
      BY <1>5, <1>a, <2>2 DEF EvalInsert, AlertsOK
    <3>2. QED BY <1>a, <2>1, <2>2, <3>1, ReturnOK, ShapePartsNext
  <2>3. CASE \E a \in FreeAlerts :
               /\ status' = [status EXCEPT ![a] = "open"]
               /\ monitorOf' = [monitorOf EXCEPT ![a] = c.monitor]
               /\ Goto(w, "announce", [c EXCEPT !.alert = a])
    <3>1. PICK a \in Alerts :
               /\ status' = [status EXCEPT ![a] = "open"]
               /\ monitorOf' = [monitorOf EXCEPT ![a] = c.monitor]
               /\ Goto(w, "announce", [c EXCEPT !.alert = a])
      BY <2>3 DEF FreeAlerts
    <3>2. LET d == [c EXCEPT !.alert = a]
          IN d \in Contexts /\ Fits("announce", d) /\ "announce" \in Phases
      BY <1>5, <1>b DEF EvalInsert, Contexts, Fits, Linking, Phases
    <3>3. WorkersOK'
      BY <1>a, <3>1, <3>2, GotoOK
    <3>4. AlertsOK'
      BY <1>5, <1>a, <1>b, <3>1, ContextFields DEF EvalInsert, AlertsOK
    <3>5. QED BY <2>1, <3>3, <3>4, ShapePartsNext
  <2>4. QED BY <1>5, <2>2, <2>3 DEF EvalInsert
<1>6. CASE Announce(w)
  <2>1. Fits("ticket", c) /\ "ticket" \in Phases
    BY <1>6, <1>b DEF Announce, Fits, Linking, Phases
  <2>2. WorkersOK'
    BY <1>6, <1>a, <1>b, <2>1, GotoOK DEF Announce
  <2>3. ChecksOK' /\ AlertsOK' /\ TicketsOK' /\ RequestsOK' /\ RestOK'
    BY <1>6, <1>a
    DEF Announce, dbVars, ChecksOK, AlertsOK, TicketsOK, RequestsOK, RestOK
  <2>4. QED BY <2>2, <2>3, ShapePartsNext
<1>7. CASE CreateTicket(w)
  <2>1. PICK t \in Tickets :
          /\ tickets' = tickets \cup {t}
          /\ origin' = [origin EXCEPT ![t] = c.alert]
          /\ Goto(w, "link", [c EXCEPT !.ticket = t])
    BY <1>7 DEF CreateTicket, FreeTickets
  <2>2. LET d == [c EXCEPT !.ticket = t]
        IN d \in Contexts /\ Fits("link", d) /\ "link" \in Phases
    BY <1>7, <1>b DEF CreateTicket, Contexts, Fits, Linking, Phases
  <2>3. WorkersOK'
    BY <1>a, <2>1, <2>2, GotoOK
  <2>4. TicketsOK'
    BY <1>7, <1>a, <1>b, <2>1, ContextFields DEF CreateTicket, TicketsOK
  <2>5. ChecksOK' /\ AlertsOK' /\ RequestsOK' /\ RestOK'
    BY <1>7, <1>a DEF CreateTicket, ChecksOK, AlertsOK, RequestsOK, RestOK
  <2>6. QED BY <2>3, <2>4, <2>5, ShapePartsNext
<1>8. CASE LinkTicket(w)
  <2>1. WorkersOK'
    BY <1>8, <1>a, ReturnOK DEF LinkTicket
  <2>2. AlertsOK'
    BY <1>8, <1>a, <1>b, ContextFields DEF LinkTicket, AlertsOK
  <2>3. ChecksOK' /\ TicketsOK' /\ RequestsOK' /\ RestOK'
    BY <1>8, <1>a DEF LinkTicket, ChecksOK, TicketsOK, RequestsOK, RestOK
  <2>4. QED BY <2>1, <2>2, <2>3, ShapePartsNext
<1>9. CASE PostNote(w)
  <2>1. WorkersOK'
    BY <1>9, <1>a, ReturnOK DEF PostNote
  <2>2. TicketsOK'
    <3>1. c.note \in {"repeat", "recovery"}
      BY <1>9, <1>b DEF PostNote, Fits
    <3>2. QED BY <1>9, <1>a, <3>1 DEF PostNote, TicketsOK
  <2>3. ChecksOK' /\ AlertsOK' /\ RequestsOK' /\ RestOK'
    BY <1>9, <1>a DEF PostNote, ChecksOK, AlertsOK, RequestsOK, RestOK
  <2>4. QED BY <2>1, <2>2, <2>3, ShapePartsNext
<1>10. QED
  BY <1>1, <1>2, <1>3, <1>4, <1>5, <1>6, <1>7, <1>8, <1>9 DEF Evaluate

LEMMA SweepShape ==
  ASSUME ShapeOK, NEW w \in Schedulers,
         StartSweep(w) \/ NextEntry(w) \/ FinishSweep(w) \/ PublishCheckFails(w)
  PROVE  ShapeOK'
<1>a. ChecksOK /\ AlertsOK /\ TicketsOK /\ WorkersOK /\ RequestsOK /\ RestOK
  BY ShapeParts
<1>b. w \in Workers /\ {"idle", "next", "select"} \subseteq Phases
  BY DEF Workers, Phases
<1>1. CASE StartSweep(w)
  <2>1. PICK due \in (SUBSET Monitors) \ {{}} :
          \E batch \in [due -> ResultsAt[LocationOf[w]]] :
            /\ RecordChecks(w, batch)
            /\ pending' = [pending EXCEPT ![w] = {<<m, batch[m]>> : m \in due}]
    BY <1>1 DEF StartSweep
  <2>2. PICK batch \in [due -> ResultsAt[LocationOf[w]]] :
            /\ RecordChecks(w, batch)
            /\ pending' = [pending EXCEPT ![w] = {<<m, batch[m]>> : m \in due}]
    BY <2>1
  <2>3. ChecksOK'
    BY <1>a, <1>b, <2>1, <2>2, RecordChecksType
  <2>4. {<<m, batch[m]>> : m \in due} \subseteq Entries
    BY <1>b, <2>1, <2>2, LocationOfWorker DEF Entries
  <2>5. RestOK'
    BY <1>1, <1>a, <2>2, <2>4 DEF RestOK, StartSweep
  <2>6. WorkersOK'
    <3>1. Fits("next", cur[w])
      BY DEF Fits, Linking
    <3>2. QED BY <1>1, <1>a, <1>b, <3>1 DEF StartSweep, WorkersOK
  <2>7. AlertsOK' /\ TicketsOK' /\ RequestsOK'
    BY <1>1, <1>a DEF StartSweep, AlertsOK, TicketsOK, RequestsOK
  <2>8. QED BY <2>3, <2>5, <2>6, <2>7, ShapePartsNext
<1>2. CASE NextEntry(w)
  <2>1. PICK e \in pending[w] :
          /\ pending' = [pending EXCEPT ![w] = @ \ {e}]
          /\ cur' = [cur EXCEPT ![w] = [Nothing EXCEPT !.monitor = e[1],
                                                       !.result = e[2]]]
    BY <1>2 DEF NextEntry
  <2>2. e[1] \in Monitors /\ e[2] \in Results
    BY <1>a, <1>b, <2>1 DEF RestOK, Entries
  <2>3. LET d == [Nothing EXCEPT !.monitor = e[1], !.result = e[2]]
        IN d \in Contexts /\ Fits("select", d)
    BY <2>2 DEF Nothing, Contexts, Fits, Linking
  <2>4. WorkersOK'
    BY <1>2, <1>a, <1>b, <2>1, <2>3 DEF NextEntry, WorkersOK
  <2>5. RestOK'
    BY <1>2, <1>a, <1>b, <2>1 DEF NextEntry, RestOK, dbVars
  <2>6. ChecksOK' /\ AlertsOK' /\ TicketsOK' /\ RequestsOK'
    BY <1>2, <1>a DEF NextEntry, dbVars, ChecksOK, AlertsOK, TicketsOK, RequestsOK
  <2>7. QED BY <2>4, <2>5, <2>6, ShapePartsNext
<1>3. CASE FinishSweep(w) \/ PublishCheckFails(w)
  <2>1. WorkersOK'
    <3>1. Fits("idle", cur[w])
      BY DEF Fits, Linking
    <3>2. QED BY <1>3, <1>a, <1>b, <3>1 DEF FinishSweep, PublishCheckFails, WorkersOK
  <2>2. RestOK'
    BY <1>3, <1>a, ConfigAssumption
    DEF FinishSweep, PublishCheckFails, RestOK, dbVars
  <2>3. ChecksOK' /\ AlertsOK' /\ TicketsOK' /\ RequestsOK'
    BY <1>3, <1>a
    DEF FinishSweep, PublishCheckFails, dbVars, ChecksOK, AlertsOK, TicketsOK,
        RequestsOK
  <2>4. QED BY <2>1, <2>2, <2>3, ShapePartsNext
<1>4. QED BY <1>1, <1>2, <1>3

LEMMA ReportShape ==
  ASSUME ShapeOK, NEW w \in Agents, Report(w)
  PROVE  ShapeOK'
<1>a. ChecksOK /\ AlertsOK /\ TicketsOK /\ WorkersOK /\ RequestsOK /\ RestOK
  BY ShapeParts
<1>b. w \in Workers /\ "select" \in Phases
  BY DEF Workers, Phases
<1>1. PICK m \in Monitors, r \in ResultsAt[LocationOf[w]] :
        /\ RecordChecks(w, [n \in {m} |-> r])
        /\ cur' = [cur EXCEPT ![w] = [Nothing EXCEPT !.monitor = m,
                                                     !.result = r]]
  BY ConfigAssumption DEF Report
<1>2. ChecksOK'
  <2>1. {m} \in SUBSET Monitors /\ [n \in {m} |-> r] \in [{m} -> ResultsAt[LocationOf[w]]]
    OBVIOUS
  <2>2. QED BY <1>a, <1>b, <1>1, <2>1, RecordChecksType
<1>3. LET d == [Nothing EXCEPT !.monitor = m, !.result = r]
      IN d \in Contexts /\ Fits("select", d)
  BY <1>b, <1>1, LocationOfWorker DEF Nothing, Contexts, Fits, Linking
<1>4. WorkersOK'
  BY <1>a, <1>b, <1>1, <1>3 DEF Report, WorkersOK
<1>5. AlertsOK' /\ TicketsOK' /\ RequestsOK' /\ RestOK'
  BY <1>a DEF Report, AlertsOK, TicketsOK, RequestsOK, RestOK
<1>6. QED BY <1>2, <1>4, <1>5, ShapePartsNext

LEMMA FaultShape ==
  ASSUME ShapeOK, NEW w \in Workers, Fault(w)
  PROVE  ShapeOK'
<1>a. ChecksOK /\ AlertsOK /\ TicketsOK /\ WorkersOK /\ RequestsOK /\ RestOK
  BY ShapeParts
<1>b. phase[w] \in Linking => cur[w].alert \in Alerts
  BY <1>a DEF WorkersOK, Fits
<1>1. CASE EvalFails(w)
  <2>1. WorkersOK'
    BY <1>1, <1>a, ReturnOK DEF EvalFails
  <2>2. RestOK'
    BY <1>1, <1>a, <1>b, ConfigAssumption DEF EvalFails, RestOK, dbVars
  <2>3. ChecksOK' /\ AlertsOK' /\ TicketsOK' /\ RequestsOK'
    BY <1>1, <1>a DEF EvalFails, dbVars, ChecksOK, AlertsOK, TicketsOK, RequestsOK
  <2>4. QED BY <2>1, <2>2, <2>3, ShapePartsNext
<1>2. CASE Crash(w)
  <2>1. WorkersOK'
    BY <1>2, <1>a, NothingFits, GotoOK DEF Crash, Phases
  <2>2. RestOK'
    BY <1>2, <1>a, <1>b, ConfigAssumption DEF Crash, RestOK, dbVars
  <2>3. ChecksOK' /\ AlertsOK' /\ TicketsOK' /\ RequestsOK'
    BY <1>2, <1>a DEF Crash, dbVars, ChecksOK, AlertsOK, TicketsOK, RequestsOK
  <2>4. QED BY <2>1, <2>2, <2>3, ShapePartsNext
<1>3. CASE CreateTicketAnswerLost(w)
  <2>1. cur[w].alert \in Alerts
    BY <1>3, <1>b DEF CreateTicketAnswerLost, Linking
  <2>2. WorkersOK'
    BY <1>3, <1>a, ReturnOK DEF CreateTicketAnswerLost
  <2>3. RestOK'
    BY <1>3, <1>a, <2>1, ConfigAssumption DEF CreateTicketAnswerLost, RestOK
  <2>4. TicketsOK'
    BY <1>3, <1>a, <2>1 DEF CreateTicketAnswerLost, FreeTickets, TicketsOK
  <2>5. ChecksOK' /\ AlertsOK' /\ RequestsOK'
    BY <1>3, <1>a DEF CreateTicketAnswerLost, ChecksOK, AlertsOK, RequestsOK
  <2>6. QED BY <2>2, <2>3, <2>4, <2>5, ShapePartsNext
<1>4. QED BY <1>1, <1>2, <1>3 DEF Fault

LEMMA OperateShape ==
  ASSUME ShapeOK, NEW o \in Operators, Operate(o)
  PROVE  ShapeOK'
<1>a. ChecksOK /\ AlertsOK /\ TicketsOK /\ WorkersOK /\ RequestsOK /\ RestOK
  BY ShapeParts
<1>1. ChecksOK' /\ TicketsOK' /\ WorkersOK' /\ RestOK'
  BY <1>a
  DEF Operate, TransitionSelect, TransitionUpdate, ManualLinkSelect,
      ManualLinkUpdate, dbVars, ChecksOK, TicketsOK, WorkersOK, RestOK
<1>2. RequestsOK'
  <2>1. CASE TransitionSelect(o)
    BY <2>1, <1>a, ZenonT(60) DEF TransitionSelect, Idle, RequestsOK, RequestFits
  <2>2. CASE ManualLinkSelect(o)
    BY <2>2, <1>a DEF ManualLinkSelect, RequestsOK, RequestFits, TicketsOK
  <2>3. CASE TransitionUpdate(o) \/ ManualLinkUpdate(o)
    BY <2>3, <1>a
    DEF TransitionUpdate, ManualLinkUpdate, Idle, RequestsOK, RequestFits
  <2>4. QED BY <2>1, <2>2, <2>3 DEF Operate
<1>3. AlertsOK'
  <2>1. CASE TransitionSelect(o) \/ ManualLinkSelect(o)
    BY <2>1, <1>a DEF TransitionSelect, ManualLinkSelect, dbVars, AlertsOK
  <2>2. CASE TransitionUpdate(o)
    BY <2>2, <1>a DEF TransitionUpdate, AlertsOK, RequestsOK
  <2>3. CASE ManualLinkUpdate(o)
    BY <2>3, <1>a DEF ManualLinkUpdate, AlertsOK, RequestsOK
  <2>4. QED BY <2>1, <2>2, <2>3 DEF Operate
<1>4. QED BY <1>1, <1>2, <1>3, ShapePartsNext

LEMMA ShapeInit == Init => ShapeOK
<1> SUFFICES ASSUME Init PROVE ShapeOK
  OBVIOUS
<1>1. ChecksOK /\ AlertsOK
  BY DEF Init, ChecksOK, AlertsOK
<1>2. TicketsOK
  BY ConfigAssumption DEF Init, TicketsOK
<1>3. WorkersOK
  BY NothingFits DEF Init, WorkersOK, Phases
<1>4. RequestsOK
  BY DEF Init, RequestsOK, Idle, RequestFits
<1>5. RestOK
  BY ConfigAssumption DEF Init, RestOK
<1>6. QED BY <1>1, <1>2, <1>3, <1>4, <1>5, ShapeParts

LEMMA ShapeStep == ShapeOK /\ [Next]_vars => ShapeOK'
<1> SUFFICES ASSUME ShapeOK, [Next]_vars PROVE ShapeOK'
  OBVIOUS
<1>1. ASSUME NEW m \in Monitors, SetRule(m) PROVE ShapeOK'
  BY <1>1, ShapeParts, ShapePartsNext
  DEF SetRule, ChecksOK, AlertsOK, TicketsOK, WorkersOK, RequestsOK, RestOK
<1>2. CASE UNCHANGED vars
  BY <1>2, ShapeParts, ShapePartsNext
  DEF vars, dbVars, ChecksOK, AlertsOK, TicketsOK, WorkersOK, RequestsOK, RestOK
<1>3. QED
  BY <1>1, <1>2, SweepShape, ReportShape, EvaluateShape, FaultShape, OperateShape
  DEF Next

LEMMA ShapeCorrect == Spec => []ShapeOK
BY ShapeInit, ShapeStep, PTL DEF Spec

(* Type correctness of the alert pipeline: rows, tickets, evaluations and  *)
(* requests keep their shape through every interleaving and every fault.   *)
THEOREM TypeCorrect == Spec => []TypeOK
<1>1. ShapeOK => TypeOK
  BY DEF ShapeOK
<1>2. QED BY <1>1, ShapeCorrect, PTL

-----------------------------------------------------------------------------
(* Which actions write the status column, and how. *)
LEMMA StatusStep ==
  ASSUME [Next]_vars
  PROVE  \/ UNCHANGED <<status, monitorOf>>
         \/ \E w \in Workers : EvalResolve(w)
         \/ \E w \in Workers : EvalInsert(w)
         \/ \E o \in Operators : TransitionUpdate(o)
BY ZenonT(60) DEF Next, vars, dbVars, StartSweep, NextEntry, FinishSweep, PublishCheckFails,
       Report, Evaluate, EvalSelect, EvalRepeat, EvalDebounce, EvalQuorum,
       Announce, CreateTicket, LinkTicket, PostNote, Fault, EvalFails, Crash,
       CreateTicketAnswerLost, Operate, TransitionSelect, ManualLinkSelect,
       ManualLinkUpdate, SetRule

(* The partial unique index at work: whatever an evaluation or a request   *)
(* read before it writes, a monitor has at most one active alert.          *)
THEOREM OneActive == Spec => []OneActivePerMonitor
<1>1. Init => OneActivePerMonitor
  BY DEF Init, OneActivePerMonitor, Active
<1>2. ShapeOK /\ OneActivePerMonitor /\ [Next]_vars => OneActivePerMonitor'
  <2> SUFFICES ASSUME ShapeOK, OneActivePerMonitor, [Next]_vars
               PROVE  OneActivePerMonitor'
    OBVIOUS
  <2>a. AlertsOK /\ WorkersOK /\ RequestsOK
    BY ShapeParts
  <2>1. CASE UNCHANGED <<status, monitorOf>>
    BY <2>1 DEF OneActivePerMonitor
  <2>2. ASSUME NEW w \in Workers, EvalResolve(w) PROVE OneActivePerMonitor'
    BY <2>2, <2>a DEF EvalResolve, ResolvedStatus, OneActivePerMonitor, Active, AlertsOK
  <2>3. ASSUME NEW w \in Workers, EvalInsert(w) PROVE OneActivePerMonitor'
    <3>1. CASE UNCHANGED <<status, monitorOf>>
      BY <3>1 DEF OneActivePerMonitor
    <3>2. CASE /\ ActiveAlerts(cur[w].monitor) = {}
               /\ \E a \in FreeAlerts :
                    /\ status' = [status EXCEPT ![a] = "open"]
                    /\ monitorOf' = [monitorOf EXCEPT ![a] = cur[w].monitor]
      BY <3>2, <2>a DEF ActiveAlerts, FreeAlerts, OneActivePerMonitor, AlertsOK
    <3>3. QED BY <2>3, <3>1, <3>2 DEF EvalInsert
  <2>4. ASSUME NEW o \in Operators, TransitionUpdate(o)
        PROVE  OneActivePerMonitor'
    <3> DEFINE q == request[o]
    <3>1. monitorOf' = monitorOf
      BY <2>4 DEF TransitionUpdate
    <3>2. CASE status' = status
      BY <3>1, <3>2 DEF OneActivePerMonitor
    <3>3. CASE q.do = "resolved" /\ status' = [status EXCEPT ![q.alert] = q.do]
      BY <3>1, <3>3, <2>a DEF OneActivePerMonitor, Active, AlertsOK
    <3>4. CASE /\ ActiveAlerts(monitorOf[q.alert]) \ {q.alert} = {}
               /\ status' = [status EXCEPT ![q.alert] = q.do]
      BY <3>1, <3>4, <2>a DEF OneActivePerMonitor, ActiveAlerts, AlertsOK
    <3>5. QED BY <2>4, <3>2, <3>3, <3>4 DEF TransitionUpdate, Active
  <2>5. QED BY <2>1, <2>2, <2>3, <2>4, StatusStep
<1>3. QED BY <1>1, <1>2, ShapeCorrect, PTL DEF Spec

-----------------------------------------------------------------------------
(* What Goto and Return do to the workers. *)
OnlyMoves(w) ==
  \A v \in Workers \ {w} : phase'[v] = phase[v] /\ cur'[v] = cur[v]

LEMMA GotoMoves ==
  ASSUME WorkersOK, NEW w \in Workers, NEW p, NEW c, Goto(w, p, c)
  PROVE  phase'[w] = p /\ cur'[w] = c /\ OnlyMoves(w)
BY DEF Goto, WorkersOK, OnlyMoves

LEMMA ReturnMoves ==
  ASSUME WorkersOK, NEW w \in Workers, Return(w)
  PROVE  phase'[w] \in {"idle", "next"} /\ OnlyMoves(w)
BY DEF Return, WorkersOK, OnlyMoves

(* A step of a worker that neither links nor starts to, and writes none of *)
(* the columns LinkInv is about.                                           *)
LEMMA QuietStep ==
  ASSUME LinkInv, NEW w \in Workers, OnlyMoves(w),
         phase[w] \notin Linking, phase'[w] \notin Linking,
         phase'[w] \in {"resolve", "repeat"} => status[cur'[w].alert] # "free",
         UNCHANGED <<status, ticketOf, origin, tickets, request, lost>>
  PROVE  LinkInv'
<1>1. WorkedRowsExist'
  BY DEF LinkInv, WorkedRowsExist, OnlyMoves
<1>2. RequestedRowsExist' /\ OriginsExist' /\ AtMostOneTicketPerAlert'
  BY DEF LinkInv, RequestedRowsExist, OriginsExist, AtMostOneTicketPerAlert
<1>3. OneLinker' /\ NoTicketYet'
  BY DEF LinkInv, OneLinker, NoTicketYet, OnlyMoves, Linking
<1>4. UnlinkedIsAccountedFor'
  BY DEF LinkInv, UnlinkedIsAccountedFor, OnlyMoves
<1>5. QED BY <1>1, <1>2, <1>3, <1>4 DEF LinkInv

(* A step that leaves the workers alone and frees no row. *)
LEMMA RequestStep ==
  ASSUME LinkInv, UNCHANGED <<phase, cur, origin, tickets, lost>>,
         \A a \in Alerts : status[a] # "free" <=> status'[a] # "free",
         \A a \in Alerts : ticketOf'[a] = None => ticketOf[a] = None,
         RequestedRowsExist',
         \A w \in Workers : phase[w] \in {"resolve", "repeat"} \cup Linking
                              => cur[w].alert \in Alerts,
         \A t \in Tickets : origin[t] # None => origin[t] \in Alerts
  PROVE  LinkInv'
<1>1. WorkedRowsExist' /\ OriginsExist'
  BY DEF LinkInv, WorkedRowsExist, OriginsExist
<1>2. OneLinker' /\ NoTicketYet' /\ AtMostOneTicketPerAlert'
  BY DEF LinkInv, OneLinker, NoTicketYet, AtMostOneTicketPerAlert
<1>3. UnlinkedIsAccountedFor'
  BY DEF LinkInv, UnlinkedIsAccountedFor
<1>4. QED BY <1>1, <1>2, <1>3 DEF LinkInv

LEMMA LinkSweep ==
  ASSUME ShapeOK, LinkInv,
         \/ \E w \in Schedulers : StartSweep(w) \/ NextEntry(w)
                                    \/ FinishSweep(w) \/ PublishCheckFails(w)
         \/ \E w \in Agents : Report(w)
  PROVE  LinkInv'
<1>a. WorkersOK
  BY ShapeParts
<1>1. PICK w \in Workers :
        /\ phase[w] \in {"idle", "next"}
        /\ phase'[w] \in {"idle", "next", "select"}
        /\ OnlyMoves(w)
        /\ UNCHANGED <<status, ticketOf, origin, tickets, request, lost>>
  BY <1>a, ZenonT(60) DEF StartSweep, NextEntry, FinishSweep, PublishCheckFails, Report,
              Workers, WorkersOK, OnlyMoves, dbVars
<1>2. QED BY <1>1, QuietStep DEF Linking

LEMMA LinkEvaluate ==
  ASSUME ShapeOK, LinkInv, NEW w \in Workers, Evaluate(w)
  PROVE  LinkInv'
<1> DEFINE c == cur[w]
<1>a. AlertsOK /\ TicketsOK /\ WorkersOK /\ RequestsOK
  BY ShapeParts
<1>b. Fits(phase[w], c)
  BY <1>a DEF WorkersOK
<1>1. CASE EvalSelect(w)
  <2>1. UNCHANGED <<status, ticketOf, origin, tickets, request, lost>>
    BY <1>1 DEF EvalSelect, dbVars
  <2>2. CASE Return(w)
    BY <1>1, <1>a, <2>1, <2>2, ReturnMoves, QuietStep DEF EvalSelect, Linking
  <2>3. CASE \E d : Goto(w, "debounce", d)
    <3>1. PICK d : Goto(w, "debounce", d)
      BY <2>3
    <3>2. phase'[w] = "debounce" /\ OnlyMoves(w)
      BY <1>a, <3>1, GotoMoves
    <3>3. phase[w] \notin Linking /\ phase'[w] \notin Linking
      BY <1>1, <3>2 DEF EvalSelect, Linking
    <3>4. QED BY <2>1, <3>2, <3>3, QuietStep
  <2>4. CASE \E a \in Alerts, p \in {"repeat", "resolve"} :
               /\ status[a] \in Active
               /\ Goto(w, p, [c EXCEPT !.kind = rule[c.monitor], !.alert = a,
                                 !.ticket = ticketOf[a], !.count = repeats[a]])
    <3>1. PICK a \in Alerts, p \in {"repeat", "resolve"} :
               /\ status[a] \in Active
               /\ Goto(w, p, [c EXCEPT !.kind = rule[c.monitor], !.alert = a,
                                 !.ticket = ticketOf[a], !.count = repeats[a]])
      BY <2>4
    <3>2. phase'[w] = p /\ cur'[w].alert = a /\ OnlyMoves(w)
      <4> DEFINE d == [c EXCEPT !.kind = rule[c.monitor], !.alert = a,
                                !.ticket = ticketOf[a], !.count = repeats[a]]
      <4>1. d.alert = a
        BY <1>a DEF WorkersOK, Contexts
      <4> HIDE DEF d
      <4>2. phase'[w] = p /\ cur'[w] = d /\ OnlyMoves(w)
        BY <1>a, <3>1, GotoMoves DEF d
      <4>3. QED BY <4>1, <4>2
    <3>3. status[a] # "free" /\ phase[w] \notin Linking /\ phase'[w] \notin Linking
      BY <1>1, <3>1, <3>2 DEF EvalSelect, Active, Linking
    <3>4. QED BY <2>1, <3>2, <3>3, QuietStep
  <2>5. QED BY <1>1, <2>2, <2>3, <2>4 DEF EvalSelect, ActiveAlerts
<1>2. CASE EvalResolve(w)
  <2>1. c.alert \in Alerts /\ status[c.alert] # "free"
    BY <1>2, <1>b DEF EvalResolve, Fits, LinkInv, WorkedRowsExist
  <2>2. \A a \in Alerts : status[a] # "free" <=> status'[a] # "free"
    BY <1>2, <1>a, <2>1 DEF EvalResolve, ResolvedStatus, AlertsOK
  <2>3. phase[w] = "resolve" /\ phase'[w] \in {"note", "idle", "next"} /\ OnlyMoves(w)
    BY <1>2, <1>a, GotoMoves, ReturnMoves DEF EvalResolve
  <2>4. UNCHANGED <<ticketOf, origin, tickets, request, lost>>
    BY <1>2 DEF EvalResolve
  <2>5. WorkedRowsExist'
    BY <1>a, <2>2, <2>3 DEF LinkInv, WorkedRowsExist, OnlyMoves, Linking, WorkersOK, Fits
  <2>6. RequestedRowsExist' /\ OriginsExist' /\ AtMostOneTicketPerAlert'
    BY <1>a, <2>2, <2>4
    DEF LinkInv, RequestedRowsExist, OriginsExist, AtMostOneTicketPerAlert,
        RequestsOK, RequestFits, TicketsOK
  <2>7. OneLinker' /\ NoTicketYet'
    BY <2>3, <2>4 DEF LinkInv, OneLinker, NoTicketYet, OnlyMoves, Linking
  <2>8. UnlinkedIsAccountedFor'
    BY <2>2, <2>3, <2>4 DEF LinkInv, UnlinkedIsAccountedFor, OnlyMoves, Linking
  <2>9. QED BY <2>5, <2>6, <2>7, <2>8 DEF LinkInv
<1>3. CASE EvalRepeat(w) \/ PostNote(w)
  <2>1. /\ phase[w] \in {"repeat", "note"} /\ phase'[w] \in {"note", "idle", "next"}
        /\ OnlyMoves(w)
        /\ UNCHANGED <<status, ticketOf, origin, tickets, request, lost>>
    BY <1>3, <1>a, GotoMoves, ReturnMoves DEF EvalRepeat, PostNote
  <2>2. QED BY <2>1, QuietStep DEF Linking
<1>4. CASE EvalDebounce(w) \/ EvalQuorum(w)
  <2>1. /\ phase[w] \in {"debounce", "quorum"}
        /\ phase'[w] \in {"quorum", "insert", "idle", "next"}
        /\ OnlyMoves(w)
        /\ UNCHANGED <<status, ticketOf, origin, tickets, request, lost>>
    BY <1>4, <1>a, GotoMoves, ReturnMoves DEF EvalDebounce, EvalQuorum, dbVars
  <2>2. QED BY <2>1, QuietStep DEF Linking
<1>5. CASE EvalInsert(w)
  <2>0. /\ phase[w] = "insert"
        /\ UNCHANGED <<ticketOf, origin, tickets, request, lost>>
    BY <1>5 DEF EvalInsert
  <2>1. CASE Return(w) /\ UNCHANGED <<status, monitorOf>>
    BY <1>a, <2>0, <2>1, ReturnMoves, QuietStep DEF Linking
  <2>2. CASE \E a \in FreeAlerts :
               /\ status' = [status EXCEPT ![a] = "open"]
               /\ Goto(w, "announce", [c EXCEPT !.alert = a])
    <3>1. PICK a \in FreeAlerts :
               /\ status' = [status EXCEPT ![a] = "open"]
               /\ Goto(w, "announce", [c EXCEPT !.alert = a])
      BY <2>2
    <3>2. phase'[w] = "announce" /\ cur'[w].alert = a /\ OnlyMoves(w)
      BY <1>a, <3>1, GotoMoves DEF WorkersOK, Contexts
    <3>3. a \in Alerts /\ status[a] = "free" /\ status'[a] = "open"
          /\ \A b \in Alerts \ {a} : status'[b] = status[b]
      BY <1>a, <3>1 DEF FreeAlerts, AlertsOK
    <3>4. \A v \in Workers : phase[v] \in Linking => cur[v].alert # a
      BY <3>3 DEF LinkInv, WorkedRowsExist
    <3>5. \A t \in Tickets : origin[t] # a
      BY <3>3, NoneAssumption DEF LinkInv, OriginsExist
    <3>6. WorkedRowsExist'
      BY <1>a, <3>2, <3>3 DEF LinkInv, WorkedRowsExist, OnlyMoves, WorkersOK, Fits
    <3>7. RequestedRowsExist' /\ OriginsExist' /\ AtMostOneTicketPerAlert'
      BY <1>a, <2>0, <3>3
      DEF LinkInv, RequestedRowsExist, OriginsExist, AtMostOneTicketPerAlert,
          RequestsOK, RequestFits, TicketsOK
    <3>8. OneLinker'
      BY <3>2, <3>4 DEF LinkInv, OneLinker, OnlyMoves
    <3>9. NoTicketYet'
      BY <2>0, <3>2, <3>5 DEF LinkInv, NoTicketYet, OnlyMoves
    <3>10. UnlinkedIsAccountedFor'
      <4>1. "announce" \in Linking /\ "insert" \notin Linking
        BY DEF Linking
      <4>2. QED BY <2>0, <3>2, <3>3, <4>1 DEF LinkInv, UnlinkedIsAccountedFor, OnlyMoves
    <3>11. QED BY <3>6, <3>7, <3>8, <3>9, <3>10 DEF LinkInv
  <2>3. QED BY <1>5, <2>1, <2>2 DEF EvalInsert
<1>6. CASE Announce(w)
  <2>1. /\ phase[w] = "announce" /\ phase'[w] = "ticket" /\ cur'[w] = cur[w]
        /\ OnlyMoves(w)
        /\ UNCHANGED <<status, ticketOf, origin, tickets, request, lost>>
    BY <1>6, <1>a, GotoMoves DEF Announce, dbVars
  <2>2. \A v \in Workers : (phase'[v] \in Linking <=> phase[v] \in Linking)
                           /\ cur'[v] = cur[v]
    BY <2>1 DEF OnlyMoves, Linking
  <2>3. WorkedRowsExist' /\ RequestedRowsExist' /\ OriginsExist'
    BY <2>1, <2>2
    DEF LinkInv, WorkedRowsExist, RequestedRowsExist, OriginsExist, OnlyMoves, Linking
  <2>4. OneLinker' /\ NoTicketYet' /\ AtMostOneTicketPerAlert'
    BY <2>1, <2>2
    DEF LinkInv, OneLinker, NoTicketYet, AtMostOneTicketPerAlert, OnlyMoves
  <2>5. UnlinkedIsAccountedFor'
    BY <2>1, <2>2 DEF LinkInv, UnlinkedIsAccountedFor
  <2>6. QED BY <2>3, <2>4, <2>5 DEF LinkInv
<1>7. CASE CreateTicket(w)
  <2>1. PICK t \in FreeTickets :
          /\ tickets' = tickets \cup {t}
          /\ origin' = [origin EXCEPT ![t] = c.alert]
          /\ Goto(w, "link", [c EXCEPT !.ticket = t])
    BY <1>7 DEF CreateTicket
  <2>2. /\ phase[w] = "ticket" /\ phase'[w] = "link" /\ cur'[w].alert = c.alert
        /\ OnlyMoves(w)
        /\ UNCHANGED <<status, ticketOf, request, lost>>
    BY <1>7, <1>a, <2>1, GotoMoves DEF CreateTicket, WorkersOK, Contexts
  <2>3. \A v \in Workers : (phase'[v] \in Linking <=> phase[v] \in Linking)
                           /\ cur'[v].alert = cur[v].alert
    BY <2>2 DEF OnlyMoves, Linking
  <2>4. /\ t \in Tickets /\ t \notin tickets /\ origin'[t] = c.alert
        /\ \A u \in Tickets \ {t} : origin'[u] = origin[u]
        /\ \A u \in Tickets : origin[u] # c.alert
    BY <1>a, <2>1, <2>2 DEF FreeTickets, TicketsOK, LinkInv, NoTicketYet
  <2>5. WorkedRowsExist' /\ RequestedRowsExist'
    BY <2>2, <2>3 DEF LinkInv, WorkedRowsExist, RequestedRowsExist, OnlyMoves, Linking
  <2>6. OriginsExist'
    BY <2>1, <2>2, <2>4 DEF LinkInv, OriginsExist, WorkedRowsExist, Linking
  <2>7. AtMostOneTicketPerAlert'
    BY <2>4 DEF LinkInv, AtMostOneTicketPerAlert
  <2>8. OneLinker'
    BY <2>3 DEF LinkInv, OneLinker
  <2>9. NoTicketYet'
    <3>1. ASSUME NEW v \in Workers, phase'[v] \in {"announce", "ticket"}, NEW u \in Tickets
          PROVE  origin'[u] # cur'[v].alert
      <4>1. v # w /\ phase[v] \in {"announce", "ticket"}
        BY <2>2, <3>1 DEF OnlyMoves
      <4>2. cur[v].alert # c.alert
        BY <2>2, <4>1 DEF LinkInv, OneLinker, Linking
      <4>3. QED BY <2>3, <2>4, <4>1, <4>2 DEF LinkInv, NoTicketYet
    <3>2. QED BY <3>1 DEF NoTicketYet
  <2>10. UnlinkedIsAccountedFor'
    BY <2>2, <2>3 DEF LinkInv, UnlinkedIsAccountedFor
  <2>11. QED BY <2>5, <2>6, <2>7, <2>8, <2>9, <2>10 DEF LinkInv
<1>8. CASE LinkTicket(w)
  <2>1. /\ phase[w] = "link" /\ phase'[w] \in {"idle", "next"} /\ OnlyMoves(w)
        /\ UNCHANGED <<status, origin, tickets, request, lost>>
    BY <1>8, <1>a, ReturnMoves DEF LinkTicket
  <2>2. c.alert \in Alerts /\ c.ticket \in Tickets
    BY <1>b, <2>1 DEF Fits, Linking
  <2>3. /\ ticketOf'[c.alert] # None
        /\ \A a \in Alerts \ {c.alert} : ticketOf'[a] = ticketOf[a]
    BY <1>8, <1>a, <2>2, NoneAssumption DEF LinkTicket, Linkable, AlertsOK
  <2>4. WorkedRowsExist' /\ RequestedRowsExist' /\ OriginsExist'
    BY <2>1
    DEF LinkInv, WorkedRowsExist, RequestedRowsExist, OriginsExist, OnlyMoves, Linking
  <2>5. OneLinker' /\ NoTicketYet' /\ AtMostOneTicketPerAlert'
    BY <2>1
    DEF LinkInv, OneLinker, NoTicketYet, AtMostOneTicketPerAlert, OnlyMoves, Linking
  <2>6. UnlinkedIsAccountedFor'
    BY <2>1, <2>3 DEF LinkInv, UnlinkedIsAccountedFor, OnlyMoves
  <2>7. QED BY <2>4, <2>5, <2>6 DEF LinkInv
<1>9. QED
  BY <1>1, <1>2, <1>3, <1>4, <1>5, <1>6, <1>7, <1>8 DEF Evaluate

LEMMA LinkFault ==
  ASSUME ShapeOK, LinkInv, NEW w \in Workers, Fault(w)
  PROVE  LinkInv'
<1> DEFINE c == cur[w]
<1>a. AlertsOK /\ TicketsOK /\ WorkersOK /\ RequestsOK
  BY ShapeParts
<1>1. CASE EvalFails(w) \/ Crash(w)
  <2>1. /\ phase'[w] \in {"idle", "next"} /\ OnlyMoves(w)
        /\ UNCHANGED <<status, ticketOf, origin, tickets, request>>
    BY <1>1, <1>a, ReturnMoves, GotoMoves DEF EvalFails, Crash, dbVars
  <2>2. lost \subseteq lost' /\ (phase[w] \in Linking => c.alert \in lost')
    BY <1>1 DEF EvalFails, Crash
  <2>3. WorkedRowsExist' /\ RequestedRowsExist' /\ OriginsExist'
    BY <2>1
    DEF LinkInv, WorkedRowsExist, RequestedRowsExist, OriginsExist, OnlyMoves, Linking
  <2>4. OneLinker' /\ NoTicketYet' /\ AtMostOneTicketPerAlert'
    BY <2>1
    DEF LinkInv, OneLinker, NoTicketYet, AtMostOneTicketPerAlert, OnlyMoves, Linking
  <2>5. UnlinkedIsAccountedFor'
    BY <2>1, <2>2 DEF LinkInv, UnlinkedIsAccountedFor, OnlyMoves
  <2>6. QED BY <2>3, <2>4, <2>5 DEF LinkInv
<1>2. CASE CreateTicketAnswerLost(w)
  <2>1. PICK t \in FreeTickets :
          /\ tickets' = tickets \cup {t}
          /\ origin' = [origin EXCEPT ![t] = c.alert]
    BY <1>2 DEF CreateTicketAnswerLost
  <2>2. /\ phase[w] = "ticket" /\ phase'[w] \in {"idle", "next"} /\ OnlyMoves(w)
        /\ UNCHANGED <<status, ticketOf, request>>
        /\ lost' = lost \cup {c.alert}
    BY <1>2, <1>a, ReturnMoves DEF CreateTicketAnswerLost
  <2>3. /\ t \in Tickets /\ t \notin tickets /\ origin'[t] = c.alert
        /\ \A u \in Tickets \ {t} : origin'[u] = origin[u]
        /\ \A u \in Tickets : origin[u] # c.alert
    BY <1>a, <2>1, <2>2 DEF FreeTickets, TicketsOK, LinkInv, NoTicketYet
  <2>4. WorkedRowsExist' /\ RequestedRowsExist'
    BY <2>2 DEF LinkInv, WorkedRowsExist, RequestedRowsExist, OnlyMoves, Linking
  <2>5. OriginsExist'
    BY <2>1, <2>2, <2>3 DEF LinkInv, OriginsExist, WorkedRowsExist, Linking
  <2>6. AtMostOneTicketPerAlert'
    BY <2>3 DEF LinkInv, AtMostOneTicketPerAlert
  <2>7. OneLinker'
    BY <2>2 DEF LinkInv, OneLinker, OnlyMoves, Linking
  <2>8. NoTicketYet'
    <3>1. ASSUME NEW v \in Workers, phase'[v] \in {"announce", "ticket"}, NEW u \in Tickets
          PROVE  origin'[u] # cur'[v].alert
      <4>1. v # w /\ phase[v] \in {"announce", "ticket"} /\ cur'[v] = cur[v]
        BY <2>2, <3>1 DEF OnlyMoves
      <4>2. cur[v].alert # c.alert
        BY <2>2, <4>1 DEF LinkInv, OneLinker, Linking
      <4>3. QED BY <2>3, <4>1, <4>2 DEF LinkInv, NoTicketYet
    <3>2. QED BY <3>1 DEF NoTicketYet
  <2>9. UnlinkedIsAccountedFor'
    BY <2>2 DEF LinkInv, UnlinkedIsAccountedFor, OnlyMoves
  <2>10. QED BY <2>4, <2>5, <2>6, <2>7, <2>8, <2>9 DEF LinkInv
<1>3. QED BY <1>1, <1>2 DEF Fault

LEMMA LinkOperate ==
  ASSUME ShapeOK, LinkInv, NEW o \in Operators, Operate(o)
  PROVE  LinkInv'
<1>a. AlertsOK /\ TicketsOK /\ WorkersOK /\ RequestsOK
  BY ShapeParts
<1>b. /\ \A w \in Workers : phase[w] \in {"resolve", "repeat"} \cup Linking
                              => cur[w].alert \in Alerts
      /\ \A t \in Tickets : origin[t] # None => origin[t] \in Alerts
  BY <1>a DEF WorkersOK, Fits, TicketsOK
<1>c. UNCHANGED <<phase, cur, origin, tickets, lost>>
  BY DEF Operate, TransitionSelect, TransitionUpdate, ManualLinkSelect,
         ManualLinkUpdate, dbVars
<1>d. request[o].do # "idle" => request[o].alert \in Alerts /\ status[request[o].alert] # "free"
  BY <1>a DEF RequestsOK, RequestFits, LinkInv, RequestedRowsExist
<1>1. \A a \in Alerts : status[a] # "free" <=> status'[a] # "free"
  <2>1. CASE TransitionUpdate(o)
    BY <2>1, <1>a, <1>d DEF TransitionUpdate, AlertsOK
  <2>2. CASE ~TransitionUpdate(o)
    BY <2>2 DEF Operate, TransitionSelect, ManualLinkSelect, ManualLinkUpdate, dbVars
  <2>3. QED BY <2>1, <2>2
<1>2. \A a \in Alerts : ticketOf'[a] = None => ticketOf[a] = None
  <2>1. CASE ManualLinkUpdate(o)
    BY <2>1, <1>a, NoneAssumption
    DEF ManualLinkUpdate, AlertsOK, RequestsOK, RequestFits
  <2>2. CASE ~ManualLinkUpdate(o)
    BY <2>2 DEF Operate, TransitionSelect, ManualLinkSelect, TransitionUpdate, dbVars
  <2>3. QED BY <2>1, <2>2
<1>3. RequestedRowsExist'
  <2>1. \A p \in Operators \ {o} : request'[p] = request[p]
    BY <1>a DEF Operate, TransitionSelect, TransitionUpdate, ManualLinkSelect,
                ManualLinkUpdate, RequestsOK
  <2>2. request'[o].do # "idle" => request'[o].alert \in Alerts
                                   /\ status[request'[o].alert] # "free"
    <3>1. CASE TransitionSelect(o)
      BY <3>1, <1>a DEF TransitionSelect, RequestsOK, Idle, AllowedFrom
    <3>2. CASE ManualLinkSelect(o)
      BY <3>2, <1>a DEF ManualLinkSelect, RequestsOK
    <3>3. CASE TransitionUpdate(o) \/ ManualLinkUpdate(o)
      BY <3>3, <1>a DEF TransitionUpdate, ManualLinkUpdate, RequestsOK, Idle
    <3>4. QED BY <3>1, <3>2, <3>3 DEF Operate
  <2>3. QED
    BY <1>1, <1>a, <2>1, <2>2 DEF LinkInv, RequestedRowsExist, RequestsOK, RequestFits
<1>4. QED BY <1>b, <1>c, <1>1, <1>2, <1>3, RequestStep

LEMMA LinkStep == ShapeOK /\ LinkInv /\ [Next]_vars => LinkInv'
<1> SUFFICES ASSUME ShapeOK, LinkInv, [Next]_vars PROVE LinkInv'
  OBVIOUS
<1>1. CASE UNCHANGED vars \/ \E m \in Monitors : SetRule(m)
  <2>1. UNCHANGED <<status, ticketOf, origin, tickets, request, lost, phase, cur>>
    BY <1>1 DEF vars, dbVars, SetRule
  <2>2. QED
    BY <2>1 DEF LinkInv, WorkedRowsExist, RequestedRowsExist, OneLinker,
      NoTicketYet, OriginsExist, AtMostOneTicketPerAlert, UnlinkedIsAccountedFor
<1>2. QED BY <1>1, LinkSweep, LinkEvaluate, LinkFault, LinkOperate DEF Next

LEMMA LinkCorrect == Spec => []LinkInv
<1>1. Init => LinkInv
  BY DEF Init, LinkInv, WorkedRowsExist, RequestedRowsExist, OneLinker,
    NoTicketYet, OriginsExist, AtMostOneTicketPerAlert, UnlinkedIsAccountedFor,
    Linking, Idle, Nothing
<1>2. QED BY <1>1, LinkStep, ShapeCorrect, PTL DEF Spec

(* "One alert creates at most one ticket", with any number of instances    *)
(* evaluating, crashing and failing at any point.                          *)
THEOREM OneTicketPerAlert == Spec => []AtMostOneTicketPerAlert
<1>1. LinkInv => AtMostOneTicketPerAlert
  BY DEF LinkInv
<1>2. QED BY <1>1, LinkCorrect, PTL

(* An alert without a ticket is one an evaluation is still linking or one  *)
(* whose evaluation failed.                                                *)
THEOREM NoSilentlyUnlinkedAlert == Spec => []UnlinkedIsAccountedFor
<1>1. LinkInv => UnlinkedIsAccountedFor
  BY DEF LinkInv
<1>2. QED BY <1>1, LinkCorrect, PTL
-----------------------------------------------------------------------------
(* From the SELECTs of an evaluation to its INSERT *)
Judging == {"debounce", "quorum", "insert"}

(* How a worker comes to, or goes on with, judging a check *)
LEMMA JudgingSteps ==
  ASSUME ShapeOK, [Next]_vars, NEW w \in Workers
  PROVE  \/ phase'[w] = phase[w] /\ cur'[w] = cur[w]
         \/ phase'[w] \notin {"select"} \cup Judging
         \/ NextEntry(w) \/ Report(w)
         \/ EvalSelect(w) \/ EvalDebounce(w) \/ EvalQuorum(w)
<1>a. WorkersOK
  BY ShapeParts
<1>1. ASSUME NEW v \in Schedulers, StartSweep(v) \/ FinishSweep(v) \/ PublishCheckFails(v)
      PROVE  (phase'[w] = phase[w] /\ cur'[w] = cur[w]) \/ phase'[w] \notin {"select"} \cup Judging
  BY <1>a, <1>1 DEF StartSweep, FinishSweep, PublishCheckFails, WorkersOK, Judging, Workers
<1>2. ASSUME NEW v \in Workers, NextEntry(v) \/ Report(v)
      PROVE  (phase'[w] = phase[w] /\ cur'[w] = cur[w]) \/ w = v
  BY <1>a, <1>2 DEF NextEntry, Report, WorkersOK
<1>3. ASSUME NEW v \in Workers, Evaluate(v) \/ Fault(v)
      PROVE  \/ phase'[w] = phase[w] /\ cur'[w] = cur[w]
             \/ phase'[w] \notin {"select"} \cup Judging
             \/ w = v /\ (EvalSelect(v) \/ EvalDebounce(v) \/ EvalQuorum(v))
  <2>1. CASE EvalSelect(v) \/ EvalDebounce(v) \/ EvalQuorum(v)
    <3>1. (\E p, c : Goto(v, p, c)) \/ Return(v)
      <4>1. CASE EvalSelect(v)
        BY <4>1 DEF EvalSelect
      <4>2. CASE EvalDebounce(v) \/ EvalQuorum(v)
        BY <4>2 DEF EvalDebounce, EvalQuorum
      <4> QED
        BY <2>1, <4>1, <4>2
    <3>2. OnlyMoves(v)
      BY <1>a, <3>1, GotoMoves, ReturnMoves
    <3> QED
      BY <2>1, <3>2 DEF OnlyMoves
  <2>2. CASE \/ EvalResolve(v) \/ EvalRepeat(v) \/ EvalInsert(v) \/ Announce(v)
             \/ CreateTicket(v) \/ LinkTicket(v) \/ PostNote(v) \/ Fault(v)
    <3>1. \/ Return(v)
          \/ \E p \in {"idle", "note", "announce", "ticket", "link"} : \E c : Goto(v, p, c)
          \/ phase' = phase /\ cur' = cur
      <4>1. CASE EvalResolve(v) \/ EvalRepeat(v) \/ Announce(v) \/ CreateTicket(v)
        BY <4>1 DEF EvalResolve, EvalRepeat, Announce, CreateTicket
      <4>2. CASE EvalInsert(v)
        BY <4>2 DEF EvalInsert
      <4>3. CASE LinkTicket(v) \/ PostNote(v) \/ Fault(v)
        BY <4>3 DEF LinkTicket, PostNote, Fault, EvalFails, Crash, CreateTicketAnswerLost
      <4> QED
        BY <2>2, <4>1, <4>2, <4>3
    <3>2. (OnlyMoves(v) /\ phase'[v] \notin {"select"} \cup Judging) \/ (phase' = phase /\ cur' = cur)
      <4>1. CASE Return(v)
        BY <1>a, <4>1, ReturnMoves DEF Judging
      <4>2. CASE \E p \in {"idle", "note", "announce", "ticket", "link"} : \E c : Goto(v, p, c)
        BY <1>a, <4>2, GotoMoves DEF Judging
      <4> QED
        BY <3>1, <4>1, <4>2
    <3> QED
      BY <3>2 DEF OnlyMoves
  <2> QED
    BY <1>3, <2>1, <2>2 DEF Evaluate
<1>4. CASE UNCHANGED vars \/ (\E o \in Operators : Operate(o)) \/ \E m \in Monitors : SetRule(m)
  BY <1>4 DEF vars, Operate, TransitionSelect, TransitionUpdate, ManualLinkSelect, ManualLinkUpdate, SetRule
<1>5. CASE \E v \in Workers : NextEntry(v) \/ Report(v)
  BY <1>2, <1>5
<1>6. CASE \E v \in Workers : Evaluate(v) \/ Fault(v)
  BY <1>3, <1>6
<1>7. CASE \E v \in Schedulers : StartSweep(v) \/ FinishSweep(v) \/ PublishCheckFails(v)
  BY <1>1, <1>7
<1>8. \/ UNCHANGED vars \/ (\E o \in Operators : Operate(o)) \/ \E m \in Monitors : SetRule(m)
      \/ \E v \in Workers : NextEntry(v) \/ Report(v)
      \/ \E v \in Workers : Evaluate(v) \/ Fault(v)
      \/ \E v \in Schedulers : StartSweep(v) \/ FinishSweep(v) \/ PublishCheckFails(v)
  BY DEF Next, Workers
<1> QED
  BY <1>4, <1>5, <1>6, <1>7, <1>8

(* What the SELECTs of an evaluation let through *)
LEMMA SelectJudges ==
  ASSUME ShapeOK, NEW w \in Workers, EvalSelect(w), phase'[w] \in {"select"} \cup Judging
  PROVE  /\ phase'[w] = "debounce" /\ phase[w] = "select"
         /\ cur'[w].monitor = cur[w].monitor /\ cur'[w].result = cur[w].result
         /\ cur'[w].kind \in RuleKinds
         /\ cur'[w].kind = "status" => BadStatus(cur[w].result)
<1>a. WorkersOK /\ RestOK /\ cur[w] \in Contexts /\ cur[w].monitor \in Monitors /\ phase[w] = "select"
  BY ShapeParts DEF WorkersOK, EvalSelect, Fits
<1>1. PICK c \in Contexts : c = cur[w]
  BY <1>a
<1>m. PICK m \in Monitors : m = c.monitor
  BY <1>a, <1>1
<1>2. \/ Return(w)
      \/ \E a : \/ Goto(w, "repeat", [c EXCEPT !.kind = rule[m], !.alert = a,
                                               !.ticket = ticketOf[a], !.count = repeats[a]])
                \/ Goto(w, "resolve", [c EXCEPT !.kind = rule[m], !.alert = a,
                                                !.ticket = ticketOf[a], !.count = repeats[a]])
      \/ /\ rule[m] # None
         /\ \E v \in Verdicts(m, c.result) :
              /\ v.bad
              /\ Goto(w, "debounce", [c EXCEPT !.kind = rule[m], !.reached = v.reached])
  BY <1>1, <1>m DEF EvalSelect
<1>3. ~Return(w)
  BY <1>a, ReturnMoves DEF Judging
<1>4. ASSUME NEW d
      PROVE  ~Goto(w, "repeat", d) /\ ~Goto(w, "resolve", d)
  BY <1>a, GotoMoves DEF Judging
<1>5. PICK v \in Verdicts(m, c.result) :
        v.bad /\ Goto(w, "debounce", [c EXCEPT !.kind = rule[m], !.reached = v.reached])
  BY <1>2, <1>3, <1>4
<1>6. PICK d : d = [c EXCEPT !.kind = rule[m], !.reached = v.reached]
  OBVIOUS
<1>7. d.kind = rule[m] /\ d.monitor = c.monitor /\ d.result = c.result
  BY <1>6 DEF Contexts
<1>8. phase'[w] = "debounce" /\ cur'[w] = d
  <2>1. Goto(w, "debounce", d)
    BY <1>5, <1>6
  <2> QED
    BY <1>a, <2>1, GotoMoves
<1>9. rule[m] \in RuleKinds
  BY <1>2, <1>3, <1>4, <1>a DEF RestOK
<1>10. ASSUME rule[m] = "status"
       PROVE  BadStatus(c.result)
  <2>1. Verdicts(m, c.result) = {[bad |-> BadStatus(c.result), reached |-> FALSE]}
    BY <1>10, Zenon DEF Verdicts
  <2>2. v = [bad |-> BadStatus(c.result), reached |-> FALSE]
    BY <2>1, Zenon
  <2>3. v.bad = BadStatus(c.result)
    BY <2>2, Zenon
  <2> QED
    BY <1>5, <2>3, Zenon
<1> QED
  BY <1>a, <1>1, <1>7, <1>8, <1>9, <1>10

(* The debounce and the quorum pass on what they were given *)
LEMMA DebounceJudges ==
  ASSUME ShapeOK, NEW w \in Workers, EvalDebounce(w), phase'[w] \in {"select"} \cup Judging
  PROVE  /\ phase[w] = "debounce" /\ cur'[w] = cur[w] /\ ThresholdReached(cur[w])
         /\ phase'[w] = (IF NeedsQuorum(cur[w]) THEN "quorum" ELSE "insert")
         /\ UNCHANGED <<recent, latest>>
<1>a. WorkersOK
  BY ShapeParts
<1>1. ~Return(w)
  BY <1>a, ReturnMoves DEF Judging
<1> QED
  BY <1>a, <1>1, GotoMoves DEF EvalDebounce, dbVars

LEMMA QuorumJudges ==
  ASSUME ShapeOK, NEW w \in Workers, EvalQuorum(w), phase'[w] \in {"select"} \cup Judging
  PROVE  /\ phase[w] = "quorum" /\ cur'[w] = cur[w] /\ phase'[w] = "insert"
         /\ FailingLocations(cur[w].monitor) >= MinLocations
         /\ UNCHANGED <<recent, latest>>
<1>a. WorkersOK
  BY ShapeParts
<1>1. ~Return(w)
  BY <1>a, ReturnMoves DEF Judging
<1> QED
  BY <1>a, <1>1, GotoMoves DEF EvalQuorum, dbVars


(* Which steps record checks *)
LEMMA RecordingSteps ==
  ASSUME [Next]_vars
  PROVE  \/ UNCHANGED <<recent, latest>>
         \/ \E w \in Schedulers : StartSweep(w)
         \/ \E w \in Agents : Report(w)
BY ZenonT(60) DEF Next, vars, dbVars, NextEntry, FinishSweep, PublishCheckFails, Evaluate, EvalSelect, EvalResolve,
       EvalRepeat, EvalDebounce, EvalQuorum, EvalInsert, Announce, CreateTicket, LinkTicket, PostNote, Fault,
       EvalFails, Crash, CreateTicketAnswerLost, Operate, TransitionSelect, TransitionUpdate,
       ManualLinkSelect, ManualLinkUpdate, SetRule

(* How an alert comes to be *)
LEMMA OpeningStep ==
  ASSUME ShapeOK, RequestedRowsExist, WorkedRowsExist, [Next]_vars, NEW a \in Alerts,
         status[a] = "free", status'[a] = "open"
  PROVE  \E w \in Workers : /\ phase[w] = "insert" /\ phase'[w] = "announce"
                            /\ monitorOf'[a] = cur[w].monitor
                            /\ UNCHANGED <<recent, latest>>
<1>a. AlertsOK /\ WorkersOK /\ RequestsOK
  BY ShapeParts
<1>1. ASSUME NEW w \in Workers, EvalResolve(w)
      PROVE  FALSE
  <2>1. status[cur[w].alert] # "free"
    BY <1>1 DEF EvalResolve, WorkedRowsExist
  <2> QED
    BY <1>1, <1>a, <2>1 DEF EvalResolve, ResolvedStatus, AlertsOK
<1>2. ASSUME NEW o \in Operators, TransitionUpdate(o)
      PROVE  FALSE
  <2>1. status[request[o].alert] # "free"
    BY <1>2 DEF TransitionUpdate, RequestedRowsExist
  <2> QED
    BY <1>2, <1>a, <2>1 DEF TransitionUpdate, AlertsOK
<1>3. PICK w \in Workers : EvalInsert(w)
  BY <1>1, <1>2, StatusStep
<1>4. PICK b \in FreeAlerts : /\ status' = [status EXCEPT ![b] = "open"]
                              /\ monitorOf' = [monitorOf EXCEPT ![b] = cur[w].monitor]
                              /\ Goto(w, "announce", [cur[w] EXCEPT !.alert = b])
  BY <1>3 DEF EvalInsert
<1>5. a = b
  BY <1>4, <1>a DEF AlertsOK
<1>6. phase'[w] = "announce"
  <2>1. PICK d : Goto(w, "announce", d)
    BY <1>4
  <2> QED
    BY <1>a, <2>1, GotoMoves
<1>7. monitorOf'[a] = cur[w].monitor
  BY <1>4, <1>5, <1>a DEF AlertsOK
<1> QED
  BY <1>3, <1>6, <1>7 DEF EvalInsert

-----------------------------------------------------------------------------
(* One worker: what it read of monitor_checks stays so until its INSERT *)
StillFailing ==
  \A w \in Workers :
    /\ phase[w] \in Judging => cur[w].kind \in RuleKinds
    /\ phase[w] \in {"quorum", "insert"} /\ cur[w].kind = "status" => AllBad(cur[w].monitor)

LEMMA StillFailingStep ==
  ASSUME \A v, w \in Workers : v = w,
         ShapeOK, StillFailing, [Next]_vars
  PROVE  StillFailing'
<1> SUFFICES ASSUME NEW w \in Workers, phase'[w] \in Judging
             PROVE  /\ cur'[w].kind \in RuleKinds
                    /\ phase'[w] \in {"quorum", "insert"} /\ cur'[w].kind = "status" => AllBad(cur[w].monitor)'
  BY DEF StillFailing, Judging
<1>a. WorkersOK
  BY ShapeParts
<1>1. CASE phase'[w] = phase[w] /\ cur'[w] = cur[w]
  <2>1. UNCHANGED recent
    <3>1. ASSUME NEW v \in Workers, StartSweep(v) \/ Report(v)
          PROVE  FALSE
      <4>1. v = w /\ phase[w] = "idle"
        BY <3>1 DEF StartSweep, Report
      <4> QED
        BY <1>1, <4>1 DEF Judging
    <3> QED
      BY <3>1, RecordingSteps DEF Workers
  <2>2. \A m : AllBad(m)' <=> AllBad(m)
    BY <2>1 DEF AllBad
  <2>3. /\ cur[w].kind \in RuleKinds
        /\ phase[w] \in {"quorum", "insert"} /\ cur[w].kind = "status" => AllBad(cur[w].monitor)
    BY <1>1 DEF StillFailing
  <2> QED
    BY <1>1, <2>1, <2>3 DEF AllBad
<1>2. CASE NextEntry(w) \/ Report(w)
  <2>1. phase'[w] = "select"
    BY <1>2, <1>a DEF NextEntry, Report, WorkersOK
  <2> QED
    BY <2>1 DEF Judging
<1>3. CASE EvalSelect(w)
  <2>1. phase'[w] = "debounce" /\ cur'[w].kind \in RuleKinds
    BY <1>3, SelectJudges
  <2> QED
    BY <2>1
<1>4. CASE EvalDebounce(w)
  <2>1. /\ phase[w] = "debounce" /\ cur'[w] = cur[w] /\ ThresholdReached(cur[w])
        /\ UNCHANGED <<recent, latest>>
    BY <1>4, DebounceJudges
  <2>2. cur[w].kind \in RuleKinds
    BY <2>1 DEF StillFailing, Judging
  <2>3. cur[w].kind = "status" => AllBad(cur[w].monitor)
    BY <2>1 DEF ThresholdReached
  <2> QED
    BY <2>1, <2>2, <2>3 DEF AllBad
<1>5. CASE EvalQuorum(w)
  <2>1. phase[w] = "quorum" /\ cur'[w] = cur[w] /\ UNCHANGED <<recent, latest>>
    BY <1>5, QuorumJudges
  <2>2. cur[w].kind \in RuleKinds /\ (cur[w].kind = "status" => AllBad(cur[w].monitor))
    BY <2>1 DEF StillFailing, Judging
  <2> QED
    BY <2>1, <2>2 DEF AllBad
<1> QED
  BY <1>1, <1>2, <1>3, <1>4, <1>5, JudgingSteps

(* Where one instance alone checks and every rule is a status rule, the    *)
(* debounce that applyToDatabase read still describes the monitor when the *)
(* alert is inserted, whatever operators do meanwhile.                     *)
THEOREM OpensOnFailure ==
  ASSUME \A v, w \in Workers : v = w, RuleKinds \subseteq {"status"}
  PROVE  Spec => OpensWhileStillFailing
<1>1. Init => StillFailing
  BY DEF Init, StillFailing, Judging
<1>2. ShapeOK /\ StillFailing /\ [Next]_vars => StillFailing'
  BY StillFailingStep
<1>3. ShapeOK /\ LinkInv /\ StillFailing /\ [Next]_vars =>
        [\A a \in Alerts : status[a] = "free" /\ status'[a] = "open" => AllBad(monitorOf'[a])]_vars
  <2> SUFFICES ASSUME ShapeOK, LinkInv, StillFailing, [Next]_vars, NEW a \in Alerts,
                      status[a] = "free", status'[a] = "open"
               PROVE  AllBad(monitorOf'[a])
    OBVIOUS
  <2>1. PICK w \in Workers : phase[w] = "insert" /\ monitorOf'[a] = cur[w].monitor
    BY OpeningStep DEF LinkInv
  <2>2. cur[w].kind \in RuleKinds
    BY <2>1 DEF StillFailing, Judging
  <2>3. AllBad(cur[w].monitor)
    BY <2>1, <2>2 DEF StillFailing
  <2> QED
    BY <2>1, <2>3 DEF AllBad
<1> QED
  BY <1>1, <1>2, <1>3, ShapeCorrect, LinkCorrect, PTL DEF Spec, OpensWhileStillFailing


-----------------------------------------------------------------------------
(* The locations that can see a failure at all *)
BadLocations == {l \in Locations : \E r \in ResultsAt[l] : BadStatus(r)}

(* What is recorded, waits or is evaluated was seen where it says it was *)
SeenThere ==
  /\ \A m \in Monitors, l \in Locations : latest[m][l] \in ResultsAt[l] \cup {None}
  /\ \A w \in Workers : \A e \in pending[w] : e[2] \in ResultsAt[LocationOf[w]]
  /\ \A w \in Workers : phase[w] \in {"select"} \cup Judging => cur[w].result \in ResultsAt[LocationOf[w]]

(* A status rule's evaluation goes on from a bad result, and, for a        *)
(* monitor that is polled, past the quorum only where enough locations can *)
(* fail.                                                                   *)
QuorumHeld ==
  \A w \in Workers :
    /\ phase[w] \in Judging /\ cur[w].kind = "status" => BadStatus(cur[w].result)
    /\ /\ phase[w] = "insert" /\ cur[w].monitor \notin AgentMonitors
       /\ Cardinality(BadLocations) < MinLocations
       => cur[w].kind # "status"

(* A batch recorded at a worker's location leaves every row where it was seen *)
LEMMA RecordedThere ==
  ASSUME ShapeOK, SeenThere, NEW w \in Workers, NEW due \in SUBSET Monitors,
         NEW batch \in [due -> ResultsAt[LocationOf[w]]], RecordChecks(w, batch),
         NEW m \in Monitors, NEW l \in Locations
  PROVE  latest'[m][l] \in ResultsAt[l] \cup {None}
<1>a. ChecksOK /\ LocationOf[w] \in Locations
  BY ShapeParts, LocationOfWorker
<1>1. CASE m \in due /\ l = LocationOf[w]
  <2>1. latest'[m] = [latest[m] EXCEPT ![LocationOf[w]] = batch[m]]
    BY <1>1 DEF RecordChecks
  <2>2. latest'[m][l] = batch[m]
    BY <1>a, <1>1, <2>1 DEF ChecksOK
  <2> QED
    BY <1>1, <2>2
<1>2. CASE ~(m \in due /\ l = LocationOf[w])
  <2>1. latest'[m][l] = latest[m][l]
    <3>1. CASE m \notin due
      BY <3>1 DEF RecordChecks
    <3>2. CASE m \in due
      <4>1. latest'[m] = [latest[m] EXCEPT ![LocationOf[w]] = batch[m]]
        BY <3>2 DEF RecordChecks
      <4> QED
        BY <1>a, <1>2, <3>2, <4>1 DEF ChecksOK
    <3> QED
      BY <3>1, <3>2
  <2> QED
    BY <2>1 DEF SeenThere
<1> QED
  BY <1>1, <1>2

(* Which steps change what a sweep still has to evaluate *)
LEMMA WaitingSteps ==
  ASSUME ShapeOK, [Next]_vars, NEW w \in Workers
  PROVE  pending'[w] \subseteq pending[w] \/ (w \in Schedulers /\ StartSweep(w))
<1>a. RestOK
  BY ShapeParts
<1>1. ASSUME NEW v \in Schedulers, StartSweep(v)
      PROVE  pending'[w] \subseteq pending[w] \/ (w \in Schedulers /\ StartSweep(w))
  <2>1. CASE v = w
    BY <1>1, <2>1
  <2>2. CASE v # w
    <3>1. PICK P : pending' = [pending EXCEPT ![v] = P]
      BY <1>1 DEF StartSweep
    <3> QED
      BY <1>a, <2>2, <3>1 DEF RestOK
  <2> QED
    BY <2>1, <2>2
<1>2. ASSUME NEW v \in Workers, NextEntry(v) \/ PublishCheckFails(v) \/ Crash(v)
      PROVE  pending'[w] \subseteq pending[w]
  BY <1>2, <1>a, ZenonT(60) DEF NextEntry, PublishCheckFails, Crash, RestOK
<1>3. \/ UNCHANGED pending
      \/ \E v \in Schedulers : StartSweep(v)
      \/ \E v \in Workers : NextEntry(v) \/ PublishCheckFails(v) \/ Crash(v)
  BY DEF Next, vars, dbVars, Workers, FinishSweep, Report, Evaluate, EvalSelect, EvalResolve,
       EvalRepeat, EvalDebounce, EvalQuorum, EvalInsert, Announce, CreateTicket, LinkTicket, PostNote, Fault,
       EvalFails, CreateTicketAnswerLost, Operate, TransitionSelect, TransitionUpdate,
       ManualLinkSelect, ManualLinkUpdate, SetRule
<1> QED
  BY <1>1, <1>2, <1>3

LEMMA SeenThereStep ==
  ASSUME ShapeOK, SeenThere, [Next]_vars
  PROVE  SeenThere'
<1>a. ChecksOK /\ WorkersOK /\ RestOK
  BY ShapeParts
<1>1. ASSUME NEW m \in Monitors, NEW l \in Locations
      PROVE  latest'[m][l] \in ResultsAt[l] \cup {None}
  <2>1. CASE UNCHANGED <<recent, latest>>
    BY <2>1 DEF SeenThere
  <2>2. ASSUME NEW w \in Schedulers, StartSweep(w)
        PROVE  latest'[m][l] \in ResultsAt[l] \cup {None}
    BY <2>2, RecordedThere DEF StartSweep, Workers
  <2>3. ASSUME NEW w \in Agents, Report(w)
        PROVE  latest'[m][l] \in ResultsAt[l] \cup {None}
    <3>1. PICK n \in Monitors, r \in ResultsAt[LocationOf[w]] : RecordChecks(w, [k \in {n} |-> r])
      BY <2>3, ConfigAssumption DEF Report
    <3>2. [k \in {n} |-> r] \in [{n} -> ResultsAt[LocationOf[w]]]
      OBVIOUS
    <3> QED
      BY <3>1, <3>2, RecordedThere DEF Workers
  <2> QED
    BY <2>1, <2>2, <2>3, RecordingSteps
<1>2. ASSUME NEW w \in Workers, NEW e \in pending'[w]
      PROVE  e[2] \in ResultsAt[LocationOf[w]]
  <2>1. CASE pending'[w] \subseteq pending[w]
    BY <1>2, <2>1 DEF SeenThere
  <2>2. CASE StartSweep(w)
    <3>1. PICK due \in SUBSET Monitors : \E batch \in [due -> ResultsAt[LocationOf[w]]] :
            pending' = [pending EXCEPT ![w] = {<<m, batch[m]>> : m \in due}]
      BY <2>2 DEF StartSweep
    <3>2. PICK batch \in [due -> ResultsAt[LocationOf[w]]] :
            pending' = [pending EXCEPT ![w] = {<<m, batch[m]>> : m \in due}]
      BY <3>1
    <3>3. PICK m \in due : e = <<m, batch[m]>>
      BY <1>2, <1>a, <3>2 DEF RestOK
    <3> QED
      BY <3>3
  <2> QED
    BY <2>1, <2>2, WaitingSteps
<1>3. ASSUME NEW w \in Workers, phase'[w] \in {"select"} \cup Judging
      PROVE  cur'[w].result \in ResultsAt[LocationOf[w]]
  <2>1. CASE phase'[w] = phase[w] /\ cur'[w] = cur[w]
    BY <1>3, <2>1 DEF SeenThere
  <2>2. CASE NextEntry(w)
    <3>1. PICK e \in pending[w] :
            cur' = [cur EXCEPT ![w] = [Nothing EXCEPT !.monitor = e[1], !.result = e[2]]]
      BY <2>2 DEF NextEntry
    <3>2. cur'[w].result = e[2]
      BY <1>a, <3>1 DEF WorkersOK, Nothing
    <3> QED
      BY <3>2 DEF SeenThere
  <2>3. CASE Report(w)
    <3>1. PICK m \in Monitors, r \in ResultsAt[LocationOf[w]] :
            cur' = [cur EXCEPT ![w] = [Nothing EXCEPT !.monitor = m, !.result = r]]
      BY <2>3, ConfigAssumption DEF Report
    <3>2. cur'[w].result = r
      BY <1>a, <3>1 DEF WorkersOK, Nothing
    <3> QED
      BY <3>2
  <2>4. CASE EvalSelect(w)
    <3>1. phase[w] = "select" /\ cur'[w].result = cur[w].result
      BY <1>3, <2>4, SelectJudges
    <3> QED
      BY <3>1 DEF SeenThere
  <2>5. CASE EvalDebounce(w) \/ EvalQuorum(w)
    <3>1. phase[w] \in Judging /\ cur'[w] = cur[w]
      BY <1>3, <2>5, DebounceJudges, QuorumJudges DEF Judging
    <3> QED
      BY <3>1 DEF SeenThere
  <2> QED
    BY <1>3, <2>1, <2>2, <2>3, <2>4, <2>5, JudgingSteps
<1> QED
  BY <1>1, <1>2, <1>3 DEF SeenThere

(* As many locations fail as can fail, at most *)
LEMMA FailingCanFail ==
  ASSUME SeenThere, NEW m \in Monitors
  PROVE  FailingLocations(m) <= Cardinality(BadLocations)
<1> DEFINE F == {l \in Locations : BadStatus(latest[m][l])}
<1>1. F \subseteq BadLocations
  BY DEF SeenThere, BadLocations, BadStatus
<1>2. IsFiniteSet(BadLocations)
  BY ConfigAssumption, FS_Subset DEF BadLocations
<1>3. Cardinality(F) <= Cardinality(BadLocations)
  BY <1>1, <1>2, FS_Subset
<1> QED
  BY <1>3 DEF FailingLocations

LEMMA QuorumHeldStep ==
  ASSUME ShapeOK, SeenThere, QuorumHeld, [Next]_vars
  PROVE  QuorumHeld'
<1> SUFFICES ASSUME NEW w \in Workers, phase'[w] \in Judging, cur'[w].kind = "status"
             PROVE  /\ BadStatus(cur'[w].result)
                    /\ phase'[w] = "insert" /\ cur'[w].monitor \notin AgentMonitors
                       => ~(Cardinality(BadLocations) < MinLocations)
  BY DEF QuorumHeld, Judging, BadStatus, BadLocations
<1>a. WorkersOK
  BY ShapeParts
<1>1. CASE phase'[w] = phase[w] /\ cur'[w] = cur[w]
  BY <1>1 DEF QuorumHeld
<1>2. CASE NextEntry(w) \/ Report(w)
  <2>1. phase'[w] = "select"
    BY <1>2, <1>a DEF NextEntry, Report, WorkersOK
  <2> QED
    BY <2>1 DEF Judging
<1>3. CASE EvalSelect(w)
  BY <1>3, SelectJudges
<1>4. CASE EvalDebounce(w)
  <2>1. /\ phase[w] = "debounce" /\ cur'[w] = cur[w]
        /\ phase'[w] = (IF NeedsQuorum(cur[w]) THEN "quorum" ELSE "insert")
    BY <1>4, DebounceJudges
  <2>2. BadStatus(cur[w].result) /\ cur[w].result \in ResultsAt[LocationOf[w]]
    BY <2>1 DEF QuorumHeld, SeenThere, Judging
  <2>3. LocationOf[w] \in BadLocations
    BY <2>2, LocationOfWorker DEF BadLocations
  <2>4. IsFiniteSet(BadLocations)
    BY ConfigAssumption, FS_Subset DEF BadLocations
  <2>5. Cardinality(BadLocations) \in Nat /\ Cardinality(BadLocations) # 0
    BY <2>3, <2>4, FS_CardinalityType, FS_EmptySet
  <2>6. phase'[w] = "insert" /\ cur[w].monitor \notin AgentMonitors => MinLocations = 1
    BY <2>1, ConfigAssumption DEF NeedsQuorum
  <2> QED
    BY <2>1, <2>2, <2>5, <2>6
<1>5. CASE EvalQuorum(w)
  <2>1. phase[w] = "quorum" /\ cur'[w] = cur[w] /\ FailingLocations(cur[w].monitor) >= MinLocations
    BY <1>5, QuorumJudges
  <2>2. BadStatus(cur[w].result)
    BY <2>1 DEF QuorumHeld, Judging
  <2>3. cur[w].monitor \in Monitors
    BY <2>1, <1>a DEF WorkersOK, Fits
  <2>4. FailingLocations(cur[w].monitor) <= Cardinality(BadLocations)
    BY <2>3, FailingCanFail
  <2>5. FailingLocations(cur[w].monitor) \in Nat /\ Cardinality(BadLocations) \in Nat /\ MinLocations \in Nat
    BY ConfigAssumption, FS_Subset, FS_CardinalityType DEF FailingLocations, BadLocations
  <2> QED
    BY <2>1, <2>2, <2>4, <2>5
<1> QED
  BY <1>1, <1>2, <1>3, <1>4, <1>5, JudgingSteps DEF Judging

(* False-positive suppression, for every number of locations and any       *)
(* interleaving: for a monitor that is polled no status rule opens an      *)
(* alert unless min_failing_locations locations can see a failure; agents' *)
(* reports and the sweep for silent agents are evaluated without a quorum. *)
THEOREM QuorumSuppresses == Spec => FewLocationsNeverAlert
<1>1. Init => SeenThere /\ QuorumHeld
  BY DEF Init, SeenThere, QuorumHeld, Judging
<1>2. ShapeOK /\ SeenThere /\ QuorumHeld /\ [Next]_vars => SeenThere' /\ QuorumHeld'
  BY SeenThereStep, QuorumHeldStep
<1>3. QuorumHeld =>
        [Cardinality({l \in Locations : \E r \in ResultsAt[l] : BadStatus(r)}) < MinLocations
          => \A w \in Workers, a \in Alerts :
               phase[w] = "insert" /\ phase'[w] = "announce" /\ status[a] = "free"
                 /\ status'[a] = "open" /\ cur[w].monitor \notin AgentMonitors
                 => cur[w].kind # "status"]_vars
  BY DEF QuorumHeld, BadLocations
<1> QED
  BY <1>1, <1>2, <1>3, ShapeCorrect, PTL DEF Spec, FewLocationsNeverAlert

=============================================================================
