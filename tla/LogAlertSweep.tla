---------------------------- MODULE LogAlertSweep ----------------------------
(***************************************************************************)
(* LogAlertSweepService: on every tick a process selects the rules whose   *)
(* window has passed since they last fired, counts the entries of each in  *)
(* a transaction of its own, writes last_fired_at in another and then asks *)
(* the ticket API for a ticket.                                            *)
(***************************************************************************)
EXTENDS Environment, Sequences

CONSTANTS
  LogRules,     \* log_alert_rules, each on a source of its own
  Settings,     \* values of [window, threshold] an operator may give a rule
  MaxEntries,   \* BOUND: matching entries of a rule
  MaxRuleEdits  \* BOUND: edits of rules

ASSUME LogAssumption ==
  /\ Settings \subseteq [window : Nat, threshold : Nat]
  /\ MaxEntries \in Nat /\ MaxRuleEdits \in Nat

VARIABLES
  setting,     \* window_seconds and threshold of each rule
  enabled,     \* is_enabled
  ruleEdits,   \* edits so far
  entries,     \* ts of the entries that match the rule, in order of arrival
  lastFired,   \* last_fired_at
  logStage,    \* where each process's sweep is
  logDue,      \* rows of its SELECT still to evaluate
  logRow,      \* the row it is evaluating, or None
  logMarks,    \* history: times last_fired_at was written
  logTickets,  \* tickets opened for the rule
  logDropped,  \* history: fires a failed call left without a ticket
  ownFires     \* history: the fires of each process

logRuleVars == <<setting, enabled, ruleEdits, entries, lastFired>>
logJobVars == <<logStage, logDue, logRow>>
logAudit == <<logMarks, logTickets, logDropped, ownFires>>
logVars == <<logRuleVars, logJobVars, logAudit>>

LogInit ==
  /\ EnvInit
  /\ setting \in [LogRules -> Settings]
  /\ enabled = [r \in LogRules |-> TRUE]
  /\ ruleEdits = 0
  /\ entries = [r \in LogRules |-> << >>]
  /\ lastFired = [r \in LogRules |-> None]
  /\ logStage = [p \in Processes |-> "idle"]
  /\ logDue = [p \in Processes |-> {}]
  /\ logRow = [p \in Processes |-> None]
  /\ logMarks = [r \in LogRules |-> 0]
  /\ logTickets = [r \in LogRules |-> 0]
  /\ logDropped = [r \in LogRules |-> 0]
  /\ ownFires = [p \in Processes |-> [r \in LogRules |-> << >>]]

-----------------------------------------------------------------------------
(* LogIngestionService.ingest: ts is the sender's, or now(). *)
Ingest(r) ==
  /\ Len(entries[r]) < MaxEntries
  /\ \E ts \in Times : entries' = [entries EXCEPT ![r] = Append(@, ts)]
  /\ UNCHANGED <<environment, setting, enabled, ruleEdits, lastFired,
                 logJobVars, logAudit>>

(* LogsService.updateAlertRule *)
EditRule(r) ==
  /\ ruleEdits < MaxRuleEdits
  /\ ruleEdits' = ruleEdits + 1
  /\ \E s \in Settings, on \in BOOLEAN :
       /\ setting' = [setting EXCEPT ![r] = s]
       /\ enabled' = [enabled EXCEPT ![r] = on]
  /\ UNCHANGED <<environment, entries, lastFired, logJobVars, logAudit>>

(* Mutant of RuleDue: the debounce is off by one *)
RuleDueEarly(r) ==
  enabled[r] /\ (lastFired[r] = None \/ lastFired[r] <= now - setting[r].window)

(* WHERE is_enabled AND (last_fired_at IS NULL OR last_fired_at < ...) *)
RuleDue(r) ==
  enabled[r] /\ (lastFired[r] = None \/ lastFired[r] < now - setting[r].window)

(* runSweepOnce, sweepTenant: the SELECT *)
LogSelect(p) ==
  /\ logStage[p] = "idle"
  /\ logDue' = [logDue EXCEPT ![p] =
       {[rule |-> r, window |-> setting[r].window,
         threshold |-> setting[r].threshold] : r \in {x \in LogRules : RuleDue(x)}}]
  /\ logStage' = [logStage EXCEPT ![p] = "count"]
  /\ UNCHANGED <<environment, logRuleVars, logRow, logAudit>>

(* The count of the entries with ts >= now() - window *)
MatchCount(row) ==
  Cardinality({k \in DOMAIN entries[row.rule] :
                 entries[row.rule][k] >= now - row.window})

(* evaluateRule: the count, and return false below the threshold *)
LogCount(p) ==
  /\ logStage[p] = "count"
  /\ \E row \in logDue[p] :
       /\ logDue' = [logDue EXCEPT ![p] = @ \ {row}]
       /\ IF MatchCount(row) < row.threshold
          THEN UNCHANGED <<logStage, logRow>>
          ELSE /\ logStage' = [logStage EXCEPT ![p] = "mark"]
               /\ logRow' = [logRow EXCEPT ![p] = row]
  /\ UNCHANGED <<environment, logRuleVars, logAudit>>

(* UPDATE log_alert_rules SET last_fired_at = now() *)
LogMark(p) ==
  LET r == logRow[p].rule IN
  /\ logStage[p] = "mark"
  /\ lastFired' = [lastFired EXCEPT ![r] = now]
  /\ logStage' = [logStage EXCEPT ![p] = "post"]
  /\ logMarks' = [logMarks EXCEPT ![r] = @ + 1]
  /\ ownFires' = [ownFires EXCEPT ![p][r] =
       Append(@, [at |-> now, window |-> logRow[p].window])]
  /\ UNCHANGED <<environment, setting, enabled, ruleEdits, entries, logDue,
                 logRow, logTickets, logDropped>>

(* callInternalApi answers: a ticket; on to the next rule *)
LogPost(p) ==
  LET r == logRow[p].rule IN
  /\ logStage[p] = "post"
  /\ logTickets' = [logTickets EXCEPT ![r] = @ + 1]
  /\ logStage' = [logStage EXCEPT ![p] = "count"]
  /\ logRow' = [logRow EXCEPT ![p] = None]
  /\ UNCHANGED <<environment, logRuleVars, logDue, logMarks, logDropped, ownFires>>

(* Mutant of LogPostFails: the call is made again although the ticket exists *)
LogPostRetries(p) ==
  LET r == logRow[p].rule IN
  /\ logStage[p] = "post"
  /\ Fault
  /\ logTickets' = [logTickets EXCEPT ![r] = @ + 1]
  /\ UNCHANGED <<logRuleVars, logJobVars, logMarks, logDropped, ownFires>>

(* It throws, before or after the ticket was made: logged, and no retry *)
LogPostFails(p) ==
  LET r == logRow[p].rule IN
  /\ logStage[p] = "post"
  /\ Fault
  /\ \/ /\ logTickets' = [logTickets EXCEPT ![r] = @ + 1]
        /\ UNCHANGED logDropped
     \/ /\ logDropped' = [logDropped EXCEPT ![r] = @ + 1]
        /\ UNCHANGED logTickets
  /\ logStage' = [logStage EXCEPT ![p] = "count"]
  /\ logRow' = [logRow EXCEPT ![p] = None]
  /\ UNCHANGED <<logRuleVars, logDue, logMarks, ownFires>>

(* A statement fails, which ends the tenant's sweep, or the process stops *)
LogSweepFails(p) ==
  /\ logStage[p] # "idle"
  /\ Fault
  /\ logDropped' = IF logStage[p] = "post"
                   THEN [logDropped EXCEPT ![logRow[p].rule] = @ + 1]
                   ELSE logDropped
  /\ logStage' = [logStage EXCEPT ![p] = "idle"]
  /\ logDue' = [logDue EXCEPT ![p] = {}]
  /\ logRow' = [logRow EXCEPT ![p] = None]
  /\ UNCHANGED <<logRuleVars, logMarks, logTickets, ownFires>>

(* finally { this.running = false } *)
LogFinish(p) ==
  /\ logStage[p] = "count" /\ logDue[p] = {}
  /\ logStage' = [logStage EXCEPT ![p] = "idle"]
  /\ UNCHANGED <<environment, logRuleVars, logDue, logRow, logAudit>>

-----------------------------------------------------------------------------
LogTick == ClockTick /\ UNCHANGED logVars

LogSweep(p) ==
  LogSelect(p) \/ LogCount(p) \/ LogMark(p) \/ LogPost(p) \/ LogFinish(p)

LogNext ==
  \/ LogTick
  \/ \E r \in LogRules : Ingest(r) \/ EditRule(r)
  \/ \E p \in deployed : LogSweep(p) \/ LogPostFails(p) \/ LogSweepFails(p)

LogSpec == LogInit /\ [][LogNext]_<<environment, logVars>>

-----------------------------------------------------------------------------
LogRows == [rule : LogRules, window : {s.window : s \in Settings},
            threshold : {s.threshold : s \in Settings}]

ASSUME NullIsNoLogRow == None \notin LogRows

(* Every variable stays in its type; the row is set exactly while a rule   *)
(* is being fired.                                                         *)
LogTypeOK ==
  /\ EnvTypeOK
  /\ setting \in [LogRules -> Settings]
  /\ enabled \in [LogRules -> BOOLEAN]
  /\ ruleEdits \in 0..MaxRuleEdits
  /\ entries \in [LogRules -> Seq(Times)]
  /\ lastFired \in [LogRules -> Times \cup {None}]
  /\ logStage \in [Processes -> {"idle", "count", "mark", "post"}]
  /\ logDue \in [Processes -> SUBSET LogRows]
  /\ logRow \in [Processes -> LogRows \cup {None}]
  /\ \A p \in Processes : logRow[p] # None <=> logStage[p] \in {"mark", "post"}
  /\ logMarks \in [LogRules -> Nat]
  /\ logTickets \in [LogRules -> Nat]
  /\ logDropped \in [LogRules -> Nat]
  /\ ownFires \in [Processes ->
       [LogRules -> Seq([at : Times, window : {s.window : s \in Settings}])]]

(* "a rule that's still over threshold on the next tick won't fire again   *)
(* until its own window has elapsed since the last fire": so it is within  *)
(* one process, whatever other processes, edits and faults do between its  *)
(* SELECT and its UPDATE.                                                  *)
FiresSpaced ==
  \A p \in Processes, r \in LogRules :
    \A k \in DOMAIN ownFires[p][r] :
      k > 1 => ownFires[p][r][k].at - ownFires[p][r][k].window
                 > ownFires[p][r][k - 1].at

LogPromise == INSTANCE MarkThenAct
  WITH Items <- LogRules, marked <- logMarks, acted <- logTickets,
       dropped <- logDropped

(* Every written last_fired_at stands for at most one ticket, and for one  *)
(* unless a fault took it: the sweep implements MarkThenAct.               *)
LogImplementsPromise == LogPromise!MarkSpec

(* No rule stays due and over its threshold for ever: a failed sweep gives *)
(* way to the next one.                                                    *)
NoisyRuleFires ==
  \A r \in LogRules :
    []<>~(RuleDue(r) /\ MatchCount([rule |-> r, window |-> setting[r].window])
                          >= setting[r].threshold)

=============================================================================
