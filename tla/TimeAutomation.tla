--------------------------- MODULE TimeAutomation ---------------------------
(***************************************************************************)
(* TimeAutomationSweepService: one transaction per tenant applies every    *)
(* time_based rule in turn to the tickets that are old enough, open and    *)
(* without an automation_rule_applications row for the rule.               *)
(*                                                                         *)
(* The transaction reads what is committed and what it wrote itself (READ  *)
(* COMMITTED); the rows it updates and the application rows it inserts are *)
(* locked until it ends.                                                   *)
(***************************************************************************)
EXTENDS Environment, Sequences

CONSTANTS
  AutoTickets,  \* tickets, all created at time 0
  AutoRules,    \* sequence of [after, when, actions]
  MaxAgentEdits \* BOUND: edits by agents

Closing == {"resolved", "closed"}

AutoStatus == {"new", "open", "resolved", "closed"}

ASSUME AutoAssumption ==
  /\ AutoRules \in Seq([after : Nat, when : AutoStatus \cup {None},
                        actions : Seq({"note", "tag"} \cup AutoStatus)])
  /\ MaxAgentEdits \in Nat

VARIABLES
  autoTicket,  \* committed rows: [status, resolvedAt, tags]; tags counts the
               \* copies of the rules' tag
  notes,       \* committed notes of each rule on each ticket
  applied,     \* committed automation_rule_applications: <<rule, ticket>>
  agentEdits,  \* edits by agents so far
  autoRule,    \* the rule each process's transaction is at, 0: none
  candidates,  \* rows of its SELECT still to handle: [ticket, row]
  mine,        \* rows it updated and holds locked: a partial function
  myNotes,     \* notes it inserted: <<rule, ticket>>
  myApplied    \* application rows it inserted

autoStored == <<autoTicket, notes, applied>>
autoTxVars == <<autoRule, candidates, mine, myNotes, myApplied>>
autoVars == <<autoStored, agentEdits, autoTxVars>>

RuleNumbers == DOMAIN AutoRules

NoRows == [t \in {} |-> None]

AutoInit ==
  /\ EnvInit
  /\ autoTicket = [t \in AutoTickets |-> [status |-> "new", resolvedAt |-> FALSE, tags |-> 0]]
  /\ notes = [k \in RuleNumbers |-> [t \in AutoTickets |-> 0]]
  /\ applied = {}
  /\ agentEdits = 0
  /\ autoRule = [p \in Processes |-> 0]
  /\ candidates = [p \in Processes |-> {}]
  /\ mine = [p \in Processes |-> NoRows]
  /\ myNotes = [p \in Processes |-> {}]
  /\ myApplied = [p \in Processes |-> {}]

-----------------------------------------------------------------------------
(* A ticket as the transaction of p reads it *)
Row(p, t) == IF t \in DOMAIN mine[p] THEN mine[p][t] ELSE autoTicket[t]

LockedByOther(p, t) == \E q \in Processes \ {p} : t \in DOMAIN mine[q]

(* An agent's PATCH of status or tags, when no sweep holds the row *)
AgentEdits(t) ==
  /\ agentEdits < MaxAgentEdits
  /\ \A p \in Processes : t \notin DOMAIN mine[p]
  /\ \/ \E s \in AutoStatus :
          autoTicket' = [autoTicket EXCEPT ![t].status = s, ![t].resolvedAt = s \in Closing]
     \/ \E n \in {0, 1} : autoTicket' = [autoTicket EXCEPT ![t].tags = n]
  /\ agentEdits' = agentEdits + 1
  /\ UNCHANGED <<environment, notes, applied, autoTxVars>>

(* sweepRule: the WHERE of the candidates *)
Candidate(p, k, t) ==
  /\ Row(p, t).status \notin Closing
  /\ AutoRules[k].after <= now
  /\ <<k, t>> \notin applied \cup myApplied[p]

CandidateRows(p, k) ==
  {[ticket |-> t, row |-> Row(p, t)] : t \in {x \in AutoTickets : Candidate(p, k, x)}}

(* runSweepOnce, sweepTenant: BEGIN and the first rule; sweepRule of the   *)
(* next one when the candidates of the last are done                       *)
NextRule(p) ==
  LET k == autoRule[p] + 1 IN
  /\ candidates[p] = {}
  /\ k \in RuleNumbers
  /\ autoRule' = [autoRule EXCEPT ![p] = k]
  /\ candidates' = [candidates EXCEPT ![p] = CandidateRows(p, k)]
  /\ UNCHANGED <<environment, autoStored, agentEdits, mine, myNotes, myApplied>>

(* conditionMatches on the row of the SELECT *)
Matches(k, row) == AutoRules[k].when \in {None, row.status}

(* add_tag: existing.includes(tag) on the row as last read, then           *)
(* array_append on the row as it is                                        *)
TagRow(seen, row) == IF seen.tags > 0 THEN row ELSE [row EXCEPT !.tags = @ + 1]

(* set_status: skipped when the row as last read has the value *)
StatusRow(seen, row, s) ==
  IF seen.status = s THEN row
  ELSE [row EXCEPT !.status = s, !.resolvedAt = s \in Closing]

(* applyAction over the rule's actions: `seen' is the row the code holds,  *)
(* `row' the one in the database; an UPDATE returns the latter.            *)
Acted(seen0, row0, actions) ==
  LET step[n \in 0..Len(actions)] ==
        IF n = 0 THEN [seen |-> seen0, row |-> row0]
        ELSE LET b == step[n - 1]
                 a == actions[n]
                 row == CASE a = "note" -> b.row
                          [] a = "tag" -> TagRow(b.seen, b.row)
                          [] OTHER -> StatusRow(b.seen, b.row, a)
             IN  [row |-> row, seen |-> IF row = b.row THEN b.seen ELSE row]
  IN  step[Len(actions)].row

(* What p would leave of a candidate's ticket *)
RuleRow(p, c) == Acted(c.row, Row(p, c.ticket), AutoRules[autoRule[p]].actions)

(* The UPDATE waits for a row another process updated, the INSERT for its  *)
(* uncommitted application row.                                            *)
Waits(p, c) ==
  /\ Matches(autoRule[p], c.row)
  /\ \/ RuleRow(p, c) # Row(p, c.ticket) /\ LockedByOther(p, c.ticket)
     \/ \E q \in Processes \ {p} : <<autoRule[p], c.ticket>> \in myApplied[q]

(* sweepRule: one candidate, its actions and the application row *)
ApplyRule(p) ==
  /\ autoRule[p] > 0
  /\ \E c \in candidates[p] :
       LET k == autoRule[p]
           t == c.ticket
           row == RuleRow(p, c)
       IN  /\ ~Waits(p, c)
           /\ candidates' = [candidates EXCEPT ![p] = @ \ {c}]
           /\ IF ~Matches(k, c.row)
              THEN UNCHANGED <<mine, myNotes, myApplied>>
              ELSE /\ mine' = IF row = Row(p, t) THEN mine
                              ELSE [mine EXCEPT ![p] =
                                [x \in DOMAIN @ \cup {t} |-> IF x = t THEN row ELSE @[x]]]
                   /\ myNotes' = IF \E n \in DOMAIN AutoRules[k].actions :
                                      AutoRules[k].actions[n] = "note"
                                 THEN [myNotes EXCEPT ![p] = @ \cup {<<k, t>>}]
                                 ELSE myNotes
                   /\ myApplied' = [myApplied EXCEPT ![p] = @ \cup {<<k, t>>}]
  /\ UNCHANGED <<environment, autoStored, agentEdits, autoRule>>

EndTx(p) ==
  /\ autoRule' = [autoRule EXCEPT ![p] = 0]
  /\ candidates' = [candidates EXCEPT ![p] = {}]
  /\ mine' = [mine EXCEPT ![p] = NoRows]
  /\ myNotes' = [myNotes EXCEPT ![p] = {}]
  /\ myApplied' = [myApplied EXCEPT ![p] = {}]

(* COMMIT *)
AutoCommit(p) ==
  /\ autoRule[p] = Len(AutoRules) /\ candidates[p] = {}
  /\ autoTicket' = [t \in AutoTickets |-> Row(p, t)]
  /\ notes' = [k \in RuleNumbers |-> [t \in AutoTickets |->
       notes[k][t] + (IF <<k, t>> \in myNotes[p] THEN 1 ELSE 0)]]
  /\ applied' = applied \cup myApplied[p]
  /\ EndTx(p)
  /\ UNCHANGED <<environment, agentEdits>>

(* Mutant of AutoAbort: the notes were committed on their own *)
AutoAbortKeepsNotes(p) ==
  /\ autoRule[p] > 0
  /\ Fault
  /\ notes' = [k \in RuleNumbers |-> [t \in AutoTickets |->
       notes[k][t] + (IF <<k, t>> \in myNotes[p] THEN 1 ELSE 0)]]
  /\ EndTx(p)
  /\ UNCHANGED <<autoTicket, applied, agentEdits>>

(* Two sweeps wait for each other and the database chooses a victim. *)
AutoDeadlock(p) ==
  /\ \A q \in {p} \cup deployed :
       candidates[q] # {} /\ \A c \in candidates[q] : Waits(q, c)
  /\ EndTx(p)
  /\ UNCHANGED <<environment, autoStored, agentEdits>>

(* ROLLBACK: a statement failed, or the process stopped *)
AutoAbort(p) ==
  /\ autoRule[p] > 0
  /\ Fault
  /\ EndTx(p)
  /\ UNCHANGED <<autoStored, agentEdits>>

-----------------------------------------------------------------------------
AutoTick == ClockTick /\ UNCHANGED autoVars

AutoSweep(p) == NextRule(p) \/ ApplyRule(p) \/ AutoCommit(p) \/ AutoDeadlock(p)

AutoNext ==
  \/ AutoTick
  \/ \E t \in AutoTickets : AgentEdits(t)
  \/ \E p \in deployed : AutoSweep(p) \/ AutoAbort(p)

AutoSpec == AutoInit /\ [][AutoNext]_<<environment, autoVars>>

-----------------------------------------------------------------------------
AutoRows == [status : AutoStatus, resolvedAt : BOOLEAN, tags : Nat]

(* Every variable stays in its type, and no row is locked twice. *)
AutoTypeOK ==
  /\ EnvTypeOK
  /\ autoTicket \in [AutoTickets -> AutoRows]
  /\ notes \in [RuleNumbers -> [AutoTickets -> Nat]]
  /\ applied \subseteq RuleNumbers \X AutoTickets
  /\ agentEdits \in 0..MaxAgentEdits
  /\ autoRule \in [Processes -> 0..Len(AutoRules)]
  /\ \A p \in Processes :
       /\ candidates[p] \subseteq [ticket : AutoTickets, row : AutoRows]
       /\ mine[p] \in [DOMAIN mine[p] -> AutoRows]
       /\ \A q \in Processes \ {p} : DOMAIN mine[p] \cap DOMAIN mine[q] = {}
       /\ myNotes[p] \subseteq myApplied[p]

(* "Each rule fires at most once per ticket": with one process, through    *)
(* rollbacks and restarts.  Each further process can add one, although     *)
(* "overlapping sweep runs can't double-apply a rule": ON CONFLICT DO      *)
(* NOTHING keeps one application row, and the second sweep, whose          *)
(* candidates were read before, goes on with the actions done.             *)
RuleFiresOncePerProcess ==
  \A k \in RuleNumbers, t \in AutoTickets : notes[k][t] <= Cardinality(deployed)

(* An application row and the rule's note are committed together: a rule   *)
(* that is recorded has acted, and one that acted is recorded.             *)
AppliedMeansActed ==
  \A k \in RuleNumbers, t \in AutoTickets :
    (\E n \in DOMAIN AutoRules[k].actions : AutoRules[k].actions[n] = "note")
      => (<<k, t>> \in applied <=> notes[k][t] > 0)

(* resolved_at is set exactly on resolved and closed tickets, though       *)
(* set_status compares with a row that may be stale.                       *)
AutoResolvedAt ==
  \A t \in AutoTickets : autoTicket[t].resolvedAt <=> autoTicket[t].status \in Closing

(* A rule never gets to see a ticket an earlier rule of the same sweep     *)
(* closed.                                                                 *)
LaterRulesSeeEarlier ==
  \A p \in Processes : \A c \in candidates[p] :
    c.ticket \in DOMAIN mine[p] => mine[p][c.ticket].status \notin Closing

(* "keeps tags a set": rules add a tag again only where a concurrent       *)
(* writer added it after their read, once for each writer.                 *)
TagCopiesAreBounded ==
  \A t \in AutoTickets : autoTicket[t].tags <= Cardinality(deployed) + 1

(* A sweep's rules act in turn: what is recorded was done, a ticket an     *)
(* earlier rule closed is left alone by the later ones, and what processes *)
(* do again is bounded by their number.                                    *)
RulesActInTurn ==
  /\ AppliedMeansActed /\ LaterRulesSeeEarlier
  /\ RuleFiresOncePerProcess /\ TagCopiesAreBounded

=============================================================================
