------------------------ MODULE CostRecommendations ------------------------
(***************************************************************************)
(* The recommendations of one resource: RightsizingSweepService,           *)
(* RecommendationsService (update, createTicket) and                       *)
(* CostSavingsSweepService.                                                *)
(*                                                                         *)
(* A sweep is one transaction: its rows stay locked and unseen until it    *)
(* commits.  A caught error inside it (a unique index) leaves the          *)
(* transaction aborted: what follows fails too and COMMIT writes nothing.  *)
(* createTicket reads, calls the ticket API and writes in three steps.     *)
(***************************************************************************)
EXTENDS Environment

CONSTANTS
  UsageMonitors,  \* cloud_metric monitors of the resource
  Callers,        \* users of the recommendations page
  MaxRecs         \* BOUND: recommendations

ASSUME CostAssumption == IsFiniteSet(Callers) /\ MaxRecs \in Nat

RecIds == 1..MaxRecs

RecStatuses == {"open", "dismissed", "ticket_created", "resolved"}

VARIABLES
  usage,       \* average of each monitor: no sample, low or fine
  recs,        \* rightsizing_recommendations, None: no such row; `ticket'
               \* counts the times ticket_id was written
  draft,       \* rows a sweep's transaction has written, None: untouched
  costStage,   \* where each process's sweep is
  costLeft,    \* monitors it has to evaluate
  verdict,     \* the average it read
  seenOpen,    \* the open recommendation it read, 0: none
  toLog,       \* recommendations it found to log
  toVerify,    \* savings it found to verify
  call,        \* what each user's createTicket is doing
  callRec,     \* its recommendation, 0: none
  made,        \* tickets made for each recommendation
  solved,      \* recommendations with a ticket that is resolved or closed
  savings      \* cost_savings_log.status of each recommendation, None: no row

costJobVars == <<draft, costStage, costLeft, verdict, seenOpen, toLog, toVerify>>
costCallVars == <<call, callRec, made>>
costVars == <<usage, recs, costJobVars, costCallVars, solved, savings>>

CostInit ==
  /\ EnvInit
  /\ usage \in [UsageMonitors -> {"low", "fine"}]
  /\ recs = [i \in RecIds |-> None]
  /\ draft = [p \in Processes |-> [i \in RecIds |-> None]]
  /\ costStage = [p \in Processes |-> "idle"]
  /\ costLeft = [p \in Processes |-> {}]
  /\ verdict = [p \in Processes |-> None]
  /\ seenOpen = [p \in Processes |-> 0]
  /\ toLog = [p \in Processes |-> {}]
  /\ toVerify = [p \in Processes |-> {}]
  /\ call = [u \in Callers |-> "idle"]
  /\ callRec = [u \in Callers |-> 0]
  /\ made = [i \in RecIds |-> 0]
  /\ solved = {}
  /\ savings = [i \in RecIds |-> None]

-----------------------------------------------------------------------------
(* What a sweep's transaction sees of a row *)
Seen(p, i) == IF draft[p][i] # None THEN draft[p][i] ELSE recs[i]

(* Rows another transaction has written and not committed *)
LockedFor(p, i) == \E q \in Processes \ {p} : draft[q][i] # None

RowLocked(i) == \E q \in Processes : draft[q][i] # None

(* Ids that no row has, committed or not *)
FreeIds == {i \in RecIds : recs[i] = None /\ ~RowLocked(i)}

(* The samples of the last days change. *)
UsageChanges(m) ==
  /\ ClockTick
  /\ \E v \in {"none", "low", "fine"} \ {usage[m]} : usage' = [usage EXCEPT ![m] = v]
  /\ UNCHANGED <<recs, costJobVars, costCallVars, solved, savings>>

(* RightsizingSweepService.sweepOnce, sweepTenant *)
RightsizingStarts(p) ==
  /\ costStage[p] = "idle"
  /\ costLeft' = [costLeft EXCEPT ![p] = UsageMonitors]
  /\ costStage' = [costStage EXCEPT ![p] = "evaluate"]
  /\ UNCHANGED <<environment, usage, recs, draft, verdict, seenOpen, toLog, toVerify,
                 costCallVars, solved, savings>>

(* evaluateMonitor: the average, and the open recommendation *)
EvaluateMonitor(p) ==
  /\ costStage[p] = "evaluate"
  /\ \E m \in costLeft[p] :
       /\ costLeft' = [costLeft EXCEPT ![p] = @ \ {m}]
       /\ verdict' = [verdict EXCEPT ![p] = usage[m]]
       /\ seenOpen' = [seenOpen EXCEPT ![p] =
            IF \E i \in RecIds : Seen(p, i) # None /\ Seen(p, i).status = "open"
            THEN CHOOSE i \in RecIds : Seen(p, i) # None /\ Seen(p, i).status = "open"
            ELSE 0]
       /\ costStage' = [costStage EXCEPT ![p] = IF usage[m] = "none" THEN "evaluate" ELSE "write"]
  /\ UNCHANGED <<environment, usage, recs, draft, toLog, toVerify, costCallVars,
                 solved, savings>>

(* The INSERT of an open row waits for transactions that could conflict *)
InsertWaits(p) ==
  \E q \in Processes \ {p}, i \in RecIds :
    /\ draft[q][i] # None
    /\ \/ draft[q][i].status = "open"
       \/ recs[i] # None /\ recs[i].status = "open"

(* The partial unique index: one open row per resource *)
OpenExists(p) == \E i \in RecIds : Seen(p, i) # None /\ Seen(p, i).status = "open"

(* Nothing open was found: INSERT, or the index refuses it *)
InsertRec(p) ==
  /\ costStage[p] = "write" /\ verdict[p] = "low" /\ seenOpen[p] = 0
  /\ ~InsertWaits(p)
  /\ IF OpenExists(p)
     THEN costStage' = [costStage EXCEPT ![p] = "aborted"] /\ UNCHANGED draft
     ELSE /\ \E i \in FreeIds :
               /\ \A j \in FreeIds : i <= j
               /\ draft' = [draft EXCEPT ![p][i] = [status |-> "open", ticket |-> 0]]
          /\ costStage' = [costStage EXCEPT ![p] = "evaluate"]
  /\ UNCHANGED <<environment, usage, recs, costLeft, verdict, seenOpen, toLog,
                 toVerify, costCallVars, solved, savings>>

(* Mutant of Refreshed: the UPDATE writes the status too *)
RefreshedOpen(p, row) ==
  [row EXCEPT !.status = IF verdict[p] = "fine" THEN "resolved" ELSE "open"]

(* What the UPDATE of the open row that was found leaves of the newest     *)
(* version: 'resolved' when the average is fine again; else only the type, *)
(* text and estimate change                                                *)
Refreshed(p, row) == [row EXCEPT !.status = IF verdict[p] = "fine" THEN "resolved" ELSE @]

RefreshRec(p) ==
  LET i == seenOpen[p]
  IN  /\ costStage[p] = "write" /\ i # 0
      /\ ~LockedFor(p, i)
      /\ draft' = [draft EXCEPT ![p][i] = Refreshed(p, Seen(p, i))]
      /\ costStage' = [costStage EXCEPT ![p] = "evaluate"]
      /\ UNCHANGED <<environment, usage, recs, costLeft, verdict, seenOpen, toLog,
                     toVerify, costCallVars, solved, savings>>

(* The average is fine and nothing is open *)
NothingToDo(p) ==
  /\ costStage[p] = "write" /\ verdict[p] = "fine" /\ seenOpen[p] = 0
  /\ costStage' = [costStage EXCEPT ![p] = "evaluate"]
  /\ UNCHANGED <<environment, usage, recs, draft, costLeft, verdict, seenOpen, toLog,
                 toVerify, costCallVars, solved, savings>>

EndSweep(p) ==
  /\ costStage' = [costStage EXCEPT ![p] = "idle"]
  /\ draft' = [draft EXCEPT ![p] = [i \in RecIds |-> None]]
  /\ costLeft' = [costLeft EXCEPT ![p] = {}]
  /\ verdict' = [verdict EXCEPT ![p] = None]
  /\ seenOpen' = [seenOpen EXCEPT ![p] = 0]
  /\ toLog' = [toLog EXCEPT ![p] = {}]
  /\ toVerify' = [toVerify EXCEPT ![p] = {}]

(* COMMIT of the rightsizing sweep *)
CommitRightsizing(p) ==
  /\ costStage[p] = "evaluate" /\ costLeft[p] = {}
  /\ recs' = [i \in RecIds |-> Seen(p, i)]
  /\ EndSweep(p)
  /\ UNCHANGED <<environment, usage, costCallVars, solved, savings>>

-----------------------------------------------------------------------------
(* logResolvedRecommendations: WHERE *)
ToLog(i) ==
  /\ recs[i] # None /\ recs[i].status = "ticket_created"
  /\ i \in solved /\ savings[i] = None

(* CostSavingsSweepService.sweepOnce, sweepTenant: SELECT; rows without an *)
(* estimate are passed over                                                *)
SavingsStarts(p) ==
  /\ costStage[p] = "idle"
  /\ \E S \in SUBSET {i \in RecIds : ToLog(i)} : toLog' = [toLog EXCEPT ![p] = S]
  /\ costStage' = [costStage EXCEPT ![p] = "log"]
  /\ UNCHANGED <<environment, usage, recs, draft, costLeft, verdict, seenOpen, toVerify,
                 costCallVars, solved, savings>>

(* The INSERTs: one that meets a row another process committed is refused  *)
(* and aborts the transaction (one that meets an uncommitted row waits     *)
(* first); then materializeLoggedSavings selects                           *)
LogSavings(p) ==
  /\ costStage[p] = "log"
  /\ \A q \in Processes \ {p} : costStage[q] = "verify" => toLog[q] \cap toLog[p] = {}
  /\ IF \E i \in toLog[p] : savings[i] # None
     THEN costStage' = [costStage EXCEPT ![p] = "aborted"] /\ UNCHANGED toVerify
     ELSE /\ toVerify' = [toVerify EXCEPT ![p] = {i \in RecIds : savings[i] = "logged"}]
          /\ costStage' = [costStage EXCEPT ![p] = "verify"]
  /\ UNCHANGED <<environment, usage, recs, draft, costLeft, verdict, seenOpen, toLog,
                 costCallVars, solved, savings>>

(* materializeOne of every old enough row (the verdict is a comparison of  *)
(* two averages, a row without an account stays), and COMMIT               *)
CommitSavings(p) ==
  /\ costStage[p] = "verify"
  /\ \E old \in SUBSET toVerify[p], v \in {"verified", "not_materialized"} :
       savings' = [i \in RecIds |-> IF i \in toLog[p] THEN "logged"
                                    ELSE IF i \in old THEN v ELSE savings[i]]
  /\ EndSweep(p)
  /\ UNCHANGED <<environment, usage, recs, costCallVars, solved>>

(* COMMIT of an aborted transaction rolls it back. *)
CommitAborted(p) ==
  /\ costStage[p] = "aborted"
  /\ EndSweep(p)
  /\ UNCHANGED <<environment, usage, recs, costCallVars, solved, savings>>

(* A statement outside the caught ones fails, or the process stops *)
CostSweepFails(p) ==
  /\ costStage[p] \notin {"idle", "aborted"}
  /\ Fault
  /\ EndSweep(p)
  /\ UNCHANGED <<usage, recs, costCallVars, solved, savings>>

-----------------------------------------------------------------------------
(* RecommendationsService.update: 'dismissed' or 'resolved'; waits for the *)
(* row                                                                     *)
PatchRec(i) ==
  /\ ClockTick
  /\ recs[i] # None /\ ~RowLocked(i)
  /\ \E s \in {"dismissed", "resolved"} : recs' = [recs EXCEPT ![i].status = s]
  /\ UNCHANGED <<usage, costJobVars, costCallVars, solved, savings>>

(* createTicket: neither linked already nor closed *)
MayCreate(i) == recs[i] # None /\ recs[i].ticket = 0 /\ recs[i].status = "open"

(* createTicket: the read, and its early returns *)
ReadRec(u, i) ==
  /\ call[u] = "idle"
  /\ MayCreate(i)
  /\ call' = [call EXCEPT ![u] = "post"]
  /\ callRec' = [callRec EXCEPT ![u] = i]
  /\ UNCHANGED <<environment, usage, recs, costJobVars, made, solved, savings>>

(* POST /internal/tickets/from_alert: a ticket, or an error (with or       *)
(* without one)                                                            *)
PostTicket(u) ==
  LET i == callRec[u]
      Made == made' = [made EXCEPT ![i] = @ + 1]
  IN  /\ call[u] = "post"
      /\ \/ /\ UNCHANGED environment /\ Made
            /\ call' = [call EXCEPT ![u] = "link"]
            /\ UNCHANGED callRec
         \/ /\ Fault /\ (Made \/ UNCHANGED made)
            /\ call' = [call EXCEPT ![u] = "idle"]
            /\ callRec' = [callRec EXCEPT ![u] = 0]
      /\ UNCHANGED <<usage, recs, costJobVars, solved, savings>>

(* UPDATE ... SET status = 'ticket_created', ticket_id, whatever the row   *)
(* says by now; it waits for the row, or fails                             *)
LinkTicket(u) ==
  LET i == callRec[u]
  IN  /\ call[u] = "link"
      /\ \/ /\ UNCHANGED environment /\ ~RowLocked(i)
            /\ recs' = [recs EXCEPT ![i].status = "ticket_created", ![i].ticket = @ + 1]
         \/ Fault /\ UNCHANGED recs
      /\ call' = [call EXCEPT ![u] = "idle"]
      /\ callRec' = [callRec EXCEPT ![u] = 0]
      /\ UNCHANGED <<usage, costJobVars, made, solved, savings>>

(* The ticket of a recommendation is resolved or closed. *)
SolveTicket(i) ==
  /\ recs[i] # None /\ recs[i].ticket # 0 /\ i \notin solved
  /\ solved' = solved \cup {i}
  /\ UNCHANGED <<environment, usage, recs, costJobVars, costCallVars, savings>>

-----------------------------------------------------------------------------
CostJob(p) ==
  \/ EvaluateMonitor(p) \/ InsertRec(p) \/ RefreshRec(p) \/ NothingToDo(p)
  \/ CommitRightsizing(p) \/ LogSavings(p) \/ CommitSavings(p) \/ CommitAborted(p)

CostNext ==
  \/ \E m \in UsageMonitors : UsageChanges(m)
  \/ \E p \in deployed :
       RightsizingStarts(p) \/ SavingsStarts(p) \/ CostJob(p) \/ CostSweepFails(p)
  \/ \E i \in RecIds : PatchRec(i) \/ SolveTicket(i)
  \/ \E u \in Callers :
       PostTicket(u) \/ LinkTicket(u) \/ \E i \in RecIds : ReadRec(u, i)

CostSpec == CostInit /\ [][CostNext]_<<environment, costVars>>

-----------------------------------------------------------------------------
RecRows == [status : RecStatuses, ticket : Nat]

ASSUME NullIsNoRec == None \notin RecRows /\ None # "logged"

(* Every variable stays in its type, and the resource has at most one open *)
(* recommendation.                                                         *)
CostTypeOK ==
  /\ EnvTypeOK
  /\ usage \in [UsageMonitors -> {"none", "low", "fine"}]
  /\ recs \in [RecIds -> RecRows \cup {None}]
  /\ draft \in [Processes -> [RecIds -> RecRows \cup {None}]]
  /\ costStage \in [Processes -> {"idle", "evaluate", "write", "aborted", "log", "verify"}]
  /\ costLeft \in [Processes -> SUBSET UsageMonitors]
  /\ verdict \in [Processes -> {"none", "low", "fine", None}]
  /\ seenOpen \in [Processes -> 0..MaxRecs]
  /\ toLog \in [Processes -> SUBSET RecIds]
  /\ toVerify \in [Processes -> SUBSET RecIds]
  /\ call \in [Callers -> {"idle", "post", "link"}]
  /\ callRec \in [Callers -> 0..MaxRecs]
  /\ \A u \in Callers : callRec[u] = 0 <=> call[u] = "idle"
  /\ \A i, j \in RecIds :
       recs[i] # None /\ recs[j] # None /\ recs[i].status = "open" /\ recs[j].status = "open"
       => i = j
  /\ made \in [RecIds -> Nat]
  /\ solved \subseteq RecIds
  /\ savings \in [RecIds -> {"logged", "verified", "not_materialized", None}]

(* A closed recommendation is never open again, whatever the sweep's late  *)
(* UPDATE of a row it read as open meets.                                  *)
ClosedStaysClosed ==
  \A i \in RecIds :
    recs[i] # None /\ recs[i].status # "open" => recs'[i].status # "open"

(* "ticket id set once": asking again makes no second ticket.  What a      *)
(* recommendation gets beyond one is accounted for by the faults and by    *)
(* users who asked at the same time (the second replaces the first's link).*)
TicketsPerRecAreBounded ==
  \A i \in RecIds : made[i] <= faults + Cardinality(Callers)

(* A saving is only logged of a recommendation whose ticket was solved.    *)
SavingsAreEarned ==
  \A i \in RecIds :
    savings[i] # None => i \in solved /\ recs[i].ticket # 0

(* A recommendation does not come back, and none is booked as a saving     *)
(* before its work is done.                                                *)
ClosedForGood ==
  [][ClosedStaysClosed /\ SavingsAreEarned']_<<environment, costVars>>

=============================================================================
