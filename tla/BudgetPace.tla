----------------------------- MODULE BudgetPace -----------------------------
(***************************************************************************)
(* CostBillingSyncService and CostPaceCheckService for one tenant with one *)
(* cloud account: a sync copies the provider's line items, then every      *)
(* active budget is compared with what is stored.                          *)
(*                                                                         *)
(* checkBudget reads the spend in one transaction and the active alert in  *)
(* another, which writes the alert and enqueues the notification (that     *)
(* commits on its own) before it commits.  An unconditional UPDATE waits   *)
(* for the row; a second INSERT of an active alert waits for the first and *)
(* then fails on the partial unique index.                                 *)
(***************************************************************************)
EXTENDS Environment

CONSTANT Budgets

ASSUME PaceAssumption == None \notin Budgets

(* Severities in SEVERITY_RANK's order; 0: no severity, no active alert *)
Paces == 0..2

VARIABLES
  pace,        \* severity the provider's figures give each budget
  stored,      \* the one the stored line items give
  budgetOn,    \* cost_budgets.is_active
  addressed,   \* its notify_channel and notify_recipient are both set
  alert,       \* severity of the active alert of each budget, 0: none
  alertId,     \* id of the budget's newest alert
  paceStage,   \* where each process's sync is
  paceLeft,    \* budgets it still has to check
  paceTo,      \* those of its SELECT that were addressed
  paceAt,      \* the budget it is checking, or None
  paceFound,   \* the severity it computed
  paceSeen,    \* the severity of the active alert it read, 0: none
  paceSeenId,  \* its id
  notices,     \* notifications enqueued
  raises       \* history: committed openings and rises of the alert of a
               \* budget that was read as addressed

paceWorld == <<pace, budgetOn, addressed>>
paceAlert == <<alert, alertId>>
paceJobVars ==
  <<paceStage, paceLeft, paceTo, paceAt, paceFound, paceSeen, paceSeenId>>
paceVars == <<paceWorld, stored, paceAlert, paceJobVars, notices, raises>>

PaceInit ==
  /\ EnvInit
  /\ pace \in [Budgets -> Paces]
  /\ stored = [b \in Budgets |-> 0]
  /\ budgetOn = [b \in Budgets |-> TRUE]
  /\ addressed \in [Budgets -> BOOLEAN]
  /\ alert = [b \in Budgets |-> 0]
  /\ alertId = [b \in Budgets |-> 0]
  /\ paceStage = [p \in Processes |-> "idle"]
  /\ paceLeft = [p \in Processes |-> {}]
  /\ paceTo = [p \in Processes |-> {}]
  /\ paceAt = [p \in Processes |-> None]
  /\ paceFound = [p \in Processes |-> 0]
  /\ paceSeen = [p \in Processes |-> 0]
  /\ paceSeenId = [p \in Processes |-> 0]
  /\ notices = [b \in Budgets |-> 0]
  /\ raises = [b \in Budgets |-> 0]

-----------------------------------------------------------------------------
(* Spend moves, a month begins: the provider's figures give another result *)
SpendMoves(b) ==
  /\ ClockTick
  /\ \E s \in Paces \ {pace[b]} : pace' = [pace EXCEPT ![b] = s]
  /\ UNCHANGED <<budgetOn, addressed, stored, paceAlert, paceJobVars, notices, raises>>

(* CostBudgetsService: is_active *)
PauseBudget(b) ==
  /\ ClockTick
  /\ budgetOn' = [budgetOn EXCEPT ![b] = ~@]
  /\ UNCHANGED <<pace, addressed, stored, paceAlert, paceJobVars, notices, raises>>

(* CostBudgetsService.update: notify_channel, notify_recipient *)
EditRecipient(b) ==
  /\ ClockTick
  /\ addressed' = [addressed EXCEPT ![b] = ~@]
  /\ UNCHANGED <<pace, budgetOn, stored, paceAlert, paceJobVars, notices, raises>>

(* An alert is there or is called for: the transaction writes the row *)
Writes(p) == paceFound[p] > 0 \/ paceSeen[p] > 0

(* The alert row has been written by a transaction that has not ended *)
Holds(p, b) == paceAt[p] = b /\ paceStage[p] \in {"notify", "commit"} /\ Writes(p)

RowHeld(b) == \E q \in Processes : Holds(q, b)

(* AlertsService resolves the alert: an UPDATE, which waits for the row *)
ResolveByHand(b) ==
  /\ ClockTick
  /\ alert[b] # 0 /\ ~RowHeld(b)
  /\ alert' = [alert EXCEPT ![b] = 0]
  /\ UNCHANGED <<paceWorld, alertId, stored, paceJobVars, notices, raises>>

(* syncOnce, syncTenant, syncCredential: the upserts commit together.  A   *)
(* credential that fails is logged and the checks run on what is stored.   *)
Sync(p) ==
  /\ paceStage[p] = "idle"
  /\ \/ UNCHANGED environment /\ stored' = pace
     \/ Fault /\ UNCHANGED stored
  /\ paceLeft' = [paceLeft EXCEPT ![p] = {b \in Budgets : budgetOn[b]}]
  /\ paceTo' = [paceTo EXCEPT ![p] = {b \in Budgets : budgetOn[b] /\ addressed[b]}]
  /\ paceStage' = [paceStage EXCEPT ![p] = "budgets"]
  /\ UNCHANGED <<paceWorld, paceAlert, paceAt, paceFound, paceSeen, paceSeenId, notices, raises>>

(* checkBudget: the spend, and calculateBudgetPace *)
ReadSpend(p) ==
  /\ paceStage[p] = "budgets"
  /\ \E b \in paceLeft[p] :
       /\ paceLeft' = [paceLeft EXCEPT ![p] = @ \ {b}]
       /\ paceAt' = [paceAt EXCEPT ![p] = b]
       /\ paceFound' = [paceFound EXCEPT ![p] = stored[b]]
  /\ paceStage' = [paceStage EXCEPT ![p] = "read"]
  /\ UNCHANGED <<environment, paceWorld, stored, paceAlert, paceTo, paceSeen, paceSeenId,
                 notices, raises>>

(* The second transaction: the active alert *)
ReadAlert(p) ==
  /\ paceStage[p] = "read"
  /\ paceSeen' = [paceSeen EXCEPT ![p] = alert[paceAt[p]]]
  /\ paceSeenId' = [paceSeenId EXCEPT ![p] = alertId[paceAt[p]]]
  /\ paceStage' = [paceStage EXCEPT ![p] = "write"]
  /\ UNCHANGED <<environment, paceWorld, stored, paceAlert, paceLeft, paceTo, paceAt,
                 paceFound, notices, raises>>

(* An alert opens, or severityIncreased *)
Rises(p) == paceFound[p] > paceSeen[p]

(* Somebody is told of it: notify does not return at once *)
Announces(p) == Rises(p) /\ paceAt[p] \in paceTo[p]

(* On to the next budget *)
NextBudget(p) ==
  /\ paceStage' = [paceStage EXCEPT ![p] = "budgets"]
  /\ paceAt' = [paceAt EXCEPT ![p] = None]
  /\ paceFound' = [paceFound EXCEPT ![p] = 0]
  /\ paceSeen' = [paceSeen EXCEPT ![p] = 0]
  /\ paceSeenId' = [paceSeenId EXCEPT ![p] = 0]

(* The statement that writes the alert gets the row.  An INSERT finds an   *)
(* active alert that somebody else committed: it fails, and so does the    *)
(* check of this budget.                                                   *)
WriteAlert(p) ==
  LET b == paceAt[p]
  IN  /\ paceStage[p] = "write" /\ ~(Writes(p) /\ RowHeld(b))
      /\ IF paceFound[p] > 0 /\ paceSeen[p] = 0 /\ alert[b] # 0
         THEN NextBudget(p)
         ELSE /\ paceStage' = [paceStage EXCEPT ![p] = IF Rises(p) THEN "notify" ELSE "commit"]
              /\ UNCHANGED <<paceAt, paceFound, paceSeen, paceSeenId>>
      /\ UNCHANGED <<environment, paceWorld, stored, paceAlert, paceLeft, paceTo, notices, raises>>

(* notify: without channel or recipient nothing; else the notification is  *)
(* enqueued in a transaction of its own                                    *)
NotifyOwner(p) ==
  /\ paceStage[p] = "notify"
  /\ notices' = [notices EXCEPT ![paceAt[p]] = IF Announces(p) THEN @ + 1 ELSE @]
  /\ paceStage' = [paceStage EXCEPT ![p] = "commit"]
  /\ UNCHANGED <<environment, paceWorld, stored, paceAlert, paceLeft, paceTo, paceAt,
                 paceFound, paceSeen, paceSeenId, raises>>

(* What an INSERT or an UPDATE of the row that was read leaves.  A row     *)
(* that was resolved meanwhile stays resolved (the status is not in the    *)
(* SET list), and a newer alert is another row.                            *)
Written(p) ==
  LET b == paceAt[p]
      gone == \/ ~Writes(p)
              \/ paceSeen[p] # 0 /\ (alert[b] = 0 \/ alertId[b] # paceSeenId[p])
  IN  /\ alert' = [alert EXCEPT ![b] = IF gone THEN @ ELSE paceFound[p]]
      /\ alertId' = [alertId EXCEPT ![b] = IF paceSeen[p] = 0 /\ paceFound[p] > 0
                                           THEN @ + 1 ELSE @]
      /\ raises' = [raises EXCEPT ![b] = IF Announces(p) THEN @ + 1 ELSE @]

(* COMMIT *)
CommitAlert(p) ==
  /\ paceStage[p] = "commit"
  /\ Written(p)
  /\ NextBudget(p)
  /\ UNCHANGED <<environment, paceWorld, stored, paceLeft, paceTo, notices>>

(* Mutant of CheckFails: the alert is kept when the notification fails *)
CheckFailsKept(p) ==
  /\ paceStage[p] = "notify"
  /\ Fault
  /\ Written(p)
  /\ NextBudget(p)
  /\ UNCHANGED <<paceWorld, stored, paceLeft, paceTo, notices>>

(* A statement or the enqueue fails: ROLLBACK, logged, the next budget *)
CheckFails(p) ==
  /\ paceStage[p] \in {"read", "write", "notify", "commit"}
  /\ Fault
  /\ NextBudget(p)
  /\ UNCHANGED <<paceWorld, stored, paceAlert, paceLeft, paceTo, notices, raises>>

(* The anomaly check, whose upserts no other step reads, and the end *)
SyncEnds(p) ==
  /\ paceStage[p] = "budgets" /\ paceLeft[p] = {}
  /\ paceStage' = [paceStage EXCEPT ![p] = "idle"]
  /\ paceTo' = [paceTo EXCEPT ![p] = {}]
  /\ UNCHANGED <<environment, paceWorld, stored, paceAlert, paceLeft, paceAt,
                 paceFound, paceSeen, paceSeenId, notices, raises>>

(* The process stops: its transaction is rolled back, its sync is gone *)
SyncCrash(p) ==
  /\ paceStage[p] # "idle"
  /\ Fault
  /\ paceStage' = [paceStage EXCEPT ![p] = "idle"]
  /\ paceLeft' = [paceLeft EXCEPT ![p] = {}]
  /\ paceTo' = [paceTo EXCEPT ![p] = {}]
  /\ paceAt' = [paceAt EXCEPT ![p] = None]
  /\ paceFound' = [paceFound EXCEPT ![p] = 0]
  /\ paceSeen' = [paceSeen EXCEPT ![p] = 0]
  /\ paceSeenId' = [paceSeenId EXCEPT ![p] = 0]
  /\ UNCHANGED <<paceWorld, stored, paceAlert, notices, raises>>

-----------------------------------------------------------------------------
PaceJob(p) ==
  \/ Sync(p) \/ ReadSpend(p) \/ ReadAlert(p) \/ WriteAlert(p) \/ NotifyOwner(p)
  \/ CommitAlert(p) \/ SyncEnds(p)

PaceNext ==
  \/ \E b \in Budgets : SpendMoves(b) \/ PauseBudget(b) \/ EditRecipient(b)
                        \/ ResolveByHand(b)
  \/ \E p \in deployed : PaceJob(p) \/ CheckFails(p) \/ SyncCrash(p)

PaceSpec == PaceInit /\ [][PaceNext]_<<environment, paceVars>>

-----------------------------------------------------------------------------
(* Every variable stays in its type, and a row is written by one           *)
(* transaction at a time.                                                  *)
PaceTypeOK ==
  /\ EnvTypeOK
  /\ pace \in [Budgets -> Paces]
  /\ stored \in [Budgets -> Paces]
  /\ budgetOn \in [Budgets -> BOOLEAN]
  /\ addressed \in [Budgets -> BOOLEAN]
  /\ alert \in [Budgets -> Paces]
  /\ alertId \in [Budgets -> Nat]
  /\ paceStage \in [Processes -> {"idle", "budgets", "read", "write", "notify", "commit"}]
  /\ paceLeft \in [Processes -> SUBSET Budgets]
  /\ paceTo \in [Processes -> SUBSET Budgets]
  /\ paceAt \in [Processes -> Budgets \cup {None}]
  /\ paceFound \in [Processes -> Paces]
  /\ paceSeen \in [Processes -> Paces]
  /\ paceSeenId \in [Processes -> Nat]
  /\ notices \in [Budgets -> Nat]
  /\ raises \in [Budgets -> Nat]
  /\ \A p, q \in Processes, b \in Budgets : Holds(p, b) /\ Holds(q, b) => p = q

PacePromise == INSTANCE ActThenMark
  WITH Items <- Budgets, acted <- notices, marked <- raises

(* Where the check read a channel and a recipient, no alert opens or gets  *)
(* worse on record without a notification of its own: the check implements *)
(* ActThenMark.  (A budget without them raises its alerts unannounced.)    *)
PaceImplementsPromise == PacePromise!ActSpec

(* "Only re-notifies when a new alert opens or its severity gets worse":   *)
(* what is sent beyond the recorded rises is accounted for by the faults   *)
(* and by processes that are between notify and COMMIT.                    *)
NoticesAreBounded ==
  \A b \in Budgets :
    notices[b] <= raises[b] + faults
      + Cardinality({p \in Processes : paceAt[p] = b /\ paceStage[p] = "commit"
                                       /\ Announces(p)})

(* A pace that stays is what the alert ends up saying, unless the budget   *)
(* is switched off: every failed, rolled back or late check is made up for *)
(* by a later one.                                                         *)
AlertFollowsSpend ==
  \A b \in Budgets : [](now = MaxTime /\ budgetOn[b] => <>(alert[b] = pace[b]))

=============================================================================
