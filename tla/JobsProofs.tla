------------------------------ MODULE JobsProofs ------------------------------
(***************************************************************************)
(* Proofs about the background jobs that mark what they did in a table of  *)
(* their own (budget pace, email intake, log alerts, network poller,       *)
(* scheduled reports, cost recommendations) and about the limiter's        *)
(* counter, for any number of processes, of items and of faults.           *)
(***************************************************************************)
EXTENDS Jobs, FixedWindow, FiniteSetTheorems, TLAPS

-----------------------------------------------------------------------------
(* What the jobs share: the environment *)

LEMMA EnvironmentKept == ASSUME EnvTypeOK, UNCHANGED environment PROVE EnvTypeOK'
BY DEF EnvTypeOK, environment, Times

LEMMA FaultTyped == ASSUME EnvTypeOK, Fault PROVE EnvTypeOK' /\ faults' > 0
BY EnvironmentAssumption DEF EnvTypeOK, Fault, Times

LEMMA TickTyped == ASSUME EnvTypeOK, ClockTick PROVE EnvTypeOK'
BY EnvironmentAssumption DEF EnvTypeOK, ClockTick, Times

(* One element more, fewer, or at most one less, in a finite set *)
LEMMA OneMore ==
  ASSUME NEW S, IsFiniteSet(S), NEW A \in SUBSET S, NEW B, NEW p, p \notin A, B = A \cup {p}
  PROVE  Cardinality(A) \in Nat /\ Cardinality(B) = Cardinality(A) + 1
<1>1. IsFiniteSet(A)
  BY FS_Subset
<1> QED
  BY <1>1, FS_AddElement, FS_CardinalityType

LEMMA NoMoreOrOneLess ==
  ASSUME NEW S, IsFiniteSet(S), NEW A \in SUBSET S, NEW B \in SUBSET S, NEW p
  PROVE  /\ Cardinality(A) \in Nat /\ Cardinality(B) \in Nat
         /\ A \subseteq B => Cardinality(A) <= Cardinality(B)
         /\ A \subseteq B \cup {p} => Cardinality(A) <= Cardinality(B) + 1
<1>1. IsFiniteSet(A) /\ IsFiniteSet(B)
  BY FS_Subset
<1>2. Cardinality(A) \in Nat /\ Cardinality(B) \in Nat
  BY <1>1, FS_CardinalityType
<1>3. A \subseteq B => Cardinality(A) <= Cardinality(B)
  BY <1>1, FS_Subset
<1>4. IsFiniteSet(B \cup {p}) /\ Cardinality(B \cup {p}) \in {Cardinality(B), Cardinality(B) + 1}
  BY <1>1, FS_AddElement
<1>5. ASSUME A \subseteq B \cup {p}
      PROVE  Cardinality(A) <= Cardinality(B) + 1
  <2>1. Cardinality(A) <= Cardinality(B \cup {p})
    BY <1>4, <1>5, FS_Subset
  <2> QED
    BY <1>2, <1>4, <2>1
<1> QED
  BY <1>2, <1>3, <1>5

(* The same of sets of processes *)
LEMMA CountOneMore ==
  ASSUME NEW A \in SUBSET Processes, NEW B, NEW p \in Processes, p \notin A, B = A \cup {p}
  PROVE  Cardinality(A) \in Nat /\ Cardinality(B) = Cardinality(A) + 1
BY OneMore, EnvironmentAssumption

LEMMA CountWithin ==
  ASSUME NEW A \in SUBSET Processes, NEW B \in SUBSET Processes, NEW p
  PROVE  /\ Cardinality(A) \in Nat /\ Cardinality(B) \in Nat
         /\ A \subseteq B => Cardinality(A) <= Cardinality(B)
         /\ A \subseteq B \cup {p} => Cardinality(A) <= Cardinality(B) + 1
BY NoMoreOrOneLess, EnvironmentAssumption

-----------------------------------------------------------------------------
(* BudgetPace implements ActThenMark *)

pvars == <<environment, paceVars>>

Checking == {"read", "write", "notify", "commit"}

(* A check has a budget, and one that is notifying found a rise *)
ChecksOK ==
  \A p \in Processes :
    /\ paceStage[p] \in Checking => paceAt[p] \in Budgets
    /\ paceStage[p] = "notify" => Rises(p)

(* The notification of a rise that is about to be committed is out         *)
(* already, where somebody is to be told                                   *)
RiseIsNoticed ==
  /\ \A b \in Budgets : raises[b] <= notices[b]
  /\ \A p \in Processes :
       paceStage[p] = "commit" /\ Announces(p) => raises[paceAt[p]] < notices[paceAt[p]]

(* The inductive invariant *)
PaceInv == PaceTypeOK /\ ChecksOK /\ RiseIsNoticed

-----------------------------------------------------------------------------
LEMMA PaceInitInv == PaceInit => PaceInv
BY EnvironmentAssumption, PaceAssumption
   DEF PaceInit, EnvInit, PaceInv, PaceTypeOK, EnvTypeOK, Times, Paces, ChecksOK, Checking,
       RiseIsNoticed, Announces, Rises, Holds, Writes

(* Steps that leave the jobs and the counts alone *)
LEMMA JobsKept ==
  ASSUME PaceInv, UNCHANGED <<paceJobVars, notices, raises>>
  PROVE  /\ ChecksOK' /\ RiseIsNoticed'
         /\ \A p, q \in Processes, b \in Budgets : (Holds(p, b) /\ Holds(q, b))' => p = q
BY DEF PaceInv, PaceTypeOK, paceJobVars, ChecksOK, RiseIsNoticed, Announces, Rises, Holds, Writes

(* A process goes on to the next budget and holds nothing *)
LEMMA NextBudgetInv ==
  ASSUME PaceInv, NEW p \in Processes, NextBudget(p),
         UNCHANGED <<notices, raises, paceLeft, paceTo>>
  PROVE  /\ ChecksOK' /\ RiseIsNoticed'
         /\ paceStage' \in [Processes -> {"idle", "budgets", "read", "write", "notify", "commit"}]
         /\ paceAt' \in [Processes -> Budgets \cup {None}]
         /\ paceFound' \in [Processes -> Paces]
         /\ paceSeen' \in [Processes -> Paces]
         /\ paceSeenId' \in [Processes -> Nat]
         /\ \A q, r \in Processes, b \in Budgets : (Holds(q, b) /\ Holds(r, b))' => q = r
BY PaceAssumption
   DEF PaceInv, PaceTypeOK, NextBudget, ChecksOK, Checking, RiseIsNoticed, Announces, Rises, Holds,
       Writes, Paces

LEMMA PaceNextInv == PaceInv /\ [PaceNext]_pvars => PaceInv'
<1> SUFFICES ASSUME PaceInv, [PaceNext]_pvars
             PROVE  PaceInv'
  OBVIOUS
<1> USE PaceAssumption
<1>0. EnvTypeOK /\ deployed \subseteq Processes
  BY DEF PaceInv, PaceTypeOK, EnvTypeOK
<1>1. ASSUME NEW b \in Budgets, SpendMoves(b)
      PROVE  PaceInv'
  BY <1>0, <1>1, TickTyped, JobsKept
     DEF SpendMoves, PaceInv, PaceTypeOK, paceAlert, paceJobVars
<1>2. ASSUME NEW b \in Budgets, PauseBudget(b)
      PROVE  PaceInv'
  <2>1. budgetOn' \in [Budgets -> BOOLEAN]
    BY <1>2 DEF PauseBudget, PaceInv, PaceTypeOK
  <2> QED
    BY <1>0, <1>2, <2>1, TickTyped, JobsKept
       DEF PauseBudget, PaceInv, PaceTypeOK, paceAlert, paceJobVars
<1>14. ASSUME NEW b \in Budgets, EditRecipient(b)
       PROVE  PaceInv'
  <2>1. addressed' \in [Budgets -> BOOLEAN]
    BY <1>14 DEF EditRecipient, PaceInv, PaceTypeOK
  <2> QED
    BY <1>0, <1>14, <2>1, TickTyped, JobsKept
       DEF EditRecipient, PaceInv, PaceTypeOK, paceAlert, paceJobVars
<1>3. ASSUME NEW b \in Budgets, ResolveByHand(b)
      PROVE  PaceInv'
  BY <1>0, <1>3, TickTyped, JobsKept
     DEF ResolveByHand, PaceInv, PaceTypeOK, paceWorld, paceJobVars, Paces
<1>4. ASSUME NEW p \in Processes, Sync(p)
      PROVE  PaceInv'
  <2>1. EnvTypeOK'
    BY <1>0, <1>4, EnvironmentKept, FaultTyped DEF Sync
  <2>2. PaceTypeOK'
    BY <1>4, <2>1 DEF Sync, PaceInv, PaceTypeOK, paceWorld, paceAlert, Holds, Writes
  <2>3. ChecksOK' /\ RiseIsNoticed'
    BY <1>4 DEF Sync, PaceInv, PaceTypeOK, ChecksOK, Checking, RiseIsNoticed, Announces, Rises
  <2> QED
    BY <2>2, <2>3 DEF PaceInv
<1>5. ASSUME NEW p \in Processes, ReadSpend(p)
      PROVE  PaceInv'
  <2>1. PaceTypeOK'
    BY <1>0, <1>5, EnvironmentKept
       DEF ReadSpend, PaceInv, PaceTypeOK, paceWorld, paceAlert, Holds, Writes
  <2>2. ChecksOK' /\ RiseIsNoticed'
    BY <1>5 DEF ReadSpend, PaceInv, PaceTypeOK, ChecksOK, Checking, RiseIsNoticed, Announces, Rises
  <2> QED
    BY <2>1, <2>2 DEF PaceInv
<1>6. ASSUME NEW p \in Processes, ReadAlert(p)
      PROVE  PaceInv'
  <2>0. paceAt[p] \in Budgets
    BY <1>6 DEF ReadAlert, PaceInv, ChecksOK, Checking
  <2>1. PaceTypeOK'
    BY <1>0, <1>6, <2>0, EnvironmentKept
       DEF ReadAlert, PaceInv, PaceTypeOK, paceWorld, paceAlert, Holds, Writes
  <2>2. ChecksOK' /\ RiseIsNoticed'
    BY <1>6 DEF ReadAlert, PaceInv, PaceTypeOK, ChecksOK, Checking, RiseIsNoticed, Announces, Rises
  <2> QED
    BY <2>1, <2>2 DEF PaceInv
<1>7. ASSUME NEW p \in Processes, WriteAlert(p)
      PROVE  PaceInv'
  <2>0. /\ paceAt[p] \in Budgets /\ EnvTypeOK'
        /\ UNCHANGED <<pace, budgetOn, addressed, stored, alert, alertId, paceLeft, paceTo,
                       notices, raises>>
    BY <1>0, <1>7, EnvironmentKept
       DEF WriteAlert, PaceInv, ChecksOK, Checking, paceWorld, paceAlert
  <2>1. CASE NextBudget(p)
    BY <2>0, <2>1, NextBudgetInv DEF PaceInv, PaceTypeOK
  <2>2. CASE ~NextBudget(p)
    <3>1. /\ paceStage' = [paceStage EXCEPT ![p] = IF Rises(p) THEN "notify" ELSE "commit"]
          /\ UNCHANGED <<paceAt, paceFound, paceSeen, paceSeenId>>
          /\ ~(Writes(p) /\ RowHeld(paceAt[p]))
      BY <1>7, <2>2 DEF WriteAlert
    <3>2. PaceTypeOK'
      BY <2>0, <3>1 DEF PaceInv, PaceTypeOK, RowHeld, Holds, Writes
    <3>3. ChecksOK' /\ RiseIsNoticed'
      BY <2>0, <3>1 DEF PaceInv, PaceTypeOK, ChecksOK, Checking, RiseIsNoticed, Announces, Rises
    <3> QED
      BY <3>2, <3>3 DEF PaceInv
  <2> QED
    BY <2>1, <2>2
<1>8. ASSUME NEW p \in Processes, NotifyOwner(p)
      PROVE  PaceInv'
  <2>0. paceAt[p] \in Budgets
    BY <1>8 DEF NotifyOwner, PaceInv, ChecksOK, Checking
  <2>1. PaceTypeOK'
    BY <1>0, <1>8, <2>0, EnvironmentKept
       DEF NotifyOwner, PaceInv, PaceTypeOK, paceWorld, paceAlert, Holds, Writes
  <2>2. ChecksOK'
    BY <1>8 DEF NotifyOwner, PaceInv, PaceTypeOK, ChecksOK, Checking, Rises
  <2>3. RiseIsNoticed'
    BY <1>8, <2>0
       DEF NotifyOwner, PaceInv, PaceTypeOK, ChecksOK, Checking, RiseIsNoticed, Announces, Rises
  <2> QED
    BY <2>1, <2>2, <2>3 DEF PaceInv
<1>9. ASSUME NEW p \in Processes, CommitAlert(p)
      PROVE  PaceInv'
  <2> DEFINE b == paceAt[p]
  <2>0. /\ b \in Budgets /\ EnvTypeOK'
        /\ UNCHANGED <<pace, budgetOn, addressed, stored, paceLeft, paceTo, notices>>
    BY <1>0, <1>9, EnvironmentKept
       DEF CommitAlert, PaceInv, ChecksOK, Checking, paceWorld
  <2>1. alert' \in [Budgets -> Paces] /\ alertId' \in [Budgets -> Nat]
    BY <1>9, <2>0 DEF CommitAlert, Written, PaceInv, PaceTypeOK
  <2>2. raises' = [raises EXCEPT ![b] = IF Announces(p) THEN @ + 1 ELSE @] /\ NextBudget(p)
    BY <1>9 DEF CommitAlert, Written
  <2>3. PaceTypeOK'
    <3>1. raises' \in [Budgets -> Nat]
      BY <2>0, <2>2 DEF PaceInv, PaceTypeOK
    <3>2. paceStage'[p] = "budgets" /\ paceFound'[p] = 0 /\ paceSeen'[p] = 0
      BY <2>2 DEF NextBudget, PaceInv, PaceTypeOK
    <3> QED
      BY <2>0, <2>1, <2>2, <3>1, <3>2
         DEF NextBudget, PaceInv, PaceTypeOK, Holds, Writes, Paces
  <2>4. ChecksOK'
    BY <2>0, <2>2 DEF NextBudget, PaceInv, PaceTypeOK, ChecksOK, Checking, Rises
  <2>5. RiseIsNoticed'
    <3>1. ASSUME NEW q \in Processes, q # p, paceStage[q] = "commit", Announces(q), Announces(p)
          PROVE  paceAt[q] # b
      <4>1. paceStage[p] = "commit"
        BY <1>9 DEF CommitAlert
      <4>2. Writes(p) /\ Writes(q)
        BY <3>1, SMTT(40) DEF Announces, Rises, Writes, PaceInv, PaceTypeOK, Paces
      <4> QED
        BY <2>0, <3>1, <4>1, <4>2 DEF PaceInv, PaceTypeOK, Holds
    <3>2. \A c \in Budgets : raises'[c] <= notices'[c]
      BY <1>9, <2>0, <2>2 DEF CommitAlert, PaceInv, PaceTypeOK, RiseIsNoticed
    <3>3. ASSUME NEW q \in Processes, paceStage'[q] = "commit", Announces(q)'
          PROVE  raises'[paceAt'[q]] < notices'[paceAt'[q]]
      <4>1. q # p /\ paceStage[q] = "commit" /\ Announces(q) /\ paceAt'[q] = paceAt[q]
        BY <2>0, <2>2, <3>3 DEF NextBudget, PaceInv, PaceTypeOK, Announces, Rises
      <4>2. raises[paceAt[q]] < notices[paceAt[q]] /\ paceAt[q] \in Budgets
        BY <4>1 DEF PaceInv, RiseIsNoticed, ChecksOK, Checking
      <4>3. raises'[paceAt[q]] = raises[paceAt[q]]
        BY <2>0, <2>2, <3>1, <4>1, <4>2 DEF PaceInv, PaceTypeOK
      <4> QED
        BY <2>0, <4>1, <4>2, <4>3
    <3> QED
      BY <3>2, <3>3 DEF RiseIsNoticed
  <2> QED
    BY <2>3, <2>4, <2>5 DEF PaceInv
<1>10. ASSUME NEW p \in Processes, CheckFails(p)
       PROVE  PaceInv'
  BY <1>0, <1>10, FaultTyped, NextBudgetInv
     DEF CheckFails, PaceInv, PaceTypeOK, paceWorld, paceAlert
<1>11. ASSUME NEW p \in Processes, SyncEnds(p)
       PROVE  PaceInv'
  <2>1. PaceTypeOK'
    BY <1>0, <1>11, EnvironmentKept
       DEF SyncEnds, PaceInv, PaceTypeOK, paceWorld, paceAlert, Holds, Writes
  <2>2. ChecksOK' /\ RiseIsNoticed'
    BY <1>11 DEF SyncEnds, PaceInv, PaceTypeOK, ChecksOK, Checking, RiseIsNoticed, Announces, Rises
  <2> QED
    BY <2>1, <2>2 DEF PaceInv
<1>12. ASSUME NEW p \in Processes, SyncCrash(p)
       PROVE  PaceInv'
  <2>1. PaceTypeOK'
    BY <1>0, <1>12, FaultTyped
       DEF SyncCrash, PaceInv, PaceTypeOK, paceWorld, paceAlert, Holds, Writes, Paces
  <2>2. ChecksOK' /\ RiseIsNoticed'
    BY <1>12 DEF SyncCrash, PaceInv, PaceTypeOK, ChecksOK, Checking, RiseIsNoticed, Announces, Rises
  <2> QED
    BY <2>1, <2>2 DEF PaceInv
<1>13. CASE UNCHANGED pvars
  BY <1>0, <1>13, EnvironmentKept, JobsKept
     DEF pvars, paceVars, paceWorld, paceAlert, paceJobVars, PaceInv, PaceTypeOK
<1> QED
  BY <1>0, <1>1, <1>2, <1>3, <1>4, <1>5, <1>6, <1>7, <1>8, <1>9, <1>10, <1>11, <1>12, <1>13, <1>14
     DEF PaceNext, PaceJob

(* Two checks never hold the row of one budget's alert at once, and every  *)
(* check keeps to its stages.                                              *)
THEOREM PaceTypeCorrect == PaceSpec => []PaceTypeOK
<1>1. PaceInit => PaceInv
  BY PaceInitInv
<1>2. PaceInv /\ [PaceNext]_pvars => PaceInv'
  BY PaceNextInv
<1>3. PaceInv => PaceTypeOK
  BY DEF PaceInv
<1> QED
  BY <1>1, <1>2, <1>3, PTL DEF PaceSpec, pvars

-----------------------------------------------------------------------------
LEMMA PaceInitRefines == PaceInit => PacePromise!ActInit
BY DEF PaceInit, PacePromise!ActInit

LEMMA PaceNextRefines ==
  PaceInv /\ [PaceNext]_pvars => [PacePromise!ActNext]_PacePromise!promise
<1> SUFFICES ASSUME PaceInv, [PaceNext]_pvars
             PROVE  PacePromise!ActNext \/ (notices' = notices /\ raises' = raises)
  BY DEF PacePromise!promise
<1>0. /\ deployed \subseteq Processes
      /\ raises \in [Budgets -> Nat] /\ notices \in [Budgets -> Nat]
  BY DEF PaceInv, PaceTypeOK, EnvTypeOK
<1>1. ASSUME NEW b \in Budgets, SpendMoves(b) \/ PauseBudget(b) \/ EditRecipient(b) \/ ResolveByHand(b)
      PROVE  notices' = notices /\ raises' = raises
  BY <1>1 DEF SpendMoves, PauseBudget, EditRecipient, ResolveByHand
<1>2. ASSUME NEW p \in Processes,
             \/ Sync(p) \/ ReadSpend(p) \/ ReadAlert(p) \/ WriteAlert(p)
             \/ SyncEnds(p) \/ CheckFails(p) \/ SyncCrash(p)
      PROVE  notices' = notices /\ raises' = raises
  BY <1>2 DEF Sync, ReadSpend, ReadAlert, WriteAlert, SyncEnds, CheckFails, SyncCrash
<1>3. ASSUME NEW p \in Processes, NotifyOwner(p)
      PROVE  PacePromise!ActNext \/ (notices' = notices /\ raises' = raises)
  <2>1. paceAt[p] \in Budgets
    BY <1>3 DEF NotifyOwner, PaceInv, ChecksOK, Checking
  <2>2. CASE Announces(p)
    BY <1>3, <2>1, <2>2 DEF NotifyOwner, PacePromise!ActNext, PacePromise!Act
  <2>3. CASE ~Announces(p)
    BY <1>0, <1>3, <2>3 DEF NotifyOwner
  <2> QED
    BY <2>2, <2>3
<1>4. ASSUME NEW p \in Processes, CommitAlert(p)
      PROVE  PacePromise!ActNext \/ (notices' = notices /\ raises' = raises)
  <2> DEFINE b == paceAt[p]
  <2>1. /\ b \in Budgets /\ notices' = notices
        /\ Announces(p) => raises[b] < notices[b]
    BY <1>4 DEF CommitAlert, PaceInv, ChecksOK, Checking, RiseIsNoticed
  <2>2. raises' = [raises EXCEPT ![b] = IF Announces(p) THEN @ + 1 ELSE @]
    BY <1>4 DEF CommitAlert, Written
  <2> HIDE DEF b
  <2>3. CASE ~Announces(p)
    <3>1. raises' = raises
      BY <1>0, <2>2, <2>3
    <3> QED
      BY <2>1, <3>1
  <2>4. CASE Announces(p)
    <3>1. raises' = [i \in Budgets |-> IF i \in {b} THEN raises[i] + 1 ELSE raises[i]]
      BY <1>0, <2>1, <2>2, <2>4
    <3>2. {b} \in SUBSET Budgets /\ \A i \in {b} : raises[i] < notices[i]
      BY <2>1, <2>4
    <3> QED
      BY <2>1, <3>1, <3>2 DEF PacePromise!ActNext, PacePromise!Mark
  <2> QED
    BY <2>3, <2>4
<1>5. CASE UNCHANGED pvars
  BY <1>5 DEF pvars, paceVars
<1> QED
  BY <1>0, <1>1, <1>2, <1>3, <1>4, <1>5 DEF PaceNext, PaceJob

(* The check implements ActThenMark: no committed opening or rise of the   *)
(* alert of a budget that was read with a channel and a recipient is       *)
(* without a notification of its own, whichever transactions of other      *)
(* processes were rolled back, waited or failed and however the budget is  *)
(* edited.                                                                 *)
THEOREM PaceRefines == PaceSpec => PaceImplementsPromise
<1>1. PaceInit => PaceInv /\ PacePromise!ActInit
  BY PaceInitInv, PaceInitRefines
<1>2. PaceInv /\ [PaceNext]_pvars => PaceInv'
  BY PaceNextInv
<1>3. PaceInv /\ [PaceNext]_pvars => [PacePromise!ActNext]_PacePromise!promise
  BY PaceNextRefines
<1> QED
  BY <1>1, <1>2, <1>3, PTL DEF PaceSpec, pvars, PaceImplementsPromise, PacePromise!ActSpec

-----------------------------------------------------------------------------
(* EmailIntake implements ActThenMark *)

mvars == <<environment, mailVars>>

(* What the refinement rests on: a message that is about to be flagged, or *)
(* was flagged, has been stored.                                           *)
FlaggedIsFiled ==
  /\ \A p \in Processes : mailStage[p] = "flag" => mailFiled[mailAt[p]] > 0
  /\ \A m \in Mails : mail[m] = "seen" => mailFiled[m] > 0

(* The inductive invariant *)
MailInv == MailTypeOK /\ FlaggedIsFiled

-----------------------------------------------------------------------------
LEMMA MailInitInv == MailInit => MailInv
BY EnvironmentAssumption, MailAssumption
   DEF MailInit, EnvInit, MailInv, MailTypeOK, EnvTypeOK, Times, FlaggedIsFiled

LEMMA MailNextInv == MailInv /\ [MailNext]_mvars => MailInv'
<1> SUFFICES ASSUME MailInv, [MailNext]_mvars
             PROVE  MailInv'
  OBVIOUS
<1> USE MailAssumption
<1>0. EnvTypeOK /\ deployed \subseteq Processes
  BY DEF MailInv, MailTypeOK, EnvTypeOK
<1>1. ASSUME NEW m \in Mails, Arrive(m)
      PROVE  MailInv'
  BY <1>0, <1>1, EnvironmentKept
     DEF Arrive, mailJobVars, MailInv, MailTypeOK, FlaggedIsFiled
<1>2. ASSUME NEW p \in Processes, Fetch(p)
      PROVE  MailInv'
  BY <1>0, <1>2, EnvironmentKept
     DEF Fetch, MailInv, MailTypeOK, FlaggedIsFiled
<1>3. ASSUME NEW p \in Processes, TakeMail(p)
      PROVE  MailInv'
  BY <1>0, <1>3, EnvironmentKept
     DEF TakeMail, MailInv, MailTypeOK, FlaggedIsFiled
<1>4. ASSUME NEW p \in Processes, CreateFromMail(p)
      PROVE  MailInv'
  BY <1>0, <1>4, EnvironmentKept
     DEF CreateFromMail, MailInv, MailTypeOK, FlaggedIsFiled
<1>5. ASSUME NEW p \in Processes, FileMail(p)
      PROVE  MailInv'
  BY <1>0, <1>5, EnvironmentKept
     DEF FileMail, MailInv, MailTypeOK, FlaggedIsFiled
<1>6. ASSUME NEW p \in Processes, FlagSeen(p)
      PROVE  MailInv'
  BY <1>0, <1>6, EnvironmentKept
     DEF FlagSeen, MailInv, MailTypeOK, FlaggedIsFiled
<1>7. ASSUME NEW p \in Processes, PollEnds(p)
      PROVE  MailInv'
  <2>1. EnvTypeOK'
    BY <1>0, <1>7, EnvironmentKept, FaultTyped DEF PollEnds
  <2> QED
    BY <1>7, <2>1 DEF PollEnds, MailInv, MailTypeOK, FlaggedIsFiled
<1>8. ASSUME NEW p \in Processes, MailFails(p)
      PROVE  MailInv'
  <2>1. EnvTypeOK'
    BY <1>0, <1>8, FaultTyped DEF MailFails
  <2> QED
    BY <1>8, <2>1 DEF MailFails, MailInv, MailTypeOK, FlaggedIsFiled
<1>9. CASE UNCHANGED mvars
  BY <1>0, <1>9, EnvironmentKept
     DEF mvars, mailVars, mailJobVars, MailInv, MailTypeOK, FlaggedIsFiled
<1> QED
  BY <1>0, <1>1, <1>2, <1>3, <1>4, <1>5, <1>6, <1>7, <1>8, <1>9 DEF MailNext, MailPoll

(* Every poll keeps to its stages, whatever fails. *)
THEOREM MailTypeCorrect == MailSpec => []MailTypeOK
<1>1. MailInit => MailInv
  BY MailInitInv
<1>2. MailInv /\ [MailNext]_mvars => MailInv'
  BY MailNextInv
<1>3. MailInv => MailTypeOK
  BY DEF MailInv
<1> QED
  BY <1>1, <1>2, <1>3, PTL DEF MailSpec, mvars

-----------------------------------------------------------------------------
(* The refinement mapping: \Seen is the mark *)
Flagged == [m \in Mails |-> IF mail[m] = "seen" THEN 1 ELSE 0]

LEMMA MailInitRefines == MailInit => MailPromise!ActInit
BY DEF MailInit, MailPromise!ActInit

LEMMA MailNextRefines ==
  MailInv /\ [MailNext]_mvars => [MailPromise!ActNext]_MailPromise!promise
<1> SUFFICES ASSUME MailInv, [MailNext]_mvars
             PROVE  MailPromise!ActNext \/ (mailFiled' = mailFiled /\ Flagged' = Flagged)
  BY DEF MailPromise!promise, Flagged
<1> USE MailAssumption
<1>0. /\ deployed \subseteq Processes
      /\ mail \in [Mails -> {"none", "unseen", "seen"}]
      /\ mailFiled \in [Mails -> Nat]
  BY DEF MailInv, MailTypeOK, EnvTypeOK
<1>1. ASSUME NEW m \in Mails, mailFiled' = [mailFiled EXCEPT ![m] = @ + 1], mail' = mail
      PROVE  MailPromise!ActNext
  BY <1>1 DEF MailPromise!ActNext, MailPromise!Act
<1>2. ASSUME NEW m \in Mails, Arrive(m)
      PROVE  mailFiled' = mailFiled /\ Flagged' = Flagged
  BY <1>0, <1>2 DEF Arrive, Flagged
<1>3. ASSUME NEW p \in Processes, FileMail(p)
      PROVE  MailPromise!ActNext
  <2>1. mailAt[p] \in Mails
    BY <1>3 DEF FileMail, MailInv, MailTypeOK
  <2> QED
    BY <1>1, <1>3, <2>1 DEF FileMail
<1>4. ASSUME NEW p \in Processes, FlagSeen(p)
      PROVE  MailPromise!ActNext \/ (mailFiled' = mailFiled /\ Flagged' = Flagged)
  <2> DEFINE m == mailAt[p]
  <2>1. m \in Mails /\ mailFiled[m] > 0
    BY <1>4 DEF FlagSeen, MailInv, MailTypeOK, FlaggedIsFiled
  <2>2. mailFiled' = mailFiled /\ mail' = [mail EXCEPT ![m] = "seen"]
    BY <1>4 DEF FlagSeen
  <2> HIDE DEF m
  <2>3. CASE mail[m] = "seen"
    <3>1. Flagged' = Flagged
      BY <1>0, <2>1, <2>2, <2>3 DEF Flagged
    <3> QED
      BY <2>2, <3>1
  <2>4. CASE mail[m] # "seen"
    <3>1. \A i \in {m} : Flagged[i] < mailFiled[i]
      BY <1>0, <2>1, <2>4 DEF Flagged
    <3>2. Flagged' = [i \in Mails |-> IF i \in {m} THEN Flagged[i] + 1 ELSE Flagged[i]]
      BY <1>0, <2>1, <2>2, <2>4 DEF Flagged
    <3>3. {m} \in SUBSET Mails
      BY <2>1
    <3> QED
      BY <2>2, <3>1, <3>2, <3>3 DEF MailPromise!ActNext, MailPromise!Mark, Flagged
  <2> QED
    BY <2>3, <2>4
<1>5. ASSUME NEW p \in Processes, MailFails(p)
      PROVE  MailPromise!ActNext \/ (mailFiled' = mailFiled /\ Flagged' = Flagged)
  <2>1. mailAt[p] \in Mails
    BY <1>5 DEF MailFails, MailInv, MailTypeOK
  <2>2. mail' = mail /\ Flagged' = Flagged
    BY <1>5 DEF MailFails, Flagged
  <2>3. CASE mailFiled' = mailFiled
    BY <2>2, <2>3
  <2>4. CASE mailFiled' = [mailFiled EXCEPT ![mailAt[p]] = @ + 1]
    BY <1>1, <2>1, <2>2, <2>4
  <2> QED
    BY <1>5, <2>3, <2>4 DEF MailFails
<1>6. ASSUME NEW p \in Processes,
             Fetch(p) \/ TakeMail(p) \/ CreateFromMail(p) \/ PollEnds(p)
      PROVE  mailFiled' = mailFiled /\ Flagged' = Flagged
  BY <1>6 DEF Fetch, TakeMail, CreateFromMail, PollEnds, Flagged
<1>7. CASE UNCHANGED mvars
  BY <1>7 DEF mvars, mailVars, Flagged
<1> QED
  BY <1>0, <1>2, <1>3, <1>4, <1>5, <1>6, <1>7 DEF MailNext, MailPoll

(* The intake implements ActThenMark: no message is ever flagged \Seen     *)
(* whose text is not stored in a ticket, through every failure, crash and  *)
(* overlap of polls.                                                       *)
THEOREM MailRefines == MailSpec => MailImplementsPromise
<1>1. MailInit => MailInv /\ MailPromise!ActInit
  BY MailInitInv, MailInitRefines
<1>2. MailInv /\ [MailNext]_mvars => MailInv'
  BY MailNextInv
<1>3. MailInv /\ [MailNext]_mvars => [MailPromise!ActNext]_MailPromise!promise
  BY MailNextRefines
<1> QED
  BY <1>1, <1>2, <1>3, PTL DEF MailSpec, mvars, MailImplementsPromise, MailPromise!ActSpec

-----------------------------------------------------------------------------
(* FixedWindow: every key expires *)

wvars == <<environment, windowVars>>

(* The requests let through are those the counter counted, up to the limit *)
PassedIsCounted == tally <= Limit + 1 /\ passed = (IF tally <= Limit THEN tally ELSE Limit)

(* The inductive invariant *)
WindowInv == WindowTypeOK /\ PassedIsCounted /\ KeyExpires

-----------------------------------------------------------------------------
LEMMA WindowInitInv == WindowInit => WindowInv
<1> SUFFICES ASSUME WindowInit
             PROVE  WindowInv
  OBVIOUS
<1> USE EnvironmentAssumption, WindowAssumption
<1>1. EnvTypeOK
  BY DEF WindowInit, EnvInit, EnvTypeOK, Times
<1>2. refused \in BOOLEAN
  BY Zenon DEF WindowInit
<1>3. tally \in Nat /\ passed \in 0..Limit /\ PassedIsCounted /\ KeyExpires
  BY DEF WindowInit, PassedIsCounted, KeyExpires
<1>4. ttl \in 1..Window \cup {None} /\ attempt \in [Requesters -> {"idle", "expire", "allowed"}]
  BY DEF WindowInit
<1> QED
  BY <1>1, <1>2, <1>3, <1>4 DEF WindowInv, WindowTypeOK

(* A key that is gone: nothing was counted since *)
LEMMA KeyGoneInv ==
  ASSUME KeyGone
  PROVE  /\ tally' = 0 /\ ttl' = None /\ passed' = 0 /\ refused' = FALSE
         /\ PassedIsCounted' /\ KeyExpires'
BY WindowAssumption DEF KeyGone, PassedIsCounted, KeyExpires

LEMMA WindowNextInv == WindowInv /\ [WindowNext]_wvars => WindowInv'
<1> SUFFICES ASSUME WindowInv, [WindowNext]_wvars
             PROVE  WindowInv'
  OBVIOUS
<1> USE WindowAssumption, EnvironmentAssumption
<1>0. EnvTypeOK
  BY DEF WindowInv, WindowTypeOK
<1>1. CASE WindowPasses
  <2>1. EnvTypeOK'
    BY <1>0, <1>1, EnvironmentKept DEF WindowPasses
  <2>2. CASE ttl = 1
    <3>1. KeyGone
      BY <1>1, <2>2 DEF WindowPasses
    <3> QED
      BY <1>1, <2>1, <3>1, KeyGoneInv DEF WindowInv, WindowTypeOK, WindowPasses
  <2>3. CASE ttl # 1
    <3>1. /\ ttl' = ttl - 1 /\ ttl \in 2..Window
          /\ UNCHANGED <<tally, passed, refused, attempt, environment>>
      BY <1>1, <2>3 DEF WindowPasses, WindowInv, WindowTypeOK
    <3> QED
      BY <2>1, <3>1 DEF WindowInv, WindowTypeOK, PassedIsCounted, KeyExpires
  <2> QED
    BY <2>2, <2>3
<1>2. ASSUME NEW r \in Requesters, Incr(r)
      PROVE  WindowInv'
  <2>1. EnvTypeOK' /\ faults' = faults
    BY <1>0, <1>2, EnvironmentKept DEF Incr, environment
  <2>2. PassedIsCounted' /\ tally' \in Nat /\ passed' \in 0..Limit
    BY <1>2 DEF Incr, Within, WindowInv, WindowTypeOK, PassedIsCounted
  <2>3. WindowTypeOK'
    BY <1>2, <2>1, <2>2 DEF Incr, Within, WindowInv, WindowTypeOK
  <2>4. KeyExpires'
    <3>1. CASE tally = 0
      BY <1>2, <3>1 DEF Incr, KeyExpires, WindowInv, WindowTypeOK
    <3>2. CASE tally > 0
      BY <1>2, <2>1, <3>2 DEF Incr, KeyExpires, WindowInv, WindowTypeOK
    <3> QED
      BY <3>1, <3>2 DEF WindowInv, WindowTypeOK
  <2> QED
    BY <2>2, <2>3, <2>4 DEF WindowInv
<1>3. ASSUME NEW r \in Requesters, Expire(r)
      PROVE  WindowInv'
  <2>1. EnvTypeOK' /\ faults' = faults
    BY <1>0, <1>3, EnvironmentKept DEF Expire, environment
  <2>2. WindowTypeOK'
    BY <1>3, <2>1 DEF Expire, WindowInv, WindowTypeOK
  <2>3. KeyExpires' /\ PassedIsCounted'
    BY <1>3 DEF Expire, WindowInv, WindowTypeOK, KeyExpires, PassedIsCounted
  <2> QED
    BY <2>2, <2>3 DEF WindowInv
<1>4. ASSUME NEW r \in Requesters, ClearLoginAttempts(r)
      PROVE  WindowInv'
  <2>1. EnvTypeOK'
    BY <1>0, <1>4, EnvironmentKept DEF ClearLoginAttempts
  <2> QED
    BY <1>4, <2>1, KeyGoneInv DEF ClearLoginAttempts, WindowInv, WindowTypeOK
<1>5. ASSUME NEW r \in Requesters, RequestEnds(r)
      PROVE  WindowInv'
  <2>1. EnvTypeOK' /\ faults' = faults
    BY <1>0, <1>5, EnvironmentKept DEF RequestEnds, environment
  <2>2. WindowTypeOK' /\ PassedIsCounted'
    BY <1>5, <2>1 DEF RequestEnds, WindowInv, WindowTypeOK, PassedIsCounted
  <2>3. KeyExpires'
    BY <1>5, <2>1 DEF RequestEnds, WindowInv, WindowTypeOK, KeyExpires
  <2> QED
    BY <2>2, <2>3 DEF WindowInv
<1>6. ASSUME NEW r \in Requesters, ExpireFails(r)
      PROVE  WindowInv'
  BY <1>0, <1>6, FaultTyped
     DEF ExpireFails, WindowInv, WindowTypeOK, PassedIsCounted, KeyExpires
<1>7. CASE UNCHANGED wvars
  BY <1>0, <1>7, EnvironmentKept
     DEF wvars, windowVars, environment, WindowInv, WindowTypeOK, PassedIsCounted, KeyExpires
<1> QED
  BY <1>1, <1>2, <1>3, <1>4, <1>5, <1>6, <1>7 DEF WindowNext

(* The counter lets no more requests through in the life of a key than the *)
(* limit, for every limit and however many requests INCR at once (the      *)
(* bound is part of the type of `passed').                                 *)
THEOREM WindowTypeCorrect == WindowSpec => []WindowTypeOK
<1>1. WindowInit => WindowInv
  BY WindowInitInv
<1>2. WindowInv /\ [WindowNext]_wvars => WindowInv'
  BY WindowNextInv
<1>3. WindowInv => WindowTypeOK
  BY DEF WindowInv
<1> QED
  BY <1>1, <1>2, <1>3, PTL DEF WindowSpec, wvars

(* Without a fault, a counter that has no expiry has its maker about to    *)
(* set one.                                                                *)
THEOREM KeysExpire == WindowSpec => []KeyExpires
<1>1. WindowInit => WindowInv
  BY WindowInitInv
<1>2. WindowInv /\ [WindowNext]_wvars => WindowInv'
  BY WindowNextInv
<1>3. WindowInv => KeyExpires
  BY DEF WindowInv
<1> QED
  BY <1>1, <1>2, <1>3, PTL DEF WindowSpec, wvars

-----------------------------------------------------------------------------
(* LogAlertSweep: a process's fires are spaced, and a mark is a ticket *)

lvars == <<environment, logVars>>

LogFires == [at : Times, window : {s.window : s \in Settings}]

Spaced(s) == \A k \in DOMAIN s : k > 1 => s[k].at - s[k].window > s[k - 1].at

OwnLast(p, r) == ownFires[p][r][Len(ownFires[p][r])].at

(* last_fired_at is not in the future, and not before what the process     *)
(* itself wrote last                                                       *)
FiresRecorded ==
  \A r \in LogRules :
    /\ lastFired[r] # None => lastFired[r] <= now
    /\ \A p \in Processes : ownFires[p][r] # << >> =>
         lastFired[r] # None /\ OwnLast(p, r) <= lastFired[r]

(* The window of the row has passed since the process fired the rule *)
Quiet(p, row) == ownFires[p][row.rule] # << >> => OwnLast(p, row.rule) < now - row.window

(* It has for every row the process may still mark: no rule has two rows   *)
(* in a sweep, so the marks before it were of other rules.                 *)
RowsQuiet ==
  \A p \in Processes :
    /\ \A row \in logDue[p] : Quiet(p, row)
    /\ logStage[p] = "mark" => Quiet(p, logRow[p])

RowsDistinct ==
  \A p \in Processes :
    /\ \A a, b \in logDue[p] : a.rule = b.rule => a = b
    /\ logRow[p] # None => \A a \in logDue[p] : a.rule # logRow[p].rule

(* The processes with a fire of the rule in hand *)
Posting(r) == {p \in Processes : logStage[p] = "post" /\ logRow[p].rule = r}

(* Every mark has its ticket, was dropped, or is in one process's hands *)
MarksAccounted ==
  \A r \in LogRules :
    logMarks[r] = logTickets[r] + logDropped[r] + Cardinality(Posting(r))

(* The inductive invariant *)
LogInv == LogTypeOK /\ FiresRecorded /\ RowsQuiet /\ RowsDistinct /\ FiresSpaced

LEMMA AppendSpaced ==
  ASSUME NEW s \in Seq(LogFires), NEW e \in LogFires, Spaced(s),
         s # << >> => s[Len(s)].at < e.at - e.window
  PROVE  /\ Append(s, e) \in Seq(LogFires) /\ Append(s, e) # << >>
         /\ Append(s, e)[Len(Append(s, e))] = e /\ Spaced(Append(s, e))
<1> DEFINE t == Append(s, e)
<1>1. t \in Seq(LogFires) /\ Len(t) = Len(s) + 1 /\ DOMAIN t = 1..Len(s) + 1
  OBVIOUS
<1>2. t[Len(t)] = e /\ t # << >> /\ \A k \in 1..Len(s) : t[k] = s[k]
  OBVIOUS
<1>3. ASSUME NEW k \in DOMAIN t, k > 1
      PROVE  t[k].at - t[k].window > t[k - 1].at
  <2>1. CASE k = Len(s) + 1
    <3>1. s # << >> /\ t[k] = e /\ t[k - 1] = s[Len(s)]
      BY <1>1, <1>2, <1>3, <2>1
    <3>2. s[Len(s)] \in LogFires
      BY <3>1
    <3>3. e.at \in Int /\ e.window \in Int /\ s[Len(s)].at \in Int
      BY <3>2, LogAssumption, EnvironmentAssumption DEF LogFires, Times
    <3> QED
      BY <3>1, <3>3
  <2>2. CASE k # Len(s) + 1
    <3>1. k \in DOMAIN s /\ t[k] = s[k] /\ t[k - 1] = s[k - 1]
      BY <1>1, <1>2, <1>3, <2>2
    <3> QED
      BY <1>3, <3>1 DEF Spaced
  <2> QED
    BY <2>1, <2>2
<1> QED
  BY <1>1, <1>2, <1>3 DEF Spaced

LEMMA LogNumbers ==
  /\ \A row \in LogRows : row.rule \in LogRules /\ row.window \in Int
  /\ \A x \in LogFires : x.at \in Int /\ x.window \in Int
<1>1. \A w \in {s.window : s \in Settings} : w \in Int
  BY LogAssumption
<1> QED
  BY <1>1, EnvironmentAssumption DEF LogRows, LogFires, Times

LEMMA LogTyped ==
  ASSUME LogTypeOK
  PROVE  /\ EnvTypeOK /\ deployed \subseteq Processes /\ now \in Int
         /\ setting \in [LogRules -> Settings] /\ enabled \in [LogRules -> BOOLEAN]
         /\ lastFired \in [LogRules -> Times \cup {None}]
         /\ logStage \in [Processes -> {"idle", "count", "mark", "post"}]
         /\ logDue \in [Processes -> SUBSET LogRows]
         /\ logRow \in [Processes -> LogRows \cup {None}]
         /\ \A p \in Processes : logRow[p] # None <=> logStage[p] \in {"mark", "post"}
         /\ logMarks \in [LogRules -> Nat] /\ logTickets \in [LogRules -> Nat]
         /\ logDropped \in [LogRules -> Nat]
         /\ ownFires \in [Processes -> [LogRules -> Seq(LogFires)]]
<1>1. EnvTypeOK /\ ownFires \in [Processes -> [LogRules -> Seq(LogFires)]]
  BY DEF LogTypeOK, LogFires
<1>2. deployed \subseteq Processes /\ now \in Int
  BY <1>1, EnvironmentAssumption DEF EnvTypeOK, Times
<1> QED
  BY <1>1, <1>2, Zenon DEF LogTypeOK

LEMMA OwnLastIsATime ==
  ASSUME LogTypeOK, NEW p \in Processes, NEW r \in LogRules, ownFires[p][r] # << >>
  PROVE  OwnLast(p, r) \in Int
<1>1. ownFires[p][r] \in Seq(LogFires)
  BY LogTyped
<1>2. ownFires[p][r][Len(ownFires[p][r])] \in LogFires
  BY <1>1
<1> QED
  BY <1>2, LogNumbers DEF OwnLast

LEMMA LogInitInv == LogInit => LogInv
<1> SUFFICES ASSUME LogInit
             PROVE  LogInv
  OBVIOUS
<1> USE EnvironmentAssumption, LogAssumption
<1>1. LogTypeOK
  BY DEF LogInit, LogTypeOK, EnvInit, EnvTypeOK, Times
<1>2. FiresRecorded /\ RowsQuiet /\ RowsDistinct /\ FiresSpaced
  BY DEF LogInit, FiresRecorded, RowsQuiet, RowsDistinct, FiresSpaced, Quiet
<1> QED
  BY <1>1, <1>2 DEF LogInv

(* The rows, the fires and the clock as they were, or fewer rows *)
LEMMA SweepKept ==
  ASSUME LogInv, LogTypeOK', UNCHANGED <<lastFired, ownFires, now>>,
         \A p \in Processes : logDue'[p] \subseteq logDue[p],
         \A p \in Processes : logStage'[p] = "mark" =>
           logStage[p] = "mark" /\ logRow'[p] = logRow[p],
         \A p \in Processes : logRow'[p] \in {None, logRow[p]}
  PROVE  LogInv'
<1>1. FiresRecorded' /\ FiresSpaced'
  BY DEF LogInv, FiresRecorded, FiresSpaced, OwnLast
<1>2. RowsQuiet'
  BY DEF LogInv, RowsQuiet, Quiet, OwnLast
<1>3. RowsDistinct'
  BY DEF LogInv, RowsDistinct
<1> QED
  BY <1>1, <1>2, <1>3 DEF LogInv

LEMMA LogNextInv == LogInv /\ [LogNext]_lvars => LogInv'
<1> SUFFICES ASSUME LogInv, [LogNext]_lvars
             PROVE  LogInv'
  OBVIOUS
<1> USE LogAssumption, EnvironmentAssumption
<1>0. LogTypeOK
  BY DEF LogInv
<1>a. /\ EnvTypeOK /\ deployed \subseteq Processes /\ now \in Int
      /\ setting \in [LogRules -> Settings] /\ enabled \in [LogRules -> BOOLEAN]
      /\ logStage \in [Processes -> {"idle", "count", "mark", "post"}]
      /\ logDue \in [Processes -> SUBSET LogRows]
      /\ logRow \in [Processes -> LogRows \cup {None}]
      /\ logTickets \in [LogRules -> Nat] /\ logDropped \in [LogRules -> Nat]
      /\ \A p \in Processes : logRow[p] # None <=> logStage[p] \in {"mark", "post"}
  BY <1>0, LogTyped
<1>b. \A row \in LogRows : row.rule \in LogRules /\ row.window \in Int
  BY LogNumbers
<1>1. CASE LogTick
  <2>1. /\ UNCHANGED logVars /\ now' = now + 1
    BY <1>1 DEF LogTick, ClockTick
  <2>2. LogTypeOK'
    BY <1>0, <1>1, <2>1, TickTyped
       DEF LogTick, LogTypeOK, logVars, logRuleVars, logJobVars, logAudit, Times
  <2>3. FiresRecorded' /\ RowsDistinct' /\ FiresSpaced'
    <3>1. UNCHANGED <<lastFired, ownFires, logDue, logRow>>
      BY <2>1 DEF logVars, logRuleVars, logJobVars, logAudit
    <3>2. \A r \in LogRules : lastFired[r] # None => lastFired[r] \in Int
      BY <1>0, LogTyped DEF Times
    <3>3. FiresRecorded'
      BY <1>a, <2>1, <3>1, <3>2 DEF LogInv, FiresRecorded, OwnLast
    <3>4. RowsDistinct' /\ FiresSpaced'
      BY <3>1 DEF LogInv, RowsDistinct, FiresSpaced
    <3> QED
      BY <3>3, <3>4
  <2>4. ASSUME NEW p \in Processes, NEW row \in LogRows, Quiet(p, row)
        PROVE  Quiet(p, row)'
    <3>1. ownFires' = ownFires
      BY <2>1 DEF logVars, logAudit
    <3>2. ownFires[p][row.rule] # << >> => OwnLast(p, row.rule) \in Int
      BY <1>0, <1>b, OwnLastIsATime
    <3>3. OwnLast(p, row.rule)' = OwnLast(p, row.rule)
      BY <3>1 DEF OwnLast
    <3>4. now \in Int /\ row.window \in Int /\ now' = now + 1
      BY <1>a, <1>b, <2>1
    <3>5. CASE ownFires[p][row.rule] # << >>
      <4>1. OwnLast(p, row.rule) < now - row.window
        BY <2>4, <3>5 DEF Quiet
      <4>2. OwnLast(p, row.rule) < now' - row.window
        BY <3>2, <3>4, <3>5, <4>1
      <4> QED
        BY <3>3, <4>2 DEF Quiet
    <3> QED
      BY <3>1, <3>5 DEF Quiet
  <2>5. RowsQuiet'
    BY <1>0, <2>1, <2>4 DEF LogInv, LogTypeOK, RowsQuiet, logVars, logJobVars
  <2> QED
    BY <2>2, <2>3, <2>5 DEF LogInv
<1>2. ASSUME NEW r \in LogRules, Ingest(r)
      PROVE  LogInv'
  <2>1. LogTypeOK'
    <3>1. EnvTypeOK' /\ entries' \in [LogRules -> Seq(Times)]
      BY <1>0, <1>2, EnvironmentKept DEF Ingest, LogTypeOK
    <3> QED
      BY <1>0, <1>2, <3>1, Zenon DEF Ingest, LogTypeOK, logJobVars, logAudit
  <2> QED
    BY <1>2, <2>1, SweepKept DEF Ingest, environment, logJobVars, logAudit
<1>3. ASSUME NEW r \in LogRules, EditRule(r)
      PROVE  LogInv'
  <2>1. enabled' \in [LogRules -> BOOLEAN] /\ setting' \in [LogRules -> Settings]
        /\ ruleEdits' \in 0..MaxRuleEdits
    BY <1>0, <1>3 DEF EditRule, LogTypeOK
  <2>2. LogTypeOK'
    BY <1>0, <1>3, <2>1, EnvironmentKept DEF EditRule, LogTypeOK, logJobVars, logAudit
  <2> QED
    BY <1>3, <2>2, SweepKept DEF EditRule, environment, logJobVars, logAudit
<1>4. ASSUME NEW p \in Processes, LogSelect(p)
      PROVE  LogInv'
  <2> DEFINE Row(r) == [rule |-> r, window |-> setting[r].window,
                        threshold |-> setting[r].threshold]
             rows == {Row(r) : r \in {x \in LogRules : RuleDue(x)}}
  <2>1. /\ logDue' = [logDue EXCEPT ![p] = rows]
        /\ logStage' = [logStage EXCEPT ![p] = "count"]
        /\ UNCHANGED <<environment, logRuleVars, logRow, logAudit>>
        /\ logStage[p] = "idle" /\ logRow[p] = None
    BY <1>a, <1>4 DEF LogSelect
  <2>2. rows \subseteq LogRows /\ \A a, b \in rows : a.rule = b.rule => a = b
    BY <1>a DEF LogRows
  <2>3. ASSUME NEW row \in rows
        PROVE  Quiet(p, row)'
    <3>1. PICK r \in LogRules : RuleDue(r) /\ row = Row(r)
      OBVIOUS
    <3>2. row.window \in Int
      BY <1>b, <2>2
    <3>3. ASSUME ownFires[p][r] # << >>
          PROVE  OwnLast(p, r) < now - row.window
      <4>2. OwnLast(p, r) \in Int
        BY <1>0, <3>3, OwnLastIsATime
      <4>3. lastFired[r] # None /\ OwnLast(p, r) <= lastFired[r] /\ lastFired[r] \in Int
        BY <1>0, <3>3, LogTyped DEF LogInv, FiresRecorded, Times
      <4>4. lastFired[r] < now - row.window
        BY <3>1, <4>3 DEF RuleDue
      <4> QED
        BY <1>a, <3>2, <4>2, <4>3, <4>4
    <3> QED
      BY <2>1, <3>1, <3>3 DEF Quiet, OwnLast, logAudit, environment
  <2> HIDE DEF rows
  <2>4. LogTypeOK'
    BY <1>0, <2>1, <2>2, EnvironmentKept DEF LogTypeOK, logRuleVars, logAudit
  <2>5. \A q \in Processes : /\ logDue'[q] = IF q = p THEN rows ELSE logDue[q]
                             /\ logStage'[q] = IF q = p THEN "count" ELSE logStage[q]
    BY <1>a, <2>1
  <2>6. FiresRecorded' /\ FiresSpaced'
    BY <2>1 DEF LogInv, FiresRecorded, FiresSpaced, OwnLast, logRuleVars, logAudit, environment
  <2>7. RowsDistinct'
    BY <2>1, <2>2, <2>5 DEF LogInv, RowsDistinct
  <2>8. \A q \in Processes, row \in LogRows : Quiet(q, row)' <=> Quiet(q, row)
    BY <2>1 DEF Quiet, OwnLast, logAudit, environment
  <2>9. RowsQuiet'
    BY <1>a, <2>1, <2>3, <2>5, <2>8 DEF LogInv, RowsQuiet
  <2> QED
    BY <2>4, <2>6, <2>7, <2>9 DEF LogInv
<1>5. ASSUME NEW p \in Processes, LogCount(p)
      PROVE  LogInv'
  <2>1. PICK row \in logDue[p] :
          /\ logDue' = [logDue EXCEPT ![p] = @ \ {row}]
          /\ IF MatchCount(row) < row.threshold
             THEN UNCHANGED <<logStage, logRow>>
             ELSE /\ logStage' = [logStage EXCEPT ![p] = "mark"]
                  /\ logRow' = [logRow EXCEPT ![p] = row]
    BY <1>5 DEF LogCount
  <2>2. row \in LogRows /\ row # None /\ logStage[p] = "count"
        /\ UNCHANGED <<environment, logRuleVars, logAudit>> /\ logRow[p] = None
    BY <1>a, <1>5, NullIsNoLogRow DEF LogCount
  <2>3. LogTypeOK'
    BY <1>0, <2>1, <2>2, EnvironmentKept, ZenonT(60) DEF LogTypeOK, logRuleVars, logAudit
  <2>4. CASE UNCHANGED <<logStage, logRow>>
    BY <1>0, <2>1, <2>2, <2>3, <2>4, SweepKept DEF LogTypeOK, environment, logRuleVars, logAudit
  <2>5. CASE /\ logStage' = [logStage EXCEPT ![p] = "mark"]
             /\ logRow' = [logRow EXCEPT ![p] = row]
    <3>1. FiresRecorded' /\ FiresSpaced'
      BY <2>2 DEF LogInv, FiresRecorded, FiresSpaced, OwnLast, logRuleVars, logAudit, environment
    <3>2. \A q \in Processes : /\ logDue'[q] = IF q = p THEN logDue[p] \ {row} ELSE logDue[q]
                               /\ logStage'[q] = IF q = p THEN "mark" ELSE logStage[q]
                               /\ logRow'[q] = IF q = p THEN row ELSE logRow[q]
      <4>1. \A q \in Processes : logDue'[q] = IF q = p THEN logDue[p] \ {row} ELSE logDue[q]
        BY <1>a, <2>1, Zenon
      <4>2. \A q \in Processes : logStage'[q] = IF q = p THEN "mark" ELSE logStage[q]
        BY <1>a, <2>5, Zenon
      <4>3. \A q \in Processes : logRow'[q] = IF q = p THEN row ELSE logRow[q]
        BY <1>a, <2>5, Zenon
      <4> QED
        BY <4>1, <4>2, <4>3, Zenon
    <3>3. RowsDistinct'
      BY <1>a, <2>1, <3>2 DEF LogInv, RowsDistinct
    <3>4. \A q \in Processes, a \in LogRows : Quiet(q, a)' <=> Quiet(q, a)
      BY <2>2 DEF Quiet, OwnLast, logAudit, environment
    <3>6. RowsQuiet'
      BY <1>a, <2>1, <2>2, <3>2, <3>4, NullIsNoLogRow DEF LogInv, RowsQuiet
    <3> QED
      BY <2>3, <3>1, <3>3, <3>6 DEF LogInv
  <2> QED
    BY <2>1, <2>4, <2>5
<1>6. ASSUME NEW p \in Processes, LogMark(p)
      PROVE  LogInv'
  <2> DEFINE row == logRow[p]
             r == row.rule
             e == [at |-> now, window |-> row.window]
             fires == ownFires[p][r]
  <2>1. /\ row \in LogRows /\ r \in LogRules /\ row # None /\ logStage[p] = "mark"
        /\ fires \in Seq(LogFires) /\ e \in LogFires
    <3>1. row \in LogRows /\ logStage[p] = "mark" /\ row # None
      BY <1>a, <1>6 DEF LogMark
    <3>2. fires \in Seq(LogFires) /\ r \in LogRules
      BY <1>0, <1>b, <3>1, LogTyped
    <3>3. e \in LogFires
      BY <1>a, <3>1 DEF LogFires, LogRows, EnvTypeOK
    <3> QED
      BY <3>1, <3>2, <3>3
  <2>2. Spaced(fires) /\ (fires # << >> => fires[Len(fires)].at < e.at - e.window)
    BY <2>1 DEF LogInv, FiresSpaced, RowsQuiet, Quiet, OwnLast, Spaced
  <2> DEFINE more == Append(fires, e)
  <2>3. more \in Seq(LogFires) /\ more # << >> /\ more[Len(more)] = e /\ Spaced(more)
    BY <2>1, <2>2, AppendSpaced
  <2>4. /\ lastFired' = [lastFired EXCEPT ![r] = now]
        /\ logStage' = [logStage EXCEPT ![p] = "post"]
        /\ logMarks' = [logMarks EXCEPT ![r] = @ + 1]
        /\ ownFires' = [ownFires EXCEPT ![p][r] = more]
        /\ UNCHANGED <<environment, setting, enabled, ruleEdits, entries, logDue,
                       logRow, logTickets, logDropped>>
    BY <1>6 DEF LogMark
  <2> HIDE DEF more, e, fires
  <2>5. \A q \in Processes, x \in LogRules :
          /\ lastFired'[x] = IF x = r THEN now ELSE lastFired[x]
          /\ ownFires'[q][x] = IF q = p /\ x = r THEN more ELSE ownFires[q][x]
          /\ logStage'[q] = IF q = p THEN "post" ELSE logStage[q]
    BY <1>0, <1>a, <2>1, <2>4, LogTyped
  <2>6. e.at = now /\ now' = now
    BY <2>4 DEF e, environment
  <2>7. LogTypeOK'
    <3>1. ownFires' \in [Processes -> [LogRules -> Seq(LogFires)]]
      BY <1>0, <2>1, <2>3, <2>4, LogTyped
    <3>2. /\ EnvTypeOK' /\ lastFired' \in [LogRules -> Times \cup {None}]
          /\ logStage' \in [Processes -> {"idle", "count", "mark", "post"}]
          /\ logMarks' \in [LogRules -> Nat]
      <4>1. now \in Times
        BY <1>a DEF EnvTypeOK
      <4>2. EnvTypeOK'
        BY <1>a, <2>4, EnvironmentKept
      <4>3. lastFired' \in [LogRules -> Times \cup {None}] /\ logMarks' \in [LogRules -> Nat]
        BY <1>0, <2>1, <2>4, <4>1, LogTyped
      <4> QED
        BY <1>a, <2>4, <4>2, <4>3
    <3>3. \A q \in Processes : logRow'[q] # None <=> logStage'[q] \in {"mark", "post"}
      BY <1>a, <2>1, <2>4, <2>5
    <3> QED
      BY <1>0, <2>4, <3>1, <3>2, <3>3, Zenon DEF LogTypeOK, LogFires
  <2>8. FiresRecorded'
    <3>1. \A q \in Processes, x \in LogRules : ownFires[q][x] # << >> => OwnLast(q, x) \in Int
      BY <1>0, OwnLastIsATime
    <3>2. \A x \in LogRules : lastFired[x] # None => lastFired[x] \in Int
      BY <1>0, LogTyped DEF Times
    <3>3. now # None
      BY <1>a
    <3>4. ASSUME NEW x \in LogRules
          PROVE  lastFired'[x] # None => lastFired'[x] <= now'
      <4>1. lastFired'[x] = IF x = r THEN now ELSE lastFired[x]
        BY <2>5
      <4> QED
        BY <1>a, <2>6, <4>1 DEF LogInv, FiresRecorded
    <3>5. ASSUME NEW x \in LogRules, NEW q \in Processes, ownFires'[q][x] # << >>
          PROVE  lastFired'[x] # None /\ OwnLast(q, x)' <= lastFired'[x]
      <4>1. CASE x # r
        BY <2>5, <3>5, <4>1 DEF LogInv, FiresRecorded, OwnLast
      <4>2. CASE x = r /\ q = p
        BY <1>a, <2>3, <2>5, <2>6, <3>3, <4>2 DEF OwnLast
      <4>3. CASE x = r /\ q # p
        <5>1. lastFired[x] # None /\ OwnLast(q, x) <= lastFired[x] /\ lastFired[x] <= now
          BY <2>5, <3>5, <4>3 DEF LogInv, FiresRecorded
        <5>2. OwnLast(q, x)' = OwnLast(q, x) /\ lastFired'[x] = now /\ OwnLast(q, x) \in Int
          BY <2>5, <3>1, <3>5, <4>3 DEF OwnLast
        <5> QED
          BY <1>a, <3>2, <3>3, <5>1, <5>2
      <4> QED
        BY <4>1, <4>2, <4>3
    <3> QED
      BY <3>4, <3>5 DEF FiresRecorded
  <2>9. FiresSpaced'
    <3>1. \A q \in Processes, x \in LogRules : Spaced(ownFires[q][x])
      BY DEF LogInv, FiresSpaced, Spaced
    <3>2. \A q \in Processes, x \in LogRules : Spaced(ownFires'[q][x])
      BY <2>3, <2>5, <3>1
    <3> QED
      BY <3>2 DEF FiresSpaced, Spaced
  <2>10. RowsDistinct'
    BY <2>4 DEF LogInv, RowsDistinct
  <2>11. ASSUME NEW q \in Processes, NEW a \in LogRows, Quiet(q, a), q # p \/ a.rule # r
         PROVE  Quiet(q, a)'
    BY <1>b, <2>5, <2>6, <2>11 DEF Quiet, OwnLast
  <2>12. \A a \in logDue[p] : a.rule # r
    BY <2>1 DEF LogInv, RowsDistinct
  <2>13. RowsQuiet'
    BY <1>a, <2>4, <2>5, <2>11, <2>12 DEF LogInv, RowsQuiet
  <2> QED
    BY <2>7, <2>8, <2>9, <2>10, <2>13 DEF LogInv
<1>7. ASSUME NEW p \in Processes, LogPost(p)
      PROVE  LogInv'
  <2>1. logTickets' \in [LogRules -> Nat]
    BY <1>a, <1>b, <1>7 DEF LogPost
  <2>2. LogTypeOK'
    BY <1>0, <1>7, <2>1, EnvironmentKept DEF LogPost, LogTypeOK, logRuleVars
  <2> QED
    BY <1>0, <1>7, <2>2, SweepKept DEF LogPost, LogTypeOK, environment, logRuleVars
<1>8. ASSUME NEW p \in Processes, LogPostFails(p)
      PROVE  LogInv'
  <2>1. logTickets' \in [LogRules -> Nat] /\ logDropped' \in [LogRules -> Nat]
    BY <1>a, <1>b, <1>8 DEF LogPostFails
  <2>2. LogTypeOK'
    BY <1>0, <1>8, <2>1, FaultTyped DEF LogPostFails, LogTypeOK, logRuleVars
  <2> QED
    BY <1>0, <1>8, <2>2, SweepKept DEF LogPostFails, Fault, LogTypeOK, logRuleVars
<1>9. ASSUME NEW p \in Processes, LogSweepFails(p)
      PROVE  LogInv'
  <2>1. logDropped' \in [LogRules -> Nat]
    BY <1>a, <1>b, <1>9 DEF LogSweepFails
  <2>2. LogTypeOK'
    BY <1>0, <1>9, <2>1, FaultTyped DEF LogSweepFails, LogTypeOK, logRuleVars
  <2> QED
    BY <1>0, <1>9, <2>2, SweepKept DEF LogSweepFails, Fault, LogTypeOK, logRuleVars
<1>10. ASSUME NEW p \in Processes, LogFinish(p)
       PROVE  LogInv'
  <2>1. LogTypeOK'
    BY <1>0, <1>10, EnvironmentKept DEF LogFinish, LogTypeOK, logRuleVars, logAudit
  <2> QED
    BY <1>0, <1>10, <2>1, SweepKept DEF LogFinish, LogTypeOK, environment, logRuleVars, logAudit
<1>11. CASE UNCHANGED lvars
  <2>1. LogTypeOK'
    BY <1>0, <1>11, EnvironmentKept
       DEF lvars, LogTypeOK, logVars, logRuleVars, logJobVars, logAudit
  <2> QED
    BY <1>11, <2>1, SweepKept DEF lvars, logVars, logRuleVars, logJobVars, logAudit, environment
<1> QED
  BY <1>a, <1>1, <1>2, <1>3, <1>4, <1>5, <1>6, <1>7, <1>8, <1>9, <1>10, <1>11
     DEF LogNext, LogSweep

(* A log sweep keeps every variable in its type, whatever the processes,   *)
(* the operators' edits and the faults do.                                 *)
THEOREM LogTypeCorrect == LogSpec => []LogTypeOK
<1>1. LogInit => LogInv
  BY LogInitInv
<1>2. LogInv /\ [LogNext]_lvars => LogInv'
  BY LogNextInv
<1>3. LogInv => LogTypeOK
  BY DEF LogInv
<1> QED
  BY <1>1, <1>2, <1>3, PTL DEF LogSpec, lvars

(* The debounce of log_alert_rules holds within a process: between two of  *)
(* its fires of a rule lies the window of the later one, whatever other    *)
(* processes, edits and faults do between its SELECT and its UPDATE.       *)
THEOREM FiresAreSpaced == LogSpec => []FiresSpaced
<1>1. LogInit => LogInv
  BY LogInitInv
<1>2. LogInv /\ [LogNext]_lvars => LogInv'
  BY LogNextInv
<1>3. LogInv => FiresSpaced
  BY DEF LogInv
<1> QED
  BY <1>1, <1>2, <1>3, PTL DEF LogSpec, lvars

LEMMA LogInitAccounted == LogInit => MarksAccounted /\ LogPromise!MarkInit
<1> SUFFICES ASSUME LogInit
             PROVE  MarksAccounted /\ LogPromise!MarkInit
  OBVIOUS
<1>1. \A r \in LogRules : Posting(r) = {}
  BY DEF LogInit, Posting
<1>2. \A r \in LogRules : Cardinality(Posting(r)) = 0
  BY <1>1, FS_EmptySet
<1>3. MarksAccounted
  BY <1>2 DEF MarksAccounted, LogInit
<1> QED
  BY <1>3 DEF LogInit, LogPromise!MarkInit

LEMMA PostingKept ==
  ASSUME NEW r, LogTypeOK,
         \A p \in Processes :
           (logStage'[p] = "post" /\ logRow'[p].rule = r)
             <=> (logStage[p] = "post" /\ logRow[p].rule = r)
  PROVE  Posting(r)' = Posting(r)
BY DEF Posting

(* One process takes a fire of the rule up *)
LEMMA PostingOneMore ==
  ASSUME LogTypeOK, NEW p \in Processes, NEW r \in LogRules, logRow[p].rule = r,
         logStage[p] = "mark", UNCHANGED logRow, logStage' = [logStage EXCEPT ![p] = "post"]
  PROVE  /\ Cardinality(Posting(r)) \in Nat
         /\ Cardinality(Posting(r)') = Cardinality(Posting(r)) + 1
         /\ \A x \in LogRules \ {r} : Posting(x)' = Posting(x)
<1>0. logStage \in [Processes -> {"idle", "count", "mark", "post"}]
  BY LogTyped
<1>1. Posting(r)' = Posting(r) \cup {p} /\ p \notin Posting(r)
  BY <1>0 DEF Posting
<1>2. \A x \in LogRules \ {r} : Posting(x)' = Posting(x)
  BY <1>0 DEF Posting
<1>3. Posting(r) \in SUBSET Processes
  BY DEF Posting
<1> QED
  BY <1>1, <1>2, <1>3, CountOneMore

(* and lets go of it *)
LEMMA PostingOneLess ==
  ASSUME LogTypeOK, NEW p \in Processes, NEW r \in LogRules, logRow[p].rule = r,
         logStage[p] = "post", NEW s \in {"idle", "count"},
         logRow' = [logRow EXCEPT ![p] = None], logStage' = [logStage EXCEPT ![p] = s]
  PROVE  /\ Cardinality(Posting(r)') \in Nat
         /\ Cardinality(Posting(r)) = Cardinality(Posting(r)') + 1
         /\ \A x \in LogRules \ {r} : Posting(x)' = Posting(x)
<1>0. /\ logStage \in [Processes -> {"idle", "count", "mark", "post"}]
      /\ logRow \in [Processes -> LogRows \cup {None}]
  BY LogTyped
<1>1. Posting(r) = Posting(r)' \cup {p} /\ p \notin Posting(r)'
  BY <1>0 DEF Posting
<1>2. \A x \in LogRules \ {r} : Posting(x)' = Posting(x)
  BY <1>0 DEF Posting
<1>3. Posting(r)' \in SUBSET Processes
  BY DEF Posting
<1> QED
  BY <1>1, <1>2, <1>3, CountOneMore

LEMMA LogNextRefines ==
  LogInv /\ MarksAccounted /\ [LogNext]_lvars
    => MarksAccounted' /\ [LogPromise!MarkNext]_(LogPromise!promise)
<1> SUFFICES ASSUME LogInv, MarksAccounted, [LogNext]_lvars
             PROVE  MarksAccounted' /\ [LogPromise!MarkNext]_(LogPromise!promise)
  OBVIOUS
<1>0. LogTypeOK
  BY DEF LogInv
<1>a. /\ deployed \subseteq Processes
      /\ logStage \in [Processes -> {"idle", "count", "mark", "post"}]
      /\ logRow \in [Processes -> LogRows \cup {None}]
      /\ \A p \in Processes : logRow[p] # None <=> logStage[p] \in {"mark", "post"}
      /\ logMarks \in [LogRules -> Nat] /\ logTickets \in [LogRules -> Nat]
      /\ logDropped \in [LogRules -> Nat]
  BY <1>0, LogTyped
<1>b. \A row \in LogRows : row.rule \in LogRules
  BY LogNumbers
<1>c. \A r \in LogRules : logMarks[r] = logTickets[r] + logDropped[r] + Cardinality(Posting(r))
  BY DEF MarksAccounted
<1>1. ASSUME UNCHANGED <<logMarks, logTickets, logDropped>>,
             \A p \in Processes : logStage'[p] = "post" <=> logStage[p] = "post",
             \A p \in Processes : logStage[p] = "post" => logRow'[p] = logRow[p]
      PROVE  MarksAccounted' /\ [LogPromise!MarkNext]_(LogPromise!promise)
  <2>1. \A r \in LogRules : Posting(r)' = Posting(r)
    BY <1>1 DEF Posting
  <2> QED
    BY <1>1, <2>1 DEF MarksAccounted, LogPromise!promise
<1>2. CASE LogTick
  BY <1>1, <1>2 DEF LogTick, logVars, logJobVars, logAudit
<1>3. ASSUME NEW r \in LogRules, Ingest(r) \/ EditRule(r)
      PROVE  MarksAccounted' /\ [LogPromise!MarkNext]_(LogPromise!promise)
  BY <1>1, <1>3 DEF Ingest, EditRule, logJobVars, logAudit
<1>4. ASSUME NEW p \in Processes, LogSelect(p) \/ LogCount(p) \/ LogFinish(p)
      PROVE  MarksAccounted' /\ [LogPromise!MarkNext]_(LogPromise!promise)
  BY <1>a, <1>1, <1>4 DEF LogSelect, LogCount, LogFinish, logAudit
<1>5. ASSUME NEW p \in Processes, LogMark(p)
      PROVE  MarksAccounted' /\ [LogPromise!MarkNext]_(LogPromise!promise)
  <2>1. logStage[p] = "mark" /\ \E r \in LogRules : r = logRow[p].rule
    BY <1>a, <1>b, <1>5 DEF LogMark
  <2>r. PICK r \in LogRules : r = logRow[p].rule
    BY <2>1
  <2>2. /\ logMarks' = [logMarks EXCEPT ![r] = @ + 1]
        /\ UNCHANGED <<logRow, logTickets, logDropped>>
        /\ logStage' = [logStage EXCEPT ![p] = "post"]
    BY <1>5, <2>r DEF LogMark
  <2>3. /\ Cardinality(Posting(r)) \in Nat
        /\ Cardinality(Posting(r)') = Cardinality(Posting(r)) + 1
        /\ \A x \in LogRules \ {r} : Posting(x)' = Posting(x)
    BY <1>0, <2>1, <2>r, <2>2, PostingOneMore
  <2>4. ASSUME NEW x \in LogRules
        PROVE  logMarks'[x] = logTickets'[x] + logDropped'[x] + Cardinality(Posting(x)')
    <3>1. CASE x = r
      BY <1>a, <1>c, <2>1, <2>2, <2>3, <3>1
    <3>2. CASE x # r
      BY <1>a, <1>c, <2>2, <2>3, <3>2
    <3> QED
      BY <3>1, <3>2
  <2>5. LogPromise!Mark(r)
    BY <2>2 DEF LogPromise!Mark
  <2> QED
    BY <2>1, <2>4, <2>5 DEF MarksAccounted, LogPromise!MarkNext
<1>6. ASSUME NEW p \in Processes, NEW s \in {"idle", "count"}, logStage[p] = "post",
             logRow' = [logRow EXCEPT ![p] = None], logStage' = [logStage EXCEPT ![p] = s],
             UNCHANGED logMarks,
             \/ /\ logTickets' = [logTickets EXCEPT ![logRow[p].rule] = @ + 1]
                /\ UNCHANGED logDropped
             \/ /\ logDropped' = [logDropped EXCEPT ![logRow[p].rule] = @ + 1]
                /\ UNCHANGED logTickets
      PROVE  MarksAccounted' /\ [LogPromise!MarkNext]_(LogPromise!promise)
  <2>1. PICK r \in LogRules : r = logRow[p].rule
    BY <1>a, <1>b, <1>6
  <2>2. /\ Cardinality(Posting(r)') \in Nat
        /\ Cardinality(Posting(r)) = Cardinality(Posting(r)') + 1
        /\ \A x \in LogRules \ {r} : Posting(x)' = Posting(x)
    BY <1>0, <1>6, <2>1, PostingOneLess
  <2>a. /\ logMarks' = logMarks
        /\ \/ /\ logTickets' = [logTickets EXCEPT ![r] = @ + 1]
              /\ logDropped' = logDropped
           \/ /\ logDropped' = [logDropped EXCEPT ![r] = @ + 1]
              /\ logTickets' = logTickets
    BY <1>6, <2>1
  <2>3. ASSUME NEW x \in LogRules
        PROVE  logMarks'[x] = logTickets'[x] + logDropped'[x] + Cardinality(Posting(x)')
    <3>1. CASE x = r
      BY <1>a, <1>c, <2>a, <2>2, <3>1
    <3>2. CASE x # r
      BY <1>a, <1>c, <2>a, <2>2, <3>2
    <3> QED
      BY <3>1, <3>2
  <2>4. LogPromise!InHand(r)
    BY <1>a, <1>c, <2>1, <2>2 DEF LogPromise!InHand
  <2>5. LogPromise!Act(r) \/ LogPromise!Drop(r)
    BY <2>a, <2>4 DEF LogPromise!Act, LogPromise!Drop
  <2> QED
    BY <2>1, <2>3, <2>5 DEF MarksAccounted, LogPromise!MarkNext
<1>7. ASSUME NEW p \in Processes, LogPost(p) \/ LogPostFails(p)
      PROVE  MarksAccounted' /\ [LogPromise!MarkNext]_(LogPromise!promise)
  BY <1>6, <1>7 DEF LogPost, LogPostFails
<1>8. ASSUME NEW p \in Processes, LogSweepFails(p)
      PROVE  MarksAccounted' /\ [LogPromise!MarkNext]_(LogPromise!promise)
  <2>1. CASE logStage[p] = "post"
    BY <1>6, <1>8, <2>1 DEF LogSweepFails
  <2>2. CASE logStage[p] # "post"
    BY <1>a, <1>1, <1>8, <2>2 DEF LogSweepFails
  <2> QED
    BY <2>1, <2>2
<1>9. CASE UNCHANGED lvars
  BY <1>1, <1>9 DEF lvars, logVars, logJobVars, logAudit
<1> QED
  BY <1>a, <1>2, <1>3, <1>4, <1>5, <1>7, <1>8, <1>9 DEF LogNext, LogSweep

(* The log sweep implements MarkThenAct: every written last_fired_at       *)
(* stands for at most one ticket, and for one unless a fault took it, for  *)
(* any number of processes firing the same rules.                          *)
THEOREM LogRefines == LogSpec => LogImplementsPromise
<1>1. LogInit => LogInv /\ MarksAccounted /\ LogPromise!MarkInit
  BY LogInitInv, LogInitAccounted
<1>2. LogInv /\ MarksAccounted /\ [LogNext]_lvars
        => LogInv' /\ MarksAccounted' /\ [LogPromise!MarkNext]_(LogPromise!promise)
  BY LogNextInv, LogNextRefines
<1> QED
  BY <1>1, <1>2, PTL DEF LogSpec, lvars, LogImplementsPromise, LogPromise!MarkSpec

-----------------------------------------------------------------------------
(* NetworkPoller: an outage is noticed, and once; a mark is a ticket *)

nvars == <<environment, netVars>>

(* Recording: the previous sample is read, the new one not yet committed *)
Recording == {"store", "insert"}

(* An `up' that is the newest sample, or was when a process read it, came  *)
(* after the drop the process last noticed; and so did one that an open    *)
(* INSERT is behind.                                                       *)
UpIsNews ==
  /\ \A p \in Processes, i \in Ifaces : sample[i] = "up" => <<p, i>> \in upSince
  /\ \A p \in Processes :
       netStage[p] \in Recording /\ previous[p] = "up" => <<p, reading[p].iface>> \in upSince
  /\ \A p \in outdated : sample[reading[p].iface] = "up" => p \in upAfter

Inserting(p) == netStage[p] = "insert"

(* The open INSERTs of an interface are ordered by their BEGIN, and what   *)
(* is before an outdated one is outdated too.                              *)
BeginOrder ==
  /\ \A p \in outdated : Inserting(p)
  /\ \A p, q \in Processes : p \in ahead[q] =>
       p # q /\ Inserting(p) /\ Inserting(q) /\ reading[p].iface = reading[q].iface
  /\ \A p, q \in Processes :
       Inserting(p) /\ Inserting(q) /\ reading[p].iface = reading[q].iface /\ p # q
         => p \in ahead[q] \/ q \in ahead[p]
  /\ \A p, q, r \in Processes : p \in ahead[q] /\ q \in ahead[r] => p \in ahead[r]
  /\ \A p, q \in Processes : p \in ahead[q] /\ q \in outdated => p \in outdated

(* Alone, a process compares with the sample that is still the newest *)
ComparesWithNewest ==
  Alone => \A p \in deployed :
             /\ netStage[p] \in Recording => previous[p] = sample[reading[p].iface]
             /\ p \notin outdated

(* The inductive invariant *)
NetInv == NetTypeOK /\ BeginOrder /\ UpIsNews /\ ComparesWithNewest /\ DropsAreNoticed

LEMMA OneProcess ==
  ASSUME EnvTypeOK, Alone, NEW p \in deployed, NEW q \in deployed PROVE p = q
<1>1. PICK x : deployed = {x}
  <2>1. Cardinality(deployed) = 1 /\ IsFiniteSet(deployed)
    BY EnvironmentAssumption, FS_Subset DEF Alone, EnvTypeOK
  <2> QED
    BY <2>1, FS_Singleton
<1> QED
  BY <1>1

LEMMA NetInitInv == NetInit => NetInv
<1> SUFFICES ASSUME NetInit
             PROVE  NetInv
  OBVIOUS
<1> USE EnvironmentAssumption
<1>1. netActive \in BOOLEAN
  BY Zenon DEF NetInit
<1>2. NetTypeOK
  BY <1>1 DEF NetInit, NetTypeOK, EnvInit, EnvTypeOK, Times, OperStatus
<1>3. None # "up"
  BY NullIsNoReading DEF OperStatus
<1>4. UpIsNews /\ BeginOrder
  BY <1>3 DEF NetInit, UpIsNews, BeginOrder, Inserting, Recording
<1>5. ComparesWithNewest /\ DropsAreNoticed
  BY DEF NetInit, EnvInit, ComparesWithNewest, DropsAreNoticed, Recording
<1> QED
  BY <1>2, <1>4, <1>5 DEF NetInv

(* Who is inserting what stays *)
LEMMA OrderKept ==
  ASSUME NetTypeOK, BeginOrder, UNCHANGED <<ahead, outdated>>,
         \A p \in Processes : Inserting(p)' <=> Inserting(p),
         \A p \in Processes : Inserting(p) => reading'[p] = reading[p]
  PROVE  BeginOrder'
<1>1. outdated \subseteq Processes
  BY DEF NetTypeOK
<1> QED
  BY <1>1 DEF BeginOrder

(* A process begins its INSERT: it comes last *)
LEMMA OrderBegun ==
  ASSUME NetTypeOK, BeginOrder, NEW p \in Processes, BeginStore(p)
  PROVE  BeginOrder'
<1>1. /\ outdated \subseteq Processes /\ ahead \in [Processes -> SUBSET Processes]
      /\ netStage \in [Processes -> {"idle", "record", "store", "insert", "ticket"}]
  BY DEF NetTypeOK
<1>2. /\ UNCHANGED <<reading, outdated>> /\ ~Inserting(p)
      /\ \A q \in Processes : Inserting(q)' <=> Inserting(q) \/ q = p
      /\ \A q \in Processes \ {p} : ahead'[q] = ahead[q]
      /\ \A q \in Processes : q \in ahead'[p]
           <=> Inserting(q) /\ reading[q].iface = reading[p].iface
  BY <1>1 DEF BeginStore, Inserting
<1>3. ahead' \in [Processes -> SUBSET Processes]
  BY <1>1 DEF BeginStore
<1> HIDE DEF Inserting
<1>4. \A q \in Processes : p \notin ahead[q]
  BY <1>2 DEF BeginOrder
<1>5. \A q \in outdated' : Inserting(q)'
  BY <1>1, <1>2 DEF BeginOrder
<1>6. \A q, r \in Processes : q \in ahead'[r] =>
        q # r /\ Inserting(q)' /\ Inserting(r)' /\ reading'[q].iface = reading'[r].iface
  BY <1>2 DEF BeginOrder
<1>7. \A q, r \in Processes :
        Inserting(q)' /\ Inserting(r)' /\ reading'[q].iface = reading'[r].iface /\ q # r
          => q \in ahead'[r] \/ r \in ahead'[q]
  BY <1>2 DEF BeginOrder
<1>8. \A q, r, s \in Processes : q \in ahead'[r] /\ r \in ahead'[s] => q \in ahead'[s]
  BY <1>2, <1>4 DEF BeginOrder
<1>9. \A q, r \in Processes : q \in ahead'[r] /\ r \in outdated' => q \in outdated'
  BY <1>2 DEF BeginOrder
<1> QED
  BY <1>5, <1>6, <1>7, <1>8, <1>9 DEF BeginOrder

(* A process ends its INSERT, if it has one, and may leave those that      *)
(* began before it outdated                                                *)
LEMMA OrderEnded ==
  ASSUME NetTypeOK, BeginOrder, NEW p \in Processes, StoreEnds(p), ~Inserting(p)',
         outdated' = outdated \ {p} \/ outdated' = (outdated \cup ahead[p]) \ {p},
         \A q \in Processes \ {p} : /\ Inserting(q)' <=> Inserting(q)
                                    /\ reading'[q] = reading[q]
  PROVE  BeginOrder'
<1>1. outdated \subseteq Processes /\ ahead \in [Processes -> SUBSET Processes]
  BY DEF NetTypeOK
<1>2. \A q \in Processes : ahead'[q] = IF q = p THEN {} ELSE ahead[q] \ {p}
  BY DEF StoreEnds
<1>3. \A q, r \in Processes : q \in ahead'[r] => q # p /\ r # p /\ q \in ahead[r]
  BY <1>2
<1>4. \A q, r \in Processes : q # p /\ r # p /\ q \in ahead[r] => q \in ahead'[r]
  BY <1>2
<1>o. \A q \in Processes :
        /\ q \in outdated' => q # p /\ (q \in outdated \/ q \in ahead[p])
        /\ q # p /\ q \in outdated => q \in outdated'
  OBVIOUS
<1>a. outdated' \subseteq Processes
  BY <1>1
<1>5. \A q \in outdated' : Inserting(q)'
  BY <1>1, <1>a, <1>o, SMTT(40) DEF BeginOrder
<1>6. \A q, r \in Processes : q \in ahead'[r] =>
        q # r /\ Inserting(q)' /\ Inserting(r)' /\ reading'[q].iface = reading'[r].iface
  BY <1>3, SMTT(40) DEF BeginOrder
<1>7. \A q, r \in Processes :
        Inserting(q)' /\ Inserting(r)' /\ reading'[q].iface = reading'[r].iface /\ q # r
          => q \in ahead'[r] \/ r \in ahead'[q]
  BY <1>4, SMTT(40) DEF BeginOrder
<1>8. \A q, r, s \in Processes : q \in ahead'[r] /\ r \in ahead'[s] => q \in ahead'[s]
  BY <1>3, <1>4, SMTT(40) DEF BeginOrder
<1>9. \A q, r \in Processes : q \in ahead'[r] /\ r \in outdated' => q \in outdated'
  <2>1. CASE outdated' = outdated \ {p}
    BY <1>3, <2>1, SMTT(40) DEF BeginOrder
  <2>2. CASE outdated' = (outdated \cup ahead[p]) \ {p}
    BY <1>3, <2>2, SMTT(40) DEF BeginOrder
  <2> QED
    BY <2>1, <2>2
<1> QED
  BY <1>5, <1>6, <1>7, <1>8, <1>9 DEF BeginOrder

(* Nothing is committed or noticed, and no process begins to record *)
LEMMA PollKept ==
  ASSUME NetInv, NetTypeOK', BeginOrder',
         UNCHANGED <<sample, drops, netMarks, upSince, deployed>>,
         outdated' \subseteq outdated, \A p \in outdated' : p \in upAfter => p \in upAfter',
         \A p \in Processes : netStage'[p] \in Recording =>
           /\ netStage[p] \in Recording
           /\ reading'[p] = reading[p] /\ previous'[p] = previous[p]
  PROVE  NetInv'
<1>1. UpIsNews'
  <2>1. \A p \in outdated' : p \in Processes /\ netStage'[p] \in Recording
    BY DEF BeginOrder, Inserting, Recording, NetTypeOK
  <2> QED
    BY <2>1 DEF NetInv, UpIsNews
<1>2. ComparesWithNewest' /\ DropsAreNoticed'
  BY DEF NetInv, NetTypeOK, EnvTypeOK, ComparesWithNewest, DropsAreNoticed, Alone
<1> QED
  BY <1>1, <1>2 DEF NetInv

LEMMA NetNextInv == NetInv /\ [NetNext]_nvars => NetInv'
<1> SUFFICES ASSUME NetInv, [NetNext]_nvars
             PROVE  NetInv'
  OBVIOUS
<1> USE NullIsNoReading
<1>0. NetTypeOK /\ BeginOrder /\ EnvTypeOK /\ deployed \subseteq Processes
  BY DEF NetInv, NetTypeOK, EnvTypeOK
<1>a. /\ netStage \in [Processes -> {"idle", "record", "store", "insert", "ticket"}]
      /\ readings \in [Processes -> SUBSET Readings]
      /\ reading \in [Processes -> Readings \cup {None}]
      /\ previous \in [Processes -> OperStatus \cup {None}]
      /\ sample \in [Ifaces -> OperStatus \cup {None}]
      /\ drops \in [Ifaces -> Nat] /\ netMarks \in [Ifaces -> Nat]
      /\ netTickets \in [Ifaces -> Nat] /\ netDropped \in [Ifaces -> Nat]
      /\ \A p \in Processes : reading[p] # None <=> netStage[p] \in {"store", "insert", "ticket"}
  BY <1>0 DEF NetTypeOK
<1>b. /\ ahead \in [Processes -> SUBSET Processes] /\ outdated \subseteq Processes
      /\ upSince \subseteq Processes \X Ifaces /\ upAfter \subseteq Processes
  BY <1>0 DEF NetTypeOK
<1>c. \A x \in Readings : x.iface \in Ifaces /\ x.status \in OperStatus
  BY DEF Readings
<1>1. CASE PauseDevice
  <2>1. EnvTypeOK' /\ (~netActive) \in BOOLEAN /\ deployed' = deployed
    BY <1>0, <1>1, TickTyped DEF PauseDevice, ClockTick
  <2>2. NetTypeOK'
    BY <1>0, <1>1, <2>1, Zenon DEF PauseDevice, NetTypeOK, netJobVars, netAudit
  <2>3. BeginOrder'
    BY <1>0, <1>1, OrderKept DEF PauseDevice, netJobVars, Inserting
  <2> QED
    BY <1>1, <2>1, <2>2, <2>3, PollKept DEF PauseDevice, netJobVars, netAudit
<1>2. ASSUME NEW i \in Ifaces, LinkChanges(i)
      PROVE  NetInv'
  <2>1. EnvTypeOK' /\ link' \in [Ifaces -> OperStatus] /\ deployed' = deployed
    BY <1>0, <1>2, TickTyped DEF LinkChanges, NetTypeOK, ClockTick
  <2>2. NetTypeOK'
    BY <1>0, <1>2, <2>1, Zenon DEF LinkChanges, NetTypeOK, netJobVars, netAudit
  <2>3. BeginOrder'
    BY <1>0, <1>2, OrderKept DEF LinkChanges, netJobVars, Inserting
  <2> QED
    BY <1>2, <2>1, <2>2, <2>3, PollKept DEF LinkChanges, netJobVars, netAudit
<1>3. ASSUME NEW p \in Processes, Walk(p)
      PROVE  NetInv'
  <2>1. /\ EnvTypeOK' /\ readings' \in [Processes -> SUBSET Readings]
        /\ netStage' \in [Processes -> {"idle", "record", "store", "insert", "ticket"}]
    <3>1. {[iface |-> i, status |-> link[i]] : i \in {x \in Ifaces : netActive}} \subseteq Readings
      BY <1>0 DEF NetTypeOK, Readings
    <3> QED
      BY <1>0, <1>a, <1>3, <3>1, EnvironmentKept DEF Walk
  <2>2. \A q \in Processes : reading'[q] # None <=> netStage'[q] \in {"store", "insert", "ticket"}
    BY <1>a, <1>3 DEF Walk
  <2>3. NetTypeOK'
    BY <1>0, <1>3, <2>1, <2>2, Zenon DEF Walk, NetTypeOK, netWorld, netAudit
  <2>4. BeginOrder'
    BY <1>0, <1>a, <1>3, OrderKept DEF Walk, Inserting
  <2> QED
    BY <1>a, <1>3, <2>3, <2>4, PollKept DEF Walk, netWorld, netAudit, environment, Recording
<1>4. ASSUME NEW p \in deployed, ReadPrevious(p)
      PROVE  NetInv'
  <2>1. PICK r \in readings[p] :
          /\ readings' = [readings EXCEPT ![p] = @ \ {r}]
          /\ reading' = [reading EXCEPT ![p] = r]
          /\ previous' = [previous EXCEPT ![p] = sample[r.iface]]
    BY <1>4 DEF ReadPrevious
  <2>2. /\ netStage' = [netStage EXCEPT ![p] = "store"] /\ netStage[p] = "record"
        /\ UNCHANGED <<environment, netWorld, sample, ahead, outdated, netAudit>>
        /\ r \in Readings /\ p \in Processes /\ r # None
    BY <1>0, <1>a, <1>4 DEF ReadPrevious
  <2>3. \A q \in Processes :
          /\ netStage'[q] = IF q = p THEN "store" ELSE netStage[q]
          /\ reading'[q] = IF q = p THEN r ELSE reading[q]
          /\ previous'[q] = IF q = p THEN sample[r.iface] ELSE previous[q]
    BY <1>a, <2>1, <2>2
  <2>4. NetTypeOK'
    <3>1. /\ EnvTypeOK' /\ readings' \in [Processes -> SUBSET Readings]
          /\ netStage' \in [Processes -> {"idle", "record", "store", "insert", "ticket"}]
          /\ reading' \in [Processes -> Readings \cup {None}]
          /\ previous' \in [Processes -> OperStatus \cup {None}]
      BY <1>0, <1>a, <1>c, <2>1, <2>2, EnvironmentKept
    <3>2. \A q \in Processes : reading'[q] # None <=> netStage'[q] \in {"store", "insert", "ticket"}
      BY <1>a, <2>2, <2>3
    <3> QED
      BY <1>0, <2>2, <3>1, <3>2, Zenon DEF NetTypeOK, netWorld, netAudit
  <2>5. BeginOrder'
    BY <1>0, <2>2, <2>3, OrderKept DEF Inserting
  <2>6. \A q \in outdated : q \in Processes /\ q # p
    BY <1>0, <1>b, <2>2 DEF BeginOrder, Inserting
  <2>7. UpIsNews'
    BY <1>c, <2>2, <2>3, <2>6 DEF NetInv, UpIsNews, netAudit, Recording
  <2>8. ComparesWithNewest' /\ DropsAreNoticed'
    BY <1>0, <2>2, <2>3
       DEF NetInv, ComparesWithNewest, DropsAreNoticed, Alone, netAudit, environment
  <2> QED
    BY <2>4, <2>5, <2>7, <2>8 DEF NetInv
<1>8. ASSUME NEW p \in deployed, BeginStore(p)
      PROVE  NetInv'
  <2>1. /\ p \in Processes /\ netStage' = [netStage EXCEPT ![p] = "insert"] /\ netStage[p] = "store"
        /\ UNCHANGED <<environment, netWorld, sample, readings, reading, previous, outdated, netAudit>>
        /\ ahead' \in [Processes -> SUBSET Processes]
    BY <1>0, <1>b, <1>8 DEF BeginStore
  <2>2. \A q \in Processes : netStage'[q] = IF q = p THEN "insert" ELSE netStage[q]
    BY <1>a, <2>1
  <2>3. NetTypeOK'
    <3>1. /\ EnvTypeOK'
          /\ netStage' \in [Processes -> {"idle", "record", "store", "insert", "ticket"}]
          /\ \A q \in Processes : reading'[q] # None <=> netStage'[q] \in {"store", "insert", "ticket"}
      BY <1>0, <1>a, <2>1, <2>2, EnvironmentKept
    <3> QED
      BY <1>0, <2>1, <3>1, Zenon DEF NetTypeOK, netWorld, netAudit
  <2>4. BeginOrder'
    BY <1>0, <1>8, <2>1, OrderBegun
  <2> QED
    BY <2>1, <2>2, <2>3, <2>4, PollKept DEF netAudit, environment, Recording
<1>5. ASSUME NEW p \in deployed, Store(p)
      PROVE  NetInv'
  <2>1. PICK i \in Ifaces, s \in OperStatus : i = reading[p].iface /\ s = reading[p].status
    BY <1>0, <1>a, <1>c, <1>5 DEF Store
  <2> DEFINE newest == p \notin outdated
  <2>2. /\ p \in Processes /\ netStage[p] = "insert" /\ reading[p] # None
        /\ sample' = IF newest THEN [sample EXCEPT ![i] = s] ELSE sample
        /\ outdated' = (outdated \cup ahead[p]) \ {p}
        /\ StoreEnds(p)
        /\ drops' = IF newest /\ sample[i] = "up" /\ s = "down"
                    THEN [drops EXCEPT ![i] = @ + 1] ELSE drops
        /\ upAfter' = (IF newest /\ s = "up" THEN upAfter \cup ahead[p] ELSE upAfter) \ {p}
        /\ UNCHANGED <<environment, netWorld, readings, netTickets, netDropped>>
    BY <1>0, <1>a, <1>5, <2>1 DEF Store
  <2>3. \/ /\ Noticed(p) /\ s = "down"
           /\ netMarks' = [netMarks EXCEPT ![i] = @ + 1]
           /\ upSince' = IF p \in upAfter THEN upSince \cup {<<p, i>>} ELSE upSince \ {<<p, i>>}
           /\ netStage' = [netStage EXCEPT ![p] = "ticket"]
           /\ UNCHANGED <<reading, previous>>
        \/ /\ ~Noticed(p)
           /\ upSince' = IF newest /\ s = "up" THEN upSince \cup (Processes \X {i}) ELSE upSince
           /\ netStage' = [netStage EXCEPT ![p] = "record"]
           /\ reading' = [reading EXCEPT ![p] = None]
           /\ previous' = [previous EXCEPT ![p] = None]
           /\ UNCHANGED netMarks
    BY <1>5, <2>1 DEF Store, Noticed
  <2>4. /\ netStage'[p] \in {"record", "ticket"}
        /\ reading'[p] # None <=> netStage'[p] = "ticket"
        /\ \A q \in Processes \ {p} : /\ netStage'[q] = netStage[q] /\ reading'[q] = reading[q]
                                      /\ previous'[q] = previous[q]
    BY <1>a, <2>2, <2>3
  <2>5. \A j \in Ifaces : sample'[j] = IF newest /\ j = i THEN s ELSE sample[j]
    BY <1>a, <2>1, <2>2
  <2>6. NetTypeOK'
    <3>1. /\ EnvTypeOK' /\ sample' \in [Ifaces -> OperStatus \cup {None}]
          /\ drops' \in [Ifaces -> Nat] /\ netMarks' \in [Ifaces -> Nat]
      BY <1>0, <1>a, <2>1, <2>2, <2>3, EnvironmentKept
    <3>2. /\ ahead' \in [Processes -> SUBSET Processes] /\ outdated' \subseteq Processes
          /\ upAfter' \subseteq Processes
      BY <1>b, <2>2 DEF StoreEnds
    <3>3. upSince' \subseteq Processes \X Ifaces
      BY <1>b, <2>1, <2>2, <2>3
    <3>4. /\ netStage' \in [Processes -> {"idle", "record", "store", "insert", "ticket"}]
          /\ reading' \in [Processes -> Readings \cup {None}]
          /\ previous' \in [Processes -> OperStatus \cup {None}]
      BY <1>a, <2>3
    <3>5. \A q \in Processes : reading'[q] # None <=> netStage'[q] \in {"store", "insert", "ticket"}
      BY <1>a, <2>4
    <3> QED
      BY <1>0, <2>2, <3>1, <3>2, <3>3, <3>4, <3>5, Zenon DEF NetTypeOK, netWorld
  <2>7. BeginOrder'
    BY <1>0, <2>2, <2>4, OrderEnded DEF Inserting
  <2> HIDE DEF newest
  <2>8. \A q \in Processes, j \in Ifaces :
          (q # p \/ j # i) /\ <<q, j>> \in upSince => <<q, j>> \in upSince'
    BY <2>3
  <2>9. ASSUME NEW q \in Processes, NEW j \in Ifaces, sample'[j] = "up"
        PROVE  <<q, j>> \in upSince'
    <3>1. CASE newest /\ j = i
      <4>1. s = "up"
        BY <2>5, <2>9, <3>1
      <4> QED
        BY <2>3, <3>1, <4>1
    <3>2. CASE ~(newest /\ j = i)
      <4>1. sample[j] = "up" /\ <<q, j>> \in upSince
        BY <2>5, <2>9, <3>2 DEF NetInv, UpIsNews
      <4>2. CASE q # p \/ j # i
        BY <2>8, <4>1, <4>2
      <4>3. CASE q = p /\ j = i
        <5>1. p \in outdated
          BY <3>2, <4>3 DEF newest
        <5>2. p \in upAfter
          BY <2>1, <4>1, <4>3, <5>1 DEF NetInv, UpIsNews
        <5> QED
          BY <2>3, <4>1, <4>3, <5>2
      <4> QED
        BY <4>2, <4>3
    <3> QED
      BY <3>1, <3>2
  <2>10. ASSUME NEW q \in Processes, netStage'[q] \in Recording, previous'[q] = "up"
         PROVE  <<q, reading'[q].iface>> \in upSince'
    <3>1. q # p /\ netStage[q] \in Recording /\ reading'[q] = reading[q] /\ previous[q] = "up"
      BY <2>4, <2>10 DEF Recording
    <3>2. reading[q].iface \in Ifaces
      BY <1>a, <1>c, <3>1 DEF Recording
    <3> QED
      BY <2>8, <3>1, <3>2 DEF NetInv, UpIsNews
  <2>11. ASSUME NEW q \in outdated', sample'[reading'[q].iface] = "up"
         PROVE  q \in upAfter'
    <3>1. q \in Processes /\ q # p /\ reading'[q] = reading[q] /\ netStage[q] = "insert"
      BY <1>b, <2>2, <2>4, <2>7 DEF BeginOrder, Inserting
    <3>2. reading[q].iface \in Ifaces
      BY <1>a, <1>c, <3>1
    <3>3. CASE newest /\ reading[q].iface = i
      <4>1. s = "up"
        BY <2>5, <2>11, <3>1, <3>2, <3>3
      <4>2. q \in ahead[p]
        <5>1. q \in ahead[p] \/ p \in ahead[q]
          BY <1>0, <2>1, <2>2, <3>1, <3>3 DEF BeginOrder, Inserting
        <5>2. p \in ahead[q] /\ q \in outdated => FALSE
          BY <1>0, <2>2, <3>1, <3>3 DEF BeginOrder, newest
        <5> QED
          BY <2>2, <3>1, <5>1, <5>2
      <4> QED
        BY <2>2, <3>1, <3>3, <4>1, <4>2
    <3>4. CASE ~(newest /\ reading[q].iface = i)
      <4>1. sample[reading[q].iface] = "up"
        BY <2>5, <2>11, <3>1, <3>2, <3>4
      <4>2. q \in outdated
        <5>1. CASE q \in ahead[p]
          <6>1. reading[q].iface = i
            BY <1>0, <2>1, <2>2, <3>1, <5>1 DEF BeginOrder
          <6>2. p \in outdated
            BY <3>4, <6>1 DEF newest
          <6> QED
            BY <1>0, <2>2, <3>1, <5>1, <6>2 DEF BeginOrder
        <5> QED
          BY <2>2, <5>1
      <4>3. q \in upAfter
        BY <4>1, <4>2 DEF NetInv, UpIsNews
      <4> QED
        BY <2>2, <3>1, <4>3
    <3> QED
      BY <3>3, <3>4
  <2>12. UpIsNews'
    BY <2>9, <2>10, <2>11 DEF UpIsNews
  <2>13. ComparesWithNewest'
    <3>1. SUFFICES ASSUME Alone, NEW q \in deployed, netStage'[q] \in Recording \/ q \in outdated'
                   PROVE  FALSE
      BY <2>2 DEF ComparesWithNewest, Alone, environment
    <3>2. q = p
      BY <1>0, <3>1, OneProcess
    <3> QED
      BY <2>2, <2>4, <3>1, <3>2 DEF Recording
  <2>14. DropsAreNoticed'
    <3>1. SUFFICES ASSUME Alone
                   PROVE  drops' = netMarks'
      BY <2>2 DEF DropsAreNoticed, Alone, environment
    <3>2. newest /\ previous[p] = sample[i] /\ drops = netMarks
      BY <2>1, <2>2, <3>1 DEF NetInv, ComparesWithNewest, DropsAreNoticed, Recording, newest
    <3>3. Noticed(p) <=> sample[i] = "up" /\ s = "down"
      BY <2>1, <3>2 DEF Noticed
    <3> QED
      BY <1>a, <2>2, <2>3, <3>2, <3>3
  <2> QED
    BY <2>6, <2>7, <2>12, <2>13, <2>14 DEF NetInv
<1>6. ASSUME NEW p \in Processes, OpenTicket(p) \/ PollFails(p) \/ PollDone(p)
      PROVE  NetInv'
  <2>1. EnvTypeOK' /\ deployed' = deployed
    BY <1>0, <1>6, EnvironmentKept, FaultTyped
       DEF OpenTicket, PollFails, PollDone, Fault, environment
  <2>2. /\ netTickets' \in [Ifaces -> Nat] /\ netDropped' \in [Ifaces -> Nat]
        /\ readings' \in [Processes -> SUBSET Readings]
        /\ UNCHANGED <<netWorld, sample, drops, netMarks, upSince>>
    BY <1>a, <1>c, <1>6 DEF OpenTicket, PollFails, PollDone, netAudit
  <2>3. /\ netStage' \in [Processes -> {"idle", "record", "store", "insert", "ticket"}]
        /\ reading' \in [Processes -> Readings \cup {None}]
        /\ previous' \in [Processes -> OperStatus \cup {None}]
        /\ \A q \in Processes : reading'[q] # None <=> netStage'[q] \in {"store", "insert", "ticket"}
        /\ \A q \in Processes : netStage'[q] \in Recording =>
             /\ netStage[q] \in Recording
             /\ reading'[q] = reading[q] /\ previous'[q] = previous[q]
    BY <1>a, <1>6 DEF OpenTicket, PollFails, PollDone, Recording
  <2>4. /\ \/ UNCHANGED <<ahead, outdated, upAfter>>
           \/ StoreEnds(p) /\ outdated' = outdated \ {p} /\ upAfter' = upAfter \ {p}
        /\ netStage[p] # "insert" \/ PollFails(p)
    BY <1>6 DEF OpenTicket, PollFails, PollDone, netAudit
  <2>5. /\ ahead' \in [Processes -> SUBSET Processes]
        /\ outdated' \subseteq outdated /\ upAfter' \subseteq Processes
        /\ \A q \in outdated' : q \in upAfter => q \in upAfter'
    BY <1>b, <2>4 DEF StoreEnds
  <2>6. NetTypeOK'
    BY <1>0, <1>b, <2>1, <2>2, <2>3, <2>5, Zenon DEF NetTypeOK, netWorld
  <2>7. BeginOrder'
    <3>1. CASE PollFails(p)
      BY <1>0, <1>a, <3>1, OrderEnded DEF PollFails, Inserting
    <3>2. CASE ~PollFails(p)
      BY <1>0, <1>a, <1>6, <3>2, OrderKept DEF OpenTicket, PollDone, Inserting, netAudit
    <3> QED
      BY <3>1, <3>2
  <2> QED
    BY <2>1, <2>2, <2>3, <2>5, <2>6, <2>7, PollKept
<1>7. CASE UNCHANGED nvars
  <2>1. NetTypeOK'
    BY <1>0, <1>7, EnvironmentKept, Zenon
       DEF nvars, netVars, NetTypeOK, netWorld, netJobVars, netAudit
  <2>2. BeginOrder'
    BY <1>0, <1>7, OrderKept DEF nvars, netVars, netJobVars, Inserting
  <2> QED
    BY <1>7, <2>1, <2>2, PollKept DEF nvars, netVars, netJobVars, netAudit, environment
<1> QED
  BY <1>0, <1>1, <1>2, <1>3, <1>4, <1>5, <1>6, <1>7, <1>8 DEF NetNext

(* The poller keeps every variable in its type. *)
THEOREM NetTypeCorrect == NetSpec => []NetTypeOK
<1>1. NetInit => NetInv
  BY NetInitInv
<1>2. NetInv /\ [NetNext]_nvars => NetInv'
  BY NetNextInv
<1>3. NetInv => NetTypeOK
  BY DEF NetInv
<1> QED
  BY <1>1, <1>2, <1>3, PTL DEF NetSpec, nvars

(* An outage is noticed, and once: a process notices an interface only     *)
(* after an `up' with a later ts than the drop it last noticed became the  *)
(* newest sample, although samples are committed in any order; and a       *)
(* process that is alone notices every drop that is stored.                *)
THEOREM OutagesNoticed == NetSpec => OutagesAreNoticed
<1>1. NetInit => NetInv
  BY NetInitInv
<1>2. NetInv /\ [NetNext]_nvars => NetInv'
  BY NetNextInv
<1>3. NetInv /\ NetInv' /\ [NetNext]_nvars => [NoticedOncePerOutage /\ DropsAreNoticed']_nvars
  <2> SUFFICES ASSUME NetInv, NetInv', NetNext
               PROVE  NoticedOncePerOutage /\ DropsAreNoticed'
    OBVIOUS
  <2>1. DropsAreNoticed'
    BY DEF NetInv
  <2>2. ASSUME NEW p \in Processes, NEW i \in Ifaces, netStage[p] = "insert",
               netStage'[p] = "ticket", reading[p].iface = i
        PROVE  <<p, i>> \in upSince
    <3>0. netStage \in [Processes -> {"idle", "record", "store", "insert", "ticket"}]
      BY DEF NetInv, NetTypeOK
    <3>1. PICK q \in deployed : Store(q) /\ netStage'[p] # netStage[p]
      BY <2>2, <3>0
         DEF NetNext, PauseDevice, LinkChanges, Walk, ReadPrevious, BeginStore, OpenTicket, PollFails,
             PollDone, netJobVars
    <3>2. q = p
      BY <3>0, <3>1, <2>2 DEF Store
    <3>3. Noticed(p)
      BY <2>2, <3>0, <3>1, <3>2 DEF Store
    <3> QED
      BY <2>2, <3>3 DEF NetInv, UpIsNews, Noticed, Recording
  <2> QED
    BY <2>1, <2>2 DEF NoticedOncePerOutage
<1> QED
  BY <1>1, <1>2, <1>3, PTL DEF NetSpec, nvars, OutagesAreNoticed

(* The processes with a noticed drop of the interface in hand *)
Ticketing(i) == {p \in Processes : netStage[p] = "ticket" /\ reading[p].iface = i}

(* Every noticed drop has its ticket, was dropped, or is in one process's  *)
(* hands.                                                                  *)
DropsAccounted ==
  \A i \in Ifaces :
    netMarks[i] = netTickets[i] + netDropped[i] + Cardinality(Ticketing(i))

LEMMA NetInitAccounted == NetInit => DropsAccounted /\ NetPromise!MarkInit
<1> SUFFICES ASSUME NetInit
             PROVE  DropsAccounted /\ NetPromise!MarkInit
  OBVIOUS
<1>1. \A i \in Ifaces : Ticketing(i) = {}
  BY DEF NetInit, Ticketing
<1>2. \A i \in Ifaces : Cardinality(Ticketing(i)) = 0
  BY <1>1, FS_EmptySet
<1> QED
  BY <1>2 DEF NetInit, NetPromise!MarkInit, DropsAccounted

LEMMA NetNextRefines ==
  NetInv /\ DropsAccounted /\ [NetNext]_nvars
    => DropsAccounted' /\ [NetPromise!MarkNext]_(NetPromise!promise)
<1> SUFFICES ASSUME NetInv, DropsAccounted, [NetNext]_nvars
             PROVE  DropsAccounted' /\ [NetPromise!MarkNext]_(NetPromise!promise)
  OBVIOUS
<1>0. deployed \subseteq Processes
  BY DEF NetInv, NetTypeOK, EnvTypeOK
<1>a. /\ netStage \in [Processes -> {"idle", "record", "store", "insert", "ticket"}]
      /\ reading \in [Processes -> Readings \cup {None}]
      /\ netMarks \in [Ifaces -> Nat] /\ netTickets \in [Ifaces -> Nat]
      /\ netDropped \in [Ifaces -> Nat]
      /\ \A p \in Processes : reading[p] # None <=> netStage[p] \in {"store", "insert", "ticket"}
  BY DEF NetInv, NetTypeOK
<1>b. \A x \in Readings : x.iface \in Ifaces
  BY DEF Readings
<1>c. \A i \in Ifaces : netMarks[i] = netTickets[i] + netDropped[i] + Cardinality(Ticketing(i))
  BY DEF DropsAccounted
<1>1. ASSUME UNCHANGED <<netMarks, netTickets, netDropped>>,
             \A p \in Processes : netStage'[p] = "ticket" <=> netStage[p] = "ticket",
             \A p \in Processes : netStage[p] = "ticket" => reading'[p] = reading[p]
      PROVE  DropsAccounted' /\ [NetPromise!MarkNext]_(NetPromise!promise)
  <2>1. \A i \in Ifaces : Ticketing(i)' = Ticketing(i)
    BY <1>1 DEF Ticketing
  <2> QED
    BY <1>1, <2>1 DEF DropsAccounted, NetPromise!promise
<1>2. CASE PauseDevice \/ \E i \in Ifaces : LinkChanges(i)
  BY <1>1, <1>2 DEF PauseDevice, LinkChanges, netJobVars, netAudit
<1>3. ASSUME NEW p \in Processes, Walk(p) \/ ReadPrevious(p) \/ BeginStore(p) \/ PollDone(p)
      PROVE  DropsAccounted' /\ [NetPromise!MarkNext]_(NetPromise!promise)
  BY <1>a, <1>1, <1>3 DEF Walk, ReadPrevious, BeginStore, PollDone, netAudit
<1>4. ASSUME NEW p \in Processes, Store(p)
      PROVE  DropsAccounted' /\ [NetPromise!MarkNext]_(NetPromise!promise)
  <2>1. CASE ~Noticed(p)
    BY <1>a, <1>1, <1>4, <2>1 DEF Store
  <2>2. CASE Noticed(p)
    <3>1. PICK i \in Ifaces : i = reading[p].iface
      BY <1>a, <1>b, <1>4 DEF Store
    <3>2. /\ netMarks' = [netMarks EXCEPT ![i] = @ + 1]
          /\ netStage' = [netStage EXCEPT ![p] = "ticket"]
          /\ UNCHANGED <<reading, netTickets, netDropped>> /\ netStage[p] = "insert"
      BY <1>4, <2>2, <3>1 DEF Store
    <3>3. Ticketing(i)' = Ticketing(i) \cup {p} /\ p \notin Ticketing(i)
      BY <1>a, <3>1, <3>2 DEF Ticketing
    <3>4. \A j \in Ifaces \ {i} : Ticketing(j)' = Ticketing(j)
      BY <1>a, <3>1, <3>2 DEF Ticketing
    <3>5. /\ Cardinality(Ticketing(i)) \in Nat
          /\ Cardinality(Ticketing(i)') = Cardinality(Ticketing(i)) + 1
      <4>1. Ticketing(i) \in SUBSET Processes
        BY DEF Ticketing
      <4> QED
        BY <3>3, <4>1, CountOneMore
    <3>6. ASSUME NEW j \in Ifaces
          PROVE  netMarks'[j] = netTickets'[j] + netDropped'[j] + Cardinality(Ticketing(j)')
      <4>1. CASE j = i
        BY <1>a, <1>c, <3>2, <3>5, <4>1
      <4>2. CASE j # i
        BY <1>a, <1>c, <3>2, <3>4, <4>2
      <4> QED
        BY <4>1, <4>2
    <3>7. NetPromise!Mark(i)
      BY <3>2 DEF NetPromise!Mark
    <3> QED
      BY <3>6, <3>7 DEF DropsAccounted, NetPromise!MarkNext
  <2> QED
    BY <2>1, <2>2
<1>5. ASSUME NEW p \in Processes, NEW s \in {"idle", "record"}, netStage[p] = "ticket",
             netStage' = [netStage EXCEPT ![p] = s],
             reading' = [reading EXCEPT ![p] = None], UNCHANGED netMarks,
             \/ /\ netTickets' = [netTickets EXCEPT ![reading[p].iface] = @ + 1]
                /\ UNCHANGED netDropped
             \/ /\ netDropped' = [netDropped EXCEPT ![reading[p].iface] = @ + 1]
                /\ UNCHANGED netTickets
      PROVE  DropsAccounted' /\ [NetPromise!MarkNext]_(NetPromise!promise)
  <2>1. PICK i \in Ifaces : i = reading[p].iface
    BY <1>a, <1>b, <1>5
  <2>2. /\ netMarks' = netMarks
        /\ \/ /\ netTickets' = [netTickets EXCEPT ![i] = @ + 1]
              /\ netDropped' = netDropped
           \/ /\ netDropped' = [netDropped EXCEPT ![i] = @ + 1]
              /\ netTickets' = netTickets
    BY <1>5, <2>1
  <2>3. Ticketing(i) = Ticketing(i)' \cup {p} /\ p \notin Ticketing(i)'
    BY <1>a, <1>5, <2>1 DEF Ticketing
  <2>4. \A j \in Ifaces \ {i} : Ticketing(j)' = Ticketing(j)
    BY <1>a, <1>5, <2>1 DEF Ticketing
  <2>5. /\ Cardinality(Ticketing(i)') \in Nat
        /\ Cardinality(Ticketing(i)) = Cardinality(Ticketing(i)') + 1
    <3>1. Ticketing(i)' \in SUBSET Processes
      BY DEF Ticketing
    <3> QED
      BY <2>3, <3>1, CountOneMore
  <2>6. ASSUME NEW j \in Ifaces
        PROVE  netMarks'[j] = netTickets'[j] + netDropped'[j] + Cardinality(Ticketing(j)')
    <3>1. CASE j = i
      BY <1>a, <1>c, <2>2, <2>5, <3>1
    <3>2. CASE j # i
      BY <1>a, <1>c, <2>2, <2>4, <3>2
    <3> QED
      BY <3>1, <3>2
  <2>7. NetPromise!InHand(i)
    BY <1>a, <1>c, <2>5 DEF NetPromise!InHand
  <2>8. NetPromise!Act(i) \/ NetPromise!Drop(i)
    BY <2>2, <2>7 DEF NetPromise!Act, NetPromise!Drop
  <2> QED
    BY <2>6, <2>8 DEF DropsAccounted, NetPromise!MarkNext
<1>6. ASSUME NEW p \in Processes, OpenTicket(p)
      PROVE  DropsAccounted' /\ [NetPromise!MarkNext]_(NetPromise!promise)
  BY <1>5, <1>6 DEF OpenTicket
<1>7. ASSUME NEW p \in Processes, PollFails(p)
      PROVE  DropsAccounted' /\ [NetPromise!MarkNext]_(NetPromise!promise)
  <2>1. CASE netStage[p] = "ticket"
    BY <1>5, <1>7, <2>1 DEF PollFails
  <2>2. CASE netStage[p] # "ticket"
    BY <1>a, <1>1, <1>7, <2>2 DEF PollFails
  <2> QED
    BY <2>1, <2>2
<1>8. CASE UNCHANGED nvars
  BY <1>1, <1>8 DEF nvars, netVars, netJobVars, netAudit
<1> QED
  BY <1>0, <1>2, <1>3, <1>4, <1>6, <1>7, <1>8 DEF NetNext

(* The poller implements MarkThenAct: a noticed drop stands for at most    *)
(* one ticket, and for one unless a fault took it.                         *)
THEOREM NetRefines == NetSpec => NetImplementsPromise
<1>1. NetInit => NetInv /\ DropsAccounted /\ NetPromise!MarkInit
  BY NetInitInv, NetInitAccounted
<1>2. NetInv /\ DropsAccounted /\ [NetNext]_nvars
        => NetInv' /\ DropsAccounted' /\ [NetPromise!MarkNext]_(NetPromise!promise)
  BY NetNextInv, NetNextRefines
<1> QED
  BY <1>1, <1>2, PTL DEF NetSpec, nvars, NetImplementsPromise, NetPromise!MarkSpec

-----------------------------------------------------------------------------
(* ScheduledReports implements ActThenMark, and its copies are bounded *)

svars == <<environment, repVars>>

LEMMA DeliveryOf ==
  /\ \A r \in Reports, k \in Nat \ {0} : <<r, k>> \in Deliveries <=> k <= Recipients[r]
  /\ \A d \in Deliveries : /\ d = <<d[1], d[2]>> /\ d[1] \in Reports
                          /\ d[2] \in Nat \ {0} /\ d[2] <= Recipients[d[1]]
<1>1. \A r \in Reports : Recipients[r] \in Nat
  BY ReportAssumption
<1> QED
  BY <1>1 DEF Deliveries

(* A report a process is at, or has yet to run, was created; the one it is *)
(* at is not among those it has yet to run.                                *)
RowsCreated ==
  \A p \in Processes :
    /\ repRow[p] # None => repState[repRow[p]] # "new" /\ repRow[p] \notin repDue[p]
    /\ \A r \in repDue[p] : repState[r] # "new"

(* The inductive invariant of the types *)
RepInv == RepTypeOK /\ RowsCreated

LEMMA RepInitInv == RepInit => RepInv
<1> SUFFICES ASSUME RepInit
             PROVE  RepInv
  OBVIOUS
<1> USE EnvironmentAssumption, ReportAssumption
<1>1. RepTypeOK
  BY DEF RepInit, RepTypeOK, EnvInit, EnvTypeOK, Times
<1>2. RowsCreated
  BY DEF RepInit, RowsCreated
<1> QED
  BY <1>1, <1>2 DEF RepInv

LEMMA RepNextInv == RepInv /\ [RepNext]_svars => RepInv'
<1> SUFFICES ASSUME RepInv, [RepNext]_svars
             PROVE  RepInv'
  OBVIOUS
<1> USE ReportAssumption
<1>0. RepTypeOK /\ EnvTypeOK /\ deployed \subseteq Processes /\ now \in Nat
  BY EnvironmentAssumption DEF RepInv, RepTypeOK, EnvTypeOK, Times
<1>1. CASE RepTick
  BY <1>0, <1>1, TickTyped
     DEF RepTick, RepInv, RepTypeOK, RowsCreated, repVars, repRows, repJobVars, repAudit
<1>2. ASSUME NEW r \in Reports, CreateReport(r)
      PROVE  RepInv'
  BY <1>0, <1>2, EnvironmentKept
     DEF CreateReport, RepInv, RepTypeOK, RowsCreated, repJobVars, repAudit
<1>3. ASSUME NEW r \in Reports, RemoveReport(r)
      PROVE  RepInv'
  BY <1>0, <1>3, EnvironmentKept
     DEF RemoveReport, RepInv, RepTypeOK, RowsCreated, repJobVars, repAudit
<1>4. ASSUME NEW p \in Processes, RepSelect(p)
      PROVE  RepInv'
  <2>1. RepTypeOK'
    BY <1>0, <1>4, EnvironmentKept DEF RepSelect, RepTypeOK, repRows, repAudit
  <2>2. RowsCreated'
    BY <1>0, <1>4 DEF RepSelect, RepInv, RepTypeOK, RowsCreated, ReportDue, repRows
  <2> QED
    BY <2>1, <2>2 DEF RepInv
<1>5. ASSUME NEW p \in Processes, TakeReport(p)
      PROVE  RepInv'
  <2>1. PICK r \in repDue[p] :
          /\ repDue' = [repDue EXCEPT ![p] = @ \ {r}]
          /\ IF r \in Unrenderable
             THEN UNCHANGED <<repStage, repRow, repTo>>
             ELSE /\ repRow' = [repRow EXCEPT ![p] = r]
                  /\ repTo' = [repTo EXCEPT ![p] = 1]
                  /\ repStage' = [repStage EXCEPT ![p] = "send"]
    BY <1>5 DEF TakeReport
  <2>2. r \in Reports /\ r # None /\ Recipients[r] \in Nat \ {0}
    BY <1>0 DEF RepTypeOK
  <2>3. RepTypeOK'
    <3>1. CASE r \in Unrenderable
      BY <1>0, <1>5, <2>1, <2>2, <3>1, EnvironmentKept DEF TakeReport, RepTypeOK, repRows, repAudit
    <3>2. CASE r \notin Unrenderable
      BY <1>0, <1>5, <2>1, <2>2, <3>2, EnvironmentKept DEF TakeReport, RepTypeOK, repRows, repAudit
    <3> QED
      BY <3>1, <3>2
  <2>4. RowsCreated'
    BY <1>0, <1>5, <2>1, <2>2 DEF TakeReport, RepInv, RepTypeOK, RowsCreated, repRows
  <2> QED
    BY <2>3, <2>4 DEF RepInv
<1>6. ASSUME NEW p \in Processes, EnqueueReport(p)
      PROVE  RepInv'
  <2>1. /\ repRow[p] \in Reports /\ repTo[p] \in Nat \ {0} /\ repTo[p] <= Recipients[repRow[p]]
        /\ Recipients[repRow[p]] \in Nat \ {0}
    BY <1>0, <1>6 DEF EnqueueReport, RepTypeOK
  <2>2. repSent' \in [Deliveries -> Nat]
    <3>1. <<repRow[p], repTo[p]>> \in Deliveries
      BY <2>1, DeliveryOf
    <3> QED
      BY <1>0, <1>6, <3>1 DEF EnqueueReport, RepTypeOK
  <2>3. RepTypeOK'
    BY <1>0, <1>6, <2>1, <2>2, EnvironmentKept
       DEF EnqueueReport, LastRecipient, RepTypeOK, repRows
  <2>4. RowsCreated'
    BY <1>6 DEF EnqueueReport, RepInv, RowsCreated, repRows
  <2> QED
    BY <2>3, <2>4 DEF RepInv
<1>7. ASSUME NEW p \in Processes, MarkRun(p)
      PROVE  RepInv'
  <2>1. repRow[p] \in Reports
    BY <1>0, <1>7 DEF MarkRun, RepTypeOK
  <2>2. repRuns' \in [Deliveries -> Nat]
    BY <1>0, <1>7 DEF MarkRun, RepTypeOK
  <2>3. nextRun' \in [Reports -> Nat]
    BY <1>0, <1>7, <2>1 DEF MarkRun, RepTypeOK, Advanced
  <2>4. RepTypeOK'
    BY <1>0, <1>7, <2>2, <2>3, EnvironmentKept DEF MarkRun, RepTypeOK
  <2>5. RowsCreated'
    BY <1>0, <1>7 DEF MarkRun, RepInv, RepTypeOK, RowsCreated
  <2> QED
    BY <2>4, <2>5 DEF RepInv
<1>8. ASSUME NEW p \in Processes, ReportFails(p)
      PROVE  RepInv'
  <2>1. repSent' \in [Deliveries -> Nat]
    <3>1. /\ repRow[p] \in Reports /\ repTo[p] \in Nat \ {0}
          /\ repTo[p] <= Recipients[repRow[p]]
      BY <1>0, <1>8 DEF ReportFails, RepTypeOK
    <3>2. <<repRow[p], repTo[p]>> \in Deliveries
      BY <3>1, DeliveryOf
    <3> QED
      BY <1>0, <1>8, <3>2 DEF ReportFails, RepTypeOK
  <2>2. RepTypeOK'
    BY <1>0, <1>8, <2>1, FaultTyped DEF ReportFails, RepTypeOK, repRows
  <2>3. RowsCreated'
    BY <1>0, <1>8 DEF ReportFails, RepInv, RepTypeOK, RowsCreated, repRows
  <2> QED
    BY <2>2, <2>3 DEF RepInv
<1>9. ASSUME NEW p \in Processes, RepSweepFails(p)
      PROVE  RepInv'
  <2>1. RepTypeOK'
    BY <1>0, <1>9, FaultTyped DEF RepSweepFails, RepTypeOK, repRows, repAudit
  <2>2. RowsCreated'
    BY <1>0, <1>9 DEF RepSweepFails, RepInv, RepTypeOK, RowsCreated, repRows
  <2> QED
    BY <2>1, <2>2 DEF RepInv
<1>10. ASSUME NEW p \in Processes, RepFinish(p)
       PROVE  RepInv'
  BY <1>0, <1>10, EnvironmentKept DEF RepFinish, RepInv, RepTypeOK, RowsCreated, repRows, repAudit
<1>11. CASE UNCHANGED svars
  BY <1>0, <1>11, EnvironmentKept
     DEF svars, RepInv, RepTypeOK, RowsCreated, repVars, repRows, repJobVars, repAudit
<1> QED
  BY <1>0, <1>1, <1>2, <1>3, <1>4, <1>5, <1>6, <1>7, <1>8, <1>9, <1>10, <1>11
     DEF RepNext, RepSweep

(* The report sweep keeps every variable in its type. *)
THEOREM RepTypeCorrect == RepSpec => []RepTypeOK
<1>1. RepInit => RepInv
  BY RepInitInv
<1>2. RepInv /\ [RepNext]_svars => RepInv'
  BY RepNextInv
<1>3. RepInv => RepTypeOK
  BY DEF RepInv
<1> QED
  BY <1>1, <1>2, <1>3, PTL DEF RepSpec, svars

(* In its current run, the process has enqueued the delivery, or has it    *)
(* still to come                                                           *)
HasServed(p, d) ==
  repRow[p] = d[1] /\ (repStage[p] = "mark" \/ (repStage[p] = "send" /\ repTo[p] > d[2]))

HasToServe(p, d) ==
  d[1] \in repDue[p] \/ (repRow[p] = d[1] /\ repStage[p] = "send" /\ repTo[p] <= d[2])

Served(d) == {p \in Processes : HasServed(p, d)}

(* The processes whose copy of the delivery is not recorded: it may be     *)
(* yet, or the report was removed under them.                              *)
Spent(d) ==
  {p \in deployed : HasServed(p, d) \/ (repState[d[1]] = "removed" /\ ~HasToServe(p, d))}

(* The copies lie between those the runs and the processes at it account   *)
(* for and those the faults may have added.                                *)
CopiesCounted ==
  \A d \in Deliveries :
    /\ repRuns[d] + Cardinality(Served(d)) <= repSent[d]
    /\ repSent[d] <= repRuns[d] + faults + Cardinality(Spent(d))

LEMMA RepInitCounted == RepInit => CopiesCounted /\ RepPromise!ActInit
<1> SUFFICES ASSUME RepInit
             PROVE  CopiesCounted /\ RepPromise!ActInit
  OBVIOUS
<1>1. RepTypeOK
  BY RepInitInv DEF RepInv
<1>2. ASSUME NEW d \in Deliveries
      PROVE  Served(d) = {} /\ Spent(d) = {}
  <2>1. d[1] \in Reports
    BY DeliveryOf
  <2>2. deployed \subseteq Processes
    BY <1>1 DEF RepTypeOK, EnvTypeOK
  <2> QED
    BY <2>1, <2>2 DEF RepInit, Served, Spent, HasServed
<1>3. \A d \in Deliveries : Cardinality(Served(d)) = 0 /\ Cardinality(Spent(d)) = 0
  BY <1>2, FS_EmptySet
<1>4. CopiesCounted
  BY <1>3 DEF RepInit, EnvInit, CopiesCounted
<1> QED
  BY <1>4 DEF RepInit, RepPromise!ActInit

LEMMA RepNextCounted ==
  RepInv /\ RepInv' /\ CopiesCounted /\ [RepNext]_svars => CopiesCounted'
<1> SUFFICES ASSUME RepInv, RepInv', [RepNext]_svars, CopiesCounted, NEW d \in Deliveries
             PROVE  (/\ repRuns[d] + Cardinality(Served(d)) <= repSent[d]
                     /\ repSent[d] <= repRuns[d] + faults + Cardinality(Spent(d)))'
  BY DEF CopiesCounted
<1> DEFINE Counted == /\ repRuns[d] + Cardinality(Served(d)) <= repSent[d]
                      /\ repSent[d] <= repRuns[d] + faults + Cardinality(Spent(d))
<1> SUFFICES Counted'
  OBVIOUS
<1>0. Counted
  BY DEF CopiesCounted
<1>a. /\ d[1] \in Reports /\ d[2] \in Nat \ {0} /\ d[2] <= Recipients[d[1]]
      /\ Recipients[d[1]] \in Nat /\ d = <<d[1], d[2]>>
  BY DeliveryOf, ReportAssumption
<1>b. /\ repRuns \in [Deliveries -> Nat] /\ repSent \in [Deliveries -> Nat]
      /\ repStage \in [Processes -> {"idle", "next", "send", "mark"}]
      /\ repDue \in [Processes -> SUBSET Reports]
      /\ repRow \in [Processes -> Reports \cup {None}]
      /\ repTo \in [Processes -> Nat \ {0}]
      /\ repState \in [Reports -> {"new", "live", "removed"}]
      /\ deployed \subseteq Processes /\ faults \in Nat
      /\ \A p \in Processes :
           /\ repRow[p] # None <=> repStage[p] \in {"send", "mark"}
           /\ repRow[p] # None => repTo[p] <= Recipients[repRow[p]]
  BY EnvironmentAssumption DEF RepInv, RepTypeOK, EnvTypeOK
<1>c. /\ repRuns'[d] \in Nat /\ repSent'[d] \in Nat /\ faults' \in Nat
      /\ deployed' \subseteq Processes
  BY EnvironmentAssumption DEF RepInv, RepTypeOK, EnvTypeOK
<1>d. \A p \in Processes :
        /\ repRow[p] # None => repState[repRow[p]] # "new" /\ repRow[p] \notin repDue[p]
        /\ \A r \in repDue[p] : repState[r] # "new"
  BY DEF RepInv, RowsCreated
<1>e. /\ Served(d) \in SUBSET Processes /\ Served(d)' \in SUBSET Processes
      /\ Spent(d) \in SUBSET Processes /\ Spent(d)' \in SUBSET Processes
  BY <1>b, <1>c DEF Served, Spent
<1>f. /\ Cardinality(Served(d)) \in Nat /\ Cardinality(Served(d)') \in Nat
      /\ Cardinality(Spent(d)) \in Nat /\ Cardinality(Spent(d)') \in Nat
  BY <1>e, CountWithin
<1> HIDE DEF Counted
(* Nothing of this delivery is sent or recorded *)
<1>1. ASSUME repRuns'[d] = repRuns[d], repSent'[d] = repSent[d], faults' = faults,
             Served(d)' \subseteq Served(d), Spent(d) \subseteq Spent(d)'
      PROVE  Counted'
  <2>1. Cardinality(Served(d)') <= Cardinality(Served(d))
    BY <1>1, <1>e, CountWithin
  <2>2. Cardinality(Spent(d)) <= Cardinality(Spent(d)')
    BY <1>1, <1>e, CountWithin
  <2> QED
    BY <1>0, <1>1, <1>b, <1>f, <2>1, <2>2 DEF Counted
(* A fault, which may have let the message out *)
<1>2. ASSUME NEW p \in Processes, repRuns'[d] = repRuns[d], faults' = faults + 1,
             Served(d)' \subseteq Served(d),
             \/ repSent'[d] = repSent[d] /\ Spent(d) \subseteq Spent(d)' \cup {p}
             \/ repSent'[d] = repSent[d] + 1 /\ Spent(d) \subseteq Spent(d)'
      PROVE  Counted'
  <2>1. Cardinality(Served(d)') <= Cardinality(Served(d))
    BY <1>2, <1>e, CountWithin
  <2>2. CASE repSent'[d] = repSent[d] /\ Spent(d) \subseteq Spent(d)' \cup {p}
    <3>1. Cardinality(Spent(d)) <= Cardinality(Spent(d)') + 1
      BY <1>e, <2>2, CountWithin
    <3> QED
      BY <1>0, <1>2, <1>b, <1>f, <2>1, <2>2, <3>1 DEF Counted
  <2>3. CASE repSent'[d] = repSent[d] + 1 /\ Spent(d) \subseteq Spent(d)'
    <3>1. Cardinality(Spent(d)) <= Cardinality(Spent(d)')
      BY <1>e, <2>3, CountWithin
    <3> QED
      BY <1>0, <1>2, <1>b, <1>f, <2>1, <2>3, <3>1 DEF Counted
  <2> QED
    BY <1>2, <2>2, <2>3
<1>3. CASE RepTick
  BY <1>1, <1>3 DEF RepTick, ClockTick, repVars, repRows, repJobVars, repAudit,
     Served, Spent, HasServed, HasToServe
<1>4. ASSUME NEW r \in Reports, CreateReport(r) \/ RemoveReport(r)
      PROVE  Counted'
  <2>1. UNCHANGED <<environment, repJobVars, repAudit>>
        /\ (repState[d[1]] = "removed" => repState'[d[1]] = "removed")
    BY <1>a, <1>b, <1>4 DEF CreateReport, RemoveReport
  <2>2. Served(d)' = Served(d)
    BY <2>1 DEF repJobVars, Served, HasServed
  <2>3. Spent(d) \subseteq Spent(d)'
    BY <2>1 DEF environment, repJobVars, Spent, HasServed, HasToServe
  <2> QED
    BY <1>1, <2>1, <2>2, <2>3 DEF environment, repAudit
<1>5. ASSUME NEW p \in Processes, RepSelect(p)
      PROVE  Counted'
  <2>1. /\ UNCHANGED <<environment, repRows, repRow, repTo, repAudit>>
        /\ \A q \in Processes \ {p} : repStage'[q] = repStage[q] /\ repDue'[q] = repDue[q]
        /\ repStage[p] = "idle" /\ repStage'[p] = "next" /\ repRow[p] = None
        /\ \A r \in repDue'[p] : repState[r] = "live"
    BY <1>b, <1>5 DEF RepSelect, ReportDue
  <2>2. Served(d)' = Served(d)
    BY <2>1 DEF Served, HasServed
  <2>3. Spent(d) \subseteq Spent(d)'
    BY <1>b, <2>1 DEF environment, repRows, Spent, HasServed, HasToServe
  <2> QED
    BY <1>1, <2>1, <2>2, <2>3 DEF environment, repAudit
<1>6. ASSUME NEW p \in Processes, TakeReport(p)
      PROVE  Counted'
  <2>1. PICK r \in repDue[p] :
          /\ repDue' = [repDue EXCEPT ![p] = @ \ {r}]
          /\ IF r \in Unrenderable
             THEN UNCHANGED <<repStage, repRow, repTo>>
             ELSE /\ repRow' = [repRow EXCEPT ![p] = r]
                  /\ repTo' = [repTo EXCEPT ![p] = 1]
                  /\ repStage' = [repStage EXCEPT ![p] = "send"]
    BY <1>6 DEF TakeReport
  <2>2. /\ UNCHANGED <<environment, repRows, repAudit>>
        /\ \A q \in Processes \ {p} : /\ repStage'[q] = repStage[q] /\ repDue'[q] = repDue[q]
                                      /\ repRow'[q] = repRow[q] /\ repTo'[q] = repTo[q]
        /\ repStage[p] = "next" /\ repRow[p] = None /\ repDue'[p] = repDue[p] \ {r}
    BY <1>b, <1>6, <2>1 DEF TakeReport
  <2>3. CASE r \in Unrenderable
    <3>1. UNCHANGED <<repStage, repRow, repTo>>
      BY <2>1, <2>3
    <3>2. Served(d)' \subseteq Served(d)
      BY <1>a, <2>2, <3>1 DEF Served, HasServed
    <3>3. Spent(d) \subseteq Spent(d)'
      BY <1>a, <1>b, <2>2, <3>1 DEF environment, repRows, Spent, HasServed, HasToServe
    <3> QED
      BY <1>1, <2>2, <3>2, <3>3 DEF environment, repAudit
  <2>4. CASE r \notin Unrenderable
    <3>1. repStage'[p] = "send" /\ repRow'[p] = r /\ repTo'[p] = 1
      BY <1>b, <2>1, <2>4
    <3>2. Served(d)' \subseteq Served(d)
      BY <1>a, <2>2, <3>1 DEF Served, HasServed
    <3>3. Spent(d) \subseteq Spent(d)'
      BY <1>a, <1>b, <2>1, <2>2, <3>1 DEF environment, repRows, Spent, HasServed, HasToServe
    <3> QED
      BY <1>1, <2>2, <3>1, <3>2, <3>3 DEF environment, repAudit
  <2> QED
    BY <2>3, <2>4
<1>7. ASSUME NEW p \in deployed, EnqueueReport(p)
      PROVE  Counted'
  <2>1. PICK r \in Reports, k \in Nat \ {0} : r = repRow[p] /\ k = repTo[p]
    BY <1>b, <1>7 DEF EnqueueReport
  <2>2. /\ UNCHANGED <<environment, repRows, repDue, repRow, repRuns>>
        /\ p \in Processes /\ repStage[p] = "send" /\ k <= Recipients[r] /\ Recipients[r] \in Nat
        /\ repSent' = [repSent EXCEPT ![<<r, k>>] = @ + 1]
        /\ IF k = Recipients[r]
           THEN repStage' = [repStage EXCEPT ![p] = "mark"] /\ UNCHANGED repTo
           ELSE repTo' = [repTo EXCEPT ![p] = @ + 1] /\ UNCHANGED repStage
    BY <1>b, <1>7, <2>1, ReportAssumption DEF EnqueueReport, LastRecipient
  <2>3. /\ \A q \in Processes \ {p} : repStage'[q] = repStage[q] /\ repTo'[q] = repTo[q]
        /\ \/ k = Recipients[r] /\ repStage'[p] = "mark" /\ repTo'[p] = k
           \/ k < Recipients[r] /\ repStage'[p] = "send" /\ repTo'[p] = k + 1
    BY <1>b, <2>1, <2>2
  <2>4. CASE d = <<r, k>>
    <3>1. d[1] = r /\ d[2] = k /\ repSent'[d] = repSent[d] + 1
      BY <1>b, <2>2, <2>4
    <3>2. HasServed(p, d)' /\ ~HasServed(p, d) /\ HasToServe(p, d)
      BY <2>1, <2>2, <2>3, <3>1 DEF HasServed, HasToServe
    <3>3. \A q \in Processes \ {p} :
            (HasServed(q, d)' <=> HasServed(q, d)) /\ (HasToServe(q, d)' <=> HasToServe(q, d))
      BY <2>2, <2>3 DEF HasServed, HasToServe
    <3>4. Served(d)' = Served(d) \cup {p} /\ p \notin Served(d)
      BY <2>2, <3>2, <3>3 DEF Served
    <3>5. Spent(d)' = Spent(d) \cup {p} /\ p \notin Spent(d)
      BY <1>b, <2>2, <3>2, <3>3 DEF Spent, environment, repRows
    <3>6. Cardinality(Served(d)') = Cardinality(Served(d)) + 1
      BY <1>e, <2>2, <3>4, CountOneMore
    <3>7. Cardinality(Spent(d)') = Cardinality(Spent(d)) + 1
      BY <1>e, <2>2, <3>5, CountOneMore
    <3> QED
      BY <1>0, <1>b, <1>f, <2>2, <3>1, <3>6, <3>7 DEF Counted, environment
  <2>5. CASE d # <<r, k>>
    <3>1. (d[1] # r \/ d[2] # k) /\ repSent'[d] = repSent[d]
      BY <1>a, <1>b, <2>2, <2>5
    <3>2. \A q \in Processes :
            (HasServed(q, d)' <=> HasServed(q, d)) /\ (HasToServe(q, d)' <=> HasToServe(q, d))
      BY <1>a, <2>1, <2>2, <2>3, <3>1 DEF HasServed, HasToServe
    <3>3. Served(d)' = Served(d) /\ Spent(d)' = Spent(d)
      BY <1>b, <2>2, <3>2 DEF Served, Spent, environment, repRows
    <3> QED
      BY <1>1, <2>2, <3>1, <3>3 DEF environment
  <2> QED
    BY <2>4, <2>5
<1>8. ASSUME NEW p \in deployed, MarkRun(p)
      PROVE  Counted'
  <2>1. PICK r \in Reports : r = repRow[p]
    BY <1>b, <1>8 DEF MarkRun
  <2>2. /\ UNCHANGED <<environment, repState, repDue, repTo, repSent>>
        /\ p \in Processes /\ repStage[p] = "mark" /\ r \notin repDue[p]
        /\ repState[r] \in {"live", "removed"} /\ r # None
        /\ repRuns'[d] = IF repState[r] = "live" /\ d[1] = r THEN repRuns[d] + 1 ELSE repRuns[d]
        /\ repStage'[p] = "next" /\ repRow'[p] = None
        /\ \A q \in Processes \ {p} : repStage'[q] = repStage[q] /\ repRow'[q] = repRow[q]
    BY <1>b, <1>d, <1>8, <2>1 DEF MarkRun
  <2>3. \A q \in Processes \ {p} :
          (HasServed(q, d)' <=> HasServed(q, d)) /\ (HasToServe(q, d)' <=> HasToServe(q, d))
    BY <2>2 DEF HasServed, HasToServe
  <2>4. ~HasServed(p, d)' /\ (HasToServe(p, d)' => d[1] # r /\ HasToServe(p, d))
    BY <1>a, <2>1, <2>2 DEF HasServed, HasToServe
  <2>5. Served(d)' \subseteq Served(d)
    BY <2>2, <2>3, <2>4 DEF Served
  <2>6. CASE d[1] = r /\ repState[r] = "live"
    <3>1. HasServed(p, d)
      BY <2>1, <2>2, <2>6 DEF HasServed
    <3>2. Served(d) = Served(d)' \cup {p} /\ p \notin Served(d)'
      BY <2>2, <2>3, <2>4, <3>1 DEF Served
    <3>3. Spent(d) = Spent(d)' \cup {p} /\ p \notin Spent(d)'
      BY <1>b, <2>2, <2>3, <2>4, <2>6, <3>1 DEF Spent, environment
    <3>4. Cardinality(Served(d)) = Cardinality(Served(d)') + 1
      BY <1>e, <2>2, <3>2, CountOneMore
    <3>5. Cardinality(Spent(d)) = Cardinality(Spent(d)') + 1
      BY <1>e, <2>2, <3>3, CountOneMore
    <3> QED
      BY <1>0, <1>b, <1>f, <2>2, <2>6, <3>4, <3>5 DEF Counted, environment
  <2>7. CASE ~(d[1] = r /\ repState[r] = "live")
    <3>1. HasServed(p, d) => repState[d[1]] = "removed" /\ ~HasToServe(p, d)'
      BY <2>1, <2>2, <2>4, <2>7 DEF HasServed
    <3>2. Spent(d) \subseteq Spent(d)'
      BY <1>b, <2>2, <2>3, <2>4, <3>1 DEF Spent, environment
    <3> QED
      BY <1>1, <2>2, <2>5, <2>7, <3>2 DEF environment
  <2> QED
    BY <2>6, <2>7
<1>9. ASSUME NEW p \in Processes, ReportFails(p)
      PROVE  Counted'
  <2>1. PICK r \in Reports, k \in Nat \ {0} : r = repRow[p] /\ k = repTo[p]
    BY <1>b, <1>9 DEF ReportFails
  <2>2. /\ UNCHANGED <<repRows, repDue, repTo, repRuns>>
        /\ deployed' = deployed /\ faults' = faults + 1 /\ r # None
        /\ repStage'[p] = "next" /\ repRow'[p] = None
        /\ \A q \in Processes \ {p} : repStage'[q] = repStage[q] /\ repRow'[q] = repRow[q]
        /\ \/ UNCHANGED repSent
           \/ repStage[p] = "send" /\ repSent' = [repSent EXCEPT ![<<r, k>>] = @ + 1]
    BY <1>b, <1>9, <2>1 DEF ReportFails, Fault
  <2>3. \A q \in Processes \ {p} :
          (HasServed(q, d)' <=> HasServed(q, d)) /\ (HasToServe(q, d)' <=> HasToServe(q, d))
    BY <2>2 DEF HasServed, HasToServe
  <2>4. ~HasServed(p, d)' /\ (HasToServe(p, d)' => HasToServe(p, d))
    BY <1>a, <2>1, <2>2 DEF HasServed, HasToServe
  <2>5. Served(d)' \subseteq Served(d)
    BY <2>2, <2>3, <2>4 DEF Served
  <2>6. Spent(d) \subseteq Spent(d)' \cup {p}
    BY <1>b, <2>2, <2>3, <2>4 DEF Spent, repRows
  <2>7. CASE repSent'[d] = repSent[d]
    BY <1>2, <2>2, <2>5, <2>6, <2>7
  <2>8. CASE repSent'[d] # repSent[d]
    <3>1. d = <<r, k>> /\ repStage[p] = "send" /\ repSent'[d] = repSent[d] + 1
      BY <1>b, <2>2, <2>8
    <3>2. ~HasServed(p, d)
      BY <2>1, <3>1 DEF HasServed
    <3>3. Spent(d) \subseteq Spent(d)'
      BY <1>b, <2>2, <2>3, <2>4, <3>2 DEF Spent, repRows
    <3> QED
      BY <1>2, <2>2, <2>5, <3>1, <3>3
  <2> QED
    BY <2>7, <2>8
<1>10. ASSUME NEW p \in Processes, RepSweepFails(p)
       PROVE  Counted'
  <2>1. /\ UNCHANGED <<repRows, repTo, repAudit>> /\ deployed' = deployed /\ faults' = faults + 1
        /\ \A q \in Processes \ {p} : /\ repStage'[q] = repStage[q] /\ repDue'[q] = repDue[q]
                                      /\ repRow'[q] = repRow[q]
        /\ repStage'[p] = "idle"
    BY <1>b, <1>10 DEF RepSweepFails, Fault
  <2>2. Served(d)' \subseteq Served(d)
    BY <2>1 DEF Served, HasServed
  <2>3. Spent(d) \subseteq Spent(d)' \cup {p}
    BY <1>b, <2>1 DEF repRows, Spent, HasServed, HasToServe
  <2> QED
    BY <1>2, <2>1, <2>2, <2>3 DEF repAudit
<1>11. ASSUME NEW p \in Processes, RepFinish(p)
       PROVE  Counted'
  <2>1. /\ UNCHANGED <<environment, repRows, repDue, repRow, repTo, repAudit>>
        /\ \A q \in Processes : repStage'[q] \in {"send", "mark"} \/ repStage[q] \in {"send", "mark"}
             => repStage'[q] = repStage[q]
    BY <1>b, <1>11 DEF RepFinish
  <2>2. Served(d)' = Served(d)
    BY <2>1 DEF Served, HasServed
  <2>3. Spent(d) \subseteq Spent(d)'
    BY <1>b, <2>1 DEF environment, repRows, Spent, HasServed, HasToServe
  <2> QED
    BY <1>1, <2>1, <2>2, <2>3 DEF environment, repAudit
<1>12. CASE UNCHANGED svars
  BY <1>1, <1>12 DEF svars, environment, repVars, repRows, repJobVars, repAudit,
     Served, Spent, HasServed, HasToServe
<1> QED
  BY <1>b, <1>3, <1>4, <1>5, <1>6, <1>7, <1>8, <1>9, <1>10, <1>11, <1>12 DEF RepNext, RepSweep

LEMMA RepNextRefines ==
  RepInv /\ CopiesCounted /\ [RepNext]_svars => [RepPromise!ActNext]_(RepPromise!promise)
<1> SUFFICES ASSUME RepInv, CopiesCounted, [RepNext]_svars
             PROVE  [RepPromise!ActNext]_(RepPromise!promise)
  OBVIOUS
<1>a. /\ repRuns \in [Deliveries -> Nat] /\ repSent \in [Deliveries -> Nat]
      /\ repRow \in [Processes -> Reports \cup {None}] /\ repTo \in [Processes -> Nat \ {0}]
      /\ deployed \subseteq Processes
      /\ \A p \in Processes :
           /\ repRow[p] # None <=> repStage[p] \in {"send", "mark"}
           /\ repRow[p] # None => repTo[p] <= Recipients[repRow[p]]
  BY DEF RepInv, RepTypeOK, EnvTypeOK
<1>1. ASSUME NEW p \in Processes, repStage[p] = "send", UNCHANGED repRuns,
             repSent' = [repSent EXCEPT ![<<repRow[p], repTo[p]>>] = @ + 1]
      PROVE  RepPromise!ActNext
  <2>1. <<repRow[p], repTo[p]>> \in Deliveries
    BY <1>a, <1>1, DeliveryOf
  <2>2. RepPromise!Act(<<repRow[p], repTo[p]>>)
    BY <1>1 DEF RepPromise!Act
  <2> QED
    BY <2>1, <2>2 DEF RepPromise!ActNext
<1>2. ASSUME NEW p \in Processes, MarkRun(p)
      PROVE  [RepPromise!ActNext]_(RepPromise!promise)
  <2>1. CASE repState[repRow[p]] # "live"
    BY <1>2, <2>1 DEF MarkRun, RepPromise!promise
  <2>2. CASE repState[repRow[p]] = "live"
    <3> DEFINE S == {d \in Deliveries : d[1] = repRow[p]}
    <3>1. ASSUME NEW d \in S
          PROVE  repRuns[d] < repSent[d]
      <4>1. Served(d) \in SUBSET Processes /\ Served(d) \ {p} \in SUBSET Processes
        BY DEF Served
      <4>2. Served(d) = (Served(d) \ {p}) \cup {p}
        BY <1>2, <3>1 DEF Served, HasServed, MarkRun
      <4>3. /\ Cardinality(Served(d) \ {p}) \in Nat
            /\ Cardinality(Served(d)) = Cardinality(Served(d) \ {p}) + 1
        BY <4>1, <4>2, CountOneMore
      <4> QED
        BY <1>a, <3>1, <4>3 DEF CopiesCounted
    <3>2. repRuns' = [d \in Deliveries |-> IF d \in S THEN repRuns[d] + 1 ELSE repRuns[d]]
      BY <1>a, <1>2, <2>2 DEF MarkRun
    <3>3. RepPromise!Mark(S)
      BY <1>2, <3>1, <3>2 DEF RepPromise!Mark, MarkRun
    <3> QED
      BY <3>3 DEF RepPromise!ActNext
  <2> QED
    BY <2>1, <2>2
<1>3. ASSUME NEW p \in Processes, EnqueueReport(p)
      PROVE  [RepPromise!ActNext]_(RepPromise!promise)
  BY <1>1, <1>3 DEF EnqueueReport
<1>4. ASSUME NEW p \in Processes, ReportFails(p)
      PROVE  [RepPromise!ActNext]_(RepPromise!promise)
  <2>1. CASE UNCHANGED repSent
    BY <1>4, <2>1 DEF ReportFails, RepPromise!promise
  <2>2. CASE ~UNCHANGED repSent
    BY <1>1, <1>4, <2>2 DEF ReportFails
  <2> QED
    BY <2>1, <2>2
<1>5. CASE UNCHANGED repAudit
  BY <1>5 DEF repAudit, RepPromise!promise
<1> QED
  BY <1>a, <1>2, <1>3, <1>4, <1>5
     DEF RepNext, RepSweep, RepTick, CreateReport, RemoveReport, RepSelect, TakeReport, RepFinish,
         RepSweepFails, svars, repVars

(* The report sweep implements ActThenMark: next_run_at moves only after   *)
(* every recipient was served since it last moved, although two processes  *)
(* may run the same report and a fault may stop either of them midway.     *)
THEOREM RepRefines == RepSpec => RepImplementsPromise
<1>1. RepInit => RepInv /\ CopiesCounted /\ RepPromise!ActInit
  BY RepInitInv, RepInitCounted
<1>2. RepInv /\ [RepNext]_svars => RepInv'
  BY RepNextInv
<1>3. RepInv /\ RepInv' /\ CopiesCounted /\ [RepNext]_svars => CopiesCounted'
  BY RepNextCounted
<1>4. RepInv /\ CopiesCounted /\ [RepNext]_svars => [RepPromise!ActNext]_(RepPromise!promise)
  BY RepNextRefines
<1> QED
  BY <1>1, <1>2, <1>3, <1>4, PTL DEF RepSpec, svars, RepImplementsPromise, RepPromise!ActSpec

(* A recipient gets, beyond the recorded runs of a report, at most one     *)
(* copy for each fault and one for each process that is deployed.          *)
THEOREM CopiesBounded == RepSpec => []CopiesAreBounded
<1>1. RepInit => RepInv /\ CopiesCounted
  BY RepInitInv, RepInitCounted
<1>2. RepInv /\ [RepNext]_svars => RepInv'
  BY RepNextInv
<1>3. RepInv /\ RepInv' /\ CopiesCounted /\ [RepNext]_svars => CopiesCounted'
  BY RepNextCounted
<1>4. RepInv /\ CopiesCounted => CopiesAreBounded
  <2> SUFFICES ASSUME RepInv, CopiesCounted, NEW d \in Deliveries
               PROVE  repSent[d] <= repRuns[d] + faults + Cardinality(deployed)
    BY DEF CopiesAreBounded
  <2>1. /\ repRuns[d] \in Nat /\ repSent[d] \in Nat /\ faults \in Nat
        /\ deployed \in SUBSET Processes /\ Spent(d) \in SUBSET Processes
        /\ Spent(d) \subseteq deployed
    BY EnvironmentAssumption DEF RepInv, RepTypeOK, EnvTypeOK, Spent
  <2>2. /\ Cardinality(Spent(d)) \in Nat /\ Cardinality(deployed) \in Nat
        /\ Cardinality(Spent(d)) <= Cardinality(deployed)
    BY <2>1, CountWithin
  <2> QED
    BY <2>1, <2>2 DEF CopiesCounted
<1> QED
  BY <1>1, <1>2, <1>3, <1>4, PTL DEF RepSpec, svars

-----------------------------------------------------------------------------
(* BudgetPace: what is notified beyond the recorded rises *)

(* The processes with a notified rise of the budget to commit *)
Committing(b) ==
  {p \in Processes : paceAt[p] = b /\ paceStage[p] = "commit" /\ Announces(p)}

NoticesCounted ==
  \A b \in Budgets : notices[b] <= raises[b] + faults + Cardinality(Committing(b))

LEMMA PaceInitCounted == PaceInit => NoticesCounted
<1> SUFFICES ASSUME PaceInit, NEW b \in Budgets
             PROVE  notices[b] <= raises[b] + faults + Cardinality(Committing(b))
  BY DEF NoticesCounted
<1>1. Committing(b) = {}
  BY DEF PaceInit, Committing
<1>2. Cardinality(Committing(b)) = 0
  BY <1>1, FS_EmptySet
<1> QED
  BY <1>2 DEF PaceInit, EnvInit

LEMMA PaceNextCounted ==
  PaceInv /\ PaceInv' /\ NoticesCounted /\ [PaceNext]_pvars => NoticesCounted'
<1> SUFFICES ASSUME PaceInv, PaceInv', NoticesCounted, [PaceNext]_pvars, NEW b \in Budgets
             PROVE  (notices[b] <= raises[b] + faults + Cardinality(Committing(b)))'
  BY DEF NoticesCounted
<1> DEFINE Counted == notices[b] <= raises[b] + faults + Cardinality(Committing(b))
<1> SUFFICES Counted'
  OBVIOUS
<1>0. Counted
  BY DEF NoticesCounted
<1>a. /\ paceStage \in [Processes -> {"idle", "budgets", "read", "write", "notify", "commit"}]
      /\ paceAt \in [Processes -> Budgets \cup {None}]
      /\ paceFound \in [Processes -> Paces] /\ paceSeen \in [Processes -> Paces]
      /\ paceTo \in [Processes -> SUBSET Budgets]
      /\ notices \in [Budgets -> Nat] /\ raises \in [Budgets -> Nat]
      /\ deployed \subseteq Processes /\ faults \in Nat /\ None \notin Budgets
  BY EnvironmentAssumption, PaceAssumption DEF PaceInv, PaceTypeOK, EnvTypeOK
<1>b. /\ notices'[b] \in Nat /\ raises'[b] \in Nat /\ faults' \in Nat
  BY EnvironmentAssumption DEF PaceInv, PaceTypeOK, EnvTypeOK
<1>c. Committing(b) \in SUBSET Processes /\ Committing(b)' \in SUBSET Processes
  BY DEF Committing
<1>d. Cardinality(Committing(b)) \in Nat /\ Cardinality(Committing(b)') \in Nat
  BY <1>c, CountWithin
<1>e. \A p \in Processes : paceStage[p] = "notify" => paceAt[p] \in Budgets
  BY DEF PaceInv, ChecksOK, Checking
<1> HIDE DEF Counted
<1>1. ASSUME notices'[b] = notices[b], raises'[b] = raises[b],
             \/ faults' = faults /\ Committing(b) \subseteq Committing(b)'
             \/ faults' = faults + 1 /\ \E p : Committing(b) \subseteq Committing(b)' \cup {p}
      PROVE  Counted'
  <2>1. CASE faults' = faults /\ Committing(b) \subseteq Committing(b)'
    <3>1. Cardinality(Committing(b)) <= Cardinality(Committing(b)')
      BY <1>c, <2>1, CountWithin
    <3> QED
      BY <1>0, <1>1, <1>a, <1>d, <2>1, <3>1 DEF Counted
  <2>2. CASE faults' = faults + 1 /\ \E p : Committing(b) \subseteq Committing(b)' \cup {p}
    <3>1. Cardinality(Committing(b)) <= Cardinality(Committing(b)') + 1
      BY <1>c, <2>2, CountWithin
    <3> QED
      BY <1>0, <1>1, <1>a, <1>d, <2>2, <3>1 DEF Counted
  <2> QED
    BY <1>1, <2>1, <2>2
<1>2. ASSUME NEW x \in Budgets, SpendMoves(x) \/ PauseBudget(x) \/ EditRecipient(x) \/ ResolveByHand(x)
      PROVE  Counted'
  BY <1>1, <1>2
     DEF SpendMoves, PauseBudget, EditRecipient, ResolveByHand, ClockTick, paceJobVars, Committing,
         Announces, Rises
<1>3. ASSUME NEW p \in Processes, Sync(p) \/ ReadSpend(p) \/ ReadAlert(p) \/ SyncEnds(p)
      PROVE  Counted'
  <2>1. Committing(b) \subseteq Committing(b)'
    BY <1>a, <1>3 DEF Sync, ReadSpend, ReadAlert, SyncEnds, Committing, Announces, Rises
  <2>2. faults' = faults \/ faults' = faults + 1
    BY <1>3 DEF Sync, ReadSpend, ReadAlert, SyncEnds, Fault, environment
  <2> QED
    BY <1>1, <1>3, <2>1, <2>2 DEF Sync, ReadSpend, ReadAlert, SyncEnds
<1>4. ASSUME NEW p \in Processes, WriteAlert(p)
      PROVE  Counted'
  <2>1. Committing(b) \subseteq Committing(b)'
    BY <1>a, <1>4 DEF WriteAlert, NextBudget, Committing, Announces, Rises
  <2> QED
    BY <1>1, <1>4, <2>1 DEF WriteAlert, environment
<1>5. ASSUME NEW p \in Processes, NotifyOwner(p)
      PROVE  Counted'
  <2>1. /\ paceStage[p] = "notify" /\ paceAt[p] \in Budgets
        /\ notices' = [notices EXCEPT ![paceAt[p]] = IF Announces(p) THEN @ + 1 ELSE @]
        /\ paceStage' = [paceStage EXCEPT ![p] = "commit"]
        /\ UNCHANGED <<environment, paceTo, paceAt, paceFound, paceSeen, raises>>
    BY <1>e, <1>5 DEF NotifyOwner
  <2>2. CASE paceAt[p] = b /\ Announces(p)
    <3>1. Committing(b)' = Committing(b) \cup {p} /\ p \notin Committing(b)
      BY <1>a, <2>1, <2>2 DEF Committing, Announces, Rises
    <3>2. Cardinality(Committing(b)') = Cardinality(Committing(b)) + 1
      BY <1>c, <3>1, CountOneMore
    <3>3. notices'[b] = notices[b] + 1
      BY <1>a, <2>1, <2>2
    <3> QED
      BY <1>0, <1>a, <1>d, <2>1, <3>2, <3>3 DEF Counted, environment
  <2>3. CASE ~(paceAt[p] = b /\ Announces(p))
    <3>1. Committing(b) \subseteq Committing(b)'
      BY <1>a, <2>1, <2>3 DEF Committing, Announces, Rises
    <3>2. notices'[b] = notices[b]
      BY <1>a, <2>1, <2>3
    <3> QED
      BY <1>1, <2>1, <3>1, <3>2 DEF environment
  <2> QED
    BY <2>2, <2>3
<1>6. ASSUME NEW p \in Processes, CommitAlert(p)
      PROVE  Counted'
  <2>1. /\ paceStage[p] = "commit" /\ UNCHANGED <<environment, paceTo, notices>>
        /\ paceStage' = [paceStage EXCEPT ![p] = "budgets"]
        /\ paceAt' = [paceAt EXCEPT ![p] = None]
        /\ paceFound' = [paceFound EXCEPT ![p] = 0]
        /\ paceSeen' = [paceSeen EXCEPT ![p] = 0]
        /\ raises' = [raises EXCEPT ![paceAt[p]] = IF Announces(p) THEN @ + 1 ELSE @]
    BY <1>6 DEF CommitAlert, NextBudget, Written
  <2>2. CASE paceAt[p] = b /\ Announces(p)
    <3>1. Committing(b) = Committing(b)' \cup {p} /\ p \notin Committing(b)'
      BY <1>a, <2>1, <2>2 DEF Committing, Announces, Rises
    <3>2. Cardinality(Committing(b)) = Cardinality(Committing(b)') + 1
      BY <1>c, <3>1, CountOneMore
    <3>3. raises'[b] = raises[b] + 1
      BY <1>a, <2>1, <2>2
    <3> QED
      BY <1>0, <1>a, <1>d, <2>1, <3>2, <3>3 DEF Counted, environment
  <2>3. CASE ~(paceAt[p] = b /\ Announces(p))
    <3>1. Committing(b) \subseteq Committing(b)'
      BY <1>a, <2>1, <2>3 DEF Committing, Announces, Rises
    <3>2. raises'[b] = raises[b]
      BY <1>a, <2>1, <2>3
    <3> QED
      BY <1>1, <2>1, <3>1, <3>2 DEF environment
  <2> QED
    BY <2>2, <2>3
<1>7. ASSUME NEW p \in Processes, CheckFails(p) \/ SyncCrash(p)
      PROVE  Counted'
  <2>1. Committing(b) \subseteq Committing(b)' \cup {p}
    BY <1>a, <1>7 DEF CheckFails, NextBudget, SyncCrash, Committing, Announces, Rises
  <2> QED
    BY <1>1, <1>7, <2>1 DEF CheckFails, SyncCrash, Fault
<1>8. CASE UNCHANGED pvars
  BY <1>1, <1>8 DEF pvars, paceVars, paceJobVars, environment, Committing, Announces, Rises
<1> QED
  BY <1>a, <1>2, <1>3, <1>4, <1>5, <1>6, <1>7, <1>8 DEF PaceNext, PaceJob

(* The owner of a budget gets, beyond the recorded openings and rises, at  *)
(* most one notification for each fault and for each check that is about   *)
(* to commit.                                                              *)
THEOREM NoticesBounded == PaceSpec => []NoticesAreBounded
<1>1. PaceInit => PaceInv /\ NoticesCounted
  BY PaceInitInv, PaceInitCounted
<1>2. PaceInv /\ [PaceNext]_pvars => PaceInv'
  BY PaceNextInv
<1>3. PaceInv /\ PaceInv' /\ NoticesCounted /\ [PaceNext]_pvars => NoticesCounted'
  BY PaceNextCounted
<1>4. NoticesCounted => NoticesAreBounded
  BY DEF NoticesCounted, NoticesAreBounded, Committing
<1> QED
  BY <1>1, <1>2, <1>3, <1>4, PTL DEF PaceSpec, pvars

-----------------------------------------------------------------------------
(* EmailIntake: the tickets of one message *)

(* In its current poll, the process has made a ticket of the message, or   *)
(* answered with it; or it has the message still to come.                  *)
HasMade(p, m) == mailAt[p] = m /\ mailStage[p] \in {"message", "flag"}

HasToMake(p, m) == m \in fetched[p] \/ (mailAt[p] = m /\ mailStage[p] = "create")

(* The processes that will make no further ticket of the message unless    *)
(* something fails                                                         *)
DoneWith(m) ==
  {p \in deployed : HasMade(p, m) \/ (mail[m] = "seen" /\ ~HasToMake(p, m))}

(* The processes with a ticket of the message that is still empty *)
Filing(m) == {p \in deployed : mailAt[p] = m /\ mailStage[p] = "message"}

MailsCounted ==
  /\ \A p \in Processes : mailAt[p] # None => mailAt[p] \notin fetched[p]
  /\ \A m \in Mails : mailTickets[m] <= faults + Cardinality(DoneWith(m))
  /\ \A m \in Mails \ Tagged :
       mailTickets[m] <= mailFiled[m] + faults + Cardinality(Filing(m))

LEMMA MailInitCounted == MailInit => MailsCounted
<1> SUFFICES ASSUME MailInit
             PROVE  MailsCounted
  OBVIOUS
<1>1. deployed \subseteq Processes
  BY DEF MailInit, EnvInit
<1>2. \A m \in Mails : Filing(m) = {} /\ DoneWith(m) = {}
  BY <1>1 DEF MailInit, Filing, DoneWith, HasMade
<1>3. \A m \in Mails : Cardinality(Filing(m)) = 0 /\ Cardinality(DoneWith(m)) = 0
  BY <1>2, FS_EmptySet
<1> QED
  BY <1>3 DEF MailInit, EnvInit, MailsCounted

LEMMA MailNextCounted ==
  MailInv /\ MailInv' /\ MailsCounted /\ [MailNext]_mvars => MailsCounted'
<1> SUFFICES ASSUME MailInv, MailInv', MailsCounted, [MailNext]_mvars
             PROVE  MailsCounted'
  OBVIOUS
<1>a. /\ mailStage \in [Processes -> {"idle", "next", "create", "message", "flag"}]
      /\ fetched \in [Processes -> SUBSET Mails]
      /\ mailAt \in [Processes -> Mails \cup {None}]
      /\ \A p \in Processes : mailAt[p] # None <=> mailStage[p] \in {"create", "message", "flag"}
      /\ mail \in [Mails -> {"none", "unseen", "seen"}]
      /\ mailTickets \in [Mails -> Nat] /\ mailFiled \in [Mails -> Nat]
      /\ deployed \subseteq Processes /\ faults \in Nat /\ None \notin Mails
  BY EnvironmentAssumption, MailAssumption DEF MailInv, MailTypeOK, EnvTypeOK
<1>b. /\ \A m \in Mails : mailTickets'[m] \in Nat /\ mailFiled'[m] \in Nat
      /\ faults' \in Nat /\ deployed' \subseteq Processes
  BY EnvironmentAssumption DEF MailInv, MailTypeOK, EnvTypeOK
<1>c. \A p \in Processes : mailAt[p] # None => mailAt[p] \notin fetched[p]
  BY DEF MailsCounted
<1>d. deployed' = deployed /\ (faults' = faults \/ faults' = faults + 1)
  BY DEF MailNext, MailPoll, Arrive, Fetch, TakeMail, CreateFromMail, FileMail, FlagSeen,
     PollEnds, MailFails, Fault, environment, mvars
<1>1. \A p \in Processes : mailAt'[p] # None => mailAt'[p] \notin fetched'[p]
  <2>1. ASSUME NEW p \in Processes, Fetch(p) \/ TakeMail(p)
        PROVE  \A q \in Processes : mailAt'[q] # None => mailAt'[q] \notin fetched'[q]
    BY <1>a, <1>c, <2>1 DEF Fetch, TakeMail
  <2>2. ASSUME NEW p \in Processes,
               FlagSeen(p) \/ PollEnds(p) \/ MailFails(p) \/ CreateFromMail(p) \/ FileMail(p)
        PROVE  \A q \in Processes : mailAt'[q] # None => mailAt'[q] \notin fetched'[q]
    BY <1>a, <1>c, <2>2 DEF FlagSeen, PollEnds, MailFails, CreateFromMail, FileMail
  <2>3. ASSUME UNCHANGED mailJobVars
        PROVE  \A q \in Processes : mailAt'[q] # None => mailAt'[q] \notin fetched'[q]
    BY <1>c, <2>3 DEF mailJobVars
  <2> QED
    BY <1>a, <2>1, <2>2, <2>3 DEF MailNext, MailPoll, Arrive, mvars, mailVars
<1>2. ASSUME NEW m \in Mails
      PROVE  mailTickets'[m] <= faults' + Cardinality(DoneWith(m)')
  <2> DEFINE Counted == mailTickets[m] <= faults + Cardinality(DoneWith(m))
  <2> SUFFICES Counted'
    OBVIOUS
  <2>0. Counted
    BY DEF MailsCounted
  <2>a. DoneWith(m) \in SUBSET Processes /\ DoneWith(m)' \in SUBSET Processes
    BY <1>a, <1>b DEF DoneWith
  <2>b. Cardinality(DoneWith(m)) \in Nat /\ Cardinality(DoneWith(m)') \in Nat
    BY <2>a, CountWithin
  <2> HIDE DEF Counted
  <2>1. ASSUME mailTickets'[m] = mailTickets[m], DoneWith(m) \subseteq DoneWith(m)'
        PROVE  Counted'
    <3>1. Cardinality(DoneWith(m)) <= Cardinality(DoneWith(m)')
      BY <2>a, <2>1, CountWithin
    <3> QED
      BY <1>a, <1>d, <2>0, <2>1, <2>b, <3>1 DEF Counted
  <2>2. ASSUME NEW p \in Processes, faults' = faults + 1,
               \/ mailTickets'[m] = mailTickets[m] /\ DoneWith(m) \subseteq DoneWith(m)' \cup {p}
               \/ mailTickets'[m] = mailTickets[m] + 1 /\ DoneWith(m) \subseteq DoneWith(m)'
        PROVE  Counted'
    <3>1. CASE mailTickets'[m] = mailTickets[m] /\ DoneWith(m) \subseteq DoneWith(m)' \cup {p}
      <4>1. Cardinality(DoneWith(m)) <= Cardinality(DoneWith(m)') + 1
        BY <2>a, <3>1, CountWithin
      <4> QED
        BY <1>a, <2>0, <2>2, <2>b, <3>1, <4>1 DEF Counted
    <3>2. CASE mailTickets'[m] = mailTickets[m] + 1 /\ DoneWith(m) \subseteq DoneWith(m)'
      <4>1. Cardinality(DoneWith(m)) <= Cardinality(DoneWith(m)')
        BY <2>a, <3>2, CountWithin
      <4> QED
        BY <1>a, <2>0, <2>2, <2>b, <3>2, <4>1 DEF Counted
    <3> QED
      BY <2>2, <3>1, <3>2
  <2>3. ASSUME NEW x \in Mails, Arrive(x)
        PROVE  Counted'
    <3>1. DoneWith(m) \subseteq DoneWith(m)'
      BY <1>a, <1>d, <2>3 DEF Arrive, mailJobVars, DoneWith, HasMade, HasToMake
    <3> QED
      BY <2>1, <2>3, <3>1 DEF Arrive
  <2>4. ASSUME NEW p \in Processes, Fetch(p) \/ TakeMail(p) \/ FileMail(p) \/ FlagSeen(p)
        PROVE  Counted'
    <3>1. CASE Fetch(p)
      BY <1>a, <1>d, <2>1, <3>1 DEF Fetch, DoneWith, HasMade, HasToMake
    <3>2. CASE TakeMail(p)
      BY <1>a, <1>d, <2>1, <3>2 DEF TakeMail, DoneWith, HasMade, HasToMake
    <3>3. CASE FileMail(p)
      BY <1>a, <1>d, <2>1, <3>3 DEF FileMail, DoneWith, HasMade, HasToMake
    <3>4. CASE FlagSeen(p)
      <4>1. DoneWith(m) \subseteq DoneWith(m)'
        BY <1>a, <1>c, <1>d, <3>4 DEF FlagSeen, DoneWith, HasMade, HasToMake
      <4> QED
        BY <2>1, <3>4, <4>1 DEF FlagSeen
    <3> QED
      BY <2>4, <3>1, <3>2, <3>3, <3>4
  <2>5. ASSUME NEW p \in deployed, CreateFromMail(p)
        PROVE  Counted'
    <3>1. CASE mailAt[p] = m
      <4>1. DoneWith(m)' = DoneWith(m) \cup {p} /\ p \notin DoneWith(m)
        BY <1>a, <1>d, <2>5, <3>1 DEF CreateFromMail, DoneWith, HasMade, HasToMake
      <4>2. Cardinality(DoneWith(m)') = Cardinality(DoneWith(m)) + 1
        BY <1>a, <2>a, <4>1, CountOneMore
      <4>3. mailTickets'[m] = mailTickets[m] + 1 /\ faults' = faults
        BY <1>a, <2>5, <3>1 DEF CreateFromMail, environment
      <4> QED
        BY <1>a, <2>0, <2>b, <4>2, <4>3 DEF Counted
    <3>2. CASE mailAt[p] # m
      <4>1. DoneWith(m) \subseteq DoneWith(m)'
        BY <1>a, <1>d, <2>5, <3>2 DEF CreateFromMail, DoneWith, HasMade, HasToMake
      <4>2. mailTickets'[m] = mailTickets[m]
        BY <1>a, <2>5, <3>2 DEF CreateFromMail
      <4> QED
        BY <2>1, <4>1, <4>2
    <3> QED
      BY <3>1, <3>2
  <2>6. ASSUME NEW p \in Processes, MailFails(p)
        PROVE  Counted'
    <3>1. faults' = faults + 1 /\ DoneWith(m) \subseteq DoneWith(m)' \cup {p}
      BY <1>a, <1>d, <2>6 DEF MailFails, Fault, DoneWith, HasMade, HasToMake
    <3>2. CASE mailTickets'[m] = mailTickets[m]
      BY <2>2, <3>1, <3>2
    <3>3. CASE mailTickets'[m] # mailTickets[m]
      <4>1. mailAt[p] = m /\ mailStage[p] = "create" /\ mailTickets'[m] = mailTickets[m] + 1
        BY <1>a, <2>6, <3>3 DEF MailFails
      <4>2. DoneWith(m) \subseteq DoneWith(m)'
        BY <1>a, <1>d, <2>6, <4>1 DEF MailFails, DoneWith, HasMade, HasToMake
      <4> QED
        BY <2>2, <3>1, <4>1, <4>2
    <3> QED
      BY <3>2, <3>3
  <2>7. ASSUME NEW p \in Processes, PollEnds(p)
        PROVE  Counted'
    <3>1. CASE mailStage[p] = "next"
      <4>1. DoneWith(m) \subseteq DoneWith(m)'
        BY <1>a, <1>d, <2>7, <3>1 DEF PollEnds, DoneWith, HasMade, HasToMake
      <4> QED
        BY <2>1, <2>7, <4>1 DEF PollEnds
    <3>2. CASE mailStage[p] # "next"
      <4>1. faults' = faults + 1 /\ DoneWith(m) \subseteq DoneWith(m)' \cup {p}
        BY <1>a, <1>d, <2>7, <3>2 DEF PollEnds, Fault, DoneWith, HasMade, HasToMake
      <4> QED
        BY <2>2, <2>7, <4>1 DEF PollEnds
    <3> QED
      BY <3>1, <3>2
  <2>8. CASE UNCHANGED mvars
    BY <1>d, <2>1, <2>8 DEF mvars, mailVars, mailJobVars, DoneWith, HasMade, HasToMake
  <2> QED
    BY <1>a, <2>3, <2>4, <2>5, <2>6, <2>7, <2>8 DEF MailNext, MailPoll
<1>3. ASSUME NEW m \in Mails \ Tagged
      PROVE  mailTickets'[m] <= mailFiled'[m] + faults' + Cardinality(Filing(m)')
  <2> DEFINE Counted == mailTickets[m] <= mailFiled[m] + faults + Cardinality(Filing(m))
  <2> SUFFICES Counted'
    OBVIOUS
  <2>0. Counted
    BY DEF MailsCounted
  <2>a. Filing(m) \in SUBSET Processes /\ Filing(m)' \in SUBSET Processes
    BY <1>a, <1>b DEF Filing
  <2>b. Cardinality(Filing(m)) \in Nat /\ Cardinality(Filing(m)') \in Nat
    BY <2>a, CountWithin
  <2> HIDE DEF Counted
  <2>1. ASSUME mailTickets'[m] = mailTickets[m], mailFiled'[m] = mailFiled[m],
               Filing(m) \subseteq Filing(m)'
        PROVE  Counted'
    <3>1. Cardinality(Filing(m)) <= Cardinality(Filing(m)')
      BY <2>a, <2>1, CountWithin
    <3> QED
      BY <1>a, <1>d, <2>0, <2>1, <2>b, <3>1 DEF Counted
  <2>2. ASSUME NEW p \in Processes, faults' = faults + 1, mailFiled'[m] >= mailFiled[m],
               \/ mailTickets'[m] = mailTickets[m] /\ Filing(m) \subseteq Filing(m)' \cup {p}
               \/ mailTickets'[m] = mailTickets[m] + 1 /\ Filing(m) \subseteq Filing(m)'
        PROVE  Counted'
    <3>1. CASE mailTickets'[m] = mailTickets[m] /\ Filing(m) \subseteq Filing(m)' \cup {p}
      <4>1. Cardinality(Filing(m)) <= Cardinality(Filing(m)') + 1
        BY <2>a, <3>1, CountWithin
      <4> QED
        BY <1>a, <1>b, <2>0, <2>2, <2>b, <3>1, <4>1 DEF Counted
    <3>2. CASE mailTickets'[m] = mailTickets[m] + 1 /\ Filing(m) \subseteq Filing(m)'
      <4>1. Cardinality(Filing(m)) <= Cardinality(Filing(m)')
        BY <2>a, <3>2, CountWithin
      <4> QED
        BY <1>a, <1>b, <2>0, <2>2, <2>b, <3>2, <4>1 DEF Counted
    <3> QED
      BY <2>2, <3>1, <3>2
  <2>3. ASSUME NEW p \in Processes, Fetch(p) \/ TakeMail(p) \/ FlagSeen(p)
        PROVE  Counted'
    <3>1. Filing(m) \subseteq Filing(m)'
      BY <1>a, <1>d, <2>3 DEF Fetch, TakeMail, FlagSeen, Filing
    <3> QED
      BY <2>1, <2>3, <3>1 DEF Fetch, TakeMail, FlagSeen
  <2>4. ASSUME NEW p \in deployed, CreateFromMail(p)
        PROVE  Counted'
    <3>1. CASE mailAt[p] = m
      <4>1. Filing(m)' = Filing(m) \cup {p} /\ p \notin Filing(m)
        BY <1>a, <1>d, <2>4, <3>1 DEF CreateFromMail, Filing
      <4>2. Cardinality(Filing(m)') = Cardinality(Filing(m)) + 1
        BY <1>a, <2>a, <4>1, CountOneMore
      <4>3. mailTickets'[m] = mailTickets[m] + 1 /\ faults' = faults /\ mailFiled' = mailFiled
        BY <1>a, <2>4, <3>1 DEF CreateFromMail, environment
      <4> QED
        BY <1>a, <2>0, <2>b, <4>2, <4>3 DEF Counted
    <3>2. CASE mailAt[p] # m
      <4>1. Filing(m) \subseteq Filing(m)'
        BY <1>a, <1>d, <2>4, <3>2 DEF CreateFromMail, Filing
      <4>2. mailTickets'[m] = mailTickets[m] /\ mailFiled' = mailFiled
        BY <1>a, <2>4, <3>2 DEF CreateFromMail
      <4> QED
        BY <2>1, <4>1, <4>2
    <3> QED
      BY <3>1, <3>2
  <2>5. ASSUME NEW p \in deployed, FileMail(p)
        PROVE  Counted'
    <3>1. CASE mailAt[p] = m
      <4>1. Filing(m) = Filing(m)' \cup {p} /\ p \notin Filing(m)'
        BY <1>a, <1>d, <2>5, <3>1 DEF FileMail, Filing
      <4>2. Cardinality(Filing(m)) = Cardinality(Filing(m)') + 1
        BY <1>a, <2>a, <4>1, CountOneMore
      <4>3. mailFiled'[m] = mailFiled[m] + 1 /\ faults' = faults /\ mailTickets' = mailTickets
        BY <1>a, <2>5, <3>1 DEF FileMail, environment
      <4> QED
        BY <1>a, <2>0, <2>b, <4>2, <4>3 DEF Counted
    <3>2. CASE mailAt[p] # m
      <4>1. Filing(m) \subseteq Filing(m)'
        BY <1>a, <1>d, <2>5, <3>2 DEF FileMail, Filing
      <4>2. mailFiled'[m] = mailFiled[m] /\ mailTickets' = mailTickets
        BY <1>a, <2>5, <3>2 DEF FileMail
      <4> QED
        BY <2>1, <4>1, <4>2
    <3> QED
      BY <3>1, <3>2
  <2>6. ASSUME NEW p \in Processes, MailFails(p)
        PROVE  Counted'
    <3>1. faults' = faults + 1 /\ Filing(m) \subseteq Filing(m)' \cup {p}
      BY <1>a, <1>d, <2>6 DEF MailFails, Fault, Filing
    <3>2. mailFiled'[m] >= mailFiled[m]
      BY <1>a, <2>6 DEF MailFails
    <3>3. CASE mailTickets'[m] = mailTickets[m]
      BY <2>2, <3>1, <3>2, <3>3
    <3>4. CASE mailTickets'[m] # mailTickets[m]
      <4>1. mailAt[p] = m /\ mailStage[p] = "create" /\ mailTickets'[m] = mailTickets[m] + 1
        BY <1>a, <2>6, <3>4 DEF MailFails
      <4>2. Filing(m) \subseteq Filing(m)'
        BY <1>a, <1>d, <2>6, <4>1 DEF MailFails, Filing
      <4> QED
        BY <2>2, <3>1, <3>2, <4>1, <4>2
    <3> QED
      BY <3>3, <3>4
  <2>7. ASSUME NEW p \in Processes, PollEnds(p)
        PROVE  Counted'
    <3>0. mailTickets'[m] = mailTickets[m] /\ mailFiled'[m] = mailFiled[m] /\ mailFiled[m] \in Nat
      BY <1>a, <2>7 DEF PollEnds
    <3>1. CASE mailStage[p] = "next"
      <4>1. Filing(m) \subseteq Filing(m)'
        BY <1>a, <1>d, <2>7, <3>1 DEF PollEnds, Filing
      <4> QED
        BY <2>1, <3>0, <4>1
    <3>2. CASE mailStage[p] # "next"
      <4>1. faults' = faults + 1 /\ Filing(m) \subseteq Filing(m)' \cup {p}
        BY <1>a, <1>d, <2>7, <3>2 DEF PollEnds, Fault, Filing
      <4> QED
        BY <2>2, <3>0, <4>1
    <3> QED
      BY <3>1, <3>2
  <2>8. CASE UNCHANGED <<mailJobVars, mailTickets, mailFiled>>
    BY <1>d, <2>1, <2>8 DEF mailJobVars, Filing
  <2> QED
    BY <1>a, <2>3, <2>4, <2>5, <2>6, <2>7, <2>8 DEF MailNext, MailPoll, Arrive, mvars, mailVars
<1> QED
  BY <1>1, <1>2, <1>3 DEF MailsCounted

(* One message becomes more than one ticket only as often as something     *)
(* failed or another process polled the mailbox.                           *)
THEOREM MailTicketsBounded == MailSpec => []TicketsPerMailAreBounded
<1>1. MailInit => MailInv /\ MailsCounted
  BY MailInitInv, MailInitCounted
<1>2. MailInv /\ [MailNext]_mvars => MailInv'
  BY MailNextInv
<1>3. MailInv /\ MailInv' /\ MailsCounted /\ [MailNext]_mvars => MailsCounted'
  BY MailNextCounted
<1>4. MailInv /\ MailsCounted => TicketsPerMailAreBounded
  <2> SUFFICES ASSUME MailInv, MailsCounted, NEW m \in Mails
               PROVE  mailTickets[m] <= faults + Cardinality(deployed)
    BY DEF TicketsPerMailAreBounded
  <2>1. /\ mailTickets[m] \in Nat /\ faults \in Nat
        /\ deployed \in SUBSET Processes /\ DoneWith(m) \in SUBSET Processes
        /\ DoneWith(m) \subseteq deployed
    BY EnvironmentAssumption DEF MailInv, MailTypeOK, EnvTypeOK, DoneWith
  <2>2. /\ Cardinality(DoneWith(m)) \in Nat /\ Cardinality(deployed) \in Nat
        /\ Cardinality(DoneWith(m)) <= Cardinality(deployed)
    BY <2>1, CountWithin
  <2> QED
    BY <2>1, <2>2 DEF MailsCounted
<1> QED
  BY <1>1, <1>2, <1>3, <1>4, PTL DEF MailSpec, mvars

(* The two transactions that make a ticket of a message and file the       *)
(* message in it come apart only through a fault: empty tickets are        *)
(* accounted for.                                                          *)
THEOREM EmptyTicketsBounded == MailSpec => []EmptyTicketsAreFaults
<1>1. MailInit => MailInv /\ MailsCounted
  BY MailInitInv, MailInitCounted
<1>2. MailInv /\ [MailNext]_mvars => MailInv'
  BY MailNextInv
<1>3. MailInv /\ MailInv' /\ MailsCounted /\ [MailNext]_mvars => MailsCounted'
  BY MailNextCounted
<1>4. MailsCounted => EmptyTicketsAreFaults
  BY DEF MailsCounted, EmptyTicketsAreFaults, Filing
<1> QED
  BY <1>1, <1>2, <1>3, <1>4, PTL DEF MailSpec, mvars

-----------------------------------------------------------------------------
(* CostRecommendations: what is closed stays closed; tickets are bounded *)

cvars == <<environment, costVars>>

IsOpen(x) == x # None /\ x.status = "open"

(* A row is drafted by one transaction, on top of the committed version;   *)
(* among what is committed and what each transaction has drafted, at most  *)
(* one recommendation is open in anybody's view.                           *)
DraftsOK ==
  /\ \A p, q \in Processes, i \in RecIds : draft[p][i] # None /\ draft[q][i] # None => p = q
  /\ \A p \in Processes, i \in RecIds : draft[p][i] # None /\ recs[i] # None =>
       /\ draft[p][i].ticket = recs[i].ticket
       /\ IsOpen(draft[p][i]) => IsOpen(recs[i])
  /\ \A p, q \in Processes, i, j \in RecIds :
       IsOpen(draft[p][i]) /\ IsOpen(draft[q][j]) => i = j
  /\ \A p \in Processes, i, j \in RecIds :
       IsOpen(recs[i]) /\ IsOpen(draft[p][j]) /\ i # j => draft[p][i] # None

(* Rows that are referred to exist, and only solved ones are booked *)
RowsOK ==
  /\ \A p \in Processes : seenOpen[p] # 0 => Seen(p, seenOpen[p]) # None
  /\ \A u \in Callers : call[u] # "idle" => recs[callRec[u]] # None
  /\ \A i \in solved : recs[i] # None /\ recs[i].ticket # 0
  /\ \A p \in Processes : toLog[p] \subseteq solved /\ toVerify[p] \subseteq solved
  /\ \A i \in RecIds : savings[i] # None => i \in solved

(* The inductive invariant *)
CostInv == CostTypeOK /\ DraftsOK /\ RowsOK

LEMMA CostInitInv == CostInit => CostInv
<1> SUFFICES ASSUME CostInit
             PROVE  CostInv
  OBVIOUS
<1> USE EnvironmentAssumption, CostAssumption
<1>1. CostTypeOK
  BY DEF CostInit, CostTypeOK, EnvInit, EnvTypeOK, Times, RecIds
<1>2. DraftsOK /\ RowsOK
  BY DEF CostInit, DraftsOK, RowsOK, IsOpen
<1> QED
  BY <1>1, <1>2 DEF CostInv

(* Recommendations and drafts as they were, or a sweep's drafts discarded *)
LEMMA RecsKept ==
  ASSUME CostInv, CostTypeOK', recs' = recs, solved \subseteq solved',
         \A i \in solved' : recs[i] # None /\ recs[i].ticket # 0,
         \A q \in Processes :
           \/ draft'[q] = draft[q] /\ (seenOpen'[q] = seenOpen[q] \/ seenOpen'[q] = 0)
           \/ draft'[q] = [i \in RecIds |-> None] /\ seenOpen'[q] = 0,
         \A u \in Callers : call'[u] # "idle" => recs[callRec'[u]] # None,
         \A q \in Processes : toLog'[q] \subseteq solved' /\ toVerify'[q] \subseteq solved',
         \A i \in RecIds : savings'[i] # None => i \in solved'
  PROVE  CostInv'
<1>1. \A q \in Processes, i \in RecIds : draft'[q][i] = draft[q][i] \/ draft'[q][i] = None
  OBVIOUS
<1>2. DraftsOK'
  <2>1. \A q \in Processes, i \in RecIds : IsOpen(draft'[q][i]) => IsOpen(draft[q][i])
    BY <1>1 DEF IsOpen
  <2>2. \A p, q \in Processes, i \in RecIds : draft'[p][i] # None /\ draft'[q][i] # None => p = q
    BY <1>1 DEF CostInv, DraftsOK
  <2>3. \A p \in Processes, i \in RecIds : draft'[p][i] # None /\ recs'[i] # None =>
          /\ draft'[p][i].ticket = recs'[i].ticket
          /\ IsOpen(draft'[p][i]) => IsOpen(recs'[i])
    BY <1>1 DEF CostInv, DraftsOK
  <2>4. \A p, q \in Processes, i, j \in RecIds :
          IsOpen(draft'[p][i]) /\ IsOpen(draft'[q][j]) => i = j
    BY <2>1 DEF CostInv, DraftsOK
  <2>5. ASSUME NEW p \in Processes, NEW i \in RecIds, NEW j \in RecIds,
               IsOpen(recs[i]), IsOpen(draft'[p][j]), i # j
        PROVE  draft'[p][i] # None
    <3>1. draft'[p] = draft[p]
      BY <2>5 DEF IsOpen
    <3> QED
      BY <2>5, <3>1 DEF CostInv, DraftsOK
  <2> QED
    BY <2>2, <2>3, <2>4, <2>5 DEF DraftsOK, IsOpen
<1>3. RowsOK'
  <2>1. \A q \in Processes : seenOpen'[q] # 0 => Seen(q, seenOpen[q])' # None /\ seenOpen'[q] = seenOpen[q]
    BY DEF CostInv, RowsOK, Seen
  <2> QED
    BY <2>1 DEF RowsOK, Seen
<1> QED
  BY <1>2, <1>3 DEF CostInv

LEMMA CostTyped ==
  ASSUME CostTypeOK
  PROVE  /\ EnvTypeOK /\ deployed \subseteq Processes
         /\ recs \in [RecIds -> RecRows \cup {None}]
         /\ draft \in [Processes -> [RecIds -> RecRows \cup {None}]]
         /\ costStage \in [Processes -> {"idle", "evaluate", "write", "aborted", "log", "verify"}]
         /\ costLeft \in [Processes -> SUBSET UsageMonitors]
         /\ verdict \in [Processes -> {"none", "low", "fine", None}]
         /\ seenOpen \in [Processes -> 0..MaxRecs]
         /\ toLog \in [Processes -> SUBSET RecIds] /\ toVerify \in [Processes -> SUBSET RecIds]
         /\ call \in [Callers -> {"idle", "post", "link"}]
         /\ callRec \in [Callers -> 0..MaxRecs]
         /\ \A u \in Callers : callRec[u] = 0 <=> call[u] = "idle"
         /\ \A i, j \in RecIds : IsOpen(recs[i]) /\ IsOpen(recs[j]) => i = j
         /\ made \in [RecIds -> Nat] /\ solved \subseteq RecIds
         /\ savings \in [RecIds -> {"logged", "verified", "not_materialized", None}]
         /\ None \notin RecRows /\ RecIds = 1..MaxRecs /\ MaxRecs \in Nat
         /\ \A row \in RecRows : row.status \in RecStatuses /\ row.ticket \in Nat
<1>1. /\ deployed \subseteq Processes /\ \A i, j \in RecIds : IsOpen(recs[i]) /\ IsOpen(recs[j]) => i = j
  BY DEF CostTypeOK, EnvTypeOK, IsOpen
<1>2. \A row \in RecRows : row.status \in RecStatuses /\ row.ticket \in Nat
  BY DEF RecRows
<1> QED
  BY <1>1, <1>2, NullIsNoRec, CostAssumption DEF CostTypeOK, RecIds

(* A committed row is closed, by a user or by createTicket *)
LEMMA RowClosed ==
  ASSUME CostInv, NEW i \in RecIds, NEW new \in RecRows, recs[i] # None, ~RowLocked(i),
         new.status # "open", recs[i].ticket # 0 => new.ticket # 0,
         recs' = [recs EXCEPT ![i] = new],
         UNCHANGED <<draft, seenOpen, solved, toLog, toVerify, savings>>,
         \A u \in Callers : call'[u] # "idle" => call[u] # "idle" /\ callRec'[u] = callRec[u]
  PROVE  /\ recs' \in [RecIds -> RecRows \cup {None}]
         /\ \A j, k \in RecIds :
              recs'[j] # None /\ recs'[k] # None /\ recs'[j].status = "open" /\ recs'[k].status = "open"
              => j = k
         /\ DraftsOK' /\ RowsOK'
<1>0. CostTypeOK
  BY DEF CostInv
<1>a. /\ recs \in [RecIds -> RecRows \cup {None}] /\ new # None
      /\ \A j, k \in RecIds : IsOpen(recs[j]) /\ IsOpen(recs[k]) => j = k
      /\ callRec \in [Callers -> 0..MaxRecs]
      /\ \A u \in Callers : callRec[u] = 0 <=> call[u] = "idle"
      /\ seenOpen \in [Processes -> 0..MaxRecs] /\ solved \subseteq RecIds
      /\ RecIds = 1..MaxRecs /\ MaxRecs \in Nat
  BY <1>0, CostTyped
<1>1. \A k \in RecIds : recs'[k] = IF k = i THEN new ELSE recs[k]
  BY <1>a
<1>2. \A k \in RecIds : IsOpen(recs'[k]) => IsOpen(recs[k]) /\ recs'[k] = recs[k]
  BY <1>1 DEF IsOpen
<1>3. \A p \in Processes : draft[p][i] = None
  BY DEF RowLocked
<1>4. DraftsOK'
  <2>1. \A p, q \in Processes, k \in RecIds : draft'[p][k] # None /\ draft'[q][k] # None => p = q
    BY DEF CostInv, DraftsOK
  <2>2. \A p \in Processes, k \in RecIds : draft'[p][k] # None /\ recs'[k] # None =>
          /\ draft'[p][k].ticket = recs'[k].ticket
          /\ IsOpen(draft'[p][k]) => IsOpen(recs'[k])
    BY <1>1, <1>3 DEF CostInv, DraftsOK
  <2>3. \A p, q \in Processes, k, j \in RecIds :
          IsOpen(draft'[p][k]) /\ IsOpen(draft'[q][j]) => k = j
    BY DEF CostInv, DraftsOK
  <2>4. \A p \in Processes, k, j \in RecIds :
          IsOpen(recs'[k]) /\ IsOpen(draft'[p][j]) /\ k # j => draft'[p][k] # None
    BY <1>2 DEF CostInv, DraftsOK
  <2> QED
    BY <2>1, <2>2, <2>3, <2>4 DEF DraftsOK, IsOpen
<1>5. RowsOK'
  <2>1. \A p \in Processes : seenOpen'[p] # 0 => Seen(p, seenOpen[p])' # None
    BY <1>a, <1>1 DEF CostInv, RowsOK, Seen
  <2>2. \A u \in Callers : call'[u] # "idle" => recs'[callRec'[u]] # None
    BY <1>a, <1>1 DEF CostInv, RowsOK
  <2>3. \A k \in solved' : recs'[k] # None /\ recs'[k].ticket # 0
    BY <1>a, <1>1 DEF CostInv, RowsOK
  <2> QED
    BY <2>1, <2>2, <2>3 DEF CostInv, RowsOK
<1> QED
  BY <1>1, <1>2, <1>4, <1>5, <1>a DEF IsOpen

(* A transaction drafts a row that no other has drafted: a version of the  *)
(* row it sees, or the one open row                                        *)
LEMMA RowDrafted ==
  ASSUME CostInv, NEW p \in Processes, NEW i \in RecIds, NEW new \in RecRows,
         ~LockedFor(p, i), draft' = [draft EXCEPT ![p][i] = new],
         UNCHANGED <<recs, seenOpen, solved, toLog, toVerify, savings, call, callRec>>,
         \/ /\ Seen(p, i) # None /\ new.ticket = Seen(p, i).ticket
            /\ new.status = "open" => Seen(p, i).status = "open"
         \/ recs[i] = None /\ ~OpenExists(p) /\ ~InsertWaits(p)
  PROVE  /\ draft' \in [Processes -> [RecIds -> RecRows \cup {None}]]
         /\ DraftsOK' /\ RowsOK'
<1>0. CostTypeOK
  BY DEF CostInv
<1>a. /\ recs \in [RecIds -> RecRows \cup {None}] /\ new # None
      /\ draft \in [Processes -> [RecIds -> RecRows \cup {None}]]
      /\ \A j, k \in RecIds : IsOpen(recs[j]) /\ IsOpen(recs[k]) => j = k
      /\ seenOpen \in [Processes -> 0..MaxRecs]
      /\ RecIds = 1..MaxRecs /\ MaxRecs \in Nat
  BY <1>0, CostTyped
<1>b. /\ \A x, y \in Processes, k \in RecIds : draft[x][k] # None /\ draft[y][k] # None => x = y
      /\ \A x \in Processes, k \in RecIds : draft[x][k] # None /\ recs[k] # None =>
           /\ draft[x][k].ticket = recs[k].ticket
           /\ IsOpen(draft[x][k]) => IsOpen(recs[k])
      /\ \A x, y \in Processes, k, j \in RecIds :
           IsOpen(draft[x][k]) /\ IsOpen(draft[y][j]) => k = j
      /\ \A x \in Processes, k, j \in RecIds :
           IsOpen(recs[k]) /\ IsOpen(draft[x][j]) /\ k # j => draft[x][k] # None
  BY DEF CostInv, DraftsOK
<1>1. draft' \in [Processes -> [RecIds -> RecRows \cup {None}]]
  BY <1>a
<1>2. \A x \in Processes, k \in RecIds :
        draft'[x][k] = IF x = p /\ k = i THEN new ELSE draft[x][k]
  BY <1>a
<1>3. \A x \in Processes : x # p => draft[x][i] = None
  BY DEF LockedFor
<1>4. \A x, y \in Processes, k \in RecIds : draft'[x][k] # None /\ draft'[y][k] # None => x = y
  BY <1>2, <1>3, <1>b
<1>5. \A x \in Processes, k \in RecIds : draft'[x][k] # None /\ recs'[k] # None =>
        /\ draft'[x][k].ticket = recs'[k].ticket
        /\ IsOpen(draft'[x][k]) => IsOpen(recs'[k])
  BY <1>2, <1>b DEF Seen, IsOpen
<1>6. ASSUME IsOpen(new)
      PROVE  /\ \A x \in Processes, k \in RecIds \ {i} : ~IsOpen(draft[x][k])
             /\ \A k \in RecIds \ {i} : IsOpen(recs[k]) => draft[p][k] # None
  <2>1. CASE Seen(p, i) # None /\ Seen(p, i).status = "open" /\ draft[p][i] # None
    BY <1>b, <2>1 DEF Seen, IsOpen
  <2>2. CASE Seen(p, i) # None /\ Seen(p, i).status = "open" /\ draft[p][i] = None
    <3>1. IsOpen(recs[i]) /\ \A x \in Processes : draft[x][i] = None
      BY <1>3, <2>2 DEF Seen, IsOpen
    <3> QED
      BY <1>a, <1>b, <3>1
  <2>3. CASE ~OpenExists(p) /\ ~InsertWaits(p)
    <3>1. \A k \in RecIds : IsOpen(recs[k]) => draft[p][k] # None
      BY <2>3 DEF OpenExists, Seen, IsOpen
    <3>2. \A k \in RecIds : ~IsOpen(draft[p][k])
      BY <2>3 DEF OpenExists, Seen, IsOpen
    <3>3. \A x \in Processes \ {p}, k \in RecIds : ~IsOpen(draft[x][k])
      BY <2>3 DEF InsertWaits, IsOpen
    <3> QED
      BY <3>1, <3>2, <3>3
  <2> QED
    BY <1>6, <2>1, <2>2, <2>3 DEF IsOpen
<1>7. \A x, y \in Processes, k, j \in RecIds :
        IsOpen(draft'[x][k]) /\ IsOpen(draft'[y][j]) => k = j
  BY <1>2, <1>6, <1>b
<1>8. \A x \in Processes, k, j \in RecIds :
        IsOpen(recs'[k]) /\ IsOpen(draft'[x][j]) /\ k # j => draft'[x][k] # None
  BY <1>2, <1>6, <1>a, <1>b
<1>9. DraftsOK'
  BY <1>4, <1>5, <1>7, <1>8 DEF DraftsOK, IsOpen
<1>10. RowsOK'
  <2>1. \A x \in Processes : seenOpen'[x] # 0 => Seen(x, seenOpen[x])' # None
    BY <1>a, <1>2 DEF CostInv, RowsOK, Seen
  <2> QED
    BY <2>1 DEF CostInv, RowsOK
<1> QED
  BY <1>1, <1>9, <1>10

(* A sweep ends without a commit of recommendations *)
LEMMA SweepEnds ==
  ASSUME CostInv, NEW p \in Processes, EndSweep(p), EnvTypeOK',
         UNCHANGED <<usage, recs, costCallVars, solved>>,
         savings' \in [RecIds -> {"logged", "verified", "not_materialized", None}],
         \A i \in RecIds : savings'[i] # None => i \in solved
  PROVE  CostInv'
<1>0. CostTypeOK
  BY DEF CostInv
<1>1. CostTypeOK'
  BY <1>0, CostAssumption DEF EndSweep, CostTypeOK, costCallVars, RecIds
<1>2. \A q \in Processes :
        \/ draft'[q] = draft[q] /\ seenOpen'[q] = seenOpen[q]
        \/ draft'[q] = [i \in RecIds |-> None] /\ seenOpen'[q] = 0
  BY <1>0 DEF EndSweep, CostTypeOK
<1>3. \A q \in Processes : toLog'[q] \subseteq solved /\ toVerify'[q] \subseteq solved
  BY <1>0 DEF EndSweep, CostTypeOK, CostInv, RowsOK
<1>4. /\ \A i \in solved : recs[i] # None /\ recs[i].ticket # 0
      /\ \A u \in Callers : call[u] # "idle" => recs[callRec[u]] # None
  BY DEF CostInv, RowsOK
<1> QED
  BY <1>1, <1>2, <1>3, <1>4, RecsKept DEF costCallVars

(* COMMIT makes one transaction's view everybody's *)
LEMMA RecsCommitted ==
  ASSUME CostInv, NEW p \in Processes, CommitRightsizing(p)
  PROVE  /\ CostInv'
         /\ \A i \in RecIds : recs[i] # None =>
              /\ recs'[i] # None /\ recs'[i].ticket = recs[i].ticket
              /\ IsOpen(recs'[i]) => IsOpen(recs[i])
<1>0. CostTypeOK
  BY DEF CostInv
<1>a. /\ recs \in [RecIds -> RecRows \cup {None}]
      /\ draft \in [Processes -> [RecIds -> RecRows \cup {None}]]
      /\ \A j, k \in RecIds : IsOpen(recs[j]) /\ IsOpen(recs[k]) => j = k
      /\ seenOpen \in [Processes -> 0..MaxRecs] /\ solved \subseteq RecIds
      /\ callRec \in [Callers -> 0..MaxRecs]
      /\ \A u \in Callers : callRec[u] = 0 <=> call[u] = "idle"
      /\ RecIds = 1..MaxRecs /\ MaxRecs \in Nat
  BY <1>0, CostTyped
<1>b. /\ \A x, y \in Processes, k \in RecIds : draft[x][k] # None /\ draft[y][k] # None => x = y
      /\ \A x \in Processes, k \in RecIds : draft[x][k] # None /\ recs[k] # None =>
           /\ draft[x][k].ticket = recs[k].ticket
           /\ IsOpen(draft[x][k]) => IsOpen(recs[k])
      /\ \A x, y \in Processes, k, j \in RecIds :
           IsOpen(draft[x][k]) /\ IsOpen(draft[y][j]) => k = j
      /\ \A x \in Processes, k, j \in RecIds :
           IsOpen(recs[k]) /\ IsOpen(draft[x][j]) /\ k # j => draft[x][k] # None
  BY DEF CostInv, DraftsOK
<1>1. recs' \in [RecIds -> RecRows \cup {None}]
  BY <1>a DEF CommitRightsizing, Seen
<1>2. \A k \in RecIds : recs'[k] = IF draft[p][k] # None THEN draft[p][k] ELSE recs[k]
  BY DEF CommitRightsizing, Seen
<1>3. \A x \in Processes, k \in RecIds :
        draft'[x][k] = IF x = p THEN None ELSE draft[x][k]
  BY <1>a DEF CommitRightsizing, EndSweep
<1>4. \A i \in RecIds : recs[i] # None =>
        /\ recs'[i] # None /\ recs'[i].ticket = recs[i].ticket
        /\ IsOpen(recs'[i]) => IsOpen(recs[i])
  BY <1>2, <1>b
<1>5. \A j, k \in RecIds : IsOpen(recs'[j]) /\ IsOpen(recs'[k]) => j = k
  BY <1>2, <1>a, <1>b
<1>6. CostTypeOK'
  <2>1. \A j, k \in RecIds :
          recs'[j] # None /\ recs'[k] # None /\ recs'[j].status = "open" /\ recs'[k].status = "open"
          => j = k
    BY <1>5 DEF IsOpen
  <2>2. EnvTypeOK'
    BY <1>0, EnvironmentKept DEF CommitRightsizing, CostTypeOK
  <2>3. /\ costStage' \in [Processes -> {"idle", "evaluate", "write", "aborted", "log", "verify"}]
        /\ costLeft' \in [Processes -> SUBSET UsageMonitors]
        /\ verdict' \in [Processes -> {"none", "low", "fine", None}]
        /\ seenOpen' \in [Processes -> 0..MaxRecs]
        /\ toLog' \in [Processes -> SUBSET RecIds]
        /\ toVerify' \in [Processes -> SUBSET RecIds]
        /\ draft' \in [Processes -> [RecIds -> RecRows \cup {None}]]
    BY <1>0, CostAssumption DEF CommitRightsizing, EndSweep, CostTypeOK
  <2> QED
    BY <1>0, <1>1, <2>1, <2>2, <2>3 DEF CommitRightsizing, CostTypeOK, costCallVars
<1>7. DraftsOK'
  <2>1. \A x, y \in Processes, k \in RecIds : draft'[x][k] # None /\ draft'[y][k] # None => x = y
    BY <1>3, <1>b
  <2>2. \A x \in Processes, k \in RecIds : draft'[x][k] # None /\ recs'[k] # None =>
          /\ draft'[x][k].ticket = recs'[k].ticket
          /\ IsOpen(draft'[x][k]) => IsOpen(recs'[k])
    BY <1>2, <1>3, <1>b
  <2>3. \A x, y \in Processes, k, j \in RecIds :
          IsOpen(draft'[x][k]) /\ IsOpen(draft'[y][j]) => k = j
    BY <1>3, <1>b DEF IsOpen
  <2>4. \A x \in Processes, k, j \in RecIds :
          IsOpen(recs'[k]) /\ IsOpen(draft'[x][j]) /\ k # j => draft'[x][k] # None
    <3>1. SUFFICES ASSUME NEW x \in Processes, NEW k \in RecIds, NEW j \in RecIds,
                          IsOpen(recs'[k]), IsOpen(draft'[x][j]), k # j
                   PROVE  draft'[x][k] # None
      OBVIOUS
    <3>2. x # p /\ IsOpen(draft[x][j])
      BY <1>3, <3>1 DEF IsOpen
    <3>3. draft[p][k] = None /\ IsOpen(recs[k])
      BY <1>2, <1>b, <3>1, <3>2
    <3> QED
      BY <1>3, <1>b, <3>1, <3>2, <3>3
  <2> QED
    BY <2>1, <2>2, <2>3, <2>4 DEF DraftsOK, IsOpen
<1>8. RowsOK'
  <2>1. \A x \in Processes : seenOpen'[x] # 0 => x # p /\ seenOpen'[x] = seenOpen[x]
    BY <1>a DEF CommitRightsizing, EndSweep
  <2>2. ASSUME NEW x \in Processes, NEW i \in 0..MaxRecs, i = seenOpen[x], x # p, i # 0
        PROVE  Seen(x, i)' # None
    <3>1. i \in RecIds /\ Seen(x, i) # None
      BY <1>a, <2>2 DEF CostInv, RowsOK
    <3> QED
      BY <1>2, <1>3, <2>2, <3>1 DEF Seen
  <2>3. \A x \in Processes : seenOpen'[x] # 0 => Seen(x, seenOpen[x])' # None
    <3>1. SUFFICES ASSUME NEW x \in Processes, seenOpen'[x] # 0
                   PROVE  (IF draft'[x][seenOpen'[x]] # None
                           THEN draft'[x][seenOpen'[x]] ELSE recs'[seenOpen'[x]]) # None
      BY DEF Seen
    <3>2. PICK i \in 0..MaxRecs : i = seenOpen[x]
      BY <1>a
    <3> QED
      BY <2>1, <2>2, <3>1, <3>2 DEF Seen
  <2>4. \A u \in Callers : call'[u] # "idle" => recs'[callRec'[u]] # None
    BY <1>4, <1>a DEF CommitRightsizing, costCallVars, CostInv, RowsOK
  <2>5. \A i \in solved' : recs'[i] # None /\ recs'[i].ticket # 0
    BY <1>4, <1>a DEF CommitRightsizing, CostInv, RowsOK
  <2>6. \A q \in Processes : toLog'[q] \subseteq solved /\ toVerify'[q] \subseteq solved
    BY <1>0 DEF CommitRightsizing, EndSweep, CostTypeOK, CostInv, RowsOK
  <2> QED
    BY <2>3, <2>4, <2>5, <2>6 DEF RowsOK, CommitRightsizing, CostInv
<1> QED
  BY <1>4, <1>6, <1>7, <1>8 DEF CostInv

(* One step per action: the inductive invariant is kept, rows only gain    *)
(* tickets and none that is closed opens again                             *)
LEMMA CostNextInv ==
  ASSUME CostInv, [CostNext]_cvars
  PROVE  /\ CostInv'
         /\ \A i \in RecIds : recs[i] # None =>
              /\ recs'[i] # None
              /\ recs[i].ticket # 0 => recs'[i].ticket # 0
              /\ IsOpen(recs'[i]) => IsOpen(recs[i])
<1> DEFINE Kept == \A i \in RecIds : recs[i] # None =>
                     /\ recs'[i] # None
                     /\ recs[i].ticket # 0 => recs'[i].ticket # 0
                     /\ IsOpen(recs'[i]) => IsOpen(recs[i])
<1>0. CostTypeOK /\ EnvTypeOK /\ deployed \subseteq Processes
  BY CostTyped DEF CostInv
<1>a. /\ recs \in [RecIds -> RecRows \cup {None}]
      /\ draft \in [Processes -> [RecIds -> RecRows \cup {None}]]
      /\ costStage \in [Processes -> {"idle", "evaluate", "write", "aborted", "log", "verify"}]
      /\ seenOpen \in [Processes -> 0..MaxRecs]
      /\ toLog \in [Processes -> SUBSET RecIds] /\ toVerify \in [Processes -> SUBSET RecIds]
      /\ call \in [Callers -> {"idle", "post", "link"}]
      /\ callRec \in [Callers -> 0..MaxRecs]
      /\ \A u \in Callers : callRec[u] = 0 <=> call[u] = "idle"
      /\ made \in [RecIds -> Nat] /\ solved \subseteq RecIds
      /\ savings \in [RecIds -> {"logged", "verified", "not_materialized", None}]
      /\ None \notin RecRows /\ RecIds = 1..MaxRecs /\ MaxRecs \in Nat
      /\ \A row \in RecRows : row.status \in RecStatuses /\ row.ticket \in Nat
  BY <1>0, CostTyped
<1>b. /\ \A p \in Processes : seenOpen[p] # 0 => Seen(p, seenOpen[p]) # None
      /\ \A u \in Callers : call[u] # "idle" => recs[callRec[u]] # None
      /\ \A i \in solved : recs[i] # None /\ recs[i].ticket # 0
      /\ \A p \in Processes : toLog[p] \subseteq solved /\ toVerify[p] \subseteq solved
      /\ \A i \in RecIds : savings[i] # None => i \in solved
  BY DEF CostInv, RowsOK
<1>c. recs' = recs => Kept
  OBVIOUS
<1>1. ASSUME NEW m \in UsageMonitors, UsageChanges(m)
      PROVE  CostInv' /\ Kept
  <2>1. CostTypeOK'
    BY <1>0, <1>1, TickTyped DEF UsageChanges, CostTypeOK, costJobVars, costCallVars
  <2> QED
    BY <1>1, <2>1, <1>b, <1>c, RecsKept DEF UsageChanges, costJobVars, costCallVars
<1>2. ASSUME NEW p \in Processes, RightsizingStarts(p)
      PROVE  CostInv' /\ Kept
  <2>1. CostTypeOK'
    BY <1>0, <1>2, EnvironmentKept DEF RightsizingStarts, CostTypeOK, costCallVars
  <2> QED
    BY <1>2, <2>1, <1>b, <1>c, RecsKept DEF RightsizingStarts, costCallVars
<1>3. ASSUME NEW p \in Processes, SavingsStarts(p)
      PROVE  CostInv' /\ Kept
  <2>1. PICK S \in SUBSET {i \in RecIds : ToLog(i)} : toLog' = [toLog EXCEPT ![p] = S]
    BY <1>3 DEF SavingsStarts
  <2>2. S \subseteq RecIds /\ S \subseteq solved
    BY DEF ToLog
  <2>3. \A q \in Processes : toLog'[q] \subseteq solved /\ toVerify'[q] \subseteq solved
    BY <1>3, <1>a, <1>b, <2>1, <2>2 DEF SavingsStarts
  <2>4. CostTypeOK'
    BY <1>0, <1>3, <2>1, <2>2, EnvironmentKept DEF SavingsStarts, CostTypeOK, costCallVars
  <2> QED
    BY <1>3, <2>3, <2>4, <1>b, <1>c, RecsKept DEF SavingsStarts, costCallVars
<1>4. ASSUME NEW p \in Processes, EvaluateMonitor(p)
      PROVE  CostInv' /\ Kept
  <2>0. PICK c : c = IF \E i \in RecIds : Seen(p, i) # None /\ Seen(p, i).status = "open"
                     THEN CHOOSE i \in RecIds : Seen(p, i) # None /\ Seen(p, i).status = "open"
                     ELSE 0
    OBVIOUS
  <2>1. PICK m \in costLeft[p] :
          /\ costLeft' = [costLeft EXCEPT ![p] = @ \ {m}]
          /\ verdict' = [verdict EXCEPT ![p] = usage[m]]
          /\ seenOpen' = [seenOpen EXCEPT ![p] = c]
          /\ costStage' = [costStage EXCEPT ![p] = IF usage[m] = "none" THEN "evaluate" ELSE "write"]
    BY <1>4, <2>0 DEF EvaluateMonitor
  <2>2. PICK k \in 0..MaxRecs :
          /\ seenOpen' = [seenOpen EXCEPT ![p] = k]
          /\ k # 0 => k \in RecIds /\ Seen(p, k) # None
    <3>1. CASE \E i \in RecIds : Seen(p, i) # None /\ Seen(p, i).status = "open"
      <4>1. c \in RecIds /\ Seen(p, c) # None
        BY <2>0, <3>1
      <4>2. c \in 0..MaxRecs
        BY <1>a, <4>1
      <4> QED
        BY <2>1, <4>1, <4>2
    <3>2. CASE ~\E i \in RecIds : Seen(p, i) # None /\ Seen(p, i).status = "open"
      <4>1. c = 0
        BY <2>0, <3>2
      <4>2. c \in 0..MaxRecs
        BY <1>a, <4>1
      <4> QED
        BY <2>1, <4>1, <4>2
    <3> QED
      BY <3>1, <3>2
  <2>3. m \in UsageMonitors
    BY <1>0 DEF CostTypeOK
  <2>4. CostTypeOK'
    <3>1. EnvTypeOK'
      BY <1>0, <1>4, EnvironmentKept DEF EvaluateMonitor
    <3>2. usage[m] \in {"none", "low", "fine", None} /\ costLeft[p] \ {m} \in SUBSET UsageMonitors
      BY <1>0, <2>3 DEF CostTypeOK
    <3>3. /\ costStage' \in [Processes -> {"idle", "evaluate", "write", "aborted", "log", "verify"}]
          /\ costLeft' \in [Processes -> SUBSET UsageMonitors]
          /\ verdict' \in [Processes -> {"none", "low", "fine", None}]
          /\ seenOpen' \in [Processes -> 0..MaxRecs]
      BY <1>0, <2>1, <2>2, <3>2 DEF CostTypeOK
    <3> QED
      BY <1>0, <1>4, <3>1, <3>3 DEF EvaluateMonitor, CostTypeOK, costCallVars
  <2>5. DraftsOK'
    BY <1>4 DEF EvaluateMonitor, CostInv, DraftsOK, IsOpen
  <2>6. RowsOK'
    <3>1. \A q \in Processes : seenOpen'[q] = IF q = p THEN k ELSE seenOpen[q]
      BY <1>a, <2>2
    <3>2. recs' = recs /\ draft' = draft
      BY <1>4 DEF EvaluateMonitor
    <3>3. \A q \in Processes : seenOpen'[q] # 0 => Seen(q, seenOpen[q])' # None
      BY <1>b, <2>2, <3>1, <3>2 DEF Seen
    <3> QED
      BY <1>4, <1>b, <3>3 DEF EvaluateMonitor, RowsOK, costCallVars
  <2> QED
    BY <1>4, <1>c, <2>4, <2>5, <2>6 DEF CostInv, EvaluateMonitor

<1>5. ASSUME NEW p \in Processes, InsertRec(p)
      PROVE  CostInv' /\ Kept
  <2>1. CASE OpenExists(p)
    <3>1. CostTypeOK' /\ draft' = draft
      BY <1>0, <1>5, <2>1, EnvironmentKept DEF InsertRec, CostTypeOK, costCallVars
    <3> QED
      BY <1>5, <3>1, <1>b, <1>c, RecsKept DEF InsertRec, costCallVars
  <2>2. CASE ~OpenExists(p)
    <3>1. PICK i \in FreeIds :
            draft' = [draft EXCEPT ![p][i] = [status |-> "open", ticket |-> 0]]
      BY <1>5, <2>2 DEF InsertRec
    <3>2. i \in RecIds /\ recs[i] = None /\ ~LockedFor(p, i)
      BY DEF FreeIds, RowLocked, LockedFor
    <3>3. [status |-> "open", ticket |-> 0] \in RecRows
      BY DEF RecRows, RecStatuses
    <3>4. UNCHANGED <<recs, seenOpen, solved, toLog, toVerify, savings, call, callRec>>
      BY <1>5 DEF InsertRec, costCallVars
    <3>5. ~InsertWaits(p)
      BY <1>5 DEF InsertRec
    <3>6. PICK new \in RecRows : draft' = [draft EXCEPT ![p][i] = new]
      BY <3>1, <3>3
    <3>7. draft' \in [Processes -> [RecIds -> RecRows \cup {None}]] /\ DraftsOK' /\ RowsOK'
      BY <2>2, <3>2, <3>4, <3>5, <3>6, RowDrafted
    <3>8. CostTypeOK'
      BY <1>0, <1>5, <2>2, <3>7, EnvironmentKept, ZenonT(60) DEF InsertRec, CostTypeOK, costCallVars
    <3> QED
      BY <3>4, <3>7, <3>8, <1>c DEF CostInv
  <2> QED
    BY <2>1, <2>2
<1>6. ASSUME NEW p \in Processes, RefreshRec(p)
      PROVE  CostInv' /\ Kept
  <2>1. PICK i \in RecIds : i = seenOpen[p]
    BY <1>6, <1>a DEF RefreshRec
  <2>2. Seen(p, i) # None
    BY <1>6, <1>b, <2>1 DEF RefreshRec
  <2>3. Seen(p, i) \in RecRows
    BY <1>a, <2>2 DEF Seen
  <2>4. PICK new : new = Refreshed(p, Seen(p, i))
    OBVIOUS
  <2>5. /\ new \in RecRows /\ new.ticket = Seen(p, i).ticket
        /\ new.status = "open" => Seen(p, i).status = "open"
    BY <2>3, <2>4 DEF Refreshed, RecRows, RecStatuses
  <2>6. draft' = [draft EXCEPT ![p][i] = new] /\ ~LockedFor(p, i)
    BY <1>6, <2>1, <2>4 DEF RefreshRec
  <2>7. UNCHANGED <<recs, seenOpen, solved, toLog, toVerify, savings, call, callRec>>
    BY <1>6 DEF RefreshRec, costCallVars
  <2>8. draft' \in [Processes -> [RecIds -> RecRows \cup {None}]] /\ DraftsOK' /\ RowsOK'
    BY <2>2, <2>5, <2>6, <2>7, RowDrafted
  <2>9. CostTypeOK'
    BY <1>0, <1>6, <2>8, EnvironmentKept DEF RefreshRec, CostTypeOK, costCallVars
  <2> QED
    BY <2>7, <2>8, <2>9, <1>c DEF CostInv
<1>7. ASSUME NEW p \in Processes, NothingToDo(p)
      PROVE  CostInv' /\ Kept
  <2>1. CostTypeOK'
    BY <1>0, <1>7, EnvironmentKept DEF NothingToDo, CostTypeOK, costCallVars
  <2> QED
    BY <1>7, <2>1, <1>b, <1>c, RecsKept DEF NothingToDo, costCallVars
<1>8. ASSUME NEW p \in Processes, CommitRightsizing(p)
      PROVE  CostInv' /\ Kept
  BY <1>8, RecsCommitted
<1>9. ASSUME NEW p \in Processes, LogSavings(p)
      PROVE  CostInv' /\ Kept
  <2>0. PICK S : S = {i \in RecIds : savings[i] = "logged"}
    OBVIOUS
  <2>a. S \in SUBSET RecIds /\ S \subseteq solved
    BY <1>a, <1>b, <2>0, NullIsNoRec
  <2>b. /\ toVerify' = toVerify \/ toVerify' = [toVerify EXCEPT ![p] = S]
        /\ \E s \in {"aborted", "verify"} : costStage' = [costStage EXCEPT ![p] = s]
    BY <1>9, <2>0 DEF LogSavings
  <2>c. EnvTypeOK'
    BY <1>0, <1>9, EnvironmentKept DEF LogSavings
  <2>1. CostTypeOK'
    <3>1. /\ toVerify' \in [Processes -> SUBSET RecIds]
          /\ costStage' \in [Processes -> {"idle", "evaluate", "write", "aborted", "log", "verify"}]
      BY <1>a, <2>a, <2>b
    <3> QED
      BY <1>0, <1>9, <2>c, <3>1 DEF LogSavings, CostTypeOK, costCallVars
  <2>2. \A q \in Processes : toVerify'[q] \subseteq solved
    BY <1>a, <1>b, <2>a, <2>b
  <2> QED
    BY <1>9, <2>1, <2>2, <1>b, <1>c, RecsKept DEF LogSavings, costCallVars
<1>10. ASSUME NEW p \in Processes, CommitSavings(p)
       PROVE  CostInv' /\ Kept
  <2>1. PICK old \in SUBSET toVerify[p], v \in {"verified", "not_materialized"} :
          savings' = [i \in RecIds |-> IF i \in toLog[p] THEN "logged"
                                       ELSE IF i \in old THEN v ELSE savings[i]]
    BY <1>10 DEF CommitSavings
  <2>2. savings' \in [RecIds -> {"logged", "verified", "not_materialized", None}]
    BY <1>a, <2>1
  <2>4. \A i \in RecIds : savings'[i] # None => i \in solved
    BY <1>b, <2>1
  <2> QED
    BY <1>10, <1>0, <2>2, <2>4, <1>c, SweepEnds, EnvironmentKept DEF CommitSavings
<1>11. ASSUME NEW p \in Processes, CommitAborted(p)
       PROVE  CostInv' /\ Kept
  BY <1>11, <1>0, <1>a, <1>b, <1>c, SweepEnds, EnvironmentKept DEF CommitAborted
<1>12. ASSUME NEW p \in Processes, CostSweepFails(p)
       PROVE  CostInv' /\ Kept
  BY <1>12, <1>0, <1>a, <1>b, <1>c, SweepEnds, FaultTyped DEF CostSweepFails
<1>13. ASSUME NEW i \in RecIds, PatchRec(i)
       PROVE  CostInv' /\ Kept
  <2>1. PICK s \in {"dismissed", "resolved"} : recs' = [recs EXCEPT ![i].status = s]
    BY <1>13 DEF PatchRec
  <2>2. recs[i] \in RecRows /\ recs[i] # None /\ ~RowLocked(i)
    BY <1>13, <1>a DEF PatchRec
  <2>3. PICK new : new = [recs[i] EXCEPT !.status = s]
    OBVIOUS
  <2>4. new \in RecRows /\ new.status = s /\ new.ticket = recs[i].ticket
    BY <2>2, <2>3 DEF RecRows, RecStatuses
  <2>5. recs' = [recs EXCEPT ![i] = new] /\ new.status # "open"
    BY <2>1, <2>3, <2>4
  <2>6. UNCHANGED <<draft, seenOpen, solved, toLog, toVerify, savings, call, callRec>>
    BY <1>13 DEF PatchRec, costJobVars, costCallVars
  <2>7. /\ recs' \in [RecIds -> RecRows \cup {None}]
        /\ \A j, k \in RecIds :
             recs'[j] # None /\ recs'[k] # None /\ recs'[j].status = "open" /\ recs'[k].status = "open"
             => j = k
        /\ DraftsOK' /\ RowsOK'
    BY <2>2, <2>4, <2>5, <2>6, RowClosed
  <2>8. CostTypeOK'
    BY <1>0, <1>13, <2>7, TickTyped DEF PatchRec, CostTypeOK, costJobVars, costCallVars
  <2>9. Kept
    BY <1>a, <2>4, <2>5 DEF IsOpen
  <2> QED
    BY <2>7, <2>8, <2>9 DEF CostInv
<1>14. ASSUME NEW i \in RecIds, SolveTicket(i)
       PROVE  CostInv' /\ Kept
  <2>1. CostTypeOK'
    BY <1>0, <1>14, EnvironmentKept DEF SolveTicket, CostTypeOK, costJobVars, costCallVars
  <2> QED
    BY <1>14, <2>1, <1>b, <1>c, RecsKept DEF SolveTicket, costJobVars, costCallVars
<1>15. ASSUME NEW u \in Callers, NEW i \in RecIds, ReadRec(u, i)
       PROVE  CostInv' /\ Kept
  <2>1. CostTypeOK'
    BY <1>0, <1>15, <1>a, EnvironmentKept DEF ReadRec, CostTypeOK, costJobVars
  <2>2. \A w \in Callers : call'[w] # "idle" => recs[callRec'[w]] # None
    BY <1>15, <1>a, <1>b DEF ReadRec, MayCreate
  <2> QED
    BY <1>15, <2>1, <2>2, <1>b, <1>c, RecsKept DEF ReadRec, costJobVars
<1>16. ASSUME NEW u \in Callers, PostTicket(u)
       PROVE  CostInv' /\ Kept
  <2>1. callRec[u] \in RecIds
    BY <1>16, <1>a DEF PostTicket
  <2>2. made' \in [RecIds -> Nat]
    <3>1. PICK i \in RecIds : i = callRec[u]
      BY <2>1
    <3>2. made' = made \/ made' = [made EXCEPT ![i] = @ + 1]
      BY <1>16, <3>1 DEF PostTicket
    <3> QED
      BY <1>a, <3>2
  <2>3. EnvTypeOK'
    BY <1>0, <1>16, EnvironmentKept, FaultTyped DEF PostTicket
  <2>4. /\ call' \in [Callers -> {"idle", "post", "link"}]
        /\ callRec' \in [Callers -> 0..MaxRecs]
        /\ \A w \in Callers : callRec'[w] = 0 <=> call'[w] = "idle"
        /\ \A w \in Callers : call'[w] # "idle" => recs[callRec'[w]] # None
    <3>1. CASE call' = [call EXCEPT ![u] = "link"] /\ callRec' = callRec
      BY <1>a, <1>b, <1>16, <2>1, <3>1 DEF PostTicket
    <3>2. CASE call' = [call EXCEPT ![u] = "idle"] /\ callRec' = [callRec EXCEPT ![u] = 0]
      BY <1>a, <1>b, <3>2
    <3> QED
      BY <1>16, <3>1, <3>2 DEF PostTicket
  <2>5. CostTypeOK'
    BY <1>0, <1>16, <2>2, <2>3, <2>4 DEF PostTicket, CostTypeOK, costJobVars
  <2> QED
    BY <1>16, <2>4, <2>5, <1>b, <1>c, RecsKept DEF PostTicket, costJobVars
<1>17. ASSUME NEW u \in Callers, LinkTicket(u)
       PROVE  CostInv' /\ Kept
  <2>1. PICK i \in RecIds : i = callRec[u]
    BY <1>17, <1>a DEF LinkTicket
  <2>2. /\ call' = [call EXCEPT ![u] = "idle"]
        /\ callRec' = [callRec EXCEPT ![u] = 0]
        /\ UNCHANGED <<usage, costJobVars, made, solved, savings>>
    BY <1>17 DEF LinkTicket
  <2>3. /\ call' \in [Callers -> {"idle", "post", "link"}]
        /\ callRec' \in [Callers -> 0..MaxRecs]
        /\ \A w \in Callers : callRec'[w] = 0 <=> call'[w] = "idle"
        /\ \A w \in Callers : call'[w] # "idle" => call[w] # "idle" /\ callRec'[w] = callRec[w]
    BY <1>a, <2>2
  <2>4. CASE Fault /\ UNCHANGED recs
    <3>1. CostTypeOK'
      BY <1>0, <2>2, <2>3, <2>4, FaultTyped DEF CostTypeOK, costJobVars
    <3> QED
      BY <2>2, <2>3, <2>4, <3>1, <1>b, <1>c, RecsKept DEF costJobVars
  <2>5. CASE /\ UNCHANGED environment /\ ~RowLocked(i)
             /\ recs' = [recs EXCEPT ![i].status = "ticket_created", ![i].ticket = @ + 1]
    <3>1. recs[i] \in RecRows /\ recs[i] # None
      BY <1>17, <1>a, <1>b, <2>1 DEF LinkTicket
    <3>2. PICK new : new = [recs[i] EXCEPT !.status = "ticket_created", !.ticket = @ + 1]
      OBVIOUS
    <3>3. /\ new \in RecRows /\ new.status = "ticket_created" /\ new.ticket = recs[i].ticket + 1
          /\ recs[i].ticket \in Nat
      <4>1. recs[i].ticket \in Nat /\ recs[i].ticket + 1 \in Nat
        BY <1>a, <3>1
      <4>2. PICK t \in Nat : t = recs[i].ticket + 1
        BY <4>1
      <4>3. new = [recs[i] EXCEPT !.status = "ticket_created", !.ticket = t]
        BY <3>2, <4>2
      <4>4. new \in RecRows /\ new.status = "ticket_created" /\ new.ticket = t
        BY <3>1, <4>3 DEF RecRows, RecStatuses
      <4> QED
        BY <4>1, <4>2, <4>4
    <3>4. recs' = [recs EXCEPT ![i] = new]
      BY <1>a, <2>5, <3>1, <3>2 DEF RecRows
    <3>5. new.status # "open" /\ (recs[i].ticket # 0 => new.ticket # 0)
      BY <3>3
    <3>6. UNCHANGED <<draft, seenOpen, solved, toLog, toVerify, savings>>
      BY <2>2 DEF costJobVars
    <3>7. /\ recs' \in [RecIds -> RecRows \cup {None}]
          /\ \A j, k \in RecIds :
               recs'[j] # None /\ recs'[k] # None /\ recs'[j].status = "open" /\ recs'[k].status = "open"
               => j = k
          /\ DraftsOK' /\ RowsOK'
      BY <2>3, <2>5, <3>1, <3>3, <3>4, <3>5, <3>6, RowClosed
    <3>8. CostTypeOK'
      BY <1>0, <2>2, <2>3, <2>5, <3>7, EnvironmentKept DEF CostTypeOK, costJobVars
    <3>9. Kept
      BY <1>a, <3>3, <3>4, <3>5 DEF IsOpen
    <3> QED
      BY <3>7, <3>8, <3>9 DEF CostInv
  <2> QED
    BY <1>17, <2>1, <2>4, <2>5 DEF LinkTicket
<1>18. CASE UNCHANGED cvars
  <2>1. CostTypeOK' /\ DraftsOK' /\ RowsOK'
    BY <1>18 DEF CostInv, CostTypeOK, EnvTypeOK, DraftsOK, RowsOK, Seen, IsOpen, cvars,
                 environment, costVars, costJobVars, costCallVars
  <2> QED
    BY <1>18, <2>1, <1>c DEF CostInv, cvars, costVars
<1> QED
  BY <1>0, <1>1, <1>2, <1>3, <1>4, <1>5, <1>6, <1>7, <1>8, <1>9, <1>10, <1>11, <1>12, <1>13,
     <1>14, <1>15, <1>16, <1>17, <1>18 DEF CostNext, CostJob

(* The recommendations, the drafts and the savings stay in their types, a  *)
(* resource has one open recommendation, whatever the sweeps of several    *)
(* processes, the users and the ticket API do to each other.               *)
THEOREM CostTypeCorrect == CostSpec => []CostTypeOK
<1>1. CostInit => CostInv
  BY CostInitInv
<1>2. CostInv /\ [CostNext]_cvars => CostInv'
  BY CostNextInv
<1>3. CostInv => CostTypeOK
  BY DEF CostInv
<1> QED
  BY <1>1, <1>2, <1>3, PTL DEF CostSpec, cvars

(* A closed recommendation never comes back, however late the sweep's      *)
(* write of a row it read as open; a saving is booked only when the ticket *)
(* of the recommendation is solved.                                        *)
THEOREM RecsClosedForGood == CostSpec => ClosedForGood
<1>1. CostInit => CostInv
  BY CostInitInv
<1>2. CostInv /\ [CostNext]_cvars => CostInv'
  BY CostNextInv
<1>3. CostInv /\ [CostNext]_cvars => [ClosedStaysClosed /\ SavingsAreEarned']_cvars
  <2>1. SUFFICES ASSUME CostInv, [CostNext]_cvars
                 PROVE  ClosedStaysClosed /\ SavingsAreEarned'
    OBVIOUS
  <2>2. CostInv' /\ \A i \in RecIds : recs[i] # None =>
          recs'[i] # None /\ (IsOpen(recs'[i]) => IsOpen(recs[i]))
    BY <2>1, CostNextInv
  <2>3. ClosedStaysClosed
    BY <2>2 DEF ClosedStaysClosed, IsOpen
  <2>4. SavingsAreEarned'
    BY <2>2 DEF CostInv, RowsOK, SavingsAreEarned
  <2> QED
    BY <2>3, <2>4
<1> QED
  BY <1>1, <1>2, <1>3, PTL DEF CostSpec, ClosedForGood, cvars

-----------------------------------------------------------------------------
(* Users who have made, and have not lost, a ticket for a recommendation:  *)
(* about to link it, or (once one is linked) not about to make another     *)
Used(i) ==
  {u \in Callers :
     \/ call[u] = "link" /\ callRec[u] = i
     \/ recs[i] # None /\ recs[i].ticket # 0 /\ ~(call[u] = "post" /\ callRec[u] = i)}

(* The inductive invariant of the bound: what a recommendation got is      *)
(* paid for, one user or one fault each                                    *)
RecTicketsCounted == \A i \in RecIds : made[i] <= faults + Cardinality(Used(i))

LEMMA CostInitCounted == CostInit => RecTicketsCounted
<1> SUFFICES ASSUME CostInit, NEW i \in RecIds
             PROVE  made[i] <= faults + Cardinality(Used(i))
  BY DEF RecTicketsCounted
<1>1. Used(i) = {}
  BY DEF CostInit, Used
<1>2. Cardinality(Used(i)) = 0
  BY <1>1, FS_EmptySet
<1> QED
  BY <1>2 DEF CostInit, EnvInit

(* What one step may do to the tickets made, the faults and the users *)
LEMMA RecTicketPaid ==
  ASSUME NEW i \in RecIds, CostTypeOK, CostTypeOK', NEW u,
         made[i] <= faults + Cardinality(Used(i)),
         \/ made'[i] = made[i] /\ faults' >= faults /\ Used(i) \subseteq Used(i)'
         \/ made'[i] = made[i] /\ faults' = faults + 1 /\ Used(i) \subseteq Used(i)' \cup {u}
         \/ made'[i] = made[i] + 1 /\ faults' = faults + 1 /\ Used(i) \subseteq Used(i)'
         \/ made'[i] = made[i] + 1 /\ faults' = faults /\ u \notin Used(i) /\ u \in Callers
            /\ Used(i)' = Used(i) \cup {u}
  PROVE  made'[i] <= faults' + Cardinality(Used(i)')
<1>1. made[i] \in Nat /\ made'[i] \in Nat /\ faults \in Nat /\ faults' \in Nat /\ IsFiniteSet(Callers)
  BY CostAssumption, EnvironmentAssumption DEF CostTypeOK, EnvTypeOK
<1>2. Used(i) \in SUBSET Callers /\ Used(i)' \in SUBSET Callers
  BY DEF Used
<1>3. PICK A \in SUBSET Callers, B \in SUBSET Callers : A = Used(i) /\ B = Used(i)'
  BY <1>2
<1>4. /\ Cardinality(A) \in Nat /\ Cardinality(B) \in Nat
      /\ A \subseteq B => Cardinality(A) <= Cardinality(B)
      /\ A \subseteq B \cup {u} => Cardinality(A) <= Cardinality(B) + 1
  BY <1>1, NoMoreOrOneLess
<1>5. u \notin A /\ B = A \cup {u} => Cardinality(B) = Cardinality(A) + 1
  BY <1>1, OneMore
<1>6. PICK a \in Nat, b \in Nat : a = Cardinality(A) /\ b = Cardinality(B)
  BY <1>4
<1>7. \/ made'[i] = made[i] /\ faults' >= faults /\ a <= b
      \/ made'[i] = made[i] /\ faults' = faults + 1 /\ a <= b + 1
      \/ made'[i] = made[i] + 1 /\ faults' = faults + 1 /\ a <= b
      \/ made'[i] = made[i] + 1 /\ faults' = faults /\ b = a + 1
  BY <1>3, <1>4, <1>5, <1>6
<1>8. made[i] <= faults + a
  BY <1>3, <1>6
<1>9. made'[i] <= faults' + b
  BY <1>1, <1>7, <1>8
<1> QED
  BY <1>3, <1>6, <1>9

LEMMA CostNextCounted ==
  ASSUME CostInv, CostInv', RecTicketsCounted, [CostNext]_cvars
  PROVE  RecTicketsCounted'
<1>0. CostTypeOK /\ CostTypeOK'
  BY DEF CostInv
<1>k. \A i \in RecIds : recs[i] # None =>
        recs'[i] # None /\ (recs[i].ticket # 0 => recs'[i].ticket # 0)
  BY CostNextInv
<1>a. /\ call \in [Callers -> {"idle", "post", "link"}] /\ callRec \in [Callers -> 0..MaxRecs]
      /\ made \in [RecIds -> Nat]
      /\ \A u \in Callers : callRec[u] = 0 <=> call[u] = "idle"
      /\ RecIds = 1..MaxRecs /\ MaxRecs \in Nat
      /\ recs \in [RecIds -> RecRows \cup {None}]
      /\ None \notin RecRows
      /\ \A row \in RecRows : row.status \in RecStatuses /\ row.ticket \in Nat
      /\ faults \in Nat
  <2>1. faults \in Nat
    BY <1>0, EnvironmentAssumption DEF CostTypeOK, EnvTypeOK
  <2> QED
    BY <1>0, <2>1, CostTyped
<1>b. \A u \in Callers : call[u] # "idle" => callRec[u] \in RecIds /\ recs[callRec[u]] # None
  BY <1>a DEF CostInv, RowsOK
<1>c. \A i \in RecIds : made[i] <= faults + Cardinality(Used(i))
  BY DEF RecTicketsCounted
<1> SUFFICES ASSUME NEW i \in RecIds
             PROVE  made'[i] <= faults' + Cardinality(Used(i)')
  BY DEF RecTicketsCounted
<1>1. ASSUME UNCHANGED <<call, callRec, made>>, faults' >= faults
      PROVE  made'[i] <= faults' + Cardinality(Used(i)')
  <2>1. Used(i) \subseteq Used(i)'
    BY <1>k, <1>1 DEF Used
  <2> QED
    BY <1>0, <1>c, <1>1, <2>1, RecTicketPaid
<1>2. ASSUME NEW u \in Callers, NEW j \in RecIds, ReadRec(u, j)
      PROVE  made'[i] <= faults' + Cardinality(Used(i)')
  <2>1. /\ call' = [call EXCEPT ![u] = "post"] /\ callRec' = [callRec EXCEPT ![u] = j]
        /\ recs[j].ticket = 0 /\ call[u] = "idle" /\ recs' = recs /\ made' = made
        /\ faults' = faults
    BY <1>2 DEF ReadRec, MayCreate, environment
  <2>2. Used(i) \subseteq Used(i)'
    BY <1>a, <2>1 DEF Used
  <2>3. faults' >= faults
    BY <1>a, <2>1
  <2> QED
    BY <1>0, <1>c, <2>1, <2>2, <2>3, RecTicketPaid
<1>3. ASSUME NEW u \in Callers, PostTicket(u)
      PROVE  made'[i] <= faults' + Cardinality(Used(i)')
  <2>1. PICK j \in RecIds : j = callRec[u]
    BY <1>3, <1>b DEF PostTicket
  <2>2. call[u] = "post" /\ recs' = recs
    BY <1>3 DEF PostTicket
  <2>3. CASE /\ UNCHANGED environment /\ made' = [made EXCEPT ![j] = @ + 1]
             /\ call' = [call EXCEPT ![u] = "link"] /\ callRec' = callRec
    <3>1. faults' = faults /\ faults' >= faults
      BY <1>a, <2>3 DEF environment
    <3>2. CASE i = j
      <4>1. u \notin Used(i) /\ Used(i)' = Used(i) \cup {u}
        BY <1>a, <2>1, <2>2, <2>3, <3>2 DEF Used
      <4>2. made'[i] = made[i] + 1
        BY <1>a, <2>3, <3>2
      <4> QED
        BY <1>0, <1>c, <3>1, <4>1, <4>2, RecTicketPaid
    <3>3. CASE i # j
      <4>1. Used(i) \subseteq Used(i)'
        BY <1>a, <2>1, <2>2, <2>3, <3>3 DEF Used
      <4>2. made'[i] = made[i]
        BY <1>a, <2>3, <3>3
      <4> QED
        BY <1>0, <1>c, <3>1, <4>1, <4>2, RecTicketPaid
    <3> QED
      BY <3>2, <3>3
  <2>4. CASE /\ Fault /\ (made' = [made EXCEPT ![j] = @ + 1] \/ made' = made)
             /\ call' = [call EXCEPT ![u] = "idle"] /\ callRec' = [callRec EXCEPT ![u] = 0]
    <3>1. faults' = faults + 1
      BY <2>4 DEF Fault
    <3>2. Used(i) \subseteq Used(i)' /\ Used(i) \subseteq Used(i)' \cup {u}
      BY <1>a, <2>1, <2>2, <2>4 DEF Used
    <3>3. made'[i] = made[i] \/ made'[i] = made[i] + 1
      BY <1>a, <2>4
    <3> QED
      BY <1>0, <1>c, <3>1, <3>2, <3>3, RecTicketPaid
  <2> QED
    BY <1>3, <2>1, <2>3, <2>4 DEF PostTicket
<1>4. ASSUME NEW u \in Callers, LinkTicket(u)
      PROVE  made'[i] <= faults' + Cardinality(Used(i)')
  <2>1. PICK j \in RecIds : j = callRec[u]
    BY <1>4, <1>b DEF LinkTicket
  <2>2. /\ call[u] = "link" /\ made' = made /\ recs[j] # None
        /\ call' = [call EXCEPT ![u] = "idle"] /\ callRec' = [callRec EXCEPT ![u] = 0]
    BY <1>4, <1>b, <2>1 DEF LinkTicket
  <2>3. CASE /\ UNCHANGED environment
             /\ recs' = [recs EXCEPT ![j].status = "ticket_created", ![j].ticket = @ + 1]
    <3>1. faults' = faults /\ faults' >= faults
      BY <1>a, <2>3 DEF environment
    <3>2. recs[j] \in RecRows
      BY <1>a, <2>2
    <3>3. recs'[j] # None /\ recs'[j].ticket = recs[j].ticket + 1
      BY <1>a, <1>k, <2>2, <2>3, <3>2 DEF RecRows
    <3>4. recs'[j].ticket # 0
      BY <1>a, <3>2, <3>3
    <3>5. Used(i) \subseteq Used(i)'
      BY <1>a, <1>k, <2>1, <2>2, <3>3, <3>4 DEF Used
    <3> QED
      BY <1>0, <1>c, <2>2, <3>1, <3>5, RecTicketPaid
  <2>4. CASE Fault /\ UNCHANGED recs
    <3>1. faults' = faults + 1
      BY <2>4 DEF Fault
    <3>2. Used(i) \subseteq Used(i)' \cup {u}
      BY <1>a, <2>1, <2>2, <2>4 DEF Used
    <3> QED
      BY <1>0, <1>c, <2>2, <3>1, <3>2, RecTicketPaid
  <2> QED
    BY <1>4, <2>1, <2>3, <2>4 DEF LinkTicket
<1>5. ASSUME UNCHANGED costCallVars, UNCHANGED environment \/ Fault \/ ClockTick
      PROVE  made'[i] <= faults' + Cardinality(Used(i)')
  <2>1. faults' >= faults
    BY <1>a, <1>5 DEF environment, Fault, ClockTick
  <2> QED
    BY <1>1, <1>5, <2>1 DEF costCallVars
<1> QED
  BY <1>2, <1>3, <1>4, <1>5
     DEF CostNext, CostJob, cvars, costVars, UsageChanges, RightsizingStarts, SavingsStarts,
         EvaluateMonitor, InsertRec, RefreshRec, NothingToDo, CommitRightsizing, LogSavings,
         CommitSavings, CommitAborted, CostSweepFails, PatchRec, SolveTicket

(* "ticket id set once": a recommendation gets at most one ticket for each *)
(* user who asked before the first was linked, and one for each fault.     *)
THEOREM RecTicketsBounded == CostSpec => []TicketsPerRecAreBounded
<1>1. CostInit => CostInv /\ RecTicketsCounted
  BY CostInitInv, CostInitCounted
<1>2. CostInv /\ [CostNext]_cvars => CostInv'
  BY CostNextInv
<1>3. CostInv /\ CostInv' /\ RecTicketsCounted /\ [CostNext]_cvars => RecTicketsCounted'
  BY CostNextCounted
<1>4. CostInv /\ RecTicketsCounted => TicketsPerRecAreBounded
  <2>1. SUFFICES ASSUME CostInv, RecTicketsCounted, NEW i \in RecIds
                 PROVE  made[i] <= faults + Cardinality(Callers)
    BY DEF TicketsPerRecAreBounded
  <2>2. Used(i) \in SUBSET Callers /\ IsFiniteSet(Callers)
    BY CostAssumption DEF Used
  <2>3. /\ Cardinality(Used(i)) \in Nat /\ Cardinality(Callers) \in Nat
        /\ Cardinality(Used(i)) <= Cardinality(Callers)
    BY <2>2, NoMoreOrOneLess
  <2>4. made[i] \in Nat /\ faults \in Nat /\ made[i] <= faults + Cardinality(Used(i))
    BY <2>1, EnvironmentAssumption DEF CostInv, CostTypeOK, EnvTypeOK, RecTicketsCounted
  <2> QED
    BY <2>3, <2>4
<1> QED
  BY <1>1, <1>2, <1>3, <1>4, PTL DEF CostSpec, cvars

-----------------------------------------------------------------------------
(* The jobs side by side, over one environment: the marks of each stand    *)
(* for what it promised, whatever fails and however many processes run it. *)
THEOREM JobsKeepPromises == LogSpec /\ NetSpec /\ RepSpec => JobsImplementPromises
BY LogRefines, NetRefines, RepRefines DEF JobsImplementPromises

(* And what they do again, or leave half done, is never more than their    *)
(* processes and the faults account for.                                   *)
THEOREM RepetitionBounded ==
  RepSpec /\ MailSpec /\ PaceSpec /\ CostSpec => []RepetitionIsBounded
BY CopiesBounded, MailTicketsBounded, EmptyTicketsBounded, NoticesBounded, RecTicketsBounded, PTL
   DEF RepetitionIsBounded

=============================================================================
