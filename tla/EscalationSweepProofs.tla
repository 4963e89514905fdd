------------------------ MODULE EscalationSweepProofs ------------------------
(***************************************************************************)
(* Proofs about EscalationSweep for any number of processes, alerts,       *)
(* policies, targets and faults.                                           *)
(***************************************************************************)
EXTENDS EscalationSweep, FiniteSetTheorems, TLAPS

evars == <<environment, escVars>>

SeenRows == [alert : Alerts, marker : Int, openedAt : Int, steps : Policies]

(* Escalations with at least one message to send *)
Escalations ==
  {e \in [alert : Alerts, step : Nat, next : Nat, targets : Nat] : e.next <= e.targets}

RowsOK ==
  /\ policy \in Policies \cup {None}
  /\ openedAt \in [Alerts -> Int]
  /\ marker \in [Alerts -> Int] /\ \A a \in Alerts : marker[a] >= -1
  /\ seen \in [Processes -> SUBSET SeenRows]
  /\ \A p \in Processes : \A row \in seen[p] : row.marker >= -1

(* A sweep holds escalations only between its COMMIT and its end *)
HeldOK ==
  /\ phase \in [Processes -> {"idle", "mark", "notify"}]
  /\ todo \in [Processes -> SUBSET Escalations]
  /\ current \in [Processes -> Escalations \cup {None}]
  /\ \A p \in Processes : phase[p] # "notify" => todo[p] = {} /\ current[p] = None

(* The inductive invariant *)
EscInv == RowsOK /\ HeldOK /\ OwedIsAccountedFor /\ now \in Int /\ deployed \subseteq Processes

-----------------------------------------------------------------------------
LEMMA EscInitInv == EscInit => EscInv
<1> SUFFICES ASSUME EscInit
             PROVE  EscInv
  OBVIOUS
<1>1. RowsOK
  BY DEF EscInit, RowsOK
<1>2. HeldOK
  BY DEF EscInit, HeldOK
<1>3. now \in Int /\ deployed \subseteq Processes /\ OwedIsAccountedFor
  BY DEF EscInit, EnvInit, OwedIsAccountedFor
<1> QED
  BY <1>1, <1>2, <1>3 DEF EscInv

(* Steps that leave the sweeps and the audit alone *)
LEMMA SweepsKept ==
  ASSUME EscInv, UNCHANGED <<sweepVars, auditVars>>
  PROVE  HeldOK' /\ OwedIsAccountedFor'
BY DEF EscInv, HeldOK, OwedIsAccountedFor, Holding, MessagesOf, Message, sweepVars, auditVars

(* What a process holds when the others' hands stay as they are *)
LEMMA OthersHold ==
  ASSUME NEW p \in Processes, NEW q \in Processes, q # p,
         todo'[q] = todo[q], current'[q] = current[q]
  PROVE  Holding(q)' = Holding(q)
BY DEF Holding

(* An escalation made of a due row has its first message to send *)
LEMMA EscalationTyped ==
  ASSUME NEW row \in SeenRows, row.marker >= -1, Due(row)
  PROVE  EscalationsOf(row) \subseteq Escalations
<1>1. /\ row.steps \in Seq([delay : Nat, targets : Nat])
      /\ \A s \in DOMAIN row.steps : row.steps[s].targets > 0
  BY EscalationAssumption DEF SeenRows
<1>2. row.marker + 2 \in DOMAIN row.steps /\ row.marker + 1 \in Nat
  BY <1>1, SMTT(40) DEF Due, SeenRows
<1>3. row.steps[row.marker + 2] \in [delay : Nat, targets : Nat]
  <2> DEFINE q == row.steps
             n == row.marker + 2
             S == [delay : Nat, targets : Nat]
  <2>1. q \in Seq(S) /\ n \in 1..Len(q)
    BY <1>1, <1>2
  <2> HIDE DEF q, n, S
  <2>2. q[n] \in S
    BY <2>1
  <2> QED
    BY <2>2 DEF q, n, S
<1>4. row.steps[row.marker + 2].targets \in Nat /\ row.steps[row.marker + 2].targets >= 1
  BY <1>1, <1>2, <1>3
<1> QED
  BY <1>2, <1>4 DEF EscalationsOf, Escalations, SeenRows

(* Sending one message leaves the others *)
LEMMA AfterTargetKeeps ==
  ASSUME NEW e \in Escalations
  PROVE  /\ AfterTarget(e) \in Escalations \cup {None}
         /\ \A x \in MessagesOf(e) :
              \/ x = Message(e.alert, e.step, e.next)
              \/ AfterTarget(e) # None /\ x \in MessagesOf(AfterTarget(e))
<1> USE DEF Escalations
<1>1. CASE e.next >= e.targets
  <2>1. AfterTarget(e) = None
    BY <1>1 DEF AfterTarget
  <2>2. \A x \in MessagesOf(e) : x = Message(e.alert, e.step, e.next)
    BY <1>1 DEF MessagesOf, Message
  <2> QED
    BY <2>1, <2>2
<1>2. CASE ~(e.next >= e.targets)
  <2> DEFINE f == [e EXCEPT !.next = @ + 1]
  <2>1. AfterTarget(e) = f
    BY <1>2 DEF AfterTarget
  <2>2. /\ f \in Escalations
        /\ f.alert = e.alert /\ f.step = e.step /\ f.targets = e.targets
        /\ f.next = e.next + 1
    BY <1>2
  <2>3. f # None
    BY <2>2, EscalationAssumption
  <2> HIDE DEF f
  <2>4. ASSUME NEW x \in MessagesOf(e)
        PROVE  x = Message(e.alert, e.step, e.next) \/ x \in MessagesOf(f)
    <3>1. PICK t \in e.next..e.targets : x = Message(e.alert, e.step, t)
      BY <2>4 DEF MessagesOf
    <3>2. t = e.next \/ t \in f.next..f.targets
      BY <2>2
    <3> QED
      BY <2>2, <3>1, <3>2 DEF MessagesOf
  <2> QED
    BY <2>1, <2>2, <2>3, <2>4
<1> QED
  BY <1>1, <1>2

LEMMA EscNextInv == EscInv /\ [EscNext]_evars => EscInv'
<1> SUFFICES ASSUME EscInv, [EscNext]_evars
             PROVE  EscInv'
  OBVIOUS
<1>0. /\ RowsOK /\ HeldOK /\ OwedIsAccountedFor /\ deployed \subseteq Processes
      /\ now \in Int /\ None \notin Escalations
  BY EscalationAssumption DEF EscInv, Escalations
<1>1. CASE Tick
  BY <1>0, <1>1, SweepsKept DEF Tick, ClockTick, escVars, alertVars, sweepVars, EscInv, RowsOK
<1>2. ASSUME NEW a \in Alerts, Open(a) \/ Acknowledge(a) \/ Resolve(a)
      PROVE  EscInv'
  <2>1. /\ UNCHANGED <<policy, marker, sweepVars, auditVars, now, deployed>>
        /\ openedAt' = openedAt \/ (openedAt' = [openedAt EXCEPT ![a] = now])
    BY <1>2 DEF Open, Acknowledge, Resolve, environment
  <2>2. CASE openedAt' = openedAt
    BY <1>0, <2>1, <2>2, SweepsKept DEF EscInv, RowsOK, sweepVars
  <2>3. CASE openedAt' = [openedAt EXCEPT ![a] = now]
    BY <1>0, <2>1, <2>3, SweepsKept DEF EscInv, RowsOK, sweepVars
  <2> QED
    BY <2>1, <2>2, <2>3
<1>3. ASSUME NEW q \in Policies \cup {None}, EditPolicy(q)
      PROVE  EscInv'
  BY <1>0, <1>3, SweepsKept DEF EditPolicy, alertVars, sweepVars, environment, EscInv, RowsOK
<1>4. ASSUME NEW p \in Processes, Select(p)
      PROVE  EscInv'
  <2> DEFINE rows == IF policy = None THEN {}
                     ELSE {[alert |-> a, marker |-> marker[a], openedAt |-> openedAt[a],
                            steps |-> policy] : a \in Selected}
  <2>1. rows \subseteq SeenRows /\ \A row \in rows : row.marker >= -1
    BY <1>0 DEF RowsOK, SeenRows, Selected
  <2>2. /\ seen' = [seen EXCEPT ![p] = rows] /\ phase' = [phase EXCEPT ![p] = "mark"]
        /\ UNCHANGED <<policy, openedAt, marker, todo, current, auditVars, now, deployed>>
    BY <1>4 DEF Select, alertVars, environment
  <2> HIDE DEF rows
  <2>3. RowsOK'
    BY <1>0, <2>1, <2>2 DEF RowsOK
  <2>4. HeldOK'
    BY <1>0, <1>4, <2>2 DEF HeldOK, Select
  <2>5. OwedIsAccountedFor'
    BY <1>0, <2>2 DEF OwedIsAccountedFor, Holding, MessagesOf, Message, auditVars
  <2> QED
    BY <1>0, <2>2, <2>3, <2>4, <2>5 DEF EscInv
<1>5. ASSUME NEW p \in Processes, Mark(p)
      PROVE  EscInv'
  <2> DEFINE due == {row \in seen[p] : Due(row)}
             new == UNION {EscalationsOf(row) : row \in due}
  <2>1. /\ phase[p] = "mark"
        /\ marker' = [a \in Alerts |->
             IF \E row \in due : row.alert = a
             THEN (CHOOSE row \in due : row.alert = a).marker + 1
             ELSE marker[a]]
        /\ owed' = owed \cup UNION {MessagesOf(e) : e \in new}
        /\ todo' = [todo EXCEPT ![p] = new]
        /\ phase' = [phase EXCEPT ![p] = "notify"]
        /\ seen' = [seen EXCEPT ![p] = {}]
        /\ UNCHANGED <<policy, openedAt, current, sent, lost, now, deployed>>
    BY <1>5 DEF Mark, environment
  <2>2. due \subseteq SeenRows /\ \A row \in due : row.marker >= -1 /\ Due(row)
    BY <1>0 DEF RowsOK
  <2>3. new \subseteq Escalations
    BY <2>2, EscalationTyped
  <2> HIDE DEF due, new
  <2>4. RowsOK'
    <3>1. ASSUME NEW a \in Alerts
          PROVE  marker'[a] \in Int /\ marker'[a] >= -1
      <4>1. CASE \E row \in due : row.alert = a
        <5>1. (CHOOSE row \in due : row.alert = a) \in due
          BY <4>1
        <5>2. /\ (CHOOSE row \in due : row.alert = a).marker \in Int
              /\ (CHOOSE row \in due : row.alert = a).marker >= -1
          BY <2>2, <5>1 DEF SeenRows
        <5> QED
          BY <2>1, <4>1, <5>2
      <4>2. CASE ~(\E row \in due : row.alert = a)
        BY <1>0, <2>1, <4>2 DEF RowsOK
      <4> QED
        BY <4>1, <4>2
    <3>2. marker' \in [Alerts -> Int]
      BY <2>1, <3>1
    <3> QED
      BY <1>0, <2>1, <3>1, <3>2 DEF RowsOK
  <2>5. HeldOK'
    BY <1>0, <2>1, <2>3 DEF HeldOK
  <2>6. Holding(p)' = UNION {MessagesOf(e) : e \in new} /\ Holding(p) = {}
    <3>1. todo'[p] = new /\ current'[p] = None /\ todo[p] = {} /\ current[p] = None
      BY <1>0, <2>1 DEF HeldOK
    <3> QED
      BY <3>1 DEF Holding
  <2>7. OwedIsAccountedFor'
    <3> SUFFICES ASSUME NEW m \in owed'
                 PROVE  m \in DOMAIN sent' \/ m \in lost' \/ \E q \in Processes : m \in Holding(q)'
      BY DEF OwedIsAccountedFor
    <3>1. CASE m \in owed
      <4>1. CASE \E q \in Processes : m \in Holding(q)
        <5>1. PICK q \in Processes : m \in Holding(q)
          BY <4>1
        <5>2. q # p
          BY <2>6, <5>1
        <5>3. Holding(q)' = Holding(q)
          BY <1>0, <2>1, <5>2, OthersHold DEF HeldOK
        <5> QED
          BY <5>1, <5>3
      <4> QED
        BY <1>0, <2>1, <3>1, <4>1 DEF OwedIsAccountedFor
    <3>2. CASE m \notin owed
      BY <2>1, <2>6, <3>2
    <3> QED
      BY <3>1, <3>2
  <2> QED
    BY <1>0, <2>1, <2>4, <2>5, <2>7 DEF EscInv
<1>6. ASSUME NEW p \in Processes, TakeUp(p)
      PROVE  EscInv'
  <2>1. PICK e \in todo[p] : /\ current' = [current EXCEPT ![p] = e]
                             /\ todo' = [todo EXCEPT ![p] = @ \ {e}]
    BY <1>6 DEF TakeUp
  <2>2. /\ phase[p] = "notify" /\ current[p] = None
        /\ UNCHANGED <<policy, openedAt, marker, seen, phase, owed, sent, lost, now, deployed>>
    BY <1>6 DEF TakeUp, alertVars, auditVars, environment
  <2>3. e \in Escalations /\ e # None
    BY <1>0, <2>1 DEF HeldOK
  <2>4. RowsOK' /\ HeldOK'
    BY <1>0, <2>1, <2>2, <2>3 DEF RowsOK, HeldOK
  <2>5. ASSUME NEW q \in Processes
        PROVE  Holding(q)' = Holding(q)
    <3>1. todo'[q] \cup ({current'[q]} \ {None}) = todo[q] \cup ({current[q]} \ {None})
      BY <1>0, <2>1, <2>2, <2>3 DEF HeldOK
    <3> QED
      BY <3>1 DEF Holding
  <2> QED
    BY <1>0, <2>2, <2>4, <2>5 DEF EscInv, OwedIsAccountedFor
<1>7. ASSUME NEW p \in Processes, Notify(p)
      PROVE  EscInv'
  <2> DEFINE e == current[p]
             m == Message(e.alert, e.step, e.next)
  <2>1. /\ phase[p] = "notify" /\ e # None
        /\ sent' = [x \in DOMAIN sent \cup {m} |->
             (IF x \in DOMAIN sent THEN sent[x] ELSE 0) + (IF x = m THEN 1 ELSE 0)]
        /\ current' = [current EXCEPT ![p] = AfterTarget(e)]
        /\ UNCHANGED <<policy, openedAt, marker, seen, phase, todo, owed, lost, now, deployed>>
    BY <1>7 DEF Notify, alertVars, environment
  <2>2. DOMAIN sent' = DOMAIN sent \cup {m}
    BY <2>1
  <2>3. e \in Escalations
    BY <1>0, <2>1 DEF HeldOK
  <2>4. /\ AfterTarget(e) \in Escalations \cup {None}
        /\ \A x \in MessagesOf(e) :
             x = m \/ (AfterTarget(e) # None /\ x \in MessagesOf(AfterTarget(e)))
    BY <2>3, AfterTargetKeeps
  <2> HIDE DEF e, m
  <2>5. RowsOK' /\ HeldOK'
    BY <1>0, <2>1, <2>4 DEF RowsOK, HeldOK
  <2>6. ASSUME NEW x \in Holding(p)
        PROVE  x = m \/ x \in Holding(p)'
    <3>1. PICK f \in todo[p] \cup ({current[p]} \ {None}) : x \in MessagesOf(f)
      BY <2>6 DEF Holding
    <3>2. CASE f \in todo[p]
      BY <2>1, <3>1, <3>2 DEF Holding
    <3>3. CASE f = current[p] /\ f # None
      <4>1. current'[p] = AfterTarget(e) /\ f = e
        BY <1>0, <2>1, <3>3 DEF HeldOK, e
      <4> QED
        BY <2>4, <3>1, <4>1 DEF Holding
    <3> QED
      BY <3>1, <3>2, <3>3
  <2>7. OwedIsAccountedFor'
    <3> SUFFICES ASSUME NEW x \in owed'
                 PROVE  x \in DOMAIN sent' \/ x \in lost' \/ \E q \in Processes : x \in Holding(q)'
      BY DEF OwedIsAccountedFor
    <3>1. CASE \E q \in Processes : x \in Holding(q)
      <4>1. PICK q \in Processes : x \in Holding(q)
        BY <3>1
      <4>2. CASE q = p
        BY <2>2, <2>6, <4>1, <4>2
      <4>3. CASE q # p
        <5>1. Holding(q)' = Holding(q)
          BY <1>0, <2>1, <4>3, OthersHold DEF HeldOK
        <5> QED
          BY <4>1, <5>1
      <4> QED
        BY <4>2, <4>3
    <3> QED
      BY <1>0, <2>1, <2>2, <3>1 DEF OwedIsAccountedFor
  <2> QED
    BY <1>0, <2>1, <2>5, <2>7 DEF EscInv
<1>8. ASSUME NEW p \in Processes, Finish(p)
      PROVE  EscInv'
  <2>1. RowsOK' /\ HeldOK'
    BY <1>0, <1>8 DEF Finish, alertVars, RowsOK, HeldOK
  <2>2. OwedIsAccountedFor'
    BY <1>0, <1>8 DEF Finish, auditVars, OwedIsAccountedFor, Holding, MessagesOf, Message
  <2> QED
    BY <1>0, <1>8, <2>1, <2>2 DEF EscInv, Finish, environment
<1>9. ASSUME NEW p \in Processes, SweepFails(p)
      PROVE  EscInv'
  <2>1. RowsOK' /\ HeldOK' /\ deployed' = deployed /\ now' = now
    BY <1>0, <1>9 DEF SweepFails, Fault, alertVars, RowsOK, HeldOK
  <2>2. OwedIsAccountedFor'
    <3> SUFFICES ASSUME NEW x \in owed'
                 PROVE  x \in DOMAIN sent' \/ x \in lost' \/ \E q \in Processes : x \in Holding(q)'
      BY DEF OwedIsAccountedFor
    <3>0. owed' = owed /\ sent' = sent /\ lost' = lost \cup Holding(p)
      BY <1>9 DEF SweepFails
    <3>1. CASE \E q \in Processes : x \in Holding(q)
      <4>1. PICK q \in Processes : x \in Holding(q)
        BY <3>1
      <4>2. CASE q = p
        BY <3>0, <4>1, <4>2
      <4>3. CASE q # p
        <5>1. Holding(q)' = Holding(q)
          BY <1>0, <1>9, <4>3, OthersHold DEF HeldOK, SweepFails
        <5> QED
          BY <4>1, <5>1
      <4> QED
        BY <4>2, <4>3
    <3> QED
      BY <1>0, <3>0, <3>1 DEF OwedIsAccountedFor
  <2> QED
    BY <1>0, <2>1, <2>2 DEF EscInv
<1>10. CASE UNCHANGED evars
  BY <1>0, <1>10, SweepsKept
     DEF evars, escVars, alertVars, sweepVars, environment, EscInv, RowsOK
<1> QED
  BY <1>0, <1>1, <1>2, <1>3, <1>4, <1>5, <1>6, <1>7, <1>8, <1>9, <1>10 DEF EscNext, Sweep

(* No message a committed mark stands for is dropped by the sweep itself:  *)
(* it went out, a running sweep holds it, or a fault is on record.         *)
THEOREM NothingOwedIsForgotten == EscSpec => []OwedIsAccountedFor
<1>1. EscInit => EscInv
  BY EscInitInv
<1>2. EscInv /\ [EscNext]_evars => EscInv'
  BY EscNextInv
<1>3. EscInv => OwedIsAccountedFor
  BY DEF EscInv
<1> QED
  BY <1>1, <1>2, <1>3, PTL DEF EscSpec, evars

-----------------------------------------------------------------------------
(* One process only: nobody marks between its SELECT and its UPDATE *)

Held(p) == todo[p] \cup ({current[p]} \ {None})

(* What the sweep read is still so when it marks *)
ReadsHold ==
  /\ \A p \in Processes \ deployed : phase[p] = "idle"
  /\ \A p \in Processes : phase[p] = "mark" =>
       \A row \in seen[p] : /\ row.marker = marker[row.alert]
                            /\ \A s \in seen[p] : s.alert = row.alert => s = row

(* An escalation in hand is of the step its alert is marked with, and what *)
(* went out of that step are the targets before its next one.              *)
HandsHold ==
  \A p \in Processes : \A e \in Held(p) :
    /\ e.step = marker[e.alert]
    /\ \A f \in Held(p) : f.alert = e.alert => f = e
    /\ \A x \in DOMAIN sent : x.alert = e.alert /\ x.step = e.step => x.target < e.next

(* Nothing went out of a step beyond the mark, and nothing twice *)
SentOK ==
  \A x \in DOMAIN sent : /\ x \in [alert : Alerts, step : Int, target : Int]
                         /\ x.step <= marker[x.alert]
                         /\ sent[x] = 1

(* The escalation a sweep is notifying is no longer among the pending ones *)
TakenUp == \A p \in Processes : current[p] \notin todo[p]

OnceInv == ReadsHold /\ HandsHold /\ SentOK /\ TakenUp

LEMMA OnlyOne ==
  ASSUME EscInv, Alone
  PROVE  \A p, q \in deployed : p = q
<1>1. IsFiniteSet(deployed) /\ Cardinality(deployed) = 1
  BY EnvironmentAssumption, FS_Subset DEF EscInv, Alone
<1>2. PICK x : deployed = {x}
  BY <1>1, FS_Singleton
<1> QED
  BY <1>2

LEMMA OnceInitInv == EscInit => OnceInv
BY DEF EscInit, OnceInv, ReadsHold, HandsHold, SentOK, TakenUp, Held

(* The rows a sweep marks *)
LEMMA MarksForward ==
  ASSUME EscInv, OnceInv, NEW p \in Processes, Mark(p)
  PROVE  /\ marker' \in [Alerts -> Int]
         /\ \A a \in Alerts : marker'[a] >= marker[a]
         /\ \A row \in seen[p] : Due(row) =>
              row.alert \in Alerts /\ row.marker = marker[row.alert] /\ marker'[row.alert] = row.marker + 1
<1>0. /\ marker \in [Alerts -> Int] /\ seen[p] \subseteq SeenRows /\ phase[p] = "mark"
      /\ \A row \in seen[p] : /\ row.marker = marker[row.alert]
                              /\ \A s \in seen[p] : s.alert = row.alert => s = row
  BY DEF EscInv, RowsOK, OnceInv, ReadsHold, Mark
<1>1. PICK due : due = {row \in seen[p] : Due(row)}
  OBVIOUS
<1>2. marker' = [a \in Alerts |-> IF \E row \in due : row.alert = a
                                  THEN (CHOOSE row \in due : row.alert = a).marker + 1
                                  ELSE marker[a]]
  BY <1>1 DEF Mark
<1>3. \A row \in due : /\ row \in seen[p] /\ Due(row) /\ row.alert \in Alerts /\ row.marker \in Int
                       /\ row.marker = marker[row.alert]
  BY <1>0, <1>1 DEF SeenRows
<1>4. ASSUME NEW row \in due
      PROVE  marker'[row.alert] = row.marker + 1
  <2>1. (CHOOSE s \in due : s.alert = row.alert) = row
    <3>1. PICK s : s = CHOOSE r \in due : r.alert = row.alert
      OBVIOUS
    <3>2. s \in due /\ s.alert = row.alert
      BY <3>1
    <3> QED
      BY <1>0, <1>3, <3>1, <3>2
  <2> QED
    BY <1>2, <1>3, <2>1
<1>5. ASSUME NEW a \in Alerts
      PROVE  marker'[a] \in Int /\ marker'[a] >= marker[a]
  <2>1. CASE \E row \in due : row.alert = a
    BY <1>0, <1>3, <1>4, <2>1
  <2>2. CASE ~\E row \in due : row.alert = a
    BY <1>0, <1>2, <2>2
  <2> QED
    BY <2>1, <2>2
<1>6. marker' \in [Alerts -> Int]
  BY <1>2, <1>5
<1> QED
  BY <1>1, <1>3, <1>4, <1>5, <1>6

LEMMA OnceNextInv == EscInv /\ Alone /\ OnceInv /\ [EscNext]_evars => OnceInv'
<1> SUFFICES ASSUME EscInv, Alone, OnceInv, [EscNext]_evars
             PROVE  OnceInv'
  OBVIOUS
<1>0. /\ ReadsHold /\ HandsHold /\ SentOK /\ TakenUp
      /\ marker \in [Alerts -> Int]
      /\ seen \in [Processes -> SUBSET SeenRows]
      /\ phase \in [Processes -> {"idle", "mark", "notify"}]
      /\ todo \in [Processes -> SUBSET Escalations]
      /\ current \in [Processes -> Escalations \cup {None}]
      /\ None \notin Escalations
      /\ \A p \in Processes : phase[p] # "notify" => todo[p] = {} /\ current[p] = None
      /\ deployed \subseteq Processes
  BY EscalationAssumption DEF EscInv, OnceInv, RowsOK, HeldOK, Escalations
<1>a. \A p, q \in deployed : p = q
  BY OnlyOne
<1>b. \A p \in Processes : \A e \in Held(p) : e \in Escalations /\ e.alert \in Alerts
                             /\ e.step \in Nat /\ e.next \in Nat /\ phase[p] = "notify"
  BY <1>0 DEF Held, Escalations
<1>1. ASSUME UNCHANGED <<deployed, phase, seen, marker, todo, current, sent>>
      PROVE  OnceInv'
  BY <1>0, <1>1 DEF OnceInv, ReadsHold, HandsHold, SentOK, TakenUp, Held
<1>2. CASE \/ Tick \/ \E a \in Alerts : Open(a) \/ Acknowledge(a) \/ Resolve(a)
           \/ \E q \in Policies \cup {None} : EditPolicy(q)
           \/ UNCHANGED evars
  BY <1>1, <1>2 DEF Tick, ClockTick, Open, Acknowledge, Resolve, EditPolicy, evars, environment, escVars,
                    alertVars, sweepVars, auditVars
<1>3. ASSUME NEW p \in deployed, Select(p)
      PROVE  OnceInv'
  <2>1. PICK rows : rows = IF policy = None THEN {}
                           ELSE {[alert |-> a, marker |-> marker[a], openedAt |-> openedAt[a],
                                  steps |-> policy] : a \in Selected}
    OBVIOUS
  <2>2. /\ UNCHANGED <<deployed, marker, todo, current, sent>>
        /\ phase' = [phase EXCEPT ![p] = "mark"] /\ seen' = [seen EXCEPT ![p] = rows]
    BY <1>3, <2>1 DEF Select, environment, alertVars, auditVars
  <2>3. \A row \in rows : /\ row.marker = marker[row.alert]
                          /\ \A s \in rows : s.alert = row.alert => s = row
    BY <2>1
  <2>4. ReadsHold'
    BY <1>0, <2>2, <2>3 DEF ReadsHold
  <2>5. HandsHold' /\ SentOK' /\ TakenUp'
    BY <1>0, <2>2 DEF HandsHold, SentOK, TakenUp, Held
  <2> QED
    BY <2>4, <2>5 DEF OnceInv
<1>4. ASSUME NEW p \in deployed, Mark(p)
      PROVE  OnceInv'
  <2>0. PICK new : new = UNION {EscalationsOf(row) : row \in {r \in seen[p] : Due(r)}}
    OBVIOUS
  <2>1. /\ UNCHANGED <<deployed, current, sent>> /\ phase[p] = "mark"
        /\ phase' = [phase EXCEPT ![p] = "notify"] /\ todo' = [todo EXCEPT ![p] = new]
    BY <1>4, <2>0 DEF Mark, environment
  <2>2. /\ marker' \in [Alerts -> Int]
        /\ \A a \in Alerts : marker'[a] >= marker[a]
        /\ \A row \in seen[p] : Due(row) =>
             row.alert \in Alerts /\ row.marker = marker[row.alert] /\ marker'[row.alert] = row.marker + 1
    BY <1>0, <1>4, MarksForward
  <2>3. \A q \in Processes : q # p => phase[q] = "idle" /\ phase'[q] = "idle" /\ Held(q)' = {}
    BY <1>0, <1>a, <2>1 DEF ReadsHold, Held
  <2>4. ReadsHold'
    BY <1>0, <2>1, <2>3 DEF ReadsHold
  <2>5. SentOK'
    BY <1>0, <2>1, <2>2 DEF SentOK
  <2>6. Held(p)' = new
    BY <1>0, <2>1 DEF Held
  <2>7. \A e \in new : \E row \in seen[p] :
          Due(row) /\ e = [alert |-> row.alert, step |-> row.marker + 1, next |-> 1,
                           targets |-> row.steps[row.marker + 2].targets]
    BY <2>0 DEF EscalationsOf
  <2>8. HandsHold'
    <3>1. SUFFICES ASSUME NEW e \in new
                   PROVE  /\ e.step = marker'[e.alert]
                          /\ \A f \in new : f.alert = e.alert => f = e
                          /\ \A x \in DOMAIN sent : x.alert = e.alert /\ x.step = e.step => x.target < e.next
      BY <2>1, <2>3, <2>6 DEF HandsHold
    <3>2. PICK row \in seen[p] :
            Due(row) /\ e = [alert |-> row.alert, step |-> row.marker + 1, next |-> 1,
                             targets |-> row.steps[row.marker + 2].targets]
      BY <2>7
    <3>3. e.alert = row.alert /\ e.step = row.marker + 1 /\ e.alert \in Alerts
      BY <2>2, <3>2
    <3>4. e.step = marker'[e.alert] /\ marker[e.alert] \in Int /\ e.step = marker[e.alert] + 1
      BY <1>0, <2>2, <3>2, <3>3
    <3>5. ASSUME NEW f \in new, f.alert = e.alert
          PROVE  f = e
      <4>1. PICK s \in seen[p] :
              Due(s) /\ f = [alert |-> s.alert, step |-> s.marker + 1, next |-> 1,
                             targets |-> s.steps[s.marker + 2].targets]
        BY <2>7
      <4>2. s = row
        BY <1>0, <2>1, <3>3, <3>5, <4>1 DEF ReadsHold
      <4> QED
        BY <3>2, <4>1, <4>2
    <3>6. \A x \in DOMAIN sent : x.alert = e.alert => x.step # e.step
      BY <1>0, <3>4 DEF SentOK
    <3> QED
      BY <3>4, <3>5, <3>6
  <2>9. TakenUp'
    <3>1. None \notin new /\ current[p] = None
      <4>1. \A row \in seen[p] : Due(row) => EscalationsOf(row) \subseteq Escalations
        <5>1. \A row \in seen[p] : row \in SeenRows /\ row.marker >= -1
          BY DEF EscInv, RowsOK
        <5> QED
          BY <5>1, EscalationTyped
      <4>2. new \subseteq Escalations
        BY <2>0, <4>1
      <4> QED
        BY <1>0, <2>1, <4>2
    <3> QED
      BY <1>0, <2>1, <3>1 DEF TakenUp
  <2> QED
    BY <2>4, <2>5, <2>8, <2>9 DEF OnceInv
<1>5. ASSUME NEW p \in deployed, TakeUp(p)
      PROVE  OnceInv'
  <2>1. PICK e \in todo[p] : current' = [current EXCEPT ![p] = e] /\ todo' = [todo EXCEPT ![p] = @ \ {e}]
    BY <1>5 DEF TakeUp
  <2>2. UNCHANGED <<deployed, phase, seen, marker, sent>> /\ current[p] = None
    BY <1>5 DEF TakeUp, environment, alertVars, auditVars
  <2>3. \A q \in Processes : Held(q)' = Held(q)
    BY <1>0, <2>1, <2>2 DEF Held
  <2>4. HandsHold'
    BY <1>0, <2>2, <2>3 DEF HandsHold
  <2>5. TakenUp'
    BY <1>0, <2>1 DEF TakenUp
  <2> QED
    BY <1>0, <2>2, <2>4, <2>5 DEF OnceInv, ReadsHold, SentOK
<1>6. ASSUME NEW p \in deployed, Notify(p)
      PROVE  OnceInv'
  <2>1. PICK e \in Escalations : e = current[p]
    BY <1>0, <1>6 DEF Notify
  <2>2. PICK m : m = Message(e.alert, e.step, e.next)
    OBVIOUS
  <2>3. /\ UNCHANGED <<deployed, phase, seen, marker, todo>> /\ phase[p] = "notify"
        /\ sent' = [x \in DOMAIN sent \cup {m} |->
             (IF x \in DOMAIN sent THEN sent[x] ELSE 0) + (IF x = m THEN 1 ELSE 0)]
        /\ current' = [current EXCEPT ![p] = AfterTarget(e)]
    BY <1>6, <2>1, <2>2 DEF Notify, environment, alertVars
  <2>4. /\ e \in Held(p) /\ e.alert \in Alerts /\ e.step \in Nat /\ e.next \in Nat
        /\ e.step = marker[e.alert]
        /\ \A f \in Held(p) : f.alert = e.alert => f = e
        /\ \A x \in DOMAIN sent : x.alert = e.alert /\ x.step = e.step => x.target < e.next
    BY <1>0, <2>1 DEF HandsHold, Held, Escalations
  <2>5. m.alert = e.alert /\ m.step = e.step /\ m.target = e.next /\ m \notin DOMAIN sent
        /\ m \in [alert : Alerts, step : Int, target : Int]
    BY <2>2, <2>4 DEF Message
  <2>6. DOMAIN sent' = DOMAIN sent \cup {m} /\ \A x \in DOMAIN sent' : sent'[x] = 1
    BY <1>0, <2>3, <2>5 DEF SentOK
  <2>7. SentOK'
    BY <1>0, <2>3, <2>4, <2>5, <2>6 DEF SentOK
  <2>8. \A f \in Held(p)' : \/ f \in Held(p) \ {e}
                            \/ f.alert = e.alert /\ f.step = e.step /\ f.next = e.next + 1
                               /\ f = AfterTarget(e)
    <3>1. current'[p] = AfterTarget(e) /\ todo'[p] = todo[p]
      BY <1>0, <2>3
    <3>2. AfterTarget(e) = None \/ (/\ AfterTarget(e).alert = e.alert /\ AfterTarget(e).step = e.step
                                    /\ AfterTarget(e).next = e.next + 1)
      BY DEF AfterTarget, Escalations
    <3>3. e \notin todo[p]
      BY <1>0, <2>1 DEF TakenUp
    <3> QED
      BY <3>1, <3>2, <3>3 DEF Held
  <2>9. HandsHold'
    <3>1. SUFFICES ASSUME NEW q \in Processes, NEW f \in Held(q)'
                   PROVE  /\ f.step = marker[f.alert]
                          /\ \A g \in Held(q)' : g.alert = f.alert => g = f
                          /\ \A x \in DOMAIN sent' : x.alert = f.alert /\ x.step = f.step => x.target < f.next
      BY <2>3 DEF HandsHold
    <3>2. q = p
      BY <1>0, <1>a, <2>3, <3>1 DEF Held, ReadsHold
    <3>3. CASE f \in Held(p) \ {e}
      <4>1. f.alert # e.alert
        BY <2>4, <3>3
      <4>2. \A g \in Held(p)' : g.alert = f.alert => g \in Held(p)
        BY <2>8, <4>1
      <4> QED
        BY <1>0, <2>5, <2>6, <3>2, <3>3, <4>1, <4>2 DEF HandsHold
    <3>4. CASE f.alert = e.alert /\ f.step = e.step /\ f.next = e.next + 1 /\ f = AfterTarget(e)
      <4>1. \A g \in Held(p)' : g.alert = f.alert => g = f
        BY <2>4, <2>8, <3>4
      <4>2. \A x \in DOMAIN sent' : x.alert = f.alert /\ x.step = f.step => x.target < f.next
        BY <1>0, <2>4, <2>5, <2>6, <3>4 DEF SentOK
      <4> QED
        BY <2>4, <3>2, <3>4, <4>1, <4>2
    <3> QED
      BY <2>8, <3>1, <3>2, <3>3, <3>4
  <2>10. TakenUp'
    <3>1. AfterTarget(e) \notin todo[p]
      <4>1. AfterTarget(e) = None \/ AfterTarget(e).alert = e.alert
        BY DEF AfterTarget, Escalations
      <4>2. \A f \in todo[p] : f # None /\ f.alert # e.alert
        BY <1>0, <2>1, <2>4 DEF TakenUp, Held
      <4> QED
        BY <4>1, <4>2
    <3> QED
      BY <1>0, <2>3, <3>1 DEF TakenUp
  <2> QED
    BY <1>0, <2>3, <2>7, <2>9, <2>10 DEF OnceInv, ReadsHold
<1>7. ASSUME NEW p \in deployed, Finish(p) \/ SweepFails(p)
      PROVE  OnceInv'
  <2>1. /\ UNCHANGED <<deployed, marker, sent>> /\ phase' = [phase EXCEPT ![p] = "idle"]
        /\ \A q \in Processes : Held(q)' \subseteq Held(q) /\ seen'[q] \subseteq seen[q]
    BY <1>0, <1>7 DEF Finish, SweepFails, Fault, environment, alertVars, auditVars, Held
  <2>2. ReadsHold'
    BY <1>0, <2>1 DEF ReadsHold
  <2>3. HandsHold' /\ SentOK'
    BY <1>0, <2>1 DEF HandsHold, SentOK
  <2>4. TakenUp'
    BY <1>0, <1>7 DEF TakenUp, Finish, SweepFails
  <2> QED
    BY <2>2, <2>3, <2>4 DEF OnceInv
<1> QED
  BY <1>2, <1>3, <1>4, <1>5, <1>6, <1>7 DEF EscNext, Sweep

LEMMA OnceInOrder == EscInv /\ OnceInv => EscalatesOnceInOrder
<1> SUFFICES ASSUME EscInv, OnceInv
             PROVE  EscalatesOnceInOrder
  OBVIOUS
<1>1. FiresOnce
  BY DEF OnceInv, SentOK, FiresOnce
<1>2. EscalatesInOrder
  <2>1. SUFFICES ASSUME NEW p \in Processes, NEW m \in Holding(p), NEW x \in DOMAIN sent, x.alert = m.alert
                 PROVE  x.step <= m.step
    BY DEF EscalatesInOrder
  <2>2. PICK e \in Held(p) : m \in MessagesOf(e)
    BY DEF Holding, Held
  <2>3. m.alert = e.alert /\ m.step = e.step
    BY <2>2 DEF MessagesOf, Message
  <2> QED
    BY <2>1, <2>2, <2>3 DEF OnceInv, HandsHold, SentOK
<1> QED
  BY <1>1, <1>2 DEF EscalatesOnceInOrder

(* "makes a step fire exactly once": where one process sweeps, no message  *)
(* of an alert goes out twice and none of a step after one of a later      *)
(* step, through failing sweeps and edits of the policy.                   *)
THEOREM FiresOnceInOrder == EscSpec /\ []Alone => []EscalatesOnceInOrder
<1>1. EscInit => EscInv /\ OnceInv
  BY EscInitInv, OnceInitInv
<1>2. (EscInv /\ OnceInv) /\ Alone /\ [EscNext]_evars => (EscInv /\ OnceInv)'
  BY EscNextInv, OnceNextInv
<1>3. EscInv /\ OnceInv => EscalatesOnceInOrder
  BY OnceInOrder
<1> QED
  BY <1>1, <1>2, <1>3, PTL DEF EscSpec, evars

(* Where one process sweeps, last_escalated_step never goes back, whatever *)
(* happens to the alert and its policy between the SELECT and the UPDATE.  *)
THEOREM MarkerForward == EscSpec /\ []Alone => MarkerNeverReturns
<1>1. EscInit => EscInv /\ OnceInv
  BY EscInitInv, OnceInitInv
<1>2. (EscInv /\ OnceInv) /\ Alone /\ [EscNext]_evars => (EscInv /\ OnceInv)'
  BY EscNextInv, OnceNextInv
<1>3. EscInv /\ OnceInv /\ [EscNext]_evars => [\A a \in Alerts : marker'[a] >= marker[a]]_escVars
  <2> SUFFICES ASSUME EscInv, OnceInv, [EscNext]_evars
               PROVE  UNCHANGED escVars \/ \A a \in Alerts : marker'[a] >= marker[a]
    OBVIOUS
  <2>1. \A a \in Alerts : marker[a] \in Int
    BY DEF EscInv, RowsOK
  <2>2. CASE \E p \in deployed : Mark(p)
    BY <2>2, MarksForward DEF EscInv
  <2>3. CASE UNCHANGED marker
    BY <2>1, <2>3
  <2>4. UNCHANGED marker \/ \E p \in deployed : Mark(p)
    BY DEF EscNext, Sweep, Tick, ClockTick, Open, Acknowledge, Resolve, EditPolicy, Select, TakeUp, Notify,
           Finish, SweepFails, evars, environment, escVars, alertVars
  <2> QED
    BY <2>2, <2>3, <2>4
<1> QED
  BY <1>1, <1>2, <1>3, PTL DEF EscSpec, MarkerNeverReturns, evars


=============================================================================
