---------------------------- MODULE TicketProofs ----------------------------
(***************************************************************************)
(* What TicketCreation keeps for any number of requests, imports, agents,  *)
(* edits and faults: the counter's row lock makes ticket numbers dense,    *)
(* the cap firm and the turns fair.  And what Conversation keeps of the    *)
(* messages for any number of tickets, overlapping merges and replies,     *)
(* watchers and faults.                                                    *)
(***************************************************************************)
EXTENDS TicketCreation, Conversation, FiniteSetTheorems, WellFoundedInduction, TLAPS

-----------------------------------------------------------------------------
(* TicketCreation: numbers and assignment *)

cvars == <<environment, crVars>>

Locked == {"import", "pick", "agents", "choose", "insert"}

(* How far a transaction is says what it has read and what it has written. *)
JobsOK ==
  \A c \in Jobs :
    /\ jobStage[c] # "done" => rows[c] = None
    /\ jobStage[c] \in {"agents", "choose", "insert"} <=> jobStrategy[c] # None
    /\ jobStage[c] = "choose" => jobStaff[c] # {}
    /\ jobStage[c] # "insert" => jobAgent[c] = None

(* The number a transaction has taken is the next one until it ends. *)
Numbering ==
  /\ nextValue = IF Created = {} THEN 0 ELSE Cardinality(Created) + 1
  /\ {rows[c].number : c \in Created} = 1..Cardinality(Created)
  /\ \A c \in Jobs : counterLock = c => jobNumber[c] = Cardinality(Created) + 1

ByLoad == {"load_based", "skill_based"}

Given(a) == {c \in Created : rows[c].agent = a /\ rows[c].open /\ rows[c].how \in ByLoad}

(* The agent a transaction has chosen by load still has room for a ticket. *)
Loading ==
  GroupCap # None =>
    /\ \A a \in Agents : Cardinality(Given(a)) <= GroupCap
    /\ \A c \in Jobs : /\ jobStage[c] = "insert" /\ jobStrategy[c] \in ByLoad
                       /\ jobAgent[c] # None
                       => Cardinality(Given(jobAgent[c])) < GroupCap

Turns(a) == {c \in Created : rows[c].turn = a}

(* The agents up to the cursor have had one turn more than those after it. *)
Even(k) ==
  \A a \in Agents : Cardinality(Turns(a)) = IF cursor # None /\ a <= cursor THEN k + 1 ELSE k

Turning ==
  ~staffMoved =>
    /\ staff = Agents
    /\ \A c \in Jobs : jobStrategy[c] = "round_robin" =>
         /\ jobStage[c] = "choose" => jobStaff[c] = Agents
         /\ jobStage[c] = "insert" =>
              IF Agents = {} THEN jobAgent[c] = None
                             ELSE jobAgent[c] = NextInTurn(Agents)
    /\ \E k \in Nat : Even(k)

-----------------------------------------------------------------------------
Less == {z \in Nat \X Nat : z[1] < z[2]}

(* The lowest id: what ORDER BY id ... LIMIT 1 finds *)
LEMMA MinIsLeast ==
  ASSUME NEW S \in SUBSET Nat, S # {}
  PROVE  Min(S) \in S /\ \A k \in S : Min(S) <= k
<1>1. IsWellFoundedOn(Less, Nat)
  BY NatLessThanWellFounded DEF OpToRel, Less
<1>2. PICK m \in S : \A k \in S : ~(<<k, m>> \in Less)
  BY <1>1, WFMin
<1>3. ASSUME NEW k \in S
      PROVE  m <= k
  <2>1. k \in Nat /\ m \in Nat /\ ~(<<k, m>> \in Less)
    BY <1>2
  <2> QED
    BY <2>1 DEF Less
<1> QED
  BY <1>3 DEF Min

LEMMA NullIsNoAgent == None \notin Agents /\ \A a \in Agents : a \in Nat /\ a # None
<1>1. Agents \subseteq Nat
  BY CreationAssumption
<1>2. \A a \in Nat : a \in Int
  OBVIOUS
<1>3. None \notin Int
  BY EnvironmentAssumption
<1> QED
  BY <1>1, <1>2, <1>3

LEMMA CountsAreNumbers ==
  /\ IsFiniteSet(Created) /\ Cardinality(Created) \in Nat
  /\ \A a : OpenCount(a) \in Nat
<1>1. IsFiniteSet(Created)
  BY CreationAssumption, FS_Subset DEF Created, Jobs
<1>2. ASSUME NEW a
      PROVE  OpenCount(a) \in Nat
  <2> DEFINE T == {c \in Created : rows[c].agent = a /\ rows[c].open}
  <2>1. T \in SUBSET Created
    OBVIOUS
  <2>2. IsFiniteSet(T)
    BY <1>1, <2>1, FS_Subset
  <2> QED
    BY <2>2, FS_CardinalityType DEF OpenCount
<1> QED
  BY <1>1, <1>2, FS_CardinalityType

LEMMA LeastLoadedType ==
  ASSUME NEW S \in SUBSET Agents
  PROVE  /\ LeastLoaded(S) \in Agents \cup {None}
         /\ GroupCap # None /\ LeastLoaded(S) # None => OpenCount(LeastLoaded(S)) < GroupCap
<1> DEFINE free == {a \in S : GroupCap = None \/ OpenCount(a) < GroupCap}
           least == {a \in free : \A b \in free : OpenCount(a) <= OpenCount(b)}
<1>1. CASE free = {}
  BY <1>1 DEF LeastLoaded
<1>2. CASE free # {}
  <2>1. \A a \in free : a \in Agents /\ OpenCount(a) \in Nat
    BY CountsAreNumbers
  <2> DEFINE C == {OpenCount(a) : a \in free}
  <2>2. C \in SUBSET Nat /\ C # {}
    BY <1>2, <2>1
  <2>3. Min(C) \in C /\ \A k \in C : Min(C) <= k
    BY <2>2, MinIsLeast
  <2>4. least # {} /\ least \in SUBSET Nat
    <3>1. PICK a \in free : OpenCount(a) = Min(C)
      BY <2>3
    <3>2. \A b \in free : OpenCount(b) \in C
      OBVIOUS
    <3>3. a \in least
      BY <2>3, <3>1, <3>2
    <3> QED
      BY <2>1, <3>3, CreationAssumption
  <2>5. Min(least) \in least
    BY <2>4, MinIsLeast
  <2>6. LeastLoaded(S) = Min(least)
    BY <1>2 DEF LeastLoaded
  <2> QED
    BY <2>1, <2>5, <2>6
<1> QED
  BY <1>1, <1>2

LEMMA NextInTurnType ==
  ASSUME NEW S \in SUBSET Agents, S # {}
  PROVE  NextInTurn(S) \in S
<1> DEFINE later == {a \in S : cursor \in S /\ a > cursor}
<1>1. S \in SUBSET Nat /\ later \in SUBSET Nat
  BY CreationAssumption
<1>2. Min(S) \in S /\ (later # {} => Min(later) \in later)
  BY <1>1, MinIsLeast
<1> QED
  BY <1>2 DEF NextInTurn

-----------------------------------------------------------------------------
LEMMA CrInitOK == CrInit => CrTypeOK /\ JobsOK
<1> SUFFICES ASSUME CrInit
             PROVE  CrTypeOK /\ JobsOK
  OBVIOUS
<1>1. EnvTypeOK
  BY EnvironmentAssumption DEF CrInit, EnvInit, EnvTypeOK, Times
<1>2. CounterSerialises
  BY CreationAssumption DEF CrInit, CounterSerialises, Jobs
<1>3. JobsOK
  BY DEF CrInit, JobsOK
<1> QED
  <2>1. staffEdits \in 0..MaxStaffEdits /\ nextValue \in Nat /\ jobNumber \in [Jobs -> Nat]
    BY CreationAssumption DEF CrInit
  <2>2. /\ rows \in [Jobs -> TicketRows \cup {None}]
        /\ jobStrategy \in [Jobs -> Strategies \cup {None}]
        /\ jobStaff \in [Jobs -> SUBSET Agents] /\ jobAgent \in [Jobs -> Agents \cup {None}]
        /\ jobStage \in [Jobs -> JobStages]
    BY DEF CrInit, JobStages
  <2> QED
    BY <1>1, <1>2, <1>3, <2>1, <2>2 DEF CrInit, CrTypeOK

LEMMA EnvironmentKept == ASSUME EnvTypeOK, UNCHANGED environment PROVE EnvTypeOK'
BY DEF EnvTypeOK, environment, Times

LEMMA FaultTyped == ASSUME EnvTypeOK, Fault PROVE EnvTypeOK' /\ faults' = faults + 1
BY EnvironmentAssumption DEF EnvTypeOK, Fault, Times

(* Two transactions are never past the counter at once. *)
LEMMA OneLocked ==
  ASSUME CrTypeOK, NEW c \in Jobs, jobStage[c] \in Locked
  PROVE  counterLock = c /\ \A d \in Jobs : d # c => jobStage[d] \notin Locked
BY DEF CrTypeOK, CounterSerialises, Locked

(* A statement of the transaction that has the counter: it keeps the       *)
(* counter's row, or ends.                                                 *)
LEMMA LockKept ==
  ASSUME CrTypeOK, NEW c \in Jobs, jobStage[c] \in Locked, NEW stage \in Locked,
         jobStage' = [jobStage EXCEPT ![c] = stage], counterLock' = counterLock
  PROVE  CounterSerialises' /\ jobStage' \in [Jobs -> JobStages]
BY DEF CrTypeOK, CounterSerialises, Locked, JobStages

LEMMA LockReleased ==
  ASSUME CrTypeOK, NEW c \in Jobs, jobStage[c] \in Locked,
         jobStage' = [jobStage EXCEPT ![c] = "done"], counterLock' = None
  PROVE  CounterSerialises' /\ jobStage' \in [Jobs -> JobStages]
<1>1. c # None /\ \A d \in Jobs : d # None
  BY CreationAssumption DEF Jobs
<1>2. counterLock = c
  BY OneLocked
<1> QED
  BY <1>1, <1>2 DEF CrTypeOK, CounterSerialises, Locked, JobStages

(* The end of a transaction leaves it with nothing. *)
LEMMA EndJobOK ==
  ASSUME CrTypeOK, JobsOK, NEW c \in Jobs, EndJob(c), jobStage[c] \in Locked,
         counterLock' = None, \A d \in Jobs : d # c => rows'[d] = rows[d]
  PROVE  /\ CounterSerialises' /\ JobsOK' /\ jobStage' \in [Jobs -> JobStages]
         /\ jobNumber' \in [Jobs -> Nat]
         /\ jobStrategy' \in [Jobs -> Strategies \cup {None}]
         /\ jobStaff' \in [Jobs -> SUBSET Agents]
         /\ jobAgent' \in [Jobs -> Agents \cup {None}]
<1>1. CounterSerialises' /\ jobStage' \in [Jobs -> JobStages]
  BY LockReleased DEF EndJob
<1>2. /\ jobNumber' \in [Jobs -> Nat]
      /\ jobStrategy' \in [Jobs -> Strategies \cup {None}]
      /\ jobStaff' \in [Jobs -> SUBSET Agents]
      /\ jobAgent' \in [Jobs -> Agents \cup {None}]
  BY DEF EndJob, CrTypeOK
<1>3. JobsOK'
  <2> SUFFICES ASSUME NEW d \in Jobs
               PROVE  /\ jobStage'[d] # "done" => rows'[d] = None
                      /\ jobStage'[d] \in {"agents", "choose", "insert"} <=> jobStrategy'[d] # None
                      /\ jobStage'[d] = "choose" => jobStaff'[d] # {}
                      /\ jobStage'[d] # "insert" => jobAgent'[d] = None
    BY DEF JobsOK
  <2>1. CASE d = c
    BY <2>1 DEF EndJob, CrTypeOK
  <2>2. CASE d # c
    <3>1. /\ jobStage'[d] = jobStage[d] /\ jobStrategy'[d] = jobStrategy[d]
          /\ jobStaff'[d] = jobStaff[d] /\ jobAgent'[d] = jobAgent[d] /\ rows'[d] = rows[d]
      BY <2>2 DEF EndJob, CrTypeOK
    <3> QED
      BY <3>1 DEF JobsOK
  <2> QED
    BY <2>1, <2>2
<1> QED
  BY <1>1, <1>2, <1>3

LEMMA TicketRowType ==
  ASSUME CrTypeOK, NEW c \in Jobs, NEW a \in Agents \cup {None}, NEW open \in BOOLEAN,
         NEW how \in Hows
  PROVE  TicketRow(c, a, open, how) \in TicketRows
BY DEF CrTypeOK, TicketRow, TicketRows

LEMMA RowsTyped ==
  ASSUME CrTypeOK, NEW c \in Jobs, NEW x \in TicketRows, rows' = [rows EXCEPT ![c] = x]
  PROVE  /\ rows' \in [Jobs -> TicketRows \cup {None}]
         /\ rows'[c] = x /\ \A d \in Jobs : d # c => rows'[d] = rows[d]
BY DEF CrTypeOK

LEMMA CommittedRow ==
  ASSUME CrTypeOK, JobsOK, NEW c \in Jobs, CommitCreate(c) \/ CommitImport(c)
  PROVE  \E x \in TicketRows : rows' = [rows EXCEPT ![c] = x]
<1>1. CASE CommitCreate(c)
  <2>1. jobStrategy[c] \in Hows /\ "rule" \in Hows /\ jobAgent[c] \in Agents \cup {None}
    BY <1>1 DEF CommitCreate, JobsOK, Hows, CrTypeOK
  <2>2. /\ TicketRow(c, jobAgent[c], TRUE, jobStrategy[c]) \in TicketRows
        /\ \A a \in Agents : TicketRow(c, a, TRUE, "rule") \in TicketRows
    BY <2>1, TicketRowType
  <2> QED
    BY <1>1, <2>2 DEF CommitCreate
<1>2. CASE CommitImport(c)
  <2>1. \A a \in Agents \cup {None}, open \in BOOLEAN :
          TicketRow(c, a, open, "import") \in TicketRows
    BY TicketRowType DEF Hows
  <2> QED
    BY <1>2, <2>1 DEF CommitImport
<1> QED
  BY <1>1, <1>2

(* What an agent's edit leaves of a ticket: x *)
LEMMA EditedRow ==
  ASSUME rows \in [Jobs -> TicketRows \cup {None}], NEW c \in Jobs, EditTicket(c),
         rows[c] \in TicketRows
  PROVE  \E x \in TicketRows :
           /\ rows' = [rows EXCEPT ![c] = x]
           /\ x.number = rows[c].number /\ x.turn = rows[c].turn
           /\ \/ x.agent = rows[c].agent /\ x.how = rows[c].how /\ x.open = FALSE
              \/ x.how = "edit"
<1>1. CASE rows' = [rows EXCEPT ![c].open = FALSE]
  <2> DEFINE x == [rows[c] EXCEPT !.open = FALSE]
  <2>1. /\ x \in TicketRows /\ x.number = rows[c].number /\ x.turn = rows[c].turn
        /\ x.agent = rows[c].agent /\ x.how = rows[c].how /\ x.open = FALSE
    BY DEF TicketRows
  <2>2. rows' = [rows EXCEPT ![c] = x]
    BY <1>1
  <2> HIDE DEF x
  <2> QED
    BY <2>1, <2>2
<1>2. ASSUME NEW a \in Agents,
             rows' = [rows EXCEPT ![c].open = TRUE, ![c].agent = a, ![c].how = "edit"]
      PROVE  \E x \in TicketRows :
               /\ rows' = [rows EXCEPT ![c] = x]
               /\ x.number = rows[c].number /\ x.turn = rows[c].turn /\ x.how = "edit"
  <2> DEFINE x == [[[rows[c] EXCEPT !.open = TRUE] EXCEPT !.agent = a] EXCEPT !.how = "edit"]
  <2>1. /\ x \in TicketRows /\ x.number = rows[c].number /\ x.turn = rows[c].turn
        /\ x.how = "edit"
    BY DEF TicketRows, Hows
  <2>2. rows' = [rows EXCEPT ![c] = x]
    BY <1>2
  <2> HIDE DEF x
  <2> QED
    BY <2>1, <2>2
<1> QED
  BY <1>1, <1>2 DEF EditTicket

LEMMA CrNextOK == CrTypeOK /\ JobsOK /\ [CrNext]_cvars => CrTypeOK' /\ JobsOK'
<1> SUFFICES ASSUME CrTypeOK, JobsOK, [CrNext]_cvars
             PROVE  CrTypeOK' /\ JobsOK'
  OBVIOUS
<1>0. /\ EnvTypeOK /\ rows \in [Jobs -> TicketRows \cup {None}]
      /\ jobStage \in [Jobs -> JobStages] /\ jobStaff \in [Jobs -> SUBSET Agents]
      /\ jobStrategy \in [Jobs -> Strategies \cup {None}]
      /\ jobAgent \in [Jobs -> Agents \cup {None}] /\ jobNumber \in [Jobs -> Nat]
      /\ nextValue \in Nat /\ CounterSerialises
      /\ \A c \in Jobs : c # None
  BY CreationAssumption DEF CrTypeOK, Jobs
<1>1. ASSUME NEW c \in Jobs, ImportCheck(c)
      PROVE  CrTypeOK' /\ JobsOK'
  <2>1. PICK stage \in {"done", "number"} : jobStage' = [jobStage EXCEPT ![c] = stage]
    BY <1>1 DEF ImportCheck
  <2>2. /\ UNCHANGED <<environment, crWorld, nextValue, counterLock, cursor, rows,
                       jobNumber, jobStrategy, jobStaff, jobAgent>>
        /\ jobStage[c] = "begin"
    BY <1>1 DEF ImportCheck
  <2>3. jobStage' \in [Jobs -> JobStages] /\ CounterSerialises'
    BY <1>0, <2>1, <2>2 DEF JobStages, CounterSerialises
  <2>4. JobsOK'
    BY <1>0, <2>1, <2>2 DEF JobsOK
  <2> QED
    BY <2>2, <2>3, <2>4, EnvironmentKept DEF CrTypeOK, crWorld
<1>2. ASSUME NEW c \in Jobs, TakeNumber(c)
      PROVE  CrTypeOK' /\ JobsOK'
  <2>1. PICK stage \in {"import", "pick"} : jobStage' = [jobStage EXCEPT ![c] = stage]
    BY <1>2 DEF TakeNumber
  <2>2. /\ UNCHANGED <<environment, crWorld, nextValue, cursor, rows,
                       jobStrategy, jobStaff, jobAgent>>
        /\ counterLock = None /\ counterLock' = c
        /\ jobStage[c] \in {"begin", "number"}
    BY <1>2 DEF TakeNumber
  <2>3. jobStage' \in [Jobs -> JobStages] /\ CounterSerialises'
    BY <1>0, <2>1, <2>2 DEF JobStages, CounterSerialises
  <2>4. jobNumber' \in [Jobs -> Nat]
    BY <1>0, <1>2 DEF TakeNumber
  <2>5. JobsOK'
    BY <1>0, <2>1, <2>2 DEF JobsOK
  <2> QED
    BY <2>2, <2>3, <2>4, <2>5, EnvironmentKept DEF CrTypeOK, crWorld
<1>3. ASSUME NEW c \in Jobs, PickNobody(c)
      PROVE  CrTypeOK' /\ JobsOK'
  <2>1. PICK a \in Agents \cup {None} : jobAgent' = [jobAgent EXCEPT ![c] = a]
    <3>1. jobAgent = [jobAgent EXCEPT ![c] = jobAgent[c]] /\ jobAgent[c] \in Agents \cup {None}
      BY <1>0
    <3> QED
      BY <1>3, <3>1 DEF PickNobody
  <2>2. /\ UNCHANGED <<environment, crWorld, nextValue, counterLock, cursor, rows,
                       jobNumber, jobStaff>>
        /\ jobStage[c] = "pick" /\ jobStage' = [jobStage EXCEPT ![c] = "insert"]
        /\ jobStrategy' = [jobStrategy EXCEPT ![c] = "manual"]
    BY <1>3 DEF PickNobody
  <2>3. CounterSerialises' /\ jobStage' \in [Jobs -> JobStages]
    BY <2>2, LockKept DEF Locked
  <2>4. "manual" \in Strategies /\ "manual" # None
    BY NullIsNoName DEF Strategies
  <2>5. JobsOK'
    BY <1>0, <2>1, <2>2, <2>4 DEF JobsOK
  <2> QED
    BY <1>0, <2>1, <2>2, <2>3, <2>4, <2>5, EnvironmentKept DEF CrTypeOK, crWorld
<1>4. ASSUME NEW c \in Jobs, LoadGroupConfig(c)
      PROVE  CrTypeOK' /\ JobsOK'
  <2>1. /\ UNCHANGED <<environment, crWorld, nextValue, counterLock, cursor, rows,
                       jobNumber, jobStaff, jobAgent>>
        /\ jobStage[c] = "pick" /\ jobStage' = [jobStage EXCEPT ![c] = "agents"]
        /\ jobStrategy' = [jobStrategy EXCEPT ![c] = strategy]
    BY <1>4 DEF LoadGroupConfig
  <2>2. CounterSerialises' /\ jobStage' \in [Jobs -> JobStages]
    BY <2>1, LockKept DEF Locked
  <2>3. strategy \in Strategies /\ strategy # None
    BY NullIsNoName DEF CrTypeOK
  <2>4. JobsOK'
    BY <1>0, <2>1, <2>3 DEF JobsOK
  <2> QED
    BY <1>0, <2>1, <2>2, <2>3, <2>4, EnvironmentKept DEF CrTypeOK, crWorld
<1>5. ASSUME NEW c \in Jobs, ActiveGroupAgents(c)
      PROVE  CrTypeOK' /\ JobsOK'
  <2>1. PICK eligible \in SUBSET staff :
          /\ jobStaff' = [jobStaff EXCEPT ![c] = eligible]
          /\ jobStage' = [jobStage EXCEPT ![c] = IF eligible = {} THEN "insert" ELSE "choose"]
    BY <1>5 DEF ActiveGroupAgents
  <2>2. /\ UNCHANGED <<environment, crWorld, nextValue, counterLock, cursor, rows,
                       jobNumber, jobStrategy, jobAgent>>
        /\ jobStage[c] = "agents"
    BY <1>5 DEF ActiveGroupAgents
  <2>3. CounterSerialises' /\ jobStage' \in [Jobs -> JobStages]
    BY <2>1, <2>2, LockKept DEF Locked
  <2>4. jobStaff' \in [Jobs -> SUBSET Agents]
    BY <1>0, <2>1 DEF CrTypeOK
  <2>5. JobsOK'
    BY <1>0, <2>1, <2>2 DEF JobsOK
  <2> QED
    BY <2>2, <2>3, <2>4, <2>5, EnvironmentKept DEF CrTypeOK, crWorld
<1>6. ASSUME NEW c \in Jobs, ChooseByLoad(c) \/ ChooseInTurn(c)
      PROVE  CrTypeOK' /\ JobsOK'
  <2>1. /\ UNCHANGED <<environment, crWorld, nextValue, counterLock, cursor, rows,
                       jobNumber, jobStrategy, jobStaff>>
        /\ jobStage[c] = "choose" /\ jobStage' = [jobStage EXCEPT ![c] = "insert"]
    BY <1>6 DEF ChooseByLoad, ChooseInTurn
  <2>2. jobStaff[c] \in SUBSET Agents /\ jobStaff[c] # {}
    BY <1>0, <2>1 DEF JobsOK
  <2>3. PICK a \in Agents \cup {None} : jobAgent' = [jobAgent EXCEPT ![c] = a]
    BY <1>6, <2>2, LeastLoadedType, NextInTurnType DEF ChooseByLoad, ChooseInTurn
  <2>4. CounterSerialises' /\ jobStage' \in [Jobs -> JobStages]
    BY <2>1, LockKept DEF Locked
  <2>5. JobsOK'
    BY <1>0, <2>1, <2>3 DEF JobsOK
  <2> QED
    BY <1>0, <2>1, <2>3, <2>4, <2>5, EnvironmentKept DEF CrTypeOK, crWorld
<1>7. ASSUME NEW c \in Jobs, CommitCreate(c) \/ CommitImport(c)
      PROVE  CrTypeOK' /\ JobsOK'
  <2>1. /\ UNCHANGED <<environment, crWorld>> /\ EndJob(c) /\ counterLock' = None
        /\ nextValue' = jobNumber[c] + 1 /\ jobStage[c] \in Locked
        /\ cursor' = cursor \/ cursor' = CursorWritten(c)
    BY <1>7 DEF CommitCreate, CommitImport, Locked
  <2>2. PICK x \in TicketRows : rows' = [rows EXCEPT ![c] = x]
    BY <1>7, CommittedRow
  <2>3. /\ rows' \in [Jobs -> TicketRows \cup {None}]
        /\ \A d \in Jobs : d # c => rows'[d] = rows[d]
    BY <2>2, RowsTyped
  <2>4. nextValue' \in Nat /\ cursor' \in Agents \cup {None}
    BY <1>0, <2>1 DEF CursorWritten, CrTypeOK
  <2>5. /\ CounterSerialises' /\ JobsOK' /\ jobStage' \in [Jobs -> JobStages]
        /\ jobNumber' \in [Jobs -> Nat]
        /\ jobStrategy' \in [Jobs -> Strategies \cup {None}]
        /\ jobStaff' \in [Jobs -> SUBSET Agents]
        /\ jobAgent' \in [Jobs -> Agents \cup {None}]
    BY <2>1, <2>3, EndJobOK
  <2> QED
    BY <2>1, <2>3, <2>4, <2>5, EnvironmentKept DEF CrTypeOK, crWorld
<1>8. ASSUME NEW c \in Jobs, Rollback(c)
      PROVE  CrTypeOK' /\ JobsOK'
  <2>1. /\ UNCHANGED <<crWorld, nextValue, cursor, rows>> /\ EndJob(c) /\ counterLock' = None
        /\ jobStage[c] \in Locked
    BY <1>0, <1>8 DEF Rollback, CounterSerialises, Locked
  <2>2. EnvTypeOK'
    BY <1>0, <1>8, FaultTyped DEF Rollback
  <2>3. /\ CounterSerialises' /\ JobsOK' /\ jobStage' \in [Jobs -> JobStages]
        /\ jobNumber' \in [Jobs -> Nat]
        /\ jobStrategy' \in [Jobs -> Strategies \cup {None}]
        /\ jobStaff' \in [Jobs -> SUBSET Agents]
        /\ jobAgent' \in [Jobs -> Agents \cup {None}]
    BY <2>1, EndJobOK
  <2> QED
    BY <2>1, <2>2, <2>3 DEF CrTypeOK, crWorld
<1>9. ASSUME StaffEdit, UNCHANGED rows,
             strategy' \in Strategies, staff' \subseteq Agents, staffMoved' \in BOOLEAN
      PROVE  CrTypeOK' /\ JobsOK'
  <2>1. /\ UNCHANGED <<environment, nextValue, counterLock, cursor, crJobVars>>
        /\ staffEdits' \in 0..MaxStaffEdits
    BY <1>9, CreationAssumption DEF StaffEdit, CrTypeOK
  <2> QED
    BY <1>9, <2>1, EnvironmentKept DEF CrTypeOK, crJobVars, CounterSerialises, JobsOK
<1>10. ASSUME EditGroup \/ \E a \in Agents : EditAgent(a)
       PROVE  CrTypeOK' /\ JobsOK'
  <2>1. /\ StaffEdit /\ UNCHANGED rows
        /\ strategy' \in Strategies /\ staff' \subseteq Agents
    BY <1>10 DEF EditGroup, EditAgent, CrTypeOK
  <2>2. staffMoved' = staffMoved \/ staffMoved' = TRUE
    BY <1>10 DEF EditGroup, EditAgent
  <2>3. staffMoved \in BOOLEAN
    BY DEF CrTypeOK
  <2> QED
    BY <1>9, <2>1, <2>2, <2>3
<1>11. ASSUME NEW c \in Jobs, EditTicket(c)
       PROVE  CrTypeOK' /\ JobsOK'
  <2>1. rows[c] \in TicketRows
    BY <1>0, <1>11 DEF EditTicket
  <2>2. PICK x \in TicketRows : rows' = [rows EXCEPT ![c] = x]
    BY <1>0, <1>11, <2>1, EditedRow
  <2>3. /\ rows' \in [Jobs -> TicketRows \cup {None}] /\ rows[c] # None
        /\ \A d \in Jobs : d # c => rows'[d] = rows[d]
    BY <1>11, <2>2, RowsTyped DEF EditTicket
  <2>4. /\ UNCHANGED <<environment, nextValue, counterLock, cursor, crJobVars, strategy, staff,
                       staffMoved>>
        /\ staffEdits' \in 0..MaxStaffEdits
    <3>1. StaffEdit /\ UNCHANGED <<strategy, staff, staffMoved>>
      BY <1>11 DEF EditTicket
    <3> QED
      BY <3>1, CreationAssumption DEF StaffEdit, CrTypeOK
  <2>5. JobsOK'
    <3>1. UNCHANGED <<jobStage, jobStrategy, jobStaff, jobAgent>>
      BY <2>4 DEF crJobVars
    <3>2. \A d \in Jobs : jobStage[d] # "done" => rows'[d] = None
      BY <2>3 DEF JobsOK
    <3> QED
      BY <3>1, <3>2 DEF JobsOK
  <2> QED
    BY <2>3, <2>4, <2>5, EnvironmentKept DEF CrTypeOK, crJobVars, CounterSerialises
<1>12. CASE UNCHANGED cvars
  BY <1>12, EnvironmentKept
     DEF cvars, crVars, crWorld, crJobVars, CrTypeOK, JobsOK, CounterSerialises
<1> QED
  BY <1>1, <1>2, <1>3, <1>4, <1>5, <1>6, <1>7, <1>8, <1>10, <1>11, <1>12 DEF CrNext

(* Every variable of TicketCreation keeps its type, and the transactions   *)
(* that are past the upsert of ticket_number_counters hold its row one at  *)
(* a time.                                                                 *)
THEOREM CrTypeCorrect == CrSpec => []CrTypeOK
BY CrInitOK, CrNextOK, PTL DEF CrSpec, cvars

LEMMA JobsInvariant == CrSpec => [](CrTypeOK /\ JobsOK)
BY CrInitOK, CrNextOK, PTL DEF CrSpec, cvars

-----------------------------------------------------------------------------
(* How a step may change the committed tickets: none, one more, or an edit *)
(* of one.                                                                 *)
Adds(c) ==
  /\ CommitCreate(c) \/ CommitImport(c)
  /\ rows[c] = None /\ c \notin Created /\ Created' = Created \cup {c}
  /\ \A d \in Jobs : d # c => rows'[d] = rows[d]
  /\ rows'[c] \in TicketRows /\ rows'[c].number = jobNumber[c]
  /\ rows'[c].turn = IF jobStrategy[c] = "round_robin" THEN jobAgent[c] ELSE None
  /\ rows'[c].how \in ByLoad => /\ jobStage[c] = "insert"
                                /\ jobStrategy[c] = rows'[c].how /\ jobAgent[c] = rows'[c].agent

Edits(c) ==
  /\ EditTicket(c)
  /\ c \in Created /\ Created' = Created
  /\ \A d \in Jobs : d # c => rows'[d] = rows[d]
  /\ rows'[c].number = rows[c].number /\ rows'[c].turn = rows[c].turn
  /\ rows'[c].open /\ rows'[c].how \in ByLoad => FALSE

LEMMA RowsStep ==
  ASSUME CrTypeOK, JobsOK, [CrNext]_cvars
  PROVE  \/ UNCHANGED rows
         \/ \E c \in Jobs : Adds(c) \/ Edits(c)
<1>0. rows \in [Jobs -> TicketRows \cup {None}] /\ None \notin TicketRows
  BY NullIsNoName DEF CrTypeOK
<1>1. ASSUME NEW c \in Jobs, NEW x \in TicketRows, rows' = [rows EXCEPT ![c] = x]
      PROVE  /\ Created' = Created \cup {c}
             /\ rows'[c] = x /\ \A d \in Jobs : d # c => rows'[d] = rows[d]
  BY <1>0, <1>1 DEF Created
<1>2. ASSUME NEW c \in Jobs, CommitCreate(c)
      PROVE  Adds(c)
  <2>1. jobStage[c] = "insert" /\ rows[c] = None /\ c \notin Created
    BY <1>2 DEF CommitCreate, JobsOK, Created
  <2>2. jobStrategy[c] \in Hows /\ "rule" \in Hows /\ jobAgent[c] \in Agents \cup {None}
    BY <2>1 DEF JobsOK, Hows, CrTypeOK
  <2>3. PICK a \in Agents \cup {None}, how \in Hows :
          /\ rows' = [rows EXCEPT ![c] = TicketRow(c, a, TRUE, how)]
          /\ how \in ByLoad => how = jobStrategy[c] /\ a = jobAgent[c]
    BY <1>2, <2>2 DEF CommitCreate, ByLoad
  <2> DEFINE x == TicketRow(c, a, TRUE, how)
  <2>4. x \in TicketRows
    BY TicketRowType
  <2>5. /\ x.number = jobNumber[c] /\ x.how = how /\ x.agent = a
        /\ x.turn = IF jobStrategy[c] = "round_robin" THEN jobAgent[c] ELSE None
    BY DEF TicketRow
  <2> HIDE DEF x
  <2>6. /\ Created' = Created \cup {c}
        /\ rows'[c] = x /\ \A d \in Jobs : d # c => rows'[d] = rows[d]
    BY <1>1, <2>3, <2>4 DEF x
  <2> QED
    BY <1>2, <2>1, <2>3, <2>4, <2>5, <2>6 DEF Adds
<1>3. ASSUME NEW c \in Jobs, CommitImport(c)
      PROVE  Adds(c)
  <2>1. jobStage[c] = "import" /\ rows[c] = None /\ c \notin Created
    BY <1>3 DEF CommitImport, JobsOK, Created
  <2>2. PICK a \in Agents \cup {None}, open \in BOOLEAN :
          rows' = [rows EXCEPT ![c] = TicketRow(c, a, open, "import")]
    BY <1>3 DEF CommitImport
  <2> DEFINE x == TicketRow(c, a, open, "import")
  <2>3. x \in TicketRows
    BY TicketRowType DEF Hows
  <2>4. /\ x.number = jobNumber[c] /\ x.how = "import"
        /\ x.turn = IF jobStrategy[c] = "round_robin" THEN jobAgent[c] ELSE None
    BY DEF TicketRow
  <2> HIDE DEF x
  <2>5. /\ Created' = Created \cup {c}
        /\ rows'[c] = x /\ \A d \in Jobs : d # c => rows'[d] = rows[d]
    BY <1>1, <2>2, <2>3 DEF x
  <2> QED
    BY <1>3, <2>1, <2>3, <2>4, <2>5 DEF Adds, ByLoad
<1>4. ASSUME NEW c \in Jobs, EditTicket(c)
      PROVE  Edits(c)
  <2>1. rows[c] \in TicketRows /\ c \in Created
    BY <1>0, <1>4 DEF EditTicket, Created
  <2>2. PICK x \in TicketRows :
          /\ rows' = [rows EXCEPT ![c] = x]
          /\ x.number = rows[c].number /\ x.turn = rows[c].turn
          /\ \/ x.agent = rows[c].agent /\ x.how = rows[c].how /\ x.open = FALSE
             \/ x.how = "edit"
    BY <1>0, <1>4, <2>1, EditedRow
  <2>3. /\ Created' = Created
        /\ rows'[c] = x /\ \A d \in Jobs : d # c => rows'[d] = rows[d]
    <3>1. /\ Created' = Created \cup {c}
          /\ rows'[c] = x /\ \A d \in Jobs : d # c => rows'[d] = rows[d]
      BY <1>1, <2>2
    <3> QED
      BY <2>1, <3>1
  <2> QED
    <3>1. rows'[c].open /\ rows'[c].how \in ByLoad => FALSE
      BY <2>2, <2>3, Zenon DEF ByLoad
    <3> QED
      BY <1>4, <2>1, <2>2, <2>3, <3>1 DEF Edits
<1>5. ASSUME NEW c \in Jobs, \/ ImportCheck(c) \/ TakeNumber(c) \/ PickNobody(c)
                             \/ LoadGroupConfig(c) \/ ActiveGroupAgents(c) \/ ChooseByLoad(c)
                             \/ ChooseInTurn(c) \/ Rollback(c)
      PROVE  UNCHANGED rows
  BY <1>5 DEF ImportCheck, TakeNumber, PickNobody, LoadGroupConfig, ActiveGroupAgents,
              ChooseByLoad, ChooseInTurn, Rollback
<1>6. EditGroup \/ (\E a \in Agents : EditAgent(a)) \/ UNCHANGED cvars => UNCHANGED rows
  BY DEF EditGroup, EditAgent, cvars, crVars
<1> QED
  BY <1>2, <1>3, <1>4, <1>5, <1>6 DEF CrNext

(* One ticket more takes the number after the last. *)
LEMMA NumberingStep ==
  ASSUME CrTypeOK, JobsOK, Numbering, [CrNext]_cvars
  PROVE  Numbering'
<1> DEFINE n == Cardinality(Created)
<1>0. /\ IsFiniteSet(Created) /\ n \in Nat /\ nextValue \in Nat
      /\ jobNumber \in [Jobs -> Nat] /\ \A c \in Jobs : c # None
      /\ Created \subseteq Jobs
      /\ Created # {} => n # 0
  BY CountsAreNumbers, CreationAssumption, FS_EmptySet DEF CrTypeOK, Jobs, Created
<1>1. ASSUME NEW c \in Jobs, Adds(c)
      PROVE  Numbering'
  <2>1. Cardinality(Created') = n + 1
    BY <1>0, <1>1, FS_AddElement DEF Adds
  <2>2. /\ nextValue' = jobNumber[c] + 1 /\ counterLock' = None
        /\ jobStage[c] \in Locked
    BY <1>1 DEF Adds, CommitCreate, CommitImport, Locked
  <2>3. jobNumber[c] = n + 1
    BY <2>2, OneLocked DEF Numbering
  <2>4. {rows'[d].number : d \in Created'} = {rows[d].number : d \in Created} \cup {n + 1}
    <3>1. /\ Created' = Created \cup {c} /\ c \notin Created /\ rows'[c].number = n + 1
          /\ \A d \in Created : rows'[d] = rows[d]
      BY <1>0, <1>1, <2>3 DEF Adds
    <3> HIDE DEF n
    <3> QED
      BY <3>1
  <2>5. {rows'[d].number : d \in Created'} = 1..(n + 1)
    <3>1. {rows[d].number : d \in Created} = 1..n
      BY DEF Numbering
    <3>2. 1..(n + 1) = 1..n \cup {n + 1}
      <4>1. n \in Nat
        BY <1>0
      <4> HIDE DEF n
      <4> QED
        BY <4>1
    <3> QED
      BY <2>4, <3>1, <3>2, Zenon
  <2>6. Created' # {}
    BY <1>1 DEF Adds
  <2> HIDE DEF n
  <2> QED
    BY <1>0, <2>1, <2>2, <2>3, <2>5, <2>6 DEF Numbering, Created
<1>2. ASSUME NEW c \in Jobs, Edits(c)
      PROVE  Numbering'
  <2>1. Created' = Created /\ \A d \in Created : rows'[d].number = rows[d].number
    BY <1>0, <1>2 DEF Edits
  <2>2. {rows'[d].number : d \in Created'} = {rows[d].number : d \in Created}
    BY <2>1
  <2>3. UNCHANGED <<nextValue, counterLock, jobNumber>>
    BY <1>2 DEF Edits, EditTicket, StaffEdit, crJobVars
  <2> QED
    BY <2>1, <2>2, <2>3 DEF Numbering
<1>3. ASSUME UNCHANGED rows
      PROVE  Numbering'
  <2>1. Created' = Created
    BY <1>3 DEF Created
  <2>2. ASSUME NEW c \in Jobs, TakeNumber(c)
        PROVE  UNCHANGED nextValue /\ \A d \in Jobs : counterLock' = d => jobNumber'[d] = n + 1
    <3>1. /\ UNCHANGED nextValue /\ counterLock' = c
          /\ jobNumber' = [jobNumber EXCEPT ![c] = IF nextValue = 0 THEN 1 ELSE nextValue]
      BY <2>2 DEF TakeNumber
    <3>2. (IF nextValue = 0 THEN 1 ELSE nextValue) = n + 1
      BY <1>0, FS_EmptySet DEF Numbering
    <3> QED
      BY <1>0, <3>1, <3>2
  <2>3. ASSUME NEW c \in Jobs, Rollback(c)
        PROVE  UNCHANGED nextValue /\ counterLock' = None
    BY <2>3 DEF Rollback
  <2>4. ASSUME NEW c \in Jobs, CommitCreate(c) \/ CommitImport(c)
        PROVE  FALSE
    <3>1. PICK d \in Jobs : Adds(d) \/ Edits(d) \/ (UNCHANGED rows /\ d = c)
      BY RowsStep
    <3>2. jobStage[c] # "done" /\ rows[c] = None
      BY <2>4 DEF CommitCreate, CommitImport, JobsOK
    <3>3. rows'[c] \in TicketRows
      <4>1. PICK x \in TicketRows : rows' = [rows EXCEPT ![c] = x]
        BY <2>4, CommittedRow
      <4> QED
        BY <4>1, RowsTyped
    <3> QED
      BY <1>3, <3>2, <3>3, NullIsNoName
  <2>5. ASSUME NEW c \in Jobs, \/ ImportCheck(c) \/ PickNobody(c) \/ LoadGroupConfig(c)
                               \/ ActiveGroupAgents(c) \/ ChooseByLoad(c) \/ ChooseInTurn(c)
                               \/ EditTicket(c)
        PROVE  UNCHANGED <<nextValue, counterLock, jobNumber>>
    BY <2>5 DEF ImportCheck, PickNobody, LoadGroupConfig, ActiveGroupAgents,
                ChooseByLoad, ChooseInTurn, EditTicket, StaffEdit, crJobVars
  <2>6. EditGroup \/ (\E a \in Agents : EditAgent(a)) \/ UNCHANGED cvars
        => UNCHANGED <<nextValue, counterLock, jobNumber>>
    BY DEF EditGroup, EditAgent, StaffEdit, crJobVars, cvars, crVars
  <2>7. /\ UNCHANGED nextValue
        /\ \A d \in Jobs : counterLock' = d => jobNumber'[d] = n + 1
    <3>1. UNCHANGED <<nextValue, counterLock, jobNumber>>
          => \A d \in Jobs : counterLock' = d => jobNumber'[d] = n + 1
      BY DEF Numbering
    <3> QED
      BY <1>0, <2>2, <2>3, <2>4, <2>5, <2>6, <3>1 DEF CrNext
  <2> QED
    BY <1>3, <2>1, <2>7 DEF Numbering
<1> QED
  BY <1>1, <1>2, <1>3, RowsStep

(* Ticket numbers are 1, 2, ... without gap or repetition, however many    *)
(* creates and imports overlap and however many are rolled back: the       *)
(* number is read and written under the lock of the counter's row.         *)
THEOREM NumbersDense == CrSpec => []NumbersAreDense
<1>1. CrInit => Numbering
  <2> SUFFICES ASSUME CrInit
               PROVE  Numbering
    OBVIOUS
  <2>1. Created = {} /\ Cardinality(Created) = 0
    BY FS_EmptySet DEF CrInit, Created
  <2>2. {rows[c].number : c \in Created} = {} /\ 1..0 = {}
    BY <2>1
  <2>3. \A c \in Jobs : counterLock # c
    BY CreationAssumption DEF CrInit, Jobs
  <2> QED
    BY <2>1, <2>2, <2>3 DEF CrInit, Numbering
<1>2. Numbering => NumbersAreDense
  BY DEF Numbering, NumbersAreDense
<1> QED
  BY <1>1, <1>2, NumberingStep, JobsInvariant, PTL DEF CrSpec, cvars

-----------------------------------------------------------------------------
LEMMA GivenIsCounted ==
  ASSUME NEW a
  PROVE  /\ IsFiniteSet(Given(a)) /\ Cardinality(Given(a)) \in Nat
         /\ Cardinality(Given(a)) <= OpenCount(a)
<1> DEFINE T == {c \in Created : rows[c].agent = a /\ rows[c].open}
<1>1. IsFiniteSet(Created) /\ T \in SUBSET Created /\ Given(a) \in SUBSET T
  BY CountsAreNumbers DEF Given
<1>2. IsFiniteSet(T)
  BY <1>1, FS_Subset
<1> HIDE DEF T
<1>3. IsFiniteSet(Given(a)) /\ Cardinality(Given(a)) <= Cardinality(T)
  BY <1>1, <1>2, FS_Subset
<1> QED
  BY <1>3, FS_CardinalityType DEF OpenCount, T

LEMMA GivenIsFinite ==
  ASSUME NEW a
  PROVE  IsFiniteSet(Given(a)) /\ Cardinality(Given(a)) \in Nat
BY GivenIsCounted

(* No step but the commit of a choice by load gives an agent a ticket. *)
LEMMA GivenStep ==
  ASSUME CrTypeOK, JobsOK, [CrNext]_cvars, NEW a \in Agents
  PROVE  \/ Given(a)' \subseteq Given(a)
         \/ \E c \in Jobs : /\ CommitCreate(c) /\ jobStage[c] = "insert"
                            /\ jobStrategy[c] \in ByLoad /\ jobAgent[c] = a
                            /\ Given(a)' \subseteq Given(a) \cup {c}
<1>1. CASE UNCHANGED rows
  BY <1>1 DEF Given, Created
<1>2. ASSUME NEW c \in Jobs, Edits(c)
      PROVE  Given(a)' \subseteq Given(a)
  <2> SUFFICES ASSUME NEW d \in Created', rows'[d].agent = a, rows'[d].open,
                      rows'[d].how \in ByLoad
               PROVE  d \in Given(a)
    BY DEF Given
  <2>1. d # c /\ d \in Created /\ d \in Jobs
    BY <1>2 DEF Edits, Created
  <2>2. rows'[d] = rows[d]
    BY <1>2, <2>1 DEF Edits
  <2> QED
    BY <2>1, <2>2 DEF Given
<1>3. ASSUME NEW c \in Jobs, Adds(c)
      PROVE  \/ Given(a)' \subseteq Given(a)
             \/ /\ CommitCreate(c) /\ jobStage[c] = "insert"
                /\ jobStrategy[c] \in ByLoad /\ jobAgent[c] = a
                /\ Given(a)' \subseteq Given(a) \cup {c}
  <2>1. \A d \in Created' : d # c => d \in Created /\ rows'[d] = rows[d]
    BY <1>3 DEF Adds, Created
  <2>2. Given(a)' \subseteq Given(a) \cup {c}
    BY <2>1 DEF Given
  <2>3. CASE c \in Given(a)'
    <3>1. /\ rows'[c].how \in ByLoad /\ rows'[c].agent = a
      BY <2>3 DEF Given
    <3>2. jobStage[c] = "insert" /\ jobStrategy[c] \in ByLoad /\ jobAgent[c] = a
      BY <1>3, <3>1 DEF Adds
    <3>3. CommitCreate(c)
      BY <1>3, <3>2 DEF Adds, CommitImport
    <3> QED
      BY <2>2, <3>2, <3>3
  <2>4. CASE c \notin Given(a)'
    BY <2>2, <2>4
  <2> QED
    BY <2>3, <2>4
<1> QED
  BY <1>1, <1>2, <1>3, RowsStep

(* How a transaction gets to its INSERT with a strategy and an agent *)
LEMMA InsertStep ==
  ASSUME CrTypeOK, JobsOK, [CrNext]_cvars, NEW c \in Jobs, jobStage'[c] = "insert"
  PROVE  \/ /\ jobStage[c] = "insert" /\ jobStrategy'[c] = jobStrategy[c]
            /\ jobAgent'[c] = jobAgent[c]
            /\ \A d \in Jobs : ~CommitCreate(d) /\ ~CommitImport(d)
         \/ PickNobody(c) /\ jobStrategy'[c] = "manual"
         \/ /\ ActiveGroupAgents(c) /\ jobStaff'[c] = {} /\ jobAgent'[c] = None
            /\ jobStrategy'[c] = jobStrategy[c]
         \/ ChooseByLoad(c) /\ jobStrategy'[c] = jobStrategy[c]
         \/ ChooseInTurn(c) /\ jobStrategy'[c] = jobStrategy[c]
<1>0. /\ jobStage \in [Jobs -> JobStages] /\ jobStaff \in [Jobs -> SUBSET Agents]
      /\ jobStrategy \in [Jobs -> Strategies \cup {None}]
      /\ jobAgent \in [Jobs -> Agents \cup {None}]
  BY DEF CrTypeOK
<1>1. ASSUME NEW d \in Jobs, PickNobody(d), d = c
      PROVE  jobStrategy'[c] = "manual"
  BY <1>0, <1>1 DEF PickNobody
<1>2. ASSUME NEW d \in Jobs, ActiveGroupAgents(d), d = c
      PROVE  jobStaff'[c] = {} /\ jobAgent'[c] = None /\ jobStrategy'[c] = jobStrategy[c]
  <2>1. PICK eligible \in SUBSET staff :
          /\ jobStaff' = [jobStaff EXCEPT ![c] = eligible]
          /\ jobStage' = [jobStage EXCEPT ![c] = IF eligible = {} THEN "insert" ELSE "choose"]
    BY <1>2 DEF ActiveGroupAgents
  <2>2. jobStage[c] = "agents" /\ UNCHANGED <<jobAgent, jobStrategy>>
    BY <1>2 DEF ActiveGroupAgents
  <2>3. eligible = {}
    BY <1>0, <2>1
  <2> QED
    BY <1>0, <2>1, <2>2, <2>3 DEF JobsOK
<1>3. ASSUME NEW d \in Jobs, ChooseByLoad(d) \/ ChooseInTurn(d), d = c
      PROVE  jobStrategy'[c] = jobStrategy[c]
  BY <1>3 DEF ChooseByLoad, ChooseInTurn
<1>4. ASSUME NEW d \in Jobs, EndJob(d)
      PROVE  d # c /\ jobStage[c] = "insert"
  BY <1>0, <1>4 DEF EndJob
<1>5. ASSUME NEW d \in Jobs, CommitCreate(d) \/ CommitImport(d)
      PROVE  FALSE
  <2>1. d # c /\ jobStage[c] = "insert" /\ jobStage[d] \in Locked
    BY <1>4, <1>5 DEF CommitCreate, CommitImport, Locked
  <2> QED
    BY <2>1, OneLocked DEF Locked
<1>6. ASSUME NEW d \in Jobs, Rollback(d)
      PROVE  /\ jobStage[c] = "insert" /\ jobStrategy'[c] = jobStrategy[c]
             /\ jobAgent'[c] = jobAgent[c]
  <2>1. EndJob(d)
    BY <1>6 DEF Rollback
  <2>2. d # c /\ jobStage[c] = "insert"
    BY <1>4, <2>1
  <2> QED
    BY <1>0, <2>1, <2>2 DEF EndJob
<1>7. ASSUME NEW d \in Jobs,
             \/ ImportCheck(d) \/ TakeNumber(d) \/ LoadGroupConfig(d) \/ EditTicket(d)
             \/ d # c /\ (PickNobody(d) \/ ActiveGroupAgents(d) \/ ChooseByLoad(d)
                          \/ ChooseInTurn(d))
      PROVE  /\ jobStage[c] = "insert" /\ jobStrategy'[c] = jobStrategy[c]
             /\ jobAgent'[c] = jobAgent[c]
  <2>1. CASE ImportCheck(d) \/ TakeNumber(d)
    BY <1>0, <2>1 DEF ImportCheck, TakeNumber
  <2>2. CASE LoadGroupConfig(d)
    BY <1>0, <2>2 DEF LoadGroupConfig
  <2>3. CASE EditTicket(d)
    BY <2>3 DEF EditTicket, StaffEdit, crJobVars
  <2>4. CASE d # c /\ (PickNobody(d) \/ ActiveGroupAgents(d) \/ ChooseByLoad(d)
                       \/ ChooseInTurn(d))
    BY <1>0, <2>4 DEF PickNobody, ActiveGroupAgents, ChooseByLoad, ChooseInTurn
  <2> QED
    BY <1>7, <2>1, <2>2, <2>3, <2>4
<1>8. EditGroup \/ (\E a \in Agents : EditAgent(a)) \/ UNCHANGED cvars
      => UNCHANGED <<jobStage, jobStrategy, jobAgent>>
  BY DEF EditGroup, EditAgent, StaffEdit, crJobVars, cvars, crVars
<1> QED
  BY <1>1, <1>2, <1>3, <1>5, <1>6, <1>7, <1>8 DEF CrNext

LEMMA LoadingStep ==
  ASSUME CrTypeOK, JobsOK, Loading, [CrNext]_cvars
  PROVE  Loading'
<1> SUFFICES ASSUME GroupCap # None
             PROVE  /\ \A a \in Agents : Cardinality(Given(a)') <= GroupCap
                    /\ \A c \in Jobs : /\ jobStage'[c] = "insert" /\ jobStrategy'[c] \in ByLoad
                                       /\ jobAgent'[c] # None
                                       => Cardinality(Given(jobAgent[c])') < GroupCap
  BY DEF Loading
<1>0. GroupCap \in Nat
  BY CreationAssumption
<1>1. ASSUME NEW a \in Agents
      PROVE  Cardinality(Given(a)') <= GroupCap
  <2>1. Cardinality(Given(a)) <= GroupCap /\ Cardinality(Given(a)) \in Nat
    BY GivenIsFinite DEF Loading
  <2>2. CASE Given(a)' \subseteq Given(a)
    BY <1>0, <2>1, <2>2, GivenIsFinite, FS_Subset, FS_CardinalityType
  <2>3. ASSUME NEW c \in Jobs, jobStage[c] = "insert", jobStrategy[c] \in ByLoad,
               jobAgent[c] = a, Given(a)' \subseteq Given(a) \cup {c}
        PROVE  Cardinality(Given(a)') <= GroupCap
    <3>1. Cardinality(Given(a)) < GroupCap
      BY <2>3, NullIsNoAgent DEF Loading
    <3>2. /\ IsFiniteSet(Given(a) \cup {c})
          /\ Cardinality(Given(a) \cup {c}) <= Cardinality(Given(a)) + 1
          /\ Cardinality(Given(a) \cup {c}) \in Nat
      BY <2>1, GivenIsFinite, FS_AddElement, FS_CardinalityType
    <3>3. /\ Cardinality(Given(a)') <= Cardinality(Given(a) \cup {c})
          /\ IsFiniteSet(Given(a)')
      BY <2>3, <3>2, FS_Subset
    <3>4. Cardinality(Given(a)') \in Nat
      BY <3>3, FS_CardinalityType
    <3> QED
      BY <1>0, <2>1, <3>1, <3>2, <3>3, <3>4
  <2> QED
    BY <2>2, <2>3, GivenStep
<1>2. ASSUME NEW c \in Jobs, jobStage'[c] = "insert", jobStrategy'[c] \in ByLoad,
             jobAgent'[c] # None
      PROVE  Cardinality(Given(jobAgent[c])') < GroupCap
  <2>1. CASE /\ jobStage[c] = "insert" /\ jobStrategy'[c] = jobStrategy[c]
             /\ jobAgent'[c] = jobAgent[c]
             /\ \A d \in Jobs : ~CommitCreate(d) /\ ~CommitImport(d)
    <3> DEFINE a == jobAgent[c]
    <3>1. a \in Agents /\ jobAgent'[c] = a
      BY <1>2, <2>1 DEF CrTypeOK
    <3>2. Cardinality(Given(a)) < GroupCap
      BY <1>2, <2>1 DEF Loading
    <3>3. \A b \in Agents : Given(b)' \subseteq Given(b)
      BY <2>1, GivenStep
    <3>4. \A b : IsFiniteSet(Given(b))
      BY GivenIsFinite
    <3>5. ASSUME NEW b \in Agents, Cardinality(Given(b)) < GroupCap
          PROVE  Cardinality(Given(b)') < GroupCap
      <4>1. /\ Cardinality(Given(b)') <= Cardinality(Given(b)) /\ IsFiniteSet(Given(b)')
            /\ Cardinality(Given(b)) \in Nat
        BY <3>3, <3>4, FS_Subset, FS_CardinalityType
      <4>2. Cardinality(Given(b)') \in Nat
        BY <4>1, FS_CardinalityType
      <4> QED
        BY <1>0, <3>5, <4>1, <4>2
    <3> QED
      BY <3>1, <3>2, <3>5 DEF Given, Created
  <2>2. CASE ChooseByLoad(c)
    <3> DEFINE a == LeastLoaded(jobStaff[c])
    <3>1. jobAgent' = [jobAgent EXCEPT ![c] = a] /\ rows' = rows
      BY <2>2 DEF ChooseByLoad
    <3>2. jobStaff[c] \in SUBSET Agents /\ jobAgent \in [Jobs -> Agents \cup {None}]
      BY DEF CrTypeOK
    <3> HIDE DEF a
    <3>3. jobAgent'[c] = a
      BY <3>1, <3>2
    <3>4. OpenCount(a) < GroupCap /\ OpenCount(a) \in Nat
      BY <1>2, <3>2, <3>3, LeastLoadedType, CountsAreNumbers DEF a
    <3>5. Cardinality(Given(a)) < GroupCap
      BY <1>0, <3>4, GivenIsCounted
    <3>6. Given(jobAgent[c])' = Given(a)
      BY <3>1, <3>3 DEF Given, Created
    <3> QED
      BY <3>5, <3>6
  <2>3. ~ChooseInTurn(c) \/ jobStrategy'[c] # jobStrategy[c]
    BY <1>2 DEF ChooseInTurn, ByLoad
  <2>4. jobStrategy'[c] # "manual"
    BY <1>2 DEF ByLoad
  <2> QED
    BY <1>2, <2>1, <2>2, <2>3, <2>4, InsertStep
<1> QED
  BY <1>1, <1>2

(* However many requests arrive together, 'load_based' and 'skill_based'   *)
(* assignment give no agent more than max_open_tickets_per_agent open      *)
(* tickets: the count is read and the ticket committed under the lock of   *)
(* the counter's row.                                                      *)
THEOREM CapIsFirm == CrSpec => []CapHolds
<1>1. CrInit => Loading
  <2> SUFFICES ASSUME CrInit
               PROVE  Loading
    OBVIOUS
  <2>1. \A a : Given(a) = {}
    BY DEF CrInit, Given, Created
  <2>2. GroupCap # None => GroupCap \in Nat
    BY CreationAssumption
  <2> QED
    BY <2>1, <2>2, FS_EmptySet DEF CrInit, Loading
<1>2. Loading => CapHolds
  BY DEF Loading, CapHolds, Given, ByLoad
<1> QED
  BY <1>1, <1>2, LoadingStep, JobsInvariant, PTL DEF CrSpec, cvars

-----------------------------------------------------------------------------
(* The next id in turn: the first after the cursor, or the first of all *)
LEMMA InTurnOrder ==
  ASSUME CrTypeOK, Agents # {}
  PROVE  LET n == NextInTurn(Agents)
         IN  /\ n \in Agents
             /\ \/ /\ cursor # None /\ cursor < n
                   /\ \A a \in Agents : a <= n <=> a <= cursor \/ a = n
                \/ /\ cursor # None => \A a \in Agents : a <= cursor
                   /\ \A a \in Agents : n <= a
<1> DEFINE later == {a \in Agents : cursor \in Agents /\ a > cursor}
           n == NextInTurn(Agents)
<1>1. /\ Agents \in SUBSET Nat /\ later \in SUBSET Nat /\ cursor \in Agents \cup {None}
      /\ \A a \in Agents : a # None
  BY CreationAssumption, NullIsNoAgent DEF CrTypeOK
<1>2. CASE later = {}
  <2>1. n = Min(Agents)
    BY <1>2 DEF NextInTurn
  <2>2. n \in Agents /\ \A a \in Agents : n <= a
    BY <1>1, <2>1, MinIsLeast
  <2>3. cursor # None => \A a \in Agents : a <= cursor
    BY <1>1, <1>2
  <2> QED
    BY <2>2, <2>3
<1>3. CASE later # {}
  <2>1. n = Min(later)
    BY <1>3 DEF NextInTurn
  <2>2. n \in later /\ \A a \in later : n <= a
    BY <1>1, <1>3, <2>1, MinIsLeast
  <2>3. cursor \in Agents /\ cursor < n /\ n \in Agents
    BY <1>1, <2>2
  <2> HIDE DEF n
  <2>4. \A a \in Agents : a <= n <=> a <= cursor \/ a = n
    BY <1>1, <2>2, <2>3
  <2> QED
    BY <1>1, <2>3, <2>4 DEF n
<1> QED
  BY <1>2, <1>3

LEMMA TurnsAreFinite ==
  ASSUME NEW a
  PROVE  IsFiniteSet(Turns(a)) /\ Cardinality(Turns(a)) \in Nat
<1>1. IsFiniteSet(Created) /\ Turns(a) \in SUBSET Created
  BY CountsAreNumbers DEF Turns
<1> QED
  BY <1>1, FS_Subset, FS_CardinalityType

(* A commit in turn gives its agent one turn more; no other step counts. *)
LEMMA TurnsStep ==
  ASSUME CrTypeOK, JobsOK, [CrNext]_cvars
  PROVE  \/ cursor' = cursor /\ \A a \in Agents : Turns(a)' = Turns(a)
         \/ \E c \in Jobs :
              /\ jobStage[c] = "insert" /\ jobStrategy[c] = "round_robin"
              /\ jobAgent[c] \in Agents /\ cursor' = jobAgent[c] /\ c \notin Created
              /\ \A a \in Agents : Turns(a)' = IF a = jobAgent[c] THEN Turns(a) \cup {c}
                                                                  ELSE Turns(a)
<1>0. None \notin Agents /\ Created \subseteq Jobs
  BY NullIsNoAgent DEF Created
<1>1. ASSUME UNCHANGED rows, ~\E c \in Jobs : CommitCreate(c)
      PROVE  cursor' = cursor /\ \A a \in Agents : Turns(a)' = Turns(a)
  <2>1. cursor' = cursor
    BY <1>1 DEF CrNext, cvars, crVars, EditGroup, EditAgent, StaffEdit, ImportCheck, TakeNumber,
                PickNobody, LoadGroupConfig, ActiveGroupAgents, ChooseByLoad, ChooseInTurn,
                CommitImport, Rollback, EditTicket
  <2> QED
    BY <1>1, <2>1, SMTT(40) DEF Turns, Created
<1>2. ASSUME UNCHANGED rows, NEW c \in Jobs, CommitCreate(c)
      PROVE  FALSE
  <2>1. PICK x \in TicketRows : rows' = [rows EXCEPT ![c] = x]
    BY <1>2, CommittedRow
  <2>2. rows'[c] = x /\ rows[c] = None
    BY <1>2, <2>1, RowsTyped DEF CommitCreate, JobsOK
  <2> QED
    BY <1>2, <2>2, NullIsNoName
<1>3. ASSUME NEW c \in Jobs, Edits(c)
      PROVE  cursor' = cursor /\ \A a \in Agents : Turns(a)' = Turns(a)
  <2>1. cursor' = cursor
    BY <1>3 DEF Edits, EditTicket, StaffEdit
  <2>2. Created' = Created /\ \A d \in Created : rows'[d].turn = rows[d].turn
    BY <1>0, <1>3 DEF Edits
  <2> QED
    BY <2>1, <2>2 DEF Turns
<1>4. ASSUME NEW c \in Jobs, Adds(c)
      PROVE  \/ cursor' = cursor /\ \A a \in Agents : Turns(a)' = Turns(a)
             \/ /\ jobStage[c] = "insert" /\ jobStrategy[c] = "round_robin"
                /\ jobAgent[c] \in Agents /\ cursor' = jobAgent[c] /\ c \notin Created
                /\ \A a \in Agents : Turns(a)' = IF a = jobAgent[c] THEN Turns(a) \cup {c}
                                                                    ELSE Turns(a)
  <2>1. /\ Created' = Created \cup {c} /\ c \notin Created
        /\ \A d \in Created : rows'[d] = rows[d]
        /\ rows'[c].turn = IF jobStrategy[c] = "round_robin" THEN jobAgent[c] ELSE None
    BY <1>0, <1>4 DEF Adds
  <2>2. \A a : Turns(a)' = IF a = rows'[c].turn THEN Turns(a) \cup {c} ELSE Turns(a)
    BY <2>1 DEF Turns
  <2>3. jobStage[c] = "import" => jobStrategy[c] = None
    BY DEF JobsOK
  <2>4. "round_robin" # None /\ jobAgent[c] \in Agents \cup {None}
    BY NullIsNoName DEF Strategies, CrTypeOK
  <2>5. CASE jobStrategy[c] = "round_robin" /\ jobAgent[c] # None
    <3>1. CommitCreate(c)
      BY <1>4, <2>3, <2>4, <2>5 DEF Adds, CommitImport
    <3>2. cursor' = jobAgent[c] /\ jobStage[c] = "insert"
      BY <2>5, <3>1 DEF CommitCreate, CursorWritten
    <3> QED
      BY <2>1, <2>2, <2>4, <2>5, <3>2
  <2>6. CASE ~(jobStrategy[c] = "round_robin" /\ jobAgent[c] # None)
    <3>1. rows'[c].turn = None
      BY <2>1, <2>6
    <3>2. cursor' = cursor
      BY <1>4, <2>6 DEF Adds, CommitCreate, CommitImport, CursorWritten
    <3> QED
      BY <1>0, <2>2, <3>1, <3>2
  <2> QED
    BY <2>5, <2>6
<1> QED
  BY <1>1, <1>2, <1>3, <1>4, RowsStep

LEMMA EvenStep ==
  ASSUME CrTypeOK, JobsOK, [CrNext]_cvars, Turning, ~staffMoved
  PROVE  \E k \in Nat : Even(k)'
<1>0. PICK k \in Nat : Even(k)
  BY DEF Turning
<1>1. CASE cursor' = cursor /\ \A a \in Agents : Turns(a)' = Turns(a)
  BY <1>0, <1>1 DEF Even
<1>2. ASSUME NEW c \in Jobs, jobStage[c] = "insert", jobStrategy[c] = "round_robin",
             jobAgent[c] \in Agents, cursor' = jobAgent[c], c \notin Created,
             \A a \in Agents : Turns(a)' = IF a = jobAgent[c] THEN Turns(a) \cup {c}
                                                              ELSE Turns(a)
      PROVE  \E j \in Nat : Even(j)'
  <2> DEFINE n == NextInTurn(Agents)
  <2>1. Agents # {} /\ jobAgent[c] = n
    BY <1>2 DEF Turning
  <2>2. /\ n \in Agents
        /\ \/ /\ cursor # None /\ cursor < n
              /\ \A a \in Agents : a <= n <=> a <= cursor \/ a = n
           \/ /\ cursor # None => \A a \in Agents : a <= cursor
              /\ \A a \in Agents : n <= a
    BY <2>1, InTurnOrder
  <2>3. /\ Agents \subseteq Nat /\ None \notin Agents
        /\ cursor \in Agents \cup {None}
    BY CreationAssumption, NullIsNoAgent DEF CrTypeOK
  <2> HIDE DEF n
  <2>4. \A a \in Agents : Cardinality(Turns(a)') =
           IF a = n THEN Cardinality(Turns(a)) + 1 ELSE Cardinality(Turns(a))
    <3> SUFFICES ASSUME NEW a \in Agents
                 PROVE  Cardinality(Turns(a)') =
                          IF a = n THEN Cardinality(Turns(a)) + 1 ELSE Cardinality(Turns(a))
      OBVIOUS
    <3>1. c \notin Turns(a) /\ IsFiniteSet(Turns(a))
      BY <1>2, TurnsAreFinite DEF Turns
    <3>2. Cardinality(Turns(a) \cup {c}) = Cardinality(Turns(a)) + 1
      BY <3>1, FS_AddElement
    <3> QED
      BY <1>2, <2>1, <3>2
  <2>5. \A a \in Agents : Cardinality(Turns(a)) = IF cursor # None /\ a <= cursor THEN k + 1 ELSE k
    BY <1>0 DEF Even
  <2>6. cursor' = n /\ n # None
    BY <1>2, <2>1, <2>2, <2>3
  <2>7. CASE /\ cursor # None /\ cursor < n
             /\ \A a \in Agents : a <= n <=> a <= cursor \/ a = n
    <3>1. \A a \in Agents : Cardinality(Turns(a)') = IF a <= n THEN k + 1 ELSE k
      BY <2>2, <2>3, <2>4, <2>5, <2>7
    <3> QED
      BY <2>6, <3>1 DEF Even
  <2>8. CASE /\ cursor # None => \A a \in Agents : a <= cursor
             /\ \A a \in Agents : n <= a
    <3>1. \A a \in Agents : a <= n <=> a = n
      BY <2>2, <2>3, <2>8
    <3>2. CASE cursor = None
      <4>1. \A a \in Agents : Cardinality(Turns(a)') = IF a <= n THEN k + 1 ELSE k
        BY <2>4, <2>5, <3>1, <3>2
      <4> QED
        BY <2>6, <4>1 DEF Even
    <3>3. CASE cursor # None
      <4>1. \A a \in Agents : Cardinality(Turns(a)') = IF a <= n THEN (k + 1) + 1 ELSE k + 1
        BY <2>4, <2>5, <2>8, <3>1, <3>3
      <4>2. Even(k + 1)'
        BY <2>6, <4>1 DEF Even
      <4> QED
        BY <4>2
    <3> QED
      BY <3>2, <3>3
  <2> QED
    BY <2>2, <2>7, <2>8
<1> QED
  BY <1>1, <1>2, TurnsStep

(* The agents a request has read are the group's, while nobody edits them. *)
LEMMA StaffStep ==
  ASSUME CrTypeOK, JobsOK, [CrNext]_cvars, Turning, ~staffMoved'
  PROVE  /\ ~staffMoved /\ staff' = Agents
         /\ \A c \in Jobs : jobStrategy'[c] = "round_robin" /\ jobStage'[c] = "choose"
                            => jobStaff'[c] = Agents
<1>0. /\ jobStage \in [Jobs -> JobStages] /\ jobStaff \in [Jobs -> SUBSET Agents]
      /\ jobStrategy \in [Jobs -> Strategies \cup {None}]
  BY DEF CrTypeOK
<1>1. staffMoved' = staffMoved /\ staff' = staff
  <2>1. \A a \in Agents : ~EditAgent(a)
    BY DEF EditAgent
  <2>2. ASSUME NEW c \in Jobs, \/ ImportCheck(c) \/ TakeNumber(c) \/ PickNobody(c)
                               \/ LoadGroupConfig(c) \/ ActiveGroupAgents(c) \/ ChooseByLoad(c)
                               \/ ChooseInTurn(c) \/ CommitCreate(c) \/ CommitImport(c)
                               \/ Rollback(c)
        PROVE  UNCHANGED crWorld
    BY <2>2 DEF ImportCheck, TakeNumber, PickNobody, LoadGroupConfig, ActiveGroupAgents,
                ChooseByLoad, ChooseInTurn, CommitCreate, CommitImport, Rollback
  <2>3. EditGroup \/ (\E c \in Jobs : EditTicket(c)) \/ UNCHANGED cvars
        => UNCHANGED <<staff, staffMoved>>
    BY DEF EditGroup, EditTicket, cvars, crVars, crWorld
  <2> QED
    BY <2>1, <2>2, <2>3 DEF CrNext, crWorld
<1>2. ~staffMoved /\ staff = Agents
  BY <1>1 DEF Turning
<1>3. ASSUME NEW c \in Jobs, jobStrategy'[c] = "round_robin", jobStage'[c] = "choose"
      PROVE  jobStaff'[c] = Agents
  <2>1. jobStage[c] = "choose" /\ jobStrategy[c] = "round_robin" => jobStaff[c] = Agents
    BY <1>2 DEF Turning
  <2>2. ASSUME NEW d \in Jobs, ActiveGroupAgents(d)
        PROVE  jobStaff'[c] = Agents
    <3>1. PICK eligible \in (IF jobStrategy[d] = "skill_based"
                             THEN {{}, staff \cap Skilled} ELSE {staff}) :
            /\ jobStaff' = [jobStaff EXCEPT ![d] = eligible]
            /\ jobStage' = [jobStage EXCEPT ![d] = IF eligible = {} THEN "insert" ELSE "choose"]
      BY <2>2 DEF ActiveGroupAgents
    <3>2. jobStrategy' = jobStrategy
      BY <2>2 DEF ActiveGroupAgents
    <3>3. CASE d = c
      <4>1. eligible = staff
        BY <1>3, <3>1, <3>2, <3>3
      <4> QED
        BY <1>0, <1>2, <3>1, <3>3, <4>1
    <3>4. CASE d # c
      BY <1>0, <1>3, <2>1, <3>1, <3>2, <3>4
    <3> QED
      BY <3>3, <3>4
  <2>3. ASSUME NEW d \in Jobs, EndJob(d)
        PROVE  jobStaff'[c] = Agents
    BY <1>0, <1>3, <2>1, <2>3 DEF EndJob
  <2>4. ASSUME NEW d \in Jobs, \/ ImportCheck(d) \/ TakeNumber(d) \/ PickNobody(d)
                               \/ LoadGroupConfig(d) \/ ChooseByLoad(d) \/ ChooseInTurn(d)
        PROVE  jobStaff'[c] = Agents
    <3>1. jobStaff' = jobStaff
      BY <2>4 DEF ImportCheck, TakeNumber, PickNobody, LoadGroupConfig, ChooseByLoad,
                  ChooseInTurn
    <3>2. jobStage[c] = "choose" /\ jobStrategy[c] = "round_robin"
      <4>1. d # c
        BY <1>0, <1>3, <2>4 DEF ImportCheck, TakeNumber, PickNobody, LoadGroupConfig,
                                ChooseByLoad, ChooseInTurn
      <4> QED
        BY <1>0, <1>3, <2>4, <4>1 DEF ImportCheck, TakeNumber, PickNobody, LoadGroupConfig,
                                      ChooseByLoad, ChooseInTurn
    <3> QED
      BY <2>1, <3>1, <3>2
  <2>5. UNCHANGED crJobVars => jobStaff'[c] = Agents
    BY <1>3, <2>1 DEF crJobVars
  <2> QED
    BY <2>2, <2>3, <2>4, <2>5
       DEF CrNext, CommitCreate, CommitImport, Rollback, EditTicket, EditGroup, EditAgent,
           StaffEdit, cvars, crVars
<1> QED
  BY <1>1, <1>2, <1>3

LEMMA TurningStep ==
  ASSUME CrTypeOK, JobsOK, Turning, [CrNext]_cvars
  PROVE  Turning'
<1> SUFFICES ASSUME ~staffMoved'
             PROVE  /\ staff' = Agents
                    /\ \A c \in Jobs : jobStrategy'[c] = "round_robin" =>
                         /\ jobStage'[c] = "choose" => jobStaff'[c] = Agents
                         /\ jobStage'[c] = "insert" =>
                              IF Agents = {} THEN jobAgent'[c] = None
                                             ELSE jobAgent'[c] = NextInTurn(Agents)'
                    /\ \E k \in Nat : Even(k)'
  BY DEF Turning
<1>1. /\ ~staffMoved /\ staff' = Agents
      /\ \A c \in Jobs : jobStrategy'[c] = "round_robin" /\ jobStage'[c] = "choose"
                         => jobStaff'[c] = Agents
  BY StaffStep
<1>2. \E k \in Nat : Even(k)'
  BY <1>1, EvenStep
<1>3. ASSUME NEW c \in Jobs, jobStrategy'[c] = "round_robin", jobStage'[c] = "insert"
      PROVE  IF Agents = {} THEN jobAgent'[c] = None
                            ELSE jobAgent'[c] = NextInTurn(Agents)'
  <2>1. CASE /\ jobStage[c] = "insert" /\ jobStrategy'[c] = jobStrategy[c]
             /\ jobAgent'[c] = jobAgent[c]
             /\ \A d \in Jobs : ~CommitCreate(d) /\ ~CommitImport(d)
    <3>1. cursor' = cursor
      BY <2>1 DEF CrNext, cvars, crVars, EditGroup, EditAgent, StaffEdit, ImportCheck,
                  TakeNumber, PickNobody, LoadGroupConfig, ActiveGroupAgents, ChooseByLoad,
                  ChooseInTurn, Rollback, EditTicket
    <3>2. NextInTurn(Agents)' = NextInTurn(Agents)
      BY <3>1 DEF NextInTurn
    <3> QED
      BY <1>1, <1>3, <2>1, <3>2, SMTT(40) DEF Turning
  <2>2. CASE /\ ActiveGroupAgents(c) /\ jobStaff'[c] = {} /\ jobAgent'[c] = None
             /\ jobStrategy'[c] = jobStrategy[c]
    <3>1. PICK eligible \in (IF jobStrategy[c] = "skill_based"
                             THEN {{}, staff \cap Skilled} ELSE {staff}) :
            jobStaff' = [jobStaff EXCEPT ![c] = eligible]
      BY <2>2 DEF ActiveGroupAgents
    <3>2. eligible = staff /\ jobStaff'[c] = eligible
      BY <1>3, <2>2, <3>1 DEF CrTypeOK
    <3> QED
      BY <1>1, <2>2, <3>2 DEF Turning
  <2>3. CASE ChooseInTurn(c) /\ jobStrategy'[c] = jobStrategy[c]
    <3>1. /\ jobAgent' = [jobAgent EXCEPT ![c] = NextInTurn(jobStaff[c])]
          /\ cursor' = cursor /\ jobStage[c] = "choose"
      BY <2>3 DEF ChooseInTurn
    <3>2. jobStaff[c] = Agents /\ Agents # {}
      BY <1>1, <1>3, <2>3, <3>1 DEF Turning, JobsOK
    <3>3. NextInTurn(Agents)' = NextInTurn(Agents)
      BY <3>1 DEF NextInTurn
    <3> QED
      BY <3>1, <3>2, <3>3 DEF CrTypeOK
  <2>4. ~PickNobody(c) \/ jobStrategy'[c] # "manual"
    BY <1>3
  <2>5. ~ChooseByLoad(c) \/ jobStrategy'[c] # jobStrategy[c]
    BY <1>3 DEF ChooseByLoad
  <2> QED
    BY <1>3, <2>1, <2>2, <2>3, <2>4, <2>5, InsertStep
<1> QED
  BY <1>1, <1>2, <1>3

(* While a group keeps its agents, 'round_robin' spreads the tickets       *)
(* evenly: no agent is ever two turns ahead of another, however requests   *)
(* overlap and whatever is rolled back.                                    *)
THEOREM TurnsFair == CrSpec => []TurnsAreFair
<1>1. CrInit => Turning
  <2> SUFFICES ASSUME CrInit
               PROVE  Turning
    OBVIOUS
  <2>1. \A a : Turns(a) = {}
    BY DEF CrInit, Turns, Created
  <2>2. Even(0)
    BY <2>1, FS_EmptySet DEF CrInit, Even
  <2>3. \A c \in Jobs : jobStage[c] = "begin"
    BY DEF CrInit
  <2> QED
    BY <2>2, <2>3 DEF CrInit, Turning
<1>2. Turning => TurnsAreFair
  <2> SUFFICES ASSUME Turning, ~staffMoved, NEW a \in Agents, NEW b \in Agents
               PROVE  Cardinality(Turns(a)) <= Cardinality(Turns(b)) + 1
    BY DEF TurnsAreFair, Turns
  <2>1. PICK k \in Nat : Even(k)
    BY DEF Turning
  <2> QED
    BY <2>1 DEF Even
<1> QED
  BY <1>1, <1>2, TurningStep, JobsInvariant, PTL DEF CrSpec, cvars

-----------------------------------------------------------------------------
(* Conversation: merges *)

vvars == <<environment, convVars>>

(* What a merge holds at each stage *)
MergesOK ==
  \A g \in MergeCalls :
    /\ Merging(g) => primary[g] \in Threads
    /\ source[g] \in Threads <=> mergeStage[g] \in {"start", "move", "close"}
    /\ ~Merging(g) => moved[g] = {} /\ closed[g] = {}

(* What a reply holds at each stage *)
PostsOK ==
  /\ unsent \in [Posts -> SUBSET Addressees]
  /\ sentMails \in [Posts -> SUBSET Addressees]
  /\ owed \in [Posts -> SUBSET Addressees]
  /\ \A r \in Posts :
       /\ postStage[r] = "insert" => postTo[r] \in Threads
       /\ postStage[r] \in {"begin", "insert"} => sentMails[r] = {}
       /\ postStage[r] = "done" => unsent[r] = {}

(* A message of a ticket that a merge has looked at is one the merge will  *)
(* move, or came late                                                      *)
MessagesFollow ==
  /\ \A g \in MergeCalls, m \in Messages :
       /\ place[m] \in closed[g] => m \in moved[g] \/ <<m, place[m]>> \in late
       /\ mergeStage[g] = "close" /\ place[m] = source[g]
            => m \in moved[g] \/ <<m, place[m]>> \in late
       /\ mergeStage[g] = "move" /\ place[m] = source[g]
            => m \in matching[g] \/ <<m, place[m]>> \in late
  /\ CarriedOver

(* While merges have not overlapped: one is under way, what it closes was  *)
(* not merged, and what was merged was so once                             *)
MergesInTurn ==
  ~overlap =>
    /\ \A g, h \in MergeCalls : Merging(g) /\ Merging(h) => g = h
    /\ \A g \in MergeCalls, t \in Threads :
         t \in closed[g] \/ t = source[g] => mergedInto[t] = None
    /\ \A t \in Threads : handled[t] <= 1 /\ (mergedInto[t] = None => handled[t] = 0)

(* The inductive invariant *)
ConvInv == ConvTypeOK /\ MergesOK /\ PostsOK /\ MessagesFollow /\ MergesInTurn

LEMMA ConvInitInv == ConvInit => ConvInv
<1> SUFFICES ASSUME ConvInit
             PROVE  ConvInv
  OBVIOUS
<1> USE EnvironmentAssumption, ConversationAssumption
<1>1. PICK S \in SUBSET Threads : place = [m \in Messages |-> IF m \in S THEN m ELSE None]
  BY DEF ConvInit
<1>2. place \in [Messages -> Threads \cup {None}]
  BY <1>1 DEF Messages
<1>3. EnvTypeOK
  BY DEF ConvInit, EnvInit, EnvTypeOK, Times
<1>4. ConvTypeOK
  BY <1>2, <1>3 DEF ConvInit, ConvTypeOK
<1>5. MergesOK /\ PostsOK
  BY DEF ConvInit, MergesOK, PostsOK, Merging
<1>6. MessagesFollow
  BY <1>2 DEF ConvInit, MessagesFollow, CarriedOver
<1>7. MergesInTurn
  BY DEF ConvInit, MergesInTurn, Merging
<1> QED
  BY <1>4, <1>5, <1>6, <1>7 DEF ConvInv

(* A step of a reply, its commit apart: merges and messages are as before *)
LEMMA RepliesApart ==
  ASSUME ConvInv, EnvTypeOK', PostsOK', UNCHANGED <<convStored, mergeVars, late, overlap>>,
         postStage' \in [Posts -> {"begin", "insert", "mail", "done"}],
         postTo' \in [Posts -> Threads \cup {None}],
         \A r \in Posts : /\ sentMails'[r] \subseteq owed'[r]
                          /\ unsent'[r] \subseteq owed'[r] \ sentMails'[r]
  PROVE  ConvInv'
<1>1. ConvTypeOK'
  BY DEF ConvInv, ConvTypeOK, PostsOK, convStored, mergeVars
<1>2. MergesOK' /\ MessagesFollow' /\ MergesInTurn'
  BY DEF ConvInv, MergesOK, MessagesFollow, MergesInTurn, CarriedOver, Merging, convStored, mergeVars
<1> QED
  BY <1>1, <1>2 DEF ConvInv

(* Emails of one reply change *)
LEMMA EmailsChange ==
  ASSUME ConvInv, NEW r \in Posts, NEW E \in SUBSET Addressees, NEW O \in SUBSET Addressees,
         NEW S \in SUBSET Addressees, NEW st \in {"insert", "mail", "done"},
         NEW to \in Threads \cup {None}, st = "insert" => to \in Threads /\ S = {},
         st = "done" => E = {}, S \subseteq O, E \subseteq O \ S,
         postStage' = [postStage EXCEPT ![r] = st], postTo' = [postTo EXCEPT ![r] = to],
         unsent' = [unsent EXCEPT ![r] = E], owed' = [owed EXCEPT ![r] = O],
         sentMails' = [sentMails EXCEPT ![r] = S]
  PROVE  /\ PostsOK'
         /\ postStage' \in [Posts -> {"begin", "insert", "mail", "done"}]
         /\ postTo' \in [Posts -> Threads \cup {None}]
         /\ \A q \in Posts : /\ sentMails'[q] \subseteq owed'[q]
                             /\ unsent'[q] \subseteq owed'[q] \ sentMails'[q]
<1>1. /\ postStage \in [Posts -> {"begin", "insert", "mail", "done"}]
      /\ postTo \in [Posts -> Threads \cup {None}]
      /\ \A q \in Posts : /\ sentMails[q] \subseteq owed[q]
                          /\ unsent[q] \subseteq owed[q] \ sentMails[q]
  BY DEF ConvInv, ConvTypeOK
<1>2. PostsOK
  BY DEF ConvInv
<1>3. /\ unsent \in [Posts -> SUBSET Addressees] /\ sentMails \in [Posts -> SUBSET Addressees]
      /\ owed \in [Posts -> SUBSET Addressees]
  BY <1>2 DEF PostsOK
<1>4. \A q \in Posts :
        /\ postStage'[q] = (IF q = r THEN st ELSE postStage[q])
        /\ postTo'[q] = (IF q = r THEN to ELSE postTo[q])
        /\ unsent'[q] = (IF q = r THEN E ELSE unsent[q])
        /\ owed'[q] = (IF q = r THEN O ELSE owed[q])
        /\ sentMails'[q] = (IF q = r THEN S ELSE sentMails[q])
  BY <1>1, <1>3
<1>5. PostsOK'
  <2>1. /\ unsent' \in [Posts -> SUBSET Addressees] /\ sentMails' \in [Posts -> SUBSET Addressees]
        /\ owed' \in [Posts -> SUBSET Addressees]
    BY <1>3
  <2> QED
    BY <1>2, <1>4, <2>1 DEF PostsOK
<1>6. \A q \in Posts : /\ sentMails'[q] \subseteq owed'[q]
                       /\ unsent'[q] \subseteq owed'[q] \ sentMails'[q]
  BY <1>1, <1>4
<1> QED
  BY <1>1, <1>5, <1>6

(* A merge ends without a commit *)
LEMMA MergeGivenUp ==
  ASSUME ConvInv, NEW g \in MergeCalls, EndMerge(g), EnvTypeOK',
         UNCHANGED <<convStored, postVars, late, overlap>>
  PROVE  ConvInv'
<1>0. ConvTypeOK /\ MergesOK /\ MessagesFollow /\ MergesInTurn
  BY DEF ConvInv
<1>1. ConvTypeOK'
  BY <1>0 DEF EndMerge, ConvTypeOK, convStored, postVars
<1>2. \A h \in MergeCalls :
        /\ mergeStage'[h] = (IF h = g THEN "done" ELSE mergeStage[h])
        /\ primary'[h] = (IF h = g THEN None ELSE primary[h])
        /\ source'[h] = (IF h = g THEN None ELSE source[h])
        /\ matching'[h] = (IF h = g THEN {} ELSE matching[h])
        /\ moved'[h] = (IF h = g THEN {} ELSE moved[h])
        /\ closed'[h] = (IF h = g THEN {} ELSE closed[h])
  BY <1>0 DEF EndMerge, ConvTypeOK
<1>3. MergesOK'
  BY <1>0, <1>2, ConversationAssumption DEF MergesOK, Merging
<1>4. PostsOK'
  BY DEF ConvInv, PostsOK, postVars
<1>5. MessagesFollow'
  BY <1>0, <1>2 DEF MessagesFollow, CarriedOver, convStored
<1>6. MergesInTurn'
  BY <1>0, <1>2, ConversationAssumption DEF MergesInTurn, Merging, convStored
<1> QED
  BY <1>1, <1>3, <1>4, <1>5, <1>6 DEF ConvInv

(* One merge moves on inside its transaction: the tables, the history and  *)
(* the other merges are as before.  What it holds now must satisfy the     *)
(* invariant's clauses for it.                                             *)
LEMMA MergeMovesOn ==
  ASSUME ConvInv, NEW g \in MergeCalls, UNCHANGED environment,
         UNCHANGED <<convStored, postVars, late, overlap, primary>>,
         mergeStage' \in [MergeCalls -> {"begin", "next", "start", "move", "close", "done"}],
         source' \in [MergeCalls -> Threads \cup {None}],
         sources' \in [MergeCalls -> SUBSET Threads],
         matching' \in [MergeCalls -> SUBSET Messages],
         moved' \in [MergeCalls -> SUBSET Messages],
         closed' \in [MergeCalls -> SUBSET Threads],
         \A h \in MergeCalls : h # g =>
           /\ mergeStage'[h] = mergeStage[h] /\ source'[h] = source[h]
           /\ matching'[h] = matching[h] /\ moved'[h] = moved[h] /\ closed'[h] = closed[h],
         Merging(g), Merging(g)',
         source'[g] \in Threads <=> mergeStage'[g] \in {"start", "move", "close"},
         \A h \in MergeCalls \ {g} : moved'[g] \cap moved[h] = {} /\ closed'[g] \cap closed[h] = {},
         \A m \in Messages :
           /\ place[m] \in closed'[g] => m \in moved'[g] \/ <<m, place[m]>> \in late
           /\ mergeStage'[g] = "close" /\ place[m] = source'[g]
                => m \in moved'[g] \/ <<m, place[m]>> \in late
           /\ mergeStage'[g] = "move" /\ place[m] = source'[g]
                => m \in matching'[g] \/ <<m, place[m]>> \in late,
         ~overlap => \A t \in Threads : t \in closed'[g] \/ t = source'[g] => mergedInto[t] = None
  PROVE  ConvInv'
<1>0. ConvTypeOK /\ MergesOK /\ MessagesFollow /\ MergesInTurn
  BY DEF ConvInv
<1>1. \A h, k \in MergeCalls :
        h # k => moved[h] \cap moved[k] = {} /\ closed[h] \cap closed[k] = {}
  BY <1>0 DEF ConvTypeOK
<1>2. ConvTypeOK'
  <2>1. \A h, k \in MergeCalls :
          h # k => moved'[h] \cap moved'[k] = {} /\ closed'[h] \cap closed'[k] = {}
    BY <1>1
  <2>2. EnvTypeOK'
    BY <1>0, EnvironmentKept DEF ConvTypeOK
  <2> QED
    BY <1>0, <2>1, <2>2 DEF ConvTypeOK, convStored, postVars
<1>3. MergesOK'
  BY <1>0 DEF MergesOK, Merging
<1>4. PostsOK'
  BY DEF ConvInv, PostsOK, postVars
<1>5. MessagesFollow'
  <2>1. \A h \in MergeCalls, m \in Messages :
          /\ place[m] \in closed'[h] => m \in moved'[h] \/ <<m, place[m]>> \in late
          /\ mergeStage'[h] = "close" /\ place[m] = source'[h]
               => m \in moved'[h] \/ <<m, place[m]>> \in late
          /\ mergeStage'[h] = "move" /\ place[m] = source'[h]
               => m \in matching'[h] \/ <<m, place[m]>> \in late
    BY <1>0 DEF MessagesFollow
  <2> QED
    BY <1>0, <2>1 DEF MessagesFollow, CarriedOver, convStored
<1>6. MergesInTurn'
  BY <1>0 DEF MergesInTurn, Merging, convStored
<1> QED
  BY <1>2, <1>3, <1>4, <1>5, <1>6 DEF ConvInv

(* The commit of a merge: what it moved leaves the sources it closed, and  *)
(* what reaches a ticket another merge has looked at is late               *)
LEMMA MergeCommitted ==
  ASSUME ConvInv, NEW g \in MergeCalls, CommitMerge(g)
  PROVE  ConvInv'
<1>0. ConvTypeOK /\ MergesOK /\ PostsOK /\ MessagesFollow /\ MergesInTurn
  BY DEF ConvInv
<1>1. PICK p \in Threads : p = primary[g]
  BY <1>0 DEF CommitMerge, MergesOK, Merging
<1>a. /\ place \in [Messages -> Threads \cup {None}] /\ mergedInto \in [Threads -> Threads \cup {None}]
      /\ handled \in [Threads -> Nat] /\ late \subseteq Messages \X Threads
      /\ moved \in [MergeCalls -> SUBSET Messages] /\ closed \in [MergeCalls -> SUBSET Threads]
      /\ source \in [MergeCalls -> Threads \cup {None}]
      /\ \A h \in MergeCalls \ {g} : moved[g] \cap moved[h] = {} /\ closed[g] \cap closed[h] = {}
  BY <1>0 DEF ConvTypeOK
<1>2. /\ \A m \in Messages : place'[m] = IF m \in moved[g] THEN p ELSE place[m]
      /\ \A t \in Threads : mergedInto'[t] = IF t \in closed[g] THEN p ELSE mergedInto[t]
      /\ \A t \in Threads : handled'[t] = handled[t] + (IF t \in closed[g] THEN 1 ELSE 0)
      /\ late \subseteq late'
      /\ LookedAt(p) => \A m \in moved[g] : <<m, p>> \in late'
      /\ overlap' = overlap
  BY <1>1 DEF CommitMerge
<1>3. \A h \in MergeCalls :
        /\ mergeStage'[h] = (IF h = g THEN "done" ELSE mergeStage[h])
        /\ primary'[h] = (IF h = g THEN None ELSE primary[h])
        /\ source'[h] = (IF h = g THEN None ELSE source[h])
        /\ matching'[h] = (IF h = g THEN {} ELSE matching[h])
        /\ moved'[h] = (IF h = g THEN {} ELSE moved[h])
        /\ closed'[h] = (IF h = g THEN {} ELSE closed[h])
  BY <1>0 DEF CommitMerge, EndMerge, ConvTypeOK
<1>4. ConvTypeOK'
  <2>1. /\ place' \in [Messages -> Threads \cup {None}]
        /\ mergedInto' \in [Threads -> Threads \cup {None}]
        /\ handled' \in [Threads -> Nat]
    BY <1>a, <1>1 DEF CommitMerge
  <2>2. late' \subseteq Messages \X Threads
    BY <1>a, <1>1 DEF CommitMerge
  <2>3. EnvTypeOK'
    BY <1>0, EnvironmentKept DEF ConvTypeOK, CommitMerge
  <2>4. /\ mergeStage' \in [MergeCalls -> {"begin", "next", "start", "move", "close", "done"}]
        /\ primary' \in [MergeCalls -> Threads \cup {None}]
        /\ sources' \in [MergeCalls -> SUBSET Threads]
        /\ source' \in [MergeCalls -> Threads \cup {None}]
        /\ matching' \in [MergeCalls -> SUBSET Messages]
        /\ moved' \in [MergeCalls -> SUBSET Messages]
        /\ closed' \in [MergeCalls -> SUBSET Threads]
        /\ \A h, k \in MergeCalls :
             h # k => moved'[h] \cap moved'[k] = {} /\ closed'[h] \cap closed'[k] = {}
    BY <1>0 DEF CommitMerge, EndMerge, ConvTypeOK
  <2> QED
    BY <1>0, <2>1, <2>2, <2>3, <2>4 DEF ConvTypeOK, CommitMerge, postVars
<1>5. MergesOK'
  BY <1>0, <1>3, ConversationAssumption DEF MergesOK, Merging
<1>6. PostsOK'
  BY <1>0 DEF PostsOK, CommitMerge, postVars
<1>7. MessagesFollow'
  <2>1. ASSUME NEW m \in Messages, m \in moved[g], NEW h \in MergeCalls \ {g},
               \/ p \in closed[h]
               \/ mergeStage[h] \in {"close", "move"} /\ p = source[h]
        PROVE  <<m, p>> \in late'
    BY <1>2, <2>1 DEF LookedAt
  <2>2. ASSUME NEW m \in Messages, NEW h \in MergeCalls
        PROVE  /\ place'[m] \in closed'[h] => m \in moved'[h] \/ <<m, place'[m]>> \in late'
               /\ mergeStage'[h] = "close" /\ place'[m] = source'[h]
                    => m \in moved'[h] \/ <<m, place'[m]>> \in late'
               /\ mergeStage'[h] = "move" /\ place'[m] = source'[h]
                    => m \in matching'[h] \/ <<m, place'[m]>> \in late'
    <3>1. CASE h = g
      BY <1>3, <3>1
    <3>2. CASE h # g /\ m \in moved[g]
      BY <1>2, <1>3, <2>1, <3>2
    <3>3. CASE h # g /\ m \notin moved[g]
      BY <1>0, <1>2, <1>3, <3>3 DEF MessagesFollow
    <3> QED
      BY <3>1, <3>2, <3>3
  <2>3. ASSUME NEW m \in Messages, place'[m] # None, mergedInto'[place'[m]] # None
        PROVE  <<m, place'[m]>> \in late'
    <3>1. CASE m \in moved[g]
      <4>1. mergedInto[p] # None \/ p \in closed[g]
        BY <1>2, <2>3, <3>1
      <4> QED
        BY <1>2, <3>1, <4>1 DEF LookedAt
    <3>2. CASE m \notin moved[g]
      <4>1. place'[m] = place[m] /\ place[m] \in Threads
        BY <1>2, <1>a, <2>3, <3>2
      <4>2. CASE place[m] \in closed[g]
        BY <1>0, <1>2, <3>2, <4>1, <4>2 DEF MessagesFollow
      <4>3. CASE place[m] \notin closed[g]
        <5>1. mergedInto[place[m]] # None
          BY <1>2, <2>3, <4>1, <4>3
        <5> QED
          BY <1>0, <1>2, <2>3, <4>1, <5>1 DEF MessagesFollow, CarriedOver
      <4> QED
        BY <4>2, <4>3
    <3> QED
      BY <3>1, <3>2
  <2> QED
    BY <2>2, <2>3 DEF MessagesFollow, CarriedOver
<1>8. MergesInTurn'
  <2>1. SUFFICES ASSUME ~overlap
                 PROVE  /\ \A h, k \in MergeCalls : Merging(h)' /\ Merging(k)' => h = k
                        /\ \A h \in MergeCalls, t \in Threads :
                             t \in closed'[h] \/ t = source'[h] => mergedInto'[t] = None
                        /\ \A t \in Threads : handled'[t] <= 1 /\ (mergedInto'[t] = None => handled'[t] = 0)
    BY <1>2 DEF MergesInTurn
  <2>2. Merging(g) /\ \A h \in MergeCalls : Merging(h) => h = g
    BY <1>0, <2>1 DEF MergesInTurn, Merging, CommitMerge
  <2>3. \A h \in MergeCalls : ~Merging(h)' /\ closed'[h] = {} /\ source'[h] \notin Threads
    BY <1>0, <1>3, <2>2, ConversationAssumption DEF MergesOK, Merging
  <2>4. ASSUME NEW t \in Threads
        PROVE  handled'[t] <= 1 /\ (mergedInto'[t] = None => handled'[t] = 0)
    <3>1. handled[t] \in Nat /\ handled[t] <= 1 /\ (mergedInto[t] = None => handled[t] = 0)
      BY <1>0, <1>a, <2>1 DEF MergesInTurn
    <3>2. CASE t \in closed[g]
      <4>1. handled[t] = 0
        BY <1>0, <2>1, <3>1, <3>2 DEF MergesInTurn
      <4> QED
        BY <1>2, <3>2, <4>1, ConversationAssumption
    <3>3. CASE t \notin closed[g]
      BY <1>2, <3>1, <3>3
    <3> QED
      BY <3>2, <3>3
  <2> QED
    BY <2>3, <2>4
<1> QED
  BY <1>4, <1>5, <1>6, <1>7, <1>8 DEF ConvInv

(* The commit of a reply: it is late where a merge has looked *)
LEMMA ReplyCommitted ==
  ASSUME ConvInv, NEW r \in Posts, CommitPost(r)
  PROVE  ConvInv'
<1>0. ConvTypeOK /\ MergesOK /\ PostsOK /\ MessagesFollow /\ MergesInTurn
  BY DEF ConvInv
<1>1. PICK t \in Threads : t = postTo[r]
  BY <1>0 DEF CommitPost, PostsOK
<1>a. place \in [Messages -> Threads \cup {None}] /\ late \subseteq Messages \X Threads /\ r \in Messages
  BY <1>0 DEF ConvTypeOK, Messages
<1>2. /\ \A m \in Messages : place'[m] = IF m = r THEN t ELSE place[m]
      /\ late \subseteq late' /\ (LookedAt(t) => <<r, t>> \in late')
      /\ UNCHANGED <<environment, mergedInto, handled, mergeVars, postTo, unsent, sentMails,
                     owed, overlap>>
  BY <1>1, <1>a DEF CommitPost
<1>3. ConvTypeOK'
  <2>1. place' \in [Messages -> Threads \cup {None}] /\ late' \subseteq Messages \X Threads
    BY <1>1, <1>a DEF CommitPost
  <2>2. EnvTypeOK'
    BY <1>0, EnvironmentKept DEF ConvTypeOK, CommitPost
  <2>3. postStage' \in [Posts -> {"begin", "insert", "mail", "done"}]
    BY <1>0 DEF ConvTypeOK, CommitPost
  <2> QED
    BY <1>0, <1>2, <2>1, <2>2, <2>3 DEF ConvTypeOK, mergeVars
<1>4. MergesOK' /\ MergesInTurn'
  BY <1>0, <1>2 DEF MergesOK, MergesInTurn, Merging, mergeVars
<1>5. PostsOK'
  <2>1. \A q \in Posts : postStage'[q] = IF q = r THEN "mail" ELSE postStage[q]
    BY <1>0 DEF ConvTypeOK, CommitPost
  <2> QED
    BY <1>0, <1>2, <2>1 DEF PostsOK
<1>6. MessagesFollow'
  <2>1. \A h \in MergeCalls :
          t \in closed[h] \/ (mergeStage[h] \in {"close", "move"} /\ t = source[h]) => <<r, t>> \in late'
    BY <1>2 DEF LookedAt
  <2>2. mergedInto[t] # None => <<r, t>> \in late'
    BY <1>2 DEF LookedAt
  <2> QED
    BY <1>0, <1>2, <2>1, <2>2 DEF MessagesFollow, CarriedOver, mergeVars
<1> QED
  BY <1>3, <1>4, <1>5, <1>6 DEF ConvInv

(* One step per action *)
LEMMA ConvNextInv == ConvInv /\ [ConvNext]_vvars => ConvInv'
<1> SUFFICES ASSUME ConvInv, [ConvNext]_vvars
             PROVE  ConvInv'
  OBVIOUS
<1>0. ConvTypeOK /\ MergesOK /\ PostsOK /\ MessagesFollow /\ MergesInTurn
  BY DEF ConvInv
<1>a. /\ EnvTypeOK
      /\ mergeStage \in [MergeCalls -> {"begin", "next", "start", "move", "close", "done"}]
      /\ primary \in [MergeCalls -> Threads \cup {None}]
      /\ source \in [MergeCalls -> Threads \cup {None}]
      /\ sources \in [MergeCalls -> SUBSET Threads]
      /\ matching \in [MergeCalls -> SUBSET Messages]
      /\ moved \in [MergeCalls -> SUBSET Messages]
      /\ closed \in [MergeCalls -> SUBSET Threads]
      /\ \A h, k \in MergeCalls :
           h # k => moved[h] \cap moved[k] = {} /\ closed[h] \cap closed[k] = {}
      /\ postStage \in [Posts -> {"begin", "insert", "mail", "done"}]
      /\ postTo \in [Posts -> Threads \cup {None}]
      /\ \A q \in Posts : /\ sentMails[q] \subseteq owed[q]
                          /\ unsent[q] \subseteq owed[q] \ sentMails[q]
  BY <1>0 DEF ConvTypeOK
<1>b. /\ unsent \in [Posts -> SUBSET Addressees] /\ sentMails \in [Posts -> SUBSET Addressees]
      /\ owed \in [Posts -> SUBSET Addressees]
  BY <1>0 DEF PostsOK
<1>c. \A g \in MergeCalls : /\ source[g] \in Threads <=> mergeStage[g] \in {"start", "move", "close"}
                            /\ ~Merging(g) => moved[g] = {} /\ closed[g] = {}
  BY <1>0 DEF MergesOK
<1>d. \A g \in MergeCalls, m \in Messages :
        /\ place[m] \in closed[g] => m \in moved[g] \/ <<m, place[m]>> \in late
        /\ mergeStage[g] = "close" /\ place[m] = source[g]
             => m \in moved[g] \/ <<m, place[m]>> \in late
        /\ mergeStage[g] = "move" /\ place[m] = source[g]
             => m \in matching[g] \/ <<m, place[m]>> \in late
  BY <1>0 DEF MessagesFollow
<1>e. ~overlap => \A g \in MergeCalls, t \in Threads :
                    t \in closed[g] \/ t = source[g] => mergedInto[t] = None
  BY <1>0 DEF MergesInTurn
<1>1. ASSUME NEW g \in MergeCalls, BeginMerge(g)
      PROVE  ConvInv'
  <2>1. PICK t \in Threads, S \in SUBSET Threads :
          primary' = [primary EXCEPT ![g] = t] /\ sources' = [sources EXCEPT ![g] = S]
    BY <1>1 DEF BeginMerge
  <2>2. /\ mergeStage' = [mergeStage EXCEPT ![g] = "next"]
        /\ overlap' = (overlap \/ \E h \in MergeCalls : Merging(h))
        /\ UNCHANGED <<environment, convStored, source, matching, moved, closed, postVars, late>>
        /\ mergeStage[g] = "begin"
    BY <1>1 DEF BeginMerge
  <2>3. ConvTypeOK'
    <3>1. overlap' \in BOOLEAN
      BY <1>0, <2>2 DEF ConvTypeOK
    <3>2. EnvTypeOK'
      BY <1>a, <2>2, EnvironmentKept
    <3>3. /\ primary' \in [MergeCalls -> Threads \cup {None}] /\ sources' \in [MergeCalls -> SUBSET Threads]
          /\ mergeStage' \in [MergeCalls -> {"begin", "next", "start", "move", "close", "done"}]
      BY <1>a, <2>1, <2>2
    <3> QED
      BY <1>0, <2>2, <3>1, <3>2, <3>3 DEF ConvTypeOK, convStored, postVars
  <2>4. \A h \in MergeCalls : /\ mergeStage'[h] = (IF h = g THEN "next" ELSE mergeStage[h])
                              /\ primary'[h] = (IF h = g THEN t ELSE primary[h])
    BY <1>a, <2>1, <2>2
  <2>5. MergesOK'
    BY <1>0, <2>2, <2>4 DEF MergesOK, Merging
  <2>6. PostsOK'
    BY <1>0, <2>2 DEF PostsOK, postVars
  <2>7. MessagesFollow'
    BY <1>0, <2>2, <2>4 DEF MessagesFollow, CarriedOver, convStored
  <2>8. MergesInTurn'
    BY <1>0, <2>2, <2>4 DEF MergesInTurn, Merging, convStored
  <2> QED
    BY <2>3, <2>5, <2>6, <2>7, <2>8 DEF ConvInv
<1>2. ASSUME NEW g \in MergeCalls, ReadSource(g)
      PROVE  ConvInv'
  <2>1. PICK s \in sources[g] :
          /\ sources' = [sources EXCEPT ![g] = @ \ {s}]
          /\ \/ mergeStage' = mergeStage /\ source' = source
             \/ /\ ~Skipped(s) /\ source' = [source EXCEPT ![g] = s]
                /\ mergeStage' = [mergeStage EXCEPT ![g] = "start"]
    BY <1>2 DEF ReadSource
  <2>2. UNCHANGED environment /\ UNCHANGED <<convStored, postVars, late, overlap, primary>>
    BY <1>2 DEF ReadSource
  <2>3. /\ mergeStage' \in [MergeCalls -> {"begin", "next", "start", "move", "close", "done"}]
        /\ source' \in [MergeCalls -> Threads \cup {None}]
        /\ sources' \in [MergeCalls -> SUBSET Threads]
        /\ matching' \in [MergeCalls -> SUBSET Messages]
        /\ moved' \in [MergeCalls -> SUBSET Messages]
        /\ closed' \in [MergeCalls -> SUBSET Threads]
        /\ \A h \in MergeCalls : h # g =>
             /\ mergeStage'[h] = mergeStage[h] /\ source'[h] = source[h]
             /\ matching'[h] = matching[h] /\ moved'[h] = moved[h] /\ closed'[h] = closed[h]
    BY <1>2, <1>a, <2>1 DEF ReadSource
  <2>4. /\ mergeStage[g] = "next" /\ source[g] \notin Threads
        /\ matching' = matching /\ moved' = moved /\ closed' = closed
        /\ \/ mergeStage'[g] = "next" /\ source'[g] = source[g]
           \/ mergeStage'[g] = "start" /\ source'[g] = s /\ mergedInto[s] = None /\ s \in Threads
    BY <1>2, <1>a, <1>c, <2>1 DEF ReadSource, Skipped
  <2>5. Merging(g) /\ Merging(g)' /\ (source'[g] \in Threads <=> mergeStage'[g] \in {"start", "move", "close"})
    BY <2>4 DEF Merging
  <2>6. \A h \in MergeCalls \ {g} : moved'[g] \cap moved[h] = {} /\ closed'[g] \cap closed[h] = {}
    BY <1>a, <2>4
  <2>7. \A m \in Messages :
          /\ place[m] \in closed'[g] => m \in moved'[g] \/ <<m, place[m]>> \in late
          /\ mergeStage'[g] # "close" /\ mergeStage'[g] # "move"
    BY <1>d, <2>4
  <2>8. ~overlap => \A t \in Threads : t \in closed'[g] \/ t = source'[g] => mergedInto[t] = None
    BY <1>e, <2>4
  <2> QED
    BY <2>2, <2>3, <2>5, <2>6, <2>7, <2>8, MergeMovesOn
<1>3. ASSUME NEW g \in MergeCalls, StartMove(g)
      PROVE  ConvInv'
  <2>1. PICK M \in SUBSET Messages : M = {m \in Messages : place[m] = source[g]}
    OBVIOUS
  <2>2. UNCHANGED environment /\ UNCHANGED <<convStored, postVars, late, overlap, primary>>
    BY <1>3 DEF StartMove
  <2>a. matching' = [matching EXCEPT ![g] = M] /\ mergeStage' = [mergeStage EXCEPT ![g] = "move"]
    BY <1>3, <2>1 DEF StartMove
  <2>3. /\ mergeStage' \in [MergeCalls -> {"begin", "next", "start", "move", "close", "done"}]
        /\ source' \in [MergeCalls -> Threads \cup {None}]
        /\ sources' \in [MergeCalls -> SUBSET Threads]
        /\ matching' \in [MergeCalls -> SUBSET Messages]
        /\ moved' \in [MergeCalls -> SUBSET Messages]
        /\ closed' \in [MergeCalls -> SUBSET Threads]
        /\ \A h \in MergeCalls : h # g =>
             /\ mergeStage'[h] = mergeStage[h] /\ source'[h] = source[h]
             /\ matching'[h] = matching[h] /\ moved'[h] = moved[h] /\ closed'[h] = closed[h]
    BY <1>3, <1>a, <2>a DEF StartMove
  <2>4. /\ mergeStage[g] = "start" /\ source[g] \in Threads /\ mergeStage'[g] = "move"
        /\ matching'[g] = M /\ moved' = moved /\ closed' = closed /\ source' = source
    BY <1>3, <1>a, <1>c, <2>a DEF StartMove
  <2>5. Merging(g) /\ Merging(g)' /\ (source'[g] \in Threads <=> mergeStage'[g] \in {"start", "move", "close"})
    BY <2>4 DEF Merging
  <2>6. \A h \in MergeCalls \ {g} : moved'[g] \cap moved[h] = {} /\ closed'[g] \cap closed[h] = {}
    BY <1>a, <2>4
  <2>7. \A m \in Messages :
          /\ place[m] \in closed'[g] => m \in moved'[g] \/ <<m, place[m]>> \in late
          /\ mergeStage'[g] # "close"
          /\ place[m] = source'[g] => m \in matching'[g]
    BY <1>d, <2>1, <2>4
  <2>8. ~overlap => \A t \in Threads : t \in closed'[g] \/ t = source'[g] => mergedInto[t] = None
    BY <1>e, <2>4
  <2> QED
    BY <2>2, <2>3, <2>5, <2>6, <2>7, <2>8, MergeMovesOn
<1>4. ASSUME NEW g \in MergeCalls, MoveMessages(g)
      PROVE  ConvInv'
  <2>1. PICK M : M = Moving(g)
    OBVIOUS
  <2>2. UNCHANGED environment /\ UNCHANGED <<convStored, postVars, late, overlap, primary>>
    BY <1>4 DEF MoveMessages
  <2>a. /\ matching' = [matching EXCEPT ![g] = {}] /\ mergeStage' = [mergeStage EXCEPT ![g] = "close"]
        /\ moved' = [moved EXCEPT ![g] = @ \cup M] /\ M \subseteq Messages
    BY <1>4, <1>a, <2>1 DEF MoveMessages, Moving
  <2>3. /\ mergeStage' \in [MergeCalls -> {"begin", "next", "start", "move", "close", "done"}]
        /\ source' \in [MergeCalls -> Threads \cup {None}]
        /\ sources' \in [MergeCalls -> SUBSET Threads]
        /\ matching' \in [MergeCalls -> SUBSET Messages]
        /\ moved' \in [MergeCalls -> SUBSET Messages]
        /\ closed' \in [MergeCalls -> SUBSET Threads]
        /\ \A h \in MergeCalls : h # g =>
             /\ mergeStage'[h] = mergeStage[h] /\ source'[h] = source[h]
             /\ matching'[h] = matching[h] /\ moved'[h] = moved[h] /\ closed'[h] = closed[h]
    BY <1>4, <1>a, <2>a DEF MoveMessages
  <2>4. /\ mergeStage[g] = "move" /\ source[g] \in Threads /\ mergeStage'[g] = "close"
        /\ moved'[g] = moved[g] \cup M /\ closed' = closed /\ source' = source
    BY <1>4, <1>a, <1>c, <2>a DEF MoveMessages
  <2>5. Merging(g) /\ Merging(g)' /\ (source'[g] \in Threads <=> mergeStage'[g] \in {"start", "move", "close"})
    BY <2>4 DEF Merging
  <2>6. \A h \in MergeCalls \ {g} : moved'[g] \cap moved[h] = {} /\ closed'[g] \cap closed[h] = {}
    BY <1>4, <1>a, <2>1, <2>4 DEF MoveMessages, MoveWaits
  <2>7. \A m \in Messages :
          /\ place[m] \in closed'[g] => m \in moved'[g] \/ <<m, place[m]>> \in late
          /\ mergeStage'[g] # "move"
          /\ place[m] = source'[g] => m \in moved'[g] \/ <<m, place[m]>> \in late
    BY <1>d, <2>1, <2>4 DEF Moving
  <2>8. ~overlap => \A t \in Threads : t \in closed'[g] \/ t = source'[g] => mergedInto[t] = None
    BY <1>e, <2>4
  <2> QED
    BY <2>2, <2>3, <2>5, <2>6, <2>7, <2>8, MergeMovesOn
<1>5. ASSUME NEW g \in MergeCalls, CloseSource(g)
      PROVE  ConvInv'
  <2>1. PICK s \in Threads : s = source[g]
    BY <1>5, <1>c DEF CloseSource
  <2>2. UNCHANGED environment /\ UNCHANGED <<convStored, postVars, late, overlap, primary>>
    BY <1>5 DEF CloseSource
  <2>a. /\ mergeStage' = [mergeStage EXCEPT ![g] = "next"] /\ source' = [source EXCEPT ![g] = None]
        /\ closed' = [closed EXCEPT ![g] = @ \cup {s}]
    BY <1>5, <2>1 DEF CloseSource
  <2>3. /\ mergeStage' \in [MergeCalls -> {"begin", "next", "start", "move", "close", "done"}]
        /\ source' \in [MergeCalls -> Threads \cup {None}]
        /\ sources' \in [MergeCalls -> SUBSET Threads]
        /\ matching' \in [MergeCalls -> SUBSET Messages]
        /\ moved' \in [MergeCalls -> SUBSET Messages]
        /\ closed' \in [MergeCalls -> SUBSET Threads]
        /\ \A h \in MergeCalls : h # g =>
             /\ mergeStage'[h] = mergeStage[h] /\ source'[h] = source[h]
             /\ matching'[h] = matching[h] /\ moved'[h] = moved[h] /\ closed'[h] = closed[h]
    BY <1>5, <1>a, <2>a DEF CloseSource
  <2>4. /\ mergeStage[g] = "close" /\ mergeStage'[g] = "next"
        /\ closed'[g] = closed[g] \cup {s} /\ moved' = moved /\ source'[g] = None
    BY <1>5, <1>a, <2>a DEF CloseSource
  <2>5. Merging(g) /\ Merging(g)' /\ (source'[g] \in Threads <=> mergeStage'[g] \in {"start", "move", "close"})
    BY <2>4, ConversationAssumption DEF Merging
  <2>6. \A h \in MergeCalls \ {g} : moved'[g] \cap moved[h] = {} /\ closed'[g] \cap closed[h] = {}
    BY <1>5, <1>a, <2>1, <2>4 DEF CloseSource, CloseWaits
  <2>7. \A m \in Messages :
          /\ place[m] \in closed'[g] => m \in moved'[g] \/ <<m, place[m]>> \in late
          /\ mergeStage'[g] # "close" /\ mergeStage'[g] # "move"
    BY <1>d, <2>1, <2>4
  <2>8. ~overlap => \A t \in Threads : t \in closed'[g] \/ t = source'[g] => mergedInto[t] = None
    BY <1>e, <2>1, <2>4, ConversationAssumption
  <2> QED
    BY <2>2, <2>3, <2>5, <2>6, <2>7, <2>8, MergeMovesOn
<1>6. ASSUME NEW g \in MergeCalls, CommitMerge(g)
      PROVE  ConvInv'
  BY <1>6, MergeCommitted
<1>7. ASSUME NEW g \in MergeCalls, MergeDeadlock(g) \/ MergeFails(g)
      PROVE  ConvInv'
  BY <1>7, <1>a, MergeGivenUp, EnvironmentKept, FaultTyped DEF MergeDeadlock, MergeFails

<1>8. ASSUME NEW r \in Posts, BeginPost(r)
      PROVE  ConvInv'
  <2>1. PICK t \in Threads : postTo' = [postTo EXCEPT ![r] = t]
    BY <1>8 DEF BeginPost
  <2>2. PICK E \in SUBSET Addressees :
          unsent' = [unsent EXCEPT ![r] = E] /\ owed' = [owed EXCEPT ![r] = E]
    BY <1>8 DEF BeginPost
  <2>3. /\ postStage[r] = "begin" /\ sentMails[r] = {} /\ {} \in SUBSET Addressees
        /\ postStage' = [postStage EXCEPT ![r] = "insert"]
        /\ sentMails' = [sentMails EXCEPT ![r] = {}]
        /\ UNCHANGED environment /\ UNCHANGED <<convStored, mergeVars, late, overlap>>
    BY <1>0, <1>8, <1>b DEF BeginPost, PostsOK
  <2>4. EnvTypeOK'
    BY <1>a, <2>3, EnvironmentKept
  <2>5. /\ PostsOK'
        /\ postStage' \in [Posts -> {"begin", "insert", "mail", "done"}]
        /\ postTo' \in [Posts -> Threads \cup {None}]
        /\ \A q \in Posts : /\ sentMails'[q] \subseteq owed'[q]
                            /\ unsent'[q] \subseteq owed'[q] \ sentMails'[q]
    BY <2>1, <2>2, <2>3, EmailsChange
  <2> QED
    BY <2>3, <2>4, <2>5, RepliesApart
<1>9. ASSUME NEW r \in Posts, CommitPost(r)
      PROVE  ConvInv'
  BY <1>9, ReplyCommitted
<1>10. ASSUME NEW r \in Posts, SendPost(r)
       PROVE  ConvInv'
  <2>1. PICK x \in NextRecipients(r) :
          /\ sentMails' = [sentMails EXCEPT ![r] = @ \cup {x}]
          /\ unsent' = [unsent EXCEPT ![r] = @ \ {x}]
    BY <1>10 DEF SendPost
  <2>2. x \in unsent[r]
    BY DEF NextRecipients
  <2>3. /\ postStage[r] = "mail" /\ owed[r] \in SUBSET Addressees /\ postTo[r] \in Threads \cup {None}
        /\ sentMails[r] \cup {x} \in SUBSET Addressees /\ unsent[r] \ {x} \in SUBSET Addressees
        /\ sentMails[r] \cup {x} \subseteq owed[r]
        /\ unsent[r] \ {x} \subseteq owed[r] \ (sentMails[r] \cup {x})
    BY <1>10, <1>a, <1>b, <2>2 DEF SendPost
  <2>4. /\ postStage' = [postStage EXCEPT ![r] = "mail"] /\ postTo' = [postTo EXCEPT ![r] = postTo[r]]
        /\ owed' = [owed EXCEPT ![r] = owed[r]]
        /\ sentMails' = [sentMails EXCEPT ![r] = sentMails[r] \cup {x}]
        /\ unsent' = [unsent EXCEPT ![r] = unsent[r] \ {x}]
        /\ UNCHANGED environment /\ UNCHANGED <<convStored, mergeVars, late, overlap>>
    <3>1. /\ sentMails' = [sentMails EXCEPT ![r] = sentMails[r] \cup {x}]
          /\ unsent' = [unsent EXCEPT ![r] = unsent[r] \ {x}]
      BY <2>1
    <3>2. /\ postStage' = [postStage EXCEPT ![r] = "mail"] /\ postTo' = [postTo EXCEPT ![r] = postTo[r]]
          /\ owed' = [owed EXCEPT ![r] = owed[r]]
      BY <1>10, <1>a, <1>b, <2>3 DEF SendPost
    <3> QED
      BY <1>10, <3>1, <3>2 DEF SendPost
  <2>5. EnvTypeOK'
    BY <1>a, <2>4, EnvironmentKept
  <2>6. /\ PostsOK'
        /\ postStage' \in [Posts -> {"begin", "insert", "mail", "done"}]
        /\ postTo' \in [Posts -> Threads \cup {None}]
        /\ \A q \in Posts : /\ sentMails'[q] \subseteq owed'[q]
                            /\ unsent'[q] \subseteq owed'[q] \ sentMails'[q]
    BY <2>3, <2>4, EmailsChange, ZenonT(60)
  <2> QED
    BY <2>4, <2>5, <2>6, RepliesApart
<1>11. ASSUME NEW r \in Posts, SendFails(r)
       PROVE  ConvInv'
  <2>1. PICK E \in SUBSET unsent[r] : unsent' = [unsent EXCEPT ![r] = E]
    <3>1. PICK x : unsent' = [unsent EXCEPT ![r] = unsent[r] \ {x}] \/ unsent' = [unsent EXCEPT ![r] = {}]
      BY <1>11, <1>b DEF SendFails
    <3> QED
      BY <3>1
  <2>2. /\ postStage[r] = "mail" /\ owed[r] \in SUBSET Addressees /\ postTo[r] \in Threads \cup {None}
        /\ sentMails[r] \in SUBSET Addressees /\ E \in SUBSET Addressees
        /\ sentMails[r] \subseteq owed[r] /\ E \subseteq owed[r] \ sentMails[r]
    BY <1>11, <1>a, <1>b DEF SendFails
  <2>3. /\ postStage' = [postStage EXCEPT ![r] = "mail"] /\ postTo' = [postTo EXCEPT ![r] = postTo[r]]
        /\ owed' = [owed EXCEPT ![r] = owed[r]] /\ sentMails' = [sentMails EXCEPT ![r] = sentMails[r]]
        /\ Fault /\ UNCHANGED <<convStored, mergeVars, late, overlap>>
    BY <1>11, <1>a, <1>b, <2>2 DEF SendFails
  <2>4. EnvTypeOK'
    BY <1>a, <2>3, FaultTyped
  <2>5. /\ PostsOK'
        /\ postStage' \in [Posts -> {"begin", "insert", "mail", "done"}]
        /\ postTo' \in [Posts -> Threads \cup {None}]
        /\ \A q \in Posts : /\ sentMails'[q] \subseteq owed'[q]
                            /\ unsent'[q] \subseteq owed'[q] \ sentMails'[q]
    BY <2>1, <2>2, <2>3, EmailsChange
  <2> QED
    BY <2>3, <2>4, <2>5, RepliesApart
<1>12. ASSUME NEW r \in Posts, PostEnds(r)
       PROVE  ConvInv'
  <2>1. /\ owed[r] \in SUBSET Addressees /\ postTo[r] \in Threads \cup {None}
        /\ sentMails[r] \in SUBSET Addressees /\ {} \in SUBSET Addressees
        /\ sentMails[r] \subseteq owed[r]
    BY <1>a, <1>b
  <2>2. /\ postStage' = [postStage EXCEPT ![r] = "done"] /\ postTo' = [postTo EXCEPT ![r] = postTo[r]]
        /\ owed' = [owed EXCEPT ![r] = owed[r]] /\ sentMails' = [sentMails EXCEPT ![r] = sentMails[r]]
        /\ unsent' = [unsent EXCEPT ![r] = {}]
        /\ UNCHANGED environment /\ UNCHANGED <<convStored, mergeVars, late, overlap>>
    BY <1>12, <1>a, <1>b DEF PostEnds
  <2>3. EnvTypeOK'
    BY <1>a, <2>2, EnvironmentKept
  <2>4. /\ PostsOK'
        /\ postStage' \in [Posts -> {"begin", "insert", "mail", "done"}]
        /\ postTo' \in [Posts -> Threads \cup {None}]
        /\ \A q \in Posts : /\ sentMails'[q] \subseteq owed'[q]
                            /\ unsent'[q] \subseteq owed'[q] \ sentMails'[q]
    BY <2>1, <2>2, EmailsChange
  <2> QED
    BY <2>2, <2>3, <2>4, RepliesApart
<1>13. ASSUME NEW r \in Posts, PostFails(r)
       PROVE  ConvInv'
  <2>1. /\ sentMails[r] = {} /\ {} \in SUBSET Addressees /\ postTo[r] \in Threads \cup {None}
    BY <1>0, <1>13, <1>a DEF PostFails, PostsOK
  <2>2. /\ postStage' = [postStage EXCEPT ![r] = "done"] /\ postTo' = [postTo EXCEPT ![r] = postTo[r]]
        /\ owed' = [owed EXCEPT ![r] = {}] /\ sentMails' = [sentMails EXCEPT ![r] = {}]
        /\ unsent' = [unsent EXCEPT ![r] = {}]
        /\ Fault /\ UNCHANGED <<convStored, mergeVars, late, overlap>>
    BY <1>13, <1>a, <1>b, <2>1 DEF PostFails
  <2>3. EnvTypeOK'
    BY <1>a, <2>2, FaultTyped
  <2>4. /\ PostsOK'
        /\ postStage' \in [Posts -> {"begin", "insert", "mail", "done"}]
        /\ postTo' \in [Posts -> Threads \cup {None}]
        /\ \A q \in Posts : /\ sentMails'[q] \subseteq owed'[q]
                            /\ unsent'[q] \subseteq owed'[q] \ sentMails'[q]
    BY <2>1, <2>2, EmailsChange
  <2> QED
    BY <2>2, <2>3, <2>4, RepliesApart
<1>14. CASE UNCHANGED vvars
  <2>1. EnvTypeOK' /\ PostsOK'
    BY <1>0, <1>14, <1>a, EnvironmentKept DEF vvars, convVars, PostsOK, postVars
  <2> QED
    BY <1>14, <1>a, <2>1, RepliesApart DEF vvars, convVars, postVars
<1> QED
  BY <1>1, <1>2, <1>3, <1>4, <1>5, <1>6, <1>7, <1>8, <1>9, <1>10, <1>11, <1>12, <1>13, <1>14
     DEF ConvNext

(* Tickets, messages, merges and replies stay in their types, and no row   *)
(* is updated by two merges at once.                                       *)
THEOREM ConvTypeCorrect == ConvSpec => []ConvTypeOK
<1>1. ConvInit => ConvInv
  BY ConvInitInv
<1>2. ConvInv /\ [ConvNext]_vvars => ConvInv'
  BY ConvNextInv
<1>3. ConvInv => ConvTypeOK
  BY DEF ConvInv
<1> QED
  BY <1>1, <1>2, <1>3, PTL DEF ConvSpec, vvars

(* No message is left behind in a merged ticket unless it came after the   *)
(* merge had looked, however many merges of the same tickets wait for each *)
(* other, deadlock or roll back.                                           *)
THEOREM MessagesCarriedOver == ConvSpec => []CarriedOver
<1>1. ConvInit => ConvInv
  BY ConvInitInv
<1>2. ConvInv /\ [ConvNext]_vvars => ConvInv'
  BY ConvNextInv
<1>3. ConvInv => CarriedOver
  BY DEF ConvInv, MessagesFollow
<1> QED
  BY <1>1, <1>2, <1>3, PTL DEF ConvSpec, vvars

(* A source already merged is skipped: as long as merges do not overlap,   *)
(* no ticket is closed by two of them.                                     *)
THEOREM MergedOnce == ConvSpec => []MergedOnceInTurn
<1>1. ConvInit => ConvInv
  BY ConvInitInv
<1>2. ConvInv /\ [ConvNext]_vvars => ConvInv'
  BY ConvNextInv
<1>3. ConvInv => MergedOnceInTurn
  BY DEF ConvInv, MergesInTurn, MergedOnceInTurn
<1> QED
  BY <1>1, <1>2, <1>3, PTL DEF ConvSpec, vvars

-----------------------------------------------------------------------------
(* Conversation: emails *)

(* Emails that are neither sent nor still to be sent *)
Dropped(r) == owed[r] \ (sentMails[r] \cup unsent[r])

(* The inductive invariant of the emails: a failure drops one, unless the  *)
(* assigned agent's is among those dropped                                 *)
DropsCounted == \A r \in Posts : "assignee" \in Dropped(r) \/ Cardinality(Dropped(r)) <= faults

LEMMA AddresseesFinite == IsFiniteSet(Addressees)
<1>1. IsFiniteSet({"requester", "assignee"})
  <2>1. IsFiniteSet({"requester"} \cup {"assignee"})
    BY FS_Singleton, FS_Union
  <2> QED
    BY <2>1
<1> QED
  BY <1>1, FS_Union, ConversationAssumption DEF Addressees

LEMMA DropCounts ==
  ASSUME NEW A \in SUBSET Addressees, NEW B, NEW x, B \subseteq A \cup {x}
  PROVE  /\ Cardinality(A) \in Nat /\ Cardinality(B) \in Nat
         /\ Cardinality(B) <= Cardinality(A) + 1
         /\ B \subseteq A => Cardinality(B) <= Cardinality(A)
<1>1. IsFiniteSet(A)
  BY AddresseesFinite, FS_Subset
<1>2. /\ IsFiniteSet(A \cup {x}) /\ Cardinality(A) \in Nat
      /\ Cardinality(A \cup {x}) \in {Cardinality(A), Cardinality(A) + 1}
  BY <1>1, FS_AddElement, FS_CardinalityType
<1>3. IsFiniteSet(B) /\ Cardinality(B) <= Cardinality(A \cup {x}) /\ Cardinality(B) \in Nat
  BY <1>2, FS_Subset, FS_CardinalityType
<1>4. B \subseteq A => Cardinality(B) <= Cardinality(A)
  BY <1>1, FS_Subset
<1> QED
  BY <1>2, <1>3, <1>4

LEMMA ConvInitCounted == ConvInit => DropsCounted
<1> SUFFICES ASSUME ConvInit, NEW r \in Posts
             PROVE  Cardinality(Dropped(r)) <= faults
  BY DEF DropsCounted
<1>1. Dropped(r) = {}
  BY DEF ConvInit, Dropped
<1> QED
  BY <1>1, FS_EmptySet DEF ConvInit, EnvInit

LEMMA ConvNextCounted ==
  ASSUME ConvInv, ConvInv', DropsCounted, [ConvNext]_vvars
  PROVE  DropsCounted'
<1>0. PostsOK /\ PostsOK' /\ ConvTypeOK /\ ConvTypeOK'
  BY DEF ConvInv
<1>a. /\ unsent \in [Posts -> SUBSET Addressees] /\ sentMails \in [Posts -> SUBSET Addressees]
      /\ owed \in [Posts -> SUBSET Addressees]
      /\ faults \in Nat /\ faults' \in Nat
      /\ \A q \in Posts : unsent[q] \subseteq owed[q] \ sentMails[q]
  BY <1>0, EnvironmentAssumption DEF PostsOK, ConvTypeOK, EnvTypeOK
<1>b. ASSUME NEW q \in Posts, faults' >= faults, Dropped(q)' \subseteq Dropped(q) \/ "assignee" \in Dropped(q)',
             Dropped(q) \subseteq Dropped(q)' \/ "assignee" \notin Dropped(q)
      PROVE  "assignee" \in Dropped(q)' \/ Cardinality(Dropped(q)') <= faults'
  <2>1. PICK A \in SUBSET Addressees : A = Dropped(q)
    BY <1>a DEF Dropped
  <2>2. PICK B : B = Dropped(q)'
    OBVIOUS
  <2>3. CASE B \subseteq A /\ "assignee" \notin A
    <3>1. Cardinality(B) <= Cardinality(A) /\ Cardinality(A) \in Nat /\ Cardinality(B) \in Nat
      BY <2>3, DropCounts
    <3>2. Cardinality(A) <= faults
      BY <2>1, <2>3 DEF DropsCounted
    <3>3. Cardinality(B) <= faults'
      BY <1>a, <1>b, <3>1, <3>2
    <3> QED
      BY <2>2, <3>3
  <2>4. CASE "assignee" \in A
    BY <1>b, <2>1, <2>4
  <2>5. CASE "assignee" \in B
    BY <2>2, <2>5
  <2> QED
    BY <1>b, <2>1, <2>2, <2>3, <2>4, <2>5
<1>c. ASSUME NEW q \in Posts, faults' >= faults, Dropped(q)' = Dropped(q)
      PROVE  "assignee" \in Dropped(q)' \/ Cardinality(Dropped(q)') <= faults'
  BY <1>b, <1>c
<1>d. ASSUME NEW q \in Posts, Dropped(q)' = {}
      PROVE  "assignee" \in Dropped(q)' \/ Cardinality(Dropped(q)') <= faults'
  BY <1>a, <1>d, FS_EmptySet
<1>1. ASSUME UNCHANGED <<owed, sentMails, unsent>>, faults' >= faults
      PROVE  DropsCounted'
  <2>1. \A q \in Posts : Dropped(q)' = Dropped(q)
    BY <1>1 DEF Dropped
  <2> QED
    BY <1>1, <1>c, <2>1 DEF DropsCounted
<1>2. ASSUME NEW r \in Posts, BeginPost(r) \/ PostFails(r) \/ SendPost(r)
      PROVE  DropsCounted'
  <2>1. faults' >= faults
    BY <1>2, <1>a DEF BeginPost, PostFails, SendPost, Fault, environment
  <2>2. ASSUME NEW q \in Posts, q # r
        PROVE  Dropped(q)' = Dropped(q)
    BY <1>2, <1>a, <2>2 DEF BeginPost, PostFails, SendPost, Dropped
  <2>3. CASE BeginPost(r)
    <3>1. PICK E \in SUBSET Addressees :
            unsent' = [unsent EXCEPT ![r] = E] /\ owed' = [owed EXCEPT ![r] = E]
      BY <2>3 DEF BeginPost
    <3>2. Dropped(r)' = {}
      BY <1>a, <3>1 DEF Dropped
    <3> QED
      BY <1>c, <1>d, <2>1, <2>2, <3>2 DEF DropsCounted
  <2>4. CASE PostFails(r)
    <3>1. Dropped(r)' = {}
      BY <1>a, <2>4 DEF PostFails, Dropped
    <3> QED
      BY <1>c, <1>d, <2>1, <2>2, <3>1 DEF DropsCounted
  <2>5. CASE SendPost(r)
    <3>1. PICK x : sentMails' = [sentMails EXCEPT ![r] = @ \cup {x}] /\ unsent' = [unsent EXCEPT ![r] = @ \ {x}]
      BY <2>5 DEF SendPost
    <3>2. x \in unsent[r]
      <4>1. PICK y \in NextRecipients(r) :
              sentMails' = [sentMails EXCEPT ![r] = @ \cup {y}] /\ unsent' = [unsent EXCEPT ![r] = @ \ {y}]
        BY <2>5 DEF SendPost
      <4>2. y \in unsent[r] /\ y \notin sentMails[r]
        BY <1>a DEF NextRecipients
      <4>3. sentMails'[r] = sentMails[r] \cup {x} /\ sentMails'[r] = sentMails[r] \cup {y}
        BY <1>a, <3>1, <4>1
      <4> QED
        BY <4>2, <4>3
    <3>3. Dropped(r)' = Dropped(r)
      BY <1>a, <2>5, <3>1, <3>2 DEF SendPost, Dropped
    <3> QED
      BY <1>c, <2>1, <2>2, <3>3 DEF DropsCounted
  <2> QED
    BY <1>2, <2>3, <2>4, <2>5
<1>3. ASSUME NEW r \in Posts, SendFails(r)
      PROVE  DropsCounted'
  <2>1. PICK x \in NextRecipients(r) :
          \/ unsent' = [unsent EXCEPT ![r] = @ \ {x}]
          \/ x = "assignee" /\ unsent' = [unsent EXCEPT ![r] = {}]
    BY <1>3 DEF SendFails
  <2>2. faults' = faults + 1 /\ owed' = owed /\ sentMails' = sentMails
    BY <1>3 DEF SendFails, Fault
  <2>3. x \in unsent[r] /\ x \in owed[r] /\ x \notin sentMails[r]
    BY <1>a DEF NextRecipients
  <2>4. ASSUME NEW q \in Posts, q # r
        PROVE  Dropped(q)' = Dropped(q)
    BY <1>a, <2>1, <2>2, <2>4 DEF Dropped
  <2>5. x \in Dropped(r)' /\ Dropped(r) \subseteq Dropped(r)'
    BY <1>a, <2>1, <2>2, <2>3 DEF Dropped
  <2>6. x # "assignee" => Dropped(r)' \subseteq Dropped(r) \cup {x}
    BY <1>a, <2>1, <2>2, <2>3 DEF Dropped
  <2>7. "assignee" \in Dropped(r)' \/ Cardinality(Dropped(r)') <= faults'
    <3>a. PICK A \in SUBSET Addressees : A = Dropped(r)
      BY <1>a DEF Dropped
    <3>b. PICK B : B = Dropped(r)'
      OBVIOUS
    <3>1. A = Dropped(r) /\ B = Dropped(r)'
      BY <3>a, <3>b
    <3>2. CASE "assignee" \in A \/ x = "assignee"
      BY <2>5, <3>1, <3>2
    <3>3. CASE "assignee" \notin A /\ x # "assignee"
      <4>1. Cardinality(B) <= Cardinality(A) + 1 /\ Cardinality(A) \in Nat /\ Cardinality(B) \in Nat
        BY <2>6, <3>1, <3>3, DropCounts
      <4>2. Cardinality(A) <= faults
        BY <3>1, <3>3 DEF DropsCounted
      <4>3. Cardinality(B) <= faults'
        BY <1>a, <2>2, <4>1, <4>2
      <4> QED
        BY <3>1, <4>3
    <3> QED
      BY <3>2, <3>3
  <2>8. faults' >= faults
    BY <1>a, <2>2
  <2> QED
    BY <1>c, <2>4, <2>7, <2>8 DEF DropsCounted
<1>4. ASSUME UNCHANGED <<owed, sentMails, unsent>>, UNCHANGED environment \/ Fault
      PROVE  DropsCounted'
  <2>1. faults' >= faults
    BY <1>a, <1>4 DEF environment, Fault
  <2> QED
    BY <1>1, <1>4, <2>1
<1> QED
  BY <1>2, <1>3, <1>4
     DEF ConvNext, vvars, convVars, postVars, BeginMerge, ReadSource, StartMove, MoveMessages,
         CloseSource, CommitMerge, MergeDeadlock, MergeFails, CommitPost, PostEnds

(* A failed email costs itself: of what a reply's message called for, as   *)
(* many emails are missing as there were faults, unless the lookup of the  *)
(* assigned agent failed.                                                  *)
THEOREM FailedMailsBounded == ConvSpec => []FailedMailCostsItself
<1>1. ConvInit => ConvInv /\ DropsCounted
  BY ConvInitInv, ConvInitCounted
<1>2. ConvInv /\ [ConvNext]_vvars => ConvInv'
  BY ConvNextInv
<1>3. ConvInv /\ ConvInv' /\ DropsCounted /\ [ConvNext]_vvars => DropsCounted'
  BY ConvNextCounted
<1>4. ConvInv /\ DropsCounted => FailedMailCostsItself
  <2>1. SUFFICES ASSUME ConvInv, DropsCounted, NEW r \in Posts, postStage[r] = "done",
                        "assignee" \notin owed[r] \ sentMails[r]
                 PROVE  Cardinality(owed[r] \ sentMails[r]) <= faults
    BY DEF FailedMailCostsItself
  <2>2. Dropped(r) = owed[r] \ sentMails[r]
    BY <2>1 DEF ConvInv, PostsOK, Dropped
  <2> QED
    BY <2>1, <2>2 DEF DropsCounted
<1> QED
  BY <1>1, <1>2, <1>3, <1>4, PTL DEF ConvSpec, vvars

=============================================================================
