--------------------------- MODULE TicketCreation ---------------------------
(***************************************************************************)
(* TicketsService.create with AssignmentService, and importTicket of the   *)
(* Freshdesk migration, for one tenant and one group.                      *)
(*                                                                         *)
(* Both take the ticket number from ticket_number_counters with an upsert: *)
(* the counter's row stays locked until the transaction ends, so from that *)
(* statement on the transactions run one after the other.  Every other     *)
(* statement sees what is committed when it starts.                        *)
(***************************************************************************)
EXTENDS Environment, Sequences, FiniteSetsExt

CONSTANTS
  Creates,      \* requests to create a ticket
  Imports,      \* runs of importTicket on the same Freshdesk ticket
  Agents,       \* agents.id, in the order of the ids
  Skilled,      \* agents with the required skill
  GroupCap,     \* max_open_tickets_per_agent, or None
  MaxStaffEdits \* BOUND: edits of the group, the agents and the tickets

ASSUME CreationAssumption ==
  /\ Creates \cap Imports = {}
  /\ None \notin Creates \cup Imports
  /\ IsFiniteSet(Creates \cup Imports)
  /\ Agents \subseteq Nat /\ IsFiniteSet(Agents)
  /\ Skilled \subseteq Agents
  /\ GroupCap \in Nat \cup {None}
  /\ MaxStaffEdits \in Nat

Jobs == Creates \cup Imports

Strategies == {"manual", "round_robin", "load_based", "skill_based"}

VARIABLES
  strategy,     \* groups.assignment_strategy
  staff,        \* agents of the group with is_active
  nextValue,    \* ticket_number_counters.next_value, 0: no row
  counterLock,  \* the transaction that holds the counter's row, or None
  cursor,       \* group_assignment_cursor.last_agent_id, or None
  rows,         \* the ticket of every job, None until it is committed
  jobStage,     \* where each transaction is
  jobNumber,    \* the number it took
  jobStrategy,  \* the strategy it read
  jobStaff,     \* the agents it read
  jobAgent,     \* the agent it will write, or None
  staffEdits,   \* edits so far
  staffMoved    \* history: the group's agents changed

crJobVars == <<jobStage, jobNumber, jobStrategy, jobStaff, jobAgent>>
crWorld == <<strategy, staff, staffEdits, staffMoved>>
crVars == <<crWorld, nextValue, counterLock, cursor, rows, crJobVars>>

CrInit ==
  /\ EnvInit
  /\ strategy \in Strategies
  /\ staff = Agents
  /\ nextValue = 0
  /\ counterLock = None
  /\ cursor = None
  /\ rows = [c \in Jobs |-> None]
  /\ jobStage = [c \in Jobs |-> "begin"]
  /\ jobNumber = [c \in Jobs |-> 0]
  /\ jobStrategy = [c \in Jobs |-> None]
  /\ jobStaff = [c \in Jobs |-> {}]
  /\ jobAgent = [c \in Jobs |-> None]
  /\ staffEdits = 0
  /\ staffMoved = FALSE

-----------------------------------------------------------------------------
Created == {c \in Jobs : rows[c] # None}

(* openTicketCounts: committed tickets of the agent in an open status *)
OpenCount(a) == Cardinality({c \in Created : rows[c].agent = a /\ rows[c].open})

(* Mutant of LeastLoaded: agents at the cap are not excluded *)
LeastLoadedAtCap(S) ==
  LET free == {a \in S : GroupCap = None \/ OpenCount(a) <= GroupCap}
      least == {a \in free : \A b \in free : OpenCount(a) <= OpenCount(b)}
  IN  IF free = {} THEN None ELSE Min(least)

(* leastLoaded: below the cap, fewest open tickets, then the lowest id *)
LeastLoaded(S) ==
  LET free == {a \in S : GroupCap = None \/ OpenCount(a) < GroupCap}
      least == {a \in free : \A b \in free : OpenCount(a) <= OpenCount(b)}
  IN  IF free = {} THEN None ELSE Min(least)

(* roundRobin: the next id after the cursor's; the first one at the end,   *)
(* without a cursor, and when the cursor's agent is no longer in the list  *)
NextInTurn(S) ==
  LET later == {a \in S : cursor \in S /\ a > cursor}
  IN  IF later = {} THEN Min(S) ELSE Min(later)

-----------------------------------------------------------------------------
(* importTicket: a ticket with this legacy number is skipped, and so is    *)
(* one without a requester's email                                         *)
ImportCheck(c) ==
  /\ c \in Imports
  /\ jobStage[c] = "begin"
  /\ \/ jobStage' = [jobStage EXCEPT ![c] =
          IF Imports \cap Created # {} THEN "done" ELSE "number"]
     \/ jobStage' = [jobStage EXCEPT ![c] = "done"]
  /\ UNCHANGED <<environment, crWorld, nextValue, counterLock, cursor, rows,
                 jobNumber, jobStrategy, jobStaff, jobAgent>>

(* create reads the records it names, then nextTicketNumber; importTicket  *)
(* has the same statement.  It waits for the transaction that holds the    *)
(* row.                                                                    *)
TakeNumber(c) ==
  /\ jobStage[c] = (IF c \in Imports THEN "number" ELSE "begin")
  /\ counterLock = None
  /\ counterLock' = c
  /\ jobNumber' = [jobNumber EXCEPT ![c] = IF nextValue = 0 THEN 1 ELSE nextValue]
  /\ jobStage' = [jobStage EXCEPT ![c] = IF c \in Imports THEN "import" ELSE "pick"]
  /\ UNCHANGED <<environment, crWorld, nextValue, cursor, rows,
                 jobStrategy, jobStaff, jobAgent>>

(* The request names an agent, or no group, or the group is 'manual' *)
PickNobody(c) ==
  /\ jobStage[c] = "pick"
  /\ \/ \E a \in Agents : jobAgent' = [jobAgent EXCEPT ![c] = a]
     \/ UNCHANGED jobAgent
  /\ jobStrategy' = [jobStrategy EXCEPT ![c] = "manual"]
  /\ jobStage' = [jobStage EXCEPT ![c] = "insert"]
  /\ UNCHANGED <<environment, crWorld, nextValue, counterLock, cursor, rows,
                 jobNumber, jobStaff>>

(* pickAssignee: loadGroupConfig *)
LoadGroupConfig(c) ==
  /\ jobStage[c] = "pick"
  /\ strategy # "manual"
  /\ jobStrategy' = [jobStrategy EXCEPT ![c] = strategy]
  /\ jobStage' = [jobStage EXCEPT ![c] = "agents"]
  /\ UNCHANGED <<environment, crWorld, nextValue, counterLock, cursor, rows,
                 jobNumber, jobStaff, jobAgent>>

(* activeGroupAgents, and for 'skill_based' the agents with the skill      *)
(* (nobody without a requiredSkill)                                        *)
ActiveGroupAgents(c) ==
  /\ jobStage[c] = "agents"
  /\ \E eligible \in (IF jobStrategy[c] = "skill_based"
                      THEN {{}, staff \cap Skilled} ELSE {staff}) :
       /\ jobStaff' = [jobStaff EXCEPT ![c] = eligible]
       /\ jobStage' = [jobStage EXCEPT ![c] = IF eligible = {} THEN "insert" ELSE "choose"]
  /\ UNCHANGED <<environment, crWorld, nextValue, counterLock, cursor, rows,
                 jobNumber, jobStrategy, jobAgent>>

(* openTicketCounts and leastLoaded *)
ChooseByLoad(c) ==
  /\ jobStage[c] = "choose" /\ jobStrategy[c] # "round_robin"
  /\ jobAgent' = [jobAgent EXCEPT ![c] = LeastLoaded(jobStaff[c])]
  /\ jobStage' = [jobStage EXCEPT ![c] = "insert"]
  /\ UNCHANGED <<environment, crWorld, nextValue, counterLock, cursor, rows,
                 jobNumber, jobStrategy, jobStaff>>

(* roundRobin: the cursor is read; its upsert shows when the ticket does *)
ChooseInTurn(c) ==
  /\ jobStage[c] = "choose" /\ jobStrategy[c] = "round_robin"
  /\ jobAgent' = [jobAgent EXCEPT ![c] = NextInTurn(jobStaff[c])]
  /\ jobStage' = [jobStage EXCEPT ![c] = "insert"]
  /\ UNCHANGED <<environment, crWorld, nextValue, counterLock, cursor, rows,
                 jobNumber, jobStrategy, jobStaff>>

(* The columns the properties speak of, with `how' the agent was chosen    *)
(* and the agent whose `turn' it was, or None                              *)
TicketRow(c, agent, open, how) ==
  [number |-> jobNumber[c], agent |-> agent, open |-> open, how |-> how,
   turn |-> IF jobStrategy[c] = "round_robin" THEN jobAgent[c] ELSE None]

(* The transaction ends; nothing of it is kept. *)
EndJob(c) ==
  /\ jobStage' = [jobStage EXCEPT ![c] = "done"]
  /\ jobNumber' = [jobNumber EXCEPT ![c] = 0]
  /\ jobStrategy' = [jobStrategy EXCEPT ![c] = None]
  /\ jobStaff' = [jobStaff EXCEPT ![c] = {}]
  /\ jobAgent' = [jobAgent EXCEPT ![c] = None]

(* Mutant of CursorWritten: the cursor stays where it is *)
CursorWrittenNot(c) == cursor

(* The cursor a transaction leaves *)
CursorWritten(c) ==
  IF jobStrategy[c] = "round_robin" /\ jobAgent[c] # None THEN jobAgent[c] ELSE cursor

(* create: INSERT INTO tickets, the rules of 'ticket_created' (which may   *)
(* give the ticket to somebody else), COMMIT                               *)
CommitCreate(c) ==
  /\ jobStage[c] = "insert"
  /\ \/ rows' = [rows EXCEPT ![c] = TicketRow(c, jobAgent[c], TRUE, jobStrategy[c])]
     \/ \E a \in Agents : rows' = [rows EXCEPT ![c] = TicketRow(c, a, TRUE, "rule")]
  /\ cursor' = CursorWritten(c)
  /\ nextValue' = jobNumber[c] + 1
  /\ counterLock' = None
  /\ EndJob(c)
  /\ UNCHANGED <<environment, crWorld>>

(* importTicket: the ticket keeps its status and its mapped agent; its     *)
(* conversations and attachments follow in the same transaction            *)
CommitImport(c) ==
  /\ jobStage[c] = "import"
  /\ \E a \in Agents \cup {None}, open \in BOOLEAN :
       rows' = [rows EXCEPT ![c] = TicketRow(c, a, open, "import")]
  /\ nextValue' = jobNumber[c] + 1
  /\ counterLock' = None
  /\ EndJob(c)
  /\ UNCHANGED <<environment, crWorld, cursor>>

(* Mutant of Rollback: the number stays used, as with a sequence *)
RollbackKeepsNumber(c) ==
  /\ counterLock = c
  /\ Fault
  /\ nextValue' = jobNumber[c] + 1
  /\ counterLock' = None
  /\ EndJob(c)
  /\ UNCHANGED <<crWorld, cursor, rows>>

(* A statement fails, a custom field is not valid, or the process stops    *)
(* (before the counter is taken that changes nothing): ROLLBACK            *)
(* releases the counter with the value it had.                             *)
Rollback(c) ==
  /\ counterLock = c
  /\ Fault
  /\ counterLock' = None
  /\ EndJob(c)
  /\ UNCHANGED <<crWorld, nextValue, cursor, rows>>

-----------------------------------------------------------------------------
StaffEdit ==
  /\ staffEdits < MaxStaffEdits
  /\ staffEdits' = staffEdits + 1
  /\ UNCHANGED <<environment, nextValue, counterLock, cursor, crJobVars>>

(* AgentsService.update of is_active or group_ids *)
EditAgent(a) ==
  /\ StaffEdit
  /\ staff' = IF a \in staff THEN staff \ {a} ELSE staff \cup {a}
  /\ staffMoved' = TRUE
  /\ UNCHANGED <<strategy, rows>>

(* GroupsService.update of assignment_strategy *)
EditGroup ==
  /\ StaffEdit
  /\ \E s \in Strategies \ {strategy} : strategy' = s
  /\ UNCHANGED <<staff, staffMoved, rows>>

(* TicketsService.update: an agent closes a ticket, or takes or reopens it *)
EditTicket(c) ==
  /\ StaffEdit
  /\ rows[c] # None
  /\ \/ rows' = [rows EXCEPT ![c].open = FALSE]
     \/ \E a \in Agents :
          rows' = [rows EXCEPT ![c].open = TRUE, ![c].agent = a, ![c].how = "edit"]
  /\ UNCHANGED <<strategy, staff, staffMoved>>

-----------------------------------------------------------------------------
CrNext ==
  \/ EditGroup
  \/ \E a \in Agents : EditAgent(a)
  \/ \E c \in Jobs :
       \/ ImportCheck(c) \/ TakeNumber(c) \/ PickNobody(c)
       \/ LoadGroupConfig(c) \/ ActiveGroupAgents(c) \/ ChooseByLoad(c)
       \/ ChooseInTurn(c) \/ CommitCreate(c) \/ CommitImport(c) \/ Rollback(c)
       \/ EditTicket(c)

CrSpec == CrInit /\ [][CrNext]_<<environment, crVars>>

-----------------------------------------------------------------------------
Hows == Strategies \cup {"import", "rule", "edit"}

TicketRows == [number : Nat, agent : Agents \cup {None}, open : BOOLEAN, how : Hows,
               turn : Agents \cup {None}]

(* NULL is neither a row nor the name of a strategy. *)
ASSUME NullIsNoName == None \notin TicketRows /\ None \notin Strategies

JobStages == {"begin", "number", "import", "pick", "agents", "choose", "insert", "done"}

(* A transaction is between its upsert of the counter and its end exactly  *)
(* when it holds the counter's row: two never are at once.                 *)
CounterSerialises ==
  \A c \in Jobs :
    counterLock = c <=> jobStage[c] \in {"import", "pick", "agents", "choose", "insert"}

(* Every variable stays in its type, and the counter's row is locked by    *)
(* the one transaction that is past its upsert.                            *)
CrTypeOK ==
  /\ EnvTypeOK
  /\ strategy \in Strategies
  /\ staff \subseteq Agents
  /\ nextValue \in Nat
  /\ counterLock \in Jobs \cup {None}
  /\ cursor \in Agents \cup {None}
  /\ rows \in [Jobs -> TicketRows \cup {None}]
  /\ jobStage \in [Jobs -> JobStages]
  /\ jobNumber \in [Jobs -> Nat]
  /\ jobStrategy \in [Jobs -> Strategies \cup {None}]
  /\ jobStaff \in [Jobs -> SUBSET Agents]
  /\ jobAgent \in [Jobs -> Agents \cup {None}]
  /\ staffEdits \in 0..MaxStaffEdits
  /\ staffMoved \in BOOLEAN
  /\ CounterSerialises

(* Ticket numbers are 1, 2, ... without a gap or a repetition, whatever is *)
(* created and imported at once and whatever is rolled back: a reply's     *)
(* "[Ticket #N]" names one ticket.                                         *)
NumbersAreDense ==
  /\ {rows[c].number : c \in Created} = 1..Cardinality(Created)
  /\ Created # {} => nextValue = Cardinality(Created) + 1

(* Requests that arrive together do not push an agent over                 *)
(* max_open_tickets_per_agent: the open tickets that were given to an      *)
(* agent by load, and left there, are at most the cap.                     *)
CapHolds ==
  GroupCap # None =>
    \A a \in Agents :
      Cardinality({c \in Created : /\ rows[c].agent = a /\ rows[c].open
                                   /\ rows[c].how \in {"load_based", "skill_based"}})
        <= GroupCap

(* While the group keeps its agents, the tickets given out in turn are     *)
(* spread evenly, whatever is rolled back and however requests overlap.    *)
TurnsAreFair ==
  LET Turns(a) == Cardinality({c \in Created : rows[c].turn = a})
  IN  ~staffMoved => \A a, b \in Agents : Turns(a) <= Turns(b) + 1

=============================================================================
