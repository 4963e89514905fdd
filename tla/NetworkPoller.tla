---------------------------- MODULE NetworkPoller ----------------------------
(***************************************************************************)
(* NetworkPollerService on one device: a walk reads every interface; each  *)
(* reading is compared with the last stored sample, stored, and an         *)
(* interface that went from up to down gets a ticket.  The read, the BEGIN *)
(* of the INSERT, its COMMIT and the call to the ticket API are four       *)
(* steps: the newest sample is the one with the greatest ts, which is      *)
(* now(), the time of the BEGIN, whenever it was committed.                *)
(***************************************************************************)
EXTENDS Environment

CONSTANT Ifaces   \* interfaces of the device

VARIABLES
  link,        \* the interfaces themselves, as a walk finds them
  netActive,   \* network_devices.is_active
  sample,      \* oper_status of the newest stored sample, or None
  netStage,    \* where each process's poll is
  readings,    \* readings of its walk still to record
  reading,     \* the one it is recording, or None
  previous,    \* the sample it compares it with, or None
  ahead,       \* for each INSERT that is open, the processes whose INSERT
               \* for the same interface began earlier and is open still
  outdated,    \* processes whose open INSERT has an older ts than a sample
               \* of the interface that is committed
  drops,       \* history: stored samples `down' whose predecessor is `up'
  netMarks,    \* history: drops a process noticed
  netTickets,  \* tickets opened
  netDropped,  \* history: noticed drops a fault left without a ticket
  upSince,     \* history: <<p, i>> where an `up' became the newest sample
               \* of i with a later ts than the drop p last noticed
  upAfter      \* history: processes whose open INSERT such an `up' overtook

netWorld == <<link, netActive>>
netJobVars == <<netStage, readings, reading, previous, ahead, outdated>>
netAudit == <<drops, netMarks, netTickets, netDropped, upSince, upAfter>>
netVars == <<netWorld, sample, netJobVars, netAudit>>

OperStatus == {"up", "down", "unknown"}

NetInit ==
  /\ EnvInit
  /\ link = [i \in Ifaces |-> "up"]
  /\ netActive = TRUE
  /\ sample = [i \in Ifaces |-> None]
  /\ netStage = [p \in Processes |-> "idle"]
  /\ readings = [p \in Processes |-> {}]
  /\ reading = [p \in Processes |-> None]
  /\ previous = [p \in Processes |-> None]
  /\ drops = [i \in Ifaces |-> 0]
  /\ netMarks = [i \in Ifaces |-> 0]
  /\ netTickets = [i \in Ifaces |-> 0]
  /\ netDropped = [i \in Ifaces |-> 0]
  /\ ahead = [p \in Processes |-> {}]
  /\ outdated = {}
  /\ upSince = {}
  /\ upAfter = {}

-----------------------------------------------------------------------------
(* The interfaces change while time passes: the clock bounds the changes. *)
LinkChanges(i) ==
  /\ ClockTick
  /\ \E s \in OperStatus \ {link[i]} : link' = [link EXCEPT ![i] = s]
  /\ UNCHANGED <<netActive, sample, netJobVars, netAudit>>

(* NetworkDevicesService.update of is_active *)
PauseDevice ==
  /\ ClockTick
  /\ netActive' = ~netActive
  /\ UNCHANGED <<link, sample, netJobVars, netAudit>>

(* pollOnce, pollTenant (WHERE is_active) and walkInterfaces *)
Walk(p) ==
  /\ netStage[p] = "idle"
  /\ readings' = [readings EXCEPT ![p] =
       {[iface |-> i, status |-> link[i]] : i \in {x \in Ifaces : netActive}}]
  /\ netStage' = [netStage EXCEPT ![p] = "record"]
  /\ UNCHANGED <<environment, netWorld, sample, reading, previous, ahead, outdated,
                 netAudit>>

(* recordReading: the previous sample is read *)
ReadPrevious(p) ==
  /\ netStage[p] = "record"
  /\ \E r \in readings[p] :
       /\ readings' = [readings EXCEPT ![p] = @ \ {r}]
       /\ reading' = [reading EXCEPT ![p] = r]
       /\ previous' = [previous EXCEPT ![p] = sample[r.iface]]
  /\ netStage' = [netStage EXCEPT ![p] = "store"]
  /\ UNCHANGED <<environment, netWorld, sample, ahead, outdated, netAudit>>

(* The BEGIN of the INSERT gives the new sample its ts *)
BeginStore(p) ==
  /\ netStage[p] = "store"
  /\ ahead' = [ahead EXCEPT ![p] =
       {q \in Processes : netStage[q] = "insert" /\ reading[q].iface = reading[p].iface}]
  /\ netStage' = [netStage EXCEPT ![p] = "insert"]
  /\ UNCHANGED <<environment, netWorld, sample, readings, reading, previous, outdated,
                 netAudit>>

(* The INSERT is over, committed or not *)
StoreEnds(p) == ahead' = [q \in Processes |-> IF q = p THEN {} ELSE ahead[q] \ {p}]

(* Mutant of Noticed: every reading `down' opens a ticket *)
NoticedAnyDown(p) == reading[p].status = "down"

(* previousStatus === 'up' && reading.operStatus === 'down' *)
Noticed(p) == previous[p] = "up" /\ reading[p].status = "down"

(* The COMMIT of the INSERT, and the condition for a ticket *)
Store(p) ==
  LET i == reading[p].iface
      s == reading[p].status
      newest == p \notin outdated
  IN  /\ netStage[p] = "insert"
      /\ sample' = IF newest THEN [sample EXCEPT ![i] = s] ELSE sample
      /\ outdated' = (outdated \cup ahead[p]) \ {p}
      /\ StoreEnds(p)
      /\ drops' = IF newest /\ sample[i] = "up" /\ s = "down"
                  THEN [drops EXCEPT ![i] = @ + 1] ELSE drops
      /\ upAfter' = (IF newest /\ s = "up" THEN upAfter \cup ahead[p] ELSE upAfter) \ {p}
      /\ IF Noticed(p)
         THEN /\ netMarks' = [netMarks EXCEPT ![i] = @ + 1]
              /\ upSince' = IF p \in upAfter THEN upSince \cup {<<p, i>>}
                                             ELSE upSince \ {<<p, i>>}
              /\ netStage' = [netStage EXCEPT ![p] = "ticket"]
              /\ UNCHANGED <<reading, previous>>
         ELSE /\ upSince' = IF newest /\ s = "up" THEN upSince \cup (Processes \X {i})
                                                  ELSE upSince
              /\ netStage' = [netStage EXCEPT ![p] = "record"]
              /\ reading' = [reading EXCEPT ![p] = None]
              /\ previous' = [previous EXCEPT ![p] = None]
              /\ UNCHANGED netMarks
      /\ UNCHANGED <<environment, netWorld, readings, netTickets, netDropped>>

(* openInterfaceDownTicket: the call returns, or throws (which is logged), *)
(* before or after the ticket was made; on to the next reading             *)
OpenTicket(p) ==
  LET i == reading[p].iface
      Made == netTickets' = [netTickets EXCEPT ![i] = @ + 1] /\ UNCHANGED netDropped
      Failed == netDropped' = [netDropped EXCEPT ![i] = @ + 1] /\ UNCHANGED netTickets
  IN  /\ netStage[p] = "ticket"
      /\ \/ UNCHANGED environment /\ Made
         \/ Fault /\ (Made \/ Failed)
      /\ netStage' = [netStage EXCEPT ![p] = "record"]
      /\ reading' = [reading EXCEPT ![p] = None]
      /\ previous' = [previous EXCEPT ![p] = None]
      /\ UNCHANGED <<netWorld, sample, readings, ahead, outdated, drops, netMarks,
                     upSince, upAfter>>

(* A statement fails, which ends the poll of the device, or the process    *)
(* stops: the readings left are not recorded.                              *)
PollFails(p) ==
  /\ netStage[p] # "idle"
  /\ Fault
  /\ netDropped' = IF netStage[p] = "ticket"
                   THEN [netDropped EXCEPT ![reading[p].iface] = @ + 1]
                   ELSE netDropped
  /\ netStage' = [netStage EXCEPT ![p] = "idle"]
  /\ readings' = [readings EXCEPT ![p] = {}]
  /\ reading' = [reading EXCEPT ![p] = None]
  /\ previous' = [previous EXCEPT ![p] = None]
  /\ StoreEnds(p)
  /\ outdated' = outdated \ {p}
  /\ upAfter' = upAfter \ {p}
  /\ UNCHANGED <<netWorld, sample, drops, netMarks, netTickets, upSince>>

(* The UPDATE of last_polled_at, which nothing reads but the views *)
PollDone(p) ==
  /\ netStage[p] = "record" /\ readings[p] = {}
  /\ netStage' = [netStage EXCEPT ![p] = "idle"]
  /\ UNCHANGED <<environment, netWorld, sample, readings, reading, previous, ahead,
                 outdated, netAudit>>

-----------------------------------------------------------------------------
NetNext ==
  \/ PauseDevice
  \/ \E i \in Ifaces : LinkChanges(i)
  \/ \E p \in deployed :
       \/ Walk(p) \/ ReadPrevious(p) \/ BeginStore(p) \/ Store(p) \/ OpenTicket(p)
       \/ PollFails(p) \/ PollDone(p)

NetSpec == NetInit /\ [][NetNext]_<<environment, netVars>>

-----------------------------------------------------------------------------
Readings == [iface : Ifaces, status : OperStatus]

ASSUME NullIsNoReading == None \notin Readings /\ None \notin OperStatus

(* Every variable stays in its type. *)
NetTypeOK ==
  /\ EnvTypeOK
  /\ link \in [Ifaces -> OperStatus]
  /\ netActive \in BOOLEAN
  /\ sample \in [Ifaces -> OperStatus \cup {None}]
  /\ netStage \in [Processes -> {"idle", "record", "store", "insert", "ticket"}]
  /\ readings \in [Processes -> SUBSET Readings]
  /\ reading \in [Processes -> Readings \cup {None}]
  /\ previous \in [Processes -> OperStatus \cup {None}]
  /\ \A p \in Processes : reading[p] # None <=> netStage[p] \in {"store", "insert", "ticket"}
  /\ ahead \in [Processes -> SUBSET Processes]
  /\ outdated \subseteq Processes
  /\ drops \in [Ifaces -> Nat]
  /\ netMarks \in [Ifaces -> Nat]
  /\ netTickets \in [Ifaces -> Nat]
  /\ netDropped \in [Ifaces -> Nat]
  /\ upSince \subseteq Processes \X Ifaces
  /\ upAfter \subseteq Processes

(* "an interface that was already down ... shouldn't re-open a ticket      *)
(* every tick": a process notices an interface again only after an `up'    *)
(* whose ts is later than that of the drop it last noticed became the      *)
(* newest sample, whatever other processes store in between.  (Such an     *)
(* `up' may have been committed before that drop was: by ts it came back   *)
(* in between.)                                                            *)
NoticedOncePerOutage ==
  \A p \in Processes, i \in Ifaces :
    netStage[p] = "insert" /\ netStage'[p] = "ticket" /\ reading[p].iface = i
      => <<p, i>> \in upSince

(* With one process, the stored drops are the noticed ones: comparing with *)
(* the sample read before the INSERT misses none and invents none.         *)
DropsAreNoticed == Alone => drops = netMarks

(* An outage is noticed, and once. *)
OutagesAreNoticed ==
  [][NoticedOncePerOutage /\ DropsAreNoticed']_<<environment, netVars>>

NetPromise == INSTANCE MarkThenAct
  WITH Items <- Ifaces, marked <- netMarks, acted <- netTickets,
       dropped <- netDropped

(* A noticed drop stands for at most one ticket, and for one unless a      *)
(* fault took it: the poller implements MarkThenAct.                       *)
NetImplementsPromise == NetPromise!MarkSpec

=============================================================================
