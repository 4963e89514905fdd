--------------------- MODULE NotificationPipelineProofs ---------------------
(***************************************************************************)
(* Proofs about NotificationPipeline, for every number of notifications,   *)
(* processes and faults.                                                   *)
(*                                                                         *)
(*   TypeCorrect       Spec => []TypeOK                                    *)
(*   NothingLost       Spec => []QueuedIsAccountedFor                      *)
(*   OnlySettledAcked  Spec => []AckedIsSettled                            *)
(*   StreamRecorded    Spec => []StreamIsRecorded                          *)
(*   Implements        without resent commands, Spec => Delivery!Spec      *)
(*                                                                         *)
(* The invariant is built in two layers.  Account is what the first four   *)
(* theorems need: where every event is between its row and its             *)
(* acknowledgement.  Single adds what makes a delivery happen once: every  *)
(* entry is another event, and no two consumers hold the same entry.       *)
(***************************************************************************)
EXTENDS NotificationPipeline, TLAPS

(* The types; a consumer's position starts at 1, as the stream does. *)
TypeInv ==
  /\ TypeOK
  /\ at \in [Instances -> Nat \ {0}]

(* An event whose XADD is due has its row; a notification has a row once   *)
(* it was enqueued.                                                        *)
CallsInv ==
  /\ \A e \in Events : call[e] = "add" => e \in recorded
  /\ \A n \in Notifications : status[n] = "free" <=> call[n] = "idle"

(* An entry's event was published and recorded. *)
StreamInv ==
  \A k \in 1..Len(stream) : call[stream[k]] = "done" /\ stream[k] \in recorded

(* A process that runs has created the group. *)
GroupInv == ~group => up = {} /\ cursor = 0

(* A consumer about to acknowledge has settled its notification. *)
AckInv ==
  \A i \in Instances :
    Busy(i) /\ step[i] = "ack" /\ Current(i) \in Notifications
      => status[Current(i)] \in Settled

(* Where every event is between its row and its acknowledgement *)
Account ==
  /\ TypeInv /\ CallsInv /\ StreamInv /\ GroupInv /\ AckInv
  /\ QueuedIsAccountedFor /\ AckedIsSettled

-----------------------------------------------------------------------------
(* What an XADD, resent or not, does to the stream: entries stay, the new  *)
(* ones are the event's.                                                   *)
Extended(e) ==
  /\ stream' \in Seq(Events)
  /\ Len(stream') \in Nat
  /\ Len(stream) < Len(stream')
  /\ \A k \in 1..Len(stream) : stream'[k] = stream[k]
  /\ \A k \in 1..Len(stream') : k > Len(stream) => stream'[k] = e

(* publish only ever extends the stream. *)
LEMMA AddExtends ==
  ASSUME NEW e \in Events, stream \in Seq(Events), Add(e) \/ AddResent(e)
  PROVE  Extended(e)
<1>1. CASE Add(e)
  BY <1>1 DEF Add, Extended
<1>2. CASE AddResent(e)
  <2>1. stream' = stream \o <<e, e>>
    BY <1>2 DEF AddResent
  <2>2. <<e, e>> \in Seq(Events) /\ Len(<<e, e>>) = 2
    OBVIOUS
  <2>3. Len(stream') = Len(stream) + 2
    BY <2>1, <2>2
  <2>4. \A k \in 1..Len(stream) : stream'[k] = stream[k]
    BY <2>1, <2>2
  <2>5. \A k \in 1..Len(stream') : k > Len(stream) => stream'[k] = e
    BY <2>1, <2>2, <2>3
  <2>. QED
    BY <2>1, <2>2, <2>3, <2>4, <2>5 DEF Extended
<1>. QED
  BY <1>1, <1>2

(* XREADGROUP reads between the cursor and the end of the stream. *)
LEMMA ReadToRange ==
  ASSUME TypeInv
  PROVE  ReadTo \in Nat /\ cursor <= ReadTo /\ ReadTo <= Len(stream)
         /\ (cursor < Len(stream) => cursor < ReadTo)
BY PipelineAssumption DEF TypeInv, TypeOK, ReadTo

(* The initial state has the types. *)
LEMMA TypeInit == Init => TypeInv
<1>. SUFFICES ASSUME Init PROVE TypeInv
  OBVIOUS
<1>. USE PipelineAssumption DEF Init
<1>1. status \in [Notifications -> {"free", "queued"} \cup Settled]
      /\ sends \in [Notifications -> Nat]
      /\ call \in [Events -> {"idle", "record", "add", "done"}]
  OBVIOUS
<1>2. stream \in Seq(Events) /\ Len(stream) = 0
  OBVIOUS
<1>3. cursor \in 0..Len(stream) /\ unacked \subseteq 1..cursor /\ faults \in 0..FaultBudget
  BY <1>2
<1>4. at \in [Instances -> Nat \ {0}] /\ end \in [Instances -> 0..cursor]
      /\ step \in [Instances -> {"handle", "send", "ack"} \cup Settled]
  OBVIOUS
<1>5. at \in [Instances -> Nat]
  BY <1>4
<1>. QED
  BY <1>1, <1>2, <1>3, <1>4, <1>5 DEF TypeInv, TypeOK

(* Every step keeps the types: a cursor never runs past the stream, a      *)
(* batch never past the cursor.                                            *)
LEMMA TypeStep == TypeInv /\ GroupInv /\ [Next]_vars => TypeInv'
<1>. SUFFICES ASSUME TypeInv, GroupInv, [Next]_vars PROVE TypeInv'
  OBVIOUS
<1>. USE PipelineAssumption
<1>r. ReadTo \in Nat /\ cursor <= ReadTo /\ ReadTo <= Len(stream)
      /\ (cursor < Len(stream) => cursor < ReadTo)
  BY ReadToRange
<1>1. ASSUME NEW n \in Notifications, Enqueue(n) PROVE TypeInv'
  BY <1>1 DEF Enqueue, TypeInv, TypeOK, redisVars, loopVars, Events
<1>2. ASSUME NEW e \in Events, Record(e) PROVE TypeInv'
  BY <1>2 DEF Record, TypeInv, TypeOK, redisVars, loopVars
<1>3. ASSUME NEW e \in Events, Add(e) \/ AddResent(e) PROVE TypeInv'
  <2>1. Extended(e)
    BY <1>3, AddExtends DEF TypeInv, TypeOK
  <2>2. cursor' = cursor /\ cursor' \in 0..Len(stream')
    BY <1>3, <2>1 DEF Add, AddResent, Extended, TypeInv, TypeOK
  <2>3. faults' \in 0..FaultBudget
    BY <1>3 DEF Add, AddResent, Fault, TypeInv, TypeOK
  <2>. QED
    BY <1>3, <2>1, <2>2, <2>3 DEF Add, AddResent, Extended, TypeInv, TypeOK, loopVars
<1>4. ASSUME NEW e \in Events, CallFails(e) PROVE TypeInv'
  BY <1>4 DEF CallFails, Fault, TypeInv, TypeOK, redisVars, loopVars
<1>5. ASSUME NEW i \in Instances, Start(i) PROVE TypeInv'
  <2>1. cursor' = cursor
    BY <1>5 DEF Start, StartId, GroupInv
  <2>. QED
    BY <1>5, <2>1 DEF Start, TypeInv, TypeOK, loopVars
<1>6. ASSUME NEW i \in Instances, Read(i) PROVE TypeInv'
  BY <1>6, <1>r DEF Read, TypeInv, TypeOK
<1>7. ASSUME NEW i \in Instances, ReadLost(i) PROVE TypeInv'
  <2>1. EventsAt((cursor + 1)..ReadTo) \subseteq Events
    BY <1>r DEF EventsAt, TypeInv, TypeOK
  <2>. QED
    BY <1>7, <1>r, <2>1 DEF ReadLost, Fault, TypeInv, TypeOK, loopVars
<1>8. ASSUME NEW i \in Instances, HandleEvent(i) PROVE TypeInv'
  <2>1. AfterSelect(Current(i)) \in {"ack", "failed", "send"}
    BY DEF AfterSelect
  <2>. QED
    BY <1>8, <2>1 DEF HandleEvent, TypeInv, TypeOK, Settled, redisVars
<1>9. ASSUME NEW i \in Instances, Send(i) PROVE TypeInv'
  <2>1. PICK got \in BOOLEAN, next \in Settled :
          /\ sends' = IF got THEN [sends EXCEPT ![Current(i)] = @ + 1] ELSE sends
          /\ step' = [step EXCEPT ![i] = next]
    BY <1>9 DEF Send
  <2>2. sends' \in [Notifications -> Nat]
    <3>1. sends \in [Notifications -> Nat]
      BY DEF TypeInv, TypeOK
    <3>2. ASSUME NEW c PROVE [sends EXCEPT ![c] = @ + 1] \in [Notifications -> Nat]
      <4>1. CASE c \in Notifications
        <5>1. sends[c] + 1 \in Nat
          BY <3>1, <4>1
        <5>. QED
          BY <3>1, <4>1, <5>1
      <4>2. CASE c \notin Notifications
        BY <3>1, <4>2, Zenon
      <4>. QED
        BY <4>1, <4>2
    <3>. QED
      BY <2>1, <3>1, <3>2, Zenon
  <2>3. step' \in [Instances -> {"handle", "send", "ack"} \cup Settled]
    BY <2>1 DEF TypeInv, TypeOK
  <2>. QED
    BY <1>9, <2>2, <2>3 DEF Send, TypeInv, TypeOK, redisVars
<1>10. ASSUME NEW i \in Instances, Mark(i) PROVE TypeInv'
  BY <1>10 DEF Mark, TypeInv, TypeOK, Settled, redisVars
<1>11. ASSUME NEW i \in Instances, Ack(i) \/ AckFails(i) PROVE TypeInv'
  <2>0. at' = [at EXCEPT ![i] = @ + 1] /\ step' = [step EXCEPT ![i] = "handle"]
    BY <1>11 DEF Ack, AckFails, NextEntry
  <2>1. at' \in [Instances -> Nat \ {0}] /\ at' \in [Instances -> Nat]
    <3>1. at \in [Instances -> Nat \ {0}]
      BY DEF TypeInv
    <3>. QED
      BY <2>0, <3>1
  <2>2. step' \in [Instances -> {"handle", "send", "ack"} \cup Settled]
    BY <2>0 DEF TypeInv, TypeOK
  <2>3. unacked' \subseteq 1..cursor /\ faults' \in 0..FaultBudget
    <3>1. CASE Ack(i)
      BY <3>1 DEF Ack, TypeInv, TypeOK
    <3>2. CASE AckFails(i)
      BY <3>2 DEF AckFails, Fault, TypeInv, TypeOK, redisVars
    <3>. QED
      BY <1>11, <3>1, <3>2
  <2>. QED
    BY <1>11, <2>1, <2>2, <2>3 DEF Ack, AckFails, TypeInv, TypeOK, redisVars
<1>12. ASSUME NEW i \in Instances, HandlerFails(i) PROVE TypeInv'
  <2>1. Current(i) \in Events
    BY <1>12 DEF HandlerFails, Busy, Current, TypeInv, TypeOK
  <2>. QED
    BY <1>12, <2>1 DEF HandlerFails, Fault, NextEntry, TypeInv, TypeOK, redisVars
<1>13. ASSUME NEW i \in Instances, Crash(i) PROVE TypeInv'
  <2>1. EventsAt(Batch(i)) \subseteq Events
    BY DEF EventsAt, Batch, TypeInv, TypeOK
  <2>. QED
    BY <1>13, <2>1 DEF Crash, Fault, TypeInv, TypeOK, redisVars
<1>14. CASE UNCHANGED vars
  BY <1>14 DEF vars, redisVars, loopVars, TypeInv, TypeOK
<1>. QED
  BY <1>1, <1>2, <1>3, <1>4, <1>5, <1>6, <1>7, <1>8, <1>9, <1>10, <1>11,
     <1>12, <1>13, <1>14 DEF Next, Loop

-----------------------------------------------------------------------------
(* The entry a busy consumer handles is an entry of the stream, and its    *)
(* event was published.                                                    *)
LEMMA BusyEntry ==
  ASSUME TypeInv, StreamInv, NEW i \in Instances, Busy(i)
  PROVE  /\ at[i] \in 1..Len(stream) /\ at[i] \in 1..cursor
         /\ Current(i) \in Events /\ call[Current(i)] = "done"
<1>1. at[i] \in Nat \ {0} /\ end[i] \in 0..cursor /\ cursor \in 0..Len(stream)
      /\ at[i] <= end[i] /\ stream \in Seq(Events)
  BY DEF TypeInv, TypeOK, Busy
<1>2. at[i] \in 1..Len(stream) /\ at[i] \in 1..cursor
  BY <1>1
<1>. QED
  BY <1>1, <1>2 DEF StreamInv, Current

(* What can change the calls, the rows and the events table. *)
Bookkeeping == <<status, call, recorded>>

(* Calls and rows agree after every step. *)
LEMMA CallsStep == TypeInv /\ CallsInv /\ StreamInv /\ [Next]_vars => CallsInv'
<1>. SUFFICES ASSUME TypeInv, CallsInv, StreamInv, [Next]_vars PROVE CallsInv'
  OBVIOUS
<1>. USE PipelineAssumption
<1>0. /\ Notifications \subseteq Events
      /\ call \in [Events -> {"idle", "record", "add", "done"}]
      /\ status \in [Notifications -> {"free", "queued"} \cup Settled]
  BY DEF Events, TypeInv, TypeOK
<1>1. ASSUME NEW n \in Notifications, Enqueue(n) PROVE CallsInv'
  BY <1>0, <1>1 DEF Enqueue, CallsInv
<1>2. ASSUME NEW e \in Events, Record(e) PROVE CallsInv'
  <2>1. CASE e \in Notifications
    BY <1>0, <1>2, <2>1 DEF Record, CallsInv
  <2>2. CASE e \notin Notifications
    BY <1>0, <1>2, <2>2 DEF Record, CallsInv
  <2>. QED
    BY <2>1, <2>2
<1>3. ASSUME NEW e \in Events, Add(e) \/ AddResent(e) \/ CallFails(e) PROVE CallsInv'
  <2>1. call[e] \in {"record", "add"} /\ call' = [call EXCEPT ![e] = "done"]
        /\ status' = status /\ recorded' = recorded
    BY <1>3 DEF Add, AddResent, CallFails
  <2>. QED
    BY <1>0, <2>1 DEF CallsInv
<1>4. ASSUME NEW i \in Instances, Mark(i) PROVE CallsInv'
  <2>1. call[Current(i)] = "done"
    BY <1>4, BusyEntry DEF Mark
  <2>2. step[i] \in {"sent", "failed"} /\ call' = call /\ recorded' = recorded
        /\ status' = [status EXCEPT ![Current(i)] = step[i]]
    BY <1>4 DEF Mark, Settled
  <2>. QED
    BY <1>0, <2>1, <2>2 DEF CallsInv
<1>5. CASE UNCHANGED Bookkeeping
  BY <1>5 DEF Bookkeeping, CallsInv
<1>. QED
  BY <1>1, <1>2, <1>3, <1>4, <1>5
  DEF Next, Loop, Bookkeeping, vars, Start, Read, HandleEvent, Send, Ack,
      ReadLost, HandlerFails, AckFails, Crash

(* Published events stay published, and only recorded ones are added. *)
LEMMA StreamStep == TypeInv /\ CallsInv /\ StreamInv /\ [Next]_vars => StreamInv'
<1>. SUFFICES ASSUME TypeInv, CallsInv, StreamInv, [Next]_vars PROVE StreamInv'
  OBVIOUS
<1>0. /\ Notifications \subseteq Events
      /\ call \in [Events -> {"idle", "record", "add", "done"}]
      /\ stream \in Seq(Events)
  BY DEF Events, TypeInv, TypeOK
<1>1. ASSUME NEW e \in Events, Add(e) \/ AddResent(e) PROVE StreamInv'
  <2>1. Extended(e)
    BY <1>0, <1>1, AddExtends
  <2>2. call[e] = "add" /\ call' = [call EXCEPT ![e] = "done"] /\ recorded' = recorded
    BY <1>1 DEF Add, AddResent
  <2>3. e \in recorded
    BY <2>2 DEF CallsInv
  <2>4. ASSUME NEW k \in 1..Len(stream')
        PROVE  call'[stream'[k]] = "done" /\ stream'[k] \in recorded'
    <3>1. CASE k > Len(stream)
      BY <1>0, <2>1, <2>2, <2>3, <3>1 DEF Extended
    <3>2. CASE k \in 1..Len(stream)
      <4>1. stream'[k] = stream[k] /\ stream[k] \in Events
        BY <1>0, <2>1, <3>2 DEF Extended
      <4>. QED
        BY <1>0, <2>2, <3>2, <4>1 DEF StreamInv
    <3>. QED
      BY <1>0, <3>1, <3>2
  <2>. QED
    BY <2>4 DEF StreamInv
<1>2. ASSUME stream' = stream, recorded \subseteq recorded',
             \A e \in Events : call[e] = "done" => call'[e] = "done"
      PROVE  StreamInv'
  BY <1>0, <1>2 DEF StreamInv
<1>3. ASSUME NEW n \in Notifications, Enqueue(n) PROVE StreamInv'
  BY <1>0, <1>2, <1>3 DEF Enqueue, redisVars
<1>4. ASSUME NEW e \in Events, Record(e) PROVE StreamInv'
  BY <1>0, <1>2, <1>4 DEF Record, redisVars
<1>5. ASSUME NEW e \in Events, CallFails(e) PROVE StreamInv'
  BY <1>0, <1>2, <1>5 DEF CallFails, redisVars
<1>6. CASE stream' = stream /\ call' = call /\ recorded' = recorded
  BY <1>2, <1>6
<1>. QED
  BY <1>1, <1>3, <1>4, <1>5, <1>6
  DEF Next, Loop, vars, redisVars, Start, Read, HandleEvent, Send, Mark, Ack,
      ReadLost, HandlerFails, AckFails, Crash

(* Only a process that runs moves the cursor, and the group outlives it. *)
LEMMA GroupStep == GroupInv /\ [Next]_vars => GroupInv'
BY DEF GroupInv, Next, Loop, vars, redisVars, Enqueue, Record, Add, AddResent,
       CallFails, Start, Read, HandleEvent, Send, Mark, Ack, ReadLost,
       HandlerFails, AckFails, Crash

-----------------------------------------------------------------------------
(* A consumer comes to acknowledge only by marking or by an event that is  *)
(* no notification, and no step unsettles what it marked.                  *)
LEMMA AckStep ==
  TypeInv /\ CallsInv /\ StreamInv /\ AckInv /\ [Next]_vars => AckInv'
<1>. SUFFICES ASSUME TypeInv, CallsInv, StreamInv, AckInv, [Next]_vars,
                     NEW j \in Instances, Busy(j)', step'[j] = "ack",
                     Current(j)' \in Notifications
              PROVE  status'[Current(j)'] \in Settled
  BY DEF AckInv
<1>. USE PipelineAssumption
<1>0. /\ Notifications \subseteq Events
      /\ call \in [Events -> {"idle", "record", "add", "done"}]
      /\ status \in [Notifications -> {"free", "queued"} \cup Settled]
      /\ stream \in Seq(Events)
      /\ step \in [Instances -> {"handle", "send", "ack"} \cup Settled]
      /\ at \in [Instances -> Nat] /\ end \in [Instances -> 0..cursor]
  BY DEF Events, TypeInv, TypeOK
<1>a. ASSUME Busy(j), step[j] = "ack", Current(j)' = Current(j),
             status[Current(j)] \in Settled => status'[Current(j)] \in Settled
      PROVE  status'[Current(j)'] \in Settled
  BY <1>a DEF AckInv
<1>1. ASSUME NEW n \in Notifications, Enqueue(n) PROVE status'[Current(j)'] \in Settled
  <2>1. Busy(j) /\ step[j] = "ack" /\ Current(j)' = Current(j)
    BY <1>1 DEF Enqueue, Busy, Current, redisVars, loopVars
  <2>2. Current(j) # n
    BY <1>1, <2>1, BusyEntry DEF Enqueue
  <2>. QED
    BY <1>a, <1>1, <1>0, <2>1, <2>2 DEF Enqueue
<1>2. ASSUME NEW e \in Events, Add(e) \/ AddResent(e)
      PROVE  status'[Current(j)'] \in Settled
  <2>1. Busy(j) /\ step[j] = "ack" /\ at' = at /\ status' = status
    BY <1>2 DEF Add, AddResent, Busy, loopVars
  <2>2. Extended(e)
    BY <1>0, <1>2, AddExtends
  <2>3. Current(j)' = Current(j)
    BY <2>1, <2>2, BusyEntry DEF Extended, Current
  <2>. QED
    BY <1>a, <2>1, <2>3
<1>3. ASSUME NEW i \in Instances, HandleEvent(i) PROVE status'[Current(j)'] \in Settled
  <2>1. Busy(j) /\ Current(j)' = Current(j) /\ status' = status /\ Busy(i)
        /\ step' = [step EXCEPT ![i] = AfterSelect(Current(i))]
    BY <1>3 DEF HandleEvent, Busy, Current, redisVars
  <2>2. CASE j = i
    <3>1. AfterSelect(Current(j)) = "ack" /\ Current(j) \in Notifications
      BY <1>0, <2>1, <2>2
    <3>2. status[Current(j)] # "free"
      BY <2>1, <3>1, BusyEntry DEF CallsInv
    <3>. QED
      BY <3>1, <3>2 DEF AfterSelect
  <2>3. CASE j # i
    BY <1>0, <1>a, <2>1, <2>3
  <2>. QED
    BY <2>2, <2>3
<1>4. ASSUME NEW i \in Instances, Send(i) PROVE status'[Current(j)'] \in Settled
  <2>1. Busy(j) /\ Current(j)' = Current(j) /\ status' = status
    BY <1>4 DEF Send, Busy, Current, redisVars
  <2>2. step[j] = "ack"
    BY <1>0, <1>4 DEF Send, Settled
  <2>. QED
    BY <1>a, <2>1, <2>2
<1>5. ASSUME NEW i \in Instances, Mark(i) PROVE status'[Current(j)'] \in Settled
  <2>1. Busy(j) /\ Current(j)' = Current(j) /\ step[i] \in Settled
        /\ status' = [status EXCEPT ![Current(i)] = step[i]]
        /\ step' = [step EXCEPT ![i] = "ack"]
    BY <1>5 DEF Mark, Busy, Current, redisVars
  <2>2. CASE j = i
    BY <1>0, <2>1, <2>2
  <2>3. CASE j # i
    BY <1>0, <1>a, <2>1, <2>3
  <2>. QED
    BY <2>2, <2>3
<1>6. ASSUME NEW i \in Instances, Read(i) \/ Ack(i) \/ HandlerFails(i) \/ AckFails(i) \/ Crash(i)
      PROVE  status'[Current(j)'] \in Settled
  <2>1. step' = [step EXCEPT ![i] = "handle"] /\ stream' = stream /\ status' = status
    BY <1>6 DEF Read, Ack, HandlerFails, AckFails, Crash, NextEntry, redisVars
  <2>2. j # i
    BY <1>0, <2>1
  <2>3. at'[j] = at[j] /\ end'[j] = end[j]
    BY <1>0, <1>6, <2>2 DEF Read, Ack, HandlerFails, AckFails, Crash, NextEntry
  <2>. QED
    BY <1>0, <1>a, <2>1, <2>2, <2>3 DEF Busy, Current
<1>7. CASE UNCHANGED <<status, stream, at, end, step>>
  BY <1>7, <1>a DEF Busy, Current
<1>. QED
  BY <1>1, <1>2, <1>3, <1>4, <1>5, <1>6, <1>7
  DEF Next, Loop, vars, redisVars, loopVars, Start, Record, CallFails, ReadLost

-----------------------------------------------------------------------------
(* Where a queued notification can be *)
OnItsWay(n) ==
  \/ call[n] \in {"record", "add"}
  \/ n \in EventsAt(Unread)
  \/ \E i \in up : n \in EventsAt(Batch(i))
  \/ n \in dropped

(* No step loses a queued notification without recording the fault. *)
LEMMA QueuedStep ==
  TypeInv /\ CallsInv /\ StreamInv /\ GroupInv /\ AckInv /\ QueuedIsAccountedFor
    /\ [Next]_vars => QueuedIsAccountedFor'
<1>. SUFFICES ASSUME TypeInv, CallsInv, StreamInv, GroupInv, AckInv,
                     QueuedIsAccountedFor, [Next]_vars,
                     NEW n \in Notifications, status'[n] = "queued"
              PROVE  OnItsWay(n)'
  BY DEF QueuedIsAccountedFor, OnItsWay
<1>. USE PipelineAssumption
<1>0. /\ n \in Events
      /\ call \in [Events -> {"idle", "record", "add", "done"}]
      /\ status \in [Notifications -> {"free", "queued"} \cup Settled]
      /\ stream \in Seq(Events)
      /\ cursor \in 0..Len(stream)
      /\ up \subseteq Instances
      /\ at \in [Instances -> Nat \ {0}] /\ end \in [Instances -> 0..cursor]
  BY DEF Events, TypeInv, TypeOK
<1>a. status[n] = "queued" => OnItsWay(n)
  BY DEF QueuedIsAccountedFor, OnItsWay
<1>b. ASSUME status[n] = "queued", UNCHANGED <<stream, cursor, at, end>>,
             up \subseteq up', dropped \subseteq dropped',
             call[n] \in {"record", "add"} => OnItsWay(n)'
      PROVE  OnItsWay(n)'
  <2>1. CASE n \in EventsAt(Unread)
    BY <1>b, <2>1 DEF Unread, EventsAt, OnItsWay
  <2>2. CASE \E i \in up : n \in EventsAt(Batch(i))
    BY <1>b, <2>2 DEF Batch, EventsAt, OnItsWay
  <2>3. CASE n \in dropped
    BY <1>b, <2>3 DEF OnItsWay
  <2>. QED
    BY <1>a, <1>b, <2>1, <2>2, <2>3 DEF OnItsWay
<1>1. ASSUME NEW m \in Notifications, Enqueue(m) PROVE OnItsWay(n)'
  <2>1. CASE m = n
    BY <1>0, <1>1, <2>1 DEF Enqueue, OnItsWay
  <2>2. CASE m # n
    BY <1>0, <1>1, <1>b, <2>2 DEF Enqueue, OnItsWay, redisVars, loopVars
  <2>. QED
    BY <2>1, <2>2
<1>2. ASSUME NEW e \in Events, Record(e) PROVE OnItsWay(n)'
  BY <1>0, <1>2, <1>b DEF Record, OnItsWay, redisVars, loopVars
<1>3. ASSUME NEW e \in Events, Add(e) \/ AddResent(e) PROVE OnItsWay(n)'
  <2>1. Extended(e)
    BY <1>0, <1>3, AddExtends
  <2>2. UNCHANGED <<status, cursor, at, end, up, dropped>>
        /\ call' = [call EXCEPT ![e] = "done"]
    BY <1>3 DEF Add, AddResent, loopVars
  <2>3. CASE n = e
    <3>1. Len(stream) + 1 \in Unread' /\ stream'[Len(stream) + 1] = e
      BY <1>0, <2>1, <2>2 DEF Extended, Unread
    <3>. QED
      BY <2>3, <3>1 DEF EventsAt, OnItsWay
  <2>4. CASE n # e /\ call[n] \in {"record", "add"}
    BY <1>0, <2>2, <2>4 DEF OnItsWay
  <2>5. CASE n \in EventsAt(Unread)
    <3>1. PICK k \in Unread : n = stream[k]
      BY <2>5 DEF EventsAt
    <3>2. k \in Unread' /\ stream'[k] = n
      BY <1>0, <2>1, <2>2, <3>1 DEF Extended, Unread
    <3>. QED
      BY <3>2 DEF EventsAt, OnItsWay
  <2>6. CASE \E i \in up : n \in EventsAt(Batch(i))
    <3>0. PICK i \in up : n \in EventsAt(Batch(i))
      BY <2>6
    <3>1. PICK k \in Batch(i) : n = stream[k]
      BY <3>0 DEF EventsAt
    <3>2. k \in 1..Len(stream) /\ k \in Batch(i)'
      BY <1>0, <2>2, <3>1 DEF Batch
    <3>3. stream'[k] = n
      BY <2>1, <3>1, <3>2 DEF Extended
    <3>. QED
      BY <2>2, <3>2, <3>3 DEF EventsAt, OnItsWay
  <2>7. CASE n \in dropped
    BY <2>2, <2>7 DEF OnItsWay
  <2>. QED
    BY <1>a, <2>2, <2>3, <2>4, <2>5, <2>6, <2>7 DEF OnItsWay
<1>4. ASSUME NEW e \in Events, CallFails(e) PROVE OnItsWay(n)'
  BY <1>0, <1>4, <1>b DEF CallFails, OnItsWay, redisVars, loopVars
<1>5. ASSUME NEW i \in Instances, Start(i) PROVE OnItsWay(n)'
  <2>1. cursor' = cursor
    BY <1>5 DEF Start, StartId, GroupInv
  <2>. QED
    BY <1>0, <1>5, <1>b, <2>1 DEF Start, OnItsWay, loopVars
<1>6. ASSUME NEW i \in Instances, Read(i) \/ ReadLost(i) PROVE OnItsWay(n)'
  <2>0. ReadTo \in Nat /\ cursor <= ReadTo /\ ReadTo <= Len(stream)
    BY ReadToRange
  <2>1. /\ UNCHANGED <<status, call, stream, up>> /\ cursor' = ReadTo
        /\ dropped \subseteq dropped' /\ i \in up /\ ~Busy(i)
    BY <1>6 DEF Read, ReadLost
  <2>2. CASE n \in EventsAt(Unread)
    <3>1. PICK k \in Unread : n = stream[k]
      BY <2>2 DEF EventsAt
    <3>2. CASE k > ReadTo
      <4>1. k \in Unread' /\ stream'[k] = n
        BY <1>0, <2>0, <2>1, <3>1, <3>2 DEF Unread
      <4>. QED
        BY <4>1 DEF EventsAt, OnItsWay
    <3>3. CASE ~(k > ReadTo) /\ Read(i)
      <4>1. k \in Batch(i)' /\ stream'[k] = n
        BY <1>0, <2>0, <2>1, <3>1, <3>3 DEF Unread, Batch, Read
      <4>. QED
        BY <2>1, <4>1 DEF EventsAt, OnItsWay
    <3>4. CASE ~(k > ReadTo) /\ ReadLost(i)
      <4>1. k \in (cursor + 1)..ReadTo
        BY <1>0, <2>0, <3>1, <3>4 DEF Unread
      <4>. QED
        BY <3>1, <3>4, <4>1 DEF EventsAt, OnItsWay, ReadLost
    <3>. QED
      BY <1>6, <3>2, <3>3, <3>4
  <2>3. CASE \E j \in up : n \in EventsAt(Batch(j))
    <3>0. PICK j \in up : n \in EventsAt(Batch(j))
      BY <2>3
    <3>1. PICK k \in Batch(j) : n = stream[k]
      BY <3>0 DEF EventsAt
    <3>2. j # i
      BY <1>0, <2>1, <3>1 DEF Batch, Busy
    <3>3. Batch(j)' = Batch(j)
      BY <1>0, <1>6, <3>2 DEF Batch, Read, ReadLost, loopVars
    <3>. QED
      BY <2>1, <3>1, <3>3 DEF EventsAt, OnItsWay
  <2>4. CASE call[n] \in {"record", "add"} \/ n \in dropped
    BY <2>1, <2>4 DEF OnItsWay
  <2>. QED
    BY <1>a, <2>1, <2>2, <2>3, <2>4 DEF OnItsWay
<1>7. ASSUME NEW i \in Instances, HandleEvent(i) \/ Send(i) PROVE OnItsWay(n)'
  BY <1>7, <1>b DEF HandleEvent, Send, OnItsWay, redisVars
<1>8. ASSUME NEW i \in Instances, Mark(i) PROVE OnItsWay(n)'
  <2>1. status[n] = "queued"
    <3>1. status' = [status EXCEPT ![Current(i)] = step[i]] /\ step[i] # "queued"
      BY <1>8 DEF Mark, Settled
    <3>. QED
      BY <1>0, <3>1
  <2>. QED
    BY <1>8, <1>b, <2>1 DEF Mark, OnItsWay, redisVars
<1>9. ASSUME NEW i \in Instances, Ack(i) \/ AckFails(i) \/ HandlerFails(i)
      PROVE  OnItsWay(n)'
  <2>1. /\ UNCHANGED <<status, call, stream, cursor, up, end>>
        /\ at' = [at EXCEPT ![i] = @ + 1] /\ dropped \subseteq dropped' /\ Busy(i)
    BY <1>9 DEF Ack, AckFails, HandlerFails, NextEntry, redisVars
  <2>2. n = Current(i) => n \in dropped'
    <3>1. CASE HandlerFails(i)
      BY <3>1 DEF HandlerFails
    <3>2. CASE Ack(i) \/ AckFails(i)
      <4>1. step[i] = "ack"
        BY <3>2 DEF Ack, AckFails
      <4>. QED
        BY <2>1, <4>1 DEF AckInv, Settled
    <3>. QED
      BY <1>9, <3>1, <3>2
  <2>3. CASE \E j \in up : n \in EventsAt(Batch(j))
    <3>0. PICK j \in up : n \in EventsAt(Batch(j))
      BY <2>3
    <3>1. PICK k \in Batch(j) : n = stream[k]
      BY <3>0 DEF EventsAt
    <3>2. CASE j = i /\ k = at[i]
      BY <2>2, <3>1, <3>2 DEF Current, OnItsWay
    <3>3. CASE ~(j = i /\ k = at[i])
      <4>1. k \in Batch(j)'
        BY <1>0, <2>1, <3>1, <3>3 DEF Batch
      <4>. QED
        BY <2>1, <3>1, <4>1 DEF EventsAt, OnItsWay
    <3>. QED
      BY <3>2, <3>3
  <2>4. CASE n \in EventsAt(Unread)
    BY <2>1, <2>4 DEF EventsAt, Unread, OnItsWay
  <2>5. CASE call[n] \in {"record", "add"} \/ n \in dropped
    BY <2>1, <2>5 DEF OnItsWay
  <2>. QED
    BY <1>a, <2>1, <2>3, <2>4, <2>5 DEF OnItsWay
<1>10. ASSUME NEW i \in Instances, Crash(i) PROVE OnItsWay(n)'
  <2>1. /\ UNCHANGED <<status, call, stream, cursor>> /\ up' = up \ {i}
        /\ at' = [at EXCEPT ![i] = 1] /\ end' = [end EXCEPT ![i] = 0]
        /\ dropped' = dropped \cup EventsAt(Batch(i))
    BY <1>10 DEF Crash, redisVars
  <2>2. CASE \E j \in up : n \in EventsAt(Batch(j))
    <3>1. PICK j \in up : n \in EventsAt(Batch(j))
      BY <2>2
    <3>2. CASE j = i
      BY <2>1, <3>1, <3>2 DEF OnItsWay
    <3>3. CASE j # i
      <4>1. Batch(j)' = Batch(j) /\ j \in up'
        BY <1>0, <2>1, <3>1, <3>3 DEF Batch
      <4>. QED
        BY <2>1, <3>1, <4>1 DEF EventsAt, OnItsWay
    <3>. QED
      BY <3>2, <3>3
  <2>3. CASE n \in EventsAt(Unread)
    BY <2>1, <2>3 DEF EventsAt, Unread, OnItsWay
  <2>4. CASE call[n] \in {"record", "add"} \/ n \in dropped
    BY <2>1, <2>4 DEF OnItsWay
  <2>. QED
    BY <1>a, <2>1, <2>2, <2>3, <2>4 DEF OnItsWay
<1>11. CASE UNCHANGED vars
  BY <1>11, <1>b DEF vars, redisVars, loopVars, OnItsWay
<1>. QED
  BY <1>1, <1>2, <1>3, <1>4, <1>5, <1>6, <1>7, <1>8, <1>9, <1>10, <1>11
  DEF Next, Loop

-----------------------------------------------------------------------------
(* Settled reports are final, and only settled entries leave the pending   *)
(* list.                                                                   *)
LEMMA AckedStep ==
  TypeInv /\ CallsInv /\ StreamInv /\ GroupInv /\ AckInv /\ AckedIsSettled
    /\ [Next]_vars => AckedIsSettled'
<1>. SUFFICES ASSUME TypeInv, CallsInv, StreamInv, GroupInv, AckInv,
                     AckedIsSettled, [Next]_vars,
                     NEW k \in (1..cursor \ unacked)', stream'[k] \in Notifications
              PROVE  status'[stream'[k]] \in Settled
  BY DEF AckedIsSettled
<1>. USE PipelineAssumption
<1>0. /\ Notifications \subseteq Events
      /\ call \in [Events -> {"idle", "record", "add", "done"}]
      /\ status \in [Notifications -> {"free", "queued"} \cup Settled]
      /\ stream \in Seq(Events)
      /\ cursor \in 0..Len(stream)
  BY DEF Events, TypeInv, TypeOK
<1>a. ASSUME k \in 1..cursor \ unacked, stream'[k] = stream[k],
             status[stream[k]] \in Settled => status'[stream[k]] \in Settled
      PROVE  status'[stream'[k]] \in Settled
  BY <1>a DEF AckedIsSettled
<1>1. ASSUME NEW n \in Notifications, Enqueue(n) PROVE status'[stream'[k]] \in Settled
  <2>1. k \in 1..cursor \ unacked /\ k \in 1..Len(stream) /\ stream' = stream
    BY <1>0, <1>1 DEF Enqueue, redisVars
  <2>2. stream[k] # n
    BY <1>1, <2>1 DEF Enqueue, StreamInv
  <2>. QED
    BY <1>0, <1>1, <1>a, <2>1, <2>2 DEF Enqueue
<1>2. ASSUME NEW e \in Events, Add(e) \/ AddResent(e)
      PROVE  status'[stream'[k]] \in Settled
  <2>1. Extended(e)
    BY <1>0, <1>2, AddExtends
  <2>2. k \in 1..cursor \ unacked /\ k \in 1..Len(stream) /\ status' = status
    BY <1>0, <1>2 DEF Add, AddResent
  <2>. QED
    BY <1>a, <2>1, <2>2 DEF Extended
<1>3. ASSUME NEW i \in Instances, Read(i) \/ ReadLost(i)
      PROVE  status'[stream'[k]] \in Settled
  <2>1. ReadTo \in Nat
    BY ReadToRange
  <2>2. UNCHANGED <<status, stream>> /\ cursor' = ReadTo
        /\ unacked' = unacked \cup (cursor + 1)..ReadTo
    BY <1>3 DEF Read, ReadLost
  <2>3. k \in 1..cursor \ unacked
    BY <1>0, <2>1, <2>2
  <2>. QED
    BY <1>a, <2>2, <2>3
<1>4. ASSUME NEW i \in Instances, Mark(i) PROVE status'[stream'[k]] \in Settled
  <2>1. UNCHANGED <<stream, cursor, unacked>> /\ step[i] \in Settled
        /\ status' = [status EXCEPT ![Current(i)] = step[i]]
    BY <1>4 DEF Mark, redisVars
  <2>. QED
    BY <1>0, <1>a, <2>1
<1>5. ASSUME NEW i \in Instances, Ack(i) PROVE status'[stream'[k]] \in Settled
  <2>1. UNCHANGED <<status, stream, cursor>> /\ unacked' = unacked \ {at[i]}
        /\ Busy(i) /\ step[i] = "ack"
    BY <1>5 DEF Ack
  <2>2. CASE k = at[i]
    BY <2>1, <2>2 DEF AckInv, Current
  <2>3. CASE k # at[i]
    BY <1>a, <2>1, <2>3
  <2>. QED
    BY <2>2, <2>3
<1>6. ASSUME NEW i \in Instances, Start(i) PROVE status'[stream'[k]] \in Settled
  <2>1. cursor' = cursor
    BY <1>6 DEF Start, StartId, GroupInv
  <2>. QED
    BY <1>6, <1>a, <2>1 DEF Start
<1>7. CASE UNCHANGED <<status, stream, cursor, unacked>>
  BY <1>7, <1>a
<1>. QED
  BY <1>1, <1>2, <1>3, <1>4, <1>5, <1>6, <1>7
  DEF Next, Loop, vars, redisVars, Record, CallFails, HandleEvent, Send,
      HandlerFails, AckFails, Crash

(* At the start there is no event anywhere. *)
LEMMA AccountInit == Init => Account
<1>. SUFFICES ASSUME Init PROVE Account
  OBVIOUS
<1>1. TypeInv
  BY TypeInit
<1>2. Len(stream) = 0
  BY DEF Init
<1>3. CallsInv
  BY DEF Init, CallsInv, Events
<1>4. StreamInv /\ GroupInv
  BY <1>2 DEF Init, StreamInv, GroupInv
<1>5. AckInv
  BY DEF Init, AckInv
<1>6. QueuedIsAccountedFor
  BY DEF Init, QueuedIsAccountedFor
<1>7. AckedIsSettled
  BY DEF Init, AckedIsSettled
<1>. QED
  BY <1>1, <1>3, <1>4, <1>5, <1>6, <1>7 DEF Account

(* Every step of publish, the loops and the faults keeps the account. *)
LEMMA AccountStep == Account /\ [Next]_vars => Account'
BY TypeStep, CallsStep, StreamStep, GroupStep, AckStep, QueuedStep, AckedStep
DEF Account

(* The account holds in every reachable state. *)
LEMMA Accounted == Spec => []Account
BY AccountInit, AccountStep, PTL DEF Spec

(* The cursor never runs past the stream, no batch past the cursor, and    *)
(* every other variable stays in its type, for any number of processes.    *)
THEOREM TypeCorrect == Spec => []TypeOK
<1>1. Account => TypeOK
  BY DEF Account, TypeInv
<1>. QED
  BY <1>1, Accounted, PTL

(* enqueue, publish and the consumer loops lose no queued notification by  *)
(* themselves: without a recorded fault it is still on its way.            *)
THEOREM NothingLost == Spec => []QueuedIsAccountedFor
<1>1. Account => QueuedIsAccountedFor
  BY DEF Account
<1>. QED
  BY <1>1, Accounted, PTL

(* An entry leaves the pending list only with its notification settled.    *)
THEOREM OnlySettledAcked == Spec => []AckedIsSettled
<1>1. Account => AckedIsSettled
  BY DEF Account
<1>. QED
  BY <1>1, Accounted, PTL

(* The events table records every entry of the stream. *)
THEOREM StreamRecorded == Spec => []StreamIsRecorded
<1>1. Account => StreamIsRecorded
  BY DEF Account, StreamInv, StreamIsRecorded, EventsAt
<1>. QED
  BY <1>1, Accounted, PTL

-----------------------------------------------------------------------------
(* Without resent commands every entry is another event. *)
Distinct ==
  \A k, l \in 1..Len(stream) : stream[k] = stream[l] => k = l

(* No entry is in the hands of two consumers. *)
Disjoint ==
  \A i, j \in Instances : \A k \in Batch(i) : k \in Batch(j) => i = j

(* Queued, and nobody has sent it *)
Fresh(n) == status[n] = "queued" /\ sends[n] = 0

(* What no consumer has come to is fresh. *)
AheadFresh ==
  /\ \A n \in Notifications : call[n] \in {"idle", "record", "add"} => sends[n] = 0
  /\ \A n \in Notifications : call[n] \in {"record", "add"} => status[n] = "queued"
  /\ \A k \in Unread : stream[k] \in Notifications => Fresh(stream[k])
  /\ \A i \in Instances : \A k \in Batch(i) :
       k > at[i] /\ stream[k] \in Notifications => Fresh(stream[k])

(* What a consumer knows of the notification in its hands *)
HandInv ==
  \A i \in Instances : Busy(i) =>
    /\ step[i] \in {"send", "sent", "failed"} => Current(i) \in Notifications
    /\ step[i] \in {"handle", "send"} /\ Current(i) \in Notifications
         => Fresh(Current(i))
    /\ step[i] \in {"sent", "failed"} => status[Current(i)] = "queued"
    /\ step[i] = "sent" => sends[Current(i)] = 1

(* The account, and every entry in one hand at a time *)
Single == Account /\ Distinct /\ Disjoint /\ AheadFresh /\ HandInv

(* A published event is not published again, so entries stay distinct. *)
LEMMA DistinctStep ==
  Account /\ Distinct /\ "resend" \notin FaultKinds /\ [Next]_vars => Distinct'
<1>. SUFFICES ASSUME Account, Distinct, "resend" \notin FaultKinds, [Next]_vars
              PROVE  Distinct'
  OBVIOUS
<1>1. ASSUME NEW e \in Events, Add(e) PROVE Distinct'
  <2>1. stream \in Seq(Events) /\ stream' = Append(stream, e) /\ call[e] = "add"
    BY <1>1 DEF Account, TypeInv, TypeOK, Add
  <2>2. \A k \in 1..Len(stream) : stream[k] # e
    BY <2>1 DEF Account, StreamInv
  <2>3. Len(stream') = Len(stream) + 1 /\ stream'[Len(stream) + 1] = e
        /\ \A k \in 1..Len(stream) : stream'[k] = stream[k]
    BY <2>1
  <2>. QED
    BY <2>1, <2>2, <2>3 DEF Distinct
<1>2. ASSUME NEW e \in Events, AddResent(e) PROVE FALSE
  BY <1>2 DEF AddResent, Fault
<1>3. CASE stream' = stream
  BY <1>3 DEF Distinct
<1>. QED
  BY <1>1, <1>2, <1>3
  DEF Next, Loop, vars, redisVars, Enqueue, Record, CallFails, Start, Read,
      HandleEvent, Send, Mark, Ack, ReadLost, HandlerFails, AckFails, Crash

(* XREADGROUP hands an entry to one consumer: a new batch starts after the *)
(* cursor, and every other batch ends at it.                               *)
LEMMA DisjointStep == Account /\ Disjoint /\ [Next]_vars => Disjoint'
<1>. SUFFICES ASSUME Account, Disjoint, [Next]_vars PROVE Disjoint'
  OBVIOUS
<1>0. /\ at \in [Instances -> Nat \ {0}] /\ end \in [Instances -> 0..cursor]
      /\ cursor \in Nat
  BY DEF Account, TypeInv, TypeOK
<1>a. ASSUME \A i \in Instances : Batch(i)' \subseteq Batch(i) PROVE Disjoint'
  BY <1>a DEF Disjoint
<1>1. ASSUME NEW i \in Instances, Read(i) PROVE Disjoint'
  <2>1. ReadTo \in Nat
    BY ReadToRange DEF Account
  <2>2. Batch(i)' = (cursor + 1)..ReadTo
    BY <1>0, <1>1 DEF Read, Batch
  <2>3. ASSUME NEW j \in Instances, j # i PROVE Batch(j)' = Batch(j)
    BY <1>0, <1>1, <2>3 DEF Read, Batch
  <2>4. ASSUME NEW j \in Instances, NEW k \in Batch(j) PROVE k \in Nat /\ k <= cursor
    BY <1>0, <2>4 DEF Batch
  <2>5. ASSUME NEW k \in Batch(i)' PROVE k \in Nat /\ k > cursor
    BY <1>0, <2>1, <2>2, <2>5
  <2>6. ASSUME NEW j \in Instances, j # i, NEW k \in Batch(i)', k \in Batch(j)' PROVE FALSE
    <3>1. k \in Batch(j)
      BY <2>3, <2>6
    <3>. QED
      BY <1>0, <2>4, <2>5, <3>1
  <2>7. ASSUME NEW p \in Instances, NEW q \in Instances,
               NEW k \in Batch(p)', k \in Batch(q)'
        PROVE  p = q
    <3>1. CASE p = i
      BY <2>6, <2>7, <3>1
    <3>2. CASE q = i
      BY <2>6, <2>7, <3>2
    <3>3. CASE p # i /\ q # i
      BY <2>3, <2>7, <3>3 DEF Disjoint
    <3>. QED
      BY <3>1, <3>2, <3>3
  <2>. QED
    BY <2>7 DEF Disjoint
<1>2. ASSUME NEW i \in Instances, Ack(i) \/ AckFails(i) \/ HandlerFails(i) PROVE Disjoint'
  <2>1. at' = [at EXCEPT ![i] = @ + 1] /\ end' = end
    BY <1>2 DEF Ack, AckFails, HandlerFails, NextEntry
  <2>2. \A j \in Instances : Batch(j)' \subseteq Batch(j)
    BY <1>0, <2>1 DEF Batch
  <2>. QED
    BY <1>a, <2>2
<1>3. ASSUME NEW i \in Instances, Crash(i) PROVE Disjoint'
  <2>1. at' = [at EXCEPT ![i] = 1] /\ end' = [end EXCEPT ![i] = 0]
    BY <1>3 DEF Crash
  <2>2. \A j \in Instances : Batch(j)' \subseteq Batch(j)
    BY <1>0, <2>1 DEF Batch
  <2>. QED
    BY <1>a, <2>2
<1>4. CASE UNCHANGED <<at, end>>
  BY <1>a, <1>4 DEF Batch
<1>. QED
  BY <1>1, <1>2, <1>3, <1>4
  DEF Next, Loop, vars, loopVars, Enqueue, Record, Add, AddResent, CallFails,
      Start, HandleEvent, Send, Mark, ReadLost

(* A consumer's entry differs from every entry no consumer has come to.    *)
LEMMA CurrentDiffers ==
  ASSUME Account, Distinct, NEW i \in Instances, Busy(i),
         NEW k \in 1..Len(stream), k # at[i]
  PROVE  Current(i) # stream[k]
BY BusyEntry DEF Account, Distinct, Current

(* Two consumers handle different events. *)
LEMMA HandsDiffer ==
  ASSUME Account, Distinct, Disjoint, NEW i \in Instances, NEW j \in Instances,
         i # j, Busy(i), Busy(j)
  PROVE  at[i] # at[j] /\ Current(i) # Current(j)
<1>1. at[i] \in Batch(i) /\ at[j] \in Batch(j)
  BY DEF Account, TypeInv, TypeOK, Batch, Busy
<1>2. at[i] # at[j]
  BY <1>1 DEF Disjoint
<1>3. at[j] \in 1..Len(stream) /\ Current(j) = stream[at[j]]
  BY BusyEntry DEF Account, Current
<1>. QED
  BY <1>2, <1>3, CurrentDiffers

(* Only enqueue and the consumer that handles a notification change it. *)
LEMMA FreshKept ==
  ASSUME Account, NEW n \in Notifications, Fresh(n), [Next]_vars,
         \A i \in Instances : Busy(i) => Current(i) # n
  PROVE  Fresh(n)'
<1>0. /\ status \in [Notifications -> {"free", "queued"} \cup Settled]
      /\ sends \in [Notifications -> Nat]
  BY DEF Account, TypeInv, TypeOK
<1>1. ASSUME NEW m \in Notifications, Enqueue(m) PROVE Fresh(n)'
  BY <1>0, <1>1 DEF Enqueue, Fresh
<1>2. ASSUME NEW i \in Instances, Send(i) PROVE Fresh(n)'
  <2>1. Current(i) # n /\ status' = status
    BY <1>2 DEF Send
  <2>2. sends' = sends \/ sends' = [sends EXCEPT ![Current(i)] = @ + 1]
    BY <1>2 DEF Send
  <2>3. sends'[n] = sends[n]
    BY <1>0, <2>1, <2>2
  <2>. QED
    BY <2>1, <2>3 DEF Fresh
<1>3. ASSUME NEW i \in Instances, Mark(i) PROVE Fresh(n)'
  <2>1. Current(i) # n /\ sends' = sends
        /\ status' = [status EXCEPT ![Current(i)] = step[i]]
    BY <1>3 DEF Mark
  <2>. QED
    BY <1>0, <2>1 DEF Fresh
<1>4. CASE UNCHANGED <<status, sends>>
  BY <1>4 DEF Fresh
<1>. QED
  BY <1>1, <1>2, <1>3, <1>4
  DEF Next, Loop, vars, Record, Add, AddResent, CallFails, Start, Read,
      HandleEvent, Ack, ReadLost, HandlerFails, AckFails, Crash

(* A notification whose call is under way stays untouched. *)
LEMMA CallsFreshStep ==
  ASSUME Single, [Next]_vars, NEW n \in Notifications
  PROVE  /\ call'[n] \in {"idle", "record", "add"} => sends'[n] = 0
         /\ call'[n] \in {"record", "add"} => status'[n] = "queued"
<1>0. /\ n \in Events
      /\ call \in [Events -> {"idle", "record", "add", "done"}]
      /\ status \in [Notifications -> {"free", "queued"} \cup Settled]
      /\ sends \in [Notifications -> Nat]
  BY DEF Single, Account, TypeInv, TypeOK, Events
<1>a. /\ call[n] \in {"idle", "record", "add"} => sends[n] = 0
      /\ call[n] \in {"record", "add"} => status[n] = "queued"
  BY DEF Single, AheadFresh
<1>1. ASSUME NEW m \in Notifications, Enqueue(m)
      PROVE  /\ call'[n] \in {"idle", "record", "add"} => sends'[n] = 0
             /\ call'[n] \in {"record", "add"} => status'[n] = "queued"
  BY <1>0, <1>a, <1>1 DEF Enqueue
<1>2. ASSUME NEW e \in Events, Record(e)
      PROVE  /\ call'[n] \in {"idle", "record", "add"} => sends'[n] = 0
             /\ call'[n] \in {"record", "add"} => status'[n] = "queued"
  BY <1>0, <1>a, <1>2 DEF Record
<1>3. ASSUME NEW e \in Events, Add(e) \/ AddResent(e) \/ CallFails(e)
      PROVE  /\ call'[n] \in {"idle", "record", "add"} => sends'[n] = 0
             /\ call'[n] \in {"record", "add"} => status'[n] = "queued"
  <2>1. call' = [call EXCEPT ![e] = "done"] /\ status' = status /\ sends' = sends
    BY <1>3 DEF Add, AddResent, CallFails
  <2>. QED
    BY <1>0, <1>a, <2>1
<1>4. ASSUME NEW i \in Instances, Send(i) \/ Mark(i)
      PROVE  /\ call'[n] \in {"idle", "record", "add"} => sends'[n] = 0
             /\ call'[n] \in {"record", "add"} => status'[n] = "queued"
  <2>1. call[Current(i)] = "done" /\ call' = call
    BY <1>4, BusyEntry DEF Send, Mark, Single, Account
  <2>2. sends' = sends \/ sends' = [sends EXCEPT ![Current(i)] = @ + 1]
    BY <1>4 DEF Send, Mark
  <2>3. status' = status \/ status' = [status EXCEPT ![Current(i)] = step[i]]
    BY <1>4 DEF Send, Mark
  <2>4. call[n] # "done" => sends'[n] = sends[n] /\ status'[n] = status[n]
    BY <1>0, <2>1, <2>2, <2>3
  <2>. QED
    BY <1>0, <1>a, <2>1, <2>4
<1>5. CASE UNCHANGED <<status, sends, call>>
  BY <1>a, <1>5
<1>. QED
  BY <1>1, <1>2, <1>3, <1>4, <1>5
  DEF Next, Loop, vars, Start, Read, HandleEvent, Ack, ReadLost, HandlerFails,
      AckFails, Crash

(* An entry that no consumer has come to before or after a step is fresh   *)
(* after it.                                                               *)
LEMMA AheadKept ==
  ASSUME Single, [Next]_vars, NEW n \in Notifications,
         NEW k \in 1..Len(stream), stream[k] = n,
         k \in Unread \/ \E j \in Instances : k \in Batch(j) /\ k > at[j]
  PROVE  Fresh(n)'
<1>1. Fresh(n)
  BY DEF Single, AheadFresh
<1>2. ASSUME NEW i \in Instances, Busy(i) PROVE Current(i) # n
  <2>1. at[i] \in 1..cursor /\ at[i] \in Batch(i) /\ cursor \in Nat
    BY <1>2, BusyEntry DEF Single, Account, TypeInv, TypeOK, Batch, Busy
  <2>2. CASE k \in Unread
    <3>1. k # at[i]
      BY <2>1, <2>2 DEF Unread
    <3>. QED
      BY <1>2, <3>1, CurrentDiffers DEF Single
  <2>3. ASSUME NEW j \in Instances, k \in Batch(j), k > at[j] PROVE Current(i) # n
    <3>1. k # at[i]
      BY <2>1, <2>3 DEF Single, Disjoint, Account, TypeInv
    <3>. QED
      BY <1>2, <3>1, CurrentDiffers DEF Single
  <2>. QED
    BY <2>2, <2>3
<1>. QED
  BY <1>1, <1>2, FreshKept DEF Single

(* What no consumer has come to stays fresh. *)
LEMMA AheadStep ==
  Single /\ "resend" \notin FaultKinds /\ [Next]_vars => AheadFresh'
<1>. SUFFICES ASSUME Single, "resend" \notin FaultKinds, [Next]_vars
              PROVE  AheadFresh'
  OBVIOUS
<1>0. /\ stream \in Seq(Events) /\ cursor \in 0..Len(stream)
      /\ at \in [Instances -> Nat \ {0}] /\ end \in [Instances -> 0..cursor]
      /\ TypeInv
  BY DEF Single, Account, TypeInv, TypeOK
<1>a. ASSUME NEW k \in 1..Len(stream), stream'[k] = stream[k],
             stream'[k] \in Notifications,
             k \in Unread \/ \E j \in Instances : k \in Batch(j) /\ k > at[j]
      PROVE  Fresh(stream[k])'
  <2>. DEFINE n == stream[k]
  <2>1. ASSUME NEW m \in Notifications, stream[k] = m PROVE Fresh(m)'
    BY <1>a, <2>1, AheadKept
  <2>2. status'[n] = "queued" /\ sends'[n] = 0
    BY <1>a, <2>1 DEF Fresh
  <2>. QED
    BY <1>a, <2>2 DEF Fresh
<1>r. ReadTo \in Nat /\ cursor <= ReadTo /\ ReadTo <= Len(stream)
  BY <1>0, ReadToRange
<1>1. ASSUME NEW e \in Events, Add(e) PROVE AheadFresh'
  <2>1. stream' = Append(stream, e) /\ UNCHANGED <<status, sends, cursor, at, end>>
        /\ call[e] = "add"
    BY <1>1 DEF Add, loopVars
  <2>2. Len(stream') = Len(stream) + 1 /\ stream'[Len(stream) + 1] = e
        /\ \A k \in 1..Len(stream) : stream'[k] = stream[k]
    BY <1>0, <2>1
  <2>3. ASSUME NEW k \in Unread', stream'[k] \in Notifications PROVE Fresh(stream[k])'
    <3>1. CASE k = Len(stream) + 1
      <4>1. status[e] = "queued" /\ sends[e] = 0
        BY <2>1, <2>2, <2>3, <3>1 DEF Single, AheadFresh
      <4>. QED
        BY <2>1, <2>2, <3>1, <4>1 DEF Fresh
    <3>2. CASE k # Len(stream) + 1
      <4>1. k \in Unread /\ k \in 1..Len(stream)
        BY <1>0, <2>1, <2>2, <2>3, <3>2 DEF Unread
      <4>. QED
        BY <1>a, <2>2, <2>3, <4>1
    <3>. QED
      BY <3>1, <3>2
  <2>4. ASSUME NEW j \in Instances, NEW k \in Batch(j)', k > at'[j],
               stream'[k] \in Notifications
        PROVE  Fresh(stream[k])'
    <3>1. k \in Batch(j) /\ k > at[j] /\ k \in 1..Len(stream)
      BY <1>0, <2>1, <2>4 DEF Batch
    <3>. QED
      BY <1>a, <2>2, <2>4, <3>1
  <2>. QED
    BY <2>3, <2>4, CallsFreshStep DEF AheadFresh
<1>2. ASSUME NEW e \in Events, AddResent(e) PROVE FALSE
  BY <1>2 DEF AddResent, Fault
(* The other steps leave the stream alone and only move forward in it. *)
<1>3. ASSUME stream' = stream, Unread' \subseteq Unread,
             \A j \in Instances : \A k \in Batch(j)' : k > at'[j] =>
               k \in Unread \/ (k \in Batch(j) /\ k > at[j])
      PROVE  AheadFresh'
  <2>1. ASSUME NEW k \in Unread', stream'[k] \in Notifications PROVE Fresh(stream[k])'
    <3>1. k \in Unread /\ k \in 1..Len(stream)
      BY <1>0, <1>3, <2>1 DEF Unread
    <3>. QED
      BY <1>a, <1>3, <2>1, <3>1
  <2>2. ASSUME NEW j \in Instances, NEW k \in Batch(j)', k > at'[j],
               stream'[k] \in Notifications
        PROVE  Fresh(stream[k])'
    <3>1. k \in Unread \/ (k \in Batch(j) /\ k > at[j])
      BY <1>3, <2>2
    <3>2. k \in 1..Len(stream)
      BY <1>0, <3>1 DEF Unread, Batch
    <3>. QED
      BY <1>a, <1>3, <2>2, <3>1, <3>2
  <2>. QED
    BY <2>1, <2>2, CallsFreshStep DEF AheadFresh
<1>4. ASSUME NEW i \in Instances, Read(i) PROVE AheadFresh'
  <2>1. stream' = stream /\ cursor' = ReadTo
        /\ at' = [at EXCEPT ![i] = cursor + 1] /\ end' = [end EXCEPT ![i] = ReadTo]
    BY <1>4 DEF Read
  <2>2. Unread' \subseteq Unread
    BY <1>0, <1>r, <2>1 DEF Unread
  <2>3. \A j \in Instances : \A k \in Batch(j)' : k > at'[j] =>
          k \in Unread \/ (k \in Batch(j) /\ k > at[j])
    BY <1>0, <1>r, <2>1 DEF Unread, Batch
  <2>. QED
    BY <1>3, <2>1, <2>2, <2>3
<1>5. ASSUME NEW i \in Instances, ReadLost(i) PROVE AheadFresh'
  <2>1. UNCHANGED <<stream, at, end>> /\ cursor' = ReadTo
    BY <1>5 DEF ReadLost, loopVars
  <2>2. Unread' \subseteq Unread
    BY <1>0, <1>r, <2>1 DEF Unread
  <2>. QED
    BY <1>3, <2>1, <2>2 DEF Batch
<1>6. ASSUME NEW i \in Instances, Start(i) PROVE AheadFresh'
  <2>1. UNCHANGED <<stream, at, end, cursor>>
    BY <1>6 DEF Start, StartId, loopVars, Single, Account, GroupInv
  <2>. QED
    BY <1>3, <2>1 DEF Batch, Unread
<1>7. ASSUME NEW i \in Instances, Ack(i) \/ AckFails(i) \/ HandlerFails(i) PROVE AheadFresh'
  <2>1. UNCHANGED <<stream, end, cursor>> /\ at' = [at EXCEPT ![i] = @ + 1]
    BY <1>7 DEF Ack, AckFails, HandlerFails, NextEntry, redisVars
  <2>2. \A j \in Instances : \A k \in Batch(j)' : k > at'[j] =>
          k \in Batch(j) /\ k > at[j]
    BY <1>0, <2>1 DEF Batch
  <2>. QED
    BY <1>3, <2>1, <2>2 DEF Unread
<1>8. ASSUME NEW i \in Instances, Crash(i) PROVE AheadFresh'
  <2>1. UNCHANGED <<stream, cursor>> /\ at' = [at EXCEPT ![i] = 1]
        /\ end' = [end EXCEPT ![i] = 0]
    BY <1>8 DEF Crash, redisVars
  <2>2. \A j \in Instances : \A k \in Batch(j)' : k > at'[j] =>
          k \in Batch(j) /\ k > at[j]
    BY <1>0, <2>1 DEF Batch
  <2>. QED
    BY <1>3, <2>1, <2>2 DEF Unread
<1>9. CASE UNCHANGED <<stream, cursor, at, end>>
  BY <1>3, <1>9 DEF Batch, Unread
<1>. QED
  BY <1>1, <1>2, <1>4, <1>5, <1>6, <1>7, <1>8, <1>9
  DEF Next, Loop, vars, redisVars, loopVars, Enqueue, Record, CallFails,
      HandleEvent, Send, Mark

(* What HandInv says of one consumer *)
Hand(i) ==
  /\ step[i] \in {"send", "sent", "failed"} => Current(i) \in Notifications
  /\ step[i] \in {"handle", "send"} /\ Current(i) \in Notifications
       => Fresh(Current(i))
  /\ step[i] \in {"sent", "failed"} => status[Current(i)] = "queued"
  /\ step[i] = "sent" => sends[Current(i)] = 1

(* What a consumer has in hand is in the state its step calls for. *)
LEMMA HandStep ==
  Single /\ "resend" \notin FaultKinds /\ [Next]_vars => HandInv'
<1>. SUFFICES ASSUME Single, "resend" \notin FaultKinds, [Next]_vars,
                     NEW j \in Instances, Busy(j)'
              PROVE  Hand(j)'
  BY DEF HandInv, Hand
<1>. USE PipelineAssumption
<1>0. /\ TypeInv /\ StreamInv /\ stream \in Seq(Events) /\ cursor \in 0..Len(stream)
      /\ at \in [Instances -> Nat \ {0}] /\ end \in [Instances -> 0..cursor]
      /\ step \in [Instances -> {"handle", "send", "ack", "sent", "failed"}]
      /\ status \in [Notifications -> {"free", "queued"} \cup Settled]
      /\ sends \in [Notifications -> Nat]
  BY DEF Single, Account, TypeInv, TypeOK, Settled
<1>h. Busy(j) => Hand(j)
  BY DEF Single, HandInv, Hand
<1>a. ASSUME Busy(j), Current(j)' = Current(j), step'[j] = step[j],
             Current(j) \in Notifications =>
               status'[Current(j)] = status[Current(j)]
               /\ sends'[Current(j)] = sends[Current(j)]
      PROVE  Hand(j)'
  BY <1>a, <1>h DEF Hand, Fresh
(* A consumer that turns to an entry ahead of it finds it fresh. *)
<1>b. ASSUME step'[j] = "handle", UNCHANGED <<stream, status, sends>>,
             at'[j] \in Unread \/ (at'[j] \in Batch(j) /\ at'[j] > at[j])
      PROVE  Hand(j)'
  <2>1. stream[at'[j]] \in Notifications => Fresh(stream[at'[j]])
    BY <1>b DEF Single, AheadFresh
  <2>. QED
    BY <1>b, <2>1 DEF Hand, Fresh, Current
<1>1. ASSUME NEW n \in Notifications, Enqueue(n) PROVE Hand(j)'
  <2>1. Busy(j) /\ Current(j)' = Current(j) /\ step' = step /\ sends' = sends
        /\ status' = [status EXCEPT ![n] = "queued"] /\ call[n] = "idle"
    BY <1>1 DEF Enqueue, Busy, Current, redisVars, loopVars
  <2>2. Current(j) # n
    BY <1>0, <2>1, BusyEntry
  <2>. QED
    BY <1>0, <1>a, <2>1, <2>2
<1>2. ASSUME NEW e \in Events, Add(e) PROVE Hand(j)'
  <2>1. Busy(j) /\ UNCHANGED <<at, step, status, sends>> /\ Extended(e)
    BY <1>0, <1>2, AddExtends DEF Add, Busy, loopVars
  <2>2. Current(j)' = Current(j)
    BY <1>0, <2>1, BusyEntry DEF Extended, Current
  <2>. QED
    BY <1>a, <2>1, <2>2
<1>3. ASSUME NEW e \in Events, AddResent(e) PROVE FALSE
  BY <1>3 DEF AddResent, Fault
<1>4. ASSUME NEW i \in Instances, Read(i) PROVE Hand(j)'
  <2>1. UNCHANGED <<stream, status, sends>> /\ cursor < Len(stream)
        /\ at' = [at EXCEPT ![i] = cursor + 1] /\ end' = [end EXCEPT ![i] = ReadTo]
        /\ step' = [step EXCEPT ![i] = "handle"]
    BY <1>4 DEF Read
  <2>2. CASE j = i
    <3>1. step'[j] = "handle" /\ at'[j] \in Unread
      BY <1>0, <2>1, <2>2 DEF Unread
    <3>. QED
      BY <1>b, <2>1, <3>1
  <2>3. CASE j # i
    <3>1. at'[j] = at[j] /\ end'[j] = end[j] /\ step'[j] = step[j]
      BY <1>0, <2>1, <2>3
    <3>. QED
      BY <1>a, <2>1, <3>1 DEF Busy, Current
  <2>. QED
    BY <2>2, <2>3
<1>5. ASSUME NEW i \in Instances, HandleEvent(i) PROVE Hand(j)'
  <2>1. UNCHANGED <<stream, at, end, status, sends>> /\ step[i] = "handle"
        /\ step' = [step EXCEPT ![i] = AfterSelect(Current(i))]
    BY <1>5 DEF HandleEvent, redisVars
  <2>2. Busy(j) /\ Current(j)' = Current(j)
    BY <2>1 DEF Busy, Current
  <2>3. CASE j = i
    <3>1. Current(j) \in Events
      BY <1>0, <2>2, BusyEntry
    <3>2. step'[j] = AfterSelect(Current(j)) /\ step[j] = "handle"
      BY <1>0, <2>1, <2>3
    <3>3. step'[j] \in {"ack", "failed", "send"}
          /\ (step'[j] # "ack" => Current(j) \in Notifications)
      BY <3>1, <3>2 DEF AfterSelect, Events
    <3>4. Current(j) \in Notifications => Fresh(Current(j))
      BY <1>h, <2>2, <3>2 DEF Hand
    <3>. QED
      BY <2>1, <2>2, <3>3, <3>4 DEF Hand, Fresh
  <2>4. CASE j # i
    BY <1>0, <1>a, <2>1, <2>2, <2>4
  <2>. QED
    BY <2>3, <2>4
<1>6. ASSUME NEW i \in Instances, Send(i) PROVE Hand(j)'
  <2>1. UNCHANGED <<stream, at, end, status>> /\ step[i] = "send" /\ Busy(i)
    BY <1>6 DEF Send, redisVars
  <2>2. PICK got \in BOOLEAN, next \in {"sent", "failed"} :
          /\ next = "sent" => got
          /\ sends' = IF got THEN [sends EXCEPT ![Current(i)] = @ + 1] ELSE sends
          /\ step' = [step EXCEPT ![i] = next]
    BY <1>6 DEF Send, Settled
  <2>3. Busy(j) /\ Current(j)' = Current(j)
    BY <2>1 DEF Busy, Current
  <2>4. CASE j = i
    <3>1. Current(j) \in Notifications /\ Fresh(Current(j))
      BY <1>h, <2>1, <2>3, <2>4 DEF Hand
    <3>2. step'[j] = next /\ (next = "sent" => sends'[Current(j)] = 1)
      BY <1>0, <2>2, <2>4, <3>1 DEF Fresh
    <3>. QED
      BY <2>1, <2>3, <3>1, <3>2 DEF Hand, Fresh
  <2>5. CASE j # i
    <3>1. Current(i) # Current(j)
      BY <2>1, <2>3, <2>5, HandsDiffer DEF Single
    <3>2. step'[j] = step[j]
      BY <1>0, <2>2, <2>5
    <3>3. Current(j) \in Notifications => sends'[Current(j)] = sends[Current(j)]
      BY <1>0, <2>2, <3>1
    <3>. QED
      BY <1>a, <2>1, <2>3, <3>2, <3>3
  <2>. QED
    BY <2>4, <2>5
<1>7. ASSUME NEW i \in Instances, Mark(i) PROVE Hand(j)'
  <2>1. UNCHANGED <<stream, at, end, sends>> /\ Busy(i)
        /\ status' = [status EXCEPT ![Current(i)] = step[i]]
        /\ step' = [step EXCEPT ![i] = "ack"]
    BY <1>7 DEF Mark, redisVars
  <2>2. Busy(j) /\ Current(j)' = Current(j)
    BY <2>1 DEF Busy, Current
  <2>3. CASE j = i
    <3>1. step'[j] = "ack"
      BY <1>0, <2>1, <2>3
    <3>. QED
      BY <3>1 DEF Hand
  <2>4. CASE j # i
    <3>1. Current(i) # Current(j)
      BY <2>1, <2>2, <2>4, HandsDiffer DEF Single
    <3>2. step'[j] = step[j]
          /\ (Current(j) \in Notifications => status'[Current(j)] = status[Current(j)])
      BY <1>0, <2>1, <2>4, <3>1
    <3>. QED
      BY <1>a, <2>1, <2>2, <3>2
  <2>. QED
    BY <2>3, <2>4
<1>8. ASSUME NEW i \in Instances, Ack(i) \/ AckFails(i) \/ HandlerFails(i) PROVE Hand(j)'
  <2>1. UNCHANGED <<stream, status, sends, end>> /\ at' = [at EXCEPT ![i] = @ + 1]
        /\ step' = [step EXCEPT ![i] = "handle"]
    BY <1>8 DEF Ack, AckFails, HandlerFails, NextEntry, redisVars
  <2>2. CASE j = i
    <3>1. step'[j] = "handle" /\ at'[j] \in Batch(j) /\ at'[j] > at[j]
      BY <1>0, <2>1, <2>2 DEF Busy, Batch
    <3>. QED
      BY <1>b, <2>1, <3>1
  <2>3. CASE j # i
    <3>1. at'[j] = at[j] /\ step'[j] = step[j]
      BY <1>0, <2>1, <2>3
    <3>. QED
      BY <1>a, <2>1, <3>1 DEF Busy, Current
  <2>. QED
    BY <2>2, <2>3
<1>9. ASSUME NEW i \in Instances, Crash(i) PROVE Hand(j)'
  <2>1. UNCHANGED <<stream, status, sends>> /\ at' = [at EXCEPT ![i] = 1]
        /\ end' = [end EXCEPT ![i] = 0] /\ step' = [step EXCEPT ![i] = "handle"]
    BY <1>9 DEF Crash, redisVars
  <2>2. j # i
    BY <1>0, <2>1 DEF Busy
  <2>3. at'[j] = at[j] /\ end'[j] = end[j] /\ step'[j] = step[j]
    BY <1>0, <2>1, <2>2
  <2>. QED
    BY <1>a, <2>1, <2>3 DEF Busy, Current
<1>10. CASE UNCHANGED <<stream, at, end, step, status, sends>>
  BY <1>a, <1>10 DEF Busy, Current
<1>. QED
  BY <1>1, <1>2, <1>3, <1>4, <1>5, <1>6, <1>7, <1>8, <1>9, <1>10
  DEF Next, Loop, vars, redisVars, loopVars, Record, CallFails, Start, ReadLost

-----------------------------------------------------------------------------
(* At the start nothing is in the stream and nobody is busy. *)
LEMMA SingleInit == Init => Single
<1>. SUFFICES ASSUME Init PROVE Single
  OBVIOUS
<1>1. Account
  BY AccountInit
<1>2. Len(stream) = 0 /\ cursor = 0
  BY DEF Init
<1>3. \A i \in Instances : ~Busy(i) /\ Batch(i) = {}
  BY DEF Init, Busy, Batch
<1>4. Distinct /\ Disjoint /\ HandInv
  BY <1>2, <1>3 DEF Distinct, Disjoint, HandInv
<1>5. AheadFresh
  <2>1. \A n \in Notifications : sends[n] = 0 /\ call[n] = "idle"
    BY DEF Init, Events
  <2>2. Unread = {}
    BY <1>2 DEF Unread
  <2>. QED
    BY <1>3, <2>1, <2>2 DEF AheadFresh
<1>. QED
  BY <1>1, <1>4, <1>5 DEF Single

(* Every step of the pipeline is a step of NotificationDelivery or none:   *)
(* a message leaves once because only one consumer holds its one entry.    *)
LEMMA DeliveryStep ==
  Single /\ [Next]_vars => [Delivery!Next]_(Delivery!delivery)
<1>. SUFFICES ASSUME Single, [Next]_vars
              PROVE  Delivery!Next \/ UNCHANGED <<status, sends>>
  BY DEF Delivery!delivery
<1>0. /\ status \in [Notifications -> {"free", "queued"} \cup Settled]
      /\ sends \in [Notifications -> Nat]
  BY DEF Single, Account, TypeInv, TypeOK
<1>1. ASSUME NEW n \in Notifications, Enqueue(n) PROVE Delivery!Next
  <2>1. status[n] = "free"
    BY <1>1 DEF Enqueue, Single, Account, CallsInv
  <2>2. Delivery!Request(n)
    BY <1>1, <2>1 DEF Enqueue, Delivery!Request
  <2>. QED
    BY <2>2 DEF Delivery!Next
<1>2. ASSUME NEW i \in Instances, Send(i) PROVE Delivery!Next \/ UNCHANGED <<status, sends>>
  <2>1. Current(i) \in Notifications /\ status[Current(i)] = "queued"
        /\ sends[Current(i)] = 0 /\ status' = status
    BY <1>2 DEF Send, Single, HandInv, Fresh
  <2>2. sends' = sends \/ sends' = [sends EXCEPT ![Current(i)] = @ + 1]
    BY <1>2 DEF Send
  <2>3. CASE sends' = [sends EXCEPT ![Current(i)] = @ + 1]
    <3>1. sends' = [sends EXCEPT ![Current(i)] = 1]
      BY <1>0, <2>1, <2>3
    <3>2. Delivery!Deliver(Current(i))
      BY <2>1, <3>1 DEF Delivery!Deliver
    <3>. QED
      BY <2>1, <3>2 DEF Delivery!Next
  <2>. QED
    BY <2>1, <2>2, <2>3
<1>3. ASSUME NEW i \in Instances, Mark(i) PROVE Delivery!Next
  <2>1. step[i] \in {"sent", "failed"} /\ Busy(i) /\ sends' = sends
        /\ status' = [status EXCEPT ![Current(i)] = step[i]]
    BY <1>3 DEF Mark, Settled
  <2>2. Current(i) \in Notifications /\ status[Current(i)] = "queued"
        /\ (step[i] = "sent" => sends[Current(i)] = 1)
    BY <2>1 DEF Single, HandInv
  <2>3. Delivery!ReportSent(Current(i)) \/ Delivery!ReportFailed(Current(i))
    BY <2>1, <2>2 DEF Delivery!ReportSent, Delivery!ReportFailed
  <2>. QED
    BY <2>2, <2>3 DEF Delivery!Next
<1>4. CASE UNCHANGED <<status, sends>>
  BY <1>4
<1>. QED
  BY <1>1, <1>2, <1>3, <1>4
  DEF Next, Loop, vars, Record, Add, AddResent, CallFails, Start, Read,
      HandleEvent, Ack, ReadLost, HandlerFails, AckFails, Crash

(* When the Redis client resends no command, the pipeline implements       *)
(* NotificationDelivery, whatever else fails, crashes or is lost: no       *)
(* recipient gets a message twice, 'sent' is true, reports are final.      *)
THEOREM Implements ==
  ASSUME "resend" \notin FaultKinds
  PROVE  Spec => ImplementsDelivery
<1>1. Single /\ [Next]_vars => Single'
  <2>. SUFFICES ASSUME Single, [Next]_vars PROVE Single'
    OBVIOUS
  <2>1. Account'
    BY AccountStep DEF Single
  <2>2. Distinct' /\ Disjoint'
    BY DistinctStep, DisjointStep DEF Single
  <2>3. AheadFresh' /\ HandInv'
    BY AheadStep, HandStep
  <2>. QED
    BY <2>1, <2>2, <2>3 DEF Single
<1>2. Init => Delivery!Init
  BY DEF Init, Delivery!Init
<1>. QED
  BY <1>1, <1>2, SingleInit, DeliveryStep, PTL
  DEF Spec, ImplementsDelivery, Delivery!Spec

=============================================================================
