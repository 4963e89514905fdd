------------------------ MODULE NotificationPipeline ------------------------
(***************************************************************************)
(* A notification from NotificationsService.enqueue over the event bus     *)
(* (the events table and the Redis stream) to the dispatcher's consumer    *)
(* loop and the channel that delivers it.                                  *)
(*                                                                         *)
(* The stream, the consumer group's cursor and its pending entries live in *)
(* Redis; the rows live in Postgres; the batch a consumer read and how far *)
(* it is lives in its process and is gone when the process stops.          *)
(***************************************************************************)
EXTENDS Naturals, Sequences, FiniteSets

CONSTANTS
  Notifications,  \* rows the notifications table can take
  OtherEvents,    \* events other modules publish (ticket.overdue, ...)
  Unsendable,     \* notifications on a stubbed channel or unknown template
  Instances,      \* API processes, each with its consumer loop
  Count,          \* COUNT of XREADGROUP
  FaultKinds,     \* the faults that happen
  FaultBudget     \* BOUND: faults

Events == Notifications \cup OtherEvents

ASSUME PipelineAssumption ==
  /\ Notifications \cap OtherEvents = {}
  /\ Unsendable \subseteq Notifications
  /\ Count \in Nat \ {0}
  /\ FaultKinds \subseteq {"call", "resend", "read", "database", "ack", "crash"}
  /\ FaultBudget \in Nat

VARIABLES
  status,   \* notifications.status ("free": no row)
  recorded, \* events that have their row in the events table
  call,     \* where the publishing call of each event is
  stream,   \* the Redis stream, an event per entry
  group,    \* the consumer group exists
  cursor,   \* its last-delivered-id: entries handed to some consumer
  unacked,  \* its pending entries list
  up,       \* processes that run
  at, end,  \* entries at..end of its batch a consumer still has to handle
  step,     \* what it does with entry `at'
  sends,    \* history: times a recipient got the message
  dropped,  \* history: events a fault took away from their handler
  faults    \* faults so far

redisVars == <<stream, group, cursor, unacked>>
loopVars  == <<at, end, step>>
vars == <<status, recorded, call, redisVars, up, loopVars, sends, dropped,
          faults>>

-----------------------------------------------------------------------------
Settled == {"sent", "failed"}

Busy(i) == at[i] <= end[i]

Batch(i) == at[i]..end[i]

(* The event a consumer is handling *)
Current(i) == stream[at[i]]

EventsAt(entries) == {stream[k] : k \in entries}

Unread == (cursor + 1)..Len(stream)

Init ==
  /\ status = [n \in Notifications |-> "free"]
  /\ recorded = {}
  /\ call = [e \in Events |-> "idle"]
  /\ stream = <<>>
  /\ group = FALSE
  /\ cursor = 0
  /\ unacked = {}
  /\ up = {}
  /\ at = [i \in Instances |-> 1]
  /\ end = [i \in Instances |-> 0]
  /\ step = [i \in Instances |-> "handle"]
  /\ sends = [n \in Notifications |-> 0]
  /\ dropped = {}
  /\ faults = 0

(* A fault of the given kind happens now. *)
Fault(kind) ==
  /\ kind \in FaultKinds
  /\ faults < FaultBudget
  /\ faults' = faults + 1

-----------------------------------------------------------------------------
(* enqueue: the row is committed as 'queued' before anything is published. *)
Enqueue(n) ==
  /\ call[n] = "idle"
  /\ status' = [status EXCEPT ![n] = "queued"]
  /\ call' = [call EXCEPT ![n] = "record"]
  /\ UNCHANGED <<recorded, redisVars, up, loopVars, sends, dropped, faults>>

(* publish: INSERT INTO events, committed. *)
Record(e) ==
  /\ call[e] = IF e \in Notifications THEN "record" ELSE "idle"
  /\ recorded' = recorded \cup {e}
  /\ call' = [call EXCEPT ![e] = "add"]
  /\ UNCHANGED <<status, redisVars, up, loopVars, sends, dropped, faults>>

(* publish: XADD. *)
Add(e) ==
  /\ call[e] = "add"
  /\ stream' = Append(stream, e)
  /\ call' = [call EXCEPT ![e] = "done"]
  /\ UNCHANGED <<status, recorded, group, cursor, unacked, up, loopVars,
                 sends, dropped, faults>>

(* The client's connection drops before the XADD's answer arrives and the  *)
(* client sends the command again.                                         *)
AddResent(e) ==
  /\ call[e] = "add"
  /\ Fault("resend")
  /\ stream' = stream \o <<e, e>>
  /\ call' = [call EXCEPT ![e] = "done"]
  /\ UNCHANGED <<status, recorded, group, cursor, unacked, up, loopVars,
                 sends, dropped>>

(* The INSERT into events or the XADD fails, or the calling process stops: *)
(* the caller sees an error, what is committed stays.                      *)
CallFails(e) ==
  /\ call[e] \in {"record", "add"}
  /\ Fault("call")
  /\ call' = [call EXCEPT ![e] = "done"]
  /\ dropped' = dropped \cup {e}
  /\ UNCHANGED <<status, recorded, redisVars, up, loopVars, sends>>

-----------------------------------------------------------------------------
(* Mutant of StartId: '$', a new group begins after the last entry *)
StartIdNow == Len(stream)

(* startId '0': a new group begins before the first entry. *)
StartId == 0

(* onModuleInit, consume: XGROUP CREATE ... MKSTREAM; BUSYGROUP is ignored. *)
Start(i) ==
  /\ i \notin up
  /\ up' = up \cup {i}
  /\ group' = TRUE
  /\ cursor' = IF group THEN cursor ELSE StartId
  /\ UNCHANGED <<status, recorded, call, stream, unacked, loopVars, sends,
                 dropped, faults>>

(* The entry XREADGROUP ... '>' reads up to. *)
ReadTo == IF cursor + Count < Len(stream) THEN cursor + Count ELSE Len(stream)

(* Mutant of Read: the group's cursor is not moved *)
ReadAgain(i) ==
  /\ i \in up /\ ~Busy(i)
  /\ cursor < Len(stream)
  /\ at' = [at EXCEPT ![i] = cursor + 1]
  /\ end' = [end EXCEPT ![i] = ReadTo]
  /\ step' = [step EXCEPT ![i] = "handle"]
  /\ UNCHANGED <<status, recorded, call, redisVars, up, sends, dropped, faults>>

(* loop: XREADGROUP gives never-delivered entries to this consumer and     *)
(* lists them as pending.                                                  *)
Read(i) ==
  /\ i \in up /\ ~Busy(i)
  /\ cursor < Len(stream)
  /\ at' = [at EXCEPT ![i] = cursor + 1]
  /\ end' = [end EXCEPT ![i] = ReadTo]
  /\ step' = [step EXCEPT ![i] = "handle"]
  /\ cursor' = ReadTo
  /\ unacked' = unacked \cup (cursor + 1)..ReadTo
  /\ UNCHANGED <<status, recorded, call, stream, group, up, sends, dropped,
                 faults>>

(* The answer of XREADGROUP is lost: logged as a read error and read again, *)
(* past the entries the group has already handed out.                      *)
ReadLost(i) ==
  /\ i \in up /\ ~Busy(i)
  /\ cursor < Len(stream)
  /\ Fault("read")
  /\ cursor' = ReadTo
  /\ unacked' = unacked \cup (cursor + 1)..ReadTo
  /\ dropped' = dropped \cup EventsAt((cursor + 1)..ReadTo)
  /\ UNCHANGED <<status, recorded, call, stream, group, up, loopVars, sends>>

(* Mutant of AfterSelect: what cannot be sent is skipped *)
AfterSelectSkips(e) ==
  IF e \in OtherEvents \cup Unsendable \/ status[e] = "free" THEN "ack" ELSE "send"

(* Where handleEvent goes after its SELECT: an event of another type or a  *)
(* notification without a row is done with, a channel or template that can *)
(* only throw leads to markFailed.                                         *)
AfterSelect(e) ==
  CASE e \in OtherEvents       -> "ack"
    [] status[e] = "free"      -> "ack"
    [] e \in Unsendable        -> "failed"
    [] OTHER                   -> "send"

(* handleEvent: the type check and SELECT ... FROM notifications. *)
HandleEvent(i) ==
  /\ i \in up /\ Busy(i) /\ step[i] = "handle"
  /\ step' = [step EXCEPT ![i] = AfterSelect(Current(i))]
  /\ UNCHANGED <<status, recorded, call, redisVars, up, at, end, sends,
                 dropped, faults>>

(* channelImpl.send: it can throw before or after the recipient got it. *)
Send(i) ==
  /\ i \in up /\ Busy(i) /\ step[i] = "send"
  /\ \E got \in BOOLEAN, next \in Settled :
       /\ next = "sent" => got
       /\ sends' = IF got THEN [sends EXCEPT ![Current(i)] = @ + 1] ELSE sends
       /\ step' = [step EXCEPT ![i] = next]
  /\ UNCHANGED <<status, recorded, call, redisVars, up, at, end, dropped,
                 faults>>

(* UPDATE notifications SET status = 'sent', or markFailed, and COMMIT. *)
Mark(i) ==
  /\ i \in up /\ Busy(i) /\ step[i] \in Settled
  /\ status' = [status EXCEPT ![Current(i)] = step[i]]
  /\ step' = [step EXCEPT ![i] = "ack"]
  /\ UNCHANGED <<recorded, call, redisVars, up, at, end, sends, dropped,
                 faults>>

(* The loop goes on with the next entry of the batch. *)
NextEntry(i) ==
  /\ at' = [at EXCEPT ![i] = @ + 1]
  /\ step' = [step EXCEPT ![i] = "handle"]

(* Mutant of Ack: a channel that threw is acknowledged unmarked *)
AckEarly(i) ==
  /\ i \in up /\ Busy(i) /\ step[i] \in {"ack", "failed"}
  /\ NextEntry(i)
  /\ unacked' = unacked \ {at[i]}
  /\ UNCHANGED <<status, recorded, call, stream, group, cursor, up, end,
                 sends, dropped, faults>>

(* XACK, after the handler resolved. *)
Ack(i) ==
  /\ i \in up /\ Busy(i) /\ step[i] = "ack"
  /\ NextEntry(i)
  /\ unacked' = unacked \ {at[i]}
  /\ UNCHANGED <<status, recorded, call, stream, group, cursor, up, end,
                 sends, dropped, faults>>

(* The SELECT, the UPDATE or the COMMIT fails.  After a failed UPDATE the  *)
(* transaction is aborted, so markFailed fails too: the handler throws,    *)
(* the loop logs it and the entry is neither acknowledged nor read again.  *)
HandlerFails(i) ==
  /\ i \in up /\ Busy(i) /\ step[i] \in {"handle", "sent", "failed"}
  /\ Fault("database")
  /\ NextEntry(i)
  /\ dropped' = dropped \cup {Current(i)}
  /\ UNCHANGED <<status, recorded, call, redisVars, up, end, sends>>

(* XACK fails: logged like a failed handler. *)
AckFails(i) ==
  /\ i \in up /\ Busy(i) /\ step[i] = "ack"
  /\ Fault("ack")
  /\ NextEntry(i)
  /\ UNCHANGED <<status, recorded, call, redisVars, up, end, sends, dropped>>

(* The process stops: no shutdown hook runs, its batch is forgotten. *)
Crash(i) ==
  /\ i \in up
  /\ Fault("crash")
  /\ up' = up \ {i}
  /\ dropped' = dropped \cup EventsAt(Batch(i))
  /\ at' = [at EXCEPT ![i] = 1]
  /\ end' = [end EXCEPT ![i] = 0]
  /\ step' = [step EXCEPT ![i] = "handle"]
  /\ UNCHANGED <<status, recorded, call, redisVars, sends>>

-----------------------------------------------------------------------------
Loop(i) == Read(i) \/ HandleEvent(i) \/ Send(i) \/ Mark(i) \/ Ack(i)

Next ==
  \/ \E n \in Notifications : Enqueue(n)
  \/ \E e \in Events : Record(e) \/ Add(e) \/ AddResent(e) \/ CallFails(e)
  \/ \E i \in Instances :
       \/ Start(i) \/ Loop(i)
       \/ ReadLost(i) \/ HandlerFails(i) \/ AckFails(i) \/ Crash(i)

Spec == Init /\ [][Next]_vars

(* The calls run to their end, a stopped process is started again and its  *)
(* loop keeps reading.                                                     *)
FairSpec ==
  /\ Spec
  /\ \A e \in Events : WF_vars(Record(e) /\ e \in Notifications) /\ WF_vars(Add(e))
  /\ \A i \in Instances : WF_vars(Start(i)) /\ WF_vars(Loop(i))

-----------------------------------------------------------------------------
(* Every variable stays in its type. *)
TypeOK ==
  /\ status \in [Notifications -> {"free", "queued"} \cup Settled]
  /\ recorded \subseteq Events
  /\ call \in [Events -> {"idle", "record", "add", "done"}]
  /\ stream \in Seq(Events)
  /\ group \in BOOLEAN
  /\ cursor \in 0..Len(stream)
  /\ unacked \subseteq 1..cursor
  /\ up \subseteq Instances
  /\ at \in [Instances -> Nat]
  /\ end \in [Instances -> 0..cursor]
  /\ step \in [Instances -> {"handle", "send", "ack"} \cup Settled]
  /\ sends \in [Notifications -> Nat]
  /\ dropped \subseteq Events
  /\ faults \in 0..FaultBudget

(* A notification that stays 'queued' is on its way (its call has yet to   *)
(* publish it, its entry is unread, or a running consumer holds it) or a   *)
(* fault is on record: enqueue, publish and the loop lose nothing by       *)
(* themselves, however they interleave.                                    *)
QueuedIsAccountedFor ==
  \A n \in Notifications :
    status[n] = "queued" =>
      \/ call[n] \in {"record", "add"}
      \/ n \in EventsAt(Unread)
      \/ \E i \in up : n \in EventsAt(Batch(i))
      \/ n \in dropped

(* The loop acknowledges an entry only after its notification was settled  *)
(* by the handler: what the group no longer lists as pending needs nobody. *)
AckedIsSettled ==
  \A k \in 1..cursor \ unacked :
    stream[k] \in Notifications => status[stream[k]] \in Settled

(* Every entry of the stream has its durable row in the events table, so   *)
(* the table is a record of the stream whatever publish loses.             *)
StreamIsRecorded ==
  EventsAt(1..Len(stream)) \subseteq recorded

(* A queued notification is reported 'sent' or 'failed' in the end, unless *)
(* a fault hit it.                                                         *)
QueuedIsSettled ==
  \A n \in Notifications :
    status[n] = "queued" ~> (status[n] \in Settled \/ n \in dropped)

(* "a durable consumer never misses an event across restarts": an event of *)
(* the stream is handled to its acknowledgement by the loop in the end.    *)
NeverMissesAnEvent ==
  \A e \in Events :
    e \in EventsAt(1..Len(stream)) ~> e \in EventsAt(1..cursor \ unacked)

Delivery == INSTANCE NotificationDelivery

(* The pipeline implements the promise of NotificationDelivery. *)
ImplementsDelivery == Delivery!Spec

=============================================================================
