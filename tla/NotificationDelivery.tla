------------------------ MODULE NotificationDelivery ------------------------
(***************************************************************************)
(* What NotificationsService promises its callers: a requested message is  *)
(* handed to its channel at most once, is reported 'sent' only after that, *)
(* and a report never changes.                                             *)
(***************************************************************************)
EXTENDS Naturals

CONSTANT Notifications

VARIABLES status,  \* notifications.status ("free": not requested)
          sends    \* times the recipient got the message

delivery == <<status, sends>>

Init ==
  /\ status = [n \in Notifications |-> "free"]
  /\ sends = [n \in Notifications |-> 0]

Request(n) ==
  /\ status[n] = "free"
  /\ status' = [status EXCEPT ![n] = "queued"]
  /\ UNCHANGED sends

Deliver(n) ==
  /\ status[n] = "queued"
  /\ sends[n] = 0
  /\ sends' = [sends EXCEPT ![n] = 1]
  /\ UNCHANGED status

ReportSent(n) ==
  /\ status[n] = "queued"
  /\ sends[n] = 1
  /\ status' = [status EXCEPT ![n] = "sent"]
  /\ UNCHANGED sends

(* The channel threw: it may have delivered all the same. *)
ReportFailed(n) ==
  /\ status[n] = "queued"
  /\ status' = [status EXCEPT ![n] = "failed"]
  /\ UNCHANGED sends

Next ==
  \E n \in Notifications :
    Request(n) \/ Deliver(n) \/ ReportSent(n) \/ ReportFailed(n)

Spec == Init /\ [][Next]_delivery

=============================================================================
