---------------------------- MODULE TicketWriters ----------------------------
(***************************************************************************)
(* What everything that writes a ticket's status keeps true of it: the     *)
(* requests, rules and sweeps of TicketSla and the time-based rules.       *)
(***************************************************************************)
EXTENDS TicketSla, TimeAutomation

(* resolved_at is set exactly on resolved and closed tickets, whichever of *)
(* the requests, rules and sweeps wrote last from whatever it had read.    *)
ResolvedAtIsRight == ResolvedAtMatchesStatus /\ AutoResolvedAt

=============================================================================
