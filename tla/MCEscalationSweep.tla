-------------------------- MODULE MCEscalationSweep --------------------------
(* Instances of EscalationSweep for TLC. *)
EXTENDS EscalationSweep, TLC

CONSTANTS a1, p1, p2, none

(* Two steps, the first at once with two targets, the second a minute later *)
TwoSteps == <<[delay |-> 0, targets |-> 2], [delay |-> 1, targets |-> 1]>>

TwoStepPolicy == {TwoSteps}

=============================================================================
