---------------------------- MODULE MarkThenAct ----------------------------
(***************************************************************************)
(* The promise of a job that records an occasion before it acts on it: at  *)
(* most one action per recorded occasion, and an occasion without one is   *)
(* still in hand or was lost to a fault.                                   *)
(***************************************************************************)
EXTENDS Naturals

CONSTANT Items

VARIABLES marked,  \* occasions recorded of each item
          acted,   \* actions taken on them
          dropped  \* occasions a fault left without an action

promise == <<marked, acted, dropped>>

MarkInit ==
  /\ marked = [i \in Items |-> 0]
  /\ acted = [i \in Items |-> 0]
  /\ dropped = [i \in Items |-> 0]

Mark(i) ==
  /\ marked' = [marked EXCEPT ![i] = @ + 1]
  /\ UNCHANGED <<acted, dropped>>

InHand(i) == acted[i] + dropped[i] < marked[i]

Act(i) ==
  /\ InHand(i)
  /\ acted' = [acted EXCEPT ![i] = @ + 1]
  /\ UNCHANGED <<marked, dropped>>

Drop(i) ==
  /\ InHand(i)
  /\ dropped' = [dropped EXCEPT ![i] = @ + 1]
  /\ UNCHANGED <<marked, acted>>

MarkNext == \E i \in Items : Mark(i) \/ Act(i) \/ Drop(i)

MarkSpec == MarkInit /\ [][MarkNext]_promise

=============================================================================
