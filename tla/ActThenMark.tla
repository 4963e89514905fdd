---------------------------- MODULE ActThenMark ----------------------------
(***************************************************************************)
(* The promise of a job that acts before it records: nothing is recorded   *)
(* as done that was not done, at the price of actions done again.          *)
(***************************************************************************)
EXTENDS Naturals

CONSTANT Items

VARIABLES acted,   \* actions taken for each item
          marked   \* times the item was recorded as done

promise == <<acted, marked>>

ActInit ==
  /\ acted = [i \in Items |-> 0]
  /\ marked = [i \in Items |-> 0]

Act(i) ==
  /\ acted' = [acted EXCEPT ![i] = @ + 1]
  /\ UNCHANGED marked

(* Items recorded in one step were each acted on since they last were. *)
Mark(S) ==
  /\ \A i \in S : marked[i] < acted[i]
  /\ marked' = [i \in Items |-> IF i \in S THEN marked[i] + 1 ELSE marked[i]]
  /\ UNCHANGED acted

ActNext == (\E i \in Items : Act(i)) \/ \E S \in SUBSET Items : Mark(S)

ActSpec == ActInit /\ [][ActNext]_promise

=============================================================================
