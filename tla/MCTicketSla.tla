----------------------------- MODULE MCTicketSla -----------------------------
(* An instance of TicketSla for TLC. *)
EXTENDS TicketSla

CONSTANTS t1, incident, question, gold, silver, r1, p1, p2, none

VARIABLE about    \* what goes on in this behaviour

TypesWithPolicies == [type \in Types |-> IF type = incident THEN gold ELSE silver]

(* A rule of each trigger *)
SomeRules == <<[on |-> "created", when |-> "new", set |-> "open"],
               [on |-> "updated", when |-> "new", set |-> "closed"]>>

Fast == [first |-> 0, resolution |-> 1]
Slow == [first |-> 1, resolution |-> 2]

TwoTargets == {Fast, Slow}
GoldIsFast == [p \in Policies |-> IF p = gold THEN Fast ELSE Slow]

AllKinds == {"update", "reply", "scenario", "merge"}

(* BOUND: a behaviour has one of these besides requests and imports:       *)
(*   types      types are edited, while the clock stands still and no      *)
(*              sweep runs;                                                *)
(*   policies   one process sweeps, a policy is edited or a sweep fails;   *)
(*   processes  two processes sweep, and no request changes the ticket.    *)
AboutInit ==
  /\ Init
  /\ about \in {"types", "policies", "processes"}
  /\ deployed = IF about = "processes" THEN {p1, p2} ELSE {p1}

AboutNext ==
  /\ Next
  /\ about = "types" => now' = now /\ sweep' = sweep /\ edits' = edits
  /\ about = "policies" => typeEdits' = typeEdits /\ (edits' = 0 \/ faults' = 0)
  /\ about = "processes" => UNCHANGED <<request, policyVars>>
  /\ UNCHANGED about

(* The clock runs and every process's timer keeps starting sweeps. *)
AboutSpec ==
  /\ AboutInit /\ [][AboutNext]_<<vars, about>>
  /\ WF_vars(about # "types" /\ Tick)
  /\ \A p \in Processes : WF_vars(about # "types" /\ p \in deployed /\ Sweep(p))

=============================================================================
