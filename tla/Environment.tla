---------------------------- MODULE Environment ----------------------------
(***************************************************************************)
(* What the background jobs and the request handlers share: the API        *)
(* processes that are deployed (each has its own timers), the clock, and   *)
(* the faults (failed statements and calls, stopped processes) so far.     *)
(***************************************************************************)
EXTENDS Integers, FiniteSets

CONSTANTS
  Processes,    \* API processes that can be deployed
  MaxTime,      \* BOUND: units the clock advances
  FaultBudget,  \* BOUND: faults
  None          \* SQL NULL, JavaScript null and undefined

ASSUME EnvironmentAssumption ==
  /\ IsFiniteSet(Processes) /\ Processes # {}
  /\ MaxTime \in Nat
  /\ FaultBudget \in Nat
  /\ None \notin Int

VARIABLES
  now,       \* the clock
  faults,    \* faults so far
  deployed   \* the processes that run

environment == <<now, faults, deployed>>

Times == 0..MaxTime

EnvInit ==
  /\ now = 0
  /\ faults = 0
  /\ deployed \in (SUBSET Processes) \ {{}}

EnvTypeOK ==
  /\ now \in Times
  /\ faults \in 0..FaultBudget
  /\ deployed \in (SUBSET Processes) \ {{}}

(* One process only *)
Alone == Cardinality(deployed) = 1

ClockTick ==
  /\ now < MaxTime
  /\ now' = now + 1
  /\ UNCHANGED <<faults, deployed>>

(* A step in which something fails *)
Fault ==
  /\ faults < FaultBudget
  /\ faults' = faults + 1
  /\ UNCHANGED <<now, deployed>>

=============================================================================
