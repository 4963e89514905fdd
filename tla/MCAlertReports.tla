--------------------------- MODULE MCAlertReports ---------------------------
(* Evaluations of one monitor by several workers, for TLC. *)
EXTENDS MCAlertLifecycle

CONSTANT m2

Untouched(m) == rule[m] = None /\ \A i \in 1..Window : recent[m][i] = None

(* BOUND: one kind of metric rule each; only a polled one loses its rule *)
KindsOn(m) == IF m \in AgentMonitors THEN {"status", "anomaly"}
              ELSE {None, "status", "threshold"}

(* BOUND: a behaviour is about one monitor.  Two instances poll a monitor  *)
(* that has no agent; of one with an agent, a report and one instance's    *)
(* sweep for silent agents race.  The state spaces add up.                 *)
OneMonitor ==
  /\ \A m, n \in Monitors : m = n \/ Untouched(m) \/ Untouched(n)
  /\ \A m \in Monitors : rule[m] \in KindsOn(m) \/ Untouched(m)
  /\ \A m \in AgentMonitors : Untouched(m) \/ phase[s2] = "idle"

=============================================================================
