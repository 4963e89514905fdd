-------------------------- MODULE MCAlertLifecycle --------------------------
(* Instances of AlertLifecycle for TLC. *)
EXTENDS AlertLifecycle, TLC

CONSTANTS m1, s1, s2, g1, o1, a1, a2, t1, t2, t3, eu, us, none

R(s, b) == [status |-> s, breach |-> b]

UpDown        == {R("up", FALSE), R("down", FALSE)}
UpTroubleDown == {R("up", FALSE), R("trouble", FALSE), R("down", FALSE)}
UpBreach      == {R("up", FALSE), R("up", TRUE)}

LocEu     == [w \in Schedulers \cup Agents |-> eu]
LocBoth   == [w \in Schedulers \cup Agents |-> IF w = s1 THEN eu ELSE us]

AtEuUpDown        == [l \in {eu} |-> UpDown]
AtEuUpTroubleDown == [l \in {eu} |-> UpTroubleDown]
EuFailsUsBreaches == [l \in {eu, us} |-> IF l = eu THEN UpDown ELSE UpBreach]

Bad == {"down", "critical"}

Rows == Permutations({a1, a2}) \cup Permutations({t1, t2})
=============================================================================
