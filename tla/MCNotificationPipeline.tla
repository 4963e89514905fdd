----------------------- MODULE MCNotificationPipeline -----------------------
(* Instances of NotificationPipeline for TLC. *)
EXTENDS NotificationPipeline, TLC

CONSTANTS n1, n2, n3, o1, i1, i2

AllFaults == {"call", "resend", "read", "database", "ack", "crash"}

(* Faults that leave the stream without duplicates *)
LossFaults == AllFaults \ {"resend"}

ProcessSymmetry == Permutations(Instances)

=============================================================================
