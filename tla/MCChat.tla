------------------------------- MODULE MCChat -------------------------------
(* An instance of ChatSession for TLC. *)
EXTENDS ChatSession, TLC

CONSTANTS p1, none

=============================================================================
