------------------------------ MODULE ClientMC ------------------------------
(* Instances of Client for TLC. *)
EXTENDS Client, TLC

CONSTANTS ana, rows, me, q1, q2

=============================================================================
