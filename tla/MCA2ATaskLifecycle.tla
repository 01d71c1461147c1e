------------------------ MODULE MCA2ATaskLifecycle --------------------------
(* An instance of A2ATaskLifecycle for TLC. *)
EXTENDS A2ATaskLifecycle

CONSTANTS m1, q1, q2, p1, p2, s1
=============================================================================
