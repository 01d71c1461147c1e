--------------------------- MODULE MCSseReceiver ----------------------------
(* An instance of SseReceiver for TLC. *)
EXTENDS SseReceiver

CONSTANTS a, b, r1, r2, i1, i2, none
=============================================================================
