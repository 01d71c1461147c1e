-------------------------- MODULE MCBackgroundJobs --------------------------
(* An instance of BackgroundJobs for TLC. *)
EXTENDS BackgroundJobs

CONSTANTS w1, w2

\* The first job asks for something of its own, the others for the same thing.
TwinKeys == [j \in Jobs |-> IF j = 1 THEN 1 ELSE 2]
=============================================================================
