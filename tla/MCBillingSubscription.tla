----------------------- MODULE MCBillingSubscription ------------------------
(* Instances of BillingSubscription for TLC. *)
EXTENDS BillingSubscription

CONSTANTS r1, j1, s1, none, small, big
=============================================================================
