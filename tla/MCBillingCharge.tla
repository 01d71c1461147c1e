-------------------------- MODULE MCBillingCharge ---------------------------
(* Instances of BillingCharge for TLC. *)
EXTENDS BillingCharge

CONSTANTS c1, c2, s1, o1, none
=============================================================================
