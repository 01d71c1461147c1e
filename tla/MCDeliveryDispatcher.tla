----------------------- MODULE MCDeliveryDispatcher -----------------------
(* Small instances of DeliveryDispatcher for TLC. *)
EXTENDS DeliveryDispatcher

CONSTANTS w1, w2
============================================================================
