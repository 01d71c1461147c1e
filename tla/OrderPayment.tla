---------------------------- MODULE OrderPayment ----------------------------
(***************************************************************************)
(* What paying an order promises, whoever pays it and however often they   *)
(* try: the money is taken at most once, a payment is booked in the ledger *)
(* only after it was taken, the order counts as paid only after it was     *)
(* booked, and nothing is ever undone.                                     *)
(***************************************************************************)
CONSTANT Orders

VARIABLE stage

Stages == {"open", "captured", "booked", "settled"}

Init == stage = [o \in Orders |-> "open"]

Move(o, from, to) ==
    /\ stage[o] = from
    /\ stage' = [stage EXCEPT ![o] = to]

Capture(o) == Move(o, "open", "captured")
Book(o) == Move(o, "captured", "booked")
Settle(o) == Move(o, "booked", "settled")

Next == \E o \in Orders : Capture(o) \/ Book(o) \/ Settle(o)

Spec == Init /\ [][Next]_stage
=============================================================================
