---------------------- MODULE BillingSubscriptionProofs ----------------------
(***************************************************************************)
(* The claim on the subscription row and the periods that are charged, for *)
(* any number of checkouts, runs of the maintenance job, tiers and days.   *)
(*                                                                         *)
(* For the claim the strengthening is that a checkout past its claim still *)
(* has it on the row or was overtaken (ClaimHeld): no other flow, and no   *)
(* release of another request, takes it away.  For the periods it is that  *)
(* the period end on the row is a period past every renewal that was       *)
(* begun, or asks for the last of them again (RowAhead); so a new renewal  *)
(* is a period away from all others (BegunApart), whether it was charged   *)
(* or its run has died.                                                    *)
(***************************************************************************)
EXTENDS BillingSubscription, TLAPS

Places == {"off", "checked", "issuing", "charging", "calling", "releasing",
           "closing", "done"} \cup Results
Busy == {"issuing", "charging", "calling", "releasing"} \cup Results

Flows ==
    /\ pc \in [Procs -> Places]
    /\ target \in [Procs -> Orders \cup {None}]
    /\ seen \in [Crons -> Nat \cup {None}]
    /\ created \in [Orders -> (0 .. MaxDay) \cup {None}]
    /\ day \in 0 .. MaxDay

\* A process at work has an order, which was inserted before Toss is called.
AtWork ==
    \A p \in Procs :
        /\ pc[p] \notin {"off", "done"} => target[p] \in Orders
        /\ pc[p] \in {"calling", "closing"} => status[target[p]] # "absent"

ClaimHeld == \A c \in Requests : pc[c] \in Busy => claim = c \/ c \in overtaken

IInv == TypeOK /\ Flows /\ AtWork /\ ClaimHeld

-----------------------------------------------------------------------------
LEMMA CheckoutStep ==
    ASSUME IInv, NEW c \in Requests, NEW t \in Paid, Checkout(c, t)
    PROVE  IInv'
<1>1. TypeOK'
  BY FlowsAreDistinct, TiersAssumption, DaysAssumption DEF Checkout, Moves, Jumps, row, orders, history, TypeOK, Flows, AtWork, Statuses, Existing, Procs, Callers, IInv
<1>2. Flows'
  <2>1. <<"checkout", t, day>> \in Orders
    BY DEF Orders, IInv, Flows
  <2>2. QED
    BY <2>1 DEF Checkout, Moves, Jumps, orders, history, IInv, Flows, Places, Procs, Callers
<1>3. AtWork'
  <2>1. <<"checkout", t, day>> \in Orders
    BY DEF Orders, IInv, Flows
  <2>2. QED
    BY <2>1 DEF Checkout, Moves, Jumps, orders, history, IInv, Flows, AtWork, Procs, Callers
<1>4. ClaimHeld'
  BY FlowsAreDistinct, TiersAssumption, DaysAssumption DEF Checkout, Moves, Jumps, row, orders, history, Flows, ClaimHeld, Busy, Results, Procs, Callers, Places, IInv
<1>5. QED
  BY <1>1, <1>2, <1>3, <1>4 DEF IInv

LEMMA ClaimRowStep ==
    ASSUME IInv, NEW c \in Requests, ClaimRow(c)
    PROVE  IInv'
<1>1. TypeOK'
  <2>1. target[c][2] \in Paid /\ target[c][3] + Period \in Nat
    <3>1. target[c] \in Orders
      BY DEF ClaimRow, IInv, AtWork, Procs, Callers
    <3>2. QED
      BY <3>1, DaysAssumption DEF Orders
  <2>2. QED
    BY <2>1, FlowsAreDistinct DEF ClaimRow, TierOf, orders, history, IInv, TypeOK, Existing
<1>2. Flows'
  BY FlowsAreDistinct, TiersAssumption, DaysAssumption DEF ClaimRow, Jumps, TierOf, row, orders, history, TypeOK, Flows, AtWork, Places, Procs, Callers, Results, IInv
<1>3. AtWork'
  BY FlowsAreDistinct, TiersAssumption, DaysAssumption DEF ClaimRow, Jumps, TierOf, row, orders, history, TypeOK, Flows, AtWork, Existing, Statuses, Procs, Callers, Results, IInv
<1>4. ClaimHeld'
  BY FlowsAreDistinct, TiersAssumption, DaysAssumption DEF ClaimRow, Jumps, TierOf, row, orders, history, Flows, ClaimHeld, Busy, Results, Procs, Callers, Places, IInv
<1>5. QED
  BY <1>1, <1>2, <1>3, <1>4 DEF IInv

LEMMA IssueKeyStep ==
    ASSUME IInv, NEW c \in Requests, IssueKey(c)
    PROVE  IInv'
<1>1. TypeOK'
  BY FlowsAreDistinct, TiersAssumption, DaysAssumption DEF IssueKey, Jumps, row, orders, history, TypeOK, Flows, AtWork, Statuses, Existing, Procs, Callers, IInv
<1>2. Flows'
  BY FlowsAreDistinct, TiersAssumption, DaysAssumption DEF IssueKey, Jumps, row, orders, history, TypeOK, Flows, AtWork, Places, Procs, Callers, Results, IInv
<1>3. AtWork'
  BY FlowsAreDistinct, TiersAssumption, DaysAssumption DEF IssueKey, Jumps, row, orders, history, TypeOK, Flows, AtWork, Existing, Statuses, Procs, Callers, Results, IInv
<1>4. ClaimHeld'
  BY FlowsAreDistinct, TiersAssumption, DaysAssumption DEF IssueKey, Jumps, row, orders, history, Flows, ClaimHeld, Busy, Results, Procs, Callers, Places, IInv
<1>5. QED
  BY <1>1, <1>2, <1>3, <1>4 DEF IInv

LEMMA StartChargeStep ==
    ASSUME IInv, NEW c \in Callers, StartCharge(c)
    PROVE  IInv'
<1>1. TypeOK'
  BY FlowsAreDistinct, TiersAssumption, DaysAssumption DEF StartCharge, Retries, Jumps, Writes, row, orders, history, TypeOK, Flows, AtWork, Statuses, Existing, Procs, Callers, IInv
<1>2. Flows'
  BY FlowsAreDistinct, TiersAssumption, DaysAssumption DEF StartCharge, Retries, Jumps, Writes, row, orders, history, TypeOK, Flows, AtWork, Places, Procs, Callers, Results, IInv
<1>3. AtWork'
  BY FlowsAreDistinct, TiersAssumption, DaysAssumption DEF StartCharge, Retries, Jumps, Writes, row, orders, history, TypeOK, Flows, AtWork, Existing, Statuses, Procs, Callers, Results, IInv
<1>4. ClaimHeld'
  BY FlowsAreDistinct, TiersAssumption, DaysAssumption DEF StartCharge, Retries, Jumps, Writes, row, orders, history, Flows, ClaimHeld, Busy, Results, Procs, Callers, Places, IInv
<1>5. QED
  BY <1>1, <1>2, <1>3, <1>4 DEF IInv

LEMMA ChargeSucceedsStep ==
    ASSUME IInv, NEW c \in Callers, ChargeSucceeds(c)
    PROVE  IInv'
<1>1. TypeOK'
  BY FlowsAreDistinct, TiersAssumption, DaysAssumption DEF ChargeSucceeds, Jumps, Writes, row, orders, history, TypeOK, Flows, AtWork, Statuses, Existing, Procs, Callers, IInv
<1>2. Flows'
  BY FlowsAreDistinct, TiersAssumption, DaysAssumption DEF ChargeSucceeds, Jumps, Writes, row, orders, history, TypeOK, Flows, AtWork, Places, Procs, Callers, Results, IInv
<1>3. AtWork'
  BY FlowsAreDistinct, TiersAssumption, DaysAssumption DEF ChargeSucceeds, Jumps, Writes, row, orders, history, TypeOK, Flows, AtWork, Existing, Statuses, Procs, Callers, Results, IInv
<1>4. ClaimHeld'
  BY FlowsAreDistinct, TiersAssumption, DaysAssumption DEF ChargeSucceeds, Jumps, Writes, row, orders, history, Flows, ClaimHeld, Busy, Results, Procs, Callers, Places, IInv
<1>5. QED
  BY <1>1, <1>2, <1>3, <1>4 DEF IInv

LEMMA ChargeDeclinedStep ==
    ASSUME IInv, NEW c \in Callers, ChargeDeclined(c)
    PROVE  IInv'
<1>1. TypeOK'
  BY FlowsAreDistinct, TiersAssumption, DaysAssumption DEF ChargeDeclined, Jumps, Writes, WritesUnlessConfirmed, row, orders, history, TypeOK, Flows, AtWork, Statuses, Existing, Procs, Callers, IInv
<1>2. Flows'
  BY FlowsAreDistinct, TiersAssumption, DaysAssumption DEF ChargeDeclined, Jumps, Writes, WritesUnlessConfirmed, row, orders, history, TypeOK, Flows, AtWork, Places, Procs, Callers, Results, IInv
<1>3. AtWork'
  BY FlowsAreDistinct, TiersAssumption, DaysAssumption DEF ChargeDeclined, Jumps, Writes, WritesUnlessConfirmed, row, orders, history, TypeOK, Flows, AtWork, Existing, Statuses, Procs, Callers, Results, IInv
<1>4. ClaimHeld'
  BY FlowsAreDistinct, TiersAssumption, DaysAssumption DEF ChargeDeclined, Jumps, Writes, WritesUnlessConfirmed, row, orders, history, Flows, ClaimHeld, Busy, Results, Procs, Callers, Places, IInv
<1>5. QED
  BY <1>1, <1>2, <1>3, <1>4 DEF IInv

LEMMA ChargeBreaksStep ==
    ASSUME IInv, NEW c \in Callers, ChargeBreaks(c)
    PROVE  IInv'
<1>1. TypeOK'
  BY FlowsAreDistinct, TiersAssumption, DaysAssumption DEF ChargeBreaks, Jumps, Writes, WritesUnlessConfirmed, row, orders, history, TypeOK, Flows, AtWork, Statuses, Existing, Procs, Callers, IInv
<1>2. Flows'
  BY FlowsAreDistinct, TiersAssumption, DaysAssumption DEF ChargeBreaks, Jumps, Writes, WritesUnlessConfirmed, row, orders, history, TypeOK, Flows, AtWork, Places, Procs, Callers, Results, IInv
<1>3. AtWork'
  BY FlowsAreDistinct, TiersAssumption, DaysAssumption DEF ChargeBreaks, Jumps, Writes, WritesUnlessConfirmed, row, orders, history, TypeOK, Flows, AtWork, Existing, Statuses, Procs, Callers, Results, IInv
<1>4. ClaimHeld'
  BY FlowsAreDistinct, TiersAssumption, DaysAssumption DEF ChargeBreaks, Jumps, Writes, WritesUnlessConfirmed, row, orders, history, Flows, ClaimHeld, Busy, Results, Procs, Callers, Places, IInv
<1>5. QED
  BY <1>1, <1>2, <1>3, <1>4 DEF IInv

LEMMA ActivateStep ==
    ASSUME IInv, NEW c \in Requests, Activate(c)
    PROVE  IInv'
<1>1. TypeOK'
  BY FlowsAreDistinct, TiersAssumption, DaysAssumption DEF Activate, Jumps, Results, row, orders, history, TypeOK, Flows, AtWork, Statuses, Existing, Procs, Callers, IInv
<1>2. Flows'
  BY FlowsAreDistinct, TiersAssumption, DaysAssumption DEF Activate, Jumps, Results, row, orders, history, TypeOK, Flows, AtWork, Places, Procs, Callers, IInv
<1>3. AtWork'
  BY FlowsAreDistinct, TiersAssumption, DaysAssumption DEF Activate, Jumps, Results, row, orders, history, TypeOK, Flows, AtWork, Existing, Statuses, Procs, Callers, IInv
<1>4. ClaimHeld'
  BY FlowsAreDistinct, TiersAssumption, DaysAssumption DEF Activate, Jumps, Results, row, orders, history, Flows, ClaimHeld, Busy, Procs, Callers, Places, IInv
<1>5. QED
  BY <1>1, <1>2, <1>3, <1>4 DEF IInv

LEMMA ReleaseStep ==
    ASSUME IInv, NEW c \in Requests, Release(c)
    PROVE  IInv'
<1>1. TypeOK'
  BY FlowsAreDistinct, TiersAssumption, DaysAssumption DEF Release, Moves, Jumps, row, orders, history, TypeOK, Flows, AtWork, Statuses, Existing, Procs, Callers, IInv
<1>2. Flows'
  BY FlowsAreDistinct, TiersAssumption, DaysAssumption DEF Release, Moves, Jumps, row, orders, history, TypeOK, Flows, AtWork, Places, Procs, Callers, Results, IInv
<1>3. AtWork'
  BY FlowsAreDistinct, TiersAssumption, DaysAssumption DEF Release, Moves, Jumps, row, orders, history, TypeOK, Flows, AtWork, Existing, Statuses, Procs, Callers, Results, IInv
<1>4. ClaimHeld'
  BY FlowsAreDistinct, TiersAssumption, DaysAssumption DEF Release, Moves, Jumps, row, orders, history, Flows, ClaimHeld, Busy, Results, Procs, Callers, Places, IInv
<1>5. QED
  BY <1>1, <1>2, <1>3, <1>4 DEF IInv

LEMMA TriggerDueStep ==
    ASSUME IInv, NEW j \in Crons, TriggerDue(j)
    PROVE  IInv'
<1>1. TypeOK'
  BY FlowsAreDistinct, TiersAssumption, DaysAssumption DEF TriggerDue, Moves, Jumps, row, orders, history, TypeOK, Flows, AtWork, Statuses, Existing, Procs, Callers, IInv
<1>2. Flows'
  <2>1. due \in Nat /\ <<"renewal", tier, due>> \in Orders
    BY DaysAssumption DEF TriggerDue, Orders, IInv, TypeOK, Flows
  <2>2. QED
    BY <2>1 DEF TriggerDue, Moves, Jumps, orders, history, IInv, Flows, Places, Procs, Callers
<1>3. AtWork'
  <2>1. due \in Nat /\ <<"renewal", tier, due>> \in Orders
    BY DaysAssumption DEF TriggerDue, Orders, IInv, TypeOK, Flows
  <2>2. QED
    BY <2>1 DEF TriggerDue, Moves, Jumps, orders, history, IInv, Flows, AtWork, Procs, Callers
<1>4. ClaimHeld'
  BY FlowsAreDistinct, TiersAssumption, DaysAssumption DEF TriggerDue, Moves, Jumps, row, orders, history, Flows, ClaimHeld, Busy, Results, Procs, Callers, Places, IInv
<1>5. QED
  BY <1>1, <1>2, <1>3, <1>4 DEF IInv

LEMMA RetryFailedStep ==
    ASSUME IInv, NEW j \in Crons, NEW o \in Orders, RetryFailed(j, o)
    PROVE  IInv'
<1>1. TypeOK'
  BY FlowsAreDistinct, TiersAssumption, DaysAssumption DEF RetryFailed, Moves, Jumps, row, orders, history, TypeOK, Flows, AtWork, Statuses, Existing, Procs, Callers, IInv
<1>2. Flows'
  BY FlowsAreDistinct, TiersAssumption, DaysAssumption DEF RetryFailed, Moves, Jumps, row, orders, history, TypeOK, Flows, AtWork, Places, Procs, Callers, Results, IInv
<1>3. AtWork'
  BY FlowsAreDistinct, TiersAssumption, DaysAssumption DEF RetryFailed, Moves, Jumps, row, orders, history, TypeOK, Flows, AtWork, Existing, Statuses, Procs, Callers, Results, IInv
<1>4. ClaimHeld'
  BY FlowsAreDistinct, TiersAssumption, DaysAssumption DEF RetryFailed, Moves, Jumps, row, orders, history, Flows, ClaimHeld, Busy, Results, Procs, Callers, Places, IInv
<1>5. QED
  BY <1>1, <1>2, <1>3, <1>4 DEF IInv

LEMMA EndChargeStep ==
    ASSUME IInv, NEW j \in Crons, EndCharge(j)
    PROVE  IInv'
<1>1. TypeOK'
  <2>1. putBack' \in BOOLEAN
    BY DEF EndCharge, EndTrigger, EndRetry, IInv, TypeOK
  <2>2. /\ state' \in {"active", "pending", "past_due"}
        /\ due' \in Nat \cup {None}
    BY DaysAssumption DEF EndCharge, EndTrigger, EndRetry, IInv, TypeOK, Flows
  <2>3. UNCHANGED <<tier, leaving, claim, claimOld, status, created, captured, faults>>
    BY DEF EndCharge, orders
  <2>4. QED
    BY <2>1, <2>2, <2>3 DEF IInv, TypeOK, Existing
<1>2. Flows'
  BY FlowsAreDistinct, TiersAssumption, DaysAssumption DEF EndCharge, EndTrigger, EndRetry, Confirmed, Moves, Jumps, Results, row, orders, history, TypeOK, Flows, AtWork, Places, Procs, Callers, IInv
<1>3. AtWork'
  BY FlowsAreDistinct, TiersAssumption, DaysAssumption DEF EndCharge, EndTrigger, EndRetry, Confirmed, Moves, Jumps, Results, row, orders, history, TypeOK, Flows, AtWork, Existing, Statuses, Procs, Callers, IInv
<1>4. ClaimHeld'
  BY FlowsAreDistinct, TiersAssumption, DaysAssumption DEF EndCharge, EndTrigger, EndRetry, Confirmed, Moves, Jumps, Results, row, orders, history, Flows, ClaimHeld, Busy, Procs, Callers, Places, IInv
<1>5. QED
  BY <1>1, <1>2, <1>3, <1>4 DEF IInv

LEMMA DieStep ==
    ASSUME IInv, NEW c \in Callers, Die(c)
    PROVE  IInv'
<1>1. TypeOK'
  BY FlowsAreDistinct, TiersAssumption, DaysAssumption DEF Die, Moves, Jumps, row, orders, history, TypeOK, Flows, AtWork, Statuses, Existing, Procs, Callers, IInv
<1>2. Flows'
  BY FlowsAreDistinct, TiersAssumption, DaysAssumption DEF Die, Moves, Jumps, row, orders, history, TypeOK, Flows, AtWork, Places, Procs, Callers, Results, IInv
<1>3. AtWork'
  BY FlowsAreDistinct, TiersAssumption, DaysAssumption DEF Die, Moves, Jumps, row, orders, history, TypeOK, Flows, AtWork, Existing, Statuses, Procs, Callers, Results, IInv
<1>4. ClaimHeld'
  BY FlowsAreDistinct, TiersAssumption, DaysAssumption DEF Die, Moves, Jumps, row, orders, history, Flows, ClaimHeld, Busy, Results, Procs, Callers, Places, IInv
<1>5. QED
  BY <1>1, <1>2, <1>3, <1>4 DEF IInv

LEMMA ReconcileStaleStep ==
    ASSUME IInv, NEW o \in Orders, ReconcileStale(o)
    PROVE  IInv'
<1>1. TypeOK'
  BY FlowsAreDistinct, TiersAssumption, DaysAssumption DEF ReconcileStale, Writes, flows, row, orders, history, TypeOK, Flows, AtWork, Statuses, Existing, Procs, Callers, IInv
<1>2. Flows'
  BY FlowsAreDistinct, TiersAssumption, DaysAssumption DEF ReconcileStale, Writes, flows, row, orders, history, TypeOK, Flows, AtWork, Places, Procs, Callers, Results, IInv
<1>3. AtWork'
  BY FlowsAreDistinct, TiersAssumption, DaysAssumption DEF ReconcileStale, Writes, flows, row, orders, history, TypeOK, Flows, AtWork, Existing, Statuses, Procs, Callers, Results, IInv
<1>4. ClaimHeld'
  BY FlowsAreDistinct, TiersAssumption, DaysAssumption DEF ReconcileStale, Writes, flows, row, orders, history, Flows, ClaimHeld, Busy, Results, Procs, Callers, Places, IInv
<1>5. QED
  BY <1>1, <1>2, <1>3, <1>4 DEF IInv

LEMMA BeginDowngradeStep ==
    ASSUME IInv, NEW s \in Sweeps, NEW o \in Orders, BeginDowngrade(s, o)
    PROVE  IInv'
<1>1. TypeOK'
  BY FlowsAreDistinct, TiersAssumption, DaysAssumption DEF BeginDowngrade, Moves, Jumps, row, orders, history, TypeOK, Flows, AtWork, Statuses, Existing, Procs, Callers, IInv
<1>2. Flows'
  BY FlowsAreDistinct, TiersAssumption, DaysAssumption DEF BeginDowngrade, Moves, Jumps, row, orders, history, TypeOK, Flows, AtWork, Places, Procs, Callers, Results, IInv
<1>3. AtWork'
  BY FlowsAreDistinct, TiersAssumption, DaysAssumption DEF BeginDowngrade, Moves, Jumps, row, orders, history, TypeOK, Flows, AtWork, Existing, Statuses, Procs, Callers, Results, IInv
<1>4. ClaimHeld'
  BY FlowsAreDistinct, TiersAssumption, DaysAssumption DEF BeginDowngrade, Moves, Jumps, row, orders, history, Flows, ClaimHeld, Busy, Results, Procs, Callers, Places, IInv
<1>5. QED
  BY <1>1, <1>2, <1>3, <1>4 DEF IInv

LEMMA EndDowngradeStep ==
    ASSUME IInv, NEW s \in Sweeps, EndDowngrade(s)
    PROVE  IInv'
<1>1. TypeOK'
  BY FlowsAreDistinct, TiersAssumption, DaysAssumption DEF EndDowngrade, Moves, Jumps, Writes, WritesUnlessConfirmed, row, orders, history, TypeOK, Flows, AtWork, Statuses, Existing, Procs, Callers, IInv
<1>2. Flows'
  BY FlowsAreDistinct, TiersAssumption, DaysAssumption DEF EndDowngrade, Moves, Jumps, Writes, WritesUnlessConfirmed, row, orders, history, TypeOK, Flows, AtWork, Places, Procs, Callers, Results, IInv
<1>3. AtWork'
  BY FlowsAreDistinct, TiersAssumption, DaysAssumption DEF EndDowngrade, Moves, Jumps, Writes, WritesUnlessConfirmed, row, orders, history, TypeOK, Flows, AtWork, Existing, Statuses, Procs, Callers, Results, IInv
<1>4. ClaimHeld'
  BY FlowsAreDistinct, TiersAssumption, DaysAssumption DEF EndDowngrade, Moves, Jumps, Writes, WritesUnlessConfirmed, row, orders, history, Flows, ClaimHeld, Busy, Results, Procs, Callers, Places, IInv
<1>5. QED
  BY <1>1, <1>2, <1>3, <1>4 DEF IInv

LEMMA CancelSubscriptionStep ==
    ASSUME IInv, CancelSubscription
    PROVE  IInv'
<1>1. TypeOK'
  BY FlowsAreDistinct, TiersAssumption, DaysAssumption DEF CancelSubscription, flows, row, orders, history, TypeOK, Flows, AtWork, Statuses, Existing, Procs, Callers, IInv
<1>2. Flows'
  BY FlowsAreDistinct, TiersAssumption, DaysAssumption DEF CancelSubscription, flows, row, orders, history, TypeOK, Flows, AtWork, Places, Procs, Callers, Results, IInv
<1>3. AtWork'
  BY FlowsAreDistinct, TiersAssumption, DaysAssumption DEF CancelSubscription, flows, row, orders, history, TypeOK, Flows, AtWork, Existing, Statuses, Procs, Callers, Results, IInv
<1>4. ClaimHeld'
  BY FlowsAreDistinct, TiersAssumption, DaysAssumption DEF CancelSubscription, flows, row, orders, history, Flows, ClaimHeld, Busy, Results, Procs, Callers, Places, IInv
<1>5. QED
  BY <1>1, <1>2, <1>3, <1>4 DEF IInv

LEMMA WithdrawCancellationStep ==
    ASSUME IInv, WithdrawCancellation
    PROVE  IInv'
<1>1. TypeOK'
  BY FlowsAreDistinct, TiersAssumption, DaysAssumption DEF WithdrawCancellation, flows, row, orders, history, TypeOK, Flows, AtWork, Statuses, Existing, Procs, Callers, IInv
<1>2. Flows'
  BY FlowsAreDistinct, TiersAssumption, DaysAssumption DEF WithdrawCancellation, flows, row, orders, history, TypeOK, Flows, AtWork, Places, Procs, Callers, Results, IInv
<1>3. AtWork'
  BY FlowsAreDistinct, TiersAssumption, DaysAssumption DEF WithdrawCancellation, flows, row, orders, history, TypeOK, Flows, AtWork, Existing, Statuses, Procs, Callers, Results, IInv
<1>4. ClaimHeld'
  BY FlowsAreDistinct, TiersAssumption, DaysAssumption DEF WithdrawCancellation, flows, row, orders, history, Flows, ClaimHeld, Busy, Results, Procs, Callers, Places, IInv
<1>5. QED
  BY <1>1, <1>2, <1>3, <1>4 DEF IInv

LEMMA ApplyCancellationStep ==
    ASSUME IInv, ApplyCancellation
    PROVE  IInv'
<1>1. TypeOK'
  BY FlowsAreDistinct, TiersAssumption, DaysAssumption DEF ApplyCancellation, flows, row, orders, history, TypeOK, Flows, AtWork, Statuses, Existing, Procs, Callers, IInv
<1>2. Flows'
  BY FlowsAreDistinct, TiersAssumption, DaysAssumption DEF ApplyCancellation, flows, row, orders, history, TypeOK, Flows, AtWork, Places, Procs, Callers, Results, IInv
<1>3. AtWork'
  BY FlowsAreDistinct, TiersAssumption, DaysAssumption DEF ApplyCancellation, flows, row, orders, history, TypeOK, Flows, AtWork, Existing, Statuses, Procs, Callers, Results, IInv
<1>4. ClaimHeld'
  BY FlowsAreDistinct, TiersAssumption, DaysAssumption DEF ApplyCancellation, flows, row, orders, history, Flows, ClaimHeld, Busy, Results, Procs, Callers, Places, IInv
<1>5. QED
  BY <1>1, <1>2, <1>3, <1>4 DEF IInv

LEMMA TickStep ==
    ASSUME IInv, Tick
    PROVE  IInv'
<1>1. TypeOK'
  BY FlowsAreDistinct, TiersAssumption, DaysAssumption DEF Tick, flows, row, orders, history, TypeOK, Flows, AtWork, Statuses, Existing, Procs, Callers, IInv
<1>2. Flows'
  BY FlowsAreDistinct, TiersAssumption, DaysAssumption DEF Tick, flows, row, orders, history, TypeOK, Flows, AtWork, Places, Procs, Callers, Results, IInv
<1>3. AtWork'
  BY FlowsAreDistinct, TiersAssumption, DaysAssumption DEF Tick, flows, row, orders, history, TypeOK, Flows, AtWork, Existing, Statuses, Procs, Callers, Results, IInv
<1>4. ClaimHeld'
  BY FlowsAreDistinct, TiersAssumption, DaysAssumption DEF Tick, flows, row, orders, history, Flows, ClaimHeld, Busy, Results, Procs, Callers, Places, IInv
<1>5. QED
  BY <1>1, <1>2, <1>3, <1>4 DEF IInv

LEMMA AgeClaimStep ==
    ASSUME IInv, AgeClaim
    PROVE  IInv'
<1>1. TypeOK'
  BY FlowsAreDistinct, TiersAssumption, DaysAssumption DEF AgeClaim, flows, row, orders, history, TypeOK, Flows, AtWork, Statuses, Existing, Procs, Callers, IInv
<1>2. Flows'
  BY FlowsAreDistinct, TiersAssumption, DaysAssumption DEF AgeClaim, flows, row, orders, history, TypeOK, Flows, AtWork, Places, Procs, Callers, Results, IInv
<1>3. AtWork'
  BY FlowsAreDistinct, TiersAssumption, DaysAssumption DEF AgeClaim, flows, row, orders, history, TypeOK, Flows, AtWork, Existing, Statuses, Procs, Callers, Results, IInv
<1>4. ClaimHeld'
  BY FlowsAreDistinct, TiersAssumption, DaysAssumption DEF AgeClaim, flows, row, orders, history, Flows, ClaimHeld, Busy, Results, Procs, Callers, Places, IInv
<1>5. QED
  BY <1>1, <1>2, <1>3, <1>4 DEF IInv

-----------------------------------------------------------------------------
LEMMA InvInit == Init => IInv
<1> SUFFICES ASSUME Init PROVE IInv
  OBVIOUS
<1>1. TypeOK
  <2>1. putBack \in BOOLEAN /\ ~ claimOld
    BY DEF Init
  <2>2. QED
    BY <2>1, FlowsAreDistinct, TiersAssumption, DaysAssumption DEF Init, TypeOK, Existing, Statuses
<1>2. Flows
  BY DaysAssumption DEF Init, Flows, Places
<1>3. AtWork /\ ClaimHeld
  BY DEF Init, AtWork, ClaimHeld, Busy, Results, Procs, Callers
<1>4. QED
  BY <1>1, <1>2, <1>3 DEF IInv

LEMMA InvStep == IInv /\ [Next]_vars => IInv'
<1>1. ASSUME IInv, Next PROVE IInv'
  <2> USE <1>1
  <2>1. ASSUME NEW c \in Requests, NEW t \in Paid, Checkout(c, t) PROVE IInv'
    BY <2>1, CheckoutStep
  <2>2. ASSUME NEW c \in Requests, ClaimRow(c) PROVE IInv'
    BY <2>2, ClaimRowStep
  <2>3. ASSUME NEW c \in Requests, IssueKey(c) PROVE IInv'
    BY <2>3, IssueKeyStep
  <2>4. ASSUME NEW c \in Callers, StartCharge(c) PROVE IInv'
    BY <2>4, StartChargeStep
  <2>5. ASSUME NEW c \in Callers, ChargeSucceeds(c) PROVE IInv'
    BY <2>5, ChargeSucceedsStep
  <2>6. ASSUME NEW c \in Callers, ChargeDeclined(c) PROVE IInv'
    BY <2>6, ChargeDeclinedStep
  <2>7. ASSUME NEW c \in Callers, ChargeBreaks(c) PROVE IInv'
    BY <2>7, ChargeBreaksStep
  <2>8. ASSUME NEW c \in Requests, Activate(c) PROVE IInv'
    BY <2>8, ActivateStep
  <2>9. ASSUME NEW c \in Requests, Release(c) PROVE IInv'
    BY <2>9, ReleaseStep
  <2>10. ASSUME NEW j \in Crons, TriggerDue(j) PROVE IInv'
    BY <2>10, TriggerDueStep
  <2>11. ASSUME NEW j \in Crons, NEW o \in Orders, RetryFailed(j, o) PROVE IInv'
    BY <2>11, RetryFailedStep
  <2>12. ASSUME NEW j \in Crons, EndCharge(j) PROVE IInv'
    BY <2>12, EndChargeStep
  <2>13. ASSUME NEW c \in Callers, Die(c) PROVE IInv'
    BY <2>13, DieStep
  <2>14. ASSUME NEW o \in Orders, ReconcileStale(o) PROVE IInv'
    BY <2>14, ReconcileStaleStep
  <2>15. ASSUME NEW s \in Sweeps, NEW o \in Orders, BeginDowngrade(s, o) PROVE IInv'
    BY <2>15, BeginDowngradeStep
  <2>16. ASSUME NEW s \in Sweeps, EndDowngrade(s) PROVE IInv'
    BY <2>16, EndDowngradeStep
  <2>17. ASSUME CancelSubscription PROVE IInv'
    BY <2>17, CancelSubscriptionStep
  <2>18. ASSUME WithdrawCancellation PROVE IInv'
    BY <2>18, WithdrawCancellationStep
  <2>19. ASSUME ApplyCancellation PROVE IInv'
    BY <2>19, ApplyCancellationStep
  <2>20. ASSUME Tick PROVE IInv'
    BY <2>20, TickStep
  <2>21. ASSUME AgeClaim PROVE IInv'
    BY <2>21, AgeClaimStep
  <2>22. ASSUME NEW c \in Callers, ChargeStep(c) PROVE IInv'
    BY <2>22, <2>4, <2>5, <2>6 DEF ChargeStep
  <2>23. ASSUME NEW c \in Requests, RequestStep(c) PROVE IInv'
    BY <2>23, <2>22, <2>2, <2>3, <2>8, <2>9 DEF RequestStep, Callers
  <2>24. ASSUME NEW j \in Crons, CronStep(j) PROVE IInv'
    BY <2>24, <2>22, <2>12 DEF CronStep, Callers
  <2>25. QED
    BY <2>23, <2>24, <2>1, <2>10, <2>11, <2>7, <2>13, <2>14, <2>15, <2>16, <2>17, <2>18, <2>19, <2>20, <2>21 DEF Next
<1>2. ASSUME IInv, UNCHANGED vars PROVE IInv'
  BY <1>2 DEF vars, row, orders, history, flows, IInv, TypeOK, Flows, AtWork, ClaimHeld, Existing
<1>3. QED
  BY <1>1, <1>2

LEMMA Invariance == Spec => []IInv
  BY InvInit, InvStep, PTL DEF Spec

\* The subscription row and the orders keep to the values the flows know, and
\* Toss has taken money only for orders that are on record.
THEOREM SubscriptionTypes == Spec => []TypeOK
<1>1. IInv => TypeOK
  BY DEF IInv
<1>2. QED
  BY <1>1, Invariance, PTL

\* checkout_claimed_at lets one checkout at a time issue a key and charge, however
\* many requests there are and whatever the maintenance job does meanwhile.
THEOREM SubscriptionOneCheckout == Spec => []OneCheckoutAtATime
<1>1. IInv => OneCheckoutAtATime
  BY DEF IInv, ClaimHeld, Busy, OneCheckoutAtATime
<1>2. QED
  BY <1>1, Invariance, PTL

-----------------------------------------------------------------------------
(* The periods that are charged for *)

\* A checkout works on no renewal, and claims the row on the day it began.
RequestsFit ==
    \A c \in Requests :
        /\ pc[c] \notin {"off", "done"} => ~ IsRenewal(target[c])
        /\ pc[c] = "checked" => target[c][3] = day

\* A run works on the renewal of the period it has read.
RunsFit ==
    \A j \in Crons :
        /\ pc[j] = "off" => target[j] = None
        /\ seen[j] # None =>
            pc[j] # "off" /\ IsRenewal(target[j]) /\ target[j][3] = seen[j]

NotAhead == \A o \in Begun : o[3] <= day

\* The row asks for the renewal that was begun last, or for a later one.
RowAhead ==
    ~ putBack /\ tier # "free" /\ due # None =>
        \A o \in Begun : o[3] + Period <= due \/ o = <<"renewal", tier, due>>

BegunApart ==
    ~ putBack =>
        \A o, x \in Begun : o # x => o[3] >= x[3] + Period \/ x[3] >= o[3] + Period

Periods == NotAhead /\ RowAhead /\ BegunApart
PInv == IInv /\ RequestsFit /\ RunsFit /\ Periods

\* The step begins no renewal, and no run reads another period.
NoneBegun ==
    /\ Begun' \subseteq Begun
    /\ \A j \in Crons : seen'[j] \in {seen[j], None}

LEMMA BegunIsDated ==
    ASSUME NEW o \in Begun
    PROVE  o \in Orders /\ o[3] \in Nat
  BY DaysAssumption DEF Begun, Orders

\* What a step leaves of the periods when no renewal is begun and the row keeps
\* what it asks for, or asks for nothing any more.
LEMMA PeriodsKept ==
    ASSUME Periods, Begun' \subseteq Begun, UNCHANGED putBack,
           day \in Nat, day' \in Nat, day <= day',
           tier' = "free" \/ UNCHANGED <<tier, due>>
    PROVE  Periods'
<1>1. NotAhead'
  BY BegunIsDated DEF Periods, NotAhead
<1>2. RowAhead'
  BY DEF Periods, RowAhead
<1>3. BegunApart'
  BY DEF Periods, BegunApart
<1>4. QED
  BY <1>1, <1>2, <1>3 DEF Periods

\* The same for a step of the request's or run's own place.
LEMMA PlaceKept ==
    ASSUME PInv, NEW c \in Callers, NEW l, Jumps(c, l),
           l \notin {"off", "checked"}, pc[c] \notin {"off", "done"},
           UNCHANGED <<target, seen, day>>
    PROVE  RequestsFit' /\ RunsFit'
  BY DEF PInv, IInv, Flows, Jumps, RequestsFit, RunsFit, Procs, Callers

LEMMA PCheckout ==
    ASSUME PInv, NEW c \in Requests, NEW t \in Paid, Checkout(c, t)
    PROVE  RequestsFit' /\ RunsFit' /\ Periods' /\ NoneBegun
<1>1. /\ pc' = [pc EXCEPT ![c] = "checked"]
      /\ target' = [target EXCEPT ![c] = <<"checkout", t, day>>]
      /\ UNCHANGED <<tier, due, status, seen, putBack, day>>
  BY DEF Checkout, Moves, Jumps, row, orders, history
<1>2. RequestsFit' /\ RunsFit'
  BY <1>1, FlowsAreDistinct DEF PInv, IInv, Flows, RequestsFit, RunsFit, IsRenewal, Procs, Callers
<1>3. Begun' \subseteq Begun
  BY <1>1, FlowsAreDistinct DEF PInv, IInv, Flows, Begun, Existing, IsRenewal, Procs, Callers
<1>4. QED
  BY <1>1, <1>2, <1>3, PeriodsKept, DaysAssumption DEF PInv, IInv, Flows, NoneBegun

LEMMA PClaimRow ==
    ASSUME PInv, NEW c \in Requests, ClaimRow(c)
    PROVE  RequestsFit' /\ RunsFit' /\ Periods' /\ NoneBegun
<1>1. UNCHANGED <<target, status, seen, putBack, day>>
  BY DEF ClaimRow, orders
<1>2. Begun' = Begun /\ day \in Nat
  BY <1>1, DaysAssumption DEF Begun, Existing, PInv, IInv, Flows
<1>3. CASE Claimable
  <2>1. Jumps(c, "issuing") /\ due' = day + Period
    BY <1>3 DEF ClaimRow, PInv, RequestsFit
  <2>2. RequestsFit' /\ RunsFit'
    BY <1>1, <2>1, PlaceKept DEF ClaimRow, Callers
  <2>3. NotAhead' /\ BegunApart'
    BY <1>1, <1>2 DEF PInv, Periods, NotAhead, BegunApart
  <2>4. RowAhead'
    BY <1>2, <2>1, BegunIsDated, DaysAssumption DEF PInv, Periods, NotAhead, RowAhead
  <2>5. QED
    BY <1>1, <1>2, <2>2, <2>3, <2>4 DEF Periods, NoneBegun
<1>4. CASE ~ Claimable
  <2>1. Jumps(c, "done") /\ UNCHANGED <<tier, due>>
    BY <1>4 DEF ClaimRow
  <2>2. RequestsFit' /\ RunsFit'
    BY <1>1, <2>1, PlaceKept DEF ClaimRow, Callers
  <2>3. QED
    BY <1>1, <1>2, <2>1, <2>2, PeriodsKept DEF PInv, NoneBegun
<1>5. QED
  BY <1>3, <1>4

LEMMA PStartCharge ==
    ASSUME PInv, NEW c \in Callers, StartCharge(c)
    PROVE  RequestsFit' /\ RunsFit' /\ Periods' /\ NoneBegun
<1>1. /\ UNCHANGED <<tier, due, target, seen, putBack, day>>
      /\ pc[c] = "charging"
  BY DEF StartCharge, row, history
<1>2. \E l \in {"calling", "paid", "unpaid"} : Jumps(c, l)
  BY DEF StartCharge
<1>3. RequestsFit' /\ RunsFit'
  BY <1>1, <1>2, PlaceKept
<1>4. Begun' \subseteq Begun
  <2>1. \A o \in Existing' : o \in Existing \/ o = target[c]
    BY DEF StartCharge, Writes, Existing, PInv, IInv, TypeOK
  <2>2. c \in Requests => ~ IsRenewal(target[c])
    BY <1>1 DEF PInv, RequestsFit
  <2>3. QED
    BY <1>1, <2>1, <2>2 DEF Begun, Callers
<1>5. QED
  BY <1>1, <1>3, <1>4, PeriodsKept, DaysAssumption DEF PInv, IInv, Flows, NoneBegun

\* The steps that begin no renewal and leave the row's tier and period alone.
LEMMA POwnStep ==
    ASSUME PInv, NEW c \in Callers, NEW l \in {"charging", "paid", "raised", "releasing"},
           Jumps(c, l), pc[c] \notin {"off", "done"}, Existing' \subseteq Existing,
           UNCHANGED <<tier, due, target, seen, putBack, day>>
    PROVE  RequestsFit' /\ RunsFit' /\ Periods' /\ NoneBegun
<1>1. RequestsFit' /\ RunsFit'
  BY PlaceKept
<1>2. Begun' \subseteq Begun
  BY DEF Begun
<1>3. QED
  BY <1>1, <1>2, PeriodsKept, DaysAssumption DEF PInv, IInv, Flows, NoneBegun


LEMMA PChargeSteps ==
    ASSUME PInv, NEW c \in Callers,
           ChargeSucceeds(c) \/ ChargeDeclined(c) \/ ChargeBreaks(c)
    PROVE  RequestsFit' /\ RunsFit' /\ Periods' /\ NoneBegun
<1>1. pc[c] = "calling" /\ target[c] \in Existing
  BY DEF ChargeSucceeds, ChargeDeclined, ChargeBreaks, PInv, IInv, AtWork, Existing, Procs
<1>2. Existing' \subseteq Existing
  BY <1>1 DEF ChargeSucceeds, ChargeDeclined, ChargeBreaks, Writes, WritesUnlessConfirmed,
       Existing, PInv, IInv, TypeOK
<1>3. UNCHANGED <<tier, due, target, seen, putBack, day>>
  BY DEF ChargeSucceeds, ChargeDeclined, ChargeBreaks, row, history
<1>4. \E l \in {"paid", "raised"} : Jumps(c, l)
  BY DEF ChargeSucceeds, ChargeDeclined, ChargeBreaks
<1>5. QED
  BY <1>1, <1>2, <1>3, <1>4, POwnStep

LEMMA PRequestSteps ==
    ASSUME PInv, NEW c \in Requests, IssueKey(c) \/ Activate(c)
    PROVE  RequestsFit' /\ RunsFit' /\ Periods' /\ NoneBegun
<1>1. pc[c] \notin {"off", "done"}
  BY DEF IssueKey, Activate, Results
<1>2. UNCHANGED <<tier, due, status, target, seen, putBack, day>>
  BY DEF IssueKey, Activate, row, orders, history
<1>3. \E l \in {"charging", "releasing"} : Jumps(c, l)
  BY DEF IssueKey, Activate
<1>4. Existing' \subseteq Existing
  BY <1>2 DEF Existing
<1>5. QED
  BY <1>1, <1>2, <1>3, <1>4, POwnStep DEF Callers

LEMMA PRelease ==
    ASSUME PInv, NEW c \in Requests, Release(c)
    PROVE  RequestsFit' /\ RunsFit' /\ Periods' /\ NoneBegun
<1>1. /\ pc' = [pc EXCEPT ![c] = "done"]
      /\ target' = [target EXCEPT ![c] = None]
      /\ UNCHANGED <<tier, due, status, seen, putBack, day>>
  BY DEF Release, Moves, Jumps, orders, history
<1>2. RequestsFit' /\ RunsFit'
  BY <1>1, FlowsAreDistinct DEF PInv, IInv, Flows, RequestsFit, RunsFit, Procs, Callers
<1>3. Begun' \subseteq Begun
  BY <1>1, FlowsAreDistinct DEF PInv, IInv, Flows, Begun, Existing, Procs, Callers
<1>4. QED
  BY <1>1, <1>2, <1>3, PeriodsKept, DaysAssumption DEF PInv, IInv, Flows, NoneBegun

\* A run begins the renewal that the row asks for, which is a period after all
\* that were begun or the last of them.
LEMMA PTriggerDue ==
    ASSUME PInv, NEW j \in Crons, TriggerDue(j)
    PROVE  RequestsFit' /\ RunsFit' /\ Periods'
<1> DEFINE n == <<"renewal", tier, due>>
<1>1. /\ pc' = [pc EXCEPT ![j] = "charging"]
      /\ target' = [target EXCEPT ![j] = n]
      /\ seen' = [seen EXCEPT ![j] = due]
      /\ UNCHANGED <<tier, due, status, putBack, day>>
      /\ tier # "free" /\ due # None /\ due <= day
  BY DEF TriggerDue, Moves, Jumps, row, orders, history
<1>2. due \in Nat /\ day \in Nat
  BY <1>1, DaysAssumption DEF PInv, IInv, TypeOK, Flows
<1>3. n[1] = "renewal" /\ n[3] = due
  OBVIOUS
<1>4. RequestsFit' /\ RunsFit'
  BY <1>1, <1>2, <1>3, FlowsAreDistinct DEF PInv, IInv, Flows, RequestsFit, RunsFit, IsRenewal, Procs, Callers
<1>5. Begun' \subseteq Begun \cup {n}
  BY <1>1, FlowsAreDistinct DEF PInv, IInv, Flows, Begun, Existing, Procs, Callers
<1>6. NotAhead'
  BY <1>1, <1>3, <1>5 DEF PInv, Periods, NotAhead
<1>7. RowAhead'
  BY <1>1, <1>5 DEF PInv, Periods, RowAhead
<1>8. BegunApart'
  <2>1. SUFFICES ASSUME ~ putBack, NEW o \in Begun', NEW x \in Begun', o # x
                 PROVE  o[3] >= x[3] + Period \/ x[3] >= o[3] + Period
    BY <1>1 DEF BegunApart
  <2>2. \A y \in Begun : y[3] + Period <= due \/ y = n
    BY <1>1, <2>1 DEF PInv, Periods, RowAhead
  <2>3. CASE o \in Begun /\ x \in Begun
    BY <2>1, <2>3 DEF PInv, Periods, BegunApart
  <2>4. CASE o \notin Begun
    BY <1>3, <1>5, <2>1, <2>2, <2>4
  <2>5. CASE x \notin Begun
    BY <1>3, <1>5, <2>1, <2>2, <2>5
  <2>6. QED
    BY <2>3, <2>4, <2>5
<1>9. QED
  BY <1>4, <1>6, <1>7, <1>8 DEF Periods

LEMMA PRetryFailed ==
    ASSUME PInv, NEW j \in Crons, NEW o \in Orders, RetryFailed(j, o)
    PROVE  RequestsFit' /\ RunsFit' /\ Periods' /\ NoneBegun
<1>1. /\ pc' = [pc EXCEPT ![j] = "charging"]
      /\ target' = [target EXCEPT ![j] = o]
      /\ pc[j] = "off" /\ o \in Existing
      /\ UNCHANGED <<tier, due, status, seen, putBack, day>>
  BY DEF RetryFailed, Moves, Jumps, row, orders, history, Existing
<1>2. RequestsFit' /\ RunsFit'
  BY <1>1, FlowsAreDistinct DEF PInv, IInv, Flows, RequestsFit, RunsFit, Procs, Callers
<1>3. Begun' \subseteq Begun
  BY <1>1, FlowsAreDistinct DEF PInv, IInv, Flows, Begun, Existing, Procs, Callers
<1>4. QED
  BY <1>1, <1>2, <1>3, PeriodsKept, DaysAssumption DEF PInv, IInv, Flows, NoneBegun

\* A run that ends leaves the row ahead of every renewal: it rolls the period on
\* from its own, which is the last that was begun unless it puts the row back.
LEMMA PEndCharge ==
    ASSUME PInv, NEW j \in Crons, EndCharge(j)
    PROVE  RequestsFit' /\ RunsFit' /\ Periods' /\ NoneBegun
<1>1. /\ pc' = [pc EXCEPT ![j] = "off"]
      /\ target' = [target EXCEPT ![j] = None]
      /\ seen' = [seen EXCEPT ![j] = None]
      /\ UNCHANGED <<tier, status, day>>
      /\ pc[j] # "off"
  BY DEF EndCharge, Moves, Jumps, orders, Results
<1>2. RequestsFit' /\ RunsFit'
  BY <1>1, FlowsAreDistinct DEF PInv, IInv, Flows, RequestsFit, RunsFit, Procs, Callers
<1>3. Begun' \subseteq Begun /\ (putBack => putBack')
  <2>1. Begun' \subseteq Begun
    BY <1>1, FlowsAreDistinct DEF PInv, IInv, Flows, Begun, Existing, Procs, Callers
  <2>2. putBack => putBack'
    BY DEF EndCharge, EndTrigger, EndRetry
  <2>3. QED
    BY <2>1, <2>2
<1>4. NotAhead' /\ BegunApart'
  BY <1>1, <1>3 DEF PInv, Periods, NotAhead, BegunApart
<1>5. RowAhead'
  <2>1. SUFFICES ASSUME ~ putBack', tier # "free", due' # None, NEW o \in Begun'
                 PROVE  o[3] + Period <= due' \/ o = <<"renewal", tier, due'>>
    BY <1>1 DEF RowAhead
  <2>2. o \in Begun /\ o[3] \in Nat /\ Period \in Nat /\ ~ putBack
    BY <1>3, <2>1, BegunIsDated, DaysAssumption
  <2>3. CASE /\ seen[j] # None /\ due' = seen[j] + Period
             /\ putBack' = (putBack \/ \E x \in Begun : x[3] > seen[j])
    <3>1. due' = seen[j] + Period /\ seen[j] \in Nat
      BY <2>3 DEF PInv, IInv, Flows
    <3>2. ~ (o[3] > seen[j])
      BY <2>1, <2>2, <2>3
    <3>3. QED
      BY <2>2, <3>1, <3>2
  <2>4. CASE UNCHANGED due
    BY <2>1, <2>2, <2>4 DEF PInv, Periods, RowAhead
  <2>5. CASE due # None /\ due' = due + Period
    <3>1. due \in Nat /\ (o[3] + Period <= due \/ o = <<"renewal", tier, due>>)
      BY <2>1, <2>2, <2>5 DEF PInv, Periods, RowAhead, IInv, TypeOK
    <3>2. QED
      BY <2>2, <2>5, <3>1
  <2>6. QED
    BY <2>3, <2>4, <2>5 DEF EndCharge, EndTrigger, EndRetry
<1>6. \A k \in Crons : seen'[k] \in {seen[k], None}
  BY <1>1 DEF PInv, IInv, Flows
<1>7. QED
  BY <1>2, <1>3, <1>4, <1>5, <1>6 DEF Periods, NoneBegun

LEMMA PDie ==
    ASSUME PInv, NEW c \in Callers, Die(c)
    PROVE  RequestsFit' /\ RunsFit' /\ Periods' /\ NoneBegun
<1>1. /\ target' = [target EXCEPT ![c] = None]
      /\ pc' = [pc EXCEPT ![c] = IF c \in Requests THEN "done" ELSE "off"]
      /\ seen' = [j \in Crons |-> IF j = c THEN None ELSE seen[j]]
      /\ UNCHANGED <<tier, due, status, putBack, day>>
  BY DEF Die, Moves, Jumps, row, history
<1>2. RequestsFit' /\ RunsFit'
  <2>1. \A p \in Procs : p # c => pc'[p] = pc[p] /\ target'[p] = target[p]
    BY <1>1 DEF PInv, IInv, Flows
  <2>2. pc'[c] = (IF c \in Requests THEN "done" ELSE "off") /\ target'[c] = None
    BY <1>1 DEF PInv, IInv, Flows, Procs
  <2>3. \A j \in Crons : seen'[j] = IF j = c THEN None ELSE seen[j]
    BY <1>1
  <2>4. RequestsFit'
    BY <1>1, <2>1, <2>2, FlowsAreDistinct DEF PInv, RequestsFit, Procs, Callers
  <2>5. RunsFit'
    BY <2>1, <2>2, <2>3, FlowsAreDistinct DEF PInv, RunsFit, Procs, Callers
  <2>6. QED
    BY <2>4, <2>5
<1>3. Begun' \subseteq Begun
  BY <1>1, FlowsAreDistinct DEF PInv, IInv, Flows, Begun, Existing, Procs, Callers
<1>4. QED
  BY <1>1, <1>2, <1>3, PeriodsKept, DaysAssumption DEF PInv, IInv, Flows, NoneBegun


LEMMA PReconcileStale ==
    ASSUME PInv, NEW o \in Orders, ReconcileStale(o)
    PROVE  RequestsFit' /\ RunsFit' /\ Periods' /\ NoneBegun
<1>1. UNCHANGED <<tier, due, pc, target, seen, putBack, day>>
  BY DEF ReconcileStale, row, flows, history
<1>2. Begun' \subseteq Begun
  BY <1>1 DEF ReconcileStale, Writes, Begun, Existing, PInv, IInv, TypeOK
<1>3. RequestsFit' /\ RunsFit'
  BY <1>1 DEF PInv, RequestsFit, RunsFit
<1>4. QED
  BY <1>1, <1>2, <1>3, PeriodsKept, DaysAssumption DEF PInv, IInv, Flows, NoneBegun

\* The sweeps work on orders of their own choice, and on no run's.
LEMMA PDowngrade ==
    ASSUME PInv, NEW s \in Sweeps,
           EndDowngrade(s) \/ \E o \in Orders : BeginDowngrade(s, o)
    PROVE  RequestsFit' /\ RunsFit' /\ Periods' /\ NoneBegun
<1>1. /\ \A p \in Callers : pc'[p] = pc[p] /\ target'[p] = target[p]
      /\ UNCHANGED <<seen, putBack, day>>
  BY FlowsAreDistinct DEF EndDowngrade, BeginDowngrade, Moves, Jumps, history, PInv, IInv, Flows, Procs, Callers
<1>2. tier' = "free" \/ UNCHANGED <<tier, due>>
  BY DEF EndDowngrade, BeginDowngrade, row
<1>3. Existing' \subseteq Existing
  <2>1. CASE EndDowngrade(s)
    <3>1. target[s] \in Existing
      BY <2>1 DEF EndDowngrade, PInv, IInv, AtWork, Existing, Procs
    <3>2. QED
      BY <2>1, <3>1 DEF EndDowngrade, WritesUnlessConfirmed, Writes, Existing, PInv, IInv, TypeOK
  <2>2. CASE \E o \in Orders : BeginDowngrade(s, o)
    BY <2>2 DEF BeginDowngrade, orders, Existing
  <2>3. QED
    BY <2>1, <2>2
<1>4. Begun' \subseteq Begun
  BY <1>1, <1>3 DEF Begun, Callers
<1>5. RequestsFit' /\ RunsFit'
  BY <1>1 DEF PInv, RequestsFit, RunsFit, Callers
<1>6. QED
  BY <1>1, <1>2, <1>4, <1>5, PeriodsKept, DaysAssumption DEF PInv, IInv, Flows, NoneBegun

LEMMA POthers ==
    ASSUME PInv,
           \/ CancelSubscription \/ WithdrawCancellation \/ ApplyCancellation
           \/ AgeClaim \/ UNCHANGED vars
    PROVE  RequestsFit' /\ RunsFit' /\ Periods' /\ NoneBegun
<1>1. UNCHANGED <<status, pc, target, seen, putBack, day>>
  BY DEF CancelSubscription, WithdrawCancellation, ApplyCancellation, AgeClaim, vars, orders, flows, history
<1>2. tier' = "free" \/ UNCHANGED <<tier, due>>
  BY DEF CancelSubscription, WithdrawCancellation, ApplyCancellation, AgeClaim, vars, row
<1>3. Begun' \subseteq Begun
  BY <1>1 DEF Begun, Existing
<1>4. RequestsFit' /\ RunsFit'
  BY <1>1 DEF PInv, RequestsFit, RunsFit
<1>5. QED
  BY <1>1, <1>2, <1>3, <1>4, PeriodsKept, DaysAssumption DEF PInv, IInv, Flows, NoneBegun

LEMMA PTick ==
    ASSUME PInv, Tick
    PROVE  RequestsFit' /\ RunsFit' /\ Periods' /\ NoneBegun
<1>1. /\ UNCHANGED <<tier, due, status, pc, target, seen, putBack>>
      /\ day' = day + 1 /\ \A p \in Procs : pc[p] \in {"off", "done"}
  BY DEF Tick, row, flows, history
<1>2. Begun' \subseteq Begun
  BY <1>1 DEF Begun, Existing
<1>3. RequestsFit' /\ RunsFit'
  BY <1>1 DEF PInv, RequestsFit, RunsFit, Procs, Callers
<1>4. QED
  BY <1>1, <1>2, <1>3, PeriodsKept, DaysAssumption DEF PInv, IInv, Flows, NoneBegun

LEMMA PInvInit == Init => PInv
<1> SUFFICES ASSUME Init PROVE PInv
  OBVIOUS
<1>1. IInv
  BY InvInit
<1>2. Begun = {}
  BY FlowsAreDistinct DEF Init, Begun, Existing, Procs, Callers
<1>3. RequestsFit /\ RunsFit
  BY DEF Init, RequestsFit, RunsFit, Procs, Callers
<1>4. QED
  BY <1>1, <1>2, <1>3 DEF PInv, Periods, NotAhead, RowAhead, BegunApart

\* Only trigger_due_charges begins a renewal.
LEMMA PNext ==
    ASSUME PInv, [Next]_vars
    PROVE  /\ RequestsFit' /\ RunsFit' /\ Periods'
           /\ NoneBegun \/ \E j \in Crons : TriggerDue(j)
<1> DEFINE Goal == /\ RequestsFit' /\ RunsFit' /\ Periods'
                   /\ NoneBegun \/ \E j \in Crons : TriggerDue(j)
<1>1. ASSUME NEW c \in Callers, ChargeStep(c) \/ ChargeBreaks(c) PROVE Goal
  BY <1>1, PStartCharge, PChargeSteps DEF ChargeStep
<1>2. ASSUME NEW c \in Requests, RequestStep(c) PROVE Goal
  BY <1>2, <1>1, PClaimRow, PRequestSteps, PRelease DEF RequestStep, Callers
<1>3. ASSUME NEW j \in Crons, CronStep(j) \/ TriggerDue(j) PROVE Goal
  BY <1>3, <1>1, PEndCharge, PTriggerDue DEF CronStep, Callers
<1>4. QED
  BY <1>1, <1>2, <1>3, PCheckout, PRetryFailed, PDie, PReconcileStale, PDowngrade, POthers, PTick
  DEF Next

LEMMA PInvStep == PInv /\ [Next]_vars => PInv'
  BY InvStep, PNext DEF PInv

LEMMA PInvariance == Spec => []PInv
  BY PInvInit, PInvStep, PTL DEF Spec

\* trigger_due_charges keys a renewal by the period it is for: however many runs
\* and checkouts overlap, and wherever they die, no two renewals that are less
\* than a period apart are ever paid, unless a run puts the period end back.
THEOREM SubscriptionPeriodOnce == Spec => []PeriodChargedOnce
<1>1. PInv => PeriodChargedOnce
  <2>1. SUFFICES ASSUME PInv, ~ putBack, NEW o \in captured, NEW x \in captured,
                        IsRenewal(o), IsRenewal(x), o # x
                 PROVE  o[3] >= x[3] + Period \/ x[3] >= o[3] + Period
    BY DEF PeriodChargedOnce, RenewalsApart
  <2>2. o \in Begun /\ x \in Begun
    BY <2>1 DEF PInv, IInv, TypeOK, Begun, Existing
  <2>3. QED
    BY <2>1, <2>2 DEF PInv, Periods, BegunApart
<1>2. QED
  BY <1>1, PInvariance, PTL

-----------------------------------------------------------------------------
(* Runs that do not overlap *)

OneRunAtATime == \A j, k \in Crons : pc[j] # "off" /\ pc[k] # "off" => j = k

\* What a run has read is the last period that was begun.
RunLeads == \A j \in Crons : seen[j] # None => \A o \in Begun : o[3] <= seen[j]

LEMMA RunLeadsStep ==
    ASSUME PInv, RunLeads, ~ putBack, OneRunAtATime', [Next]_vars
    PROVE  RunLeads' /\ ~ putBack'
<1>1. ASSUME NEW j \in Crons, TriggerDue(j) PROVE RunLeads' /\ ~ putBack'
  <2> DEFINE n == <<"renewal", tier, due>>
  <2>1. /\ target' = [target EXCEPT ![j] = n]
        /\ pc' = [pc EXCEPT ![j] = "charging"]
        /\ seen' = [seen EXCEPT ![j] = due]
        /\ UNCHANGED <<status, putBack>>
        /\ tier # "free" /\ due # None
    BY <1>1 DEF TriggerDue, Moves, Jumps, orders, history
  <2>2. \A k \in Crons : seen'[k] # None => k = j
    BY <2>1 DEF PInv, IInv, Flows, RunsFit, OneRunAtATime, Procs, Callers
  <2>3. Begun' \subseteq Begun \cup {n}
    BY <2>1, FlowsAreDistinct DEF PInv, IInv, Flows, Begun, Existing, Procs, Callers
  <2>4. due \in Nat /\ n[3] = due
    BY <2>1 DEF PInv, IInv, TypeOK
  <2>5. \A o \in Begun : o[3] <= due
    BY <2>1, <2>4, BegunIsDated, DaysAssumption DEF PInv, Periods, RowAhead
  <2>6. seen'[j] = due
    BY <2>1 DEF PInv, IInv, Flows
  <2>7. \A o \in Begun' : o[3] <= due
    BY <2>3, <2>4, <2>5
  <2>8. QED
    BY <2>1, <2>2, <2>6, <2>7 DEF RunLeads
<1>2. ASSUME NEW j \in Crons, EndCharge(j) PROVE ~ putBack'
  <2>1. CASE EndTrigger(j)
    <3>1. seen[j] \in Nat
      BY <2>1 DEF EndTrigger, PInv, IInv, Flows
    <3>2. ~ \E o \in Begun : o[3] > seen[j]
      BY <3>1, BegunIsDated, FlowsAreDistinct DEF RunLeads
    <3>3. QED
      BY <2>1, <3>2 DEF EndTrigger
  <2>2. CASE EndRetry(j)
    BY <2>2 DEF EndRetry
  <2>3. QED
    BY <1>2, <2>1, <2>2 DEF EndCharge
<1>3. ASSUME NoneBegun PROVE RunLeads'
  BY <1>3 DEF NoneBegun, RunLeads
<1>4. (\E j \in Crons : EndCharge(j)) \/ UNCHANGED putBack
  <2>1. ASSUME NEW c \in Callers, ChargeStep(c) \/ ChargeBreaks(c) PROVE UNCHANGED putBack
    BY <2>1 DEF ChargeStep, StartCharge, ChargeSucceeds, ChargeDeclined, ChargeBreaks, history
  <2>2. ASSUME NEW c \in Requests, RequestStep(c) PROVE UNCHANGED putBack
    BY <2>2, <2>1 DEF RequestStep, Callers, ClaimRow, IssueKey, Activate, Release, history
  <2>3. ASSUME NEW j \in Crons, CronStep(j), ~ EndCharge(j) PROVE UNCHANGED putBack
    BY <2>3, <2>1 DEF CronStep, Callers
  <2>4. QED
    BY <2>1, <2>2, <2>3 DEF Next, vars, Checkout, TriggerDue, RetryFailed, Die, ReconcileStale,
       BeginDowngrade, EndDowngrade, CancelSubscription, WithdrawCancellation,
       ApplyCancellation, Tick, AgeClaim, flows, history
<1>5. QED
  BY <1>1, <1>2, <1>3, <1>4, PNext

\* toss_billing_maintenance: while its runs do not overlap, no run puts the period
\* end back, so that each period is charged for once without exception, whatever
\* checkouts, cancellations and crashes there are.
THEOREM SubscriptionRunsApart == Spec /\ []OneRunAtATime => []RenewalsApart
<1>1. Init => RunLeads /\ ~ putBack
  BY DEF Init, RunLeads
<1>2. PInv /\ RunLeads /\ ~ putBack /\ OneRunAtATime' /\ [Next]_vars => RunLeads' /\ ~ putBack'
  BY RunLeadsStep
<1>3. PeriodChargedOnce /\ ~ putBack => RenewalsApart
  BY DEF PeriodChargedOnce
<1>4. QED
  BY <1>1, <1>2, <1>3, PInvariance, SubscriptionPeriodOnce, PTL DEF Spec
=============================================================================
