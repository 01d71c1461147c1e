---------------------------- MODULE BillingCharge ---------------------------
(***************************************************************************)
(* Charging an order: charge_org of backend/app/services/billing_charge.py *)
(* (a checkout, a renewal, a dunning retry, a pack, an operator's retry)   *)
(* and the sweeps of billing_scheduler.py that work on the same rows.      *)
(*                                                                         *)
(* Every step below is one commit or one call to Toss, the payment         *)
(* provider; anything may happen between two of them.  Toss takes an order *)
(* id once: a second charge of a paid order answers DUPLICATED_ORDER_ID.   *)
(***************************************************************************)
EXTENDS Naturals

CONSTANTS
    Orders,     \* order ids
    Callers,    \* requests and jobs that call charge_org
    Sweepers,   \* runs of the maintenance job that reconcile and close orders
    NoOrder,    \* the order of a process that has none
    MaxFaults   \* bound on processes that die and calls that break

ASSUME ProcessesAreDistinct == Callers \cap Sweepers = {}
ASSUME NoOrderIsNone == NoOrder \notin Orders
ASSUME MaxFaultsIsNat == MaxFaults \in Nat

VARIABLES
    status,     \* billing_orders.status, "absent" before the INSERT
    aged,       \* orders created more than PENDING_STALE_AFTER ago
    ledger,     \* orders with a ledger entry under their payment key
    toss,       \* what Toss knows of each order id
    keyActive,  \* whether the organisation has an active billing key
    at,         \* where each process is
    ord,        \* the order it works on
    faults      \* faults so far

vars == <<status, aged, ledger, toss, keyActive, at, ord, faults>>

Procs == Callers \cup Sweepers
Statuses == {"absent", "pending", "confirmed", "failed", "downgraded"}
Payments == {"none", "aborted", "done", "canceled"}
Captured == {"done", "canceled"}

\* How charge_org ends: with a confirmed order, with another, or by raising.
Results == {"paid", "unpaid", "raised"}
\* The phases in which a process still has something to do to its order.
Working == {"claimed", "sent", "captured", "duplicated", "holding", "booked",
            "failing", "refusing", "looking", "closing"}
Phases == {"idle"} \cup Results \cup Working

Init ==
    /\ status = [o \in Orders |-> "absent"]
    /\ aged = {}
    /\ ledger = {}
    /\ toss = [o \in Orders |-> "none"]
    /\ keyActive \in BOOLEAN
    /\ at = [p \in Procs |-> "idle"]
    /\ ord = [p \in Procs |-> NoOrder]
    /\ faults = 0

Goes(p, phase) == at' = [at EXCEPT ![p] = phase] /\ UNCHANGED ord

Takes(p, o, phase) ==
    /\ at' = [at EXCEPT ![p] = phase]
    /\ ord' = [ord EXCEPT ![p] = o]

\* Mutant: the process forgets to let go of its order.
FreesPhase(p) == Goes(p, "idle")

Frees(p) == Takes(p, NoOrder, "idle")

\* A caller hands its result back; a sweep goes on with its next order.
Ends(p, result) == IF p \in Callers THEN Goes(p, result) ELSE Frees(p)

Set(o, s) == status' = [status EXCEPT ![o] = s]
\* Mutant: the failure is written without WHERE status != 'confirmed'.
SetAlways(o, s) == Set(o, s)

\* WHERE status != 'confirmed'
SetUnlessConfirmed(o, s) ==
    Set(o, IF status[o] = "confirmed" THEN "confirmed" ELSE s)

-----------------------------------------------------------------------------
(* charge_org *)

\* Mutant: a pending row may be claimed again, as if it were left over.
ClaimPending(c, o) ==
    /\ at[c] = "idle"
    /\ status[o] \in {"absent", "failed", "pending"}
    /\ Set(o, "pending")
    /\ Takes(c, o, "claimed")
    /\ UNCHANGED <<aged, ledger, toss, keyActive, faults>>

\* INSERT .. ON CONFLICT DO NOTHING, then the CAS failed -> pending: whoever
\* changes the row owns the attempt.
ClaimOrder(c, o) ==
    /\ at[c] = "idle"
    /\ status[o] \in {"absent", "failed"}
    /\ Set(o, "pending")
    /\ Takes(c, o, "claimed")
    /\ UNCHANGED <<aged, ledger, toss, keyActive, faults>>

\* The row belongs to another attempt, or is settled: return it as it is.
LeaveOrder(c, o) ==
    /\ at[c] = "idle"
    /\ status[o] \in {"pending", "confirmed", "downgraded"}
    /\ Takes(c, o, IF status[o] = "confirmed" THEN "paid" ELSE "unpaid")
    /\ UNCHANGED <<status, aged, ledger, toss, keyActive, faults>>

\* Without an active key the attempt has failed, otherwise Toss is called.
ReadKey(c) ==
    /\ at[c] = "claimed"
    /\ Goes(c, IF keyActive THEN "sent" ELSE "failing")
    /\ UNCHANGED <<status, aged, ledger, toss, keyActive, faults>>

\* External.  Toss approves, declines (and may keep the aborted payment), or
\* has taken this order id before.
TossAnswers(c) ==
    LET o == ord[c] IN
    /\ at[c] = "sent"
    /\ \/ /\ toss[o] \notin Captured
          /\ toss' = [toss EXCEPT ![o] = "done"]
          /\ Goes(c, "captured")
       \/ /\ toss[o] \notin Captured
          /\ \E t \in {toss[o], "aborted"} : toss' = [toss EXCEPT ![o] = t]
          /\ Goes(c, "failing")
       \/ /\ toss[o] \in Captured
          /\ UNCHANGED toss
          /\ Goes(c, "duplicated")
    /\ UNCHANGED <<status, aged, ledger, keyActive, faults>>

\* The request never arrived, or its answer was lost or had no payment key.
AnswerLost(c) ==
    /\ at[c] \in {"sent", "captured", "duplicated"}
    /\ faults < MaxFaults
    /\ faults' = faults + 1
    /\ Goes(c, "failing")
    /\ UNCHANGED <<status, aged, ledger, toss, keyActive>>

\* Mutant: DUPLICATED_ORDER_ID is a failure like any other.
DuplicateFails(c) ==
    /\ at[c] = "duplicated"
    /\ Goes(c, "failing")
    /\ UNCHANGED <<status, aged, ledger, toss, keyActive, faults>>

\* _reconcile_duplicated_order asks Toss what became of the earlier charge.
LookupDuplicate(c) ==
    /\ at[c] = "duplicated"
    /\ Goes(c, IF toss[ord[c]] = "done" THEN "holding" ELSE "refusing")
    /\ UNCHANGED <<status, aged, ledger, toss, keyActive, faults>>

\* What charge_org does not catch leaves the row pending: no usable
\* encryption key, or a failure of the lookup after DUPLICATED_ORDER_ID.
RaiseUnrecorded(c) ==
    /\ at[c] \in {"claimed", "duplicated"}
    /\ faults < MaxFaults
    /\ faults' = faults + 1
    /\ Goes(c, "raised")
    /\ UNCHANGED <<status, aged, ledger, toss, keyActive>>

\* Mutant: the order is confirmed and the ledger left for later.
SkipLedger(p) ==
    /\ at[p] \in {"captured", "holding"}
    /\ Goes(p, "booked")
    /\ UNCHANGED <<status, aged, ledger, toss, keyActive, faults>>

\* _confirm_with_ledger, first commit: ON CONFLICT (provider_ref) DO NOTHING.
RecordLedger(p) ==
    /\ at[p] \in {"captured", "holding"}
    /\ ledger' = ledger \cup {ord[p]}
    /\ Goes(p, "booked")
    /\ UNCHANGED <<status, aged, toss, keyActive, faults>>

\* _confirm_with_ledger, second commit.
ConfirmOrder(p) ==
    /\ at[p] = "booked"
    /\ Set(ord[p], "confirmed")
    /\ Ends(p, "paid")
    /\ UNCHANGED <<aged, ledger, toss, keyActive, faults>>

\* _mark_failed_if_not_confirmed; only the lookup of a duplicate returns the
\* row instead of raising.
RecordFailure(p) ==
    /\ at[p] \in {"failing", "refusing"}
    /\ SetUnlessConfirmed(ord[p], "failed")
    /\ Ends(p, IF at[p] = "failing" THEN "raised"
               ELSE IF status[ord[p]] = "confirmed" THEN "paid" ELSE "unpaid")
    /\ UNCHANGED <<aged, ledger, toss, keyActive, faults>>

\* The caller goes on with what charge_org returned or raised.
TakeResult(c) ==
    /\ at[c] \in Results
    /\ Frees(c)
    /\ UNCHANGED <<status, aged, ledger, toss, keyActive, faults>>

-----------------------------------------------------------------------------
(* sweep_stale_pending_orders and the order's side of downgrade_to_free *)

SelectStale(s, o) ==
    /\ at[s] = "idle"
    /\ status[o] = "pending"
    /\ o \in aged
    /\ Takes(s, o, "looking")
    /\ UNCHANGED <<status, aged, ledger, toss, keyActive, faults>>

\* NOT_FOUND_PAYMENT leaves the order pending.
LookupStale(s) ==
    LET t == toss[ord[s]] IN
    /\ at[s] = "looking"
    /\ \/ t = "done" /\ Goes(s, "holding")
       \/ t \in {"aborted", "canceled"} /\ Goes(s, "failing")
       \/ t = "none" /\ Frees(s)
    /\ UNCHANGED <<status, aged, ledger, toss, keyActive, faults>>

\* A lookup that fails leaves the order for the next sweep; an answer without
\* a payment key is a failed payment, whatever its status says.
LookupFails(s) ==
    /\ at[s] = "looking"
    /\ faults < MaxFaults
    /\ faults' = faults + 1
    /\ Frees(s) \/ (toss[ord[s]] = "done" /\ Goes(s, "failing"))
    /\ UNCHANGED <<status, aged, ledger, toss, keyActive>>

\* next_dunning_action = "downgrade_to_free" on the list the sweep has read.
SelectOverdue(s, o) ==
    /\ at[s] = "idle"
    /\ status[o] = "failed"
    /\ o \in aged
    /\ Takes(s, o, "closing")
    /\ UNCHANGED <<status, aged, ledger, toss, keyActive, faults>>

CloseOrder(s) ==
    /\ at[s] = "closing"
    /\ SetUnlessConfirmed(ord[s], "downgraded")
    /\ Frees(s)
    /\ UNCHANGED <<aged, ledger, toss, keyActive, faults>>

-----------------------------------------------------------------------------
(* The surroundings *)

\* created_at, which a retry does not renew, gets old.
Age(o) ==
    /\ status[o] # "absent"
    /\ o \notin aged
    /\ aged' = aged \cup {o}
    /\ UNCHANGED <<status, ledger, toss, keyActive, at, ord, faults>>

\* issue_billing_key, revoke_billing_key, the BILLING_DELETED webhook.
SetKey(b) ==
    /\ keyActive # b
    /\ keyActive' = b
    /\ UNCHANGED <<status, aged, ledger, toss, at, ord, faults>>

\* External.  A payment is cancelled at Toss (refund_org, or its console).
CancelAtToss(o) ==
    /\ toss[o] = "done"
    /\ toss' = [toss EXCEPT ![o] = "canceled"]
    /\ UNCHANGED <<status, aged, ledger, keyActive, at, ord, faults>>

\* The process is gone between two commits.
Die(p) ==
    /\ at[p] \in Working
    /\ faults < MaxFaults
    /\ faults' = faults + 1
    /\ Frees(p)
    /\ UNCHANGED <<status, aged, ledger, toss, keyActive>>

-----------------------------------------------------------------------------
CallerStep(c) ==
    \/ ReadKey(c)
    \/ TossAnswers(c)
    \/ LookupDuplicate(c)
    \/ RecordLedger(c)
    \/ ConfirmOrder(c)
    \/ RecordFailure(c)

SweeperStep(s) ==
    \/ LookupStale(s)
    \/ RecordLedger(s)
    \/ ConfirmOrder(s)
    \/ RecordFailure(s)

Fault(p) ==
    \/ p \in Callers /\ (AnswerLost(p) \/ RaiseUnrecorded(p))
    \/ p \in Sweepers /\ LookupFails(p)
    \/ Die(p)

Next ==
    \/ \E c \in Callers, o \in Orders : ClaimOrder(c, o) \/ LeaveOrder(c, o)
    \/ \E c \in Callers : CallerStep(c) \/ TakeResult(c)
    \/ \E s \in Sweepers, o \in Orders : SelectStale(s, o) \/ SelectOverdue(s, o)
    \/ \E s \in Sweepers : SweeperStep(s) \/ CloseOrder(s)
    \/ \E p \in Procs : Fault(p)
    \/ \E o \in Orders : Age(o) \/ CancelAtToss(o)
    \/ \E b \in BOOLEAN : SetKey(b)

Spec == Init /\ [][Next]_vars

\* Live processes take their steps; the maintenance job runs for ever, so
\* that failed orders are retried, pending ones looked up, overdue ones closed.
Fairness ==
    /\ \A c \in Callers : WF_vars(CallerStep(c) \/ TakeResult(c))
    /\ \A s \in Sweepers : WF_vars(SweeperStep(s) \/ CloseOrder(s))
    /\ \A o \in Orders :
          /\ WF_vars(Age(o))
          /\ WF_vars(\E s \in Sweepers : SelectStale(s, o))
          /\ WF_vars(\E c \in Callers : ClaimOrder(c, o) /\ status[o] = "failed")

FairSpec == Spec /\ Fairness

-----------------------------------------------------------------------------
TypeOK ==
    /\ status \in [Orders -> Statuses]
    /\ aged \subseteq Orders
    /\ ledger \subseteq Orders
    /\ toss \in [Orders -> Payments]
    /\ keyActive \in BOOLEAN
    /\ at \in [Procs -> Phases]
    /\ ord \in [Procs -> Orders \cup {NoOrder}]
    /\ \A p \in Procs : ord[p] = NoOrder <=> at[p] = "idle"
    /\ faults \in 0 .. MaxFaults

\* A confirmed order is in the ledger, and what the ledger has was paid at
\* Toss: the second invariant of billing_charge.py, whatever crashes between
\* the two commits and whoever finishes the work.
ConfirmedInLedger ==
    /\ \A o \in Orders : status[o] = "confirmed" => o \in ledger
    /\ \A o \in ledger : toss[o] \in Captured

\* Until an order is PENDING_STALE_AFTER old, one attempt at a time is charging
\* it: the claim is the lock.  (Later the sweep may fail an attempt that runs.)
SoleAttemptWhileFresh ==
    \A o \in Orders \ aged : \A p, q \in Procs :
        /\ ord[p] = o /\ at[p] \in Working
        /\ ord[q] = o /\ at[q] \in Working
        => p = q

\* The stage of an order that its row, the ledger and Toss amount to.
StageOf(o) ==
    IF status[o] = "confirmed" THEN "settled"
    ELSE IF o \in ledger THEN "booked"
    ELSE IF toss[o] \in Captured THEN "captured"
    ELSE "open"

Payment == INSTANCE OrderPayment WITH stage <- [o \in Orders |-> StageOf(o)]

\* charge_org and the sweeps together pay an order the way OrderPayment says:
\* taken once, then booked, then confirmed, and never undone.
PaysInOrder == Payment!Spec

\* Money taken at Toss reaches the ledger although the process that took it
\* died or lost the answer, unless the organisation loses its billing key, the
\* payment is cancelled, or the days of grace run out and the order is closed.
CapturedIsBooked ==
    \A o \in Orders :
        toss[o] = "done" ~> \/ o \in ledger
                            \/ toss[o] = "canceled"
                            \/ status[o] = "downgraded"
                            \/ ~keyActive
=============================================================================
