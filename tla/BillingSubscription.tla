------------------------- MODULE BillingSubscription ------------------------
(***************************************************************************)
(* One organisation's subscription row and the flows that charge for it:   *)
(* a checkout (org_subscription_checkout.py), the renewal, the daily       *)
(* retries, the reconciliation and the forced downgrade of                 *)
(* billing_scheduler.py, and a reserved cancellation                       *)
(* (org_subscription_downgrade.py).                                        *)
(*                                                                         *)
(* charge_org is taken as BillingCharge describes it: its claim is one     *)
(* step, its outcome another.  The maintenance job is not locked, so its   *)
(* parts run in processes of their own.  Time counts in days.              *)
(***************************************************************************)
EXTENDS Integers, FiniteSets

CONSTANTS
    Requests,   \* checkouts of the organisation, each made once
    Crons,      \* runs of trigger_due_charges and sweep_dunning_retries
    Sweeps,     \* runs that force downgrades
    Paid,       \* the paid tiers
    FirstTier,  \* the tier the organisation starts with
    Period,     \* days of a billing period
    Grace,      \* dunning_grace_days
    MaxDay,     \* bound on time
    MaxFaults,  \* bound on flows that die and answers that are lost
    None        \* NULL

\* An order id: what it is for, the tier, and the day it is keyed by.
Orders == {"checkout", "renewal"} \X Paid \X (0 .. MaxDay)

ASSUME FlowsAreDistinct ==
    /\ Requests \cap Crons = {} /\ Sweeps \cap (Requests \cup Crons) = {}
    /\ None \notin Requests \cup Nat \cup Orders
ASSUME TiersAssumption == FirstTier \in Paid /\ "free" \notin Paid
ASSUME DaysAssumption == {Period, Grace, MaxDay, MaxFaults} \subseteq Nat

VARIABLES
    tier,      \* org_subscriptions.tier
    state,     \* org_subscriptions.status
    due,       \* current_period_end
    claim,     \* whose checkout_claimed_at is on the row
    claimOld,  \* it is older than STALE_CLAIM_WINDOW
    leaving,   \* pending_change_apply_at of a cancellation
    status,    \* billing_orders.status, "absent" before the INSERT
    created,   \* the day of created_at
    rank,      \* how many orders were created before this one
    tried,     \* orders whose updated_at is of today
    captured,  \* orders that Toss has taken the money for
    keyRank,   \* how many orders were created before the key was issued
    day,       \* today
    pc,        \* where each process is
    target,    \* the order it works on
    seen,      \* the period end trigger_due_charges has read
    recovered, \* sweeps whose downgrade_to_free has found a recovery
    faults,    \* faults so far
    overtaken, \* history: requests that lost their claim to another
    putBack    \* history: a run has put the period end back behind a period
               \* that another run had begun to charge for

row == <<tier, state, due, claim, claimOld, leaving>>
orders == <<status, created, rank, tried, captured, keyRank>>
history == <<overtaken, putBack>>
flows == <<pc, target, seen, recovered, faults, history>>
vars == <<row, orders, flows, day>>

Callers == Requests \cup Crons
Procs == Callers \cup Sweeps
IsRenewal(o) == o[1] = "renewal"
TierOf(o) == o[2]
Statuses == {"absent", "pending", "confirmed", "failed", "downgraded"}

\* The organisation's first period ends on day 0.
Init ==
    /\ tier = FirstTier /\ state = "active" /\ due = 0
    /\ claim = None /\ claimOld = FALSE /\ leaving = None
    /\ status = [o \in Orders |-> "absent"]
    /\ created = [o \in Orders |-> None]
    /\ rank = [o \in Orders |-> 0]
    /\ tried = {} /\ captured = {} /\ keyRank = 0
    /\ day = 0
    /\ pc = [p \in Procs |-> "off"]
    /\ target = [p \in Procs |-> None]
    /\ seen = [j \in Crons |-> None]
    /\ recovered = {} /\ overtaken = {} /\ putBack = FALSE
    /\ faults = 0

Existing == {o \in Orders : status[o] # "absent"}

Jumps(p, l) == pc' = [pc EXCEPT ![p] = l]
Moves(p, l, o) == Jumps(p, l) /\ target' = [target EXCEPT ![p] = o]

\* Writes a status and with it updated_at.
Writes(o, s) ==
    /\ status' = [status EXCEPT ![o] = s]
    /\ tried' = tried \cup {o}
\* WHERE status != 'confirmed'
WritesUnlessConfirmed(o, s) ==
    Writes(o, IF status[o] = "confirmed" THEN "confirmed" ELSE s)

\* checkout_claimed_at IS NULL OR checkout_claimed_at < now - STALE_CLAIM_WINDOW
Claimable == claim = None \/ claimOld

-----------------------------------------------------------------------------
(* charge_org, for the flow's target *)

\* A daily retry has the order in its session, read as failed; what others
\* write to it meanwhile it does not see.
Retries(c) == c \in Crons /\ seen[c] = None

\* Claim the order by INSERT or by failed -> pending, or leave it as it is.
StartCharge(c) ==
    LET o == target[c] IN
    /\ pc[c] = "charging"
    /\ IF status[o] \in {"absent", "failed"}
       THEN /\ Writes(o, "pending")
            /\ created' = [created EXCEPT ![o] = IF status[o] = "absent" THEN day ELSE @]
            /\ rank' = [rank EXCEPT ![o] = IF status[o] = "absent"
                                           THEN Cardinality(Existing) ELSE @]
            /\ Jumps(c, "calling")
       ELSE /\ Jumps(c, IF status[o] = "confirmed" /\ ~ Retries(c)
                         THEN "paid" ELSE "unpaid")
            /\ UNCHANGED <<status, created, rank, tried>>
    /\ UNCHANGED <<row, captured, keyRank, target, seen, recovered, faults,
                   history, day>>

\* The money is taken, now or by an earlier attempt, and the order confirmed.
ChargeSucceeds(c) ==
    /\ pc[c] = "calling"
    /\ captured' = captured \cup {target[c]}
    /\ Writes(target[c], "confirmed")
    /\ Jumps(c, "paid")
    /\ UNCHANGED <<row, created, rank, keyRank, target, seen, recovered, faults,
                   history, day>>

\* Declined, or without an active key.  A taken order id is never declined.
ChargeDeclined(c) ==
    /\ pc[c] = "calling"
    /\ target[c] \notin captured
    /\ WritesUnlessConfirmed(target[c], "failed")
    /\ Jumps(c, "raised")
    /\ UNCHANGED <<row, created, rank, captured, keyRank, target, seen,
                   recovered, faults, history, day>>

\* Toss took the money and the answer was lost, or charge_org raised before it
\* could record anything and leaves the order pending.
ChargeBreaks(c) ==
    /\ pc[c] = "calling"
    /\ faults < MaxFaults
    /\ faults' = faults + 1
    /\ \/ captured' = captured \cup {target[c]} /\ WritesUnlessConfirmed(target[c], "failed")
       \/ UNCHANGED <<captured, status, tried>>
    /\ Jumps(c, "raised")
    /\ UNCHANGED <<row, created, rank, keyRank, target, seen, recovered,
                   history, day>>

Results == {"paid", "unpaid", "raised"}

\* sweep_stale_pending_orders: a pending order older than PENDING_STALE_AFTER,
\* which a charge under way reaches only if it is a retry.  An order unknown
\* to Toss stays pending.
ReconcileStale(o) ==
    /\ status[o] = "pending"
    /\ created[o] < day \/ \A c \in Callers : ~ (pc[c] = "calling" /\ target[c] = o)
    /\ \/ o \in captured /\ Writes(o, "confirmed")
       \/ o \notin captured /\ Writes(o, "failed")
    /\ UNCHANGED <<row, created, rank, captured, keyRank, flows, day>>

-----------------------------------------------------------------------------
(* checkout_subscription *)

\* An active subscription to another tier is sent to change-tier.
Checkout(c, t) ==
    /\ pc[c] = "off"
    /\ ~ (state = "active" /\ tier \in Paid /\ tier # t)
    /\ Moves(c, "checked", <<"checkout", t, day>>)
    /\ UNCHANGED <<row, orders, seen, recovered, faults, history, day>>

\* The UPSERT that is claim and transition to pending at once; 409 without it.
ClaimRow(c) ==
    /\ pc[c] = "checked"
    /\ IF Claimable
       THEN /\ tier' = TierOf(target[c]) /\ state' = "pending"
            /\ due' = target[c][3] + Period
            /\ claim' = c /\ claimOld' = FALSE
            /\ overtaken' = overtaken \cup ({claim} \ {None})
            /\ Jumps(c, "issuing")
       ELSE Jumps(c, "done") /\ UNCHANGED <<tier, state, due, claim, claimOld, overtaken>>
    /\ UNCHANGED <<leaving, orders, target, seen, recovered, faults, putBack, day>>

\* issue_billing_key; Toss may refuse the card.
IssueKey(c) ==
    /\ pc[c] = "issuing"
    /\ \/ keyRank' = Cardinality(Existing) /\ Jumps(c, "charging")
       \/ UNCHANGED keyRank /\ Jumps(c, "releasing")
    /\ UNCHANGED <<row, status, created, rank, tried, captured, target, seen,
                   recovered, faults, history, day>>

\* A confirmed charge activates the row, if the claim is still this one.
Activate(c) ==
    /\ c \in Requests /\ pc[c] \in Results
    /\ state' = IF pc[c] = "paid" /\ claim = c THEN "active" ELSE state
    /\ Jumps(c, "releasing")
    /\ UNCHANGED <<tier, due, claim, claimOld, leaving, orders, target, seen,
                   recovered, faults, history, day>>

\* finally: WHERE checkout_claimed_at = the value this request wrote.
Release(c) ==
    /\ pc[c] = "releasing"
    /\ IF claim = c THEN claim' = None /\ claimOld' = FALSE
                    ELSE UNCHANGED <<claim, claimOld>>
    /\ Moves(c, "done", None)
    /\ UNCHANGED <<tier, state, due, leaving, orders, seen, recovered, faults,
                   history, day>>

-----------------------------------------------------------------------------
(* trigger_due_charges and sweep_dunning_retries *)

\* Mutant: the order id is made from today, not from the end of the period.
TriggerToday(j) ==
    /\ pc[j] = "off"
    /\ state = "active" /\ tier # "free" /\ due # None /\ due <= day
    /\ seen' = [seen EXCEPT ![j] = due]
    /\ Moves(j, "charging", <<"renewal", tier, day>>)
    /\ UNCHANGED <<row, orders, recovered, faults, history, day>>

TriggerDue(j) ==
    /\ pc[j] = "off"
    /\ state = "active" /\ tier # "free" /\ due # None /\ due <= day
    /\ seen' = [seen EXCEPT ![j] = due]
    /\ Moves(j, "charging", <<"renewal", tier, due>>)
    /\ UNCHANGED <<row, orders, recovered, faults, history, day>>

\* next_dunning_action = "retry": once a day in the days of grace.
RetryFailed(j, o) ==
    /\ pc[j] = "off"
    /\ status[o] = "failed"
    /\ day - created[o] \in 1 .. Grace
    /\ o \notin tried
    /\ Moves(j, "charging", o)
    /\ UNCHANGED <<row, orders, seen, recovered, faults, history, day>>

\* The order as charge_org returned it or, after an exception, as read again.
Confirmed(j) == pc[j] = "paid" \/ (pc[j] = "raised" /\ status[target[j]] = "confirmed")

\* The renewals that some run is at, or has been.
Begun ==
    {o \in Orders : IsRenewal(o) /\ (o \in Existing \/ \E j \in Crons : target[j] = o)}

\* A renewal rolls the period it has read, or the row becomes past_due; so it
\* does also if the order read again is still the session's own copy.
EndTrigger(j) ==
    /\ seen[j] # None
    /\ \/ /\ Confirmed(j)
          /\ due' = seen[j] + Period
          /\ putBack' = (putBack \/ \E o \in Begun : o[3] > seen[j])
          /\ UNCHANGED state
       \/ /\ pc[j] # "paid"
          /\ state' = "past_due"
          /\ UNCHANGED <<due, putBack>>

\* _sync_renewal_retry_outcome: the order is the session's own copy, confirmed
\* only if this run confirmed it; the row is read again, and the period it has
\* now is rolled.  A row without a period makes it raise.
EndRetry(j) ==
    /\ seen[j] = None
    /\ UNCHANGED putBack
    /\ IF ~ IsRenewal(target[j]) THEN UNCHANGED <<state, due>>
       ELSE IF pc[j] # "paid" THEN state' = "past_due" /\ UNCHANGED due
       ELSE IF due = None THEN UNCHANGED <<state, due>>
       ELSE state' = "active" /\ due' = due + Period

EndCharge(j) ==
    /\ j \in Crons /\ pc[j] \in Results
    /\ EndTrigger(j) \/ EndRetry(j)
    /\ seen' = [seen EXCEPT ![j] = None]
    /\ Moves(j, "off", None)
    /\ UNCHANGED <<tier, claim, claimOld, leaving, orders, recovered, faults,
                   overtaken, day>>

-----------------------------------------------------------------------------
(* downgrade_to_free *)

\* The SELECTs for signs that the organisation has recovered since the order.
Recovery(o) ==
    \/ \E x \in Existing : status[x] = "confirmed" /\ rank[x] > rank[o]
    \/ rank[o] < keyRank
    \/ claim # None /\ ~ claimOld

BeginDowngrade(s, o) ==
    /\ pc[s] = "off"
    /\ status[o] = "failed"
    /\ day - created[o] > Grace
    /\ recovered' = IF Recovery(o) THEN recovered \cup {s} ELSE recovered
    /\ Moves(s, "closing", o)
    /\ UNCHANGED <<row, orders, seen, faults, history, day>>

\* Mutant: with a recovery found, the order is left as it is.
EndDowngradeEarly(s) ==
    /\ pc[s] = "closing"
    /\ IF s \notin recovered /\ Claimable
       THEN /\ tier' = "free" /\ state' = "active"
            /\ WritesUnlessConfirmed(target[s], "downgraded")
       ELSE UNCHANGED <<tier, state, status, tried>>
    /\ recovered' = recovered \ {s}
    /\ Moves(s, "off", None)
    /\ UNCHANGED <<due, claim, claimOld, leaving, created, rank, captured,
                   keyRank, seen, faults, history, day>>

\* One commit: the guarded UPSERT to free and the order's last status.
EndDowngrade(s) ==
    /\ pc[s] = "closing"
    /\ IF s \notin recovered /\ Claimable
       THEN tier' = "free" /\ state' = "active"
       ELSE UNCHANGED <<tier, state>>
    /\ WritesUnlessConfirmed(target[s], "downgraded")
    /\ recovered' = recovered \ {s}
    /\ Moves(s, "off", None)
    /\ UNCHANGED <<due, claim, claimOld, leaving, created, rank, captured,
                   keyRank, seen, faults, history, day>>

-----------------------------------------------------------------------------
(* cancel_subscription, cancel_pending_downgrade and their sweep *)

CancelSubscription ==
    /\ state = "active" /\ tier \in Paid /\ due # None
    /\ leaving' = due
    /\ UNCHANGED <<tier, state, due, claim, claimOld, orders, flows, day>>

WithdrawCancellation ==
    /\ leaving # None
    /\ leaving' = None
    /\ UNCHANGED <<tier, state, due, claim, claimOld, orders, flows, day>>

\* Mutant: a status of its own, which no other flow knows.
ApplyAsCancelled ==
    /\ leaving # None /\ leaving <= day
    /\ tier' = "free" /\ state' = "cancelled" /\ due' = None /\ leaving' = None
    /\ UNCHANGED <<claim, claimOld, orders, flows, day>>

\* sweep_pending_tier_downgrades.
ApplyCancellation ==
    /\ leaving # None /\ leaving <= day
    /\ tier' = "free" /\ due' = None /\ leaving' = None
    /\ UNCHANGED <<state, claim, claimOld, orders, flows, day>>

-----------------------------------------------------------------------------
(* Time and faults *)

\* Midnight.  Flows take minutes: none is under way.
Tick ==
    /\ day < MaxDay
    /\ \A p \in Procs : pc[p] \in {"off", "done"}
    /\ day' = day + 1
    /\ tried' = {}
    /\ UNCHANGED <<row, status, created, rank, captured, keyRank, flows>>

\* A claim gets older than STALE_CLAIM_WINDOW, its request dead or slow.
AgeClaim ==
    /\ claim # None /\ ~ claimOld
    /\ claimOld' = TRUE
    /\ UNCHANGED <<tier, state, due, claim, leaving, orders, flows, day>>

\* The process is gone; what it sent to Toss may have been taken.
Die(c) ==
    /\ pc[c] \notin {"off", "done"}
    /\ faults < MaxFaults
    /\ faults' = faults + 1
    /\ \/ UNCHANGED captured
       \/ pc[c] = "calling" /\ captured' = captured \cup {target[c]}
    /\ Moves(c, IF c \in Requests THEN "done" ELSE "off", None)
    /\ seen' = [j \in Crons |-> IF j = c THEN None ELSE seen[j]]
    /\ UNCHANGED <<row, status, created, rank, tried, keyRank, recovered,
                   history, day>>

-----------------------------------------------------------------------------
ChargeStep(c) == StartCharge(c) \/ ChargeSucceeds(c) \/ ChargeDeclined(c)

RequestStep(c) ==
    \/ ClaimRow(c)
    \/ IssueKey(c)
    \/ ChargeStep(c)
    \/ Activate(c)
    \/ Release(c)

CronStep(j) == ChargeStep(j) \/ EndCharge(j)

Next ==
    \/ \E c \in Requests, t \in Paid : Checkout(c, t)
    \/ \E c \in Requests : RequestStep(c)
    \/ \E j \in Crons : TriggerDue(j) \/ CronStep(j)
    \/ \E j \in Crons, o \in Orders : RetryFailed(j, o)
    \/ \E c \in Callers : ChargeBreaks(c) \/ Die(c)
    \/ \E o \in Orders : ReconcileStale(o)
    \/ \E s \in Sweeps, o \in Orders : BeginDowngrade(s, o)
    \/ \E s \in Sweeps : EndDowngrade(s)
    \/ CancelSubscription \/ WithdrawCancellation \/ ApplyCancellation
    \/ Tick \/ AgeClaim

Spec == Init /\ [][Next]_vars

\* Days pass, requests and runs that are alive go on, and the maintenance job
\* comes back every day.
Fairness ==
    /\ WF_vars(Tick)
    /\ \A c \in Requests : WF_vars(RequestStep(c))
    /\ \A j \in Crons : WF_vars(CronStep(j))
    /\ \A s \in Sweeps : /\ WF_vars(\E o \in Orders : BeginDowngrade(s, o))
                         /\ WF_vars(EndDowngrade(s))

FairSpec == Spec /\ Fairness

-----------------------------------------------------------------------------
TypeOK ==
    /\ tier \in Paid \cup {"free"}
    /\ state \in {"active", "pending", "past_due"}
    /\ {due, leaving} \subseteq Nat \cup {None}
    /\ claim \in Requests \cup {None}
    /\ claimOld => claim # None
    /\ status \in [Orders -> Statuses]
    /\ \A o \in Orders : created[o] = None <=> status[o] = "absent"
    /\ captured \subseteq Existing
    /\ faults \in 0 .. MaxFaults
    /\ putBack \in BOOLEAN

\* The claim on the subscription row lets one checkout at a time issue a key
\* and charge; two are under way only if one was so slow that its claim was
\* taken from it.
OneCheckoutAtATime ==
    \A c, d \in Requests :
        /\ {pc[c], pc[d]} \subseteq {"issuing", "charging", "calling"} \cup Results
        /\ c # d
        => c \in overtaken \/ d \in overtaken

\* The renewals that Toss has taken the money for are a period apart.
RenewalsApart ==
    \A o, x \in captured :
        IsRenewal(o) /\ IsRenewal(x) /\ o # x
        => o[3] >= x[3] + Period \/ x[3] >= o[3] + Period

\* A period is charged for once, whatever dies between the charge and the new
\* period end and however runs overlap, as long as no run puts the period end
\* back behind a renewal that another had begun.
PeriodChargedOnce == ~ putBack => RenewalsApart

\* An order that failed does not stay failed: it is paid or tried again, and
\* after the days of grace, if they end within the bound on time, it is closed.
DunningEnds ==
    \A o \in {x \in Orders : x[3] + Grace < MaxDay} :
        status[o] = "failed" /\ created[o] + Grace < MaxDay ~> status[o] # "failed"
=============================================================================
