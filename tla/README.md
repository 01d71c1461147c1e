# Sprintable: a TLA+ verification project

Sprintable is a work-management backend (FastAPI, SQLAlchemy on PostgreSQL) in
which people and agents share a board, approve things at *gates*, and have
approved content published to external channels. This directory holds TLA+
models of the parts of `backend/app` whose correctness depends on the order in
which several processes act on the same rows, TLC runs over small instances of
them, and TLAPS proofs for instances of any size.

Modelled are publishing an approved post to a channel and the outbox that
delivers webhooks and pushes, where a wrong interleaving is visible outside the
system; the line of background jobs that the publishing tick works off; charging
an order and the subscription it pays for; the tasks agents send each other over
A2A; and the rule that one install at a time receives an agent's stream.

## 1. Inventory

Paths are relative to `src/backend/app`.

| Component | State | Operations | Interacts with | What makes it hard | Correct when |
|---|---|---|---|---|---|
| Publication command ledger (`services/publication_command.py`, `models/publication_command.py`) | `publication_commands`: status, failure kind, attempts, stop-notice mark, provider-call marker | create or get, claim, run, settle, void, recover, sweep, requeue, retry | gate, draft, publication rows, pause switch, provider | cron ticks overlap, a request may die between the provider call and its record, requests write from unlocked copies | a call that may have gone out is never repeated unasked; one run at a time; nothing is stuck; people hear of stops |
| Channel posts (`services/channel_posts.py`, `routers/channel_posts.py`, `models/channel_publication.py`) | drafts, versions, `channel_publications` | edit, submit, publish, preflight, poll, cancel, withdraw | gate, ledger, adapters | the draft is edited while a publish is under way; async containers | only an approved version goes out |
| Gates (`services/gate_service.py`, `routers/gates.py`) | `gates`: status, seal, reapproval flag | create, approve, reject, hold, reopen | ledger, recipes, drafts | edit, submission and approval race | the seal of an approved gate is what was approved |
| External publish pause (`services/external_publish_pause.py`) | `organizations.external_publish_paused_at` | pause, resume with requeue, repair in every tick | ledger | a run that read the pause commits its stop after the resume | what the pause stopped is released after it, and nothing else is |
| Stop notices (`services/recipe_publish_failure.py`) | the mark in the command row | deliver, clear | ledger, notifications | crash between stop and notice | every stop that waits for a person is announced |
| Delivery outbox (`services/delivery_dispatcher.py`, `models/delivery_job.py`) | `delivery_jobs`: status, attempts, claimed_at | enqueue, reap, claim, deliver, settle | webhooks, pushes | several instances, claim timeout, crash, outcome written by id only | every send is counted; a claim is exclusive until it times out; every job is settled |
| Background jobs (`services/background_jobs.py`) | `background_jobs`: lease, attempts | enqueue, claim, run, complete, back off | the publishing tick, video, attachment, context and retro handlers | a lease that expires under a live worker | result and completion are one commit |
| Event broker (`services/event_broker.py`) | outbox, subscriptions | publish, dispatch, subscribe | SSE, Redis, PG NOTIFY | duplicates, reordering | every committed event is delivered |
| Charging an order (`services/billing_charge.py`, `services/billing_ledger.py`, sweeps of `services/billing_scheduler.py`) | `billing_orders`, the ledger, the billing key | claim, charge, look up, book, confirm, fail, reconcile, close | Toss, the subscription's flows | the process dies or the answer is lost around a call that takes money; several callers use one order id | the money is taken once, booked before it counts, and what was taken gets booked |
| Subscription (`services/org_subscription_checkout.py`, `services/org_subscription_downgrade.py`, `services/billing_scheduler.py`) | `org_subscriptions`: tier, status, period, checkout claim, reserved change | checkout, renew, retry, downgrade, cancel | charging, people, the maintenance job | flows of minutes on one row, an unlocked job, a claim that may be stolen | a period is charged once; unpaid orders come to an end; one checkout at a time |
| SSE leases (`services/sse_lease.py`, `services/sse_lease_pg.py`, `routers/agent_gateway.py`) | leases with expiry, the take-over mark, the connections of each instance | connect, take over, acquire, hand over, beat, end | desktop installs, Redis or Postgres | check and acquire are two steps, instances see only their own streams, connections die without a release | one install receives; a take-over is heard; lost places come back |
| A2A tasks (`routers/a2a.py`, `services/a2a_task_lifecycle.py`, `services/conversation_webhook.py`) | `a2a_tasks`, delivery rows | send, poll, sweep, fail by webhook, link a gate, resume | agents, gates, webhooks | four writers of one row, most from a copy; retried sends | a message is dispatched once, a completion is not failed, no task works for ever |
| Workflow lines (`services/workflow_line_engine.py` and its kin) | step runs, approvals | advance, decide, time out, recall | gates | quorum, timeout racing a decision | one decision per step |
| Site posts, ads boost, newsletters, comment replies | commands of other content kinds | as above | ledger | money is at stake, calls cannot be repeated | as for channel posts |
| Tier changes and refunds, recipes, operator alerts, embeddings, connections, adapters, work items, auth, web client, packages | rows of their own | CRUD, schedulers, HTTP calls | - | schedulers and retries; otherwise single-row work | - |

`PROJECT.json` lists every component with its status, and under `hazards` the
places in this code that a test hardly reaches, each with the properties that
would catch it going wrong.

## 2. Modules

| Module | What it is |
|---|---|
| `PublicationCommand` | The ledger, the publish of one draft to one destination, the gate, the pause switch, the requests of people, the stages of a cron tick |
| `MCPublicationCommand` | Its instances for TLC (bounds, worker symmetry) |
| `PermittedSending` | What the ledger promises about what goes out: the abstract specification that `PublicationCommand` implements |
| `PublicationCommandProofs` | Its theorems on what goes out, who owns a row and the notices |
| `PublicationResendProofs` | Its theorems on how often a command is called for, and the refinement of `PermittedSending` |
| `DeliveryDispatcher` | The delivery outbox and the dispatcher loops of several instances |
| `MCDeliveryDispatcher` | Its instances for TLC |
| `DeliveryDispatcherProofs` | Its theorems |
| `BackgroundJobs` | The shared job line and the ticks that work it off |
| `MCBackgroundJobs` | Its instances for TLC |
| `BackgroundJobsProofs` | Its theorems |
| `OrderPayment` | What paying an order promises: the abstract specification |
| `BillingCharge` | `charge_org` and the sweeps on the same orders; implements `OrderPayment` |
| `MCBillingCharge`, `BillingChargeProofs` | Its instance for TLC, its theorems |
| `BillingSubscription` | One organisation's subscription row and the flows that charge for it |
| `MCBillingSubscription`, `BillingSubscriptionProofs` | Its instance for TLC, its theorems |
| `A2ATaskLifecycle` | A2A tasks with their senders, polls, sweep, webhooks and gate |
| `MCA2ATaskLifecycle`, `A2ATaskLifecycleProofs` | Its instance for TLC, its theorems |
| `SseReceiver` | The streams of an agent whose key allows one receiver |
| `MCSseReceiver`, `SseReceiverProofs` | Its instance for TLC, its theorems |

Each component stands alone except for the pairs that interact in the code:
`PublicationCommand` contains the gate, the pause switch and the notices it
depends on; `BillingSubscription` takes `charge_org` in the two steps (claim,
outcome) that `BillingCharge` justifies; `A2ATaskLifecycle` contains the webhook
rows and the gate that decide a task.

### PublicationCommand

One draft, one destination, one `external_publish` gate. A command's
idempotency key contains the version, so commands and publication rows are
indexed by version.

| Variable | In the code |
|---|---|
| `gate` | the gate row: status, sealed version, whether a schedule is sealed, `reapproval_required`. A version stands for the hash of its text: versions differ in text |
| `latest` | the newest version of the draft |
| `paused` | `organizations.external_publish_paused_at` |
| `cmd[v]` | the `publication_commands` row whose `approved_version` is v |
| `pub[v]` | the `channel_publications` row of v: none, claimed before its container exists, free after a failure, with container, failed with container, published |
| `job[w]` | the run a worker is in: program counter, command, its copy of the row, the version, the publication as it was read, `provider_call_marked()`, the outcome |
| `press`, `submit` | the publish request and the submission being served, each with the copy it read |
| `spent` | how much of each bound is used |
| `approved`, `slipped`, `calls`, `sentBy`, `acts`, `pressed` | history, read by no action |

How actions follow the code:

- *The draft and its gate.* `EditDraft` is `_reseal_gate_on_new_version`, which
  locks the gate. `BeginSubmit`, `CommitSubmit` and `DropSubmit` are
  `submit_channel_post_draft`, which does not: it reads the gate, passes many
  awaits, and flushes the columns that differ from what it read. Any version of
  the draft may be submitted. `ApproveGate` locks the gate, refuses one that
  needs resubmission, and creates the command of a scheduled post.
- *People's requests.* `PressPublish` and `PressCommit` are the two transactions
  of the publish endpoint, on one unlocked copy of the command. `RetryCommand`
  locks and reads again. `CancelPublication` cancels the gate's most recent
  command, here the one of the highest version that has one.
- *Tick stages.* `RequeuePausedOfUnpausedOrgs`, `SweepStuckContainers`,
  `RecoverInterrupted`, `DeliverStopNotice`: each is a transaction of its own
  that any tick may take.
- *A run.* `ClaimCommand` (SKIP LOCKED, marker cleared), `EnterRun` (pause, then
  the marker committed before anything that may write to the provider),
  `CheckBeforePublish` (of the draft's latest version), `ClaimRow`,
  `CreateContainer`, `PollContainer`, `PublishContainer`, `RecordPublished`,
  `WriteOutcome`. `RunFails` is an exception caught inside
  `_process_one_command`, `RunRaises` one that leaves it, `Crash` the end of the
  request or instance.

Two facts about sessions shape the model. Session factories use
`expire_on_commit=False`, and SQLAlchemy's UPDATE carries only the attributes
that changed, so a process that writes from an old copy leaves alone the columns
it believes unchanged: `Flush` and `FlushGate`. And rows a transaction locks FOR
UPDATE are read and written in one action.

`RecoverInterrupted` abstracts the clock: `STUCK_IN_PROGRESS_THRESHOLD` (90
minutes) is longer than a request lives, so a claim is that old only if no
worker holds the command and no request is left that read the row before.

`acts[c]` counts the acts of people on command c that changed its row; what a
person asks for is not an automatic resend, and a publish request that writes from
an old copy counts as asked for. `pressed` holds the commands whose
row a publish request rewrote from its copy: the exclusion and notice properties
except them, since two runs below show what such a rewrite does. `slipped` holds
versions a submission left sealed in a gate that was approved while the
submission was under way: `OnlyApprovedGoesOut` excepts them, and the run
`publication_silent_reseal` shows how they come about.

`PermittedSending` says what all this is for: a call carries a version somebody
vouched for before and that is no older than its command's own, and it uses up a
permit; a command has one permit from its creation and gets one with every act of a
person. Permits belong to a command and not to a version: version v may go out under
each of the commands 1 to v, and the run `publication_resent_version` shows it go out
twice with nobody asking. `PublicationCommand` implements it with
`approved \cup slipped` as the versions vouched for and `1 + acts[c]` as the permits
of c: `SendsAsPermitted` is the abstract `Spec`, checked by TLC as a property and
proved as a refinement. Claims, retries, recoveries, pauses, edits and
sweeps are stuttering steps of it; only a `PublishContainer` that may have made the
post visible is a send.

Left out: automatic publishing after a recipe's approval and the automatic
approval a recipe gives, withdrawal of drafts, X threads, other content kinds,
the tick's time budget, rejection and other gate statuses, due times and backoff
(a pending command is due at some time), the status `failed` (no code writes it
any more), rows claimed before `claimed_at` existed, two submissions or two
publish requests at once (one of each at a time).

### DeliveryDispatcher

`status`, `attempts` and `stale` are columns of `delivery_jobs` (`stale`: the
claim is older than `_CLAIM_TIMEOUT_SECONDS`). `tick[w]` is where an instance's
loop is, `phase[w][j]` how far its `_deliver_one` is with a job it claimed,
`seen[w][j]` the attempts value the claim returned. `ReapExpiredClaims`,
`ClaimBatch`, `StartChunk`, `EndBatch` are the loop; `FetchTargets`,
`SendTargets`, `DeliveryRaises`, `MarkDelivered`, `RecordFailure`,
`FailureWriteLost` are `_deliver_one`. Outcome writes are by id alone, as in the
code: a holder whose claim timed out still writes. `ClaimExpires` may strike a
live holder: targets of a job are posted one after the other with 10 seconds
each, and four chunks share one claim time, so 45 seconds can pass. The
endpoints and the bodies are external.

### BackgroundJobs

`status`, `attempts`, `resting` (`next_attempt_at` is still to come) and `old`
(`claimed_at` is past the lease) are columns of `background_jobs`; `pc[w]`,
`hold[w]`, `att[w]`, `out[w]` and `skipped[w]` are the locals of one tick's
`_process_loop`. `Enqueue` is `enqueue_background_job` under the partial unique
index, `HeadOfLine`, `SkipForeign` and `ClaimNext` are `_claim_next`,
`RunHandler`, `Finish` and `FinishRefused` one turn of the loop, `EndTick` a used
up budget or an empty line, `Die` a tick cut off with a job in its hands. What a
handler flushed is seen only through `effects`, the number of times it was
committed. `_finish` writes by id alone, so a tick whose lease ran out still
settles the job, and may even reopen it, which the index refuses when a new job
of the same key is open. `LeaseExpires` may strike a live tick: the lease is 15
minutes, a tick may last 29, and only an estimate (`worst_seconds`) bounds a
handler. `overrun` remembers the jobs this happened to; the
safety properties are about all others. A row that another tick is just looking
at is locked and passed over (`HeadOfLine`). `Foreign` are rows of a kind that
only a newer release knows.

### OrderPayment and BillingCharge

`status[o]` and `aged` are the `billing_orders` row (`aged`: `created_at` is more
than `PENDING_STALE_AFTER` ago), `ledger` the orders with a ledger entry under
their payment key, `toss[o]` what the provider knows of the order id, `keyActive`
the organisation's billing key; `at[p]` and `ord[p]` say where a process is and
with which order. A step is one commit or one call to Toss. `ClaimOrder` and
`LeaveOrder` are the claim of `charge_org`, `ReadKey`, `TossAnswers`,
`LookupDuplicate`, `RecordLedger`, `ConfirmOrder` and `RecordFailure` the rest of
it; `SelectStale` and `LookupStale` are `sweep_stale_pending_orders`, which ends in
the same confirmation or failure; `SelectOverdue` and `CloseOrder` the order's side
of a forced downgrade. `AnswerLost`, `RaiseUnrecorded`, `LookupFails` and `Die` are
the faults. Toss is external: it takes an order id once and then answers
`DUPLICATED_ORDER_ID`.

`OrderPayment` has one stage per order: open, captured, booked, settled, in this
order only. `BillingCharge` implements it under the mapping `StageOf`, which reads
the stage from Toss, the ledger and the row: `PaysInOrder` is the abstract `Spec`,
checked by TLC as a property and proved as a refinement. Two attempts on an old
order, a failure written after a confirmation or a cancelled payment are
stuttering steps or nothing at all, and never a second capture or a step back.

Left out: amounts, currencies and the texts of failures; a decline that Toss
keeps under the order id is `aborted`.

### BillingSubscription

`tier`, `state`, `due`, `claim` with `claimOld`, and `leaving` are the
`org_subscriptions` row; `status`, `created`, `rank` and `tried` the orders, by an
order id of purpose, tier and day, as the code makes it; `captured` the orders
Toss took money for; `keyRank` when the key was issued, counted in orders. Time is
counted in days, and a day ends when no flow is under way. `Checkout`, `ClaimRow`,
`IssueKey`, `Activate`, `Release` are `checkout_subscription` with its claim;
`TriggerDue`/`EndTrigger` are `trigger_due_charges`, which writes the period it
read; `RetryFailed`/`EndRetry` the daily retry, which reads the subscription again
but judges the order by its session's own copy (`Retries`: sessions run with
`expire_on_commit=False`, so an order that another process confirmed meanwhile is
still failed to it);
`BeginDowngrade`/`EndDowngrade` the SELECTs and the guarded UPSERT of
`downgrade_to_free`; `ReconcileStale` the sweep of pending orders;
`CancelSubscription`, `WithdrawCancellation` and `ApplyCancellation` a reserved
cancellation. `overtaken` is history: requests whose claim another took. `putBack` is
history too: a run that had read a period wrote its end, computed from what it read,
after a renewal of a later period had been begun. Only then may a period be charged
twice (section 3), and `PeriodChargedOnce` excepts it.

The maintenance job takes no lock. The parts of one run follow each other in the
code; here each is a process of its own, which also covers two runs at once.

Left out: billing cycles, amounts, mails, missing catalogue entries, the
reservation of a smaller paid tier, tier changes, grants, the deletion of an
organisation.

### A2ATaskLifecycle

`state`, `artifacts` and `linked` are the `a2a_tasks` row (`WAITING` stands for
`INPUT_REQUIRED` and `AUTH_REQUIRED`, which every reader treats alike), `delivery`
the rows of the message's webhooks, where `closing` and `closingAll` are
transactions that mark a row failed and are not yet committed. `BeginSend`,
`InsertTask`, `Dispatch`, `StampMetadata` are `_handle_send_message`;
`ReadTask` to `FailByPoll` are `_advance_task_state`, whose copy of the task is
WORKING from its read to its write; `SelectExpired`, `SkipEnded`, `FailBySweep` and
`SweepDies` the sweep, which fails all its candidates in one commit or none;
`BeginDeliveryFailed` and `EndDeliveryFailed` the transaction of the last failed
attempt, `PostWebhook` the rows, made one after the other in the order of the
webhooks; `BeginLink`/`EndLink` link-gate; `BeginResolve`/`EndResolve` the gate's
decision with `_resume_a2a_task_on_gate_resolve`. Any sender or poll may end
anywhere (`SenderDies`, `PollEnds`). `belated` is history: rows of a task, made within
its deadline, whose failure had been decided before them.

`FailureHasCause` is the rule of `routers/a2a.py:874-878`, that a task fails when all
deliveries failed and not when one did, for the rows there were when that was decided
(`Known`). For rows made later it is false of the code (section 3).
`CompletedNotFailed` is about one step: a task that a late parking or resume took out
of COMPLETED may be failed afterwards.

Left out: history, metadata other than the link, `agent_replied` (no decision reads
it), gates on a line or voided (their decision does not reach the resume), more
than one gate per task.

### SseReceiver

`lease` and `mark` are the store (Redis, or Postgres for the same scope), as far
as they have not lapsed; `conns` and `slot` are `_agent_connections` and
`_receiver_streams`; `signalled` the queues told to end. `Connect` picks the
instance and the install; `Check` and `CheckBlind` are the one-receiver check with
or without an answer of `members()`; `ReleaseOther`, `MarkTaken` the rest of a
take-over; `Acquire`, `AcquireBlind`, `RefuseGlobal`, `OpenStream` the limits and the
hand-over; `BeatRead`, `BeatBlind`, `BeatRefresh` the heartbeat; `EndStream`,
`ReleaseOwn`, `Leave` `_end_connection`; `Lapse`, `Stall`, `MarkLapses`, `Crash` time
and failure. An acquire grants a place when nobody else is there, and to a receiver whose
own place is there, whoever else is. `exposed` is history: streams whose place was
dropped while they held it, or that were let in blind. `revived` is history too:
receivers whose place a refresh put back beside another's, until one of them is left.
`unread` is history: streams with no heartbeat
since the mark was set.

Left out: hand-made keys, connections without a receiver id, the count of the
global lease, device streams, what is sent on a stream.

## 3. Runs

| Run | Instance | Shows |
|---|---|---|
| `publication_races` | 1 version, 2 workers, 2 retries, 2 acts of people, 1 crash, 1 pause, 1 submission | `OneRunPerCommand`, `NoAutomaticResend`, `StopIsAnnounced` |
| `publication_versions` | 2 versions (the second with async media), 1 worker, 2 submissions, 1 act, 1 crash, 1 pause | `TypeOK`, `OnlyApprovedGoesOut`, `SendsAsPermitted` (what `NoAutomaticResend` says, call by call, and that no command carries a version older than its own) |
| `publication_liveness` | 1 version with media, 2 workers, fair | `StopReachesPeople`, `NoneStuckInProgress`, `PauseReleases` |
| `delivery` | 2 jobs, 2 instances, batches of 1, 3 attempts, 1 fault, fair | `TypeOK`, `SendsArePaidFor`, `ClaimIsExclusive`, `UntroubledOnce`, `TriesWithinLimit`, `DeliveredIsFinal`, `EventuallySettled` |
| `background_jobs` | a job of a known kind, one of an unknown kind before it, one of an unknown kind with its dedup key after it; 2 ticks, 3 attempts, 2 deaths, fair | `TypeOK`, `ResultOnce`, `OneTickPerJob`, `AttemptsArePaidFor`, `SettledJobIsFinal`, `JobsSettle` |
| `billing_charge` | 1 order, 2 callers, 1 sweep, 3 faults, fair | `TypeOK`, `ConfirmedInLedger`, `SoleAttemptWhileFresh`, `PaysInOrder`, `CapturedIsBooked` |
| `billing_subscription` | 1 checkout, 1 renewal and retry job, 1 downgrade sweep, 2 tiers, periods of 2 days, 1 day of grace, 3 days, 1 fault, fair | `TypeOK`, `PeriodChargedOnce`, `DunningEnds` |
| `a2a_tasks` | 1 message sent by 2 requests, 2 polls, 1 sweep, 2 webhooks, fair | `TypeOK`, `DispatchedOnce`, `ArtifactsMatchState`, `FailureHasCause`, `CompletedNotFailed`, `WorkingEnds` |
| `sse_receiver` | 2 connections, 2 installs, 2 instances, 1 fault, fair | `TypeOK`, `OneReceiver`, `TakeoverIsHeard`, `DeadPlaceIsFreed` |
| `publication_silent_reseal` | 2 versions, 1 worker, 2 submissions | a violation of `SealIsApproved` |
| `publication_resent_version` | the instance of `publication_versions` | a violation of `VersionSentOnce` |
| `delivery_limit` | 1 job, 1 instance, 3 attempts, no fault | a violation of `GivenUpAtLimit` |

The bounds are the smallest at which the cases of the hazards happen: two
workers for overlapping ticks and instances; two acts of people, so that a
request races a retry or another request; two versions and two submissions, so
that an approval, an edit, a submission and a second approval occur around one
run; two retries, so that there is a retry and a last one; two jobs and two
instances of the outbox, so that each may hold either while the other's claim ages
(two jobs in one batch, taken in chunks, are left to the proofs); one job that
ticks can handle, with one that they cannot at the head of the line and one that
takes its key when it is settled, so that the head must be passed over and a stale
tick meets the open-job index (two jobs at work side by side share nothing else);
three faults
around one order, so that a charge whose answer was lost is retried, dies again
and is reconciled (orders share nothing but the key); days enough for a renewal, a
period's end and the end of grace (two maintenance runs at once and two checkouts at
once are left to the proofs: with two runs and no fairness the instance has 816,459
states up to symmetry and holds too, and without its exception `PeriodChargedOnce`
fails there); two webhooks, so that both fail at once; two
connections that may be of one install or two, on one instance or two. A
crash, a pause, an act and a submission are bounded by the constant `Bounds`,
faults elsewhere by `MaxFaults`, time in `BillingSubscription` by
`MaxDay`. Deadlock is not checked in the publication, subscription, task and stream
runs, where the system rests once the bounds are used up, the task is settled or
nobody connects; the outbox, the job ticks and the orders go on for ever and are
checked.

Worker symmetry is used in safety runs only; workers are otherwise
interchangeable.

Three runs expect a violation.

- `publication_silent_reseal` states what comments of the gate code say, that an
  approval is never silently overwritten (`routers/gates.py:2312`), and finds that a
  submission which read the gate before the approval writes its seal but not the
  status: the gate is then approved with another version in it.
- `publication_resent_version` states what `services/publication_command.py:255-257`
  and `346-349` say, that after a call that may have gone out the next one is a
  person's, and finds the same version sent under two commands with no act of a person.
  Version 1 is approved with a schedule and its command claimed; the draft is edited
  and version 2 approved with a schedule, so it has a command too; the old run makes
  the container of version 2; one command dies in its publish call and is stopped as
  `needs_check`; the other sends version 2. The rule is kept for each command
  (`NoAutomaticResend`, `SendsAsPermitted`) but not for a version, since a run
  publishes the draft's latest version (`services/publication_command.py:764`).
  `_sweep_stuck_container_created_publications` (`1453-1502`) leads to the same: an
  older command, claimed before an edit or retried after it, carries version 2 and
  dies with the container made and the call under way; the sweep finds no command of
  version 2, makes one, and that one publishes.
- `delivery_limit` states what the comment at `services/delivery_dispatcher.py:132`
  and the docstring at `tests/test_2460_delivery_outbox.py:237` say, that a job fails
  for good at `_MAX_ATTEMPTS` claims, and finds it given up one claim earlier: the
  claim returns the count after its increment and `_deliver_one` adds one more.

The models show more behaviours that disagree with a comment, a docstring or a
test, or that a maintainer may not expect. They have no run of their own.

Publishing and delivery:

- A command does not keep to its version: a dead letter retried after an edit and
  a new approval publishes the newer version under the older command
  (`services/publication_command.py:764`; `models/publication_command.py:7-8` calls
  the command a snapshot).
- A schedule-only resubmission voids the command; the version, and so the
  idempotency key, is the same, and the next approval is given the voided row
  (`services/channel_posts.py:1561`; `services/publication_command.py:608` expects a
  new command).
- A publish request that read the row before the run stopped as `needs_check`
  requeues it (`routers/channel_posts.py:2525`;
  `services/publication_command.py:347-348` names the retry as the only way).
- A publish request whose preflight meets a pause or a lost connection writes
  `blocked` on the row of a command whose adapter call is under way.
- Nothing compares dead claims with `_MAX_ATTEMPTS`: a job whose claims keep dying is
  claimed again and again, although the docstring of `_reap_expired_claims` says that
  it converges at `_MAX_ATTEMPTS`. `TriesWithinLimit` excepts jobs whose claim timed
  out for this reason.
- The holder of an expired claim writes its outcome over the new holder's, in the
  outbox and in the job line. `UntroubledOnce`, `DeliveredIsFinal`, `ResultOnce` and
  `SettledJobIsFinal` except such jobs and say that nobody else does it.

Billing:

- A cancelled subscription is renewed once more: `trigger_due_charges` does not
  look at the reserved change, and the maintenance job runs it before
  `sweep_pending_tier_downgrades` (`routers/cron.py:1058-1067`;
  `services/org_subscription_downgrade.py:113-114` promises that the next renewal
  stops). A checkout does not clear a reserved cancellation either.
- A past-due organisation whose checkout of a bigger tier is declined has that tier
  on its row; when the old renewal is retried with success, the row becomes active
  with the bigger tier.
- A renewal confirmed by reconciliation or by another run leaves the row past due:
  only the flow that charged rolls the period, and a daily retry that finds the order
  confirmed by somebody else still takes it for failed
  (`services/billing_scheduler.py:314-316`).
- An answer `DONE` without a payment key makes the sweep write a paid order failed
  (`services/billing_scheduler.py:390-401`), until a retry is shown the key.
- A whole checkout between the SELECTs and the UPSERT of `downgrade_to_free` is
  overwritten with `free`, since by then its claim is released.
- The sweep of pending orders goes by `created_at`, so it may fail a retry that is
  under way (`services/billing_scheduler.py:353`); `SoleAttemptWhileFresh` is about
  fresh orders for this reason, and Toss's idempotence is what prevents a second
  charge.
- Money taken for an order that was then closed as `downgraded`, or whose
  organisation lost its key, is not booked by these flows: `CapturedIsBooked` excepts
  both.
- Two maintenance runs at once may both roll the period after one retry. And a run
  that was overtaken writes the period end it computed before
  (`services/billing_scheduler.py:602`): when another run has meanwhile rolled the
  period and charged the next renewal, and a checkout has changed the tier, the row
  asks once more for a period that is paid, and the next run charges it again under
  the other tier, since the tier is part of the order id. `putBack` marks this, and
  `SubscriptionRunsApart` shows that it needs overlapping runs.

A2A:

- A poll that read the gate as pending parks the task after the gate was decided:
  nothing resumes it and the sweep looks at WORKING tasks only. The same write may
  replace COMPLETED or FAILED, and a late COMPLETED may replace FAILED (its artifacts
  then are the reply alone: `ArtifactsMatchState`).
- A task may be failed for one webhook while another has the message:
  `routers/a2a.py:874-878` and `services/conversation_webhook.py:432-434` say that only
  the failure of all deliveries fails a task, but the code judges the rows there are.
  The row of the first webhook may fail for good, and with it the task, before the row
  of the second exists; the second is then accepted. `FailureHasCause` excepts such
  rows (`belated`).
- Two webhooks that fail at once do not see each other's failure; the deadline is
  what ends the task.
- COMPLETED may become WAITING or WORKING by a late parking or resume, and then
  FAILED.
- The metadata a sender stamps at its end drops a gate linked in between.

Streams:

- A place belongs to the install and not to the connection: when an install has
  connected again on another instance, the end of its old stream releases the place
  of the new one, and another install may get in until the next heartbeat.
- A refresh is an upsert: it brings back a place that had lapsed or that a
  take-over had released before it set its mark. `OneReceiver` therefore excepts
  streams whose place was lost (`exposed`).
- An acquire grants the caller's own place whoever else has one
  (`services/sse_lease.py:50-54`, `services/sse_lease_pg.py:55-59`). When a refresh has
  put the place of a taken-over install back beside the taker's, that install may
  leave, connect again on another instance while `members()` gives no answer, and
  receive beside the taker; the take-over mark ends its stream at its next heartbeat
  (`TakeoverIsHeard`). `OneReceiver` excepts a put-back place (`revived`).

Every property of a passing run has a mutant in `PROJECT.json`: a plausible bug
(a dropped guard, a wrong status, a forgotten notice) under which TLC finds the
property violated.

## 4. Fairness

- `PublicationCommand`: a scheduler starts a tick every minute and every tick
  runs all its stages, hence weak fairness of the repair requeue, the recovery
  and the notice of each command; a run or request that has started is driven by
  the event loop until it ends or dies, hence weak fairness of `Run(w)` and of
  the end of a publish request. Nothing is assumed of people, crashes, claims or
  submissions.
- `DeliveryDispatcher`: each instance's loop keeps running, each coroutine of a
  chunk is scheduled, and time passes (`ClaimExpires`). Faults are bounded, as no
  retry scheme settles a job whose every delivery crashes.
- `BackgroundJobs`: ticks start every minute and end, a handler that runs ends,
  time passes, and a tick that finds a job due again and again has, again and
  again, the budget for it (strong fairness of each tick's claim of each job, as
  a tick may end for lack of budget any number of times; a tick whose whole
  budget went to publishing leaves the rest to a later one). Deaths are bounded.
- `BillingCharge`: a process that is alive takes its next step, orders get old, and
  the maintenance job comes back for ever, so that pending orders are looked up and
  failed ones retried.
- `BillingSubscription`: days pass, flows that are alive go on, the downgrade sweep
  runs. Nothing is assumed of people, of retries or of the reconciliation.
- `A2ATaskLifecycle`: the deadline passes and the sweep runs every few minutes. A
  sweep may die before its one commit, but not every one of them does (strong
  fairness of that commit). Nobody has to poll, answer or decide.
- `SseReceiver`: an instance that is up goes on with what it has begun, a stream
  ends some day (its lifespan), leases and marks lapse. Nobody has to connect.

## 5. Theorems

All are proved for every value of the constants that satisfies the named
assumptions (positive limits, finite sets of jobs, workers and instances, versions
numbered from 1).

| Theorem | Says |
|---|---|
| `LedgerTypeCorrect` | `Spec => []TypeOK` of the ledger |
| `NothingUnapprovedGoesOut` | `Spec => []OnlyApprovedGoesOut` |
| `ClaimExclusion` (ledger) | `Spec => []OneRunPerCommand` |
| `StopsAreAnnounced` | `Spec => []StopIsAnnounced` |
| `NoCallUnasked` | `Spec => []NoAutomaticResend` |
| `LedgerKeepsPromise` | `Spec => SendsAsPermitted`: `PublicationCommand` implements `PermittedSending` |
| `TypeCorrect` | `Spec => []TypeOK` of the outbox |
| `ClaimExclusion` (outbox) | `Spec => []ClaimIsExclusive` |
| `SendsPaid` | `Spec => []SendsArePaidFor` |
| `UntroubledDelivery` | `Spec => []UntroubledOnce` |
| `DeliveredStays` | `Spec => DeliveredIsFinal` |
| `TriesBounded` | `Spec => []TriesWithinLimit` |
| `JobTypeCorrect` | `Spec => []TypeOK` of the job line |
| `JobResultOnce` | `Spec => []ResultOnce` |
| `JobHeldOnce` | `Spec => []OneTickPerJob` |
| `JobAttemptsBounded` | `Spec => []AttemptsArePaidFor` |
| `JobStaysSettled` | `Spec => SettledJobIsFinal` |
| `ChargeTypes` | `Spec => []TypeOK` of charging |
| `ChargeLedger` | `Spec => []ConfirmedInLedger` |
| `ChargeSoleAttempt` | `Spec => []SoleAttemptWhileFresh` |
| `ChargeRefinesPayment` | `Spec => PaysInOrder`: `BillingCharge` implements `OrderPayment` |
| `SubscriptionTypes` | `Spec => []TypeOK` of the subscription |
| `SubscriptionOneCheckout` | `Spec => []OneCheckoutAtATime` (in no run: it needs two checkouts) |
| `SubscriptionPeriodOnce` | `Spec => []PeriodChargedOnce` |
| `SubscriptionRunsApart` | `Spec /\ []OneRunAtATime => []RenewalsApart`: while runs do not overlap, no exception is needed |
| `A2ATypes` | `Spec => []TypeOK` of the tasks |
| `A2ADispatchedOnce` | `Spec => []DispatchedOnce` |
| `A2AArtifacts` | `Spec => []ArtifactsMatchState` |
| `A2AFailureHasCause` | `Spec => []FailureHasCause` |
| `A2ACompletedNotFailed` | `Spec => CompletedNotFailed` |
| `SseTypes` | `Spec => []TypeOK` of the streams |
| `SseOneReceiver` | `Spec => []OneReceiver` |
| `SseTakeoverIsHeard` | `Spec => []TakeoverIsHeard` |

The arguments:

- *What goes out.* `OnlyApprovedGoesOut` is not inductive: a run checks the seal
  long before it calls. `ApprovedInv` adds that a gate in the table has a version
  sealed and a gate once read by a submission stays (`GateIsSealed`), that a run
  knows its command and version (`JobsAreNamed`), that the seal of an approved
  gate is vouched for (`SealIsVouched`), and that a run past its checks carries a
  vouched version (`CarriesVouched`). Edits and submissions change the gate but
  never what a run carries. Type correctness needs `GateIsSealed` too, since an
  approval puts the seal in the history, so it is a corollary of the same
  invariant.
- *Who owns a row.* `OwnerInv`: unless a publish request rewrote the row, a
  command in a worker's hand is in progress, the worker's copy equals the row,
  nobody else has it, and the notice column fits the status. That the copy equals
  the row is what makes `Flush` write the outcome as intended.
- *How often.* `NoAutomaticResend` compares calls made with acts of people, and says
  nothing of the calls still to come. `ResendInv` is a budget: the calls of a command,
  plus the runs in hand that may still make one (`MayCall`), plus one if the code may
  hand the row out again with nobody asking (`Waits`: not created, pending, stopped by
  a pause, or in progress with no marker and no run that could still set it), never
  exceed `1 + acts`. A claim turns the waiting row into a run, the call turns the run
  into a call, an act of a person pays one in. The marker is what keeps this true over
  a crash: a marked row is recovered as `needs_check`, which does not wait, so the
  invariant also says that a run past its entry, or one that has posted, has marked
  its copy (`RunsAreMarked`). Two runs of one command, which a rewritten row allows,
  are counted as two.
- *The promise kept.* The refinement needs both, and `NoOlderInv`: at a call the
  version is vouched for by `ApprovedInv`, the budget leaves a permit for its
  command, as the caller itself is among `MayCall`, and the version is no older than
  the command, since rows are made for versions that exist, the latest version only
  grows, and a run carries the latest. Every other action leaves calls alone and
  adds at most one vouched version or one act.
- *The outbox claim.* `ExclusiveInv`: a job held by an instance and not timed
  out is claimed in the table, so no other claim can select it.
- *Sends.* `PaidFor`: sends plus the instances with a delivery still to make
  never exceed attempts; a claim pays one in advance.
- *Delivered jobs.* By `ExclusiveInv` the writer of an outcome holds a claimed row,
  unless its claim has timed out; so only then can it find the row delivered.
- *Tries.* `TriesInv`: what a holder has read equals the row's count unless a claim
  timed out, and is never above it; a job that waits has a try left.
- *Untroubled jobs.* `CleanInv` follows one job through its phases on top of
  `ExclusiveInv`.
- *The job line.* `JobInv`, for every job that no live tick overran: a held job
  is in progress under a lease that still runs and with the attempt number its
  holder read (so `Due` cannot offer it to anybody else), its writes are
  committed just when it is completed, and a job that waits has an attempt or a
  lost lease left to spend. The four theorems are read off from it.

- *Charging.* `HoldsPayment`: who is about to book a payment has seen it at Toss,
  and who is about to confirm has booked it; this carries `ConfirmedInLedger` over
  the steps between. `FreshOwned`: a fresh order is worked on by one caller only and
  is pending meanwhile, so no second claim, sweep or closing can select it. The
  refinement follows action by action: on the stage of an order only the capture,
  the ledger entry and the confirmation are steps of `OrderPayment`, each from the
  stage before it by `HoldsPayment`, and all else stutters, since a confirmed order
  is left alone by every failure.
- *The checkout's claim.* `ClaimHeld`: a checkout past its claim has it on the row
  or was overtaken; no downgrade, renewal or release of another request removes it.
  Two checkouts at once cannot both have it. `AtWork` (whoever works has an order,
  inserted before Toss is called) carries the types.
- *Periods.* The renewals charged are among those *begun* (an order exists or a run is
  at it), which is all a crash leaves behind. `RowAhead`: the row's period end is a
  period past every renewal begun, or asks for the last of them once more, with the
  tier it was begun with; hence a new one is a period away from all others
  (`BegunApart`). A checkout keeps this, as it sets the end a period from today and no
  renewal is begun before its day (`NotAhead`); a run that finishes keeps it unless it
  puts the end back. If runs do not overlap, what a run has read is the last period
  begun (`RunLeads`), so it never does.
- *A2A.* What a request has read is all it knows when it writes. A reply and a cause
  of failure stay once they are there: a row that failed never changes, and one made
  after the decision is belated or late. So `CopiesFit`, `BatchIsLate` and
  `DeliveriesFit` make the writes from old copies safe, and a failed task has a cause
  (`Justified`); `SendsFit` says that the one request dispatching a
  task inserted it. Only the compare-and-set writes FAILED, hence
  `A2ACompletedNotFailed`.
- *One receiver.* `PlacesHeld`: a stream that was not exposed has its receiver in
  the lease. `PlacesApart`: of two receivers in the lease one was put back by a
  refresh. An acquire with limit 1 adds a receiver only when nobody else is there,
  and an acquire of one's own place adds nobody; only a refresh adds a receiver
  beside another, and it is then `revived`. So two open streams of different
  receivers are both unexposed only with a put-back place. `SlotsFit` ties a slot to
  a live stream of its own instance and receiver, which the take-over argument
  needs.

Every invariant, action property and refinement that a passing run checks is proved.
Only model-checked are the liveness properties, as fairness and ENABLED are outside
the prover: `StopReachesPeople`, `NoneStuckInProgress`, `PauseReleases`,
`EventuallySettled`, `JobsSettle`, `CapturedIsBooked`, `DunningEnds`, `WorkingEnds`,
`DeadPlaceIsFreed`.

## 6. Plan

Done: publishing, the outbox, the job line, charging and the subscription, A2A
tasks, the one-receiver rule, and the proofs of what their runs check of safety. Next, in order:

1. Abstract specifications of the other components with their refinements: a
   background job as work whose result is committed once, a receiver's place as a
   lock that is taken over.
2. A module of the gate state machine (reject, hold, reopen, quorum), with
   several submissions at once, composed with `PublicationCommand`.
3. Tier changes on top of `BillingSubscription`; `EventBroker` and its outbox,
   `OperatorAlerts`, `EmbeddingBacklog`.
4. The other content kinds of the ledger: ads boost and newsletters (calls that
   spend money), comment replies, site posts; automatic publish of recipes.
5. The workflow line engine.

## 7. Not modelled

`backend/app` and its surroundings are some 246,000 lines, most of them request
handlers that read or write single rows in one transaction, views, formatting,
provider adapters, a web client and client packages. They have no state shared
between steps for a model checker to explore; a model of them would repeat the
code. The share of lines the modules stand for is therefore small, and is meant to
be the part in which order matters. HTTP adapters are present through their possible
answers. `PROJECT.json` gives the reason for each component that is left out.
