------------------------- MODULE DeliveryDispatcher -------------------------
(***************************************************************************)
(* The delivery outbox of backend/app/services/delivery_dispatcher.py.     *)
(*                                                                         *)
(* A request inserts a row of delivery_jobs in its own transaction.  Every *)
(* backend instance runs delivery_dispatcher_loop: reap expired claims,    *)
(* claim a batch (pending -> claimed and attempts + 1 in one UPDATE),      *)
(* deliver it chunk by chunk outside any transaction, and write each row's *)
(* outcome in a short transaction of its own.  Webhook POSTs and pushes    *)
(* are external; a claim is only a row value, so an instance that stalls   *)
(* for longer than _CLAIM_TIMEOUT_SECONDS loses its claim and does not     *)
(* know it.                                                                *)
(***************************************************************************)
EXTENDS Naturals, FiniteSets

CONSTANTS
    Jobs,          \* rows of delivery_jobs, numbered in created_at order
    Workers,       \* backend instances, each running one dispatcher loop
    MaxAttempts,   \* _MAX_ATTEMPTS
    BatchSize,     \* _BATCH_SIZE
    Concurrency,   \* _CONCURRENCY
    MaxFaults      \* bound on crashes and lost outcome writes

ASSUME JobsAssumption == Jobs \subseteq Nat /\ IsFiniteSet(Jobs)
ASSUME WorkersAssumption == IsFiniteSet(Workers)
ASSUME LimitsAssumption ==
    /\ MaxAttempts \in Nat \ {0}
    /\ BatchSize \in Nat \ {0}
    /\ Concurrency \in Nat \ {0}
    /\ MaxFaults \in Nat

VARIABLES
    status,     \* delivery_jobs.status, "absent" before the INSERT
    attempts,   \* delivery_jobs.attempts
    stale,      \* claims whose claimed_at is older than _CLAIM_TIMEOUT_SECONDS
    tick,       \* where each instance's loop is
    phase,      \* phase[w][j]: how far instance w is with the job it claimed
    seen,       \* seen[w][j]: the attempts value w's claim returned
    faults,     \* crashes and lost outcome writes so far
    sends,      \* history: external deliveries made for each job
    timedOut,   \* history: jobs one of whose claims timed out
    troubled    \* history: jobs that met a timeout, a crash or an error

vars == <<status, attempts, stale, tick, phase, seen, faults, sends,
          timedOut, troubled>>

Statuses == {"absent", "pending", "claimed", "delivered", "failed"}
Ticks    == {"reap", "claim", "deliver"}
Phases   == {"none", "queued", "fetch", "send", "sent", "error"}

\* A phase of a claimed job in which its external delivery is still to come.
Unsent == {"queued", "fetch", "send"}
\* The phases of a chunk in flight under asyncio.gather.
InFlight == {"fetch", "send", "sent", "error"}

\* Mutant: the claim does not look at the status.
PendingOrClaimed == {j \in Jobs : status[j] \in {"pending", "claimed"}}

Pending == {j \in Jobs : status[j] = "pending"}

Queued(w) == {j \in Jobs : phase[w][j] = "queued"}
Chunk(w)  == {j \in Jobs : phase[w][j] \in InFlight}
Holds(w, j) == phase[w][j] # "none"

\* S is a choice of the first n rows of T (all of T if it is smaller).
FirstOf(S, T, n) ==
    /\ S \subseteq T
    /\ IF Cardinality(T) <= n THEN S = T ELSE Cardinality(S) = n
    /\ \A x \in S, y \in T \ S : x < y

Init ==
    /\ status = [j \in Jobs |-> "absent"]
    /\ attempts = [j \in Jobs |-> 0]
    /\ stale = {}
    /\ tick = [w \in Workers |-> "reap"]
    /\ phase = [w \in Workers |-> [j \in Jobs |-> "none"]]
    /\ seen = [w \in Workers |-> [j \in Jobs |-> 0]]
    /\ faults = 0
    /\ sends = [j \in Jobs |-> 0]
    /\ timedOut = {}
    /\ troubled = {}

history == <<sends, timedOut, troubled>>

-----------------------------------------------------------------------------
\* A request's transaction commits with a new row in it.
Enqueue(j) ==
    /\ status[j] = "absent"
    /\ \A i \in Jobs : i < j => status[i] # "absent"
    /\ status' = [status EXCEPT ![j] = "pending"]
    /\ UNCHANGED <<attempts, stale, tick, phase, seen, faults, history>>

\* _CLAIM_TIMEOUT_SECONDS pass after a claim that is still a claim.
ClaimExpires(j) ==
    /\ status[j] = "claimed"
    /\ j \notin stale
    /\ stale' = stale \cup {j}
    /\ timedOut' = timedOut \cup {j}
    /\ troubled' = troubled \cup {j}
    /\ UNCHANGED <<status, attempts, tick, phase, seen, faults, sends>>

\* Mutant: the comparison with the timeout is the wrong way round.
ReapFreshClaims(w) ==
    /\ tick[w] = "reap"
    /\ status' = [j \in Jobs |-> IF status[j] = "claimed" /\ j \notin stale
                                 THEN "pending" ELSE status[j]]
    /\ tick' = [tick EXCEPT ![w] = "claim"]
    /\ UNCHANGED <<attempts, stale, phase, seen, faults, history>>

\* _reap_expired_claims, the first statement of a tick.
ReapExpiredClaims(w) ==
    /\ tick[w] = "reap"
    /\ status' = [j \in Jobs |-> IF status[j] = "claimed" /\ j \in stale
                                 THEN "pending" ELSE status[j]]
    /\ stale' = {}
    /\ tick' = [tick EXCEPT ![w] = "claim"]
    /\ UNCHANGED <<attempts, phase, seen, faults, history>>

\* _claim_batch: one UPDATE over the oldest pending rows nobody has locked;
\* it takes effect when it locks them, as SKIP LOCKED hides them from then on.
ClaimBatch(w) ==
    /\ tick[w] = "claim"
    /\ \E S \in SUBSET Pending :
        /\ FirstOf(S, Pending, BatchSize)
        /\ status' = [j \in Jobs |-> IF j \in S THEN "claimed" ELSE status[j]]
        /\ attempts' = [j \in Jobs |-> IF j \in S THEN attempts[j] + 1
                                       ELSE attempts[j]]
        /\ stale' = stale \ S
        /\ phase' = [phase EXCEPT ![w] =
                        [j \in Jobs |-> IF j \in S THEN "queued" ELSE @[j]]]
        /\ seen' = [seen EXCEPT ![w] =
                        [j \in Jobs |-> IF j \in S THEN attempts[j] + 1
                                        ELSE @[j]]]
        /\ tick' = [tick EXCEPT ![w] = IF S = {} THEN "reap" ELSE "deliver"]
    /\ UNCHANGED <<faults, history>>

\* The next slice of the batch enters asyncio.gather; RETURNING has no order.
StartChunk(w) ==
    /\ tick[w] = "deliver"
    /\ Chunk(w) = {} /\ Queued(w) # {}
    /\ \E S \in SUBSET Queued(w) :
        /\ IF Cardinality(Queued(w)) <= Concurrency THEN S = Queued(w)
           ELSE Cardinality(S) = Concurrency
        /\ phase' = [phase EXCEPT ![w] =
                        [j \in Jobs |-> IF j \in S THEN "fetch" ELSE @[j]]]
    /\ UNCHANGED <<status, attempts, stale, tick, seen, faults, history>>

\* The loop goes round once every chunk of the batch is done.
EndBatch(w) ==
    /\ tick[w] = "deliver"
    /\ Chunk(w) = {} /\ Queued(w) = {}
    /\ tick' = [tick EXCEPT ![w] = "reap"]
    /\ UNCHANGED <<status, attempts, stale, phase, seen, faults, history>>

-----------------------------------------------------------------------------
(* _deliver_one, stage by stage *)

\* The targets are read in a short session, which is committed.
FetchTargets(w, j) ==
    /\ phase[w][j] = "fetch"
    /\ phase' = [phase EXCEPT ![w][j] = "send"]
    /\ UNCHANGED <<status, attempts, stale, tick, seen, faults, history>>

\* POSTs and pushes with no session open; a target's failure is swallowed.
SendTargets(w, j) ==
    /\ phase[w][j] = "send"
    /\ phase' = [phase EXCEPT ![w][j] = "sent"]
    /\ sends' = [sends EXCEPT ![j] = @ + 1]
    /\ UNCHANGED <<status, attempts, stale, tick, seen, faults, timedOut,
                   troubled>>

\* Mutant: a failed delivery is tried again on the spot, uncounted.
RetryOnTheSpot(w, j) ==
    /\ phase[w][j] \in {"fetch", "sent"}
    /\ phase' = [phase EXCEPT ![w][j] = "fetch"]
    /\ UNCHANGED <<status, attempts, stale, tick, seen, faults, history>>

\* Anything that raises: the fetch, the dead-token clean-up after the send,
\* or the write of the delivered row.
DeliveryRaises(w, j) ==
    /\ phase[w][j] \in {"fetch", "sent"}
    /\ phase' = [phase EXCEPT ![w][j] = "error"]
    /\ troubled' = troubled \cup {j}
    /\ UNCHANGED <<status, attempts, stale, tick, seen, faults, sends,
                   timedOut>>

\* _deliver_one returns: the instance forgets the job.
LetGo(w, j) ==
    /\ phase' = [phase EXCEPT ![w][j] = "none"]
    /\ seen' = [seen EXCEPT ![w][j] = 0]

\* Mutant: a status the table does not know.
MarkSent(w, j) ==
    /\ phase[w][j] = "sent"
    /\ status' = [status EXCEPT ![j] = "sent"]
    /\ stale' = stale \ {j}
    /\ LetGo(w, j)
    /\ UNCHANGED <<attempts, tick, faults, history>>

\* UPDATE ... WHERE id = job_id: neither status nor claim is looked at.
MarkDelivered(w, j) ==
    /\ phase[w][j] = "sent"
    /\ status' = [status EXCEPT ![j] = "delivered"]
    /\ stale' = stale \ {j}
    /\ LetGo(w, j)
    /\ UNCHANGED <<attempts, tick, faults, history>>

\* The attempt number _deliver_one counts with: the claim's value plus one.
LocalAttempts(w, j) == seen[w][j] + 1

\* Mutant: a failure never looks at the limit.
RecordFailureAgain(w, j) ==
    /\ phase[w][j] = "error"
    /\ status' = [status EXCEPT ![j] = "pending"]
    /\ stale' = stale \ {j}
    /\ LetGo(w, j)
    /\ UNCHANGED <<attempts, tick, faults, history>>

\* The except branch: back to pending, or failed once the attempts run out.
RecordFailure(w, j) ==
    /\ phase[w][j] = "error"
    /\ status' = [status EXCEPT ![j] =
                     IF LocalAttempts(w, j) < MaxAttempts THEN "pending"
                     ELSE "failed"]
    /\ stale' = stale \ {j}
    /\ LetGo(w, j)
    /\ UNCHANGED <<attempts, tick, faults, history>>

\* The write of the failure fails too: logged, the row stays as it was.
FailureWriteLost(w, j) ==
    /\ phase[w][j] = "error"
    /\ faults < MaxFaults
    /\ faults' = faults + 1
    /\ LetGo(w, j)
    /\ UNCHANGED <<status, attempts, stale, tick, history>>

\* The instance dies or is redeployed, or a statement of the tick raises: the
\* loop starts afresh and knows nothing of what was claimed.
Crash(w) ==
    /\ faults < MaxFaults
    /\ tick[w] # "reap"
    /\ faults' = faults + 1
    /\ tick' = [tick EXCEPT ![w] = "reap"]
    /\ phase' = [phase EXCEPT ![w] = [j \in Jobs |-> "none"]]
    /\ seen' = [seen EXCEPT ![w] = [j \in Jobs |-> 0]]
    /\ troubled' = troubled \cup {j \in Jobs : Holds(w, j)}
    /\ UNCHANGED <<status, attempts, stale, sends, timedOut>>

-----------------------------------------------------------------------------
DeliverOne(w, j) ==
    \/ FetchTargets(w, j)
    \/ SendTargets(w, j)
    \/ DeliveryRaises(w, j)
    \/ MarkDelivered(w, j)
    \/ RecordFailure(w, j)
    \/ FailureWriteLost(w, j)

DispatcherLoop(w) ==
    \/ ReapExpiredClaims(w)
    \/ ClaimBatch(w)
    \/ StartChunk(w)
    \/ EndBatch(w)
    \/ Crash(w)

Next ==
    \/ \E j \in Jobs : Enqueue(j)
    \/ \E j \in Jobs : ClaimExpires(j)
    \/ \E w \in Workers : DispatcherLoop(w)
    \/ \E w \in Workers, j \in Jobs : DeliverOne(w, j)

Spec == Init /\ [][Next]_vars

\* Each instance's loop keeps running and each coroutine of a chunk is
\* scheduled; time passes, so an abandoned claim grows old.
Fairness ==
    /\ \A w \in Workers : WF_vars(ReapExpiredClaims(w) \/ ClaimBatch(w)
                                  \/ StartChunk(w) \/ EndBatch(w))
    /\ \A w \in Workers, j \in Jobs : WF_vars(DeliverOne(w, j))
    /\ \A j \in Jobs : WF_vars(ClaimExpires(j))

FairSpec == Spec /\ Fairness

-----------------------------------------------------------------------------
TypeOK ==
    /\ status \in [Jobs -> Statuses]
    /\ attempts \in [Jobs -> Nat]
    /\ stale \subseteq Jobs
    /\ tick \in [Workers -> Ticks]
    /\ phase \in [Workers -> [Jobs -> Phases]]
    /\ seen \in [Workers -> [Jobs -> Nat]]
    /\ faults \in 0..MaxFaults
    /\ sends \in [Jobs -> Nat]
    /\ timedOut \subseteq Jobs
    /\ troubled \subseteq Jobs

\* Instances that claimed j and have its external delivery still to make.
UnsentHolders(j) == {w \in Workers : phase[w][j] \in Unsent}

(* The outbox pays one attempt for every external delivery: whatever is     *)
(* reaped, claimed again or crashed, a job is never sent more often than    *)
(* _claim_batch has counted it.                                             *)
SendsArePaidFor == \A j \in Jobs : sends[j] <= attempts[j]

(* The claim is exclusive (the repair of the triple deliveries of story     *)
(* 2761): two instances work on one job only after a claim on it has        *)
(* outlived _CLAIM_TIMEOUT_SECONDS.                                         *)
ClaimIsExclusive ==
    \A j \in Jobs \ timedOut : \A v, w \in Workers :
        Holds(v, j) /\ Holds(w, j) => v = w

(* A job that met no timeout, crash or error is delivered at most once, and *)
(* is never handed out again after it has been.                             *)
UntroubledOnce ==
    \A j \in Jobs \ troubled :
        /\ sends[j] <= 1
        /\ status[j] = "delivered" => \A w \in Workers : ~Holds(w, j)

(* The limit on retries holds whatever fails: a job none of whose claims   *)
(* timed out is claimed at most _MAX_ATTEMPTS times, also when the write of *)
(* a failure is lost or the instance that recorded it dies.                 *)
TriesWithinLimit == \A j \in Jobs \ timedOut : attempts[j] <= MaxAttempts

(* "claim에서 이미 +1 커밋됨 — 로컬에서도 동일 값 반영" (_deliver_one): the    *)
(* number it compares with _MAX_ATTEMPTS is the number of claims, so a job  *)
(* is given up only after that many.                                        *)
GivenUpAtLimit ==
    \A j \in Jobs \ timedOut : status[j] = "failed" => attempts[j] >= MaxAttempts

\* A step that takes a job back from delivered takes one that timed out.
KeepsDelivered ==
    \A j \in Jobs : status[j] = "delivered" /\ status'[j] # "delivered"
                       => j \in timedOut

(* A delivered job stays delivered: only an instance whose claim had timed  *)
(* out, and which fails after the new holder succeeded, can put the row     *)
(* back in the queue (the outcome writes look at the id alone).             *)
DeliveredIsFinal == [][KeepsDelivered]_vars

(* Every queued job is settled in the end: a claim abandoned by a crash is  *)
(* reaped and the retries run out, so no job stays claimed or pending.      *)
EventuallySettled ==
    \A j \in Jobs :
        status[j] = "pending" ~> status[j] \in {"delivered", "failed"}
=============================================================================
