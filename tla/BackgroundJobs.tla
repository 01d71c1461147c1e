--------------------------- MODULE BackgroundJobs ---------------------------
(***************************************************************************)
(* The shared job line of backend/app/services/background_jobs.py.         *)
(*                                                                         *)
(* A request inserts a row of background_jobs and answers.  After the      *)
(* publication commands, a cron tick spends what is left of its time       *)
(* budget on the line: claim the oldest due job in a commit of its own,    *)
(* run its handler, which only flushes, and commit the handler's writes    *)
(* and the job's outcome together.  Ticks overlap and can die; a job left  *)
(* in_progress is due again LEASE_SECONDS after its claim.                 *)
(***************************************************************************)
EXTENDS Naturals, FiniteSets

CONSTANTS
    Jobs,         \* rows, numbered in created_at order (the start of the
                  \* inserting transaction: they may appear in another order)
    Workers,      \* overlapping ticks
    Keys,         \* dedup keys (organisation, kind, member, target)
    KeyOf,        \* the key of each job
    Foreign,      \* jobs of a kind that this release has no handler for
    MaxAttempts,  \* MAX_ATTEMPTS
    MaxFaults     \* bound on ticks that die

ASSUME JobsAssumption == Jobs \subseteq Nat /\ Foreign \subseteq Jobs
ASSUME KeysAssumption == KeyOf \in [Jobs -> Keys]
ASSUME LimitsAssumption == MaxAttempts \in Nat \ {0} /\ MaxFaults \in Nat

VARIABLES
    status,    \* background_jobs.status, "absent" before the INSERT
    attempts,  \* background_jobs.attempt_count
    resting,   \* pending jobs whose next_attempt_at is still to come
    old,       \* jobs whose claimed_at is more than LEASE_SECONDS ago
    pc,        \* where each tick is
    hold,      \* the job it has claimed, if any: a set of at most one
    att,       \* the attempt_count its claim read
    out,       \* the outcome it is about to write
    skipped,   \* jobs this tick will not look at again
    faults,    \* ticks that died so far
    effects,   \* history: how often a handler's writes were committed
    lost,      \* history: leases of each job that ran out
    overrun    \* history: jobs whose lease ran out under a live tick

vars == <<status, attempts, resting, old, pc, hold, att, out, skipped, faults,
          effects, lost, overrun>>
history == <<effects, lost, overrun>>

Statuses == {"absent", "pending", "in_progress", "completed", "failed"}
Open == {"pending", "in_progress"}
Outcomes == {"completed", "failed", "pending"}

Init ==
    /\ status = [j \in Jobs |-> "absent"]
    /\ attempts = [j \in Jobs |-> 0]
    /\ resting = {}
    /\ old = {}
    /\ pc = [w \in Workers |-> "off"]
    /\ hold = [w \in Workers |-> {}]
    /\ att = [w \in Workers |-> 0]
    /\ out = [w \in Workers |-> "failed"]
    /\ skipped = [w \in Workers |-> {}]
    /\ faults = 0
    /\ effects = [j \in Jobs |-> 0]
    /\ lost = [j \in Jobs |-> 0]
    /\ overrun = {}

-----------------------------------------------------------------------------
\* The open jobs that share j's key, other than j.
OpenTwins(j) ==
    {i \in Jobs \ {j} : KeyOf[i] = KeyOf[j] /\ status[i] \in Open}

\* enqueue_background_job: an open job of the same key is returned instead,
\* which changes nothing.
Enqueue(j) ==
    /\ status[j] = "absent"
    /\ OpenTwins(j) = {}
    /\ status' = [status EXCEPT ![j] = "pending"]
    /\ UNCHANGED <<attempts, resting, old, pc, hold, att, out, skipped, faults,
                   history>>

BackoffEnds(j) ==
    /\ j \in resting
    /\ resting' = resting \ {j}
    /\ UNCHANGED <<status, attempts, old, pc, hold, att, out, skipped, faults,
                   history>>

LeaseExpires(j) ==
    /\ status[j] = "in_progress"
    /\ j \notin old
    /\ old' = old \cup {j}
    /\ lost' = [lost EXCEPT ![j] = @ + 1]
    /\ overrun' = IF \E w \in Workers : j \in hold[w] THEN overrun \cup {j}
                  ELSE overrun
    /\ UNCHANGED <<status, attempts, resting, pc, hold, att, out, skipped,
                   faults, effects>>

-----------------------------------------------------------------------------
(* One tick's turn at the line *)

StartTick(w) ==
    /\ pc[w] = "off"
    /\ pc' = [pc EXCEPT ![w] = "pick"]
    /\ UNCHANGED <<status, attempts, resting, old, hold, att, out, skipped,
                   faults, history>>

\* The budget is used up or too small for the next job, or nothing is due.
EndTick(w) ==
    /\ pc[w] = "pick"
    /\ pc' = [pc EXCEPT ![w] = "off"]
    /\ skipped' = [skipped EXCEPT ![w] = {}]
    /\ UNCHANGED <<status, attempts, resting, old, hold, att, out, faults,
                   history>>

\* Mutant: the lease is not looked at.
DueWhenOpen == {j \in Jobs : status[j] \in Open /\ j \notin resting}

\* _due_filter.
Due == {j \in Jobs : \/ status[j] = "pending" /\ j \notin resting
                     \/ status[j] = "in_progress" /\ j \in old}

\* The oldest due job that the tick has not skipped and that no other tick
\* has locked to look at it (SKIP LOCKED).
HeadOfLine(w, j) ==
    /\ j \in Due \ skipped[w]
    /\ \A i \in Due \ skipped[w] :
          i < j => \E v \in Workers \ {w} : pc[v] = "pick"

\* Mutant: a job of an unknown kind ends the tick.
StopAtForeign(w, j) ==
    /\ pc[w] = "pick"
    /\ HeadOfLine(w, j) /\ j \in Foreign
    /\ pc' = [pc EXCEPT ![w] = "off"]
    /\ skipped' = [skipped EXCEPT ![w] = {}]
    /\ UNCHANGED <<status, attempts, resting, old, hold, att, out, faults,
                   history>>

\* _claim_next goes on to the next job after one of an unknown kind.
SkipForeign(w, j) ==
    /\ pc[w] = "pick"
    /\ HeadOfLine(w, j) /\ j \in Foreign
    /\ skipped' = [skipped EXCEPT ![w] = @ \cup {j}]
    /\ UNCHANGED <<status, attempts, resting, old, pc, hold, att, out, faults,
                   history>>

\* _claim_next, FOR UPDATE SKIP LOCKED and committed.
ClaimNext(w, j) ==
    /\ pc[w] = "pick"
    /\ HeadOfLine(w, j) /\ j \notin Foreign
    /\ status' = [status EXCEPT ![j] = "in_progress"]
    /\ attempts' = [attempts EXCEPT ![j] = @ + 1]
    /\ old' = old \ {j}
    /\ pc' = [pc EXCEPT ![w] = "run"]
    /\ hold' = [hold EXCEPT ![w] = {j}]
    /\ att' = [att EXCEPT ![w] = attempts[j] + 1]
    /\ UNCHANGED <<resting, out, skipped, faults, history>>

\* Mutant: a failure is always worth another attempt.
AlwaysRetry(n) == "pending"

\* What an exception that is no refusal makes of attempt n.
Failure(n) == IF n >= MaxAttempts THEN "failed" ELSE "pending"

\* What the handlers can make of an attempt: a result, a refusal that their
\* error_body knows, or an exception it does not.
HandlerOutcomes(n) == {"completed", "failed", Failure(n)}

\* handler.run under the before_commit guard: it only flushes.
RunHandler(w) ==
    /\ pc[w] = "run"
    /\ pc' = [pc EXCEPT ![w] = "finish"]
    /\ \E o \in HandlerOutcomes(att[w]) : out' = [out EXCEPT ![w] = o]
    /\ UNCHANGED <<status, attempts, resting, old, hold, att, skipped, faults,
                   history>>

\* The tick is done with its job and forgets what it knew of it.
LetGo(w) ==
    /\ hold' = [hold EXCEPT ![w] = {}]
    /\ att' = [att EXCEPT ![w] = 0]
    /\ out' = [out EXCEPT ![w] = "failed"]

\* Mutant: a status that ck_background_jobs_status does not know.
CommitDone(w, j) ==
    /\ effects' = [effects EXCEPT ![j] = @ + 1]
    /\ status' = [status EXCEPT ![j] = "done"]

\* Mutant: no rollback before the outcome of a failed run is written.
CommitUnrolled(w, j) ==
    /\ effects' = [effects EXCEPT ![j] = @ + 1]
    /\ status' = [status EXCEPT ![j] = out[w]]

\* The one commit of _finish: the handler's writes, if it returned, and the
\* job's outcome.
CommitOutcome(w, j) ==
    /\ effects' = [effects EXCEPT ![j] =
                      IF out[w] = "completed" THEN @ + 1 ELSE @]
    /\ status' = [status EXCEPT ![j] = out[w]]

\* uq_background_jobs_open_dedup refuses to open a settled job again next to
\* an open one of its key.
Refused(w, j) ==
    out[w] = "pending" /\ status[j] \notin Open /\ OpenTwins(j) # {}

\* _finish: by id alone, whoever holds the lease by now.
Finish(w, j) ==
    /\ pc[w] = "finish" /\ j \in hold[w]
    /\ ~Refused(w, j)
    /\ CommitOutcome(w, j)
    /\ resting' = IF out[w] = "pending" THEN resting \cup {j}
                  ELSE resting \ {j}
    /\ old' = old \ {j}
    /\ pc' = [pc EXCEPT ![w] = "pick"]
    /\ LetGo(w)
    /\ UNCHANGED <<attempts, skipped, faults, lost, overrun>>

\* The refusal leaves the loop and ends the tick.
FinishRefused(w, j) ==
    /\ pc[w] = "finish" /\ j \in hold[w]
    /\ Refused(w, j)
    /\ pc' = [pc EXCEPT ![w] = "off"]
    /\ LetGo(w)
    /\ skipped' = [skipped EXCEPT ![w] = {}]
    /\ UNCHANGED <<status, attempts, resting, old, faults, history>>

\* The instance dies, the request is cut off, or a statement of the tick
\* fails: what the handler flushed is gone.
Die(w) ==
    /\ pc[w] \in {"run", "finish"}
    /\ faults < MaxFaults
    /\ faults' = faults + 1
    /\ pc' = [pc EXCEPT ![w] = "off"]
    /\ LetGo(w)
    /\ skipped' = [skipped EXCEPT ![w] = {}]
    /\ UNCHANGED <<status, attempts, resting, old, history>>

-----------------------------------------------------------------------------
Settle(w) == \E j \in Jobs : Finish(w, j) \/ FinishRefused(w, j)

Tick(w) ==
    \/ StartTick(w)
    \/ EndTick(w)
    \/ \E j \in Jobs : SkipForeign(w, j) \/ ClaimNext(w, j)
    \/ RunHandler(w)
    \/ Settle(w)
    \/ Die(w)

Next ==
    \/ \E j \in Jobs : Enqueue(j) \/ BackoffEnds(j) \/ LeaseExpires(j)
    \/ \E w \in Workers : Tick(w)

Spec == Init /\ [][Next]_vars

\* A tick starts every minute and what it started ends; time passes; and a
\* tick that time and again finds a job due has, time and again, the budget to
\* look at it.
Fairness ==
    /\ \A j \in Jobs : WF_vars(BackoffEnds(j)) /\ WF_vars(LeaseExpires(j))
    /\ \A w \in Workers :
        /\ WF_vars(StartTick(w)) /\ WF_vars(EndTick(w))
        /\ WF_vars(RunHandler(w) \/ Settle(w))
        /\ \A j \in Foreign : SF_vars(SkipForeign(w, j))
        /\ \A j \in Jobs \ Foreign : SF_vars(ClaimNext(w, j))

FairSpec == Spec /\ Fairness

-----------------------------------------------------------------------------
TypeOK ==
    /\ status \in [Jobs -> Statuses]
    /\ attempts \in [Jobs -> Nat]
    /\ resting \subseteq Jobs
    /\ old \subseteq Jobs
    /\ pc \in [Workers -> {"off", "pick", "run", "finish"}]
    /\ hold \in [Workers -> SUBSET Jobs]
    /\ att \in [Workers -> Nat]
    /\ out \in [Workers -> Outcomes]
    /\ skipped \in [Workers -> SUBSET Jobs]
    /\ faults \in Nat
    /\ effects \in [Jobs -> Nat]
    /\ lost \in [Jobs -> Nat]
    /\ overrun \subseteq Jobs

(* A handler's writes are committed once, and exactly when the job is       *)
(* completed ("재실행 멱등"): however often a tick dies between the claim,     *)
(* the handler and the commit, the run after it starts from nothing.  Only  *)
(* a lease that runs out under a live tick can break this.                  *)
ResultOnce ==
    \A j \in Jobs \ overrun :
        effects[j] = IF status[j] = "completed" THEN 1 ELSE 0

(* A job is in the hands of two ticks only if its lease ran out while the   *)
(* first was still at work.                                                 *)
OneTickPerJob ==
    \A j \in Jobs \ overrun : \A v, w \in Workers :
        j \in hold[v] /\ j \in hold[w] => v = w

(* Every attempt is either one of the MAX_ATTEMPTS or answers a lease that  *)
(* ran out: nothing else makes the line try a job again.                    *)
AttemptsArePaidFor ==
    \A j \in Jobs \ overrun : attempts[j] <= MaxAttempts + lost[j]

\* A step changes the outcome of no job but an overrun one.
KeepsOutcomes ==
    \A j \in Jobs \ overrun :
        status[j] \in {"completed", "failed"} => status'[j] = status[j]

(* A settled job is never reopened or settled otherwise, unless its lease   *)
(* ran out under a live tick that settled it again.                         *)
SettledJobIsFinal == [][KeepsOutcomes]_vars

(* The line moves: every job a request queued is settled in the end, in     *)
(* spite of ticks that die, also behind a job of an unknown kind.           *)
JobsSettle ==
    \A j \in Jobs \ Foreign :
        status[j] = "pending" ~> status[j] \in {"completed", "failed"}
=============================================================================
