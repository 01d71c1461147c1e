------------------------ MODULE BackgroundJobsProofs ------------------------
(***************************************************************************)
(* Theorems about the job line, for any number of jobs, ticks, attempts    *)
(* and faults.                                                             *)
(***************************************************************************)
EXTENDS BackgroundJobs, TLAPS

USE JobsAssumption, KeysAssumption, LimitsAssumption

(* The rows, the ticks and the histories always have their types: no step   *)
(* writes a status that ck_background_jobs_status would refuse.             *)
THEOREM JobTypeCorrect == Spec => []TypeOK
<1>1. Init => TypeOK
  BY DEF Init, TypeOK, Statuses, Outcomes
<1>2. TypeOK /\ [Next]_vars => TypeOK'
  <2> SUFFICES ASSUME TypeOK, [Next]_vars PROVE TypeOK'
    OBVIOUS
  <2> USE DEF TypeOK, Statuses, Outcomes, history
  <2>1. ASSUME NEW j \in Jobs, Enqueue(j) PROVE TypeOK'
    BY <2>1 DEF Enqueue
  <2>2. ASSUME NEW j \in Jobs, BackoffEnds(j) PROVE TypeOK'
    BY <2>2 DEF BackoffEnds
  <2>3. ASSUME NEW j \in Jobs, LeaseExpires(j) PROVE TypeOK'
    BY <2>3 DEF LeaseExpires
  <2>4. ASSUME NEW w \in Workers, Tick(w) PROVE TypeOK'
    <3>1. CASE StartTick(w)
      BY <3>1 DEF StartTick
    <3>2. CASE EndTick(w)
      BY <3>2 DEF EndTick
    <3>3. ASSUME NEW j \in Jobs, SkipForeign(w, j) PROVE TypeOK'
      BY <3>3 DEF SkipForeign
    <3>4. ASSUME NEW j \in Jobs, ClaimNext(w, j) PROVE TypeOK'
      BY <3>4 DEF ClaimNext
    <3>5. CASE RunHandler(w)
      BY <3>5 DEF RunHandler, HandlerOutcomes, Failure
    <3>6. ASSUME NEW j \in Jobs, Finish(w, j) PROVE TypeOK'
      BY <3>6 DEF Finish, CommitOutcome, LetGo
    <3>7. ASSUME NEW j \in Jobs, FinishRefused(w, j) PROVE TypeOK'
      BY <3>7 DEF FinishRefused, LetGo
    <3>8. CASE Die(w)
      BY <3>8 DEF Die, LetGo
    <3> QED
      BY <2>4, <3>1, <3>2, <3>3, <3>4, <3>5, <3>6, <3>7, <3>8 DEF Tick, Settle
  <2>5. CASE UNCHANGED vars
    BY <2>5 DEF vars
  <2> QED
    BY <2>1, <2>2, <2>3, <2>4, <2>5 DEF Next
<1> QED
  BY <1>1, <1>2, PTL DEF Spec

-----------------------------------------------------------------------------
(* The inductive invariant *)

\* A held job is in progress, under a lease that still runs and the attempt
\* number its holder read.
HeldIsInProgress(j) ==
    \A w \in Workers : j \in hold[w] =>
        status[j] = "in_progress" /\ j \notin old /\ att[w] = attempts[j]

HeldOnce(j) ==
    \A v, w \in Workers : j \in hold[v] /\ j \in hold[w] => v = w

WrittenOnce(j) == effects[j] = IF status[j] = "completed" THEN 1 ELSE 0

\* A job that waits still has an attempt of MAX_ATTEMPTS, or a lost lease, to
\* spend.
AttemptLeft(j) ==
    /\ attempts[j] <= MaxAttempts + lost[j]
    /\ status[j] \in {"absent", "pending"} => attempts[j] < MaxAttempts
    /\ status[j] = "in_progress" /\ j \in old =>
          attempts[j] < MaxAttempts + lost[j]

Sound(j) ==
    /\ HeldIsInProgress(j)
    /\ HeldOnce(j)
    /\ WrittenOnce(j)
    /\ AttemptLeft(j)

\* Only a tick with attempts left writes the job back.
RetryLeft ==
    \A w \in Workers : pc[w] = "finish" /\ out[w] = "pending" =>
        att[w] < MaxAttempts

JobInv == (\A j \in Jobs \ overrun : Sound(j)) /\ RetryLeft

-----------------------------------------------------------------------------
LEMMA JobInvInit == Init => JobInv
  BY DEF Init, JobInv, Sound, HeldIsInProgress, HeldOnce, WrittenOnce,
         AttemptLeft, RetryLeft

LEMMA JobInvNext == TypeOK /\ JobInv /\ [Next]_vars => JobInv'
<1> SUFFICES ASSUME TypeOK, JobInv, [Next]_vars PROVE JobInv'
  OBVIOUS
<1> USE DEF history
<1>1. ASSUME NEW i \in Jobs, Enqueue(i) PROVE JobInv'
  <2>1. \A j \in Jobs : status'[j] = IF j = i THEN "pending" ELSE status[j]
    BY <1>1 DEF Enqueue, TypeOK
  <2> QED
    BY <1>1, <2>1 DEF Enqueue, JobInv, Sound, HeldIsInProgress, HeldOnce,
         WrittenOnce, AttemptLeft, RetryLeft
<1>2. ASSUME NEW i \in Jobs, BackoffEnds(i) PROVE JobInv'
  BY <1>2 DEF BackoffEnds, JobInv, Sound, HeldIsInProgress, HeldOnce,
       WrittenOnce, AttemptLeft, RetryLeft
<1>3. ASSUME NEW i \in Jobs, LeaseExpires(i) PROVE JobInv'
  <2>1. ASSUME NEW j \in Jobs \ overrun' PROVE Sound(j)'
    <3>1. Sound(j)
      BY <1>3, <2>1 DEF LeaseExpires, JobInv
    <3>2. HeldIsInProgress(j)'
      BY <1>3, <2>1, <3>1 DEF LeaseExpires, Sound, HeldIsInProgress, TypeOK
    <3>3. AttemptLeft(j)'
      BY <1>3, <3>1 DEF LeaseExpires, Sound, AttemptLeft, TypeOK
    <3> QED
      BY <1>3, <3>1, <3>2, <3>3 DEF LeaseExpires, Sound, HeldOnce, WrittenOnce
  <2> QED
    BY <1>3, <2>1 DEF LeaseExpires, JobInv, RetryLeft
<1>4. ASSUME NEW w \in Workers, Tick(w) PROVE JobInv'
  <2>1. CASE StartTick(w) \/ EndTick(w)
    BY <2>1 DEF StartTick, EndTick, TypeOK, JobInv, Sound, HeldIsInProgress,
         HeldOnce, WrittenOnce, AttemptLeft, RetryLeft
  <2>2. ASSUME NEW i \in Jobs, SkipForeign(w, i) PROVE JobInv'
    BY <2>2 DEF SkipForeign, JobInv, Sound, HeldIsInProgress, HeldOnce,
         WrittenOnce, AttemptLeft, RetryLeft
  <2>3. ASSUME NEW i \in Jobs, ClaimNext(w, i) PROVE JobInv'
    <3>1. /\ \A j \in Jobs : j # i => /\ status'[j] = status[j]
                                      /\ attempts'[j] = attempts[j]
                                      /\ j \in old' <=> j \in old
          /\ status'[i] = "in_progress"
          /\ attempts'[i] = attempts[i] + 1
          /\ i \notin old'
          /\ \A v \in Workers : v # w => hold'[v] = hold[v] /\ att'[v] = att[v]
          /\ hold'[w] = {i} /\ att'[w] = attempts[i] + 1
      BY <2>3 DEF ClaimNext, TypeOK
    <3>2. /\ status[i] = "pending" \/ (status[i] = "in_progress" /\ i \in old)
          /\ effects' = effects /\ lost' = lost /\ overrun' = overrun
      BY <2>3 DEF ClaimNext, HeadOfLine, Due
    <3>3. ASSUME NEW j \in Jobs \ overrun PROVE Sound(j)'
      <4>0. Sound(j)
        BY DEF JobInv
      <4>1. CASE j # i
        <5>0. /\ status'[j] = status[j] /\ attempts'[j] = attempts[j]
              /\ (j \in old' <=> j \in old)
          BY <4>1, <3>1
        <5>1. HeldIsInProgress(j)'
          BY <4>0, <4>1, <5>0, <3>1, <3>2 DEF Sound, HeldIsInProgress
        <5>2. HeldOnce(j)'
          BY <4>0, <4>1, <3>1, <3>2 DEF Sound, HeldOnce
        <5>3. WrittenOnce(j)' /\ AttemptLeft(j)'
          BY <4>0, <5>0, <3>1, <3>2 DEF Sound, WrittenOnce, AttemptLeft
        <5> QED
          BY <5>1, <5>2, <5>3 DEF Sound
      <4>2. CASE j = i
        <5>1. \A v \in Workers : i \notin hold[v]
          BY <4>0, <4>2, <3>2 DEF Sound, HeldIsInProgress
        <5>2. HeldIsInProgress(j)' /\ HeldOnce(j)'
          BY <5>1, <3>1, <4>2 DEF HeldIsInProgress, HeldOnce
        <5>3. WrittenOnce(j)'
          BY <4>0, <4>2, <3>1, <3>2 DEF Sound, WrittenOnce
        <5>4. AttemptLeft(j)'
          BY <4>0, <4>2, <3>1, <3>2 DEF Sound, AttemptLeft, TypeOK
        <5> QED
          BY <5>2, <5>3, <5>4 DEF Sound
      <4> QED
        BY <4>1, <4>2
    <3>4. RetryLeft'
      BY <2>3 DEF ClaimNext, JobInv, RetryLeft, TypeOK
    <3> QED
      BY <3>2, <3>3, <3>4 DEF JobInv
  <2>4. CASE RunHandler(w)
    <3>1. RetryLeft'
      BY <2>4 DEF RunHandler, HandlerOutcomes, Failure, JobInv, RetryLeft, TypeOK
    <3> QED
      BY <2>4, <3>1 DEF RunHandler, JobInv, Sound, HeldIsInProgress, HeldOnce,
           WrittenOnce, AttemptLeft
  <2>5. ASSUME NEW i \in Jobs, Finish(w, i) PROVE JobInv'
    <3>1. /\ \A j \in Jobs : j # i => /\ status'[j] = status[j]
                                      /\ effects'[j] = effects[j]
                                      /\ j \in old' <=> j \in old
          /\ status'[i] = out[w]
          /\ effects'[i] = IF out[w] = "completed" THEN effects[i] + 1
                           ELSE effects[i]
          /\ \A v \in Workers : v # w => hold'[v] = hold[v] /\ att'[v] = att[v]
          /\ hold'[w] = {}
          /\ attempts' = attempts /\ lost' = lost
          /\ overrun' = overrun
          /\ i \in hold[w] /\ pc[w] = "finish"
          /\ out[w] \in {"completed", "failed", "pending"}
      BY <2>5 DEF Finish, CommitOutcome, LetGo, TypeOK, Outcomes
    <3>2. ASSUME NEW j \in Jobs \ overrun PROVE Sound(j)'
      <4>0. Sound(j)
        BY DEF JobInv
      <4>1. CASE j # i
        <5>0. /\ status'[j] = status[j] /\ effects'[j] = effects[j]
              /\ (j \in old' <=> j \in old)
          BY <4>1, <3>1
        <5>1. HeldIsInProgress(j)'
          BY <4>0, <4>1, <5>0, <3>1 DEF Sound, HeldIsInProgress
        <5>2. HeldOnce(j)'
          BY <4>0, <4>1, <3>1 DEF Sound, HeldOnce
        <5>3. WrittenOnce(j)' /\ AttemptLeft(j)'
          BY <4>0, <5>0, <3>1 DEF Sound, WrittenOnce, AttemptLeft
        <5> QED
          BY <5>1, <5>2, <5>3 DEF Sound
      <4>2. CASE j = i
        <5>1. \A v \in Workers : i \notin hold'[v]
          BY <4>0, <4>2, <3>1 DEF Sound, HeldOnce
        <5>2. status[i] = "in_progress" /\ att[w] = attempts[i]
          BY <4>0, <4>2, <3>1 DEF Sound, HeldIsInProgress
        <5>3. WrittenOnce(j)'
          BY <4>0, <4>2, <5>2, <3>1 DEF Sound, WrittenOnce, TypeOK
        <5>4. AttemptLeft(j)'
          BY <4>0, <4>2, <5>2, <3>1 DEF Sound, AttemptLeft, JobInv, RetryLeft
        <5> QED
          BY <4>2, <5>1, <5>3, <5>4 DEF Sound, HeldIsInProgress, HeldOnce
      <4> QED
        BY <4>1, <4>2
    <3>3. RetryLeft'
      BY <2>5 DEF Finish, LetGo, JobInv, RetryLeft, TypeOK
    <3> QED
      BY <3>1, <3>2, <3>3 DEF JobInv
  <2>6. ASSUME NEW i \in Jobs, FinishRefused(w, i) PROVE JobInv'
    BY <2>6 DEF FinishRefused, LetGo, TypeOK, JobInv, Sound, HeldIsInProgress,
         HeldOnce, WrittenOnce, AttemptLeft, RetryLeft
  <2>7. CASE Die(w)
    BY <2>7 DEF Die, LetGo, TypeOK, JobInv, Sound, HeldIsInProgress, HeldOnce,
         WrittenOnce, AttemptLeft, RetryLeft
  <2> QED
    BY <1>4, <2>1, <2>2, <2>3, <2>4, <2>5, <2>6, <2>7 DEF Tick, Settle
<1>5. CASE UNCHANGED vars
  BY <1>5 DEF vars, JobInv, Sound, HeldIsInProgress, HeldOnce, WrittenOnce,
       AttemptLeft, RetryLeft
<1> QED
  BY <1>1, <1>2, <1>3, <1>4, <1>5 DEF Next

LEMMA JobInvHolds == Spec => []JobInv
  BY JobInvInit, JobInvNext, JobTypeCorrect, PTL DEF Spec

-----------------------------------------------------------------------------
(* However ticks overlap and die, the writes of a job's handler are         *)
(* committed once, and exactly when the job is completed, unless its lease  *)
(* ran out under a live tick.                                               *)
THEOREM JobResultOnce == Spec => []ResultOnce
<1>1. JobInv => ResultOnce
  BY DEF JobInv, Sound, WrittenOnce, ResultOnce
<1> QED
  BY <1>1, JobInvHolds, PTL

(* _claim_next gives a job to one tick at a time, as long as leases outlive *)
(* the ticks that hold them.                                                *)
THEOREM JobHeldOnce == Spec => []OneTickPerJob
<1>1. JobInv => OneTickPerJob
  BY DEF JobInv, Sound, HeldOnce, OneTickPerJob
<1> QED
  BY <1>1, JobInvHolds, PTL

(* No job is tried more often than MAX_ATTEMPTS and the leases it lost      *)
(* allow.                                                                   *)
THEOREM JobAttemptsBounded == Spec => []AttemptsArePaidFor
<1>1. JobInv => AttemptsArePaidFor
  BY DEF JobInv, Sound, AttemptLeft, AttemptsArePaidFor
<1> QED
  BY <1>1, JobInvHolds, PTL

(* What _finish wrote stays: no later step reopens or resettles the job,    *)
(* unless its lease ran out under a live tick.                              *)
THEOREM JobStaysSettled == Spec => SettledJobIsFinal
<1>1. TypeOK /\ JobInv /\ [Next]_vars => [KeepsOutcomes]_vars
  <2> SUFFICES ASSUME TypeOK, JobInv, Next,
                      NEW j \in Jobs, status[j] \in {"completed", "failed"},
                      status'[j] # status[j]
               PROVE  j \in overrun
    BY DEF KeepsOutcomes
  <2> USE DEF TypeOK, history
  <2>1. ASSUME NEW i \in Jobs,
               Enqueue(i) \/ BackoffEnds(i) \/ LeaseExpires(i)
        PROVE  FALSE
    BY <2>1 DEF Enqueue, BackoffEnds, LeaseExpires
  <2>2. ASSUME NEW w \in Workers, Tick(w) PROVE j \in overrun
    <3>1. CASE StartTick(w) \/ EndTick(w) \/ RunHandler(w) \/ Die(w)
      BY <3>1 DEF StartTick, EndTick, RunHandler, Die
    <3>2. ASSUME NEW i \in Jobs, SkipForeign(w, i) \/ FinishRefused(w, i)
          PROVE  j \in overrun
      BY <3>2 DEF SkipForeign, FinishRefused
    <3>3. ASSUME NEW i \in Jobs, ClaimNext(w, i) PROVE j \in overrun
      BY <3>3 DEF ClaimNext, HeadOfLine, Due
    <3>4. ASSUME NEW i \in Jobs, Finish(w, i) PROVE j \in overrun
      BY <3>4 DEF Finish, CommitOutcome, JobInv, Sound, HeldIsInProgress
    <3> QED
      BY <2>2, <3>1, <3>2, <3>3, <3>4 DEF Tick, Settle
  <2> QED
    BY <2>1, <2>2 DEF Next
<1> QED
  BY <1>1, JobTypeCorrect, JobInvHolds, PTL DEF Spec, SettledJobIsFinal
=============================================================================
