----------------------- MODULE A2ATaskLifecycleProofs -----------------------
(***************************************************************************)
(* The safety properties of A2ATaskLifecycle for any number of messages,   *)
(* requests, sweeps and webhooks.                                          *)
(*                                                                         *)
(* What a request read earlier is all it knows when it writes.  The        *)
(* strengthening says what is still true of it by then: a reply and a      *)
(* cause of failure, once seen, stay (CopiesFit, BatchIsLate,              *)
(* DeliveriesFit), so that a failed task has one (Justified); and the one  *)
(* request that dispatches a task is the one that inserted it (SendsFit).  *)
(***************************************************************************)
EXTENDS A2ATaskLifecycle, TLAPS

\* What a task may be failed for; once there, it stays.
Cause(m) ==
    \/ m \in late
    \/ Known(m) # {} /\ \A c \in Known(m) : delivery[m][c] = "failed"

Justified == \A m \in Messages : state[m] = "FAILED" => Cause(m)

CopiesFit ==
    \A p \in Pollers :
        /\ pc[p] = "complete" => task[p] \in replied
        /\ pc[p] = "fail" => Cause(task[p])

BatchIsLate == \A s \in Sweeps : batch[s] \subseteq late

\* A row that came too late came after others, and the last of these to give up
\* closes the task while all the others have.
DeliveriesFit ==
    \A m \in Messages :
        /\ belated[m] # {} => Known(m) # {}
        /\ \A c \in Channels :
            delivery[m][c] = "closingAll" =>
                \/ m \in late
                \/ \A d \in Known(m) \ {c} : delivery[m][d] = "failed"

SendsFit ==
    /\ \A m \in Messages : sent[m] > 0 => sent[m] = 1 /\ state[m] # "none"
    /\ \A q \in Senders :
        pc[q] = "dispatching" => state[task[q]] # "none" /\ sent[task[q]] = 0
    /\ \A q, r \in Senders :
        pc[q] = "dispatching" /\ pc[r] = "dispatching" /\ task[q] = task[r] => q = r

IInv ==
    /\ TypeOK
    /\ CopiesFit
    /\ BatchIsLate
    /\ ArtifactsMatchState
    /\ Justified
    /\ DeliveriesFit
    /\ SendsFit

-----------------------------------------------------------------------------
\* The compare-and-set keeps the types of the two columns it writes.
LEMMA FailTypes ==
    ASSUME TypeOK, NEW m \in Messages, FailIfStillWorking(m)
    PROVE  /\ state' \in [Messages -> States]
           /\ artifacts' \in [Messages -> SUBSET {"reply", "failure"}]
<1>1. CASE state[m] = "WORKING"
  <2>1. "FAILED" \in States
    BY DEF States
  <2>2. artifacts[m] \in SUBSET {"reply", "failure"}
    BY DEF TypeOK
  <2>3. artifacts[m] \cup {"failure"} \in SUBSET {"reply", "failure"}
    BY <2>2
  <2>4. /\ state' = [state EXCEPT ![m] = "FAILED"]
        /\ artifacts' = [artifacts EXCEPT ![m] = artifacts[m] \cup {"failure"}]
    BY <1>1 DEF FailIfStillWorking
  <2>5. state' \in [Messages -> States]
    BY <2>1, <2>4 DEF TypeOK
  <2>6. artifacts' \in [Messages -> SUBSET {"reply", "failure"}]
    <3> DEFINE S == SUBSET {"reply", "failure"}
    <3>1. artifacts \in [Messages -> S] /\ artifacts[m] \cup {"failure"} \in S
      BY <2>3 DEF TypeOK
    <3> HIDE DEF S
    <3>2. artifacts' \in [Messages -> S]
      BY <3>1, <2>4
    <3>3. QED
      BY <3>2 DEF S
  <2>7. QED
    BY <2>5, <2>6
<1>2. CASE state[m] # "WORKING"
  BY <1>2 DEF FailIfStillWorking, TypeOK
<1>3. QED
  BY <1>1, <1>2

\* It fails no task that is over, and leaves the reason beside the one it fails.
LEMMA FailArtifacts ==
    ASSUME TypeOK, ArtifactsMatchState, NEW m \in Messages,
           FailIfStillWorking(m), UNCHANGED replied
    PROVE  ArtifactsMatchState'
<1>1. CASE state[m] = "WORKING"
  <2>1. /\ state'[m] = "FAILED" /\ "failure" \in artifacts'[m]
        /\ \A n \in Messages \ {m} : state'[n] = state[n] /\ artifacts'[n] = artifacts[n]
    BY <1>1 DEF FailIfStillWorking, TypeOK
  <2>2. QED
    BY <2>1 DEF ArtifactsMatchState
<1>2. CASE state[m] # "WORKING"
  BY <1>2 DEF FailIfStillWorking, ArtifactsMatchState
<1>3. QED
  BY <1>1, <1>2

\* A step that leaves the deliveries alone leaves every cause there was.
LEMMA CauseKept ==
    ASSUME DeliveriesFit, UNCHANGED deliveries, late \subseteq late'
    PROVE  DeliveriesFit' /\ \A n \in Messages : Cause(n) => Cause(n)'
<1>1. \A n \in Messages : Known(n)' = Known(n)
  BY DEF deliveries, Known, Rows
<1>2. DeliveriesFit'
  BY <1>1 DEF deliveries, DeliveriesFit
<1>3. \A n \in Messages : Cause(n) => Cause(n)'
  BY <1>1 DEF deliveries, Cause
<1>4. QED
  BY <1>2, <1>3

LEMMA BeginSendStep ==
    ASSUME IInv, NEW q \in Senders, BeginSend(q)
    PROVE  IInv'
<1>1. DeliveriesFit' /\ \A n \in Messages : Cause(n) => Cause(n)'
  BY CauseKept DEF BeginSend, row, world, actors, IInv
<1>2. TypeOK'
  BY DEF BeginSend, Jumps, row, world, deliveries, actors, TypeOK, IInv, States, DeliveryStates, SenderPcs, PollerPcs
<1>3. CopiesFit'
  BY <1>1 DEF BeginSend, Jumps, row, world, deliveries, actors, TypeOK, CopiesFit, IInv
<1>4. BatchIsLate'
  BY DEF BeginSend, Jumps, row, world, actors, BatchIsLate, IInv
<1>5. ArtifactsMatchState'
  BY DEF BeginSend, Jumps, row, world, actors, ArtifactsMatchState, IInv
<1>6. Justified'
  BY <1>1 DEF BeginSend, Jumps, row, world, actors, Justified, IInv
<1>7. SendsFit'
  BY DEF BeginSend, Jumps, row, world, deliveries, actors, TypeOK, SendsFit, IInv
<1>8. QED
  BY <1>1, <1>2, <1>3, <1>4, <1>5, <1>6, <1>7 DEF IInv

LEMMA InsertTaskStep ==
    ASSUME IInv, NEW q \in Senders, InsertTask(q)
    PROVE  IInv'
<1>1. DeliveriesFit' /\ \A n \in Messages : Cause(n) => Cause(n)'
  BY CauseKept DEF InsertTask, row, world, actors, IInv
<1>2. TypeOK'
  <2>1. CASE state[task[q]] = "none"
    <3>1. state' = [state EXCEPT ![task[q]] = "WORKING"] /\ pc' = [pc EXCEPT ![q] = "dispatching"]
      BY <2>1 DEF InsertTask, Jumps
    <3>2. QED
      BY <3>1 DEF InsertTask, world, deliveries, TypeOK, IInv, States, SenderPcs
  <2>2. CASE state[task[q]] # "none"
    <3>1. UNCHANGED state /\ pc' = [pc EXCEPT ![q] = "done"]
      BY <2>2 DEF InsertTask, Jumps
    <3>2. QED
      BY <3>1 DEF InsertTask, world, deliveries, TypeOK, IInv, SenderPcs
  <2>3. QED
    BY <2>1, <2>2
<1>3. CopiesFit'
  BY <1>1 DEF InsertTask, Jumps, row, world, deliveries, actors, TypeOK, CopiesFit, IInv
<1>4. BatchIsLate'
  BY DEF InsertTask, Jumps, row, world, actors, BatchIsLate, IInv
<1>5. ArtifactsMatchState'
  BY DEF InsertTask, Jumps, row, world, deliveries, actors, TypeOK, ArtifactsMatchState, CopiesFit, IInv
<1>6. Justified'
  BY <1>1 DEF InsertTask, Jumps, row, world, deliveries, actors, TypeOK, Justified, CopiesFit, BatchIsLate, IInv
<1>7. SendsFit'
  <2>1. CASE state[task[q]] = "none"
    <3>1. task[q] \in Messages /\ sent[task[q]] = 0
      BY <2>1 DEF IInv, TypeOK, SendsFit
    <3>2. \A r \in Senders : pc[r] = "dispatching" => task[r] # task[q]
      BY <2>1 DEF IInv, SendsFit
    <3>3. state' = [state EXCEPT ![task[q]] = "WORKING"] /\ pc' = [pc EXCEPT ![q] = "dispatching"]
      BY <2>1 DEF InsertTask, Jumps
    <3>4. QED
      BY <3>1, <3>2, <3>3 DEF IInv, TypeOK, SendsFit, InsertTask, world
  <2>2. CASE state[task[q]] # "none"
    <3>1. UNCHANGED <<state, task, sent>> /\ pc' = [pc EXCEPT ![q] = "done"]
      BY <2>2 DEF InsertTask, Jumps, world
    <3>2. QED
      BY <3>1 DEF TypeOK, SendsFit, IInv
  <2>3. QED
    BY <2>1, <2>2
<1>8. QED
  BY <1>1, <1>2, <1>3, <1>4, <1>5, <1>6, <1>7 DEF IInv

LEMMA DispatchStep ==
    ASSUME IInv, NEW q \in Senders, Dispatch(q)
    PROVE  IInv'
<1>1. DeliveriesFit' /\ \A n \in Messages : Cause(n) => Cause(n)'
  BY CauseKept DEF Dispatch, row, world, actors, IInv
<1>2. TypeOK'
  <2>1. \E l \in {"posting", "stamping"} : pc' = [pc EXCEPT ![q] = l]
    BY DEF Dispatch, Jumps
  <2>2. pc' \in [Senders \cup Pollers -> SenderPcs \cup PollerPcs]
    BY <2>1 DEF IInv, TypeOK, SenderPcs
  <2>3. sent' \in [Messages -> Nat]
    BY DEF Dispatch, IInv, TypeOK
  <2>4. QED
    BY <2>2, <2>3 DEF Dispatch, row, deliveries, TypeOK, IInv
<1>3. CopiesFit'
  BY <1>1 DEF Dispatch, Jumps, row, world, deliveries, actors, TypeOK, CopiesFit, IInv
<1>4. BatchIsLate'
  BY DEF Dispatch, Jumps, row, world, actors, BatchIsLate, IInv
<1>5. ArtifactsMatchState'
  BY DEF Dispatch, Jumps, row, world, actors, ArtifactsMatchState, IInv
<1>6. Justified'
  BY <1>1 DEF Dispatch, Jumps, row, world, actors, Justified, IInv
<1>7. SendsFit'
  BY DEF Dispatch, Jumps, row, world, deliveries, actors, TypeOK, SendsFit, IInv
<1>8. QED
  BY <1>1, <1>2, <1>3, <1>4, <1>5, <1>6, <1>7 DEF IInv

LEMMA PostWebhookStep ==
    ASSUME IInv, NEW q \in Senders, NEW c \in Channels, PostWebhook(q, c)
    PROVE  IInv'
<1> DEFINE t == task[q]
<1>1. DeliveriesFit' /\ \A n \in Messages : Cause(n) /\ (FailureDecided(n) \/ n # t) => Cause(n)'
  <2>1. /\ t \in Messages /\ delivery[t][c] = "none"
        /\ delivery' = [delivery EXCEPT ![t][c] = "posted"]
        /\ belated' = [belated EXCEPT ![t] =
                          IF FailureDecided(t) /\ t \notin late THEN @ \cup {c} ELSE @]
        /\ UNCHANGED <<late, task>>
    BY DEF PostWebhook, IInv, TypeOK
  <2>2. ASSUME NEW n \in Messages, n # t
        PROVE  /\ Known(n)' = Known(n) /\ belated'[n] = belated[n]
               /\ delivery'[n] = delivery[n]
    BY <2>1, <2>2 DEF Known, Rows, IInv, TypeOK
  <2>3. /\ delivery'[t][c] = "posted" /\ c \notin Rows(t)
        /\ \A d \in Channels \ {c} : delivery'[t][d] = delivery[t][d]
    BY <2>1 DEF Rows, IInv, TypeOK
  <2>4. CASE FailureDecided(t) /\ t \notin late
    <3>1. Known(t)' = Known(t)
      BY <2>1, <2>3, <2>4 DEF Known, Rows, IInv, TypeOK
    <3>2. Known(t) # {}
      <4>1. CASE \E d \in Channels : delivery[t][d] = "closingAll"
        BY <2>1, <2>4, <4>1 DEF IInv, DeliveriesFit, Known, Rows
      <4>2. CASE Cause(t)
        BY <2>4, <4>2 DEF Cause
      <4>3. QED
        BY <2>1, <2>4, <4>1, <4>2 DEF FailureDecided, IInv, CopiesFit, Justified
    <3>3. DeliveriesFit'
      BY <2>1, <2>2, <2>3, <3>1, <3>2 DEF IInv, DeliveriesFit, Known, Rows
    <3>4. QED
      BY <2>1, <2>2, <2>3, <3>1, <3>3 DEF Cause, Known, Rows
  <2>5. CASE ~ FailureDecided(t) \/ t \in late
    <3>1. belated' = belated
      BY <2>1, <2>5 DEF IInv, TypeOK
    <3>2. Known(t) \subseteq Known(t)'
      BY <2>1, <2>3, <3>1 DEF Known, Rows
    <3>3. DeliveriesFit'
      BY <2>1, <2>2, <2>3, <2>5, <3>1, <3>2 DEF IInv, DeliveriesFit, FailureDecided
    <3>4. QED
      BY <2>1, <2>2, <2>5, <3>3 DEF Cause
  <2>6. QED
    BY <2>4, <2>5
<1>2. TypeOK'
  BY DEF PostWebhook, Jumps, row, world, deliveries, actors, TypeOK, IInv, States, DeliveryStates, SenderPcs, PollerPcs
<1>3. CopiesFit'
  <2>1. \A p \in Pollers : pc'[p] = pc[p] /\ task'[p] = task[p] /\ task[p] \in Messages
    BY ActorsAreDistinct DEF PostWebhook, Jumps, IInv, TypeOK
  <2>2. QED
    BY <1>1, <2>1 DEF PostWebhook, CopiesFit, FailureDecided, IInv
<1>4. BatchIsLate'
  BY DEF PostWebhook, Jumps, row, world, actors, BatchIsLate, IInv
<1>5. ArtifactsMatchState'
  BY DEF PostWebhook, Jumps, row, world, actors, ArtifactsMatchState, IInv
<1>6. Justified'
  BY <1>1 DEF PostWebhook, row, Justified, FailureDecided, IInv
<1>7. SendsFit'
  BY DEF PostWebhook, Jumps, row, world, deliveries, actors, TypeOK, SendsFit, IInv
<1>8. QED
  BY <1>1, <1>2, <1>3, <1>4, <1>5, <1>6, <1>7 DEF IInv

LEMMA StampMetadataStep ==
    ASSUME IInv, NEW q \in Senders, StampMetadata(q)
    PROVE  IInv'
<1>1. DeliveriesFit' /\ \A n \in Messages : Cause(n) => Cause(n)'
  BY CauseKept DEF StampMetadata, row, world, actors, IInv
<1>2. TypeOK'
  BY DEF StampMetadata, Jumps, row, world, deliveries, actors, TypeOK, IInv, States, DeliveryStates, SenderPcs, PollerPcs
<1>3. CopiesFit'
  BY <1>1 DEF StampMetadata, Jumps, row, world, deliveries, actors, TypeOK, CopiesFit, IInv
<1>4. BatchIsLate'
  BY DEF StampMetadata, Jumps, row, world, actors, BatchIsLate, IInv
<1>5. ArtifactsMatchState'
  BY DEF StampMetadata, Jumps, row, world, actors, ArtifactsMatchState, IInv
<1>6. Justified'
  BY <1>1 DEF StampMetadata, Jumps, row, world, actors, Justified, IInv
<1>7. SendsFit'
  BY DEF StampMetadata, Jumps, row, world, deliveries, actors, TypeOK, SendsFit, IInv
<1>8. QED
  BY <1>1, <1>2, <1>3, <1>4, <1>5, <1>6, <1>7 DEF IInv

LEMMA SenderDiesStep ==
    ASSUME IInv, NEW q \in Senders, SenderDies(q)
    PROVE  IInv'
<1>1. DeliveriesFit' /\ \A n \in Messages : Cause(n) => Cause(n)'
  BY CauseKept DEF SenderDies, row, world, actors, IInv
<1>2. TypeOK'
  BY DEF SenderDies, Jumps, row, world, deliveries, actors, TypeOK, IInv, States, DeliveryStates, SenderPcs, PollerPcs
<1>3. CopiesFit'
  BY <1>1 DEF SenderDies, Jumps, row, world, deliveries, actors, TypeOK, CopiesFit, IInv
<1>4. BatchIsLate'
  BY DEF SenderDies, Jumps, row, world, actors, BatchIsLate, IInv
<1>5. ArtifactsMatchState'
  BY DEF SenderDies, Jumps, row, world, actors, ArtifactsMatchState, IInv
<1>6. Justified'
  BY <1>1 DEF SenderDies, Jumps, row, world, actors, Justified, IInv
<1>7. SendsFit'
  BY DEF SenderDies, Jumps, row, world, deliveries, actors, TypeOK, SendsFit, IInv
<1>8. QED
  BY <1>1, <1>2, <1>3, <1>4, <1>5, <1>6, <1>7 DEF IInv

LEMMA ReadTaskStep ==
    ASSUME IInv, NEW p \in Pollers, NEW m \in Messages, ReadTask(p, m)
    PROVE  IInv'
<1>1. DeliveriesFit' /\ \A n \in Messages : Cause(n) => Cause(n)'
  BY CauseKept DEF ReadTask, row, world, actors, IInv
<1>2. TypeOK'
  BY DEF ReadTask, Jumps, row, world, deliveries, actors, TypeOK, IInv, States, DeliveryStates, SenderPcs, PollerPcs
<1>3. CopiesFit'
  BY <1>1 DEF ReadTask, Jumps, row, world, deliveries, actors, TypeOK, CopiesFit, IInv
<1>4. BatchIsLate'
  BY DEF ReadTask, Jumps, row, world, actors, BatchIsLate, IInv
<1>5. ArtifactsMatchState'
  BY DEF ReadTask, Jumps, row, world, actors, ArtifactsMatchState, IInv
<1>6. Justified'
  BY <1>1 DEF ReadTask, Jumps, row, world, actors, Justified, IInv
<1>7. SendsFit'
  BY DEF ReadTask, Jumps, row, world, deliveries, actors, TypeOK, SendsFit, IInv
<1>8. QED
  BY <1>1, <1>2, <1>3, <1>4, <1>5, <1>6, <1>7 DEF IInv

LEMMA ReadGateStep ==
    ASSUME IInv, NEW p \in Pollers, ReadGate(p)
    PROVE  IInv'
<1>1. DeliveriesFit' /\ \A n \in Messages : Cause(n) => Cause(n)'
  BY CauseKept DEF ReadGate, row, world, actors, IInv
<1>2. TypeOK'
  BY DEF ReadGate, Jumps, row, world, deliveries, actors, TypeOK, IInv, States, DeliveryStates, SenderPcs, PollerPcs
<1>3. CopiesFit'
  BY <1>1 DEF ReadGate, Jumps, row, world, deliveries, actors, TypeOK, CopiesFit, IInv
<1>4. BatchIsLate'
  BY DEF ReadGate, Jumps, row, world, actors, BatchIsLate, IInv
<1>5. ArtifactsMatchState'
  BY DEF ReadGate, Jumps, row, world, actors, ArtifactsMatchState, IInv
<1>6. Justified'
  BY <1>1 DEF ReadGate, Jumps, row, world, actors, Justified, IInv
<1>7. SendsFit'
  BY DEF ReadGate, Jumps, row, world, deliveries, actors, TypeOK, SendsFit, IInv
<1>8. QED
  BY <1>1, <1>2, <1>3, <1>4, <1>5, <1>6, <1>7 DEF IInv

LEMMA ParkStep ==
    ASSUME IInv, NEW p \in Pollers, Park(p)
    PROVE  IInv'
<1>1. DeliveriesFit' /\ \A n \in Messages : Cause(n) => Cause(n)'
  BY CauseKept DEF Park, row, world, actors, IInv
<1>2. TypeOK'
  BY DEF Park, Jumps, row, world, deliveries, actors, TypeOK, IInv, States, DeliveryStates, SenderPcs, PollerPcs
<1>3. CopiesFit'
  BY <1>1 DEF Park, Jumps, row, world, deliveries, actors, TypeOK, CopiesFit, IInv
<1>4. BatchIsLate'
  BY DEF Park, Jumps, row, world, actors, BatchIsLate, IInv
<1>5. ArtifactsMatchState'
  BY DEF Park, Jumps, row, world, deliveries, actors, TypeOK, ArtifactsMatchState, CopiesFit, IInv
<1>6. Justified'
  BY <1>1 DEF Park, Jumps, row, world, deliveries, actors, TypeOK, Justified, CopiesFit, BatchIsLate, IInv
<1>7. SendsFit'
  BY DEF Park, Jumps, row, world, deliveries, actors, TypeOK, SendsFit, IInv
<1>8. QED
  BY <1>1, <1>2, <1>3, <1>4, <1>5, <1>6, <1>7 DEF IInv

LEMMA ReadThreadStep ==
    ASSUME IInv, NEW p \in Pollers, ReadThread(p)
    PROVE  IInv'
<1>1. DeliveriesFit' /\ \A n \in Messages : Cause(n) => Cause(n)'
  BY CauseKept DEF ReadThread, row, world, actors, IInv
<1>2. TypeOK'
  BY DEF ReadThread, Jumps, row, world, deliveries, actors, TypeOK, IInv, States, DeliveryStates, SenderPcs, PollerPcs
<1>3. CopiesFit'
  BY <1>1 DEF ReadThread, Jumps, row, world, deliveries, actors, TypeOK, CopiesFit, IInv
<1>4. BatchIsLate'
  BY DEF ReadThread, Jumps, row, world, actors, BatchIsLate, IInv
<1>5. ArtifactsMatchState'
  BY DEF ReadThread, Jumps, row, world, actors, ArtifactsMatchState, IInv
<1>6. Justified'
  BY <1>1 DEF ReadThread, Jumps, row, world, actors, Justified, IInv
<1>7. SendsFit'
  BY DEF ReadThread, Jumps, row, world, deliveries, actors, TypeOK, SendsFit, IInv
<1>8. QED
  BY <1>1, <1>2, <1>3, <1>4, <1>5, <1>6, <1>7 DEF IInv

LEMMA CompleteStep ==
    ASSUME IInv, NEW p \in Pollers, Complete(p)
    PROVE  IInv'
<1>1. DeliveriesFit' /\ \A n \in Messages : Cause(n) => Cause(n)'
  BY CauseKept DEF Complete, row, world, actors, IInv
<1>2. TypeOK'
  BY DEF Complete, Jumps, row, world, deliveries, actors, TypeOK, IInv, States, DeliveryStates, SenderPcs, PollerPcs
<1>3. CopiesFit'
  BY <1>1 DEF Complete, Jumps, row, world, deliveries, actors, TypeOK, CopiesFit, IInv
<1>4. BatchIsLate'
  BY DEF Complete, Jumps, row, world, actors, BatchIsLate, IInv
<1>5. ArtifactsMatchState'
  BY DEF Complete, Jumps, row, world, deliveries, actors, TypeOK, ArtifactsMatchState, CopiesFit, IInv
<1>6. Justified'
  BY <1>1 DEF Complete, Jumps, row, world, deliveries, actors, TypeOK, Justified, CopiesFit, BatchIsLate, IInv
<1>7. SendsFit'
  BY DEF Complete, Jumps, row, world, deliveries, actors, TypeOK, SendsFit, IInv
<1>8. QED
  BY <1>1, <1>2, <1>3, <1>4, <1>5, <1>6, <1>7 DEF IInv

LEMMA JudgeStep ==
    ASSUME IInv, NEW p \in Pollers, Judge(p)
    PROVE  IInv'
<1>1. DeliveriesFit' /\ \A n \in Messages : Cause(n) => Cause(n)'
  BY CauseKept DEF Judge, row, world, actors, IInv
<1>2. TypeOK'
  BY DEF Judge, Jumps, row, world, deliveries, actors, TypeOK, IInv, States, DeliveryStates, SenderPcs, PollerPcs
<1>3. CopiesFit'
  <2>1. task[p] \in Messages
    BY DEF IInv, TypeOK
  <2>2. AllFailed(task[p]) \/ task[p] \in late => Cause(task[p])
    BY <2>1 DEF AllFailed, Cause, Known, Rows, DeliveriesFit, IInv
  <2>3. QED
    BY <1>1, <2>1, <2>2 DEF Judge, Jumps, TypeOK, CopiesFit, IInv, world
<1>4. BatchIsLate'
  BY DEF Judge, Jumps, row, world, actors, BatchIsLate, IInv
<1>5. ArtifactsMatchState'
  BY DEF Judge, Jumps, row, world, actors, ArtifactsMatchState, IInv
<1>6. Justified'
  BY <1>1 DEF Judge, Jumps, row, world, actors, Justified, IInv
<1>7. SendsFit'
  BY DEF Judge, Jumps, row, world, deliveries, actors, TypeOK, SendsFit, IInv
<1>8. QED
  BY <1>1, <1>2, <1>3, <1>4, <1>5, <1>6, <1>7 DEF IInv

LEMMA FailByPollStep ==
    ASSUME IInv, NEW p \in Pollers, FailByPoll(p)
    PROVE  IInv'
<1>1. DeliveriesFit' /\ \A n \in Messages : Cause(n) => Cause(n)'
  BY CauseKept DEF FailByPoll, row, world, actors, IInv
<1>2. TypeOK'
  <2>1. task[p] \in Messages
    BY DEF IInv, TypeOK
  <2>2. /\ state' \in [Messages -> States]
        /\ artifacts' \in [Messages -> SUBSET {"reply", "failure"}]
    BY <2>1, FailTypes DEF IInv, FailByPoll
  <2>3. QED
    BY <2>2 DEF FailByPoll, Jumps, row, world, deliveries, actors, TypeOK, IInv, DeliveryStates, SenderPcs, PollerPcs
<1>3. CopiesFit'
  BY <1>1 DEF FailByPoll, Jumps, row, world, actors, FailIfStillWorking, TypeOK, CopiesFit, IInv
<1>4. BatchIsLate'
  BY DEF FailByPoll, Jumps, row, world, actors, FailIfStillWorking, BatchIsLate, IInv
<1>5. ArtifactsMatchState'
  <2>1. task[p] \in Messages
    BY DEF FailByPoll, IInv, TypeOK
  <2>2. QED
    BY <2>1, FailArtifacts DEF FailByPoll, world, IInv
<1>6. Justified'
  BY <1>1 DEF FailByPoll, Jumps, row, world, actors, FailIfStillWorking, TypeOK, Justified, CopiesFit, BatchIsLate, IInv
<1>7. SendsFit'
  BY DEF FailByPoll, Jumps, row, world, actors, FailIfStillWorking, TypeOK, SendsFit, IInv
<1>8. QED
  BY <1>1, <1>2, <1>3, <1>4, <1>5, <1>6, <1>7 DEF IInv

LEMMA PollEndsStep ==
    ASSUME IInv, NEW p \in Pollers, PollEnds(p)
    PROVE  IInv'
<1>1. DeliveriesFit' /\ \A n \in Messages : Cause(n) => Cause(n)'
  BY CauseKept DEF PollEnds, row, world, actors, IInv
<1>2. TypeOK'
  BY DEF PollEnds, Jumps, row, world, deliveries, actors, TypeOK, IInv, States, DeliveryStates, SenderPcs, PollerPcs
<1>3. CopiesFit'
  BY <1>1 DEF PollEnds, Jumps, row, world, deliveries, actors, TypeOK, CopiesFit, IInv
<1>4. BatchIsLate'
  BY DEF PollEnds, Jumps, row, world, actors, BatchIsLate, IInv
<1>5. ArtifactsMatchState'
  BY DEF PollEnds, Jumps, row, world, actors, ArtifactsMatchState, IInv
<1>6. Justified'
  BY <1>1 DEF PollEnds, Jumps, row, world, actors, Justified, IInv
<1>7. SendsFit'
  BY DEF PollEnds, Jumps, row, world, deliveries, actors, TypeOK, SendsFit, IInv
<1>8. QED
  BY <1>1, <1>2, <1>3, <1>4, <1>5, <1>6, <1>7 DEF IInv

LEMMA SelectExpiredStep ==
    ASSUME IInv, NEW s \in Sweeps, SelectExpired(s)
    PROVE  IInv'
<1>1. DeliveriesFit' /\ \A n \in Messages : Cause(n) => Cause(n)'
  BY CauseKept DEF SelectExpired, row, world, actors, IInv
<1>2. TypeOK'
  BY DEF SelectExpired, row, world, deliveries, actors, TypeOK, IInv, States, DeliveryStates, SenderPcs, PollerPcs
<1>3. CopiesFit'
  BY <1>1 DEF SelectExpired, row, world, actors, TypeOK, CopiesFit, IInv
<1>4. BatchIsLate'
  BY DEF SelectExpired, row, world, deliveries, actors, TypeOK, BatchIsLate, IInv
<1>5. ArtifactsMatchState'
  BY DEF SelectExpired, row, world, actors, ArtifactsMatchState, IInv
<1>6. Justified'
  BY <1>1 DEF SelectExpired, row, world, actors, Justified, IInv
<1>7. SendsFit'
  BY DEF SelectExpired, row, world, actors, SendsFit, IInv
<1>8. QED
  BY <1>1, <1>2, <1>3, <1>4, <1>5, <1>6, <1>7 DEF IInv

LEMMA SkipEndedStep ==
    ASSUME IInv, NEW s \in Sweeps, NEW m \in Messages, SkipEnded(s, m)
    PROVE  IInv'
<1>1. DeliveriesFit' /\ \A n \in Messages : Cause(n) => Cause(n)'
  BY CauseKept DEF SkipEnded, row, world, actors, IInv
<1>2. TypeOK'
  BY DEF SkipEnded, row, world, deliveries, actors, TypeOK, IInv, States, DeliveryStates, SenderPcs, PollerPcs
<1>3. CopiesFit'
  BY <1>1 DEF SkipEnded, row, world, deliveries, actors, TypeOK, CopiesFit, IInv
<1>4. BatchIsLate'
  BY DEF SkipEnded, row, world, deliveries, actors, TypeOK, BatchIsLate, IInv
<1>5. ArtifactsMatchState'
  BY DEF SkipEnded, row, world, actors, ArtifactsMatchState, IInv
<1>6. Justified'
  BY <1>1 DEF SkipEnded, row, world, actors, Justified, IInv
<1>7. SendsFit'
  BY DEF SkipEnded, row, world, actors, SendsFit, IInv
<1>8. QED
  BY <1>1, <1>2, <1>3, <1>4, <1>5, <1>6, <1>7 DEF IInv

LEMMA SweepDiesStep ==
    ASSUME IInv, NEW s \in Sweeps, SweepDies(s)
    PROVE  IInv'
<1>1. DeliveriesFit' /\ \A n \in Messages : Cause(n) => Cause(n)'
  BY CauseKept DEF SweepDies, row, world, actors, IInv
<1>2. TypeOK'
  BY DEF SweepDies, row, world, deliveries, actors, TypeOK, IInv, States, DeliveryStates, SenderPcs, PollerPcs
<1>3. CopiesFit'
  BY <1>1 DEF SweepDies, row, world, deliveries, actors, TypeOK, CopiesFit, IInv
<1>4. BatchIsLate'
  BY DEF SweepDies, row, world, deliveries, actors, TypeOK, BatchIsLate, IInv
<1>5. ArtifactsMatchState'
  BY DEF SweepDies, row, world, actors, ArtifactsMatchState, IInv
<1>6. Justified'
  BY <1>1 DEF SweepDies, row, world, actors, Justified, IInv
<1>7. SendsFit'
  BY DEF SweepDies, row, world, actors, SendsFit, IInv
<1>8. QED
  BY <1>1, <1>2, <1>3, <1>4, <1>5, <1>6, <1>7 DEF IInv

LEMMA FailBySweepStep ==
    ASSUME IInv, NEW s \in Sweeps, FailBySweep(s)
    PROVE  IInv'
<1>a. /\ \A m \in Messages :
            /\ state'[m] = IF m \in batch[s] THEN "FAILED" ELSE state[m]
            /\ artifacts'[m] = artifacts[m] \cup IF m \in batch[s] THEN {"failure"} ELSE {}
      /\ batch[s] \subseteq late
  BY DEF FailBySweep, IInv, BatchIsLate
<1>1. DeliveriesFit' /\ \A n \in Messages : Cause(n) => Cause(n)'
  BY CauseKept DEF FailBySweep, world, actors, IInv
<1>2. TypeOK'
  <2>1. state' \in [Messages -> States]
    BY DEF FailBySweep, IInv, TypeOK, States
  <2>2. artifacts' \in [Messages -> SUBSET {"reply", "failure"}]
    BY DEF FailBySweep, IInv, TypeOK
  <2>3. QED
    BY <2>1, <2>2 DEF FailBySweep, world, deliveries, TypeOK, IInv
<1>3. CopiesFit'
  BY <1>1 DEF FailBySweep, world, TypeOK, CopiesFit, IInv
<1>4. BatchIsLate'
  BY DEF FailBySweep, world, TypeOK, BatchIsLate, IInv
<1>5. ArtifactsMatchState'
  BY <1>a DEF FailBySweep, world, ArtifactsMatchState, IInv
<1>6. Justified'
  <2>1. \A m \in batch[s] : Cause(m)'
    BY <1>a DEF FailBySweep, world, Cause
  <2>2. QED
    BY <1>1, <1>a, <2>1 DEF Justified, IInv
<1>7. SendsFit'
  BY <1>a DEF FailBySweep, world, TypeOK, SendsFit, IInv
<1>8. QED
  BY <1>1, <1>2, <1>3, <1>4, <1>5, <1>6, <1>7 DEF IInv

\* A posted row takes its next status; to close its task all others must have
\* failed, and it is no row that a cause counts as failed.
LEMMA PostedMoves ==
    ASSUME IInv, NEW m \in Messages, NEW c \in Channels, delivery[m][c] = "posted",
           NEW v \in {"accepted", "closing", "closingAll"},
           delivery' = [delivery EXCEPT ![m][c] = v], UNCHANGED <<belated, late>>,
           v = "closingAll" => \A d \in Known(m) \ {c} : delivery[m][d] = "failed"
    PROVE  DeliveriesFit' /\ \A n \in Messages : Cause(n) => Cause(n)'
<1>1. \A n \in Messages, d \in Channels :
        delivery'[n][d] = IF n = m /\ d = c THEN v ELSE delivery[n][d]
  BY DEF IInv, TypeOK
<1>2. \A n \in Messages : Known(n)' = Known(n)
  BY <1>1 DEF Known, Rows
<1>3. \A n \in Messages : Known(n) \subseteq Channels
  BY DEF Known, Rows
<1>4. \A n \in Messages : Cause(n) => Cause(n)'
  BY <1>1, <1>2, <1>3 DEF Cause
<1>5. ASSUME NEW n \in Messages, NEW d \in Channels, delivery'[n][d] = "closingAll",
             n \notin late
      PROVE  \A x \in Known(n) \ {d} : delivery'[n][x] = "failed"
  <2>1. CASE n = m /\ d = c
    BY <1>1, <1>3, <1>5, <2>1
  <2>2. CASE ~ (n = m /\ d = c)
    <3>1. \A x \in Known(n) \ {d} : delivery[n][x] = "failed"
      BY <1>1, <1>5, <2>2 DEF IInv, DeliveriesFit
    <3>2. QED
      BY <1>1, <1>3, <3>1
  <2>3. QED
    BY <2>1, <2>2
<1>6. QED
  BY <1>2, <1>4, <1>5 DEF IInv, DeliveriesFit

LEMMA WebhookAcceptedStep ==
    ASSUME IInv, NEW m \in Messages, NEW c \in Channels, WebhookAccepted(m, c)
    PROVE  IInv'
<1>1. DeliveriesFit' /\ \A n \in Messages : Cause(n) => Cause(n)'
  BY PostedMoves DEF WebhookAccepted
<1>2. TypeOK'
  BY DEF WebhookAccepted, row, actors, TypeOK, IInv, States, DeliveryStates, SenderPcs, PollerPcs
<1>3. CopiesFit'
  BY <1>1 DEF WebhookAccepted, actors, TypeOK, CopiesFit, IInv
<1>4. BatchIsLate'
  BY DEF WebhookAccepted, actors, BatchIsLate, IInv
<1>5. ArtifactsMatchState'
  BY DEF WebhookAccepted, row, ArtifactsMatchState, IInv
<1>6. Justified'
  BY <1>1 DEF WebhookAccepted, row, Justified, IInv
<1>7. SendsFit'
  BY DEF WebhookAccepted, row, actors, SendsFit, IInv
<1>8. QED
  BY <1>1, <1>2, <1>3, <1>4, <1>5, <1>6, <1>7 DEF IInv

LEMMA BeginDeliveryFailedStep ==
    ASSUME IInv, NEW m \in Messages, NEW c \in Channels, BeginDeliveryFailed(m, c)
    PROVE  IInv'
<1>1. DeliveriesFit' /\ \A n \in Messages : Cause(n) => Cause(n)'
  <2>1. CASE delivery'[m][c] = "closingAll"
    <3>1. \A d \in Rows(m) \ {c} : delivery[m][d] = "failed"
      BY <2>1 DEF BeginDeliveryFailed, IInv, TypeOK
    <3>2. QED
      BY <3>1, PostedMoves DEF BeginDeliveryFailed, Known
  <2>2. CASE delivery'[m][c] # "closingAll"
    BY <2>2, PostedMoves DEF BeginDeliveryFailed, IInv, TypeOK
  <2>3. QED
    BY <2>1, <2>2
<1>2. TypeOK'
  BY DEF BeginDeliveryFailed, row, actors, TypeOK, IInv, States, DeliveryStates, SenderPcs, PollerPcs
<1>3. CopiesFit'
  BY <1>1 DEF BeginDeliveryFailed, actors, TypeOK, CopiesFit, IInv
<1>4. BatchIsLate'
  BY DEF BeginDeliveryFailed, actors, BatchIsLate, IInv
<1>5. ArtifactsMatchState'
  BY DEF BeginDeliveryFailed, row, ArtifactsMatchState, IInv
<1>6. Justified'
  BY <1>1 DEF BeginDeliveryFailed, row, Justified, IInv
<1>7. SendsFit'
  BY DEF BeginDeliveryFailed, row, actors, SendsFit, IInv
<1>8. QED
  BY <1>1, <1>2, <1>3, <1>4, <1>5, <1>6, <1>7 DEF IInv

LEMMA EndDeliveryFailedStep ==
    ASSUME IInv, NEW m \in Messages, NEW c \in Channels, EndDeliveryFailed(m, c)
    PROVE  IInv'
<1>1. DeliveriesFit' /\ \A n \in Messages : Cause(n) => Cause(n)'
  <2>1. \A n \in Messages, d \in Channels :
          delivery'[n][d] = IF n = m /\ d = c THEN "failed" ELSE delivery[n][d]
    BY DEF EndDeliveryFailed, IInv, TypeOK
  <2>2. \A n \in Messages : Known(n)' = Known(n) /\ Known(n) \subseteq Channels
    BY <2>1 DEF EndDeliveryFailed, Known, Rows
  <2>3. DeliveriesFit'
    BY <2>1, <2>2 DEF EndDeliveryFailed, IInv, DeliveriesFit
  <2>4. QED
    BY <2>1, <2>2, <2>3 DEF EndDeliveryFailed, Cause
<1>2. TypeOK'
  <2>2. /\ state' \in [Messages -> States]
        /\ artifacts' \in [Messages -> SUBSET {"reply", "failure"}]
    <3>1. CASE FailIfStillWorking(m)
      BY <3>1, FailTypes DEF IInv
    <3>2. CASE UNCHANGED <<state, artifacts>>
      BY <3>2 DEF IInv, TypeOK
    <3>3. QED
      BY <3>1, <3>2 DEF EndDeliveryFailed
  <2>3. QED
    BY <2>2 DEF EndDeliveryFailed, row, actors, TypeOK, IInv, DeliveryStates, SenderPcs, PollerPcs
<1>3. CopiesFit'
  BY <1>1 DEF EndDeliveryFailed, actors, TypeOK, CopiesFit, IInv
<1>4. BatchIsLate'
  BY DEF EndDeliveryFailed, actors, BatchIsLate, IInv
<1>5. ArtifactsMatchState'
  <2>1. CASE FailIfStillWorking(m)
    BY <2>1, FailArtifacts DEF EndDeliveryFailed, IInv
  <2>2. CASE UNCHANGED <<state, artifacts>>
    BY <2>2 DEF EndDeliveryFailed, ArtifactsMatchState, IInv
  <2>3. QED
    BY <2>1, <2>2 DEF EndDeliveryFailed
<1>6. Justified'
  <2>1. CASE delivery[m][c] = "closingAll"
    <3>1. \A n \in Messages, d \in Channels :
            delivery'[n][d] = IF n = m /\ d = c THEN "failed" ELSE delivery[n][d]
      BY DEF EndDeliveryFailed, IInv, TypeOK
    <3>2. Known(m)' = Known(m) /\ Known(m) \subseteq Channels /\ Known(m) # {}
      BY <2>1, <3>1 DEF EndDeliveryFailed, Known, Rows, IInv, DeliveriesFit
    <3>3. m \in late \/ \A d \in Known(m) \ {c} : delivery[m][d] = "failed"
      BY <2>1 DEF IInv, DeliveriesFit
    <3>4. Cause(m)'
      BY <3>1, <3>2, <3>3 DEF EndDeliveryFailed, Cause
    <3>5. \A n \in Messages \ {m} : state'[n] = state[n]
      BY <2>1 DEF EndDeliveryFailed, FailIfStillWorking, IInv, TypeOK
    <3>6. QED
      BY <1>1, <3>4, <3>5 DEF Justified, IInv
  <2>2. CASE delivery[m][c] # "closingAll"
    BY <1>1, <2>2 DEF EndDeliveryFailed, Justified, IInv
  <2>3. QED
    BY <2>1, <2>2
<1>7. SendsFit'
  BY DEF EndDeliveryFailed, row, actors, FailIfStillWorking, TypeOK, SendsFit, IInv
<1>8. QED
  BY <1>1, <1>2, <1>3, <1>4, <1>5, <1>6, <1>7 DEF IInv

LEMMA BeginLinkStep ==
    ASSUME IInv, NEW m \in Messages, BeginLink(m)
    PROVE  IInv'
<1>1. DeliveriesFit' /\ \A n \in Messages : Cause(n) => Cause(n)'
  BY CauseKept DEF BeginLink, row, world, actors, IInv
<1>2. TypeOK'
  BY DEF BeginLink, row, world, deliveries, actors, TypeOK, IInv, States, DeliveryStates, SenderPcs, PollerPcs
<1>3. CopiesFit'
  BY <1>1 DEF BeginLink, row, world, actors, TypeOK, CopiesFit, IInv
<1>4. BatchIsLate'
  BY DEF BeginLink, row, world, actors, BatchIsLate, IInv
<1>5. ArtifactsMatchState'
  BY DEF BeginLink, row, world, actors, ArtifactsMatchState, IInv
<1>6. Justified'
  BY <1>1 DEF BeginLink, row, world, actors, Justified, IInv
<1>7. SendsFit'
  BY DEF BeginLink, row, world, actors, SendsFit, IInv
<1>8. QED
  BY <1>1, <1>2, <1>3, <1>4, <1>5, <1>6, <1>7 DEF IInv

LEMMA EndLinkStep ==
    ASSUME IInv, NEW m \in Messages, EndLink(m)
    PROVE  IInv'
<1>1. DeliveriesFit' /\ \A n \in Messages : Cause(n) => Cause(n)'
  BY CauseKept DEF EndLink, row, world, actors, IInv
<1>2. TypeOK'
  BY DEF EndLink, row, world, deliveries, actors, TypeOK, IInv, States, DeliveryStates, SenderPcs, PollerPcs
<1>3. CopiesFit'
  BY <1>1 DEF EndLink, row, world, actors, TypeOK, CopiesFit, IInv
<1>4. BatchIsLate'
  BY DEF EndLink, row, world, actors, BatchIsLate, IInv
<1>5. ArtifactsMatchState'
  BY DEF EndLink, row, world, actors, ArtifactsMatchState, IInv
<1>6. Justified'
  BY <1>1 DEF EndLink, row, world, actors, Justified, IInv
<1>7. SendsFit'
  BY DEF EndLink, row, world, actors, SendsFit, IInv
<1>8. QED
  BY <1>1, <1>2, <1>3, <1>4, <1>5, <1>6, <1>7 DEF IInv

LEMMA BeginResolveStep ==
    ASSUME IInv, NEW m \in Messages, BeginResolve(m)
    PROVE  IInv'
<1>1. DeliveriesFit' /\ \A n \in Messages : Cause(n) => Cause(n)'
  BY CauseKept DEF BeginResolve, row, world, actors, IInv
<1>2. TypeOK'
  BY DEF BeginResolve, row, world, deliveries, actors, TypeOK, IInv, States, DeliveryStates, SenderPcs, PollerPcs
<1>3. CopiesFit'
  BY <1>1 DEF BeginResolve, row, world, actors, TypeOK, CopiesFit, IInv
<1>4. BatchIsLate'
  BY DEF BeginResolve, row, world, actors, BatchIsLate, IInv
<1>5. ArtifactsMatchState'
  BY DEF BeginResolve, row, world, actors, ArtifactsMatchState, IInv
<1>6. Justified'
  BY <1>1 DEF BeginResolve, row, world, actors, Justified, IInv
<1>7. SendsFit'
  BY DEF BeginResolve, row, world, actors, SendsFit, IInv
<1>8. QED
  BY <1>1, <1>2, <1>3, <1>4, <1>5, <1>6, <1>7 DEF IInv

LEMMA EndResolveStep ==
    ASSUME IInv, NEW m \in Messages, NEW v \in {"approved", "rejected"}, EndResolve(m, v)
    PROVE  IInv'
<1>1. DeliveriesFit' /\ \A n \in Messages : Cause(n) => Cause(n)'
  BY CauseKept DEF EndResolve, row, world, actors, IInv
<1>2. TypeOK'
  BY DEF EndResolve, row, world, deliveries, actors, TypeOK, IInv, States, DeliveryStates, SenderPcs, PollerPcs
<1>3. CopiesFit'
  BY <1>1 DEF EndResolve, row, world, actors, TypeOK, CopiesFit, IInv
<1>4. BatchIsLate'
  BY DEF EndResolve, row, world, actors, BatchIsLate, IInv
<1>5. ArtifactsMatchState'
  BY DEF EndResolve, row, world, deliveries, actors, TypeOK, ArtifactsMatchState, CopiesFit, IInv
<1>6. Justified'
  BY <1>1 DEF EndResolve, row, world, deliveries, actors, TypeOK, Justified, CopiesFit, BatchIsLate, IInv
<1>7. SendsFit'
  BY DEF EndResolve, row, world, deliveries, actors, TypeOK, SendsFit, IInv
<1>8. QED
  BY <1>1, <1>2, <1>3, <1>4, <1>5, <1>6, <1>7 DEF IInv

LEMMA CreateGateStep ==
    ASSUME IInv, NEW m \in Messages, CreateGate(m)
    PROVE  IInv'
<1>1. DeliveriesFit' /\ \A n \in Messages : Cause(n) => Cause(n)'
  BY CauseKept DEF CreateGate, row, world, actors, IInv
<1>2. TypeOK'
  BY DEF CreateGate, row, world, deliveries, actors, TypeOK, IInv, States, DeliveryStates, SenderPcs, PollerPcs
<1>3. CopiesFit'
  BY <1>1 DEF CreateGate, row, world, actors, TypeOK, CopiesFit, IInv
<1>4. BatchIsLate'
  BY DEF CreateGate, row, world, actors, BatchIsLate, IInv
<1>5. ArtifactsMatchState'
  BY DEF CreateGate, row, world, actors, ArtifactsMatchState, IInv
<1>6. Justified'
  BY <1>1 DEF CreateGate, row, world, actors, Justified, IInv
<1>7. SendsFit'
  BY DEF CreateGate, row, world, actors, SendsFit, IInv
<1>8. QED
  BY <1>1, <1>2, <1>3, <1>4, <1>5, <1>6, <1>7 DEF IInv

LEMMA ReplyStep ==
    ASSUME IInv, NEW m \in Messages, Reply(m)
    PROVE  IInv'
<1>1. DeliveriesFit' /\ \A n \in Messages : Cause(n) => Cause(n)'
  BY CauseKept DEF Reply, row, world, actors, IInv
<1>2. TypeOK'
  BY DEF Reply, row, world, deliveries, actors, TypeOK, IInv, States, DeliveryStates, SenderPcs, PollerPcs
<1>3. CopiesFit'
  BY <1>1 DEF Reply, row, world, deliveries, actors, TypeOK, CopiesFit, IInv
<1>4. BatchIsLate'
  BY DEF Reply, row, world, actors, BatchIsLate, IInv
<1>5. ArtifactsMatchState'
  BY DEF Reply, row, world, deliveries, actors, TypeOK, ArtifactsMatchState, CopiesFit, IInv
<1>6. Justified'
  BY <1>1 DEF Reply, row, world, actors, Justified, IInv
<1>7. SendsFit'
  BY DEF Reply, row, world, actors, SendsFit, IInv
<1>8. QED
  BY <1>1, <1>2, <1>3, <1>4, <1>5, <1>6, <1>7 DEF IInv

LEMMA DeadlinePassesStep ==
    ASSUME IInv, NEW m \in Messages, DeadlinePasses(m)
    PROVE  IInv'
<1>1. DeliveriesFit' /\ \A n \in Messages : Cause(n) => Cause(n)'
  BY CauseKept DEF DeadlinePasses, row, world, actors, IInv
<1>2. TypeOK'
  BY DEF DeadlinePasses, row, world, deliveries, actors, TypeOK, IInv, States, DeliveryStates, SenderPcs, PollerPcs
<1>3. CopiesFit'
  BY <1>1 DEF DeadlinePasses, row, world, deliveries, actors, TypeOK, CopiesFit, IInv
<1>4. BatchIsLate'
  BY DEF DeadlinePasses, row, world, deliveries, actors, TypeOK, BatchIsLate, IInv
<1>5. ArtifactsMatchState'
  BY DEF DeadlinePasses, row, world, actors, ArtifactsMatchState, IInv
<1>6. Justified'
  BY <1>1 DEF DeadlinePasses, row, world, deliveries, actors, TypeOK, Justified, CopiesFit, BatchIsLate, IInv
<1>7. SendsFit'
  BY DEF DeadlinePasses, row, world, actors, SendsFit, IInv
<1>8. QED
  BY <1>1, <1>2, <1>3, <1>4, <1>5, <1>6, <1>7 DEF IInv

-----------------------------------------------------------------------------
LEMMA InitInv == Init => IInv
<1> SUFFICES ASSUME Init PROVE IInv
  OBVIOUS
<1>1. TypeOK
  BY DEF Init, TypeOK, States, DeliveryStates, SenderPcs, PollerPcs
<1>2. CopiesFit /\ BatchIsLate
  BY DEF Init, CopiesFit, BatchIsLate
<1>3. ArtifactsMatchState /\ Justified
  BY DEF Init, ArtifactsMatchState, Justified
<1>4. SendsFit /\ DeliveriesFit
  BY DEF Init, SendsFit, DeliveriesFit
<1>5. QED
  BY <1>1, <1>2, <1>3, <1>4 DEF IInv

LEMMA StepInv == IInv /\ [Next]_vars => IInv'
<1> SUFFICES ASSUME IInv, [Next]_vars PROVE IInv'
  OBVIOUS
<1>1. CASE Next
  <2>1. ASSUME NEW q \in Senders, BeginSend(q) PROVE IInv'
    BY <2>1, BeginSendStep
  <2>2. ASSUME NEW q \in Senders, InsertTask(q) PROVE IInv'
    BY <2>2, InsertTaskStep
  <2>3. ASSUME NEW q \in Senders, Dispatch(q) PROVE IInv'
    BY <2>3, DispatchStep
  <2>4. ASSUME NEW q \in Senders, NEW c \in Channels, PostWebhook(q, c) PROVE IInv'
    BY <2>4, PostWebhookStep
  <2>5. ASSUME NEW q \in Senders, StampMetadata(q) PROVE IInv'
    BY <2>5, StampMetadataStep
  <2>6. ASSUME NEW q \in Senders, SenderDies(q) PROVE IInv'
    BY <2>6, SenderDiesStep
  <2>7. ASSUME NEW p \in Pollers, NEW m \in Messages, ReadTask(p, m) PROVE IInv'
    BY <2>7, ReadTaskStep
  <2>8. ASSUME NEW p \in Pollers, ReadGate(p) PROVE IInv'
    BY <2>8, ReadGateStep
  <2>9. ASSUME NEW p \in Pollers, Park(p) PROVE IInv'
    BY <2>9, ParkStep
  <2>10. ASSUME NEW p \in Pollers, ReadThread(p) PROVE IInv'
    BY <2>10, ReadThreadStep
  <2>11. ASSUME NEW p \in Pollers, Complete(p) PROVE IInv'
    BY <2>11, CompleteStep
  <2>12. ASSUME NEW p \in Pollers, Judge(p) PROVE IInv'
    BY <2>12, JudgeStep
  <2>13. ASSUME NEW p \in Pollers, FailByPoll(p) PROVE IInv'
    BY <2>13, FailByPollStep
  <2>14. ASSUME NEW p \in Pollers, PollEnds(p) PROVE IInv'
    BY <2>14, PollEndsStep
  <2>15. ASSUME NEW s \in Sweeps, SelectExpired(s) PROVE IInv'
    BY <2>15, SelectExpiredStep
  <2>16. ASSUME NEW s \in Sweeps, FailBySweep(s) PROVE IInv'
    BY <2>16, FailBySweepStep
  <2>17. ASSUME NEW m \in Messages, NEW c \in Channels, WebhookAccepted(m, c) PROVE IInv'
    BY <2>17, WebhookAcceptedStep
  <2>18. ASSUME NEW m \in Messages, NEW c \in Channels, BeginDeliveryFailed(m, c) PROVE IInv'
    BY <2>18, BeginDeliveryFailedStep
  <2>19. ASSUME NEW m \in Messages, NEW c \in Channels, EndDeliveryFailed(m, c) PROVE IInv'
    BY <2>19, EndDeliveryFailedStep
  <2>20. ASSUME NEW m \in Messages, BeginLink(m) PROVE IInv'
    BY <2>20, BeginLinkStep
  <2>21. ASSUME NEW m \in Messages, EndLink(m) PROVE IInv'
    BY <2>21, EndLinkStep
  <2>22. ASSUME NEW m \in Messages, BeginResolve(m) PROVE IInv'
    BY <2>22, BeginResolveStep
  <2>23. ASSUME NEW m \in Messages, NEW v \in {"approved", "rejected"}, EndResolve(m, v) PROVE IInv'
    BY <2>23, EndResolveStep
  <2>24. ASSUME NEW m \in Messages, CreateGate(m) PROVE IInv'
    BY <2>24, CreateGateStep
  <2>25. ASSUME NEW m \in Messages, Reply(m) PROVE IInv'
    BY <2>25, ReplyStep
  <2>26. ASSUME NEW m \in Messages, DeadlinePasses(m) PROVE IInv'
    BY <2>26, DeadlinePassesStep
  <2>27. ASSUME NEW s \in Sweeps, NEW m \in Messages, SkipEnded(s, m) PROVE IInv'
    BY <2>27, SkipEndedStep
  <2>28. ASSUME NEW s \in Sweeps, SweepDies(s) PROVE IInv'
    BY <2>28, SweepDiesStep
  <2>29. QED
    BY <1>1, <2>1, <2>2, <2>3, <2>4, <2>5, <2>6, <2>7, <2>8, <2>9, <2>10, <2>11, <2>12, <2>13, <2>14, <2>15, <2>16, <2>17, <2>18, <2>19, <2>20, <2>21, <2>22, <2>23, <2>24, <2>25, <2>26, <2>27, <2>28
    DEF Next, SendStep, PollStep, SweepStep, GateStep, WorldStep, DeliveryStep
<1>2. CASE UNCHANGED vars
  <2>1. DeliveriesFit' /\ \A n \in Messages : Cause(n) => Cause(n)'
    BY <1>2, CauseKept DEF vars, world, IInv
  <2>2. QED
    BY <1>2, <2>1 DEF IInv, TypeOK, CopiesFit, BatchIsLate, ArtifactsMatchState,
       Justified, SendsFit, vars, row, world, deliveries, actors
<1>3. QED
  BY <1>1, <1>2

LEMMA Invariance == Spec => []IInv
BY InitInv, StepInv, PTL DEF Spec

\* The columns of a task, its deliveries and the places of requests keep their
\* values.
THEOREM A2ATypes == Spec => []TypeOK
BY Invariance, PTL DEF IInv

\* However many retries of a SendMessage meet, under the advisory lock or with
\* only the UNIQUE index, the member gets the task once.
THEOREM A2ADispatchedOnce == Spec => []DispatchedOnce
<1>1. IInv => DispatchedOnce
  BY DEF IInv, TypeOK, SendsFit, DispatchedOnce
<1>2. QED
  BY Invariance, <1>1, PTL

\* A finished task shows the artifacts of its last outcome, although pollers
\* write what they decided on a copy of the row.
THEOREM A2AArtifacts == Spec => []ArtifactsMatchState
BY Invariance, PTL DEF IInv

\* A poll, the sweep and the hook of a delivery fail a task before its deadline
\* only if every webhook gave up that had a row when that was decided.
THEOREM A2AFailureHasCause == Spec => []FailureHasCause
<1>1. IInv => FailureHasCause
  BY DEF IInv, Justified, Cause, FailureHasCause
<1>2. QED
  BY Invariance, <1>1, PTL

\* No failure replaces a completion: the writers of FAILED compare the state.
THEOREM A2ACompletedNotFailed == Spec => CompletedNotFailed
<1> DEFINE Kept == \A m \in Messages : state[m] = "COMPLETED" => state'[m] # "FAILED"
<1>1. IInv /\ [Next]_vars => [Kept]_vars
  <2> SUFFICES ASSUME IInv, Next, NEW m \in Messages, state[m] = "COMPLETED"
               PROVE  state'[m] # "FAILED"
    OBVIOUS
  <2> USE DEF IInv, TypeOK
  <2>1. ASSUME NEW q \in Senders, SendStep(q) PROVE state'[m] # "FAILED"
    BY <2>1 DEF SendStep, BeginSend, InsertTask, Dispatch, PostWebhook,
       StampMetadata, SenderDies, row
  <2>2. ASSUME NEW p \in Pollers, PollStep(p) PROVE state'[m] # "FAILED"
    BY <2>2 DEF PollStep, ReadTask, ReadGate, Park, ReadThread, Complete, Judge,
       FailByPoll, FailIfStillWorking, PollEnds, row
  <2>3. ASSUME NEW s \in Sweeps, SweepStep(s) \/ SweepDies(s) PROVE state'[m] # "FAILED"
    BY <2>3 DEF SweepStep, SelectExpired, SkipEnded, FailBySweep, SweepDies, row
  <2>4. ASSUME NEW n \in Messages, GateStep(n) PROVE state'[m] # "FAILED"
    <3>1. ASSUME NEW v \in {"approved", "rejected"}, EndResolve(n, v)
          PROVE  state'[m] # "FAILED"
      BY <3>1 DEF EndResolve
    <3>2. CASE BeginLink(n) \/ EndLink(n) \/ BeginResolve(n)
      BY <3>2 DEF BeginLink, EndLink, BeginResolve, row
    <3>3. QED
      BY <2>4, <3>1, <3>2 DEF GateStep
  <2>5. ASSUME NEW n \in Messages, WorldStep(n) PROVE state'[m] # "FAILED"
    BY <2>5 DEF WorldStep, CreateGate, Reply, DeadlinePasses, row
  <2>6. ASSUME NEW n \in Messages, NEW c \in Channels, DeliveryStep(n, c)
        PROVE  state'[m] # "FAILED"
    BY <2>6 DEF DeliveryStep, WebhookAccepted, BeginDeliveryFailed,
       EndDeliveryFailed, FailIfStillWorking, row
  <2>7. QED
    BY <2>1, <2>2, <2>3, <2>4, <2>5, <2>6 DEF Next
<1>2. QED
  BY Invariance, <1>1, PTL DEF Spec, CompletedNotFailed
=============================================================================
