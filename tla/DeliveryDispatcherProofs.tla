--------------------- MODULE DeliveryDispatcherProofs ---------------------
(***************************************************************************)
(* Theorems about the delivery outbox, for any number of jobs, backend     *)
(* instances, attempts and faults.                                         *)
(***************************************************************************)
EXTENDS DeliveryDispatcher, FiniteSetTheorems, TLAPS

USE JobsAssumption, WorkersAssumption, LimitsAssumption

(* The actions and the rows they change always have their types.           *)
THEOREM TypeCorrect == Spec => []TypeOK
<1>1. Init => TypeOK
  BY DEF Init, TypeOK, Statuses, Ticks, Phases
<1>2. TypeOK /\ [Next]_vars => TypeOK'
  <2> SUFFICES ASSUME TypeOK, [Next]_vars PROVE TypeOK'
    OBVIOUS
  <2> USE DEF TypeOK, Statuses, Ticks, Phases, history
  <2>1. ASSUME NEW j \in Jobs, Enqueue(j) PROVE TypeOK'
    BY <2>1 DEF Enqueue
  <2>2. ASSUME NEW j \in Jobs, ClaimExpires(j) PROVE TypeOK'
    BY <2>2 DEF ClaimExpires
  <2>3. ASSUME NEW w \in Workers, DispatcherLoop(w) PROVE TypeOK'
    <3>1. CASE ReapExpiredClaims(w)
      BY <3>1 DEF ReapExpiredClaims
    <3>2. CASE ClaimBatch(w)
      <4>1. PICK S \in SUBSET Pending :
              /\ status' = [j \in Jobs |-> IF j \in S THEN "claimed"
                                           ELSE status[j]]
              /\ attempts' = [j \in Jobs |-> IF j \in S THEN attempts[j] + 1
                                             ELSE attempts[j]]
              /\ stale' = stale \ S
              /\ phase' = [phase EXCEPT ![w] =
                     [j \in Jobs |-> IF j \in S THEN "queued" ELSE @[j]]]
              /\ seen' = [seen EXCEPT ![w] =
                     [j \in Jobs |-> IF j \in S THEN attempts[j] + 1
                                     ELSE @[j]]]
              /\ tick' = [tick EXCEPT ![w] = IF S = {} THEN "reap"
                                             ELSE "deliver"]
        BY <3>2 DEF ClaimBatch
      <4> QED
        BY <4>1, <3>2 DEF ClaimBatch, Pending
    <3>3. CASE StartChunk(w)
      BY <3>3 DEF StartChunk, Queued
    <3>4. CASE EndBatch(w)
      BY <3>4 DEF EndBatch
    <3>5. CASE Crash(w)
      <4>1. faults' \in 0..MaxFaults
        BY <3>5 DEF Crash
      <4>2. phase' \in [Workers -> [Jobs -> Phases]]
        BY <3>5 DEF Crash
      <4> QED
        BY <3>5, <4>1, <4>2 DEF Crash
    <3> QED
      BY <2>3, <3>1, <3>2, <3>3, <3>4, <3>5 DEF DispatcherLoop
  <2>4. ASSUME NEW w \in Workers, NEW j \in Jobs, DeliverOne(w, j)
        PROVE  TypeOK'
    <3>1. CASE FetchTargets(w, j)
      BY <3>1 DEF FetchTargets
    <3>2. CASE SendTargets(w, j)
      BY <3>2 DEF SendTargets
    <3>3. CASE DeliveryRaises(w, j)
      BY <3>3 DEF DeliveryRaises
    <3>4. CASE MarkDelivered(w, j)
      BY <3>4 DEF MarkDelivered, LetGo
    <3>5. CASE RecordFailure(w, j)
      BY <3>5 DEF RecordFailure, LetGo
    <3>6. CASE FailureWriteLost(w, j)
      <4>1. faults' \in 0..MaxFaults
        BY <3>6 DEF FailureWriteLost, LetGo
      <4> QED
        BY <3>6, <4>1 DEF FailureWriteLost, LetGo
    <3> QED
      BY <2>4, <3>1, <3>2, <3>3, <3>4, <3>5, <3>6 DEF DeliverOne
  <2>5. CASE UNCHANGED vars
    BY <2>5 DEF vars
  <2> QED
    BY <2>1, <2>2, <2>3, <2>4, <2>5 DEF Next
<1> QED
  BY <1>1, <1>2, PTL DEF Spec

-----------------------------------------------------------------------------
(***************************************************************************)
(* The claim.  A holder whose claim never timed out holds a row that is    *)
(* still "claimed", so the next _claim_batch, which takes pending rows     *)
(* only, cannot hand it out a second time.                                 *)
(***************************************************************************)
HeldIsClaimed ==
    \A j \in Jobs \ timedOut : \A w \in Workers :
        Holds(w, j) => status[j] = "claimed"

ExclusiveInv ==
    /\ TypeOK
    /\ stale \subseteq timedOut
    /\ HeldIsClaimed
    /\ ClaimIsExclusive

(* The claim protocol keeps its inductive invariant.                       *)
LEMMA ExclusiveHolds == Spec => []ExclusiveInv
<1>1. Init => ExclusiveInv
  BY DEF Init, ExclusiveInv, HeldIsClaimed, ClaimIsExclusive, Holds, TypeOK,
         Statuses, Ticks, Phases
<1>2. TypeOK' /\ ExclusiveInv /\ [Next]_vars => ExclusiveInv'
  <2> SUFFICES ASSUME TypeOK', ExclusiveInv, [Next]_vars PROVE ExclusiveInv'
    OBVIOUS
  <2> USE DEF ExclusiveInv, HeldIsClaimed, ClaimIsExclusive, Holds, history
  <2>1. ASSUME NEW j \in Jobs, Enqueue(j) PROVE ExclusiveInv'
    BY <2>1 DEF Enqueue, TypeOK
  <2>2. ASSUME NEW j \in Jobs, ClaimExpires(j) PROVE ExclusiveInv'
    BY <2>2 DEF ClaimExpires, TypeOK
  <2>3. ASSUME NEW w \in Workers, DispatcherLoop(w) PROVE ExclusiveInv'
    <3>1. CASE ReapExpiredClaims(w)
      BY <3>1 DEF ReapExpiredClaims, TypeOK
    <3>2. CASE ClaimBatch(w)
      <4>1. PICK S \in SUBSET Pending :
              /\ status' = [j \in Jobs |-> IF j \in S THEN "claimed"
                                           ELSE status[j]]
              /\ stale' = stale \ S
              /\ phase' = [phase EXCEPT ![w] =
                     [j \in Jobs |-> IF j \in S THEN "queued" ELSE @[j]]]
        BY <3>2 DEF ClaimBatch
      <4>2. timedOut' = timedOut
        BY <3>2 DEF ClaimBatch
      <4>3. \A j \in S \ timedOut, v \in Workers : ~Holds(v, j)
        BY <4>1 DEF Pending, TypeOK, Statuses
      <4>4. \A j \in Jobs, v \in Workers :
              Holds(v, j)' <=> (Holds(v, j) \/ (v = w /\ j \in S))
        BY <4>1 DEF TypeOK
      <4>5. HeldIsClaimed'
        BY <4>1, <4>2, <4>3, <4>4 DEF TypeOK
      <4>6. ClaimIsExclusive'
        BY <4>2, <4>3, <4>4
      <4> QED
        BY <4>1, <4>2, <4>5, <4>6
    <3>3. CASE StartChunk(w)
      <4>1. PICK S \in SUBSET Queued(w) :
              phase' = [phase EXCEPT ![w] =
                     [j \in Jobs |-> IF j \in S THEN "fetch" ELSE @[j]]]
        BY <3>3 DEF StartChunk
      <4>2. \A j \in Jobs, v \in Workers : Holds(v, j)' <=> Holds(v, j)
        BY <4>1 DEF Queued, TypeOK
      <4> QED
        BY <4>2, <3>3 DEF StartChunk
    <3>4. CASE EndBatch(w)
      BY <3>4 DEF EndBatch
    <3>5. CASE Crash(w)
      BY <3>5 DEF Crash, TypeOK
    <3> QED
      BY <2>3, <3>1, <3>2, <3>3, <3>4, <3>5 DEF DispatcherLoop
  <2>4. ASSUME NEW w \in Workers, NEW j \in Jobs, DeliverOne(w, j)
        PROVE  ExclusiveInv'
    <3>0. /\ phase[w][j] # "none"
          /\ \E p \in Phases : phase' = [phase EXCEPT ![w][j] = p]
      BY <2>4 DEF DeliverOne, FetchTargets, SendTargets, DeliveryRaises,
                  MarkDelivered, RecordFailure, FailureWriteLost, LetGo, Phases
    <3>1. \A i \in Jobs, v \in Workers : Holds(v, i)' => Holds(v, i)
      BY <3>0 DEF TypeOK
    <3>2. /\ timedOut' = timedOut /\ stale' \subseteq stale
          /\ Holds(w, j)
          /\ \A i \in Jobs : i # j => status'[i] = status[i]
          /\ Holds(w, j)' => status'[j] = status[j]
      BY <2>4 DEF DeliverOne, FetchTargets, SendTargets, DeliveryRaises,
                  MarkDelivered, RecordFailure, FailureWriteLost, LetGo, TypeOK
    <3>3. HeldIsClaimed'
      BY <3>1, <3>2
    <3>4. ClaimIsExclusive'
      BY <3>1, <3>2
    <3>5. (stale \subseteq timedOut)'
      BY <3>2
    <3> QED
      BY <3>3, <3>4, <3>5
  <2>5. CASE UNCHANGED vars
    BY <2>5 DEF vars, TypeOK
  <2> QED
    BY <2>1, <2>2, <2>3, <2>4, <2>5 DEF Next
<1> QED
  BY <1>1, <1>2, TypeCorrect, PTL DEF Spec

(* The claim of _claim_batch is exclusive, for any number of instances,    *)
(* until a claim outlives _CLAIM_TIMEOUT_SECONDS.                          *)
THEOREM ClaimExclusion == Spec => []ClaimIsExclusive
<1>1. ExclusiveInv => ClaimIsExclusive
  BY DEF ExclusiveInv
<1> QED
  BY <1>1, ExclusiveHolds, PTL

(* A delivered row is only taken back by an instance whose claim outlived  *)
(* _CLAIM_TIMEOUT_SECONDS, for any number of jobs, instances and faults:   *)
(* whoever else writes an outcome still holds a claimed row.               *)
THEOREM DeliveredStays == Spec => DeliveredIsFinal
<1>1. ExclusiveInv /\ [Next]_vars => [KeepsDelivered]_vars
  <2> SUFFICES ASSUME ExclusiveInv, Next, NEW j \in Jobs,
                      status[j] = "delivered", status'[j] # "delivered"
               PROVE  j \in timedOut
    BY DEF KeepsDelivered
  <2>0. status \in [Jobs -> Statuses] /\ phase \in [Workers -> [Jobs -> Phases]]
    BY DEF ExclusiveInv, TypeOK
  <2>1. ASSUME NEW i \in Jobs, Enqueue(i) \/ ClaimExpires(i) PROVE FALSE
    BY <2>0, <2>1 DEF Enqueue, ClaimExpires
  <2>2. ASSUME NEW w \in Workers, DispatcherLoop(w) PROVE FALSE
    BY <2>0, <2>2 DEF DispatcherLoop, ReapExpiredClaims, ClaimBatch, Pending,
                      StartChunk, EndBatch, Crash
  <2>3. ASSUME NEW w \in Workers, NEW i \in Jobs, DeliverOne(w, i)
        PROVE  j \in timedOut
    <3>1. i = j /\ Holds(w, j)
      BY <2>0, <2>3 DEF DeliverOne, FetchTargets, SendTargets, DeliveryRaises,
           MarkDelivered, RecordFailure, FailureWriteLost, LetGo, Holds
    <3> QED
      BY <3>1 DEF ExclusiveInv, HeldIsClaimed
  <2> QED
    BY <2>1, <2>2, <2>3 DEF Next
<1> QED
  BY <1>1, ExclusiveHolds, PTL DEF Spec, DeliveredIsFinal

-----------------------------------------------------------------------------
(***************************************************************************)
(* Attempts pay for sends.  attempts[j] counts the deliveries made and the *)
(* deliveries that holders of j may still make.                            *)
(***************************************************************************)
PaidFor ==
    \A j \in Jobs : sends[j] + Cardinality(UnsentHolders(j)) <= attempts[j]

PaidInv == TypeOK /\ PaidFor

(* The instances with a delivery of j to make are finitely many.           *)
LEMMA UnsentFinite ==
    ASSUME NEW j \in Jobs
    PROVE  /\ IsFiniteSet(UnsentHolders(j))
           /\ Cardinality(UnsentHolders(j)) \in Nat
<1>1. IsFiniteSet(UnsentHolders(j))
  BY FS_Subset DEF UnsentHolders
<1> QED
  BY <1>1, FS_CardinalityType

(* A set inside a finite one is finite and no larger.                      *)
LEMMA FewerUnsent ==
    ASSUME NEW j \in Jobs, NEW H \in SUBSET UnsentHolders(j)
    PROVE  /\ Cardinality(H) \in Nat
           /\ Cardinality(H) <= Cardinality(UnsentHolders(j))
<1>1. IsFiniteSet(H)
  BY UnsentFinite, FS_Subset
<1> QED
  BY <1>1, UnsentFinite, FS_Subset, FS_CardinalityType

(* A job is never delivered more often than it has been claimed, whatever  *)
(* is reaped, claimed again, crashed or written late.                      *)
THEOREM SendsPaid == Spec => []SendsArePaidFor
<1>1. Init => PaidInv
  <2> SUFFICES ASSUME Init PROVE PaidInv
    OBVIOUS
  <2>1. ASSUME NEW j \in Jobs PROVE Cardinality(UnsentHolders(j)) = 0
    <3>1. UnsentHolders(j) = {}
      BY DEF Init, UnsentHolders, Unsent
    <3> QED
      BY <3>1, FS_EmptySet
  <2> QED
    BY <2>1 DEF Init, PaidInv, PaidFor, TypeOK, Statuses, Ticks, Phases
<1>2. TypeOK' /\ PaidInv /\ [Next]_vars => PaidInv'
  <2> SUFFICES ASSUME TypeOK', PaidInv, [Next]_vars, NEW j \in Jobs
               PROVE  (sends[j] + Cardinality(UnsentHolders(j)) <= attempts[j])'
    BY DEF PaidInv, PaidFor
  <2> DEFINE Before == Cardinality(UnsentHolders(j))
             After  == Cardinality(UnsentHolders(j)')
  <2>0. /\ sends[j] \in Nat /\ attempts[j] \in Nat /\ Before \in Nat
        /\ sends[j] + Before <= attempts[j]
    BY UnsentFinite DEF PaidInv, PaidFor, TypeOK
  <2>a. ASSUME sends'[j] = sends[j], attempts'[j] = attempts[j],
               UnsentHolders(j)' \subseteq UnsentHolders(j)
        PROVE  sends'[j] + After <= attempts'[j]
    BY <2>a, <2>0, FewerUnsent
  <2> HIDE DEF Before, After
  <2>1. ASSUME NEW i \in Jobs, Enqueue(i) \/ ClaimExpires(i)
        PROVE  sends'[j] + After <= attempts'[j]
    BY <2>1, <2>a DEF Enqueue, ClaimExpires, UnsentHolders, history
  <2>2. ASSUME NEW w \in Workers, DispatcherLoop(w)
        PROVE  sends'[j] + After <= attempts'[j]
    <3>1. CASE ReapExpiredClaims(w) \/ EndBatch(w)
      BY <3>1, <2>a DEF ReapExpiredClaims, EndBatch, UnsentHolders, history
    <3>2. CASE ClaimBatch(w)
      <4>1. PICK S \in SUBSET Pending :
              /\ attempts' = [i \in Jobs |-> IF i \in S THEN attempts[i] + 1
                                             ELSE attempts[i]]
              /\ phase' = [phase EXCEPT ![w] =
                     [i \in Jobs |-> IF i \in S THEN "queued" ELSE @[i]]]
        BY <3>2 DEF ClaimBatch
      <4>2. sends' = sends
        BY <3>2 DEF ClaimBatch, history
      <4>3. CASE j \notin S
        <5>1. UnsentHolders(j)' \subseteq UnsentHolders(j)
          BY <4>1, <4>3 DEF UnsentHolders, PaidInv, TypeOK
        <5> QED
          BY <5>1, <4>1, <4>2, <4>3, <2>a
      <4>4. CASE j \in S
        <5>1. UnsentHolders(j)' = UnsentHolders(j) \cup {w}
          BY <4>1, <4>4 DEF UnsentHolders, Unsent, PaidInv, TypeOK
        <5>2. After \in Nat /\ After <= Before + 1
          <6>1. CASE w \in UnsentHolders(j)
            <7>1. UnsentHolders(j)' = UnsentHolders(j)
              BY <5>1, <6>1
            <7> QED
              BY <7>1, <2>0 DEF Before, After
          <6>2. CASE w \notin UnsentHolders(j)
            <7>1. IsFiniteSet(UnsentHolders(j))
              BY UnsentFinite
            <7>2. After = Before + 1
              BY <5>1, <6>2, <7>1, FS_AddElement DEF Before, After
            <7> QED
              BY <7>2, <2>0
          <6> QED
            BY <6>1, <6>2
        <5>3. attempts'[j] = attempts[j] + 1
          BY <4>1, <4>4
        <5> QED
          BY <5>2, <5>3, <4>2, <2>0
      <4> QED
        BY <4>3, <4>4
    <3>3. CASE StartChunk(w)
      <4>1. PICK S \in SUBSET Queued(w) :
              phase' = [phase EXCEPT ![w] =
                     [i \in Jobs |-> IF i \in S THEN "fetch" ELSE @[i]]]
        BY <3>3 DEF StartChunk
      <4>2. UnsentHolders(j)' \subseteq UnsentHolders(j)
        BY <4>1 DEF Queued, UnsentHolders, Unsent, PaidInv, TypeOK
      <4> QED
        BY <4>2, <3>3, <2>a DEF StartChunk, history
    <3>4. CASE Crash(w)
      <4>1. UnsentHolders(j)' \subseteq UnsentHolders(j)
        BY <3>4 DEF Crash, UnsentHolders, Unsent, PaidInv, TypeOK
      <4> QED
        BY <4>1, <3>4, <2>a DEF Crash
    <3> QED
      BY <2>2, <3>1, <3>2, <3>3, <3>4 DEF DispatcherLoop
  <2>3. ASSUME NEW w \in Workers, NEW i \in Jobs, DeliverOne(w, i)
        PROVE  sends'[j] + After <= attempts'[j]
    <3>1. CASE SendTargets(w, i)
      <4>1. CASE i # j
        <5>1. UnsentHolders(j)' \subseteq UnsentHolders(j)
          BY <3>1, <4>1 DEF SendTargets, UnsentHolders, PaidInv, TypeOK
        <5> QED
          BY <5>1, <3>1, <4>1, <2>a DEF SendTargets, PaidInv, TypeOK
      <4>2. CASE i = j
        <5>1. /\ w \in UnsentHolders(j)
              /\ UnsentHolders(j)' = UnsentHolders(j) \ {w}
          BY <3>1, <4>2, SMTT(20) DEF SendTargets, UnsentHolders, Unsent, PaidInv, TypeOK
        <5>2. After = Before - 1
          <6>1. Cardinality(UnsentHolders(j) \ {w}) = Cardinality(UnsentHolders(j)) - 1
            BY <5>1, UnsentFinite, FS_RemoveElement
          <6> QED
            BY <5>1, <6>1 DEF Before, After
        <5>3. sends'[j] = sends[j] + 1 /\ attempts' = attempts
          BY <3>1, <4>2 DEF SendTargets, PaidInv, TypeOK
        <5> QED
          BY <5>2, <5>3, <2>0
      <4> QED
        BY <4>1, <4>2
    <3>2. CASE ~SendTargets(w, i)
      <4>1. sends' = sends /\ attempts' = attempts
        BY <2>3, <3>2 DEF DeliverOne, FetchTargets, DeliveryRaises,
             MarkDelivered, RecordFailure, FailureWriteLost, LetGo, history
      <4>2. UnsentHolders(j)' \subseteq UnsentHolders(j)
        BY <2>3, <3>2 DEF DeliverOne, FetchTargets, DeliveryRaises,
             MarkDelivered, RecordFailure, FailureWriteLost, LetGo, UnsentHolders,
             Unsent, PaidInv, TypeOK
      <4> QED
        BY <4>1, <4>2, <2>a
    <3> QED
      BY <3>1, <3>2
  <2>4. ASSUME UNCHANGED vars PROVE sends'[j] + After <= attempts'[j]
    BY <2>4, <2>a DEF vars, UnsentHolders
  <2> QED
    BY <2>1, <2>2, <2>3, <2>4 DEF Next, After
<1>3. PaidInv => SendsArePaidFor
  <2> SUFFICES ASSUME PaidInv, NEW j \in Jobs PROVE sends[j] <= attempts[j]
    BY DEF SendsArePaidFor
  <2>1. sends[j] \in Nat /\ attempts[j] \in Nat
    BY DEF PaidInv, TypeOK
  <2>2. Cardinality(UnsentHolders(j)) \in Nat
    BY UnsentFinite
  <2>3. sends[j] + Cardinality(UnsentHolders(j)) <= attempts[j]
    BY DEF PaidInv, PaidFor
  <2> QED
    BY <2>1, <2>2, <2>3
<1> QED
  BY <1>1, <1>2, <1>3, TypeCorrect, PTL DEF Spec

-----------------------------------------------------------------------------
(***************************************************************************)
(* One delivery.  A job that met no trouble has not been sent while it is  *)
(* queued or its holder has the send to come, and its one holder leaves it *)
(* delivered.                                                              *)
(***************************************************************************)
Clean(j) ==
    /\ status[j] # "failed"
    /\ status[j] \in {"absent", "pending"} => sends[j] = 0
    /\ sends[j] <= 1
    /\ \A w \in Workers : /\ phase[w][j] # "error"
                          /\ phase[w][j] \in Unsent => sends[j] = 0

CleanInv ==
    /\ timedOut \subseteq troubled
    /\ \A j \in Jobs \ troubled : Clean(j)

(* A job that met no timeout, crash or error is sent at most once and is   *)
(* nobody's once it is delivered.                                          *)
THEOREM UntroubledDelivery == Spec => []UntroubledOnce
<1>1. Init => CleanInv
  BY DEF Init, CleanInv, Clean, Unsent
<1>2. ExclusiveInv /\ ExclusiveInv' /\ CleanInv /\ [Next]_vars => CleanInv'
  <2> SUFFICES ASSUME ExclusiveInv, ExclusiveInv', CleanInv, [Next]_vars
               PROVE  CleanInv'
    OBVIOUS
  <2>0. TypeOK /\ TypeOK'
    BY DEF ExclusiveInv
  <2>a. \A i \in Jobs \ troubled : \A v, u \in Workers :
           /\ Holds(v, i) => status[i] = "claimed"
           /\ Holds(v, i) /\ Holds(u, i) => v = u
    BY DEF ExclusiveInv, HeldIsClaimed, ClaimIsExclusive, CleanInv
  <2>1. ASSUME NEW i \in Jobs, Enqueue(i) PROVE CleanInv'
    BY <2>0, <2>1 DEF Enqueue, CleanInv, Clean, TypeOK, history
  <2>2. ASSUME NEW i \in Jobs, ClaimExpires(i) PROVE CleanInv'
    BY <2>0, <2>2 DEF ClaimExpires, CleanInv, Clean, TypeOK
  <2>3. ASSUME NEW w \in Workers, DispatcherLoop(w) PROVE CleanInv'
    <3>1. CASE ReapExpiredClaims(w)
      <4>1. \A i \in Jobs \ troubled : status'[i] = status[i]
        BY <2>0, <3>1 DEF ReapExpiredClaims, ExclusiveInv, CleanInv, TypeOK
      <4> QED
        BY <4>1, <3>1 DEF ReapExpiredClaims, CleanInv, Clean, history
    <3>2. CASE ClaimBatch(w)
      <4>1. PICK S \in SUBSET Pending :
              /\ status' = [i \in Jobs |-> IF i \in S THEN "claimed"
                                           ELSE status[i]]
              /\ phase' = [phase EXCEPT ![w] =
                     [i \in Jobs |-> IF i \in S THEN "queued" ELSE @[i]]]
        BY <3>2 DEF ClaimBatch
      <4>2. UNCHANGED <<sends, timedOut, troubled>>
        BY <3>2 DEF ClaimBatch, history
      <4>3. \A i \in S \ troubled : sends[i] = 0
        BY DEF Pending, CleanInv, Clean
      <4>4. ASSUME NEW i \in Jobs \ troubled PROVE Clean(i)'
        <5>1. ASSUME NEW v \in Workers
              PROVE  phase'[v][i] = phase[v][i]
                     \/ (i \in S /\ phase'[v][i] = "queued")
          BY <4>1, <2>0 DEF TypeOK
        <5>2. status'[i] = status[i] \/ (i \in S /\ status'[i] = "claimed")
          BY <4>1
        <5> QED
          BY <5>1, <5>2, <4>2, <4>3 DEF CleanInv, Clean
      <4> QED
        BY <4>2, <4>4 DEF CleanInv
    <3>3. CASE StartChunk(w)
      <4>1. PICK S \in SUBSET Queued(w) :
              phase' = [phase EXCEPT ![w] =
                     [i \in Jobs |-> IF i \in S THEN "fetch" ELSE @[i]]]
        BY <3>3 DEF StartChunk
      <4>2. \A i \in Jobs, v \in Workers :
              \/ phase'[v][i] = phase[v][i]
              \/ phase'[v][i] = "fetch" /\ phase[v][i] = "queued"
        BY <4>1, <2>0 DEF Queued, TypeOK
      <4> QED
        BY <4>2, <3>3 DEF StartChunk, CleanInv, Clean, Unsent, history
    <3>4. CASE EndBatch(w)
      BY <3>4 DEF EndBatch, CleanInv, Clean, history
    <3>5. CASE Crash(w)
      <4>1. \A i \in Jobs, v \in Workers :
              phase'[v][i] = phase[v][i] \/ phase'[v][i] = "none"
        BY <3>5, <2>0 DEF Crash, TypeOK
      <4> QED
        BY <4>1, <3>5 DEF Crash, CleanInv, Clean, Unsent
    <3> QED
      BY <2>3, <3>1, <3>2, <3>3, <3>4, <3>5 DEF DispatcherLoop
  <2>4. ASSUME NEW w \in Workers, NEW i \in Jobs, DeliverOne(w, i)
        PROVE  CleanInv'
    <3>0. \A k \in Jobs, v \in Workers :
            k # i \/ v # w => phase'[v][k] = phase[v][k]
      BY <2>0, <2>4 DEF DeliverOne, FetchTargets, SendTargets, DeliveryRaises,
           MarkDelivered, RecordFailure, FailureWriteLost, LetGo, TypeOK
    <3>1. CASE FetchTargets(w, i)
      <4>1. phase[w][i] = "fetch" /\ phase'[w][i] = "send"
        BY <3>1, <2>0 DEF FetchTargets, TypeOK
      <4> QED
        BY <4>1, <3>0, <3>1 DEF FetchTargets, CleanInv, Clean, Unsent, history
    <3>2. CASE SendTargets(w, i)
      <4>1. phase[w][i] = "send" /\ phase'[w][i] = "sent"
        BY <3>2, <2>0 DEF SendTargets, TypeOK
      <4>2. ASSUME NEW k \in Jobs \ troubled PROVE Clean(k)'
        <5>1. CASE k # i
          <6>1. sends'[k] = sends[k]
            BY <3>2, <5>1, <2>0 DEF SendTargets, TypeOK
          <6> QED
            BY <6>1, <3>0, <3>2, <5>1 DEF SendTargets, CleanInv, Clean
        <5>2. CASE k = i
          <6>1. sends[i] = 0 /\ sends'[i] = 1
            BY <4>1, <3>2, <5>2, <2>0
              DEF SendTargets, CleanInv, Clean, Unsent, TypeOK
          <6>2. \A v \in Workers : v # w => phase[v][i] = "none"
            BY <2>a, <4>1, <5>2 DEF Holds
          <6>3. status'[i] = "claimed"
            BY <2>a, <3>2, <4>1, <5>2 DEF SendTargets, Holds
          <6> QED
            BY <6>1, <6>2, <6>3, <3>0, <4>1, <5>2 DEF Clean, Unsent
        <5> QED
          BY <5>1, <5>2
      <4> QED
        BY <4>2, <3>2 DEF SendTargets, CleanInv
    <3>3. CASE DeliveryRaises(w, i)
      BY <3>0, <3>3 DEF DeliveryRaises, CleanInv, Clean
    <3>4. CASE MarkDelivered(w, i)
      <4>1. /\ phase'[w][i] = "none"
            /\ status'[i] = "delivered"
            /\ \A k \in Jobs : k # i => status'[k] = status[k]
        BY <3>4, <2>0 DEF MarkDelivered, LetGo, TypeOK
      <4> QED
        BY <4>1, <3>0, <3>4 DEF MarkDelivered, LetGo, CleanInv, Clean, Unsent, history
    <3>5. CASE RecordFailure(w, i) \/ FailureWriteLost(w, i)
      <4>1. i \in troubled
        BY <3>5 DEF RecordFailure, FailureWriteLost, LetGo, CleanInv, Clean
      <4>2. \A k \in Jobs : k # i => status'[k] = status[k]
        BY <3>5, <2>0 DEF RecordFailure, FailureWriteLost, LetGo, TypeOK
      <4> QED
        BY <4>1, <4>2, <3>0, <3>5
          DEF RecordFailure, FailureWriteLost, LetGo, CleanInv, Clean, history
    <3> QED
      BY <2>4, <3>1, <3>2, <3>3, <3>4, <3>5 DEF DeliverOne
  <2>5. CASE UNCHANGED vars
    BY <2>5 DEF vars, CleanInv, Clean
  <2> QED
    BY <2>1, <2>2, <2>3, <2>4, <2>5 DEF Next
<1>3. ExclusiveInv /\ CleanInv => UntroubledOnce
  BY DEF ExclusiveInv, HeldIsClaimed, CleanInv, Clean, UntroubledOnce
<1> QED
  BY <1>1, <1>2, <1>3, ExclusiveHolds, PTL DEF Spec

-----------------------------------------------------------------------------
(***************************************************************************)
(* The limit on tries.  What an instance has read of a job it holds is the *)
(* row's own count while no claim on it has timed out, so the failure it   *)
(* records looks at all tries; an older count is only ever too small.      *)
(***************************************************************************)
SeenFits ==
    \A w \in Workers, j \in Jobs :
        /\ seen[w][j] <= attempts[j]
        /\ Holds(w, j) /\ j \notin timedOut => seen[w][j] = attempts[j]

\* A job that waits for a claim has a try left.
TryIsLeft ==
    \A j \in Jobs :
        /\ status[j] = "absent" => attempts[j] = 0
        /\ status[j] = "pending" /\ j \notin timedOut
           => attempts[j] = 0 \/ attempts[j] + 1 < MaxAttempts

TriesInv == ExclusiveInv /\ SeenFits /\ TryIsLeft /\ TriesWithinLimit

(* A claim uses one try, and only a recorded failure gives a job another.  *)
LEMMA TriesStep ==
  ASSUME TriesInv, ExclusiveInv', [Next]_vars
  PROVE  TriesInv'
<1> USE DEF TriesInv, SeenFits, TryIsLeft, TriesWithinLimit, Holds, TypeOK, history
<1>a. TypeOK /\ TypeOK' /\ stale \subseteq timedOut /\ HeldIsClaimed
  BY DEF ExclusiveInv
<1>1. ASSUME NEW j \in Jobs, Enqueue(j) PROVE TriesInv'
  BY <1>1, <1>a DEF Enqueue
<1>2. ASSUME NEW j \in Jobs, ClaimExpires(j) PROVE TriesInv'
  BY <1>2, <1>a DEF ClaimExpires
<1>3. ASSUME NEW w \in Workers, DispatcherLoop(w) PROVE TriesInv'
  <2>1. CASE ReapExpiredClaims(w)
    BY <2>1, <1>a DEF ReapExpiredClaims
  <2>2. CASE ClaimBatch(w)
    <3>1. PICK S \in SUBSET Pending :
            /\ status' = [j \in Jobs |-> IF j \in S THEN "claimed"
                                         ELSE status[j]]
            /\ attempts' = [j \in Jobs |-> IF j \in S THEN attempts[j] + 1
                                           ELSE attempts[j]]
            /\ phase' = [phase EXCEPT ![w] =
                   [j \in Jobs |-> IF j \in S THEN "queued" ELSE @[j]]]
            /\ seen' = [seen EXCEPT ![w] =
                   [j \in Jobs |-> IF j \in S THEN attempts[j] + 1
                                   ELSE @[j]]]
      BY <2>2 DEF ClaimBatch
    <3>2. timedOut' = timedOut
      BY <2>2 DEF ClaimBatch
    <3>3. \A j \in S : status[j] = "pending"
      BY DEF Pending
    <3>4. \A j \in S \ timedOut, v \in Workers : ~Holds(v, j)
      BY <3>3, <1>a DEF HeldIsClaimed, Pending
    <3>5. SeenFits'
      BY <3>1, <3>2, <3>4, <1>a DEF Pending
    <3>6. TryIsLeft' /\ TriesWithinLimit'
      BY <3>1, <3>2, <3>3, <1>a DEF Pending
    <3> QED
      BY <3>5, <3>6
  <2>3. CASE StartChunk(w)
    <3>1. PICK S \in SUBSET Queued(w) :
            phase' = [phase EXCEPT ![w] =
                   [j \in Jobs |-> IF j \in S THEN "fetch" ELSE @[j]]]
      BY <2>3 DEF StartChunk
    <3>2. \A j \in Jobs, v \in Workers : Holds(v, j)' <=> Holds(v, j)
      BY <3>1, <1>a DEF Queued
    <3> QED
      BY <3>2, <2>3, <1>a DEF StartChunk
  <2>4. CASE EndBatch(w)
    BY <2>4, <1>a DEF EndBatch
  <2>5. CASE Crash(w)
    BY <2>5, <1>a DEF Crash
  <2> QED
    BY <1>3, <2>1, <2>2, <2>3, <2>4, <2>5 DEF DispatcherLoop
<1>4. ASSUME NEW w \in Workers, NEW j \in Jobs, DeliverOne(w, j)
      PROVE  TriesInv'
  <2>1. CASE FetchTargets(w, j)
    BY <2>1, <1>a DEF FetchTargets
  <2>2. CASE SendTargets(w, j)
    BY <2>2, <1>a DEF SendTargets
  <2>3. CASE DeliveryRaises(w, j)
    BY <2>3, <1>a DEF DeliveryRaises
  <2>4. CASE MarkDelivered(w, j)
    BY <2>4, <1>a DEF MarkDelivered, LetGo
  <2>5. CASE RecordFailure(w, j)
    <3>1. SeenFits'
      BY <2>5, <1>a DEF RecordFailure, LetGo
    <3>2. TryIsLeft' /\ TriesWithinLimit'
      BY <2>5, <1>a DEF RecordFailure, LetGo, LocalAttempts
    <3> QED
      BY <3>1, <3>2
  <2>6. CASE FailureWriteLost(w, j)
    BY <2>6, <1>a DEF FailureWriteLost, LetGo
  <2> QED
    BY <1>4, <2>1, <2>2, <2>3, <2>4, <2>5, <2>6 DEF DeliverOne
<1>5. CASE UNCHANGED vars
  BY <1>5, <1>a DEF vars
<1> QED
  BY <1>1, <1>2, <1>3, <1>4, <1>5 DEF Next

(* The limit of _MAX_ATTEMPTS in _deliver_one, for any number of jobs,     *)
(* instances and faults: a job whose claims never timed out is not claimed *)
(* more often.                                                             *)
THEOREM TriesBounded == Spec => []TriesWithinLimit
<1>1. Init /\ ExclusiveInv => TriesInv
  BY DEF Init, TriesInv, SeenFits, TryIsLeft, TriesWithinLimit, Holds
<1>2. TriesInv /\ ExclusiveInv' /\ [Next]_vars => TriesInv'
  BY TriesStep
<1>3. TriesInv => TriesWithinLimit
  BY DEF TriesInv
<1> QED
  BY <1>1, <1>2, <1>3, ExclusiveHolds, PTL DEF Spec
=============================================================================
