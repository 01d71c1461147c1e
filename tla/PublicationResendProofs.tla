---------------------- MODULE PublicationResendProofs -----------------------
(***************************************************************************)
(* Theorems about how often the publication ledger calls a provider, for   *)
(* any number of versions, overlapping ticks, retries, crashes, pauses and *)
(* requests, and the refinement of PermittedSending that rests on them and *)
(* on the invariant of what goes out.                                      *)
(***************************************************************************)
EXTENDS PublicationCommandProofs, FiniteSetTheorems

USE VersionsAssumption, RetriesAssumption, BoundsAssumption

-----------------------------------------------------------------------------
(***************************************************************************)
(* How often a command is sent.  Each call that may go out is paid for by  *)
(* the creation of the command or by an act of a person.  The invariant    *)
(* counts, besides the calls made, the runs that may still make one and    *)
(* the row itself when the code may hand it out again unasked.             *)
(***************************************************************************)
Holds(w, c) == job[w].cmd = c /\ ~At(w, "idle")

\* The run has posted and can only end as needs_check or completed.
CallIsOver(w) ==
    /\ job[w].posted
    /\ \/ At(w, "record")
       \/ At(w, "write") /\ job[w].out \in {"needs_check", "completed"}

MayCall(c) == {w \in Workers : Holds(w, c) /\ ~CallIsOver(w)}

\* Some run of the command has not committed its marker yet.
Unmarked(w, c) == Holds(w, c) /\ ~job[w].copy.marked
HeldUnmarked(c) == \E w \in Workers : Unmarked(w, c)

\* A row that a claim, a resume or the recovery of a dead run that had not
\* committed its marker puts to work with no act of a person.
Waits(row, held) ==
    \/ row.status \in {"absent", "pending"}
    \/ IsPausedStop(row)
    \/ row.status = "in_progress" /\ ~row.marked /\ ~held
Waiting(c) == Waits(cmd[c], HeldUnmarked(c))

PaidFor(c) ==
    calls[c] + Cardinality(MayCall(c)) + (IF Waiting(c) THEN 1 ELSE 0)
        <= 1 + acts[c]

\* What a run in hand has read and marked.
RunsAreMarked ==
    \A w \in Workers :
        /\ ~At(w, "idle") => job[w].copy.status = "in_progress"
        /\ job[w].pc \notin {"idle", "entry", "write"} => job[w].copy.marked
        /\ job[w].posted => job[w].copy.marked

ResendInv == RunsAreMarked /\ \A c \in Versions : PaidFor(c)

(* The runs that may still call are finitely many.                         *)
LEMMA MayCallFinite ==
  ASSUME NEW c
  PROVE  /\ IsFiniteSet(MayCall(c))
         /\ Cardinality(MayCall(c)) \in Nat
<1>1. IsFiniteSet(MayCall(c))
  BY WorkersAssumption, FS_Subset DEF MayCall
<1> QED
  BY <1>1, FS_CardinalityType

(* Two finite sets that differ in one element at most.                     *)
LEMMA DifferInOne ==
  ASSUME NEW A, NEW B, NEW w, IsFiniteSet(A), IsFiniteSet(B),
         A \ {w} = B \ {w}
  PROVE  /\ w \in A \/ w \notin B => Cardinality(B) <= Cardinality(A)
         /\ w \in A /\ w \notin B => Cardinality(B) = Cardinality(A) - 1
         /\ w \notin A /\ w \in B => Cardinality(B) = Cardinality(A) + 1
<1>0. Cardinality(A) \in Nat /\ Cardinality(B) \in Nat
  BY FS_CardinalityType
<1>1. ASSUME w \in A, w \notin B PROVE Cardinality(B) = Cardinality(A) - 1
  <2>1. B = A \ {w}
    BY <1>1
  <2> QED
    BY <1>1, <2>1, FS_RemoveElement
<1>2. ASSUME w \notin A, w \in B PROVE Cardinality(B) = Cardinality(A) + 1
  <2>1. B = A \cup {w}
    BY <1>2
  <2> QED
    BY <1>2, <2>1, FS_AddElement
<1>3. ASSUME w \in A <=> w \in B PROVE Cardinality(B) = Cardinality(A)
  <2>1. A = B
    BY <1>3
  <2> QED
    BY <2>1
<1> QED
  BY <1>0, <1>1, <1>2, <1>3

(* The four ways in which a step of a worker keeps a command paid for.     *)
LEMMA PaidStep ==
  ASSUME TypeOK, TypeOK', NEW w \in Workers, NEW c \in Versions, PaidFor(c),
         \A v \in Workers \ {w} : job'[v] = job[v],
         acts' = acts,
         \/ /\ calls'[c] = calls[c]
            /\ w \in MayCall(c) \/ w \notin MayCall(c)'
            /\ Waiting(c)' => Waiting(c)
         \/ /\ calls'[c] = calls[c]
            /\ w \in MayCall(c) /\ w \notin MayCall(c)'
         \/ /\ calls'[c] = calls[c] + 1
            /\ w \in MayCall(c) /\ w \notin MayCall(c)'
            /\ Waiting(c)' => Waiting(c)
         \/ /\ calls'[c] = calls[c]
            /\ w \notin MayCall(c)
            /\ Waiting(c) /\ ~Waiting(c)'
  PROVE  PaidFor(c)'
<1> DEFINE A == MayCall(c)
           B == MayCall(c)'
<1>1. A \ {w} = B \ {w}
  BY DEF MayCall, Holds, CallIsOver, At
<1>2. IsFiniteSet(A) /\ Cardinality(A) \in Nat
  BY MayCallFinite
<1>3. IsFiniteSet(B) /\ Cardinality(B) \in Nat
  <2>1. B \subseteq Workers
    BY DEF MayCall
  <2> QED
    BY <2>1, WorkersAssumption, FS_Subset, FS_CardinalityType
<1>4. /\ w \in A \/ w \notin B => Cardinality(B) <= Cardinality(A)
      /\ w \in A /\ w \notin B => Cardinality(B) = Cardinality(A) - 1
      /\ w \notin A /\ w \in B => Cardinality(B) = Cardinality(A) + 1
  <2> HIDE DEF A, B
  <2> QED
    BY <1>1, <1>2, <1>3, DifferInOne
<1>5. calls[c] \in Nat /\ acts[c] \in Nat
  BY DEF TypeOK
<1>6. calls[c] + Cardinality(A) + (IF Waiting(c) THEN 1 ELSE 0) <= 1 + acts[c]
  BY DEF PaidFor
<1>7. calls'[c] + Cardinality(B) + (IF Waiting(c)' THEN 1 ELSE 0)
          <= 1 + acts'[c]
  <2> HIDE DEF A, B
  <2>1. (w \in A <=> w \in MayCall(c)) /\ (w \in B <=> w \in MayCall(c)')
    BY DEF A, B
  <2> QED
    BY <1>2, <1>3, <1>4, <1>5, <1>6, <2>1
<1> QED
  BY <1>7 DEF PaidFor
(* A step that leaves alone whether its own run has an unmarked copy leaves *)
(* alone whether the command is held with one.                             *)
LEMMA SameHeld ==
  ASSUME NEW w \in Workers, NEW c,
         \A v \in Workers \ {w} : job'[v] = job[v],
         Unmarked(w, c)' <=> Unmarked(w, c)
  PROVE  HeldUnmarked(c)' <=> HeldUnmarked(c)
<1>1. ASSUME NEW v \in Workers
      PROVE  Unmarked(v, c)' <=> Unmarked(v, c)
  <2>1. CASE v = w
    BY <2>1
  <2>2. CASE v # w
    BY <2>2 DEF Unmarked, Holds, At
  <2> QED
    BY <2>1, <2>2
<1> QED
  BY <1>1 DEF HeldUnmarked

(* A command that the worker does not hold is none of its business.        *)
LEMMA OtherPaid ==
  ASSUME TypeOK, TypeOK', NEW w \in Workers, NEW c \in Versions, PaidFor(c),
         \A v \in Workers \ {w} : job'[v] = job[v],
         acts' = acts, calls'[c] = calls[c], cmd'[c] = cmd[c],
         ~Holds(w, c), ~Holds(w, c)'
  PROVE  PaidFor(c)'
<1>1. Unmarked(w, c)' <=> Unmarked(w, c)
  BY DEF Unmarked
<1>2. HeldUnmarked(c)' <=> HeldUnmarked(c)
  BY <1>1, SameHeld
<1>3. Waiting(c)' => Waiting(c)
  BY <1>2 DEF Waiting, Waits, IsPausedStop
<1>4. w \notin MayCall(c)'
  BY DEF MayCall
<1> QED
  BY <1>3, <1>4, PaidStep

(* Inside a run a call is counted in the step that makes the run one that  *)
(* cannot call again, and a run that cannot stays so.                      *)
LEMMA InsideCalls ==
  ASSUME TypeOK, NEW w \in Workers, Inside(w)
  PROVE  /\ ~At(w, "idle")'
         /\ \/ calls' = calls /\ (CallIsOver(w) => CallIsOver(w)')
            \/ /\ calls' = [calls EXCEPT ![job[w].cmd] = @ + 1]
               /\ ~CallIsOver(w) /\ CallIsOver(w)'
<1>0. job[w] \in Job /\ job \in [Workers -> Job]
  BY DEF TypeOK
<1>1. ASSUME NEW o, EndsWith(w, o)
      PROVE  /\ job'[w].pc = "write" /\ job'[w].out = o
             /\ job'[w].posted = job[w].posted
  BY <1>0, <1>1 DEF EndsWith, Becomes, Job
<1>2. ASSUME NEW pc, NEW o, Posted(w, pc, o)
      PROVE  job'[w].pc = pc /\ job'[w].out = o /\ job'[w].posted = TRUE
  BY <1>0, <1>2 DEF Posted, Becomes, Job
<1>3. ASSUME ~At(w, "record"), ~At(w, "write") PROVE ~CallIsOver(w)
  BY <1>3 DEF CallIsOver
<1>4. CASE CheckBeforePublish(w)
  <2>1. ~CallIsOver(w) /\ calls' = calls
    BY <1>4 DEF CheckBeforePublish, CallIsOver, At, history
  <2>2. CASE \E o : EndsWith(w, o)
    BY <1>1, <2>1, <2>2 DEF At
  <2>3. CASE Becomes(w, [job[w] EXCEPT !.pc = "row", !.ver = latest,
                                       !.seen = pub[latest]])
    <3>1. job'[w].pc = "row"
      BY <1>0, <2>3 DEF Becomes, Job
    <3> QED
      BY <2>1, <3>1 DEF At
  <2> QED
    BY <1>4, <2>2, <2>3 DEF CheckBeforePublish
<1>5. CASE ClaimRow(w)
  <2>1. ~CallIsOver(w) /\ calls' = calls
    BY <1>5 DEF ClaimRow, CallIsOver, At, history
  <2>2. CASE \E o : EndsWith(w, o)
    BY <1>1, <2>1, <2>2 DEF At
  <2>3. CASE \E pc \in {"create", "poll", "publish"} :
               Becomes(w, [job[w] EXCEPT !.pc = pc, !.seen = pub'[job[w].ver]])
    <3>1. job'[w].pc # "idle"
      BY <1>0, <2>3 DEF Becomes, Job
    <3> QED
      BY <2>1, <3>1 DEF At
  <2> QED
    BY <1>5, <2>2, <2>3 DEF ClaimRow, AfterContainer
<1>6. CASE CreateContainer(w)
  <2>1. ~CallIsOver(w) /\ calls' = calls
    BY <1>6 DEF CreateContainer, CallIsOver, At, history
  <2>2. PICK pc \in {"write", "publish"} : \E o : Posted(w, pc, o)
    BY <1>6 DEF CreateContainer
  <2> QED
    BY <1>2, <2>1, <2>2 DEF At
<1>7. CASE PollContainer(w)
  <2>1. ~CallIsOver(w) /\ calls' = calls
    BY <1>7 DEF PollContainer, CallIsOver, At, history
  <2>2. CASE \E o : EndsWith(w, o)
    BY <1>1, <2>1, <2>2 DEF At
  <2>3. CASE Becomes(w, [job[w] EXCEPT !.pc = "publish"])
    <3>1. job'[w].pc = "publish"
      BY <1>0, <2>3 DEF Becomes, Job
    <3> QED
      BY <2>1, <3>1 DEF At
  <2> QED
    BY <1>7, <2>2, <2>3 DEF PollContainer
<1>8. CASE PublishContainer(w)
  <2>1. ~CallIsOver(w)
    BY <1>8 DEF PublishContainer, CallIsOver, At
  <2>2. CASE CountCall(w) /\ (Posted(w, "record", "none")
                                \/ Posted(w, "write", "needs_check"))
    <3>1. calls' = [calls EXCEPT ![job[w].cmd] = @ + 1]
      BY <2>2 DEF CountCall
    <3>2. CallIsOver(w)' /\ ~At(w, "idle")'
      <4>1. CASE Posted(w, "record", "none")
        <5>1. job'[w].pc = "record" /\ job'[w].posted = TRUE
          BY <1>2, <4>1
        <5> QED
          BY <5>1 DEF CallIsOver, At
      <4>2. CASE Posted(w, "write", "needs_check")
        <5>1. /\ job'[w].pc = "write" /\ job'[w].out = "needs_check"
              /\ job'[w].posted = TRUE
          BY <1>2, <4>2
        <5> QED
          BY <5>1 DEF CallIsOver, At
      <4> QED
        BY <2>2, <4>1, <4>2
    <3> QED
      BY <2>1, <3>1, <3>2
  <2>3. CASE /\ UNCHANGED history
             /\ \E o \in {"connection", "transient"} : Posted(w, "write", o)
    <3>1. PICK o : Posted(w, "write", o)
      BY <2>3
    <3>2. calls' = calls /\ job'[w].pc = "write"
      BY <1>2, <2>3, <3>1 DEF history
    <3> QED
      BY <2>1, <3>2 DEF At
  <2> QED
    BY <1>8, <2>2, <2>3 DEF PublishContainer
<1>9. CASE RecordPublished(w)
  <2>1. PICK o \in {"completed", Unnamed(w)} : EndsWith(w, o)
    BY <1>9 DEF RecordPublished
  <2>2. calls' = calls
    BY <1>9 DEF RecordPublished, history
  <2>3. CallIsOver(w) => o \in {"needs_check", "completed"}
    BY <2>1 DEF CallIsOver, Unnamed
  <2>4. /\ job'[w].pc = "write" /\ job'[w].out = o
        /\ job'[w].posted = job[w].posted
    BY <1>1, <2>1
  <2> QED
    BY <2>2, <2>3, <2>4 DEF CallIsOver, At
<1>10. CASE RunFails(w)
  <2>1. ~CallIsOver(w) /\ calls' = calls
    BY <1>10 DEF RunFails, CallIsOver, At, history
  <2> QED
    BY <1>1, <1>10, <2>1 DEF RunFails, At
<1> QED
  BY <1>4, <1>5, <1>6, <1>7, <1>8, <1>9, <1>10 DEF Inside

(* The steps inside a run keep every command paid for.                     *)
LEMMA InsidePaid ==
  ASSUME TypeOK, TypeOK', JobsAreNamed, NEW w \in Workers, Inside(w),
         Worker(w), NEW c \in Versions, PaidFor(c)
  PROVE  PaidFor(c)'
<1>1. /\ cmd' = cmd /\ ~At(w, "idle") /\ ~At(w, "idle")'
      /\ job'[w].cmd = job[w].cmd /\ job'[w].copy = job[w].copy
  BY InsideFrame, InsideCalls
<1>2. acts' = acts /\ \A v \in Workers \ {w} : job'[v] = job[v]
  BY WorkerFrame
<1>3. /\ Holds(w, c)' <=> Holds(w, c)
      /\ Unmarked(w, c)' <=> Unmarked(w, c)
  BY <1>1 DEF Holds, Unmarked
<1>4. HeldUnmarked(c)' <=> HeldUnmarked(c)
  BY <1>2, <1>3, SameHeld
<1>5. Waiting(c)' => Waiting(c)
  BY <1>1, <1>4 DEF Waiting, Waits, IsPausedStop
<1>6. CASE calls' = calls /\ (CallIsOver(w) => CallIsOver(w)')
  <2>1. w \in MayCall(c) \/ w \notin MayCall(c)'
    BY <1>3, <1>6 DEF MayCall
  <2> QED
    BY <1>2, <1>5, <1>6, <2>1, PaidStep
<1>7. CASE /\ calls' = [calls EXCEPT ![job[w].cmd] = @ + 1]
           /\ ~CallIsOver(w) /\ CallIsOver(w)'
  <2>1. CASE job[w].cmd = c
    <3>1. w \in MayCall(c) /\ w \notin MayCall(c)'
      BY <1>1, <1>7, <2>1 DEF MayCall, Holds
    <3>2. calls'[c] = calls[c] + 1
      BY <1>7, <2>1 DEF TypeOK
    <3> QED
      BY <1>2, <1>5, <3>1, <3>2, PaidStep
  <2>2. CASE job[w].cmd # c
    <3>1. ~Holds(w, c) /\ ~Holds(w, c)'
      BY <1>1, <2>2 DEF Holds
    <3>2. calls'[c] = calls[c] /\ cmd'[c] = cmd[c]
      BY <1>1, <1>7, <2>2 DEF TypeOK
    <3> QED
      BY <1>2, <3>1, <3>2, OtherPaid
  <2> QED
    BY <2>1, <2>2
<1> QED
  BY <1>6, <1>7, InsideCalls
(* After a call that may have gone out a failure is a dead letter.         *)
LEMMA UnknownIsDead ==
  ASSUME NEW r \in Row
  PROVE  Fail(r, "needs_check").status = "dead_letter"
<1> DEFINE dead == [r EXCEPT !.status = "dead_letter", !.kind = "needs_check",
                             !.attempts = @ + 1]
<1>1. Fail(r, "needs_check") = MarkStopNotice(dead)
  BY Zenon DEF Fail
<1>2. dead \in Row /\ dead.status = "dead_letter"
  <2>1. r.attempts + 1 \in Nat
    BY DEF Row
  <2>2. dead \in Row
    BY <2>1 DEF Row, CommandStatuses, FailureKinds
  <2> QED
    BY <2>2 DEF Row
<1>3. ASSUME NEW s \in Row PROVE MarkStopNotice(s).status = s.status
  BY DEF MarkStopNotice, Row
<1> QED
  BY <1>1, <1>2, <1>3

(* A stop that is no pause's, and an end, wait for nothing by themselves.  *)
LEMMA StopWaitsNot ==
  ASSUME NEW r, NEW held, r.status \in {"dead_letter", "completed"}
  PROVE  ~Waits(r, held)
  BY DEF Waits, IsPausedStop

(* A run that posted leaves its command stopped or completed.              *)
LEMMA CalledSettles ==
  ASSUME NEW r \in Row, NEW copy \in Row, copy.status = "in_progress",
         NEW o \in {"needs_check", "completed"}
  PROVE  Flush(r, copy, Settle(copy, o)).status \in {"dead_letter", "completed"}
<1>1. Settle(copy, o).status \in {"dead_letter", "completed"}
  <2>1. CASE o = "completed"
    <3>1. Settle(copy, o) = [copy EXCEPT !.status = "completed",
                                         !.kind = "none"]
      BY <2>1 DEF Settle
    <3> QED
      BY <3>1 DEF Row
  <2>2. CASE o = "needs_check"
    <3>1. Settle(copy, o) = Fail(copy, "needs_check")
      BY <2>2 DEF Settle
    <3> QED
      BY <3>1, UnknownIsDead
  <2> QED
    BY <2>1, <2>2
<1> QED
  BY <1>1 DEF Flush

(* The claim takes the command's token from its row.                       *)
LEMMA ClaimPaid ==
  ASSUME TypeOK, TypeOK', NEW w \in Workers, NEW b \in Versions,
         ClaimCommand(w, b), Worker(w), NEW c \in Versions, PaidFor(c)
  PROVE  PaidFor(c)'
<1> DEFINE row == [cmd[b] EXCEPT !.status = "in_progress", !.marked = FALSE]
<1>0. job \in [Workers -> Job] /\ cmd \in [Versions -> Row]
  BY DEF TypeOK
<1>1. /\ cmd' = [cmd EXCEPT ![b] = row] /\ At(w, "idle")
      /\ job' = [job EXCEPT ![w] = [IdleJob EXCEPT !.pc = "entry", !.cmd = b,
                                                   !.copy = row]]
      /\ cmd[b].status = "pending" /\ calls' = calls
  BY DEF ClaimCommand, Becomes, history
<1>2. job'[w].pc = "entry" /\ job'[w].cmd = b /\ job'[w].copy = row
  BY <1>0, <1>1 DEF IdleJob
<1>3. acts' = acts /\ \A v \in Workers \ {w} : job'[v] = job[v]
  BY WorkerFrame
<1>4. ~Holds(w, c)
  BY <1>1 DEF Holds
<1>5. CASE c = b
  <2>1. row.status = "in_progress" /\ row.marked = FALSE
    BY <1>0 DEF Row
  <2>2. Unmarked(w, c)'
    BY <1>2, <1>5, <2>1 DEF Unmarked, Holds, At
  <2>3. HeldUnmarked(c)'
    BY <2>2 DEF HeldUnmarked
  <2>4. ~Waiting(c)'
    BY <1>0, <1>1, <1>5, <2>1, <2>3 DEF Waiting, Waits, IsPausedStop
  <2>5. Waiting(c)
    BY <1>1, <1>5 DEF Waiting, Waits
  <2>6. w \notin MayCall(c)
    BY <1>4 DEF MayCall
  <2> QED
    BY <1>1, <1>3, <2>4, <2>5, <2>6, PaidStep
<1>6. CASE c # b
  <2>1. ~Holds(w, c)'
    BY <1>2, <1>6 DEF Holds
  <2>2. cmd'[c] = cmd[c]
    BY <1>0, <1>1, <1>6
  <2> QED
    BY <1>1, <1>3, <1>4, <2>1, <2>2, OtherPaid
<1> QED
  BY <1>5, <1>6

(* The entry of a run commits the marker on its copy and on the row.       *)
LEMMA EnterPaid ==
  ASSUME TypeOK, TypeOK', JobsAreNamed, NEW w \in Workers, EnterRun(w),
         Worker(w), NEW c \in Versions, PaidFor(c)
  PROVE  PaidFor(c)'
<1> DEFINE b == job[w].cmd
<1>0. /\ job \in [Workers -> Job] /\ cmd \in [Versions -> Row]
      /\ job[w] \in Job /\ At(w, "entry") /\ b \in Versions
  BY DEF TypeOK, EnterRun, JobsAreNamed, At
<1>1. acts' = acts /\ \A v \in Workers \ {w} : job'[v] = job[v]
  BY WorkerFrame
<1>2. calls' = calls
  BY DEF EnterRun, history
<1>3. ~CallIsOver(w)
  BY <1>0 DEF CallIsOver, At
<1>4. CASE paused
  <2>1. cmd' = cmd /\ job' = [job EXCEPT ![w] = [job[w] EXCEPT
                                          !.pc = "write", !.out = "paused"]]
    BY <1>4 DEF EnterRun, EndsWith, Becomes
  <2>2. /\ job'[w].pc = "write" /\ job'[w].cmd = b
        /\ job'[w].copy = job[w].copy
    BY <1>0, <2>1 DEF Job
  <2>3. (Holds(w, c)' <=> Holds(w, c)) /\ (Unmarked(w, c)' <=> Unmarked(w, c))
    BY <1>0, <2>2 DEF Holds, Unmarked, At
  <2>4. HeldUnmarked(c)' <=> HeldUnmarked(c)
    BY <1>1, <2>3, SameHeld
  <2>5. Waiting(c)' => Waiting(c)
    BY <2>1, <2>4 DEF Waiting, Waits, IsPausedStop
  <2>6. w \in MayCall(c) \/ w \notin MayCall(c)'
    BY <1>3, <2>3 DEF MayCall
  <2> QED
    BY <1>1, <1>2, <2>5, <2>6, PaidStep
<1>5. CASE ~paused
  <2> DEFINE row == [cmd[b] EXCEPT !.marked = TRUE]
             copy == [job[w].copy EXCEPT !.marked = TRUE]
  <2>1. /\ cmd' = [cmd EXCEPT ![b] = row]
        /\ job' = [job EXCEPT ![w] = [job[w] EXCEPT !.pc = "check",
                                                    !.copy = copy]]
    BY <1>5 DEF EnterRun, Becomes
  <2>2. job'[w].pc = "check" /\ job'[w].cmd = b /\ job'[w].copy = copy
    BY <1>0, <2>1 DEF Job
  <2>3. CASE c # b
    <3>1. ~Holds(w, c) /\ ~Holds(w, c)' /\ cmd'[c] = cmd[c]
      BY <1>0, <2>1, <2>2, <2>3 DEF Holds
    <3> QED
      BY <1>1, <1>2, <3>1, OtherPaid
  <2>4. CASE c = b
    <3>1. /\ row.status = cmd[c].status /\ row.kind = cmd[c].kind
          /\ row.marked = TRUE
      BY <1>0, <2>4 DEF Row
    <3>2. cmd'[c] = row
      BY <1>0, <2>1, <2>4
    <3>3. Waiting(c)' => Waiting(c)
      BY <3>1, <3>2 DEF Waiting, Waits, IsPausedStop
    <3>4. w \in MayCall(c)
      BY <1>0, <1>3, <2>4 DEF MayCall, Holds, At
    <3> QED
      BY <1>1, <1>2, <3>3, <3>4, PaidStep
  <2> QED
    BY <2>3, <2>4
<1> QED
  BY <1>4, <1>5
(* A worker that lets go of its command keeps it paid for, if a run that   *)
(* has posted leaves nothing waiting.                                      *)
LEMMA LeavePaid ==
  ASSUME TypeOK, TypeOK', NEW w \in Workers, NEW c \in Versions, PaidFor(c),
         ~At(w, "idle"), job' = [job EXCEPT ![w] = IdleJob],
         acts' = acts, calls' = calls,
         c # job[w].cmd => cmd'[c] = cmd[c],
         c = job[w].cmd /\ CallIsOver(w) => (Waiting(c)' => Waiting(c))
  PROVE  PaidFor(c)'
<1>0. job \in [Workers -> Job]
  BY DEF TypeOK
<1>1. \A v \in Workers \ {w} : job'[v] = job[v]
  BY <1>0
<1>2. job'[w] = IdleJob
  BY <1>0
<1>3. ~Holds(w, c)'
  BY <1>2 DEF Holds, At, IdleJob
<1>4. CASE c # job[w].cmd
  <2>1. ~Holds(w, c)
    BY <1>4 DEF Holds
  <2> QED
    BY <1>1, <1>3, <1>4, <2>1, OtherPaid
<1>5. CASE c = job[w].cmd
  <2>1. w \notin MayCall(c)'
    BY <1>3 DEF MayCall
  <2>2. CASE CallIsOver(w)
    BY <1>1, <1>5, <2>1, <2>2, PaidStep
  <2>3. CASE ~CallIsOver(w)
    <3>1. w \in MayCall(c)
      BY <1>5, <2>3 DEF MayCall, Holds
    <3> QED
      BY <1>1, <2>1, <3>1, PaidStep
  <2> QED
    BY <2>2, <2>3
<1> QED
  BY <1>4, <1>5

(* The commit of an outcome keeps every command paid for.                  *)
LEMMA WritePaid ==
  ASSUME TypeOK, TypeOK', JobsAreNamed, RunsAreMarked, NEW w \in Workers,
         WriteOutcome(w), Worker(w), NEW c \in Versions, PaidFor(c)
  PROVE  PaidFor(c)'
<1> DEFINE b == job[w].cmd
           row == Flush(cmd[b], job[w].copy, Settle(job[w].copy, job[w].out))
<1>1. /\ At(w, "write") /\ ~At(w, "idle") /\ b \in Versions
      /\ cmd \in [Versions -> Row] /\ cmd[b] \in Row /\ job[w].copy \in Row
  BY DEF WriteOutcome, At, JobsAreNamed, TypeOK, Job
<1>2. /\ cmd' = [cmd EXCEPT ![b] = row] /\ calls' = calls
      /\ job' = [job EXCEPT ![w] = IdleJob]
  BY DEF WriteOutcome, Becomes, history
<1>3. acts' = acts
  BY WorkerFrame
<1>4. c # b => cmd'[c] = cmd[c]
  BY <1>1, <1>2
<1>5. ASSUME c = b, CallIsOver(w) PROVE ~Waiting(c)'
  <2>1. job[w].out \in {"needs_check", "completed"}
    BY <1>1, <1>5 DEF CallIsOver, At
  <2>2. job[w].copy.status = "in_progress"
    BY <1>1 DEF RunsAreMarked
  <2>3. row.status \in {"dead_letter", "completed"}
    BY <1>1, <2>1, <2>2, CalledSettles
  <2>4. cmd'[c] = row
    BY <1>1, <1>2, <1>5
  <2> QED
    BY <2>3, <2>4, StopWaitsNot DEF Waiting
<1> QED
  BY <1>1, <1>2, <1>3, <1>4, <1>5, LeavePaid

(* The record of an exception keeps every command paid for.                *)
LEMMA RaisePaid ==
  ASSUME TypeOK, TypeOK', JobsAreNamed, NEW w \in Workers,
         RunRaises(w), Worker(w), NEW c \in Versions, PaidFor(c)
  PROVE  PaidFor(c)'
<1> DEFINE b == job[w].cmd
           row == IF cmd[b].status = "in_progress"
                  THEN Fail(cmd[b], Unnamed(w)) ELSE cmd[b]
<1>1. /\ ~At(w, "idle") /\ b \in Versions
      /\ cmd \in [Versions -> Row] /\ cmd[b] \in Row
  BY DEF RunRaises, At, JobsAreNamed, TypeOK
<1>2. /\ cmd' = [cmd EXCEPT ![b] = row] /\ calls' = calls
      /\ job' = [job EXCEPT ![w] = IdleJob]
  BY DEF RunRaises, Becomes, history
<1>3. acts' = acts
  BY WorkerFrame
<1>4. c # b => cmd'[c] = cmd[c]
  BY <1>1, <1>2
<1>5. ASSUME c = b, CallIsOver(w) PROVE Waiting(c)' => Waiting(c)
  <2>1. cmd'[c] = row
    BY <1>1, <1>2, <1>5
  <2>2. CASE cmd[b].status = "in_progress"
    <3>1. row = Fail(cmd[b], "needs_check")
      BY <1>5, <2>2 DEF CallIsOver, Unnamed
    <3>2. row.status = "dead_letter"
      BY <1>1, <3>1, UnknownIsDead
    <3> QED
      BY <2>1, <3>2, StopWaitsNot DEF Waiting
  <2>3. CASE cmd[b].status # "in_progress"
    BY <1>5, <2>1, <2>3 DEF Waiting, Waits, IsPausedStop
  <2> QED
    BY <2>2, <2>3
<1> QED
  BY <1>1, <1>2, <1>3, <1>4, <1>5, LeavePaid

(* So does a crash, also one in the middle of a call.                      *)
LEMMA CrashPaid ==
  ASSUME TypeOK, TypeOK', RunsAreMarked, NEW w \in Workers,
         Crash(w), Worker(w), NEW c \in Versions, PaidFor(c)
  PROVE  PaidFor(c)'
<1>0. job \in [Workers -> Job] /\ ~At(w, "idle") /\ cmd' = cmd
  BY DEF TypeOK, Crash
<1>1. job' = [job EXCEPT ![w] = IdleJob]
  BY DEF Crash, Becomes
<1>2. acts' = acts /\ \A v \in Workers \ {w} : job'[v] = job[v]
  BY WorkerFrame
<1>3. ~Holds(w, c)'
  BY <1>0, <1>1 DEF Holds, At, IdleJob
<1>4. ASSUME job[w].copy.marked PROVE Waiting(c)' => Waiting(c)
  <2>1. Unmarked(w, c)' <=> Unmarked(w, c)
    BY <1>3, <1>4 DEF Unmarked
  <2>2. HeldUnmarked(c)' <=> HeldUnmarked(c)
    BY <1>2, <2>1, SameHeld
  <2> QED
    BY <1>0, <2>2 DEF Waiting, Waits, IsPausedStop
<1>5. CASE UNCHANGED history
  <2>1. calls' = calls
    BY <1>5 DEF history
  <2>2. CallIsOver(w) => job[w].copy.marked
    BY DEF CallIsOver, RunsAreMarked
  <2> QED
    BY <1>0, <1>1, <1>2, <1>4, <2>1, <2>2, LeavePaid
<1>6. CASE At(w, "publish") /\ CountCall(w)
  <2>1. ~CallIsOver(w) /\ job[w].copy.marked
    BY <1>6 DEF CallIsOver, RunsAreMarked, At
  <2>2. calls' = [calls EXCEPT ![job[w].cmd] = @ + 1]
    BY <1>6 DEF CountCall
  <2>3. CASE c = job[w].cmd
    <3>1. w \in MayCall(c) /\ w \notin MayCall(c)'
      BY <1>0, <1>3, <2>1, <2>3 DEF MayCall, Holds
    <3>2. calls'[c] = calls[c] + 1
      BY <2>2, <2>3 DEF TypeOK
    <3> QED
      BY <1>2, <1>4, <2>1, <3>1, <3>2, PaidStep
  <2>4. CASE c # job[w].cmd
    <3>1. ~Holds(w, c) /\ calls'[c] = calls[c] /\ cmd'[c] = cmd[c]
      BY <1>0, <2>2, <2>4 DEF Holds, TypeOK
    <3> QED
      BY <1>2, <1>3, <3>1, OtherPaid
  <2> QED
    BY <2>3, <2>4
<1> QED
  BY <1>5, <1>6 DEF Crash

(* A step that moves no run keeps a command paid for, if a person paid for *)
(* what it leaves waiting.                                                 *)
LEMMA RestPaid ==
  ASSUME TypeOK, TypeOK', NEW c \in Versions, PaidFor(c), job' = job,
         calls' = calls,
         \/ acts'[c] = acts[c] + 1
         \/ acts'[c] = acts[c] /\ (Waiting(c)' => Waiting(c))
  PROVE  PaidFor(c)'
<1>1. MayCall(c)' = MayCall(c)
  BY DEF MayCall, Holds, CallIsOver, At
<1>2. Cardinality(MayCall(c)) \in Nat
  BY MayCallFinite
<1>3. calls[c] \in Nat /\ acts[c] \in Nat
  BY DEF TypeOK
<1> QED
  BY <1>1, <1>2, <1>3 DEF PaidFor
(* Voiding, creating and releasing rows leave nothing waiting that was not *)
(* waiting before.                                                         *)
LEMMA TableWaits ==
  ASSUME NEW t \in [Versions -> Row], NEW v \in Versions, NEW c \in Versions,
         NEW held
  PROVE  /\ Waits(VoidPending(t)[c], held) => Waits(t[c], held)
         /\ Waits(CreateOrGet(t, v)[c], held) => Waits(t[c], held)
         /\ Waits(RequeuePaused(t)[c], held) => Waits(t[c], held)
<1>0. t[c] \in Row
  OBVIOUS
<1>1. Waits(VoidPending(t)[c], held) => Waits(t[c], held)
  <2>1. CASE t[c].status = "pending"
    BY <2>1 DEF Waits
  <2>2. CASE t[c].status # "pending"
    BY <2>2 DEF VoidPending
  <2> QED
    BY <2>1, <2>2
<1>2. Waits(CreateOrGet(t, v)[c], held) => Waits(t[c], held)
  <2>1. CASE t[c].status = "absent"
    BY <2>1 DEF Waits
  <2>2. CASE t[c].status # "absent"
    BY <2>2 DEF CreateOrGet
  <2> QED
    BY <2>1, <2>2
<1>3. Waits(RequeuePaused(t)[c], held) => Waits(t[c], held)
  <2>1. CASE IsPausedStop(t[c])
    BY <2>1 DEF Waits
  <2>2. CASE ~IsPausedStop(t[c])
    BY <2>2 DEF RequeuePaused
  <2> QED
    BY <2>1, <2>2
<1> QED
  BY <1>1, <1>2, <1>3

(* People leave a command waiting only by an act that is counted.          *)
LEMMA PeoplePaid ==
  ASSUME TypeOK, TypeOK', People, NEW c \in Versions, PaidFor(c)
  PROVE  PaidFor(c)'
<1> DEFINE held == HeldUnmarked(c)
<1>0. /\ cmd \in [Versions -> Row] /\ latest \in Versions
      /\ acts \in [Versions -> Nat]
  BY DEF TypeOK
<1>1. job' = job /\ calls' = calls
  <2>1. calls' = calls
    BY DEF People, EditDraft, BeginSubmit, CommitSubmit, DropSubmit,
           ApproveGate, PauseOrg, ResumeOrg, PressPublish, PressCommit,
           PressDies, RetryCommand, CancelPublication, history
  <2> QED
    BY <2>1, PeopleFrame
<1>2. HeldUnmarked(c)' <=> held
  BY <1>1 DEF HeldUnmarked, Unmarked, Holds, At
<1>3. ASSUME acts' = acts, Waits(cmd'[c], held) => Waits(cmd[c], held)
      PROVE  PaidFor(c)'
  <2>1. Waiting(c)' => Waiting(c)
    BY <1>2, <1>3 DEF Waiting, Waits
  <2> QED
    BY <1>1, <1>3, <2>1, RestPaid
<1>4. CASE EditDraft \/ CommitSubmit
  <2>1. acts' = acts
    BY <1>4 DEF EditDraft, CommitSubmit, history
  <2>2. cmd' = VoidPending(cmd) \/ cmd' = cmd
    BY <1>4 DEF EditDraft, CommitSubmit
  <2> QED
    BY <1>0, <1>3, <2>1, <2>2, TableWaits
<1>5. CASE ApproveGate \/ PressPublish \/ ResumeOrg
  <2>1. acts' = acts
    BY <1>5 DEF ApproveGate, PressPublish, ResumeOrg, history
  <2>2. \/ cmd' = CreateOrGet(cmd, latest)
        \/ cmd' = RequeuePaused(cmd)
        \/ cmd' = cmd
    BY <1>5 DEF ApproveGate, PressPublish, ResumeOrg
  <2> QED
    BY <1>0, <1>3, <2>1, <2>2, TableWaits
<1>6. CASE \/ PauseOrg \/ PressDies \/ DropSubmit
           \/ \E v \in Versions, s \in BOOLEAN : BeginSubmit(v, s)
  <2>1. acts' = acts /\ cmd' = cmd
    BY <1>6 DEF PauseOrg, PressDies, DropSubmit, BeginSubmit, history
  <2> QED
    BY <1>3, <2>1
<1>7. CASE PressCommit
  <2>1. PICK row :
          /\ cmd' = [cmd EXCEPT ![press.cmd] = row]
          /\ acts' = [acts EXCEPT ![press.cmd] =
                          IF row = cmd[press.cmd] THEN @ ELSE @ + 1]
    BY <1>7 DEF PressCommit
  <2>2. CASE c = press.cmd /\ row # cmd[c]
    <3>1. acts'[c] = acts[c] + 1
      BY <1>0, <2>1, <2>2
    <3> QED
      BY <1>1, <3>1, RestPaid
  <2>3. CASE ~(c = press.cmd /\ row # cmd[c])
    <3>1. cmd'[c] = cmd[c] /\ acts'[c] = acts[c]
      BY <1>0, <2>1, <2>3
    <3>2. Waiting(c)' => Waiting(c)
      BY <1>2, <3>1 DEF Waiting, Waits
    <3> QED
      BY <1>1, <3>1, <3>2, RestPaid
  <2> QED
    BY <2>2, <2>3
<1>8. ASSUME NEW b \in Versions, RetryCommand(b) PROVE PaidFor(c)'
  <2>1. /\ cmd' = [cmd EXCEPT ![b] = Requeue(cmd[b])]
        /\ acts' = [acts EXCEPT ![b] = @ + 1]
    BY <1>8 DEF RetryCommand
  <2>2. CASE c = b
    <3>1. acts'[c] = acts[c] + 1
      BY <1>0, <2>1, <2>2
    <3> QED
      BY <1>1, <3>1, RestPaid
  <2>3. CASE c # b
    <3>1. cmd'[c] = cmd[c] /\ acts'[c] = acts[c]
      BY <1>0, <2>1, <2>3
    <3>2. Waiting(c)' => Waiting(c)
      BY <1>2, <3>1 DEF Waiting, Waits
    <3> QED
      BY <1>1, <3>1, <3>2, RestPaid
  <2> QED
    BY <2>2, <2>3
<1>9. ASSUME NEW b \in Versions, CancelPublication(b) PROVE PaidFor(c)'
  <2> DEFINE row == [cmd[b] EXCEPT !.status = "cancelled"]
  <2>1. cmd' = [cmd EXCEPT ![b] = row] /\ acts' = acts
    BY <1>9 DEF CancelPublication, history
  <2>2. row.status = "cancelled"
    BY <1>0 DEF Row
  <2>3. ~Waits(row, held)
    BY <2>2 DEF Waits, IsPausedStop
  <2>4. Waits(cmd'[c], held) => Waits(cmd[c], held)
    BY <1>0, <2>1, <2>3
  <2> QED
    BY <1>3, <2>1, <2>4
<1> QED
  BY <1>4, <1>5, <1>6, <1>7, <1>8, <1>9 DEF People

(* No stage of a tick puts a command to work that was not waiting.         *)
LEMMA TickPaid ==
  ASSUME TypeOK, TypeOK', TickStages, NEW c \in Versions, PaidFor(c)
  PROVE  PaidFor(c)'
<1> DEFINE held == HeldUnmarked(c)
<1>0. cmd \in [Versions -> Row]
  BY DEF TypeOK
<1>1. job' = job /\ calls' = calls /\ acts' = acts
  BY TickFrame DEF history
<1>2. HeldUnmarked(c)' <=> held
  BY <1>1 DEF HeldUnmarked, Unmarked, Holds, At
<1>3. ASSUME Waits(cmd'[c], held) => Waits(cmd[c], held)
      PROVE  PaidFor(c)'
  <2>1. Waiting(c)' => Waiting(c)
    BY <1>2, <1>3 DEF Waiting, Waits
  <2> QED
    BY <1>1, <2>1, RestPaid
<1>4. CASE RequeuePausedOfUnpausedOrgs
  BY <1>0, <1>3, <1>4, TableWaits DEF RequeuePausedOfUnpausedOrgs
<1>5. CASE \E b \in Versions : SweepStuckContainers(b)
  BY <1>0, <1>3, <1>5, TableWaits DEF SweepStuckContainers
<1>6. ASSUME NEW b \in Versions, RecoverInterrupted(b) PROVE PaidFor(c)'
  <2> DEFINE row == Recovered(cmd[b], b)
  <2>1. /\ cmd' = [cmd EXCEPT ![b] = row] /\ Holders(b) = {}
        /\ cmd[b].status = "in_progress" /\ cmd[b] \in Row
    BY <1>0, <1>6 DEF RecoverInterrupted
  <2>2. CASE c # b
    BY <1>0, <1>3, <2>1, <2>2
  <2>3. CASE c = b /\ cmd[b].marked
    <3>1. Settle(cmd[b], "completed").status = "completed"
      <4>1. Settle(cmd[b], "completed") = [cmd[b] EXCEPT !.status = "completed",
                                                         !.kind = "none"]
        BY DEF Settle
      <4> QED
        BY <2>1, <4>1 DEF Row
    <3>2. row.status \in {"dead_letter", "completed"}
      BY <2>1, <2>3, <3>1, UnknownIsDead DEF Recovered
    <3>3. cmd'[c] = row
      BY <1>0, <2>1, <2>3
    <3> QED
      BY <1>3, <3>2, <3>3, StopWaitsNot
  <2>4. CASE c = b /\ ~cmd[b].marked
    <3>1. ~held
      BY <2>1, <2>4 DEF HeldUnmarked, Unmarked, Holds, Holders
    <3>2. Waits(cmd[c], held)
      BY <2>1, <2>4, <3>1 DEF Waits
    <3> QED
      BY <1>3, <3>2
  <2> QED
    BY <2>2, <2>3, <2>4
<1>7. ASSUME NEW b \in Versions, DeliverStopNotice(b) PROVE PaidFor(c)'
  <2>1. PICK n : cmd' = [cmd EXCEPT ![b] = [cmd[b] EXCEPT !.notice = n]]
    BY <1>7 DEF DeliverStopNotice
  <2>2. /\ cmd'[c].status = cmd[c].status /\ cmd'[c].kind = cmd[c].kind
        /\ cmd'[c].marked = cmd[c].marked
    BY <1>0, <2>1 DEF Row
  <2> QED
    BY <1>3, <2>2 DEF Waits, IsPausedStop
<1> QED
  BY <1>4, <1>5, <1>6, <1>7 DEF TickStages

(* A run has read its row in progress and marks it before it may call.     *)
LEMMA MarkedStep ==
  ASSUME TypeOK, RunsAreMarked, [Next]_vars
  PROVE  RunsAreMarked'
<1>0. job \in [Workers -> Job] /\ cmd \in [Versions -> Row]
  BY DEF TypeOK
<1>1. CASE job' = job
  BY <1>1 DEF RunsAreMarked, At
<1>2. ASSUME NEW w \in Workers, Worker(w),
             /\ ~At(w, "idle")' => job'[w].copy.status = "in_progress"
             /\ job'[w].pc \notin {"idle", "entry", "write"}
                    => job'[w].copy.marked
             /\ job'[w].posted => job'[w].copy.marked
      PROVE  RunsAreMarked'
  <2>1. \A v \in Workers \ {w} : job'[v] = job[v]
    BY <1>2, WorkerFrame
  <2>2. ASSUME NEW v \in Workers
        PROVE  /\ ~At(v, "idle")' => job'[v].copy.status = "in_progress"
               /\ job'[v].pc \notin {"idle", "entry", "write"}
                      => job'[v].copy.marked
               /\ job'[v].posted => job'[v].copy.marked
    <3>1. CASE v = w
      BY <1>2, <3>1
    <3>2. CASE v # w
      BY <2>1, <3>2 DEF RunsAreMarked, At
    <3> QED
      BY <3>1, <3>2
  <2> QED
    BY <2>2 DEF RunsAreMarked, At
<1>3. ASSUME NEW w \in Workers, Worker(w) PROVE RunsAreMarked'
  <2>0. job[w] \in Job
    BY <1>0
  <2>1. CASE Inside(w)
    <3>1. ~At(w, "idle") /\ job'[w].copy = job[w].copy
      BY <2>1, InsideFrame
    <3>2. job[w].pc \notin {"idle", "entry", "write"}
      BY <2>1 DEF Inside, CheckBeforePublish, ClaimRow, CreateContainer,
             PollContainer, PublishContainer, RecordPublished, RunFails, At
    <3>3. job[w].copy.marked /\ job[w].copy.status = "in_progress"
      BY <3>1, <3>2 DEF RunsAreMarked
    <3> QED
      BY <1>2, <1>3, <3>1, <3>3
  <2>2. CASE EnterRun(w)
    <3>1. At(w, "entry") /\ job[w].copy.status = "in_progress"
      BY <2>2 DEF EnterRun, RunsAreMarked, At
    <3>2. CASE paused
      <4>1. job' = [job EXCEPT ![w] = [job[w] EXCEPT !.pc = "write",
                                                     !.out = "paused"]]
        BY <2>2, <3>2 DEF EnterRun, EndsWith, Becomes
      <4>2. /\ job'[w].pc = "write" /\ job'[w].copy = job[w].copy
            /\ job'[w].posted = job[w].posted
        BY <1>0, <2>0, <4>1 DEF Job
      <4>3. job[w].posted => job[w].copy.marked
        BY DEF RunsAreMarked
      <4> QED
        BY <1>2, <1>3, <3>1, <4>2, <4>3
    <3>3. CASE ~paused
      <4> DEFINE copy == [job[w].copy EXCEPT !.marked = TRUE]
      <4>1. job' = [job EXCEPT ![w] = [job[w] EXCEPT !.pc = "check",
                                                     !.copy = copy]]
        BY <2>2, <3>3 DEF EnterRun, Becomes
      <4>2. job'[w].copy = copy
        BY <1>0, <2>0, <4>1 DEF Job
      <4>3. copy.marked = TRUE /\ copy.status = "in_progress"
        BY <2>0, <3>1 DEF Job, Row
      <4> QED
        BY <1>2, <1>3, <4>2, <4>3
    <3> QED
      BY <3>2, <3>3
  <2>3. ASSUME NEW b \in Versions, ClaimCommand(w, b) PROVE RunsAreMarked'
    <3> DEFINE row == [cmd[b] EXCEPT !.status = "in_progress",
                                     !.marked = FALSE]
    <3>1. job' = [job EXCEPT ![w] = [IdleJob EXCEPT !.pc = "entry", !.cmd = b,
                                                    !.copy = row]]
      BY <2>3 DEF ClaimCommand, Becomes
    <3>2. job'[w].pc = "entry" /\ job'[w].copy = row /\ job'[w].posted = FALSE
      BY <1>0, <3>1 DEF IdleJob
    <3>3. row.status = "in_progress"
      BY <1>0 DEF Row
    <3> QED
      BY <1>2, <1>3, <3>2, <3>3
  <2>4. CASE WriteOutcome(w) \/ RunRaises(w) \/ Crash(w)
    <3>1. job' = [job EXCEPT ![w] = IdleJob]
      BY <2>4 DEF WriteOutcome, RunRaises, Crash, Becomes
    <3>2. job'[w].pc = "idle" /\ job'[w].posted = FALSE
      BY <1>0, <3>1 DEF IdleJob
    <3> QED
      BY <1>2, <1>3, <3>2 DEF At
  <2> QED
    BY <1>3, <2>1, <2>2, <2>3, <2>4 DEF Worker, Run, Inside
<1> QED
  BY <1>1, <1>3, PeopleFrame, TickFrame DEF Next, vars

(* Every step keeps every command paid for.                                *)
LEMMA ResendStep ==
  ASSUME ApprovedInv, ApprovedInv', ResendInv, [Next]_vars
  PROVE  ResendInv'
<1>0. TypeOK /\ TypeOK' /\ JobsAreNamed /\ RunsAreMarked
  BY DEF ApprovedInv, ResendInv
<1>1. RunsAreMarked'
  BY <1>0, MarkedStep
<1>2. ASSUME NEW c \in Versions PROVE PaidFor(c)'
  <2>0. PaidFor(c)
    BY DEF ResendInv
  <2>1. CASE People
    BY <1>0, <2>0, <2>1, PeoplePaid
  <2>2. CASE TickStages
    BY <1>0, <2>0, <2>2, TickPaid
  <2>3. ASSUME NEW w \in Workers, Worker(w) PROVE PaidFor(c)'
    <3>1. CASE Inside(w)
      BY <1>0, <2>0, <2>3, <3>1, InsidePaid
    <3>2. CASE EnterRun(w)
      BY <1>0, <2>0, <2>3, <3>2, EnterPaid
    <3>3. CASE \E b \in Versions : ClaimCommand(w, b)
      BY <1>0, <2>0, <2>3, <3>3, ClaimPaid
    <3>4. CASE WriteOutcome(w)
      BY <1>0, <2>0, <2>3, <3>4, WritePaid
    <3>5. CASE RunRaises(w)
      BY <1>0, <2>0, <2>3, <3>5, RaisePaid
    <3>6. CASE Crash(w)
      BY <1>0, <2>0, <2>3, <3>6, CrashPaid
    <3> QED
      BY <2>3, <3>1, <3>2, <3>3, <3>4, <3>5, <3>6 DEF Worker, Run, Inside
  <2>4. CASE UNCHANGED vars
    <3>1. /\ job' = job /\ calls' = calls /\ acts' = acts
          /\ cmd' = cmd
      BY <2>4 DEF vars, history
    <3>2. HeldUnmarked(c)' <=> HeldUnmarked(c)
      BY <3>1 DEF HeldUnmarked, Unmarked, Holds, At
    <3>3. Waiting(c)' => Waiting(c)
      BY <3>1, <3>2 DEF Waiting, Waits, IsPausedStop
    <3> QED
      BY <1>0, <2>0, <3>1, <3>3, RestPaid
  <2> QED
    BY <2>1, <2>2, <2>3, <2>4 DEF Next
<1> QED
  BY <1>1, <1>2 DEF ResendInv

(* So it holds in every reachable state.                                   *)
LEMMA ResendHolds == Spec => []ResendInv
<1>1. Init => ResendInv
  <2> SUFFICES ASSUME Init PROVE ResendInv
    OBVIOUS
  <2>1. RunsAreMarked
    BY DEF Init, RunsAreMarked, IdleJob, At
  <2>2. ASSUME NEW c \in Versions PROVE PaidFor(c)
    <3>1. MayCall(c) = {}
      BY DEF Init, MayCall, Holds, IdleJob, At
    <3>2. Cardinality(MayCall(c)) = 0
      BY <3>1, FS_EmptySet
    <3>3. calls[c] = 0 /\ acts[c] = 0
      BY DEF Init
    <3> QED
      BY <3>2, <3>3 DEF PaidFor
  <2> QED
    BY <2>1, <2>2 DEF ResendInv
<1>2. ApprovedInv /\ ApprovedInv' /\ ResendInv /\ [Next]_vars => ResendInv'
  BY ResendStep
<1> QED
  BY <1>1, <1>2, ApprovedHolds, PTL DEF Spec

(* No retry, recovery, resume or sweep sends a command a second time: each *)
(* call that may have gone out after the first answers an act of a person  *)
(* on that command, for any number of versions, overlapping ticks,         *)
(* crashes, pauses and requests.                                           *)
THEOREM NoCallUnasked == Spec => []NoAutomaticResend
<1>1. ApprovedInv /\ ResendInv => NoAutomaticResend
  <2> SUFFICES ASSUME ApprovedInv, ResendInv, NEW c \in Versions
               PROVE  calls[c] <= 1 + acts[c]
    BY DEF NoAutomaticResend
  <2>1. calls[c] \in Nat /\ acts[c] \in Nat /\ PaidFor(c)
    BY DEF ApprovedInv, TypeOK, ResendInv
  <2> QED
    BY <2>1, MayCallFinite DEF PaidFor
<1> QED
  BY <1>1, ApprovedHolds, ResendHolds, PTL

-----------------------------------------------------------------------------
(***************************************************************************)
(* The ledger implements PermittedSending.  A call is counted by a run in  *)
(* its publish step or by its crash there; the run carries a version that  *)
(* was vouched for, and what PaidFor holds ready for it is a permit.       *)
(***************************************************************************)
Promised == <<approved \cup slipped, [c \in Versions |-> 1 + acts[c]], calls,
              sentBy>>

(* People vouch for versions and give permits.                             *)
LEMMA PeoplePromise ==
  ASSUME TypeOK, TypeOK', GateIsSealed, People
  PROVE  Permits!Next \/ UNCHANGED Promised
<1> USE DEF Promised, history
<1>0. acts \in [Versions -> Nat]
  BY DEF TypeOK
<1>1. CASE EditDraft \/ ResumeOrg \/ PauseOrg \/ PressPublish \/ PressDies
           \/ DropSubmit
  BY <1>1 DEF EditDraft, ResumeOrg, PauseOrg, PressPublish, PressDies,
              DropSubmit
<1>2. CASE \/ \E v \in Versions, s \in BOOLEAN : BeginSubmit(v, s)
           \/ \E c \in Versions : CancelPublication(c)
  BY <1>2 DEF BeginSubmit, CancelPublication
<1>3. ASSUME NEW v \in Versions,
             approved' \cup slipped' = approved \cup slipped \cup {v},
             UNCHANGED <<acts, calls, sentBy>>
      PROVE  Permits!Next
  <2>1. Permits!Vouch(v)
    BY <1>3 DEF Permits!Vouch
  <2> QED
    BY <2>1 DEF Permits!Next
<1>4. CASE ApproveGate
  <2>1. /\ gate.sealed \in Versions
        /\ approved' = approved \cup {gate.sealed}
        /\ UNCHANGED <<slipped, acts, calls, sentBy>>
    BY <1>4 DEF ApproveGate, GateIsSealed
  <2>2. approved' \cup slipped' = approved \cup slipped \cup {gate.sealed}
    BY <2>1
  <2> QED
    BY <1>3, <2>1, <2>2
<1>5. CASE CommitSubmit
  <2>1. UNCHANGED <<approved, acts, calls, sentBy>>
    BY <1>5 DEF CommitSubmit
  <2>2. CASE slipped' = slipped
    BY <2>1, <2>2
  <2>3. CASE slipped' = slipped \cup {gate'.sealed}
    <3>1. gate'.sealed \in Versions
      BY <1>5, CommitSubmitGate
    <3>2. approved' \cup slipped' = approved \cup slipped \cup {gate'.sealed}
      BY <2>1, <2>3
    <3> QED
      BY <1>3, <2>1, <3>1, <3>2
  <2> QED
    BY <1>5, <2>2, <2>3 DEF CommitSubmit
<1>6. ASSUME NEW c \in Versions, acts' = [acts EXCEPT ![c] = @ + 1],
             UNCHANGED <<approved, slipped, calls, sentBy>>
      PROVE  Permits!Next
  <2>1. [d \in Versions |-> 1 + acts'[d]]
          = [[d \in Versions |-> 1 + acts[d]] EXCEPT ![c] = @ + 1]
    <3> DEFINE f == [d \in Versions |-> 1 + acts[d]]
    <3>1. \A d \in Versions :
            1 + acts'[d] = IF d = c THEN (1 + acts[d]) + 1 ELSE 1 + acts[d]
      BY <1>0, <1>6
    <3>2. [f EXCEPT ![c] = @ + 1]
            = [d \in Versions |-> IF d = c THEN (1 + acts[d]) + 1
                                  ELSE 1 + acts[d]]
      OBVIOUS
    <3> QED
      BY <3>1, <3>2
  <2>2. Permits!Permit(c)
    BY <1>6, <2>1 DEF Permits!Permit
  <2> QED
    BY <2>2 DEF Permits!Next
<1>7. CASE PressCommit
  <2>1. PICK row :
          acts' = [acts EXCEPT ![press.cmd] =
                       IF row = cmd[press.cmd] THEN @ ELSE @ + 1]
    BY <1>7 DEF PressCommit
  <2>2. UNCHANGED <<approved, slipped, calls, sentBy>> /\ press.cmd \in Versions
    BY <1>7 DEF PressCommit, TypeOK, Press
  <2>3. CASE row = cmd[press.cmd]
    <3>1. acts' = acts
      BY <1>0, <2>1, <2>3
    <3> QED
      BY <2>2, <3>1
  <2>4. CASE row # cmd[press.cmd]
    BY <1>6, <2>1, <2>2, <2>4
  <2> QED
    BY <2>3, <2>4
<1>8. ASSUME NEW c \in Versions, RetryCommand(c) PROVE Permits!Next
  BY <1>6, <1>8 DEF RetryCommand
<1> QED
  BY <1>1, <1>2, <1>4, <1>5, <1>7, <1>8 DEF People

(* A run that may still call has a permit left.                            *)
LEMMA PermitLeft ==
  ASSUME TypeOK, NEW w \in Workers, NEW c \in Versions, PaidFor(c),
         w \in MayCall(c)
  PROVE  calls[c] < 1 + acts[c]
<1>1. IsFiniteSet(MayCall(c)) /\ Cardinality(MayCall(c)) \in Nat
  BY MayCallFinite
<1>2. Cardinality(MayCall(c)) # 0
  BY <1>1, FS_EmptySet
<1>3. calls[c] \in Nat /\ acts[c] \in Nat
  BY DEF TypeOK
<1> QED
  BY <1>1, <1>2, <1>3 DEF PaidFor

-----------------------------------------------------------------------------
(***************************************************************************)
(* Rows are made for versions that exist, and the draft only moves on: a   *)
(* run publishes the latest version, which is never older than its         *)
(* command's.                                                              *)
(***************************************************************************)
RowsAreKnown ==
    /\ \A c \in Versions : cmd[c].status # "absent" => c <= latest
    /\ \A v \in Versions : pub[v] # "none" => v <= latest
    /\ press.cmd <= latest

CarriesNoOlder ==
    \A w \in Workers :
        /\ job[w].cmd <= latest
        /\ Publishing(w) => job[w].cmd <= job[w].ver /\ job[w].ver <= latest

NoOlderInv == RowsAreKnown /\ CarriesNoOlder

(* A table in which only the row of a known version is new knows its rows. *)
LEMMA RowsStayKnown ==
  ASSUME TypeOK, RowsAreKnown, NEW b \in Versions, b <= latest,
         latest' \in Versions, latest <= latest',
         \A c \in Versions \ {b} :
            cmd'[c].status # "absent" => cmd[c].status # "absent"
  PROVE  \A c \in Versions : cmd'[c].status # "absent" => c <= latest'
<1> SUFFICES ASSUME NEW c \in Versions, cmd'[c].status # "absent"
             PROVE  c <= latest'
  OBVIOUS
<1>1. latest \in Nat /\ latest' \in Nat /\ c \in Nat
  BY DEF TypeOK, Versions
<1>2. c <= latest
  BY DEF RowsAreKnown
<1> QED
  BY <1>1, <1>2

(* What the operators on the table leave absent.                           *)
LEMMA TableAbsent ==
  ASSUME cmd \in [Versions -> Row], NEW c \in Versions
  PROVE  /\ VoidPending(cmd)[c].status # "absent" => cmd[c].status # "absent"
         /\ RequeuePaused(cmd)[c].status # "absent" => cmd[c].status # "absent"
         /\ \A b \in Versions \ {c} : CreateOrGet(cmd, b)[c] = cmd[c]
<1>1. cmd[c] \in Row
  OBVIOUS
<1>2. VoidPending(cmd)[c].status # "absent" => cmd[c].status # "absent"
  BY <1>1 DEF VoidPending, Row
<1>3. RequeuePaused(cmd)[c].status # "absent" => cmd[c].status # "absent"
  BY <1>1 DEF RequeuePaused, IsPausedStop, Row
<1>4. \A b \in Versions \ {c} : CreateOrGet(cmd, b)[c] = cmd[c]
  BY DEF CreateOrGet
<1> QED
  BY <1>2, <1>3, <1>4

(* People make rows for the latest version only.                           *)
LEMMA PeopleNoOlder ==
  ASSUME TypeOK, TypeOK', NoOlderInv, People
  PROVE  RowsAreKnown' /\ latest <= latest'
<1> USE DEF NoOlderInv
<1>0. /\ cmd \in [Versions -> Row] /\ latest \in Versions
      /\ latest' \in Versions /\ latest \in Nat /\ press \in Press
  BY DEF TypeOK, Versions
<1>1. latest <= latest' /\ pub' = pub
  BY <1>0 DEF People, EditDraft, BeginSubmit, CommitSubmit, DropSubmit,
         ApproveGate, PauseOrg, ResumeOrg, PressPublish, PressCommit,
         PressDies, RetryCommand, CancelPublication, history, Versions
<1>2. \A v \in Versions : pub'[v] # "none" => v <= latest'
  BY <1>0, <1>1 DEF RowsAreKnown, Versions
<1>3. press'.cmd <= latest'
  <2>1. CASE PressPublish
    <3>1. press'.cmd \in {0, latest} /\ latest' = latest
      BY <2>1, Zenon DEF PressPublish, NoPress
    <3> QED
      BY <1>0, <3>1
  <2>2. CASE press' = NoPress
    BY <1>0, <2>2 DEF NoPress, Versions
  <2>3. CASE press' = press
    <3>1. press.cmd \in Nat /\ latest' \in Nat
      BY <1>0 DEF Press, Versions
    <3> QED
      BY <1>0, <1>1, <2>3, <3>1 DEF RowsAreKnown
  <2> QED
    BY <2>1, <2>2, <2>3
       DEF People, EditDraft, BeginSubmit, CommitSubmit, DropSubmit,
           ApproveGate, PauseOrg, ResumeOrg, PressCommit, PressDies,
           RetryCommand, CancelPublication, history
<1>4. PICK b \in Versions :
        /\ b <= latest
        /\ \A c \in Versions \ {b} :
              cmd'[c].status # "absent" => cmd[c].status # "absent"
  <2>1. CASE ApproveGate \/ PressPublish
    <3>1. cmd' = CreateOrGet(cmd, latest) \/ cmd' = cmd
      BY <2>1 DEF ApproveGate, PressPublish
    <3> QED
      BY <1>0, <3>1, TableAbsent
  <2>2. CASE EditDraft \/ CommitSubmit \/ ResumeOrg
    <3>1. cmd' \in {cmd, VoidPending(cmd), RequeuePaused(cmd)}
      BY <2>2 DEF EditDraft, CommitSubmit, ResumeOrg
    <3> QED
      BY <1>0, <3>1, TableAbsent
  <2>3. CASE PressCommit
    <3>1. press.cmd \in Versions /\ press.cmd <= latest
      BY <1>0, <2>3 DEF PressCommit, Press, RowsAreKnown
    <3>2. \A c \in Versions \ {press.cmd} : cmd'[c] = cmd[c]
      BY <1>0, <2>3 DEF PressCommit
    <3> QED
      BY <3>1, <3>2
  <2>4. ASSUME NEW d \in Versions, RetryCommand(d) \/ CancelPublication(d)
        PROVE  \A c \in Versions :
                  cmd'[c].status # "absent" => cmd[c].status # "absent"
    <3>1. cmd[d].status # "absent"
      BY <2>4 DEF RetryCommand, CancelPublication, HumanRetryable
    <3>2. \A c \in Versions \ {d} : cmd'[c] = cmd[c]
      BY <1>0, <2>4 DEF RetryCommand, CancelPublication
    <3> QED
      BY <3>1, <3>2
  <2>5. CASE cmd' = cmd
    BY <1>0, <2>5
  <2> QED
    BY <1>0, <2>1, <2>2, <2>3, <2>4, <2>5
       DEF People, BeginSubmit, DropSubmit, PauseOrg, PressDies, history
<1>5. \A c \in Versions : cmd'[c].status # "absent" => c <= latest'
  BY <1>0, <1>1, <1>4, RowsStayKnown
<1> QED
  BY <1>1, <1>2, <1>3, <1>5 DEF RowsAreKnown

(* The sweep makes a row for a version that has a publication.             *)
LEMMA TickNoOlder ==
  ASSUME TypeOK, NoOlderInv, TickStages
  PROVE  RowsAreKnown'
<1> USE DEF NoOlderInv
<1>0. /\ cmd \in [Versions -> Row] /\ latest \in Versions
      /\ UNCHANGED <<latest, pub, press>>
  BY TickFrame DEF TypeOK
<1>1. \E b \in Versions :
        /\ b <= latest
        /\ \A c \in Versions \ {b} :
              cmd'[c].status # "absent" => cmd[c].status # "absent"
  <2>1. CASE RequeuePausedOfUnpausedOrgs
    <3>1. cmd' = RequeuePaused(cmd)
      BY <2>1 DEF RequeuePausedOfUnpausedOrgs
    <3> QED
      BY <1>0, <3>1, TableAbsent DEF Versions
  <2>2. ASSUME NEW b \in Versions, SweepStuckContainers(b)
        PROVE  b <= latest /\ cmd' = CreateOrGet(cmd, b)
    BY <2>2 DEF SweepStuckContainers, RowsAreKnown
  <2>3. ASSUME NEW b \in Versions, RecoverInterrupted(b)
        PROVE  b <= latest /\ \A c \in Versions \ {b} : cmd'[c] = cmd[c]
    BY <1>0, <2>3 DEF RecoverInterrupted, RowsAreKnown
  <2>4. ASSUME NEW b \in Versions, DeliverStopNotice(b)
        PROVE  \A c \in Versions : cmd'[c].status = cmd[c].status
    BY <1>0, <2>4 DEF DeliverStopNotice, Row
  <2>5. latest <= latest
    BY <1>0 DEF Versions
  <2> QED
    BY <1>0, <2>1, <2>2, <2>3, <2>4, <2>5, TableAbsent DEF TickStages
<1>2. latest' \in Versions /\ latest <= latest'
  BY <1>0 DEF Versions
<1> QED
  BY <1>0, <1>1, <1>2, RowsStayKnown DEF RowsAreKnown

(* A worker writes rows it holds or claims, and publications of the version *)
(* in its hand; what it puts in its hand is the latest version.            *)
LEMMA WorkerNoOlder ==
  ASSUME TypeOK, TypeOK', JobsAreNamed, NoOlderInv, NEW w \in Workers,
         Worker(w)
  PROVE  NoOlderInv'
<1> USE DEF NoOlderInv
<1>0. /\ cmd \in [Versions -> Row] /\ latest \in Versions /\ latest \in Nat
      /\ job \in [Workers -> Job] /\ pub \in [Versions -> PubStates]
      /\ job[w] \in Job /\ job[w].cmd <= latest
  BY DEF TypeOK, Versions, CarriesNoOlder
<1>1. /\ latest' = latest /\ press' = press
      /\ \A v \in Workers \ {w} : job'[v] = job[v]
  BY WorkerFrame
<1>2. \E b \in Versions :
        b <= latest /\ \A c \in Versions \ {b} : cmd'[c] = cmd[c]
  <2>1. CASE EnterRun(w) \/ WriteOutcome(w) \/ RunRaises(w)
    <3>1. job[w].cmd \in Versions
      BY <2>1 DEF EnterRun, WriteOutcome, RunRaises, JobsAreNamed, At
    <3>2. \A c \in Versions \ {job[w].cmd} : cmd'[c] = cmd[c]
      BY <1>0, <2>1 DEF EnterRun, WriteOutcome, RunRaises
    <3> QED
      BY <1>0, <3>1, <3>2
  <2>2. ASSUME NEW b \in Versions, ClaimCommand(w, b)
        PROVE  b <= latest /\ \A c \in Versions \ {b} : cmd'[c] = cmd[c]
    BY <1>0, <2>2 DEF ClaimCommand, RowsAreKnown
  <2>3. ASSUME cmd' = cmd
        PROVE  /\ latest <= latest
               /\ \A c \in Versions \ {latest} : cmd'[c] = cmd[c]
    BY <1>0, <2>3
  <2>4. CASE Inside(w) \/ Crash(w)
    BY <1>0, <2>3, <2>4, InsideFrame DEF Crash
  <2> QED
    BY <1>0, <2>1, <2>2, <2>4 DEF Worker, Run, Inside
<1>3. \A v \in Versions : pub'[v] # "none" => pub[v] # "none" \/ v <= latest
  <2>1. CASE pub' = pub
    BY <2>1
  <2>2. CASE Publishing(w) /\ \E s : pub' = [pub EXCEPT ![job[w].ver] = s]
    BY <1>0, <2>2 DEF CarriesNoOlder
  <2> QED
    BY <2>1, <2>2
       DEF Worker, Run, ClaimCommand, EnterRun, CheckBeforePublish, ClaimRow,
           CreateContainer, PollContainer, PublishContainer, MarkFailed,
           RecordPublished, RunFails, WriteOutcome, RunRaises, Crash,
           Publishing, At
<1>4. RowsAreKnown'
  <2>1. \A c \in Versions : cmd'[c].status # "absent" => c <= latest'
    <3>1. latest' \in Versions /\ latest <= latest'
      BY <1>0, <1>1
    <3> QED
      BY <1>2, <3>1, RowsStayKnown
  <2> QED
    BY <1>1, <1>3, <2>1 DEF RowsAreKnown
<1>5. /\ job'[w].cmd <= latest
      /\ Publishing(w)' => job'[w].cmd <= job'[w].ver /\ job'[w].ver <= latest
  <2>1. CASE Inside(w)
    <3>1. /\ job'[w].cmd = job[w].cmd
          /\ Publishing(w)' => \/ Publishing(w) /\ job'[w].ver = job[w].ver
                               \/ job'[w].ver = latest
      BY <2>1, InsideFrame
    <3> QED
      BY <1>0, <3>1 DEF CarriesNoOlder
  <2>2. CASE EnterRun(w)
    <3>1. job'[w].pc \in {"write", "check"} /\ job'[w].cmd = job[w].cmd
      <4>1. CASE EndsWith(w, "paused")
        BY <1>0, <4>1 DEF EndsWith, Becomes, Job
      <4>2. CASE Becomes(w, [job[w] EXCEPT !.pc = "check",
                                           !.copy.marked = TRUE])
        BY <1>0, <4>2 DEF Becomes, Job
      <4> QED
        BY <2>2, <4>1, <4>2 DEF EnterRun
    <3> QED
      BY <1>0, <3>1 DEF Publishing
  <2>3. ASSUME NEW b \in Versions, ClaimCommand(w, b)
        PROVE  /\ job'[w].cmd <= latest
               /\ ~Publishing(w)'
    <3>1. job'[w].cmd = b /\ job'[w].pc = "entry" /\ cmd[b].status = "pending"
      BY <1>0, <2>3 DEF ClaimCommand, Becomes, IdleJob
    <3> QED
      BY <3>1 DEF Publishing, RowsAreKnown
  <2>4. CASE WriteOutcome(w) \/ RunRaises(w) \/ Crash(w)
    <3>1. job'[w] = IdleJob
      BY <1>0, <2>4 DEF WriteOutcome, RunRaises, Crash, Becomes
    <3> QED
      BY <1>0, <3>1 DEF IdleJob, Publishing
  <2> QED
    BY <2>1, <2>2, <2>3, <2>4 DEF Worker, Run, Inside
<1> QED
  BY <1>1, <1>4, <1>5 DEF CarriesNoOlder, Publishing

(* Every step keeps a command from an older version than its own.          *)
LEMMA NoOlderStep ==
  ASSUME ApprovedInv, ApprovedInv', NoOlderInv, [Next]_vars
  PROVE  NoOlderInv'
<1>0. TypeOK /\ TypeOK' /\ JobsAreNamed
  BY DEF ApprovedInv
<1>1. ASSUME job' = job, latest <= latest' PROVE CarriesNoOlder'
  <2> SUFFICES ASSUME NEW w \in Workers
               PROVE  /\ job[w].cmd <= latest'
                      /\ Publishing(w) => /\ job[w].cmd <= job[w].ver
                                          /\ job[w].ver <= latest'
    BY <1>1 DEF CarriesNoOlder, Publishing
  <2>1. /\ job[w].cmd \in Nat /\ latest \in Nat /\ latest' \in Nat
        /\ job[w].ver \in Nat
    <3>1. job[w] \in Job /\ latest \in Versions /\ latest' \in Versions
      BY <1>0 DEF TypeOK
    <3> QED
      BY <3>1 DEF Job, Versions
  <2> QED
    BY <1>1, <2>1 DEF NoOlderInv, CarriesNoOlder
<1>2. CASE People
  <2>1. job' = job
    BY <1>2, PeopleFrame
  <2> QED
    BY <1>0, <1>1, <1>2, <2>1, PeopleNoOlder DEF NoOlderInv
<1>3. CASE TickStages
  <2>1. job' = job /\ latest' = latest /\ latest <= latest
    BY <1>0, <1>3, TickFrame DEF TypeOK, Versions
  <2> QED
    BY <1>0, <1>1, <1>3, <2>1, TickNoOlder DEF NoOlderInv
<1>4. ASSUME NEW w \in Workers, Worker(w) PROVE NoOlderInv'
  BY <1>0, <1>4, WorkerNoOlder
<1>5. CASE UNCHANGED vars
  BY <1>5 DEF vars, NoOlderInv, RowsAreKnown, CarriesNoOlder, Publishing
<1> QED
  BY <1>2, <1>3, <1>4, <1>5 DEF Next

LEMMA NoOlderHolds == Spec => []NoOlderInv
<1>1. Init => NoOlderInv
  BY DEF Init, NoCommand, NewCommand, NoPress, IdleJob, Publishing, Versions,
         NoOlderInv, RowsAreKnown, CarriesNoOlder
<1>2. ApprovedInv /\ ApprovedInv' /\ NoOlderInv /\ [Next]_vars => NoOlderInv'
  BY NoOlderStep
<1> QED
  BY <1>1, <1>2, ApprovedHolds, PTL DEF Spec

-----------------------------------------------------------------------------
(* A worker counts a call with a permit and a version vouched for.         *)
LEMMA WorkerPromise ==
  ASSUME ApprovedInv, ResendInv, NoOlderInv, NEW w \in Workers, Worker(w)
  PROVE  Permits!Next \/ UNCHANGED Promised
<1>0. /\ TypeOK /\ UNCHANGED <<approved, slipped, acts>>
  BY WorkerFrame DEF ApprovedInv
<1>1. CASE UNCHANGED <<calls, sentBy>>
  BY <1>0, <1>1 DEF Promised
<1>2. CASE At(w, "publish") /\ CountCall(w)
  <2> DEFINE c == job[w].cmd
             v == job[w].ver
  <2>1. c \in Versions /\ v \in Versions /\ v \in approved \cup slipped
    BY <1>2 DEF ApprovedInv, JobsAreNamed, CarriesVouched, Publishing, At,
                Vouched
  <2>2. w \in MayCall(c)
    BY <1>2 DEF MayCall, Holds, CallIsOver, At
  <2>3. calls[c] < 1 + acts[c]
    BY <1>0, <2>1, <2>2, PermitLeft DEF ResendInv
  <2>4. /\ calls' = [calls EXCEPT ![c] = @ + 1]
        /\ sentBy' = [sentBy EXCEPT ![c] = @ \cup {v}]
    BY <1>2 DEF CountCall
  <2>5. c <= v
    BY <1>2 DEF NoOlderInv, CarriesNoOlder, Publishing, At
  <2>6. Permits!Send(c, v)
    BY <1>0, <2>1, <2>3, <2>4, <2>5 DEF Permits!Send
  <2> QED
    BY <2>1, <2>6 DEF Permits!Next
<1>3. UNCHANGED <<calls, sentBy>> \/ (At(w, "publish") /\ CountCall(w))
  BY DEF Worker, Run, ClaimCommand, EnterRun, CheckBeforePublish, ClaimRow,
         CreateContainer, PollContainer, PublishContainer, RecordPublished,
         RunFails, WriteOutcome, RunRaises, Crash, history
<1> QED
  BY <1>1, <1>2, <1>3

(* Every step of the ledger is a step of PermittedSending or none.         *)
LEMMA PromiseStep ==
  ASSUME ApprovedInv, ApprovedInv', ResendInv, NoOlderInv, [Next]_vars
  PROVE  [Permits!Next]_Promised
<1>1. CASE People
  BY <1>1, PeoplePromise DEF ApprovedInv
<1>2. CASE TickStages
  BY <1>2, TickFrame DEF Promised, history
<1>3. ASSUME NEW w \in Workers, Worker(w)
      PROVE  Permits!Next \/ UNCHANGED Promised
  BY <1>3, WorkerPromise
<1>4. CASE UNCHANGED vars
  BY <1>4 DEF vars, history, Promised
<1> QED
  BY <1>1, <1>2, <1>3, <1>4 DEF Next

(* The command ledger, its recoveries, retries and requests included,      *)
(* implements PermittedSending: whichever path a call takes, its version   *)
(* was vouched for before, it is no older than the command's own, and the  *)
(* command had a permit left.  Two commands may carry one version.         *)
THEOREM LedgerKeepsPromise == Spec => SendsAsPermitted
<1>1. Init => Permits!Init
  BY DEF Init, Permits!Init
<1>2. ApprovedInv /\ ApprovedInv' /\ ResendInv /\ NoOlderInv /\ [Next]_vars
        => [Permits!Next]_Promised
  BY PromiseStep
<1>3. Promised = Permits!vars
  BY DEF Promised, Permits!vars
<1> QED
  BY <1>1, <1>2, ApprovedHolds, ResendHolds, NoOlderHolds, PTL
     DEF Spec, SendsAsPermitted, Permits!Spec, Promised, Permits!vars
=============================================================================
