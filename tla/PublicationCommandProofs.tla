---------------------- MODULE PublicationCommandProofs ----------------------
(***************************************************************************)
(* Theorems about the publication command ledger, for any number of        *)
(* versions, overlapping ticks, retries, crashes, pauses and requests.     *)
(***************************************************************************)
EXTENDS PublicationCommand, TLAPS

USE VersionsAssumption, RetriesAssumption, BoundsAssumption

-----------------------------------------------------------------------------
(* The functions on rows *)

(* A row one of whose columns is written stays a row.                      *)
LEMMA RowFields ==
  ASSUME NEW r \in Row
  PROVE  /\ \A x \in CommandStatuses : [r EXCEPT !.status = x] \in Row
         /\ \A x \in Marks : [r EXCEPT !.notice = x] \in Row
         /\ \A x \in BOOLEAN : [r EXCEPT !.marked = x] \in Row
  BY DEF Row

(* A stop's notice is a column of the row.                                 *)
LEMMA MarkStopNoticeType ==
  ASSUME NEW r \in Row
  PROVE  MarkStopNotice(r) \in Row
  BY DEF MarkStopNotice, Row, Marks

(* A failure, whatever its kind, leaves a row of the table.                *)
LEMMA FailType ==
  ASSUME NEW r \in Row, NEW k \in FailureKinds \cup {"none"}
  PROVE  Fail(r, k) \in Row
<1> DEFINE blocked == [r EXCEPT !.status = "blocked", !.kind = k]
           again == [r EXCEPT !.status = "pending", !.kind = k,
                              !.attempts = @ + 1]
           dead == [r EXCEPT !.status = "dead_letter", !.kind = k,
                             !.attempts = @ + 1]
<1>1. blocked \in Row /\ again \in Row /\ dead \in Row
  <2>1. k \in FailureKinds \cup {"none", "paused"} /\ r.attempts + 1 \in Nat
    BY DEF Row
  <2>2. blocked \in Row
    BY <2>1 DEF Row, CommandStatuses
  <2>3. again \in Row
    BY <2>1 DEF Row, CommandStatuses
  <2>4. dead \in Row
    BY <2>1 DEF Row, CommandStatuses
  <2> QED
    BY <2>2, <2>3, <2>4
<1>2. \/ Fail(r, k) = MarkStopNotice(blocked)
      \/ Fail(r, k) = again
      \/ Fail(r, k) = MarkStopNotice(dead)
  <2>1. CASE k = "connection"
    BY <2>1, Zenon DEF Fail
  <2>2. CASE k # "connection" /\ k = "transient" /\ r.attempts + 1 < MaxRetries
    BY <2>2, Zenon DEF Fail
  <2>3. CASE k # "connection" /\ ~(k = "transient" /\ r.attempts + 1 < MaxRetries)
    BY <2>3, Zenon DEF Fail
  <2> QED
    BY <2>1, <2>2, <2>3
<1> QED
  BY <1>1, <1>2, MarkStopNoticeType

(* Every outcome of a run leaves a row of the table.                       *)
LEMMA SettleType ==
  ASSUME NEW r \in Row, NEW o \in Outcomes
  PROVE  Settle(r, o) \in Row
<1> DEFINE void == [r EXCEPT !.status = "voided"]
           wait == [r EXCEPT !.status = "pending", !.kind = "none"]
           done == [r EXCEPT !.status = "completed", !.kind = "none"]
<1>1. /\ BlockForPause(r) \in Row /\ BlockUnapproved(r) \in Row
      /\ void \in Row /\ wait \in Row /\ done \in Row
  BY DEF BlockForPause, BlockUnapproved, Row, CommandStatuses, FailureKinds
<1>2. CASE o \in FailureKinds \cup {"none"}
  <2>1. Fail(r, o) \in Row
    BY <1>2, FailType
  <2>2. Settle(r, o) = Fail(r, o)
    BY <1>2 DEF Settle, FailureKinds
  <2> QED
    BY <2>1, <2>2
<1>3. CASE o \in {"paused", "unapproved", "voided", "waiting", "completed"}
  <2>1. Settle(r, o) \in {BlockForPause(r), BlockUnapproved(r), void, wait,
                          done}
    BY <1>3, Zenon DEF Settle
  <2> QED
    BY <1>1, <2>1
<1> QED
  BY <1>2, <1>3 DEF Outcomes

(* An UPDATE of the changed columns leaves a row of the table.             *)
LEMMA FlushType ==
  ASSUME NEW r \in Row, NEW s \in Row, NEW t \in Row
  PROVE  Flush(r, s, t) \in Row
  BY DEF Flush, Row

(* A requeued row is a row of the table.                                   *)
LEMMA RequeueType ==
  ASSUME NEW r \in Row
  PROVE  Requeue(r) \in Row
  BY DEF Requeue, Row, CommandStatuses, FailureKinds, Marks

(* What a publish request makes of its copy is a row of the table.         *)
LEMMA PreflightType ==
  ASSUME NEW r \in Row, NEW s \in PreflightResults(r)
  PROVE  s \in Row
<1>1. BlockForPause(r) \in Row /\ BlockUnapproved(r) \in Row
  BY DEF BlockForPause, BlockUnapproved, Row, CommandStatuses
<1>2. [r EXCEPT !.status = "voided"] \in Row
  BY DEF Row, CommandStatuses
<1>3. RequeueForHumanPublish(r) \in Row
  BY RequeueType DEF RequeueForHumanPublish
<1>4. Fail(r, "connection") \in Row /\ Fail(r, "not_sent") \in Row
  BY FailType DEF FailureKinds
<1> QED
  BY <1>1, <1>2, <1>3, <1>4 DEF PreflightResults

(* Creating a command, voiding the pending ones and releasing the paused   *)
(* ones keep the table typed.                                              *)
LEMMA TableType ==
  ASSUME NEW t \in [Versions -> Row], NEW v
  PROVE  /\ VoidPending(t) \in [Versions -> Row]
         /\ CreateOrGet(t, v) \in [Versions -> Row]
         /\ RequeuePaused(t) \in [Versions -> Row]
<1>1. \A r \in Row : [r EXCEPT !.status = "voided"] \in Row
  BY DEF Row, CommandStatuses
<1>2. NewCommand \in Row
  BY DEF NewCommand, Row, CommandStatuses, FailureKinds, Marks
<1>3. VoidPending(t) \in [Versions -> Row]
  BY <1>1 DEF VoidPending
<1>4. CreateOrGet(t, v) \in [Versions -> Row]
  BY <1>2 DEF CreateOrGet
<1>5. RequeuePaused(t) \in [Versions -> Row]
  BY RequeueType DEF RequeuePaused
<1> QED
  BY <1>3, <1>4, <1>5

-----------------------------------------------------------------------------
(* Types *)

\* A gate that waits or is approved has a version in it, and a gate that a
\* submission has read is there to stay.
GateIsSealed ==
    /\ gate.status # "none" => gate.sealed \in Versions
    /\ submit.copy.status # "none" => gate.status # "none"

(* Spending a bound keeps the counters typed.                              *)
LEMMA SpendType ==
  ASSUME spent \in [BoundKinds -> Nat], NEW k \in BoundKinds, Spend(k)
  PROVE  spent' \in [BoundKinds -> Nat]
  BY DEF Spend

(* No request is a request.                                                *)
LEMMA NoPressType == NoPress \in Press
  BY DEF NoPress, Press, NoCommand, NewCommand, Row, CommandStatuses,
         FailureKinds, Marks

(* Neither is no submission a submission.                                  *)
LEMMA NoSubmitType == NoSubmit \in Submit
  BY DEF NoSubmit, Submit, NoGate, Gate

(* Writing the columns that changed over a gate row leaves a gate row.     *)
LEMMA FlushGateType ==
  ASSUME NEW row \in Gate, NEW copy \in Gate, NEW new \in Gate
  PROVE  FlushGate(row, copy, new) \in Gate
  BY DEF FlushGate, Gate

(* What a submission leaves in the gate.                                   *)
LEMMA CommitSubmitGate ==
  ASSUME TypeOK, GateIsSealed, CommitSubmit
  PROVE  /\ gate' \in Gate
         /\ gate'.status # "none"
         /\ gate'.sealed \in Versions
<1> DEFINE copy == IF submit.copy.status = "none" THEN gate ELSE submit.copy
           new == [status |-> "pending", sealed |-> submit.target,
                   scheduled |-> submit.scheduled, reapproval |-> FALSE]
<1>1. gate' = FlushGate(gate, copy, new)
  BY DEF CommitSubmit
<1>2. gate \in Gate /\ copy \in Gate
  BY DEF TypeOK, Submit
<1>3. new \in Gate /\ new.sealed \in Versions
  BY DEF TypeOK, Submit, Gate, CommitSubmit, Versions
<1>4. gate' \in Gate
  BY <1>1, <1>2, <1>3, FlushGateType
<1>5. /\ gate'.status = IF "pending" # copy.status THEN "pending"
                       ELSE gate.status
      /\ gate'.sealed = IF new.sealed # copy.sealed THEN new.sealed
                        ELSE gate.sealed
  BY <1>1 DEF FlushGate
<1>6. CASE gate.status = "none"
  BY <1>3, <1>4, <1>5, <1>6, VersionsAssumption DEF GateIsSealed, TypeOK
<1>7. CASE gate.status # "none"
  BY <1>3, <1>4, <1>5, <1>7 DEF GateIsSealed
<1> QED
  BY <1>6, <1>7

(* The acts of people and the requests they send keep the state typed.     *)
LEMMA PeopleType == TypeOK /\ GateIsSealed /\ People => TypeOK'
<1> SUFFICES ASSUME TypeOK, GateIsSealed, People PROVE TypeOK'
  OBVIOUS
<1> USE DEF TypeOK, history
<1>1. CASE EditDraft
  <2>1. latest' \in Versions
    BY <1>1 DEF EditDraft, Versions
  <2>2. gate' \in Gate
    <3>1. CASE gate.status = "approved"
      <4>1. gate' = [gate EXCEPT !.status = "pending", !.reapproval = TRUE]
        BY <1>1, <3>1, Zenon DEF EditDraft
      <4> QED
        BY <4>1 DEF Gate
    <3>2. CASE gate.status = "pending"
      <4>1. gate' = [gate EXCEPT !.sealed = latest + 1]
        BY <1>1, <3>2 DEF EditDraft
      <4>2. latest + 1 \in 0..MaxVersion
        BY <1>1 DEF EditDraft, Versions
      <4> QED
        BY <4>1, <4>2 DEF Gate
    <3>3. CASE gate.status = "none"
      <4>1. gate' = gate
        BY <1>1, <3>3 DEF EditDraft
      <4> QED
        BY <4>1 DEF Gate
    <3> QED
      BY <3>1, <3>2, <3>3 DEF Gate
  <2>3. cmd' \in [Versions -> Row]
    BY <1>1, TableType DEF EditDraft
  <2> QED
    BY <1>1, <2>1, <2>2, <2>3 DEF EditDraft, Gate
<1>2. ASSUME NEW v \in Versions, NEW s \in BOOLEAN, BeginSubmit(v, s)
      PROVE  TypeOK'
  <2>1. submit' \in Submit
    BY <1>2 DEF BeginSubmit, Submit
  <2>2. spent' \in [BoundKinds -> Nat]
    BY <1>2, SpendType DEF BeginSubmit, BoundKinds
  <2> QED
    BY <1>2, <2>1, <2>2 DEF BeginSubmit
<1>11. CASE CommitSubmit
  <2>1. cmd' \in [Versions -> Row]
    BY <1>11, TableType DEF CommitSubmit
  <2>2. slipped' \subseteq Versions
    BY <1>11, CommitSubmitGate DEF CommitSubmit
  <2>3. /\ submit' = NoSubmit
        /\ UNCHANGED <<latest, paused, pub, job, press, spent, approved, calls,
                       sentBy, acts, pressed>>
    BY <1>11, Zenon DEF CommitSubmit
  <2> QED
    BY <1>11, <2>1, <2>2, <2>3, CommitSubmitGate, NoSubmitType
<1>12. CASE DropSubmit
  BY <1>12, NoSubmitType DEF DropSubmit
<1>3. CASE ApproveGate
  <2>1. gate' \in Gate
    BY <1>3 DEF ApproveGate, Gate
  <2>2. cmd' \in [Versions -> Row]
    BY <1>3, TableType DEF ApproveGate
  <2>3. approved' \subseteq Versions
    BY <1>3 DEF ApproveGate, GateIsSealed
  <2> QED
    BY <1>3, <2>1, <2>2, <2>3 DEF ApproveGate, Gate
<1>4. CASE PauseOrg
  <2>1. spent' \in [BoundKinds -> Nat]
    BY <1>4, SpendType DEF PauseOrg, BoundKinds
  <2> QED
    BY <1>4, <2>1 DEF PauseOrg
<1>5. CASE ResumeOrg
  BY <1>5, TableType DEF ResumeOrg
<1>6. CASE PressPublish
  <2>1. cmd' \in [Versions -> Row]
    BY <1>6, TableType DEF PressPublish
  <2>2. press' \in Press
    <3>1. [cmd |-> latest, copy |-> cmd'[latest]] \in Press
      BY <2>1 DEF Press
    <3> QED
      BY <1>6, <3>1, NoPressType, Zenon DEF PressPublish
  <2>3. spent' \in [BoundKinds -> Nat]
    BY <1>6, SpendType DEF PressPublish, BoundKinds
  <2> QED
    BY <1>6, <2>1, <2>2, <2>3 DEF PressPublish
<1>7. CASE PressCommit
  <2>1. PICK new \in PreflightResults(press.copy) :
          LET c == press.cmd
              row == Flush(cmd[c], press.copy, new)
          IN  /\ cmd' = [cmd EXCEPT ![c] = row]
              /\ acts' = [acts EXCEPT ![c] = IF row = cmd[c] THEN @ ELSE @ + 1]
              /\ pressed' = IF row = cmd[c] THEN pressed
                            ELSE pressed \cup {c}
    BY <1>7 DEF PressCommit
  <2>2. new \in Row /\ press.copy \in Row
    BY PreflightType DEF Press
  <2>3. press.cmd \in Versions
    BY <1>7 DEF PressCommit, Press
  <2>4. cmd' \in [Versions -> Row]
    BY <2>1, <2>2, <2>3, FlushType
  <2>5. acts' \in [Versions -> Nat]
    BY <2>1, <2>3
  <2>6. pressed' \subseteq Versions
    BY <2>1, <2>3
  <2> QED
    BY <1>7, <2>4, <2>5, <2>6, NoPressType DEF PressCommit
<1>8. CASE PressDies
  BY <1>8, NoPressType DEF PressDies
<1>9. ASSUME NEW c \in Versions, RetryCommand(c) PROVE TypeOK'
  <2>1. cmd' \in [Versions -> Row] /\ acts' \in [Versions -> Nat]
    BY <1>9, RequeueType DEF RetryCommand
  <2>2. spent' \in [BoundKinds -> Nat]
    BY <1>9, SpendType DEF RetryCommand, BoundKinds
  <2> QED
    BY <1>9, <2>1, <2>2 DEF RetryCommand
<1>10. ASSUME NEW c \in Versions, CancelPublication(c) PROVE TypeOK'
  <2>1. [cmd[c] EXCEPT !.status = "cancelled"] \in Row
    BY RowFields DEF CommandStatuses
  <2>3. cmd' = [cmd EXCEPT ![c] = [cmd[c] EXCEPT !.status = "cancelled"]]
    BY <1>10 DEF CancelPublication
  <2>4. cmd' \in [Versions -> Row]
    BY <2>1, <2>3
  <2>2. spent' \in [BoundKinds -> Nat]
    BY <1>10, SpendType DEF CancelPublication, BoundKinds
  <2> QED
    BY <1>10, <2>2, <2>4 DEF CancelPublication
<1> QED
  BY <1>1, <1>2, <1>3, <1>4, <1>5, <1>6, <1>7, <1>8, <1>9, <1>10, <1>11,
     <1>12 DEF People

(* The stages of a tick keep the state typed.                              *)
LEMMA TickType == TypeOK /\ TickStages => TypeOK'
<1> SUFFICES ASSUME TypeOK, TickStages PROVE TypeOK'
  OBVIOUS
<1> USE DEF TypeOK, history
<1>1. CASE RequeuePausedOfUnpausedOrgs
  BY <1>1, TableType DEF RequeuePausedOfUnpausedOrgs
<1>2. ASSUME NEW c \in Versions, SweepStuckContainers(c) PROVE TypeOK'
  BY <1>2, TableType DEF SweepStuckContainers
<1>3. ASSUME NEW c \in Versions, RecoverInterrupted(c) PROVE TypeOK'
  <2>1. Recovered(cmd[c], c) \in Row
    <3>1. Settle(cmd[c], "completed") \in Row
      BY SettleType DEF Outcomes
    <3>2. Fail(cmd[c], "needs_check") \in Row /\ Fail(cmd[c], "transient") \in Row
      BY FailType DEF FailureKinds
    <3> QED
      BY <3>1, <3>2 DEF Recovered
  <2> QED
    BY <1>3, <2>1 DEF RecoverInterrupted
<1>4. ASSUME NEW c \in Versions, DeliverStopNotice(c) PROVE TypeOK'
  <2>1. \A n \in Marks : [cmd[c] EXCEPT !.notice = n] \in Row
    BY SMTT(20) DEF Row
  <2>2. PICK n \in Marks : cmd' = [cmd EXCEPT ![c] = [cmd[c] EXCEPT !.notice = n]]
    BY <1>4 DEF DeliverStopNotice, Marks
  <2>3. cmd' \in [Versions -> Row]
    BY <2>1, <2>2
  <2> QED
    BY <1>4, <2>3 DEF DeliverStopNotice
<1> QED
  BY <1>1, <1>2, <1>3, <1>4 DEF TickStages

(* A job one of whose fields is written stays a job.                       *)
LEMMA JobFields ==
  ASSUME NEW j \in Job
  PROVE  /\ \A x \in Steps : [j EXCEPT !.pc = x] \in Job
         /\ \A x \in Outcomes : [j EXCEPT !.out = x] \in Job
         /\ \A x \in PubStates : [j EXCEPT !.seen = x] \in Job
         /\ \A x \in Versions \cup {0} : [j EXCEPT !.ver = x] \in Job
         /\ \A x \in Versions \cup {0} : [j EXCEPT !.cmd = x] \in Job
         /\ \A x \in Row : [j EXCEPT !.copy = x] \in Job
         /\ \A x \in BOOLEAN : [j EXCEPT !.posted = x] \in Job
  BY DEF Job

(* Ending with an outcome keeps the workers typed.                         *)
LEMMA EndsWithType ==
  ASSUME TypeOK, NEW w \in Workers, NEW o \in Outcomes, EndsWith(w, o)
  PROVE  job' \in [Workers -> Job]
<1> DEFINE j == [job[w] EXCEPT !.pc = "write"]
<1>1. j \in Job
  BY JobFields DEF TypeOK, Steps
<1>2. [j EXCEPT !.out = o] \in Job
  BY <1>1, JobFields
<1>3. job' = [job EXCEPT ![w] = [j EXCEPT !.out = o]]
  BY DEF EndsWith, Becomes
<1> QED
  BY <1>2, <1>3 DEF TypeOK

(* So does a move that follows a write to the provider.                    *)
LEMMA PostedType ==
  ASSUME TypeOK, NEW w \in Workers, NEW pc \in Steps, NEW o \in Outcomes,
         pub' \in [Versions -> PubStates], job[w].ver \in Versions,
         Posted(w, pc, o)
  PROVE  job' \in [Workers -> Job]
<1> DEFINE i == [job[w] EXCEPT !.pc = pc]
           j == [i EXCEPT !.out = o]
           k == [j EXCEPT !.posted = TRUE]
<1>1. i \in Job
  BY JobFields DEF TypeOK
<1>2. j \in Job
  BY <1>1, JobFields
<1>3. k \in Job
  BY <1>2, JobFields
<1>4. [k EXCEPT !.seen = pub'[job[w].ver]] \in Job
  BY <1>3, JobFields
<1>5. job' = [job EXCEPT ![w] = [k EXCEPT !.seen = pub'[job[w].ver]]]
  BY DEF Posted, Becomes
<1> QED
  BY <1>4, <1>5 DEF TypeOK

\* A worker that is past the checks has a version in hand, and one that is
\* not idle a command.
Publishing(w) == job[w].pc \in {"row", "create", "poll", "publish", "record"}

JobsAreNamed ==
    \A w \in Workers : /\ Publishing(w) => job[w].ver \in Versions
                       /\ ~At(w, "idle") => job[w].cmd \in Versions

(* The steps of a run keep the state typed.                                *)
LEMMA WorkerType ==
  ASSUME TypeOK, JobsAreNamed, NEW w \in Workers, Worker(w)
  PROVE  TypeOK'
<1> USE DEF TypeOK, history
<1>0. IdleJob \in Job /\ job[w] \in Job
  BY DEF IdleJob, Job, NoCommand, NewCommand, Row, CommandStatuses, Marks,
         FailureKinds, Steps, PubStates, Outcomes
<1>1. ASSUME NEW c \in Versions, ClaimCommand(w, c) PROVE TypeOK'
  <2> DEFINE row == [cmd[c] EXCEPT !.status = "in_progress", !.marked = FALSE]
             i == [IdleJob EXCEPT !.pc = "entry"]
             j == [i EXCEPT !.cmd = c]
  <2>1. row \in Row
    <3>1. [cmd[c] EXCEPT !.status = "in_progress"] \in Row
      BY RowFields DEF CommandStatuses
    <3> QED
      BY <3>1, RowFields
  <2>2. i \in Job
    BY <1>0, JobFields DEF Steps
  <2>3. j \in Job
    BY <2>2, JobFields
  <2>4. [j EXCEPT !.copy = row] \in Job
    BY <2>1, <2>3, JobFields
  <2>5. /\ cmd' = [cmd EXCEPT ![c] = row]
        /\ job' = [job EXCEPT ![w] = [j EXCEPT !.copy = row]]
    BY <1>1 DEF ClaimCommand, Becomes
  <2>6. cmd' \in [Versions -> Row] /\ job' \in [Workers -> Job]
    BY <2>1, <2>4, <2>5
  <2> QED
    BY <1>1, <2>6 DEF ClaimCommand
<1>2. CASE EnterRun(w)
  <2>1. CASE paused
    <3>1. job' \in [Workers -> Job]
      BY <1>2, <2>1, EndsWithType DEF EnterRun, Outcomes
    <3> QED
      BY <1>2, <2>1, <3>1 DEF EnterRun
  <2>2. CASE ~paused
    <3> DEFINE copy == [job[w].copy EXCEPT !.marked = TRUE]
               i == [job[w] EXCEPT !.pc = "check"]
    <3>1. job[w].copy \in Row
      BY <1>0 DEF Job
    <3>2. copy \in Row
      BY <3>1, RowFields
    <3>3. i \in Job
      BY <1>0, JobFields DEF Steps
    <3>4. [i EXCEPT !.copy = copy] \in Job
      BY <3>2, <3>3, JobFields
    <3>5. job' = [job EXCEPT ![w] = [i EXCEPT !.copy = copy]]
      BY <1>2, <2>2, <1>0 DEF EnterRun, Becomes, Job
    <3>6. job' \in [Workers -> Job]
      BY <3>4, <3>5
    <3>7. job[w].cmd \in Versions
      BY <1>2 DEF EnterRun, JobsAreNamed, At
    <3>8. [cmd[job[w].cmd] EXCEPT !.marked = TRUE] \in Row
      BY <3>7, RowFields
    <3>9. cmd' = [cmd EXCEPT ![job[w].cmd] =
                               [cmd[job[w].cmd] EXCEPT !.marked = TRUE]]
      BY <1>2, <2>2 DEF EnterRun
    <3>10. cmd' \in [Versions -> Row]
      BY <3>7, <3>8, <3>9
    <3> QED
      BY <1>2, <3>6, <3>10 DEF EnterRun
  <2> QED
    BY <2>1, <2>2
<1>3. CASE CheckBeforePublish(w)
  <2>1. job' \in [Workers -> Job]
    <3>1. ASSUME NEW o \in {"paused", "unapproved", "voided", "completed",
                            "connection", "not_sent", "transient"},
                 EndsWith(w, o)
          PROVE  job' \in [Workers -> Job]
      BY <3>1, EndsWithType DEF Outcomes, FailureKinds
    <3>2. ASSUME Becomes(w, [job[w] EXCEPT !.pc = "row", !.ver = latest,
                                           !.seen = pub[latest]])
          PROVE  job' \in [Workers -> Job]
      <4> DEFINE i == [job[w] EXCEPT !.pc = "row"]
                 j == [i EXCEPT !.ver = latest]
      <4>1. i \in Job
        BY <1>0, JobFields DEF Steps
      <4>2. j \in Job
        BY <4>1, JobFields
      <4>3. [j EXCEPT !.seen = pub[latest]] \in Job
        BY <4>2, JobFields
      <4>4. job' = [job EXCEPT ![w] = [j EXCEPT !.seen = pub[latest]]]
        BY <3>2 DEF Becomes
      <4> QED
        BY <4>3, <4>4
    <3> QED
      BY <1>3, <3>1, <3>2 DEF CheckBeforePublish
  <2> QED
    BY <1>3, <2>1 DEF CheckBeforePublish
<1>4. CASE ClaimRow(w)
  <2> DEFINE v == job[w].ver
  <2>1. v \in Versions
    BY <1>4 DEF ClaimRow, JobsAreNamed, Publishing, At
  <2>2. pub' \in [Versions -> PubStates]
    <3>1. pub' = [pub EXCEPT ![v] = "claimed"] \/ pub' = pub
      BY <1>4 DEF ClaimRow
    <3> QED
      BY <2>1, <3>1 DEF PubStates
  <2>3. job' \in [Workers -> Job]
    <3>1. ASSUME NEW o \in LostInsert(v) \cup {"needs_check"}, EndsWith(w, o)
          PROVE  job' \in [Workers -> Job]
      <4>1. o \in Outcomes
        BY <3>1, Zenon DEF LostInsert, Outcomes, FailureKinds
      <4> QED
        BY <3>1, <4>1, EndsWithType
    <3>2. ASSUME NEW pc \in {"create", "poll", "publish"},
                 Becomes(w, [job[w] EXCEPT !.pc = pc, !.seen = pub'[v]])
          PROVE  job' \in [Workers -> Job]
      <4> DEFINE i == [job[w] EXCEPT !.pc = pc]
      <4>1. i \in Job
        BY <1>0, JobFields DEF Steps
      <4>2. [i EXCEPT !.seen = pub'[v]] \in Job
        BY <2>1, <2>2, <4>1, JobFields
      <4>3. job' = [job EXCEPT ![w] = [i EXCEPT !.seen = pub'[v]]]
        BY <3>2 DEF Becomes
      <4> QED
        BY <4>2, <4>3
    <3> QED
      BY <1>4, <3>1, <3>2 DEF ClaimRow, AfterContainer
  <2> QED
    BY <1>4, <2>2, <2>3 DEF ClaimRow
<1>5. CASE CreateContainer(w)
  <2> DEFINE v == job[w].ver
  <2>1. v \in Versions
    BY <1>5 DEF CreateContainer, JobsAreNamed, Publishing, At
  <2>2. pub' \in [Versions -> PubStates]
    BY <1>5, <2>1 DEF CreateContainer, PubStates
  <2>3. PICK pc \in Steps, o \in Outcomes : Posted(w, pc, o)
    BY <1>5 DEF CreateContainer, Steps, Outcomes, FailureKinds
  <2>4. job' \in [Workers -> Job]
    BY <2>1, <2>2, <2>3, PostedType
  <2> QED
    BY <1>5, <2>2, <2>4 DEF CreateContainer
<1>6. CASE PollContainer(w)
  <2>1. job[w].ver \in Versions
    BY <1>6 DEF PollContainer, JobsAreNamed, Publishing, At
  <2>2. pub' \in [Versions -> PubStates]
    BY <1>6, <2>1 DEF PollContainer, MarkFailed, PubStates
  <2>3. job' \in [Workers -> Job]
    <3>1. ASSUME NEW o \in Outcomes, EndsWith(w, o)
          PROVE  job' \in [Workers -> Job]
      BY <3>1, EndsWithType
    <3>2. ASSUME Becomes(w, [job[w] EXCEPT !.pc = "publish"])
          PROVE  job' \in [Workers -> Job]
      BY <3>2, <1>0, JobFields DEF Becomes, Steps
    <3>3. \/ \E o \in Outcomes : EndsWith(w, o)
          \/ Becomes(w, [job[w] EXCEPT !.pc = "publish"])
      BY <1>6 DEF PollContainer, Outcomes, FailureKinds
    <3> QED
      BY <3>1, <3>2, <3>3
  <2> QED
    BY <1>6, <2>2, <2>3 DEF PollContainer
<1>7. CASE PublishContainer(w)
  <2>1. job[w].ver \in Versions /\ job[w].cmd \in Versions
    BY <1>7 DEF PublishContainer, JobsAreNamed, Publishing, At
  <2>2. pub' \in [Versions -> PubStates]
    BY <1>7, <2>1 DEF PublishContainer, MarkFailed, PubStates
  <2>3. PICK pc \in Steps, o \in Outcomes : Posted(w, pc, o)
    BY <1>7 DEF PublishContainer, Steps, Outcomes, FailureKinds
  <2>4. job' \in [Workers -> Job]
    BY <2>1, <2>2, <2>3, PostedType
  <2>5. CountCall(w) \/ UNCHANGED history
    BY <1>7 DEF PublishContainer
  <2>6. /\ calls' \in [Versions -> Nat]
        /\ sentBy' \in [Versions -> SUBSET Versions]
        /\ UNCHANGED <<approved, slipped, acts, pressed>>
    BY <2>1, <2>5 DEF CountCall
  <2> QED
    BY <1>7, <2>2, <2>4, <2>6 DEF PublishContainer
<1>8. CASE RecordPublished(w)
  <2>1. job[w].ver \in Versions
    BY <1>8 DEF RecordPublished, JobsAreNamed, Publishing, At
  <2>2. pub' \in [Versions -> PubStates]
    BY <1>8, <2>1 DEF RecordPublished, PubStates
  <2>3. PICK o \in Outcomes : EndsWith(w, o)
    BY <1>8 DEF RecordPublished, Unnamed, Outcomes, FailureKinds
  <2>4. job' \in [Workers -> Job]
    BY <2>3, EndsWithType
  <2> QED
    BY <1>8, <2>2, <2>4 DEF RecordPublished
<1>9. CASE WriteOutcome(w)
  <2> DEFINE c == job[w].cmd
             new == Settle(job[w].copy, job[w].out)
  <2>1. c \in Versions
    BY <1>9 DEF WriteOutcome, JobsAreNamed, At
  <2>2. job[w].copy \in Row /\ job[w].out \in Outcomes
    BY <1>0 DEF Job
  <2>3. Flush(cmd[c], job[w].copy, new) \in Row
    BY <2>1, <2>2, SettleType, FlushType
  <2>4. cmd' = [cmd EXCEPT ![c] = Flush(cmd[c], job[w].copy, new)]
    BY <1>9 DEF WriteOutcome
  <2>5. cmd' \in [Versions -> Row]
    BY <2>3, <2>4
  <2> QED
    BY <1>0, <1>9, <2>5 DEF WriteOutcome, Becomes
<1>10. CASE RunRaises(w)
  <2> DEFINE c == job[w].cmd
  <2>1. c \in Versions
    BY <1>10 DEF RunRaises, JobsAreNamed, At
  <2>2. Fail(cmd[c], Unnamed(w)) \in Row
    BY <2>1, FailType DEF Unnamed, FailureKinds
  <2>3. cmd' \in [Versions -> Row]
    BY <1>10, <2>1, <2>2 DEF RunRaises
  <2> QED
    BY <1>0, <1>10, <2>3 DEF RunRaises, Becomes
<1>11. CASE Crash(w)
  <2>1. job[w].cmd \in Versions
    BY <1>11 DEF Crash, JobsAreNamed, At
  <2>2. job' \in [Workers -> Job]
    BY <1>0, <1>11 DEF Crash, Becomes
  <2>3. spent' \in [BoundKinds -> Nat]
    BY <1>11, SpendType DEF Crash, BoundKinds
  <2>4. CASE UNCHANGED history
    BY <1>11, <2>2, <2>3, <2>4 DEF Crash
  <2>5. CASE At(w, "publish") /\ CountCall(w)
    <3>1. job[w].ver \in Versions
      BY <2>5 DEF JobsAreNamed, Publishing, At
    <3>2. /\ calls' \in [Versions -> Nat]
          /\ sentBy' \in [Versions -> SUBSET Versions]
          /\ UNCHANGED <<approved, slipped, acts, pressed>>
      BY <2>1, <2>5, <3>1 DEF CountCall
    <3> QED
      BY <1>11, <2>2, <2>3, <3>2 DEF Crash
  <2> QED
    BY <1>11, <2>4, <2>5 DEF Crash
<1>12. CASE RunFails(w)
  <2>1. Unnamed(w) \in Outcomes
    BY DEF Unnamed, Outcomes, FailureKinds
  <2>2. job' \in [Workers -> Job]
    BY <1>12, <2>1, EndsWithType DEF RunFails
  <2> QED
    BY <1>12, <2>2 DEF RunFails
<1> QED
  BY <1>1, <1>2, <1>3, <1>4, <1>5, <1>6, <1>7, <1>8, <1>9, <1>10, <1>11,
     <1>12
     DEF Worker, Run

-----------------------------------------------------------------------------
(***************************************************************************)
(* What goes out.  The seal of an approved gate is a version somebody      *)
(* approved or a raced submission sealed, and a run past its checks        *)
(* carries the version that was sealed in an approved gate at that moment. *)
(***************************************************************************)
Vouched == approved \cup slipped

SealIsVouched == gate.status = "approved" => gate.sealed \in Vouched

CarriesVouched == \A w \in Workers : Publishing(w) => job[w].ver \in Vouched

ApprovedInv ==
    /\ TypeOK
    /\ GateIsSealed
    /\ JobsAreNamed
    /\ SealIsVouched
    /\ CarriesVouched
    /\ OnlyApprovedGoesOut

(* People change neither the runs nor what has gone out, and an approval   *)
(* is never taken back from the history.                                   *)
LEMMA PeopleFrame ==
  ASSUME People
  PROVE  job' = job /\ sentBy' = sentBy /\ Vouched \subseteq Vouched'
  BY DEF People, EditDraft, BeginSubmit, CommitSubmit, DropSubmit,
         ApproveGate, PauseOrg, ResumeOrg,
         PressPublish, PressCommit, PressDies, RetryCommand,
         CancelPublication, history, Vouched

(* The stages of a tick change rows of commands only.                      *)
LEMMA TickFrame ==
  ASSUME TickStages
  PROVE  UNCHANGED <<gate, latest, paused, pub, job, press, submit, spent,
                     history>>
  BY DEF TickStages, RequeuePausedOfUnpausedOrgs, SweepStuckContainers,
         RecoverInterrupted, DeliverStopNotice

(* A worker moves itself only, and never the gate.                         *)
LEMMA WorkerFrame ==
  ASSUME TypeOK, NEW w \in Workers, Worker(w)
  PROVE  /\ UNCHANGED <<gate, latest, paused, press, submit, approved, slipped,
                     acts, pressed>>
         /\ \A v \in Workers \ {w} : job'[v] = job[v]
<1>1. UNCHANGED <<gate, latest, paused, press, submit, approved, slipped,
                     acts, pressed>>
  BY DEF Worker, Run, ClaimCommand, EnterRun, CheckBeforePublish, ClaimRow,
         CreateContainer, PollContainer, PublishContainer, CountCall,
         RecordPublished, RunFails, WriteOutcome, RunRaises, Crash, history
<1>2. \E j : Becomes(w, j)
  <2>1. ASSUME Run(w) PROVE \E j : Becomes(w, j)
    BY <2>1 DEF Run, EnterRun, CheckBeforePublish, ClaimRow,
         CreateContainer, PollContainer, PublishContainer, RecordPublished,
         RunFails, WriteOutcome, RunRaises, EndsWith, Posted
  <2>2. ASSUME Crash(w) PROVE \E j : Becomes(w, j)
    BY <2>2 DEF Crash
  <2>3. ASSUME NEW c \in Versions, ClaimCommand(w, c)
        PROVE  \E j : Becomes(w, j)
    BY <2>3 DEF ClaimCommand
  <2> QED
    BY <2>1, <2>2, <2>3 DEF Worker
<1> QED
  BY <1>1, <1>2 DEF Becomes, TypeOK

\* The steps inside a run, between its entry and its outcome.
Inside(w) ==
    \/ CheckBeforePublish(w)
    \/ ClaimRow(w)
    \/ CreateContainer(w)
    \/ PollContainer(w)
    \/ PublishContainer(w)
    \/ RecordPublished(w)
    \/ RunFails(w)

(* Inside a run the command in hand, the copy of its row and, once the     *)
(* checks have passed, the version are fixed; the rows are left alone.     *)
LEMMA InsideFrame ==
  ASSUME TypeOK, NEW w \in Workers, Inside(w)
  PROVE  /\ cmd' = cmd
         /\ ~At(w, "idle")
         /\ job'[w].cmd = job[w].cmd
         /\ job'[w].copy = job[w].copy
         /\ Publishing(w)' => \/ Publishing(w) /\ job'[w].ver = job[w].ver
                              \/ /\ job'[w].ver = latest
                                 /\ gate.status = "approved"
                                 /\ gate.sealed = latest
<1>0. job[w] \in Job
  BY DEF TypeOK
<1>1. cmd' = cmd /\ ~At(w, "idle")
  BY DEF Inside, CheckBeforePublish, ClaimRow, CreateContainer, PollContainer,
         PublishContainer, RecordPublished, RunFails, At
<1>2. ASSUME NEW o, EndsWith(w, o)
      PROVE  /\ job'[w].cmd = job[w].cmd /\ job'[w].copy = job[w].copy
             /\ ~Publishing(w)'
  BY <1>0, <1>2 DEF EndsWith, Becomes, Publishing, TypeOK, Job
<1>3. ASSUME NEW pc, NEW o, Posted(w, pc, o)
      PROVE  /\ job'[w].cmd = job[w].cmd /\ job'[w].copy = job[w].copy
             /\ job'[w].ver = job[w].ver
  BY <1>0, <1>3 DEF Posted, Becomes, TypeOK, Job
<1>4. CASE CheckBeforePublish(w)
  <2>1. CASE \E o : EndsWith(w, o)
    BY <1>1, <1>2, <2>1
  <2>2. CASE /\ Becomes(w, [job[w] EXCEPT !.pc = "row", !.ver = latest,
                                          !.seen = pub[latest]])
             /\ gate.status = "approved" /\ gate.sealed = latest
    BY <1>0, <1>1, <2>2 DEF Becomes, TypeOK, Job
  <2> QED
    BY <1>4, <2>1, <2>2 DEF CheckBeforePublish
<1>5. CASE ClaimRow(w)
  <2>1. CASE \E o : EndsWith(w, o)
    BY <1>1, <1>2, <2>1
  <2>2. CASE \E pc : Becomes(w, [job[w] EXCEPT !.pc = pc,
                                               !.seen = pub'[job[w].ver]])
    <3>1. /\ job'[w].cmd = job[w].cmd /\ job'[w].copy = job[w].copy
          /\ job'[w].ver = job[w].ver
      BY <1>0, <2>2 DEF Becomes, TypeOK, Job
    <3> QED
      BY <1>1, <1>5, <3>1 DEF ClaimRow, Publishing, At
  <2> QED
    BY <1>5, <2>1, <2>2 DEF ClaimRow
<1>6. CASE CreateContainer(w)
  <2>1. PICK pc, o : Posted(w, pc, o)
    BY <1>6 DEF CreateContainer
  <2> QED
    BY <1>1, <1>3, <1>6, <2>1 DEF CreateContainer, Publishing, At
<1>7. CASE PollContainer(w)
  <2>1. CASE \E o : EndsWith(w, o)
    BY <1>1, <1>2, <2>1
  <2>2. CASE Becomes(w, [job[w] EXCEPT !.pc = "publish"])
    <3>1. /\ job'[w].cmd = job[w].cmd /\ job'[w].copy = job[w].copy
          /\ job'[w].ver = job[w].ver
      BY <1>0, <2>2 DEF Becomes, TypeOK, Job
    <3> QED
      BY <1>1, <1>7, <3>1 DEF PollContainer, Publishing, At
  <2> QED
    BY <1>7, <2>1, <2>2 DEF PollContainer
<1>8. CASE PublishContainer(w)
  <2>1. PICK pc, o : Posted(w, pc, o)
    BY <1>8 DEF PublishContainer
  <2> QED
    BY <1>1, <1>3, <1>8, <2>1 DEF PublishContainer, Publishing, At
<1>9. CASE RecordPublished(w)
  <2>1. \E o : EndsWith(w, o)
    BY <1>9 DEF RecordPublished
  <2> QED
    BY <1>1, <1>2, <2>1
<1>10. CASE RunFails(w)
  BY <1>1, <1>2, <1>10 DEF RunFails
<1> QED
  BY <1>4, <1>5, <1>6, <1>7, <1>8, <1>9, <1>10 DEF Inside

(* The invariant of what goes out is kept by every step.                   *)
LEMMA ApprovedStep ==
  ASSUME ApprovedInv, [Next]_vars
  PROVE  ApprovedInv'
<1> USE DEF ApprovedInv
<1>1. CASE People
  <2>1. TypeOK'
    BY <1>1, PeopleType
  <2>2. JobsAreNamed' /\ CarriesVouched' /\ OnlyApprovedGoesOut'
    BY <1>1, PeopleFrame DEF JobsAreNamed, CarriesVouched, Publishing, At,
                             OnlyApprovedGoesOut, Vouched
  <2>3. GateIsSealed' /\ SealIsVouched'
    <3>1. CASE EditDraft
      <4>0. UNCHANGED <<submit, approved, slipped>>
        BY <3>1, Zenon DEF EditDraft, history
      <4>1. CASE gate.status = "approved"
        <5>1. gate' = [gate EXCEPT !.status = "pending", !.reapproval = TRUE]
          BY <3>1, <4>1, Zenon DEF EditDraft
        <5> QED
          BY <4>0, <4>1, <5>1 DEF GateIsSealed, SealIsVouched, TypeOK
      <4>2. CASE gate.status = "pending"
        <5>1. gate' = [gate EXCEPT !.sealed = latest + 1] /\ latest < MaxVersion
          BY <3>1, <4>2 DEF EditDraft
        <5> QED
          BY <4>0, <4>2, <5>1 DEF GateIsSealed, SealIsVouched, TypeOK, Versions
      <4>3. CASE gate.status = "none"
        <5>1. gate' = gate
          BY <3>1, <4>3 DEF EditDraft
        <5> QED
          BY <4>0, <4>3, <5>1 DEF GateIsSealed, SealIsVouched
      <4> QED
        BY <4>1, <4>2, <4>3 DEF TypeOK, Gate
    <3>2. CASE CommitSubmit
      BY <3>2, CommitSubmitGate DEF CommitSubmit, GateIsSealed, SealIsVouched,
                                    Vouched, NoSubmit, NoGate
    <3>5. ASSUME NEW v \in Versions, NEW s \in BOOLEAN, BeginSubmit(v, s)
          PROVE  GateIsSealed' /\ SealIsVouched'
      BY <1>1, <3>5, PeopleFrame DEF BeginSubmit, GateIsSealed, SealIsVouched
    <3>6. CASE DropSubmit
      BY <1>1, <3>6, PeopleFrame DEF DropSubmit, GateIsSealed, SealIsVouched,
                                     NoSubmit, NoGate
    <3>3. CASE ApproveGate
      BY <3>3 DEF ApproveGate, GateIsSealed, SealIsVouched, Vouched, TypeOK,
                  Gate
    <3>4. CASE gate' = gate /\ submit' = submit
      BY <1>1, <3>4, PeopleFrame DEF GateIsSealed, SealIsVouched
    <3> QED
      BY <1>1, <3>1, <3>2, <3>3, <3>4, <3>5, <3>6
         DEF People, PauseOrg, ResumeOrg, PressPublish, PressCommit,
             PressDies, RetryCommand, CancelPublication
  <2> QED
    BY <2>1, <2>2, <2>3
<1>2. CASE TickStages
  <2>1. TypeOK'
    BY <1>2, TickType
  <2> QED
    BY <1>2, <2>1, TickFrame DEF GateIsSealed, SealIsVouched, JobsAreNamed,
       CarriesVouched, Publishing, At, OnlyApprovedGoesOut, Vouched,
       history
<1>3. ASSUME NEW w \in Workers, Worker(w) PROVE ApprovedInv'
  <2>1. TypeOK'
    BY <1>3, WorkerType
  <2>2. GateIsSealed' /\ SealIsVouched'
    BY <1>3, WorkerFrame DEF GateIsSealed, SealIsVouched, Vouched
  <2>3. /\ Publishing(w)' => job'[w].ver \in Vouched
        /\ job'[w].pc # "idle" => job'[w].cmd \in Versions
    <3>1. CASE Inside(w)
      BY <3>1, InsideFrame DEF SealIsVouched, CarriesVouched, JobsAreNamed,
                               At
    <3>2. CASE EnterRun(w)
      <4>1. job'[w].pc \in {"write", "check"} /\ job'[w].cmd = job[w].cmd
        <5>0. job[w] \in Job /\ job \in [Workers -> Job]
          BY DEF TypeOK
        <5>1. CASE EndsWith(w, "paused")
          BY <5>0, <5>1 DEF EndsWith, Becomes, Job
        <5>2. CASE Becomes(w, [job[w] EXCEPT !.pc = "check",
                                             !.copy.marked = TRUE])
          BY <5>0, <5>2 DEF Becomes, Job
        <5> QED
          BY <3>2, <5>1, <5>2 DEF EnterRun
      <4> QED
        BY <3>2, <4>1 DEF EnterRun, Publishing, JobsAreNamed, At
    <3>3. CASE job'[w] = IdleJob
      BY <3>3 DEF IdleJob, Publishing
    <3>4. ASSUME NEW c \in Versions, ClaimCommand(w, c)
          PROVE  job'[w].pc = "entry" /\ job'[w].cmd = c
      BY <3>4 DEF ClaimCommand, Becomes, TypeOK, IdleJob
    <3>5. CASE WriteOutcome(w) \/ RunRaises(w) \/ Crash(w)
      BY <3>3, <3>5 DEF WriteOutcome, RunRaises, Crash, Becomes, TypeOK
    <3> QED
      BY <1>3, <3>1, <3>2, <3>4, <3>5 DEF Worker, Run, Inside, Publishing
  <2>4. JobsAreNamed' /\ CarriesVouched'
    BY <1>3, <2>1, <2>3, WorkerFrame
       DEF JobsAreNamed, CarriesVouched, Publishing, At, TypeOK, Vouched
  <2>5. OnlyApprovedGoesOut'
    <3>1. CASE sentBy' = sentBy
      BY <1>3, <3>1, WorkerFrame DEF OnlyApprovedGoesOut
    <3>2. CASE At(w, "publish") /\ CountCall(w)
      <4>1. job[w].ver \in Vouched
        BY <3>2 DEF CarriesVouched, Publishing, At
      <4>2. \A c \in Versions : sentBy'[c] \subseteq sentBy[c] \cup {job[w].ver}
        BY <3>2 DEF CountCall, TypeOK
      <4> QED
        BY <1>3, <4>1, <4>2, WorkerFrame DEF OnlyApprovedGoesOut, Vouched
    <3> QED
      BY <1>3, <3>1, <3>2
         DEF Worker, Run, ClaimCommand, EnterRun, CheckBeforePublish,
             ClaimRow, CreateContainer, PollContainer, PublishContainer,
             RecordPublished, RunFails, WriteOutcome, RunRaises, Crash,
             history
  <2> QED
    BY <2>1, <2>2, <2>4, <2>5
<1>4. CASE UNCHANGED vars
  BY <1>4 DEF vars, history, TypeOK, GateIsSealed, JobsAreNamed, At,
     SealIsVouched, CarriesVouched, Publishing, OnlyApprovedGoesOut, Vouched
<1> QED
  BY <1>1, <1>2, <1>3, <1>4 DEF Next

(* So it holds in every reachable state.                                   *)
LEMMA ApprovedHolds == Spec => []ApprovedInv
<1>1. Init => ApprovedInv
  <2> SUFFICES ASSUME Init PROVE ApprovedInv
    OBVIOUS
  <2>1. NoCommand \in Row
    BY DEF NoCommand, NewCommand, Row, CommandStatuses, FailureKinds, Marks
  <2>2. IdleJob \in Job
    BY <2>1 DEF IdleJob, Job, Steps, PubStates, Outcomes
  <2>3. TypeOK
    <3>1. gate \in Gate /\ latest \in Versions
      BY DEF Init, NoGate, Gate, Versions
    <3>2. /\ cmd \in [Versions -> Row] /\ pub \in [Versions -> PubStates]
          /\ job \in [Workers -> Job]
      BY <2>1, <2>2 DEF Init, PubStates
    <3>3. /\ spent \in [BoundKinds -> Nat] /\ calls \in [Versions -> Nat]
          /\ acts \in [Versions -> Nat]
      BY DEF Init
    <3>4. sentBy \in [Versions -> SUBSET Versions]
      BY DEF Init
    <3> QED
      BY <3>1, <3>2, <3>3, <3>4, NoPressType, NoSubmitType DEF Init, TypeOK
  <2>4. \A w \in Workers : job[w].pc = "idle"
    BY DEF Init, IdleJob
  <2> QED
    BY <2>3, <2>4 DEF Init, NoGate, NoSubmit, ApprovedInv, GateIsSealed,
       JobsAreNamed, At,
       SealIsVouched, CarriesVouched, Publishing, OnlyApprovedGoesOut
<1>2. ApprovedInv /\ [Next]_vars => ApprovedInv'
  BY ApprovedStep
<1> QED
  BY <1>1, <1>2, PTL DEF Spec

(* The rows of the ledger, the publications, the runs and the requests     *)
(* always have their types.                                                *)
THEOREM LedgerTypeCorrect == Spec => []TypeOK
<1>1. ApprovedInv => TypeOK
  BY DEF ApprovedInv
<1> QED
  BY <1>1, ApprovedHolds, PTL

(* Whatever is edited, resubmitted, paused, retried or recovered, and      *)
(* however many ticks overlap, a publish call only ever carries a version  *)
(* that was sealed in the gate when somebody approved it, or that a         *)
(* submission sealed there after reading the gate before that approval.    *)
THEOREM NothingUnapprovedGoesOut == Spec => []OnlyApprovedGoesOut
<1>1. ApprovedInv => OnlyApprovedGoesOut
  BY DEF ApprovedInv
<1> QED
  BY <1>1, ApprovedHolds, PTL

-----------------------------------------------------------------------------
(***************************************************************************)
(* Who owns a row.  Unless a publish request rewrote it from an old copy,  *)
(* a command in some worker's hand is in progress, the worker's copy is    *)
(* the row, nobody else holds it, and a command at work owes no notice.    *)
(***************************************************************************)
HeldIsInProgress ==
    \A c \in Versions \ pressed, w \in Workers :
        job[w].cmd = c => cmd[c].status = "in_progress" /\ job[w].copy = cmd[c]

\* What the notice column of a row may say.
NoticeFits(row) ==
    /\ row.status \in {"pending", "in_progress"} => row.notice = "none"
    /\ AwaitsStopNotice(row) => row.notice # "none"

NoticesFit == \A c \in Versions \ pressed : NoticeFits(cmd[c])

OwnerInv ==
    /\ HeldIsInProgress
    /\ OneRunPerCommand
    /\ NoticesFit

(* A stop that is marked is announced.                                     *)
LEMMA MarkFits ==
  ASSUME NEW r \in Row, r.status \notin {"pending", "in_progress"}
  PROVE  NoticeFits(MarkStopNotice(r))
  BY DEF NoticeFits, MarkStopNotice, AwaitsStopNotice, Row

(* A failure of a command at work is announced if it waits for a person.   *)
LEMMA FailFits ==
  ASSUME NEW r \in Row, r.notice = "none", NEW k \in FailureKinds \cup {"none"}
  PROVE  NoticeFits(Fail(r, k))
<1> DEFINE blocked == [r EXCEPT !.status = "blocked", !.kind = k]
           again == [r EXCEPT !.status = "pending", !.kind = k,
                              !.attempts = @ + 1]
           dead == [r EXCEPT !.status = "dead_letter", !.kind = k,
                             !.attempts = @ + 1]
<1>1. /\ blocked.status = "blocked" /\ again.status = "pending"
      /\ dead.status = "dead_letter" /\ again.notice = "none"
  BY DEF Row
<1>2. blocked \in Row /\ dead \in Row
  <2>1. k \in FailureKinds \cup {"none", "paused"} /\ r.attempts + 1 \in Nat
    BY DEF Row
  <2>2. blocked \in Row
    BY <2>1 DEF Row, CommandStatuses
  <2>3. dead \in Row
    BY <2>1 DEF Row, CommandStatuses
  <2> QED
    BY <2>2, <2>3
<1>3. NoticeFits(again)
  BY <1>1 DEF NoticeFits, AwaitsStopNotice
<1>4. NoticeFits(MarkStopNotice(blocked)) /\ NoticeFits(MarkStopNotice(dead))
  BY <1>1, <1>2, MarkFits
<1>5. \/ Fail(r, k) = MarkStopNotice(blocked)
      \/ Fail(r, k) = again
      \/ Fail(r, k) = MarkStopNotice(dead)
  <2>1. CASE k = "connection"
    BY <2>1, Zenon DEF Fail
  <2>2. CASE k # "connection" /\ k = "transient" /\ r.attempts + 1 < MaxRetries
    BY <2>2, Zenon DEF Fail
  <2>3. CASE k # "connection" /\ ~(k = "transient" /\ r.attempts + 1 < MaxRetries)
    BY <2>3, Zenon DEF Fail
  <2> QED
    BY <2>1, <2>2, <2>3
<1> QED
  BY <1>3, <1>4, <1>5

(* So is every other end of a run.                                         *)
LEMMA SettleFits ==
  ASSUME NEW r \in Row, r.notice = "none", NEW o \in Outcomes
  PROVE  NoticeFits(Settle(r, o))
<1> DEFINE void == [r EXCEPT !.status = "voided"]
           wait == [r EXCEPT !.status = "pending", !.kind = "none"]
           done == [r EXCEPT !.status = "completed", !.kind = "none"]
<1>1. /\ NoticeFits(BlockForPause(r)) /\ NoticeFits(BlockUnapproved(r))
      /\ NoticeFits(void) /\ NoticeFits(wait) /\ NoticeFits(done)
  BY DEF BlockForPause, BlockUnapproved, Row, NoticeFits, AwaitsStopNotice
<1>2. CASE o \in FailureKinds \cup {"none"}
  <2>1. Settle(r, o) = Fail(r, o)
    BY <1>2 DEF Settle, FailureKinds
  <2> QED
    BY <1>2, <2>1, FailFits
<1>3. CASE o \in {"paused", "unapproved", "voided", "waiting", "completed"}
  <2>1. Settle(r, o) \in {BlockForPause(r), BlockUnapproved(r), void, wait,
                          done}
    BY <1>3, Zenon DEF Settle
  <2> QED
    BY <1>1, <2>1
<1> QED
  BY <1>2, <1>3 DEF Outcomes

(* A session that holds the row as it is writes what it wants.             *)
LEMMA FlushOwn ==
  ASSUME NEW r \in Row, NEW t \in Row
  PROVE  Flush(r, r, t) = t
  BY DEF Flush, Row

(* Queueing a row again, voiding it and creating it leave it fitting.      *)
LEMMA TableFits ==
  ASSUME NEW t \in [Versions -> Row], NEW v \in Versions, NEW c \in Versions,
         NoticeFits(t[c])
  PROVE  /\ NoticeFits(Requeue(t[c]))
         /\ NoticeFits(VoidPending(t)[c])
         /\ NoticeFits(CreateOrGet(t, v)[c])
         /\ NoticeFits(RequeuePaused(t)[c])
         /\ t[c].status = "in_progress" =>
                /\ VoidPending(t)[c] = t[c]
                /\ CreateOrGet(t, v)[c] = t[c]
                /\ RequeuePaused(t)[c] = t[c]
<1>1. NoticeFits(Requeue(t[c]))
  BY DEF NoticeFits, Requeue, AwaitsStopNotice, Row
<1>2. NoticeFits([t[c] EXCEPT !.status = "voided"]) /\ NoticeFits(NewCommand)
  BY DEF NoticeFits, AwaitsStopNotice, NewCommand, Row
<1>3. /\ NoticeFits(VoidPending(t)[c])
      /\ t[c].status = "in_progress" => VoidPending(t)[c] = t[c]
  BY <1>2 DEF VoidPending
<1>4. /\ NoticeFits(CreateOrGet(t, v)[c])
      /\ t[c].status = "in_progress" => CreateOrGet(t, v)[c] = t[c]
  BY <1>2 DEF CreateOrGet
<1>5. /\ NoticeFits(RequeuePaused(t)[c])
      /\ t[c].status = "in_progress" => RequeuePaused(t)[c] = t[c]
  BY <1>1 DEF RequeuePaused, IsPausedStop
<1> QED
  BY <1>1, <1>3, <1>4, <1>5

(* People touch no row in progress, save through a publish request.        *)
LEMMA PeopleRows ==
  ASSUME TypeOK, People, NEW c \in Versions \ pressed', NoticeFits(cmd[c])
  PROVE  /\ c \notin pressed
         /\ NoticeFits(cmd'[c])
         /\ cmd[c].status = "in_progress" => cmd'[c] = cmd[c]
<1> USE DEF TypeOK, history
<1>1. CASE EditDraft \/ CommitSubmit
  BY <1>1, TableFits DEF EditDraft, CommitSubmit
<1>2. CASE ApproveGate \/ PressPublish \/ ResumeOrg
  BY <1>2, TableFits DEF ApproveGate, PressPublish, ResumeOrg
<1>3. CASE \/ PauseOrg \/ PressDies \/ DropSubmit
           \/ \E v \in Versions, s \in BOOLEAN : BeginSubmit(v, s)
  BY <1>3 DEF PauseOrg, PressDies, DropSubmit, BeginSubmit
<1>4. CASE PressCommit
  <2>1. PICK new \in PreflightResults(press.copy) :
          LET b == press.cmd
              row == Flush(cmd[b], press.copy, new)
          IN  /\ cmd' = [cmd EXCEPT ![b] = row]
              /\ pressed' = IF row = cmd[b] THEN pressed
                            ELSE pressed \cup {b}
    BY <1>4 DEF PressCommit
  <2>2. c \notin pressed /\ cmd'[c] = cmd[c]
    BY <2>1
  <2> QED
    BY <2>2
<1>5. ASSUME NEW b \in Versions, RetryCommand(b)
      PROVE  /\ c \notin pressed
             /\ NoticeFits(cmd'[c])
             /\ cmd[c].status = "in_progress" => cmd'[c] = cmd[c]
  BY <1>5, TableFits DEF RetryCommand, HumanRetryable
<1>6. ASSUME NEW b \in Versions, CancelPublication(b)
      PROVE  /\ c \notin pressed
             /\ NoticeFits(cmd'[c])
             /\ cmd[c].status = "in_progress" => cmd'[c] = cmd[c]
  <2>1. NoticeFits([cmd[b] EXCEPT !.status = "cancelled"])
    BY DEF NoticeFits, AwaitsStopNotice, Row
  <2>2. cmd' = [cmd EXCEPT ![b] = [cmd[b] EXCEPT !.status = "cancelled"]]
    BY <1>6 DEF CancelPublication
  <2> QED
    BY <1>6, <2>1, <2>2 DEF CancelPublication
<1> QED
  BY <1>1, <1>2, <1>3, <1>4, <1>5, <1>6 DEF People

(* A tick's stages touch no row in somebody's hand.                        *)
LEMMA TickRows ==
  ASSUME TypeOK, TickStages, NEW c \in Versions, NoticeFits(cmd[c])
  PROVE  /\ NoticeFits(cmd'[c])
         /\ cmd[c].status = "in_progress" /\ Holders(c) # {}
                => cmd'[c] = cmd[c]
<1> USE DEF TypeOK, history
<1>1. CASE RequeuePausedOfUnpausedOrgs
  BY <1>1, TableFits DEF RequeuePausedOfUnpausedOrgs
<1>2. CASE \E b \in Versions : SweepStuckContainers(b)
  BY <1>2, TableFits DEF SweepStuckContainers
<1>3. ASSUME NEW b \in Versions, RecoverInterrupted(b)
      PROVE  /\ NoticeFits(cmd'[c])
             /\ Holders(c) # {} => cmd'[c] = cmd[c]
  <2>1. cmd' = [cmd EXCEPT ![b] = Recovered(cmd[b], b)] /\ Holders(b) = {}
    BY <1>3 DEF RecoverInterrupted
  <2>2. CASE c # b
    BY <2>1, <2>2
  <2>3. CASE c = b
    <3>1. Holders(c) = {}
      BY <2>1, <2>3
    <3>2. cmd[c].notice = "none"
      BY <1>3, <2>3 DEF RecoverInterrupted, NoticeFits
    <3>3. /\ NoticeFits(Settle(cmd[c], "completed"))
          /\ NoticeFits(Fail(cmd[c], "needs_check"))
          /\ NoticeFits(Fail(cmd[c], "transient"))
      BY <3>2, SettleFits, FailFits DEF Outcomes, FailureKinds
    <3>4. NoticeFits(Recovered(cmd[c], c))
      BY <3>3 DEF Recovered
    <3> QED
      BY <2>1, <2>3, <3>1, <3>4
  <2> QED
    BY <2>2, <2>3
<1>4. ASSUME NEW b \in Versions, DeliverStopNotice(b)
      PROVE  /\ NoticeFits(cmd'[c])
             /\ cmd[c].status = "in_progress" => cmd'[c] = cmd[c]
  <2> DEFINE n == IF AwaitsStopNotice(cmd[b]) THEN "sent" ELSE "none"
             row == [cmd[b] EXCEPT !.notice = n]
  <2>1. cmd' = [cmd EXCEPT ![b] = row] /\ cmd[b].notice = "pending"
    BY <1>4 DEF DeliverStopNotice
  <2>2. CASE c # b
    BY <2>1, <2>2
  <2>3. CASE c = b
    <3>1. cmd[c].status \notin {"pending", "in_progress"}
      BY <2>1, <2>3 DEF NoticeFits
    <3>2. /\ row.status = cmd[b].status /\ row.kind = cmd[b].kind
          /\ row.notice = n
      BY DEF Row
    <3>3. NoticeFits(row)
      BY <2>3, <3>1, <3>2 DEF NoticeFits, AwaitsStopNotice
    <3> QED
      BY <2>1, <2>3, <3>1, <3>3
  <2> QED
    BY <2>2, <2>3
<1> QED
  BY <1>1, <1>2, <1>3, <1>4 DEF TickStages

(* Ownership is kept by every step.                                        *)
LEMMA OwnerStep ==
  ASSUME ApprovedInv, ApprovedInv', OwnerInv, [Next]_vars
  PROVE  OwnerInv'
<1> USE DEF OwnerInv
<1>0. TypeOK /\ TypeOK' /\ JobsAreNamed
  BY DEF ApprovedInv
<1>1. CASE People
  <2>1. job' = job
    BY <1>1, PeopleFrame
  <2>2. \A c \in Versions \ pressed' :
          /\ c \notin pressed
          /\ NoticeFits(cmd'[c])
          /\ cmd[c].status = "in_progress" => cmd'[c] = cmd[c]
    <3>1. \A c \in pressed : c \in pressed'
      BY <1>1 DEF People, EditDraft, BeginSubmit, CommitSubmit, DropSubmit,
         ApproveGate, PauseOrg,
         ResumeOrg, PressPublish, PressCommit, PressDies, RetryCommand,
         CancelPublication, history
    <3> QED
      BY <1>0, <1>1, <3>1, PeopleRows DEF NoticesFit
  <2> QED
    BY <2>1, <2>2 DEF HeldIsInProgress, OneRunPerCommand, NoticesFit,
                      NoticeFits, AwaitsStopNotice
<1>2. CASE TickStages
  <2>1. job' = job /\ pressed' = pressed
    BY <1>2, TickFrame DEF history
  <2>2. ASSUME NEW c \in Versions \ pressed
        PROVE  /\ NoticeFits(cmd'[c])
               /\ \A w \in Workers : job[w].cmd = c => cmd'[c] = cmd[c]
    BY <1>0, <1>2, TickRows DEF NoticesFit, HeldIsInProgress, Holders
  <2>3. HeldIsInProgress' /\ OneRunPerCommand'
    BY <2>1, <2>2 DEF HeldIsInProgress, OneRunPerCommand
  <2> QED
    BY <2>1, <2>2, <2>3 DEF NoticesFit
<1>3. ASSUME NEW w \in Workers, Worker(w) PROVE OwnerInv'
  <2>1. /\ pressed' = pressed
        /\ \A v \in Workers \ {w} : job'[v] = job[v]
    BY <1>0, <1>3, WorkerFrame
  <2>2. ASSUME cmd' = cmd, job'[w].cmd = job[w].cmd,
               job'[w].copy = job[w].copy
        PROVE  OwnerInv'
    <3>1. \A v \in Workers : /\ job'[v].cmd = job[v].cmd
                             /\ job'[v].copy = job[v].copy
      BY <2>1, <2>2
    <3> QED
      BY <2>1, <2>2, <3>1 DEF HeldIsInProgress, OneRunPerCommand, NoticesFit,
                              NoticeFits, AwaitsStopNotice
  <2>3. ASSUME NEW row \in Row, cmd' = [cmd EXCEPT ![job[w].cmd] = row],
               job[w].cmd \notin pressed => NoticeFits(row),
               job' = [job EXCEPT ![w] = IdleJob]
        PROVE  OwnerInv'
    <3>1. job'[w].cmd = 0 /\ 0 \notin Versions
      BY <1>0, <2>3 DEF TypeOK, IdleJob, Versions
    <3>2. ASSUME NEW c \in Versions \ pressed, NEW v \in Workers,
                 job'[v].cmd = c
          PROVE  v # w /\ job[v].cmd = c /\ job'[v] = job[v] /\ cmd'[c] = cmd[c]
      BY <1>0, <2>1, <2>3, <3>1, <3>2 DEF OneRunPerCommand, TypeOK
    <3>3. \A c \in Versions \ pressed : NoticeFits(cmd'[c])
      BY <1>0, <2>3 DEF NoticesFit, TypeOK
    <3>4. HeldIsInProgress' /\ OneRunPerCommand'
      BY <2>1, <3>2 DEF HeldIsInProgress, OneRunPerCommand
    <3> QED
      BY <2>1, <3>3, <3>4 DEF NoticesFit
  <2>4. CASE Inside(w)
    BY <1>0, <2>2, <2>4, InsideFrame
  <2>5. CASE EnterRun(w)
    <3> DEFINE b == job[w].cmd
    <3>0. /\ job \in [Workers -> Job] /\ job[w] \in Job
          /\ cmd \in [Versions -> Row] /\ b \in Versions
      BY <1>0, <2>5 DEF EnterRun, JobsAreNamed, At, TypeOK
    <3>1. CASE paused
      <4>1. cmd' = cmd /\ EndsWith(w, "paused")
        BY <2>5, <3>1 DEF EnterRun
      <4>2. job'[w].cmd = job[w].cmd /\ job'[w].copy = job[w].copy
        BY <3>0, <4>1 DEF EndsWith, Becomes, Job
      <4> QED
        BY <2>2, <4>1, <4>2
    <3>2. CASE ~paused
      <4> DEFINE row == [cmd[b] EXCEPT !.marked = TRUE]
                 copy == [job[w].copy EXCEPT !.marked = TRUE]
      <4>1. cmd' = [cmd EXCEPT ![b] = row]
        BY <2>5, <3>2 DEF EnterRun
      <4>2. job'[w].cmd = b /\ job'[w].copy = copy
        <5>1. Becomes(w, [job[w] EXCEPT !.pc = "check", !.copy.marked = TRUE])
          BY <2>5, <3>2 DEF EnterRun
        <5> QED
          BY <3>0, <5>1 DEF Becomes, Job
      <4>3. \A v \in Workers : job'[v].cmd = job[v].cmd
        BY <2>1, <4>2
      <4>4. row.status = cmd[b].status /\ row.notice = cmd[b].notice
            /\ row.kind = cmd[b].kind
        BY <3>0 DEF Row
      <4>5. NoticesFit'
        BY <2>1, <3>0, <4>1, <4>4 DEF NoticesFit, NoticeFits, AwaitsStopNotice
      <4>6. OneRunPerCommand'
        BY <2>1, <4>3 DEF OneRunPerCommand
      <4>7. HeldIsInProgress'
        <5> SUFFICES ASSUME NEW c \in Versions \ pressed, NEW v \in Workers,
                            job'[v].cmd = c
                     PROVE  /\ cmd'[c].status = "in_progress"
                            /\ job'[v].copy = cmd'[c]
          BY <2>1 DEF HeldIsInProgress
        <5>1. /\ job[v].cmd = c /\ cmd[c].status = "in_progress"
              /\ job[v].copy = cmd[c]
          BY <4>3 DEF HeldIsInProgress
        <5>2. CASE v = w
          BY <3>0, <4>1, <4>2, <4>4, <5>1, <5>2
        <5>3. CASE v # w
          <6>1. c # b
            BY <5>1, <5>3 DEF OneRunPerCommand
          <6> QED
            BY <2>1, <4>1, <5>1, <5>3, <6>1
        <5> QED
          BY <5>2, <5>3
      <4> QED
        BY <4>5, <4>6, <4>7
    <3> QED
      BY <3>1, <3>2
  <2>6. ASSUME NEW b \in Versions, ClaimCommand(w, b) PROVE OwnerInv'
    <3> DEFINE row == [cmd[b] EXCEPT !.status = "in_progress",
                                     !.marked = FALSE]
    <3>0. job \in [Workers -> Job] /\ cmd \in [Versions -> Row]
      BY <1>0 DEF TypeOK
    <3>1. /\ cmd' = [cmd EXCEPT ![b] = row]
          /\ job' = [job EXCEPT ![w] = [IdleJob EXCEPT !.pc = "entry",
                                                       !.cmd = b,
                                                       !.copy = row]]
          /\ cmd[b].status = "pending"
      BY <2>6 DEF ClaimCommand, Becomes
    <3>2. job'[w].cmd = b /\ job'[w].copy = row
      BY <3>0, <3>1 DEF IdleJob
    <3>3. row.status = "in_progress" /\ row.notice = cmd[b].notice
      BY <3>0 DEF Row
    <3>4. b \notin pressed => \A v \in Workers : job[v].cmd # b
      BY <3>1 DEF HeldIsInProgress
    <3>5. NoticesFit'
      BY <2>1, <3>0, <3>1, <3>3 DEF NoticesFit, NoticeFits, AwaitsStopNotice
    <3>6. HeldIsInProgress'
      BY <2>1, <3>0, <3>1, <3>2, <3>3, <3>4 DEF HeldIsInProgress
    <3>7. OneRunPerCommand'
      BY <2>1, <3>2, <3>4 DEF OneRunPerCommand
    <3> QED
      BY <3>5, <3>6, <3>7
  <2>7. CASE WriteOutcome(w)
    <3> DEFINE c == job[w].cmd
               new == Settle(job[w].copy, job[w].out)
    <3>1. /\ c \in Versions /\ job[w].copy \in Row /\ job[w].out \in Outcomes
          /\ cmd[c] \in Row
      BY <1>0, <2>7 DEF WriteOutcome, JobsAreNamed, At, TypeOK, Job
    <3>2. new \in Row /\ Flush(cmd[c], job[w].copy, new) \in Row
      BY <3>1, SettleType, FlushType
    <3>3. ASSUME c \notin pressed
          PROVE  NoticeFits(Flush(cmd[c], job[w].copy, new))
      <4>1. job[w].copy = cmd[c] /\ cmd[c].notice = "none"
        BY <3>1, <3>3 DEF HeldIsInProgress, NoticesFit, NoticeFits
      <4>2. Flush(cmd[c], job[w].copy, new) = new
        BY <3>1, <3>2, <4>1, FlushOwn
      <4> QED
        BY <3>1, <4>1, <4>2, SettleFits
    <3>4. /\ cmd' = [cmd EXCEPT ![c] = Flush(cmd[c], job[w].copy, new)]
          /\ job' = [job EXCEPT ![w] = IdleJob]
      BY <2>7 DEF WriteOutcome, Becomes
    <3> QED
      BY <2>3, <3>2, <3>3, <3>4
  <2>8. CASE RunRaises(w)
    <3> DEFINE c == job[w].cmd
               row == IF cmd[c].status = "in_progress"
                      THEN Fail(cmd[c], Unnamed(w)) ELSE cmd[c]
    <3>1. c \in Versions /\ cmd[c] \in Row
      BY <1>0, <2>8 DEF RunRaises, JobsAreNamed, At, TypeOK
    <3>2. Unnamed(w) \in FailureKinds
      BY DEF Unnamed, FailureKinds
    <3>3. row \in Row
      BY <3>1, <3>2, FailType
    <3>4. ASSUME c \notin pressed PROVE NoticeFits(row)
      <4>1. NoticeFits(cmd[c])
        BY <3>1, <3>4 DEF NoticesFit
      <4>2. cmd[c].status = "in_progress" => cmd[c].notice = "none"
        BY <4>1 DEF NoticeFits
      <4> QED
        BY <3>1, <3>2, <4>1, <4>2, FailFits
    <3>5. /\ cmd' = [cmd EXCEPT ![c] = row]
          /\ job' = [job EXCEPT ![w] = IdleJob]
      BY <2>8 DEF RunRaises, Becomes
    <3> QED
      BY <2>3, <3>3, <3>4, <3>5
  <2>9. CASE Crash(w)
    <3> DEFINE c == job[w].cmd
    <3>1. c \in Versions /\ cmd[c] \in Row
      BY <1>0, <2>9 DEF Crash, JobsAreNamed, At, TypeOK
    <3>2. /\ cmd' = [cmd EXCEPT ![c] = cmd[c]]
          /\ job' = [job EXCEPT ![w] = IdleJob]
      BY <1>0, <2>9 DEF Crash, Becomes, TypeOK
    <3>3. c \notin pressed => NoticeFits(cmd[c])
      BY <3>1 DEF NoticesFit
    <3> QED
      BY <2>3, <3>1, <3>2, <3>3
  <2> QED
    BY <1>3, <2>4, <2>5, <2>6, <2>7, <2>8, <2>9 DEF Worker, Run, Inside
<1>4. CASE UNCHANGED vars
  BY <1>4 DEF vars, history, HeldIsInProgress, OneRunPerCommand, NoticesFit,
              NoticeFits, AwaitsStopNotice
<1> QED
  BY <1>1, <1>2, <1>3, <1>4 DEF Next

(* So it holds in every reachable state.                                   *)
LEMMA OwnerHolds == Spec => []OwnerInv
<1>1. Init => OwnerInv
  BY DEF Init, OwnerInv, HeldIsInProgress, OneRunPerCommand, NoticesFit,
         NoticeFits, AwaitsStopNotice, NoCommand, NewCommand, IdleJob, Versions
<1>2. ApprovedInv /\ ApprovedInv' /\ OwnerInv /\ [Next]_vars => OwnerInv'
  BY OwnerStep
<1> QED
  BY <1>1, <1>2, ApprovedHolds, PTL DEF Spec

(* The claim under SKIP LOCKED and the recovery threshold keep a command   *)
(* in one hand, for any number of overlapping ticks, crashes and           *)
(* recoveries, unless a publish request rewrote its row from an old copy.  *)
THEOREM ClaimExclusion == Spec => []OneRunPerCommand
<1>1. OwnerInv => OneRunPerCommand
  BY DEF OwnerInv
<1> QED
  BY <1>1, OwnerHolds, PTL

(* Every command that waits for a person has its notice queued or sent,    *)
(* whichever path stopped it (a run, a recovery, an unclassified error),   *)
(* unless a publish request rewrote its row from an old copy.              *)
THEOREM StopsAreAnnounced == Spec => []StopIsAnnounced
<1>1. OwnerInv => StopIsAnnounced
  BY DEF OwnerInv, NoticesFit, NoticeFits, StopIsAnnounced
<1> QED
  BY <1>1, OwnerHolds, PTL
=============================================================================
