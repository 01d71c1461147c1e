------------------------- MODULE PublicationCommand -------------------------
(***************************************************************************)
(* How an approved channel post goes out: the publication_commands ledger  *)
(* of backend/app/services/publication_command.py, the publish function    *)
(* of channel_posts.py that the cron worker runs for each command, and the *)
(* people and requests that write the same rows.                           *)
(*                                                                         *)
(* One draft, one destination, one approval gate.  Its versions are        *)
(* numbered; the idempotency key of a publish command (organisation,       *)
(* destination, approved_version, operation, toggle_seq) makes the command *)
(* of version v the only one, so commands are indexed by version.          *)
(*                                                                         *)
(* A cron tick runs its stages each in a transaction of its own and ticks  *)
(* overlap (one a minute, each up to 30 minutes), so a stage is an action  *)
(* that some tick takes; Workers are the ticks' processing loops, at most  *)
(* that many commands being processed at once.  Sessions run with          *)
(* expire_on_commit=False: a process keeps the copy it read and an UPDATE  *)
(* carries only the columns that differ from that copy.                    *)
(*                                                                         *)
(* Due times, backoff and schedules are abstracted to "due at some time".  *)
(***************************************************************************)
EXTENDS Integers, FiniteSets

CONSTANTS
    MaxVersion,     \* versions of the draft that may be written
    AsyncVersions,  \* versions with an image or a video: async containers
    Workers,        \* processing loops of overlapping cron ticks
    MaxRetries,     \* MAX_RETRIES
    Bounds          \* how many crashes, human acts, pauses, submissions

Versions   == 1..MaxVersion
BoundKinds == {"crash", "human", "pause", "submit"}

ASSUME VersionsAssumption ==
    MaxVersion \in Nat \ {0} /\ AsyncVersions \subseteq Versions
ASSUME WorkersAssumption == IsFiniteSet(Workers)
ASSUME RetriesAssumption == MaxRetries \in Nat \ {0}
ASSUME BoundsAssumption == Bounds \in [BoundKinds -> Nat]

VARIABLES
    gate,      \* the external_publish gate of this draft and destination
    latest,    \* the newest version of the draft
    paused,    \* organizations.external_publish_paused_at is set
    cmd,       \* publication_commands, by approved_version
    pub,       \* channel_publications, by version
    job,       \* what each worker is doing
    press,     \* the publish request being served
    submit,    \* the submission being served
    spent,     \* how much of each bound is used
    approved,  \* history: versions a person approved
    slipped,   \* history: versions sealed into a gate approved meanwhile
    calls,     \* history: publish calls of a command that may have gone out
    sentBy,    \* history: versions the calls of a command carried
    acts,      \* history: times a person put a command back to work
    pressed    \* history: commands whose row a publish request rewrote

history == <<approved, slipped, calls, sentBy, acts, pressed>>
vars == <<gate, latest, paused, cmd, pub, job, press, submit, spent,
          history>>

-----------------------------------------------------------------------------
(* Rows *)

CommandStatuses == {"absent", "pending", "in_progress", "completed",
                    "dead_letter", "blocked", "voided", "blocked_unapproved",
                    "cancelled"}
FailureKinds == {"connection", "needs_check", "transient", "not_sent"}
Marks == {"none", "pending", "sent"}

Row == [status : CommandStatuses,
        kind : FailureKinds \cup {"none", "paused"},   \* failure_kind
        attempts : Nat,                                \* attempt_count
        notice : Marks,                                \* stop_notice_state
        marked : BOOLEAN]                 \* provider_call_started_at is set

NewCommand == [status |-> "pending", kind |-> "none", attempts |-> 0,
               notice |-> "none", marked |-> FALSE]
NoCommand  == [NewCommand EXCEPT !.status = "absent"]

\* A channel_publications row: none; claimed before its container exists
\* (container_claimed_at); free after a failure that left no container; with
\* a container; with a container and status failed; published.
PubStates == {"none", "claimed", "free", "container", "broken", "published"}

\* The gate's own columns; a version stands for the hash of its text.
Gate == [status : {"none", "pending", "approved"},
         sealed : 0..MaxVersion,     \* sealed_content_version and _sha256
         scheduled : BOOLEAN,        \* sealed_scheduled_at is set
         reapproval : BOOLEAN]       \* reapproval_required
NoGate == [status |-> "none", sealed |-> 0, scheduled |-> FALSE,
           reapproval |-> FALSE]

\* What a run ends with.
Outcomes == FailureKinds \cup {"none", "paused", "unapproved", "voided",
                               "waiting", "completed"}
Steps == {"idle", "entry", "check", "row", "create", "poll", "publish",
          "record", "write"}

Job == [pc : Steps,
        cmd : Versions \cup {0},    \* the command in hand
        copy : Row,                 \* its row as this session knows it
        ver : Versions \cup {0},    \* the version being published
        seen : PubStates,           \* that version's publication as read
        posted : BOOLEAN,           \* provider_call_marked()
        out : Outcomes]
IdleJob == [pc |-> "idle", cmd |-> 0, copy |-> NoCommand, ver |-> 0,
            seen |-> "none", posted |-> FALSE, out |-> "none"]

Press == [cmd : Versions \cup {0}, copy : Row]
NoPress == [cmd |-> 0, copy |-> NoCommand]

Submit == [target : Versions \cup {0}, scheduled : BOOLEAN, copy : Gate]
NoSubmit == [target |-> 0, scheduled |-> FALSE, copy |-> NoGate]

\* awaits_stop_notice, for channel posts.
AwaitsStopNotice(row) ==
    \/ row.status = "dead_letter"
    \/ row.status = "blocked" /\ row.kind = "connection"

\* human_retryable, for channel posts.
HumanRetryable(row) ==
    \/ row.status = "dead_letter"
    \/ row.status = "blocked" /\ row.kind # "paused"

\* Mutant: a resume takes every stopped command for one of its own.
IsAnyStop(row) == row.status \in {"blocked", "dead_letter"}

IsPausedStop(row) == row.status = "blocked" /\ row.kind = "paused"

\* Mutant: the notice of a lost connection is forgotten.
MarkDeadLetterNotice(row) ==
    IF row.status = "dead_letter" THEN [row EXCEPT !.notice = "pending"]
    ELSE row

\* mark_stop_notice, in the commit of the stop itself.
MarkStopNotice(row) ==
    IF AwaitsStopNotice(row) THEN [row EXCEPT !.notice = "pending"] ELSE row

\* apply_command_failure once classify_failure_kind has named the kind: a
\* lost connection blocks; what a retry cannot help, and a transient failure
\* that has used its retries up, is a dead letter; the rest is queued again.
Fail(row, k) ==
    CASE k = "connection" ->
            MarkStopNotice([row EXCEPT !.status = "blocked", !.kind = k])
      [] k = "transient" /\ row.attempts + 1 < MaxRetries ->
            [row EXCEPT !.status = "pending", !.kind = k, !.attempts = @ + 1]
      [] OTHER ->
            MarkStopNotice([row EXCEPT !.status = "dead_letter", !.kind = k,
                                       !.attempts = @ + 1])

\* _block_for_external_publish_pause: not a failure, nothing is counted.
BlockForPause(row) == [row EXCEPT !.status = "blocked", !.kind = "paused"]

\* Mutant: a status the table does not know.
BlockMisspelt(row) == [row EXCEPT !.status = "unapproved", !.kind = "none"]

\* mark_blocked_unapproved.
BlockUnapproved(row) ==
    [row EXCEPT !.status = "blocked_unapproved", !.kind = "none"]

\* What retry_dead_letter_command leaves; the attempt count stays.
Requeue(row) ==
    [row EXCEPT !.status = "pending", !.kind = "none", !.notice = "none"]

\* requeue_for_human_publish: whatever is neither over nor in hand.
RequeueForHumanPublish(row) ==
    IF row.status \in {"completed", "voided", "in_progress"} THEN row
    ELSE Requeue(row)

\* The row after the outcome of a run is applied to the session's copy.
Settle(row, o) ==
    CASE o = "paused"     -> BlockForPause(row)
      [] o = "unapproved" -> BlockUnapproved(row)
      [] o = "voided"     -> [row EXCEPT !.status = "voided"]
      [] o = "waiting"    -> [row EXCEPT !.status = "pending", !.kind = "none"]
      [] o = "completed"  -> [row EXCEPT !.status = "completed",
                                         !.kind = "none"]
      [] OTHER            -> Fail(row, o)

\* The UPDATE of a session that read copy and wants new: only the columns
\* it changed are written over the row as it is now.
Flush(row, copy, new) ==
    [status   |-> IF new.status # copy.status THEN new.status ELSE row.status,
     kind     |-> IF new.kind # copy.kind THEN new.kind ELSE row.kind,
     attempts |-> IF new.attempts # copy.attempts THEN new.attempts
                  ELSE row.attempts,
     notice   |-> IF new.notice # copy.notice THEN new.notice ELSE row.notice,
     marked   |-> IF new.marked # copy.marked THEN new.marked ELSE row.marked]

\* void_pending_commands_for_gate.
VoidPending(rows) ==
    [c \in Versions |-> IF rows[c].status = "pending"
                        THEN [rows[c] EXCEPT !.status = "voided"]
                        ELSE rows[c]]

\* create_or_get_publication_command: an existing row is returned as it is.
CreateOrGet(rows, v) ==
    IF rows[v].status = "absent" THEN [rows EXCEPT ![v] = NewCommand] ELSE rows

Spend(k) ==
    /\ spent[k] < Bounds[k]
    /\ spent' = [spent EXCEPT ![k] = @ + 1]

Init ==
    /\ gate = NoGate
    /\ latest = 1
    /\ paused = FALSE
    /\ cmd = [c \in Versions |-> NoCommand]
    /\ pub = [v \in Versions |-> "none"]
    /\ job = [w \in Workers |-> IdleJob]
    /\ press = NoPress
    /\ submit = NoSubmit
    /\ spent = [k \in BoundKinds |-> 0]
    /\ approved = {}
    /\ slipped = {}
    /\ calls = [c \in Versions |-> 0]
    /\ sentBy = [c \in Versions |-> {}]
    /\ acts = [c \in Versions |-> 0]
    /\ pressed = {}

-----------------------------------------------------------------------------
(* The draft and its gate *)

\* Mutant: an approved gate is sealed again in silence.
EditReseals ==
    /\ latest < MaxVersion
    /\ latest' = latest + 1
    /\ gate' = [gate EXCEPT !.sealed = latest + 1]
    /\ UNCHANGED <<cmd, paused, pub, job, press, submit, spent, history>>

\* A new version: an approved gate is reopened with its old seal and its
\* pending commands are voided; a pending gate is sealed again.
EditDraft ==
    /\ latest < MaxVersion
    /\ latest' = latest + 1
    /\ gate' = CASE gate.status = "approved" ->
                        [gate EXCEPT !.status = "pending", !.reapproval = TRUE]
                 [] gate.status = "pending" ->
                        [gate EXCEPT !.sealed = latest + 1]
                 [] OTHER -> gate
    /\ cmd' = IF gate.status = "approved" THEN VoidPending(cmd) ELSE cmd
    /\ UNCHANGED <<paused, pub, job, press, submit, spent, history>>

\* submit_channel_post_draft reads the gate without a lock; any version of
\* the draft may be submitted, with a schedule (s) or without one.
BeginSubmit(v, s) ==
    /\ Spend("submit")
    /\ submit.target = 0
    /\ v <= latest
    /\ submit' = [target |-> v, scheduled |-> s, copy |-> gate]
    /\ UNCHANGED <<gate, latest, paused, cmd, pub, job, press, history>>

\* The UPDATE of a session that read copy and wants new.
FlushGate(row, copy, new) ==
    LET Column(f) == IF new[f] # copy[f] THEN new[f] ELSE row[f]
    IN  [status |-> Column("status"), sealed |-> Column("sealed"),
         scheduled |-> Column("scheduled"), reapproval |-> Column("reapproval")]

\* A changed text, media, schedule or budget is sealed and the gate put back
\* to pending; create_gate reads a gate again that was not there before.
CommitSubmit ==
    LET copy == IF submit.copy.status = "none" THEN gate ELSE submit.copy
    IN  /\ submit.target # 0
        /\ gate' = FlushGate(gate, copy,
                             [status |-> "pending", sealed |-> submit.target,
                              scheduled |-> submit.scheduled,
                              reapproval |-> FALSE])
        /\ cmd' = IF submit.copy.status = "approved" THEN VoidPending(cmd)
                  ELSE cmd
        /\ submit' = NoSubmit
        /\ slipped' = IF gate'.status = "approved"
                      THEN slipped \cup {gate'.sealed} ELSE slipped
        /\ UNCHANGED <<latest, paused, pub, job, press, spent, approved, calls,
                       sentBy, acts, pressed>>

\* Nothing has changed, a check refuses the submission, or it dies.
DropSubmit ==
    /\ submit.target # 0
    /\ submit' = NoSubmit
    /\ UNCHANGED <<gate, latest, paused, cmd, pub, job, press,
                   spent, history>>

\* A person approves what is sealed; a scheduled post gets its command.
ApproveGate ==
    /\ gate.status = "pending" /\ ~gate.reapproval
    /\ gate' = [gate EXCEPT !.status = "approved"]
    /\ approved' = approved \cup {gate.sealed}
    /\ cmd' = IF gate.scheduled THEN CreateOrGet(cmd, latest) ELSE cmd
    /\ UNCHANGED <<latest, paused, pub, job, press, submit, spent, slipped,
                   calls, sentBy, acts, pressed>>

-----------------------------------------------------------------------------
(* The organisation's pause switch *)

RequeuePaused(rows) ==
    [c \in Versions |-> IF IsPausedStop(rows[c]) THEN Requeue(rows[c])
                        ELSE rows[c]]

PauseOrg ==
    /\ Spend("pause")
    /\ ~paused
    /\ paused' = TRUE
    /\ UNCHANGED <<gate, latest, cmd, pub, job, press, submit, history>>

\* The switch and the requeue of what it stopped are one transaction.
ResumeOrg ==
    /\ paused
    /\ paused' = FALSE
    /\ cmd' = RequeuePaused(cmd)
    /\ UNCHANGED <<gate, latest, pub, job, press, submit, spent, history>>

\* Mutant: the tick looks at the paused organisations instead.
RequeuePausedOfPausedOrgs ==
    /\ paused
    /\ \E c \in Versions : IsPausedStop(cmd[c])
    /\ cmd' = RequeuePaused(cmd)
    /\ UNCHANGED <<gate, latest, paused, pub, job, press, submit,
                   spent, history>>

\* requeue_paused_commands_of_unpaused_orgs, in every tick.
RequeuePausedOfUnpausedOrgs ==
    /\ ~paused
    /\ \E c \in Versions : IsPausedStop(cmd[c])
    /\ cmd' = RequeuePaused(cmd)
    /\ UNCHANGED <<gate, latest, paused, pub, job, press, submit,
                   spent, history>>

-----------------------------------------------------------------------------
(* A person's publish request: two transactions on one unlocked copy *)

\* The gate is approved: create or get the command and commit.  A scheduled
\* post is left to its time; needs_check, voided and published are answered
\* at once; anything else goes on to the preflight.
PressPublish ==
    /\ Spend("human")
    /\ press.cmd = 0
    /\ gate.status = "approved"
    /\ cmd' = CreateOrGet(cmd, latest)
    /\ press' = IF \/ gate.scheduled
                   \/ cmd'[latest].kind = "needs_check"
                   \/ cmd'[latest].status = "voided"
                   \/ /\ cmd'[latest].status = "completed"
                      /\ pub[latest] = "published"
                THEN NoPress
                ELSE [cmd |-> latest, copy |-> cmd'[latest]]
    /\ UNCHANGED <<gate, latest, paused, pub, job, submit, history>>

\* What the request makes of its copy: preflight_channel_post_publish, then
\* requeue_for_human_publish.  The budget, the connection and the checks of
\* the text are external; a version already out skips all but the budget.
PreflightResults(copy) ==
    CASE paused -> {BlockForPause(copy)}
      [] ~paused /\ gate.status # "approved" -> {BlockUnapproved(copy)}
      [] ~paused /\ gate.status = "approved" /\ gate.sealed # latest ->
            {[copy EXCEPT !.status = "voided"]}
      [] OTHER ->
            {RequeueForHumanPublish(copy), BlockUnapproved(copy)}
            \cup (IF pub[latest] = "published" THEN {}
                  ELSE {Fail(copy, "connection"), Fail(copy, "not_sent")})

\* The second commit writes from the copy, without a lock or a fresh read.
PressCommit ==
    /\ press.cmd # 0
    /\ \E new \in PreflightResults(press.copy) :
        LET c == press.cmd
            row == Flush(cmd[c], press.copy, new)
        IN  /\ cmd' = [cmd EXCEPT ![c] = row]
            /\ acts' = [acts EXCEPT ![c] = IF row = cmd[c] THEN @ ELSE @ + 1]
            /\ pressed' = IF row = cmd[c] THEN pressed ELSE pressed \cup {c}
    /\ press' = NoPress
    /\ UNCHANGED <<gate, latest, paused, pub, job, submit, spent, approved,
                   slipped, calls, sentBy>>

\* The request is cut off after its first commit.
PressDies ==
    /\ press.cmd # 0
    /\ press' = NoPress
    /\ UNCHANGED <<gate, latest, paused, cmd, pub, job, submit,
                   spent, history>>

\* The retry endpoint: locked and read again, only what a person may retry.
RetryCommand(c) ==
    /\ Spend("human")
    /\ HumanRetryable(cmd[c])
    /\ cmd' = [cmd EXCEPT ![c] = Requeue(@)]
    /\ acts' = [acts EXCEPT ![c] = @ + 1]
    /\ UNCHANGED <<gate, latest, paused, pub, job, press, submit, approved,
                   slipped, calls, sentBy, pressed>>

\* cancel_scheduled_publication: the gate's most recent command.
CancelPublication(c) ==
    /\ Spend("human")
    /\ cmd[c].status \in {"pending", "blocked", "dead_letter"}
    /\ \A d \in Versions : d > c => cmd[d].status = "absent"
    /\ cmd' = [cmd EXCEPT ![c].status = "cancelled"]
    /\ UNCHANGED <<gate, latest, paused, pub, job, press, submit, history>>

-----------------------------------------------------------------------------
(* The cron tick's own stages *)

\* _sweep_stuck_container_created_publications: a container in the making
\* that no command owns gets one, if the gate's approver is known.
SweepStuckContainers(v) ==
    /\ pub[v] \in {"claimed", "container"}
    /\ cmd[v].status = "absent"
    /\ gate.status = "approved"
    /\ cmd' = CreateOrGet(cmd, v)
    /\ UNCHANGED <<gate, latest, paused, pub, job, press, submit,
                   spent, history>>

\* Mutant: the threshold is shorter than a request lives.
NoHolders(c) == {w \in Workers : job[w].cmd = c /\ job[w].pc = "idle"}

Holders(c) == {w \in Workers : job[w].cmd = c}

\* Mutant: an interrupted call is retried like a run that never called.
RecoveredAsTransient(row, c) == Fail(row, "transient")

\* Mutant: only the runs that had set their marker are given back.
RecoveredIfMarked(row, c) == IF row.marked THEN Fail(row, "needs_check")
                             ELSE row

\* What becomes of a command whose run died: after the marker it is done if
\* its publication is recorded (_local_publication_complete) and unknown if
\* not; before the marker nothing can have gone out.
Recovered(row, c) ==
    IF row.marked
    THEN IF pub[c] = "published" THEN Settle(row, "completed")
         ELSE Fail(row, "needs_check")
    ELSE Fail(row, "transient")

\* _recover_interrupted_commands: STUCK_IN_PROGRESS_THRESHOLD is longer than
\* a request lives, so the claim is old only when nobody holds the command
\* and no publish request is left that read the row before the claim.
RecoverInterrupted(c) ==
    /\ cmd[c].status = "in_progress"
    /\ Holders(c) = {}
    /\ press.cmd = c => press.copy.status = "in_progress"
    /\ cmd' = [cmd EXCEPT ![c] = Recovered(@, c)]
    /\ UNCHANGED <<gate, latest, paused, pub, job, press, submit,
                   spent, history>>

\* Mutant: the notifier's own rule knows dead letters only.
DeliverDeadLetterNotice(c) ==
    /\ cmd[c].notice = "pending"
    /\ cmd' = [cmd EXCEPT ![c].notice =
                  IF cmd[c].status = "dead_letter" THEN "sent" ELSE "none"]
    /\ UNCHANGED <<gate, latest, paused, pub, job, press, submit,
                   spent, history>>

\* _deliver_one_stop_notice, of a publication a recipe asked for.
DeliverStopNotice(c) ==
    /\ cmd[c].notice = "pending"
    /\ cmd' = [cmd EXCEPT ![c].notice =
                  IF AwaitsStopNotice(cmd[c]) THEN "sent" ELSE "none"]
    /\ UNCHANGED <<gate, latest, paused, pub, job, press, submit,
                   spent, history>>

-----------------------------------------------------------------------------
(* One run of one command: the claim, _process_one_command, and inside it  *)
(* publish_channel_post_draft                                              *)

At(w, s) == job[w].pc = s
Becomes(w, j) == job' = [job EXCEPT ![w] = j]
\* The run ends with outcome o, still to be written to the command's row.
EndsWith(w, o) == Becomes(w, [job[w] EXCEPT !.pc = "write", !.out = o])
\* An exception nobody named: after a provider write nobody knows whether it
\* went out; before one a retry is safe.
Unnamed(w) == IF job[w].posted THEN "needs_check" ELSE "transient"

\* process_due_publication_commands takes one due command, SKIP LOCKED; its
\* marker is this run's own, so it is cleared in the same commit.
ClaimCommand(w, c) ==
    /\ At(w, "idle")
    /\ cmd[c].status = "pending"
    /\ LET row == [cmd[c] EXCEPT !.status = "in_progress", !.marked = FALSE]
       IN  /\ cmd' = [cmd EXCEPT ![c] = row]
           /\ Becomes(w, [IdleJob EXCEPT !.pc = "entry", !.cmd = c,
                                         !.copy = row])
    /\ UNCHANGED <<gate, latest, paused, pub, press, submit, spent, history>>

\* The pause is looked at first; the marker is committed before anything
\* that may write to the provider.
EnterRun(w) ==
    /\ At(w, "entry")
    /\ IF paused
       THEN EndsWith(w, "paused") /\ UNCHANGED cmd
       ELSE /\ cmd' = [cmd EXCEPT ![job[w].cmd].marked = TRUE]
            /\ Becomes(w, [job[w] EXCEPT !.pc = "check", !.copy.marked = TRUE])
    /\ UNCHANGED <<gate, latest, paused, pub, press, submit, spent, history>>

\* The checks before the publish, of the draft's latest version: pause, gate,
\* seal, budget, already out, connection, text, provider quota.
CheckBeforePublish(w) ==
    /\ At(w, "check")
    /\ \/ paused /\ EndsWith(w, "paused")
       \/ ~paused /\ gate.status # "approved" /\ EndsWith(w, "unapproved")
       \/ /\ ~paused /\ gate.status = "approved"
          /\ \/ gate.sealed # latest /\ EndsWith(w, "voided")
             \/ gate.sealed = latest /\ EndsWith(w, "unapproved")
             \/ /\ gate.sealed = latest /\ pub[latest] = "published"
                /\ EndsWith(w, "completed")
             \/ /\ gate.sealed = latest /\ pub[latest] # "published"
                /\ \/ \E o \in {"connection", "not_sent", "transient"} :
                          EndsWith(w, o)
                   \/ Becomes(w, [job[w] EXCEPT !.pc = "row", !.ver = latest,
                                                !.seen = pub[latest]])
    /\ UNCHANGED <<gate, latest, paused, cmd, pub, press, submit,
                   spent, history>>

\* The step after the publication row is in hand with a container.
AfterContainer(v) == IF v \in AsyncVersions THEN "poll" ELSE "publish"

\* No live worker is creating the container of v: the claim can expire.
ClaimAbandoned(v) == \A w \in Workers : ~(At(w, "create") /\ job[w].ver = v)

\* Another run inserted the row first: what its row says after a moment.
LostInsert(v) ==
    CASE pub[v] = "published"          -> {"completed"}
      [] pub[v] \in {"free", "broken"} -> FailureKinds
      [] OTHER                         -> {"needs_check"}

\* The publication row: inserted as the claim, or claimed by
\* _claim_container_creation, or carried on from its container.
ClaimRow(w) ==
    LET v == job[w].ver
        seen == job[w].seen
        Go(pc) == Becomes(w, [job[w] EXCEPT !.pc = pc, !.seen = pub'[v]])
        Claim == pub' = [pub EXCEPT ![v] = "claimed"] /\ Go("create")
    IN  /\ At(w, "row")
        /\ \/ /\ seen = "none" /\ pub[v] = "none"
              /\ Claim
           \/ /\ seen = "none" /\ pub[v] # "none"
              /\ UNCHANGED pub /\ \E o \in LostInsert(v) : EndsWith(w, o)
           \/ /\ seen \in {"claimed", "free"}
              /\ pub[v] = "free" \/ (pub[v] = "claimed" /\ ClaimAbandoned(v))
              /\ Claim
           \/ /\ seen \in {"claimed", "free"} /\ pub[v] = "claimed"
              /\ UNCHANGED pub /\ EndsWith(w, "needs_check")
           \/ /\ seen \in {"claimed", "free"}
              /\ pub[v] \notin {"free", "claimed"}
              /\ UNCHANGED pub /\ Go(AfterContainer(v))
           \/ /\ seen \notin {"none", "claimed", "free"}
              /\ UNCHANGED pub /\ Go(AfterContainer(v))
        /\ UNCHANGED <<gate, latest, paused, cmd, press, submit,
                       spent, history>>

\* A write call to the provider is over: on to step pc, with outcome o if
\* that is the end of the run.
Posted(w, pc, o) ==
    Becomes(w, [job[w] EXCEPT !.pc = pc, !.out = o, !.posted = TRUE,
                              !.seen = pub'[job[w].ver]])

\* create_container and its kin: a POST, but nothing is visible yet.
CreateContainer(w) ==
    LET v == job[w].ver
    IN  /\ At(w, "create")
        /\ \/ /\ pub' = [pub EXCEPT ![v] = "container"]
              /\ IF v \in AsyncVersions THEN Posted(w, "write", "waiting")
                 ELSE Posted(w, "publish", "none")
           \/ /\ pub' = [pub EXCEPT ![v] = "free"]
              /\ \E k \in FailureKinds : Posted(w, "write", k)
           \/ UNCHANGED pub /\ Posted(w, "write", "needs_check")
        /\ UNCHANGED <<gate, latest, paused, cmd, press, submit,
                       spent, history>>

\* row.status = "failed" with the container kept: no UPDATE when the copy
\* already said failed.
MarkFailed(w) ==
    IF job[w].seen = "broken" THEN UNCHANGED pub
    ELSE pub' = [pub EXCEPT ![job[w].ver] = "broken"]

\* get_container_status of an image or a video still being processed.
PollContainer(w) ==
    /\ At(w, "poll")
    /\ \/ UNCHANGED pub /\ EndsWith(w, "waiting")
       \/ UNCHANGED pub /\ Becomes(w, [job[w] EXCEPT !.pc = "publish"])
       \/ MarkFailed(w) /\ \E o \in {"connection", "transient"} :
                              EndsWith(w, o)
       \/ MarkFailed(w) /\ EndsWith(w, "needs_check")
       \/ /\ pub' = [pub EXCEPT ![job[w].ver] = "free"]
          /\ EndsWith(w, "needs_check")
    /\ UNCHANGED <<gate, latest, paused, cmd, press, submit, spent, history>>

\* A call of publish_container that may have made the post visible.
CountCall(w) ==
    /\ calls' = [calls EXCEPT ![job[w].cmd] = @ + 1]
    /\ sentBy' = [sentBy EXCEPT ![job[w].cmd] = @ \cup {job[w].ver}]
    /\ UNCHANGED <<approved, slipped, acts, pressed>>

\* publish_container: accepted; failed with no telling whether it went out
\* (an error code or no code at all); or refused for its token or its rate.
PublishContainer(w) ==
    /\ At(w, "publish")
    /\ \/ /\ UNCHANGED pub /\ Posted(w, "record", "none")
          /\ CountCall(w)
       \/ /\ MarkFailed(w) \/ UNCHANGED pub
          /\ Posted(w, "write", "needs_check")
          /\ CountCall(w)
       \/ /\ MarkFailed(w)
          /\ \E o \in {"connection", "transient"} : Posted(w, "write", o)
          /\ UNCHANGED history
    /\ UNCHANGED <<gate, latest, paused, cmd, press, submit, spent>>

\* The publication row is committed as published; that commit, or what
\* follows it (permalink, activity log, snapshots, lineage), may raise.
RecordPublished(w) ==
    /\ At(w, "record")
    /\ \/ /\ pub' = [pub EXCEPT ![job[w].ver] = "published"]
          /\ EndsWith(w, "completed") \/ EndsWith(w, Unnamed(w))
       \/ UNCHANGED pub /\ EndsWith(w, Unnamed(w))
    /\ UNCHANGED <<gate, latest, paused, cmd, press, submit, spent, history>>

\* The outcome, applied to the session's copy, is flushed and committed.
WriteOutcome(w) ==
    /\ At(w, "write")
    /\ LET c == job[w].cmd
       IN cmd' = [cmd EXCEPT ![c] = Flush(@, job[w].copy,
                                          Settle(job[w].copy, job[w].out))]
    /\ Becomes(w, IdleJob)
    /\ UNCHANGED <<gate, latest, paused, pub, press, submit, spent, history>>

\* An exception nobody named, raised between two provider calls and caught in
\* _process_one_command; a publication row it had claimed stays claimed.
RunFails(w) ==
    /\ job[w].pc \in {"row", "create", "poll", "publish"}
    /\ EndsWith(w, Unnamed(w))
    /\ UNCHANGED <<gate, latest, paused, cmd, pub, press, submit,
                   spent, history>>

\* An exception leaves _process_one_command: rolled back and, if the row is
\* still in progress, recorded by _record_unclassified_batch_failure.
RunRaises(w) ==
    /\ job[w].pc \in {"entry", "write"}
    /\ LET c == job[w].cmd
       IN cmd' = [cmd EXCEPT ![c] = IF @.status = "in_progress"
                                    THEN Fail(@, Unnamed(w)) ELSE @]
    /\ Becomes(w, IdleJob)
    /\ UNCHANGED <<gate, latest, paused, pub, press, submit, spent, history>>

\* The request is cut off, the instance dies or the record of a failure fails
\* too; a call under way may or may not have gone out.
Crash(w) ==
    /\ ~At(w, "idle")
    /\ Spend("crash")
    /\ Becomes(w, IdleJob)
    /\ \/ At(w, "publish") /\ CountCall(w)
       \/ UNCHANGED history
    /\ UNCHANGED <<gate, latest, paused, cmd, pub, press, submit>>

-----------------------------------------------------------------------------
People ==
    \/ EditDraft
    \/ \E v \in Versions, s \in BOOLEAN : BeginSubmit(v, s)
    \/ CommitSubmit
    \/ DropSubmit
    \/ ApproveGate
    \/ PauseOrg
    \/ ResumeOrg
    \/ PressPublish
    \/ PressCommit
    \/ PressDies
    \/ \E c \in Versions : RetryCommand(c) \/ CancelPublication(c)

TickStages ==
    \/ RequeuePausedOfUnpausedOrgs
    \/ \E c \in Versions : SweepStuckContainers(c)
    \/ \E c \in Versions : RecoverInterrupted(c)
    \/ \E c \in Versions : DeliverStopNotice(c)

Run(w) ==
    \/ EnterRun(w)
    \/ CheckBeforePublish(w)
    \/ ClaimRow(w)
    \/ CreateContainer(w)
    \/ PollContainer(w)
    \/ PublishContainer(w)
    \/ RecordPublished(w)
    \/ RunFails(w)
    \/ WriteOutcome(w)
    \/ RunRaises(w)

Worker(w) == Run(w) \/ Crash(w) \/ \E c \in Versions : ClaimCommand(w, c)

Next == People \/ TickStages \/ \E w \in Workers : Worker(w)

Spec == Init /\ [][Next]_vars

\* The scheduler starts a tick every minute, every tick runs all its stages,
\* and a run or a request that started is driven to its end or dies.
Fairness ==
    /\ WF_vars(PressCommit \/ PressDies)
    /\ WF_vars(RequeuePausedOfUnpausedOrgs)
    /\ \A c \in Versions : /\ WF_vars(RecoverInterrupted(c))
                           /\ WF_vars(DeliverStopNotice(c))
    /\ \A w \in Workers : WF_vars(Run(w))

FairSpec == Spec /\ Fairness

-----------------------------------------------------------------------------
TypeOK ==
    /\ gate \in Gate
    /\ latest \in Versions
    /\ paused \in BOOLEAN
    /\ cmd \in [Versions -> Row]
    /\ pub \in [Versions -> PubStates]
    /\ job \in [Workers -> Job]
    /\ press \in Press
    /\ submit \in Submit
    /\ spent \in [BoundKinds -> Nat]
    /\ approved \subseteq Versions
    /\ slipped \subseteq Versions
    /\ calls \in [Versions -> Nat]
    /\ sentBy \in [Versions -> SUBSET Versions]
    /\ acts \in [Versions -> Nat]
    /\ pressed \subseteq Versions

(* Nothing goes out that no person approved: whatever is edited, resubmitted *)
(* or requeued between the approval and the call, every version a publish   *)
(* call carried was sealed in the gate when somebody approved it, unless a  *)
(* submission that had read the gate before the approval sealed it.         *)
OnlyApprovedGoesOut ==
    UNION {sentBy[c] : c \in Versions} \subseteq approved \cup slipped

(* The claim (pending -> in_progress under SKIP LOCKED) keeps a command in  *)
(* one hand: two runs of it overlap only if a publish request rewrote its   *)
(* row from an old copy.                                                    *)
OneRunPerCommand ==
    \A c \in Versions \ pressed : \A v, w \in Workers :
        job[v].cmd = c /\ job[w].cmd = c => v = w

(* The rule of stories 4264, 4272 and 4287 for one command: no retry,       *)
(* recovery, resume or sweep makes a second call that may go out.  Every    *)
(* call of a command after the first answers an act of a person on that     *)
(* very command.  It counts per command: VersionSentOnce is the rule for a  *)
(* version, whichever commands carry it.                                    *)
NoAutomaticResend == \A c \in Versions : calls[c] <= 1 + acts[c]

(* "자동 재시도(transient)면 이중 게시라 needs_check(재시도 0 · 사람이 채널에서 확인  *)
(* 뒤 재시도)" (publication_command.py, _MAYBE_SENT_CODES): a call that may    *)
(* have gone out is repeated only after a person has looked.  Two commands  *)
(* carry the same version only if somebody put one of them back to work.    *)
VersionSentOnce ==
    \A c, d \in Versions :
        c # d /\ sentBy[c] \cap sentBy[d] # {} => acts[c] + acts[d] > 0

\* The first permit comes with the command, the others from people; a permit
\* belongs to a command and not to the version the command ends up carrying.
Permits == INSTANCE PermittedSending WITH
    vouched <- approved \cup slipped,
    permits <- [c \in Versions |-> 1 + acts[c]]

(* Taken together, every step of the ledger is a step of PermittedSending:  *)
(* at the moment of a call its version has been vouched for and is no older *)
(* than its command, and the command has a permit left, whichever path led  *)
(* to it.  An older command may have carried the same version already (see  *)
(* VersionSentOnce).                                                        *)
SendsAsPermitted == Permits!Spec

(* A command that waits for a person has a notice queued or sent (story     *)
(* 4258), unless a publish request rewrote its row from an old copy.        *)
StopIsAnnounced ==
    \A c \in Versions \ pressed :
        AwaitsStopNotice(cmd[c]) => cmd[c].notice # "none"

(* A person hears of every stop that waits for one: the mark is set in the  *)
(* commit of the stop, so a crash after it loses nothing and a later tick   *)
(* sends the notice, unless the stop has been left by then.                 *)
StopReachesPeople ==
    \A c \in Versions :
        AwaitsStopNotice(cmd[c]) /\ c \notin pressed
            ~> \/ cmd[c].notice = "sent"
               \/ ~AwaitsStopNotice(cmd[c])
               \/ c \in pressed

(* No command stays in_progress for ever: its run ends, or its worker died  *)
(* and _recover_interrupted_commands gives the row back.                    *)
NoneStuckInProgress ==
    \A c \in Versions :
        cmd[c].status = "in_progress" ~> cmd[c].status # "in_progress"

(* Story 4195: a command the pause stopped is released once the pause is    *)
(* over, also when its worker had read the pause before the resume and      *)
(* commits the stop after it.                                               *)
PauseReleases ==
    \A c \in Versions :
        ~paused /\ IsPausedStop(cmd[c]) ~> paused \/ ~IsPausedStop(cmd[c])

(* "승인 기록을 조용히 덮지 않는다" (routers/gates.py, at the approval): what an  *)
(* approved gate has sealed is what a person approved.                      *)
SealIsApproved == gate.status = "approved" => gate.sealed \in approved

=============================================================================
