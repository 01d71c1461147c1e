-------------------------- MODULE A2ATaskLifecycle --------------------------
(***************************************************************************)
(* Tasks that another agent sends to a member over A2A: SendMessage,       *)
(* GetTask and the streaming poll (routers/a2a.py), the deadline sweep     *)
(* (a2a_task_lifecycle.py), the hook of a webhook delivery that failed for *)
(* good (conversation_webhook.py), link-gate, and the gate's decision      *)
(* (gate_service.py).                                                      *)
(*                                                                         *)
(* A step is a statement that reads or writes rows others write too.  The  *)
(* ORM writes the columns a handler assigned, whatever the row holds by    *)
(* then; only the failures are compare-and-set.                            *)
(***************************************************************************)
EXTENDS Naturals, FiniteSets

CONSTANTS
    Messages,  \* client_message_ids, each at most one task
    Senders,   \* SendMessage requests: a client's first try and its retries
    Pollers,   \* GetTask requests and ticks of streams
    Sweeps,    \* runs of the deadline sweep
    Channels   \* the member's webhooks, in the order they are found

ASSUME ActorsAreDistinct ==
    /\ Senders \cap Pollers = {}
ASSUME ChannelsAreOrdered == Channels \subseteq Nat

VARIABLES
    state,       \* a2a_tasks.state, "none" before the INSERT
    artifacts,   \* kinds of the artifacts on the row
    linked,      \* tasks with task_metadata.linked_gate_id
    gate,        \* status of the gate that blocks the task
    replied,     \* tasks with a reply in the thread of their root message
    late,        \* tasks past their deadline_at
    delivery,    \* status of the ConversationWebhookDelivery rows
    belated,     \* history: rows made when their task, within its deadline,
                 \* was already to be failed
    sent,        \* how often the task was dispatched to the member
    pc,          \* where senders and pollers are
    task,        \* the task each of them works on
    batch,       \* candidates a sweep has selected and not yet handled
    linking,     \* tasks for which link-gate has passed its checks
    resolving    \* what transition_gate has found, before its commit

row == <<state, artifacts, linked>>
deliveries == <<delivery, belated>>
world == <<gate, replied, late, deliveries, sent>>
actors == <<pc, task, batch, linking, resolving>>
vars == <<row, world, actors>>

States == {"none", "WORKING", "WAITING", "COMPLETED", "FAILED", "REJECTED"}
DeliveryStates == {"none", "posted", "accepted", "closing", "closingAll", "failed"}
SenderPcs == {"new", "inserting", "dispatching", "posting", "stamping", "done"}
PollerPcs == {"idle", "gate", "park", "thread", "complete", "judge", "fail"}

Init ==
    /\ state = [m \in Messages |-> "none"]
    /\ artifacts = [m \in Messages |-> {}]
    /\ linked = {} /\ replied = {} /\ late = {} /\ linking = {}
    /\ gate = [m \in Messages |-> "none"]
    /\ delivery = [m \in Messages |-> [c \in Channels |-> "none"]]
    /\ belated = [m \in Messages |-> {}]
    /\ sent = [m \in Messages |-> 0]
    /\ pc = [a \in Senders \cup Pollers |-> IF a \in Senders THEN "new" ELSE "idle"]
    /\ task \in [Senders \cup Pollers -> Messages]
    /\ batch = [s \in Sweeps |-> {}]
    /\ resolving = [m \in Messages |-> "no"]

Jumps(a, l) == pc' = [pc EXCEPT ![a] = l]

\* Mutant: the failure is written without comparing the state.
FailAnyway(m) ==
    /\ state' = [state EXCEPT ![m] = "FAILED"]
    /\ artifacts' = [artifacts EXCEPT ![m] = @ \cup {"failure"}]

\* fail_task_if_still_working: UPDATE ... WHERE state = 'TASK_STATE_WORKING'.
FailIfStillWorking(m) ==
    IF state[m] = "WORKING"
    THEN /\ state' = [state EXCEPT ![m] = "FAILED"]
         /\ artifacts' = [artifacts EXCEPT ![m] = @ \cup {"failure"}]
    ELSE UNCHANGED <<state, artifacts>>

Rows(m) == {c \in Channels : delivery[m][c] # "none"}
\* Mutant: one webhook that gave up is enough.
AnyFailed(m) == \E c \in Rows(m) : delivery[m][c] = "failed"

\* deliveries and all(d.status == "failed")
AllFailed(m) == Rows(m) # {} /\ \A c \in Rows(m) : delivery[m][c] = "failed"

-----------------------------------------------------------------------------
(* _handle_send_message *)

\* Mutant: a replayed request goes on with the task it has found.
BeginSendAndGoOn(q) ==
    /\ pc[q] = "new"
    /\ \A r \in Senders : ~ (pc[r] = "inserting" /\ task[r] = task[q])
    /\ Jumps(q, IF state[task[q]] = "none" THEN "inserting" ELSE "dispatching")
    /\ UNCHANGED <<row, world, task, batch, linking, resolving>>

\* The advisory lock, held to the commit of the INSERT, and the second look.
BeginSend(q) ==
    /\ pc[q] = "new"
    /\ \A r \in Senders : ~ (pc[r] = "inserting" /\ task[r] = task[q])
    /\ Jumps(q, IF state[task[q]] = "none" THEN "inserting" ELSE "done")
    /\ UNCHANGED <<row, world, task, batch, linking, resolving>>

\* Mutant: the state is left to the column's default.
InsertSubmitted(q) ==
    /\ pc[q] = "inserting"
    /\ state' = [state EXCEPT ![task[q]] = IF @ = "none" THEN "SUBMITTED" ELSE @]
    /\ Jumps(q, "dispatching")
    /\ UNCHANGED <<artifacts, linked, world, task, batch, linking, resolving>>

\* Conversation, message and task in one commit.  The UNIQUE index would turn
\* a second task into the answer of the first.
InsertTask(q) ==
    /\ pc[q] = "inserting"
    /\ IF state[task[q]] = "none"
       THEN state' = [state EXCEPT ![task[q]] = "WORKING"] /\ Jumps(q, "dispatching")
       ELSE UNCHANGED state /\ Jumps(q, "done")
    /\ UNCHANGED <<artifacts, linked, world, task, batch, linking, resolving>>

\* To the webhooks, if the member has any, or as an event.
Dispatch(q) ==
    /\ pc[q] = "dispatching"
    /\ sent' = [sent EXCEPT ![task[q]] = @ + 1]
    /\ \/ Channels # {} /\ Jumps(q, "posting")
       \/ Jumps(q, "stamping")
    /\ UNCHANGED <<row, gate, replied, late, deliveries, task, batch, linking, resolving>>

\* Whoever decided to fail the task has looked at its rows before.
FailureDecided(m) ==
    \/ state[m] = "FAILED"
    \/ \E p \in Pollers : pc[p] = "fail" /\ task[p] = m
    \/ \E c \in Channels : delivery[m][c] = "closingAll"

\* One row and one retry loop for each webhook, in turn.
PostWebhook(q, c) ==
    /\ pc[q] = "posting"
    /\ delivery[task[q]][c] = "none"
    /\ \A d \in Channels : d < c => d \in Rows(task[q])
    /\ delivery' = [delivery EXCEPT ![task[q]][c] = "posted"]
    /\ belated' = [belated EXCEPT ![task[q]] =
                      IF FailureDecided(task[q]) /\ task[q] \notin late
                      THEN @ \cup {c} ELSE @]
    /\ Jumps(q, IF Rows(task[q]) \cup {c} = Channels THEN "done" ELSE "posting")
    /\ UNCHANGED <<row, gate, replied, late, sent, task, batch, linking, resolving>>

\* connected_at_send goes into the metadata the request made, and the row's
\* metadata, a link included, is replaced by that.
StampMetadata(q) ==
    /\ pc[q] = "stamping"
    /\ linked' = linked \ {task[q]}
    /\ Jumps(q, "done")
    /\ UNCHANGED <<state, artifacts, world, task, batch, linking, resolving>>

\* The process dies or the request runs into its time limit; an open
\* transaction is rolled back.
SenderDies(q) ==
    /\ pc[q] \notin {"new", "done"}
    /\ Jumps(q, "done")
    /\ UNCHANGED <<row, world, task, batch, linking, resolving>>

-----------------------------------------------------------------------------
(* _advance_task_state *)

\* GetTask's SELECT.  The copy is WORKING from here on.
ReadTask(p, m) ==
    /\ pc[p] = "idle"
    /\ state[m] = "WORKING"
    /\ Jumps(p, IF m \in linked THEN "gate" ELSE "thread")
    /\ task' = [task EXCEPT ![p] = m]
    /\ UNCHANGED <<row, world, batch, linking, resolving>>

ReadGate(p) ==
    /\ pc[p] = "gate"
    /\ Jumps(p, IF gate[task[p]] = "pending" THEN "park" ELSE "thread")
    /\ UNCHANGED <<row, world, task, batch, linking, resolving>>

\* INPUT_REQUIRED or AUTH_REQUIRED.
Park(p) ==
    /\ pc[p] = "park"
    /\ state' = [state EXCEPT ![task[p]] = "WAITING"]
    /\ Jumps(p, "idle")
    /\ UNCHANGED <<artifacts, linked, world, task, batch, linking, resolving>>

ReadThread(p) ==
    /\ pc[p] = "thread"
    /\ Jumps(p, IF task[p] \in replied THEN "complete" ELSE "judge")
    /\ UNCHANGED <<row, world, task, batch, linking, resolving>>

\* Mutant: the reply is appended, as the failures are.
CompleteAppending(p) ==
    /\ pc[p] = "complete"
    /\ state' = [state EXCEPT ![task[p]] = "COMPLETED"]
    /\ artifacts' = [artifacts EXCEPT ![task[p]] = @ \cup {"reply"}]
    /\ Jumps(p, "idle")
    /\ UNCHANGED <<linked, world, task, batch, linking, resolving>>

\* The list of artifacts is replaced by the reply.
Complete(p) ==
    /\ pc[p] = "complete"
    /\ state' = [state EXCEPT ![task[p]] = "COMPLETED"]
    /\ artifacts' = [artifacts EXCEPT ![task[p]] = {"reply"}]
    /\ Jumps(p, "idle")
    /\ UNCHANGED <<linked, world, task, batch, linking, resolving>>

\* No reply: every delivery failed, or the deadline has passed?
Judge(p) ==
    /\ pc[p] = "judge"
    /\ Jumps(p, IF AllFailed(task[p]) \/ task[p] \in late THEN "fail" ELSE "idle")
    /\ UNCHANGED <<row, world, task, batch, linking, resolving>>

FailByPoll(p) ==
    /\ pc[p] = "fail"
    /\ FailIfStillWorking(task[p])
    /\ Jumps(p, "idle")
    /\ UNCHANGED <<linked, world, task, batch, linking, resolving>>

\* The request runs into its time limit, the stream's client goes away.
PollEnds(p) ==
    /\ pc[p] # "idle"
    /\ Jumps(p, "idle")
    /\ UNCHANGED <<row, world, task, batch, linking, resolving>>

-----------------------------------------------------------------------------
(* sweep_expired_a2a_tasks *)

\* Mutant: a task that has been linked to a gate is left to the gate.
SelectUnlinked(s) ==
    LET expired == {m \in late \ linked : state[m] = "WORKING"} IN
    /\ batch[s] = {}
    /\ expired # {}
    /\ batch' = [batch EXCEPT ![s] = expired]
    /\ UNCHANGED <<row, world, pc, task, linking, resolving>>

SelectExpired(s) ==
    LET expired == {m \in Messages : state[m] = "WORKING" /\ m \in late} IN
    /\ batch[s] = {}
    /\ expired # {}
    /\ batch' = [batch EXCEPT ![s] = expired]
    /\ UNCHANGED <<row, world, pc, task, linking, resolving>>

\* The compare-and-set of one candidate finds it no longer WORKING.
SkipEnded(s, m) ==
    /\ m \in batch[s] /\ state[m] # "WORKING"
    /\ batch' = [batch EXCEPT ![s] = @ \ {m}]
    /\ UNCHANGED <<row, world, pc, task, linking, resolving>>

\* One commit for the rest, whose rows are locked from their UPDATE on.
FailBySweep(s) ==
    /\ batch[s] # {}
    /\ \A m \in batch[s] : state[m] = "WORKING"
    /\ state' = [m \in Messages |-> IF m \in batch[s] THEN "FAILED" ELSE state[m]]
    /\ artifacts' = [m \in Messages |->
                        artifacts[m] \cup IF m \in batch[s] THEN {"failure"} ELSE {}]
    /\ batch' = [batch EXCEPT ![s] = {}]
    /\ UNCHANGED <<linked, world, pc, task, linking, resolving>>

\* Before it, and everything is rolled back.
SweepDies(s) ==
    /\ batch[s] # {}
    /\ batch' = [batch EXCEPT ![s] = {}]
    /\ UNCHANGED <<row, world, pc, task, linking, resolving>>

-----------------------------------------------------------------------------
(* _retry_deliver and _update_delivery_status *)

WebhookAccepted(m, c) ==
    /\ delivery[m][c] = "posted"
    /\ delivery' = [delivery EXCEPT ![m][c] = "accepted"]
    /\ UNCHANGED <<row, gate, replied, late, belated, sent, actors>>

\* The transaction that marks a row failed looks at the task and at the other
\* rows; it does not see what is not committed.
BeginDeliveryFailed(m, c) ==
    /\ delivery[m][c] = "posted"
    /\ delivery' = [delivery EXCEPT ![m][c] =
            IF /\ state[m] = "WORKING"
               /\ \A d \in Rows(m) \ {c} : delivery[m][d] = "failed"
            THEN "closingAll" ELSE "closing"]
    /\ UNCHANGED <<row, gate, replied, late, belated, sent, actors>>

EndDeliveryFailed(m, c) ==
    /\ delivery[m][c] \in {"closing", "closingAll"}
    /\ IF delivery[m][c] = "closingAll" THEN FailIfStillWorking(m)
                                        ELSE UNCHANGED <<state, artifacts>>
    /\ delivery' = [delivery EXCEPT ![m][c] = "failed"]
    /\ UNCHANGED <<linked, gate, replied, late, belated, sent, actors>>

-----------------------------------------------------------------------------
(* link_gate_to_task and transition_gate *)

BeginLink(m) ==
    /\ state[m] = "WORKING"
    /\ gate[m] # "none"
    /\ linking' = linking \cup {m}
    /\ UNCHANGED <<row, world, pc, task, batch, resolving>>

EndLink(m) ==
    /\ m \in linking
    /\ linking' = linking \ {m}
    /\ linked' = linked \cup {m}
    /\ UNCHANGED <<state, artifacts, world, pc, task, batch, resolving>>

\* transition_gate and, in its transaction, the SELECT of
\* _resume_a2a_task_on_gate_resolve.
BeginResolve(m) ==
    /\ gate[m] = "pending" /\ resolving[m] = "no"
    /\ resolving' = [resolving EXCEPT ![m] =
            IF m \in linked /\ state[m] = "WAITING" THEN "parked" ELSE "nothing"]
    /\ UNCHANGED <<row, world, pc, task, batch, linking>>

EndResolve(m, verdict) ==
    /\ resolving[m] # "no"
    /\ gate' = [gate EXCEPT ![m] = verdict]
    /\ state' = [state EXCEPT ![m] =
            IF resolving[m] = "nothing" THEN @
            ELSE IF verdict = "approved" THEN "WORKING" ELSE "REJECTED"]
    /\ resolving' = [resolving EXCEPT ![m] = "no"]
    /\ UNCHANGED <<artifacts, linked, replied, late, deliveries, sent, pc, task, batch, linking>>

-----------------------------------------------------------------------------
(* The member and the clock *)

\* The member, who has the task, asks for an approval.
CreateGate(m) ==
    /\ sent[m] > 0 /\ gate[m] = "none"
    /\ gate' = [gate EXCEPT ![m] = "pending"]
    /\ UNCHANGED <<row, replied, late, deliveries, sent, actors>>

Reply(m) ==
    /\ sent[m] > 0 /\ m \notin replied
    /\ replied' = replied \cup {m}
    /\ UNCHANGED <<row, gate, late, deliveries, sent, actors>>

DeadlinePasses(m) ==
    /\ state[m] # "none" /\ m \notin late
    /\ late' = late \cup {m}
    /\ UNCHANGED <<row, gate, replied, deliveries, sent, actors>>

-----------------------------------------------------------------------------
SendStep(q) ==
    \/ BeginSend(q)
    \/ InsertTask(q)
    \/ Dispatch(q)
    \/ \E c \in Channels : PostWebhook(q, c)
    \/ StampMetadata(q)
    \/ SenderDies(q)

PollStep(p) ==
    \/ \E m \in Messages : ReadTask(p, m)
    \/ ReadGate(p)
    \/ Park(p)
    \/ ReadThread(p)
    \/ Complete(p)
    \/ Judge(p)
    \/ FailByPoll(p)
    \/ PollEnds(p)

SweepStep(s) ==
    \/ SelectExpired(s)
    \/ \E m \in Messages : SkipEnded(s, m)
    \/ FailBySweep(s)

DeliveryStep(m, c) ==
    \/ WebhookAccepted(m, c)
    \/ BeginDeliveryFailed(m, c)
    \/ EndDeliveryFailed(m, c)

GateStep(m) ==
    \/ BeginLink(m)
    \/ EndLink(m)
    \/ BeginResolve(m)
    \/ \E v \in {"approved", "rejected"} : EndResolve(m, v)

WorldStep(m) == CreateGate(m) \/ Reply(m) \/ DeadlinePasses(m)

Next ==
    \/ \E q \in Senders : SendStep(q)
    \/ \E p \in Pollers : PollStep(p)
    \/ \E s \in Sweeps : SweepStep(s) \/ SweepDies(s)
    \/ \E m \in Messages : GateStep(m) \/ WorldStep(m)
    \/ \E m \in Messages, c \in Channels : DeliveryStep(m, c)

Spec == Init /\ [][Next]_vars

\* Time passes and the sweep runs every few minutes; not every run dies before
\* its commit.  Nobody has to poll.
Fairness ==
    /\ \A m \in Messages : WF_vars(DeadlinePasses(m))
    /\ \A s \in Sweeps : WF_vars(SweepStep(s)) /\ SF_vars(FailBySweep(s))

FairSpec == Spec /\ Fairness

-----------------------------------------------------------------------------
\* The rows, and where every request is.
TypeOK ==
    /\ state \in [Messages -> States]
    /\ artifacts \in [Messages -> SUBSET {"reply", "failure"}]
    /\ linked \in SUBSET Messages /\ replied \in SUBSET Messages
    /\ late \in SUBSET Messages /\ linking \in SUBSET Messages
    /\ gate \in [Messages -> {"none", "pending", "approved", "rejected"}]
    /\ delivery \in [Messages -> [Channels -> DeliveryStates]]
    /\ belated \in [Messages -> SUBSET Channels]
    /\ sent \in [Messages -> Nat]
    /\ pc \in [Senders \cup Pollers -> SenderPcs \cup PollerPcs]
    /\ task \in [Senders \cup Pollers -> Messages]
    /\ batch \in [Sweeps -> SUBSET Messages]
    /\ resolving \in [Messages -> {"no", "nothing", "parked"}]

\* A message, however often it is sent and wherever a request dies, makes the
\* member do its work once.
DispatchedOnce == \A m \in Messages : sent[m] <= 1

\* What a caller is shown of a finished task is its own: a completed task has
\* the reply as its only artifact, also when it was failed before, and a failed
\* one has the reason.
ArtifactsMatchState ==
    \A m \in Messages :
        /\ state[m] = "COMPLETED" => artifacts[m] = {"reply"} /\ m \in replied
        /\ state[m] = "FAILED" => "failure" \in artifacts[m]

\* The rows that were there when the failure of their task was decided.
Known(m) == Rows(m) \ belated[m]

\* Before its deadline a task is failed only if every webhook gave up that had a
\* row when that was decided: one that failed, while another has the message or
\* is still at it, fails no task, whatever the three writers had read before.
FailureHasCause ==
    \A m \in Messages :
        state[m] = "FAILED" =>
            \/ m \in late
            \/ Known(m) # {} /\ \A c \in Known(m) : delivery[m][c] = "failed"

\* The step from the read of a WORKING task to its failure never replaces a
\* completion that came in between.
CompletedNotFailed ==
    [][\A m \in Messages : state[m] = "COMPLETED" => state'[m] # "FAILED"]_vars

\* Without anyone polling, no task stays WORKING: neither one whose dispatch was
\* lost, nor one whose gate sent it back to work after its deadline.
WorkingEnds == \A m \in Messages : state[m] = "WORKING" ~> state[m] # "WORKING"
=============================================================================
