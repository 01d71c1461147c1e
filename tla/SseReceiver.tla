---------------------------- MODULE SseReceiver -----------------------------
(***************************************************************************)
(* Who receives an agent's stream (routers/agent_gateway.py) when its key  *)
(* is a setup key, which allows one receiver: the lease of the agent's     *)
(* scope in Redis or Postgres (sse_lease.py, sse_lease_pg.py), the         *)
(* take-over mark beside it, and the connections each instance knows of.   *)
(*                                                                         *)
(* A step ends where the code waits for the lease store.  Calls the store  *)
(* does not answer, refusals at the global cap, heartbeats that come too   *)
(* late and instances that die are faults.                                 *)
(***************************************************************************)
EXTENDS Naturals, FiniteSets

CONSTANTS
    Streams,    \* connections, each used again and again
    Receivers,  \* installs, as X-Sprintable-Receiver-Id names them
    Instances,  \* backend instances
    Limit,      \* the plan's streams per key, for when the store is down
    MaxFaults,  \* bound on faults
    None        \* no stream, no mark, no instance

ASSUME NoneIsNone == None \notin Streams \cup Receivers \cup Instances
ASSUME SizesAssumption ==
    Limit \in Nat /\ MaxFaults \in Nat /\ IsFiniteSet(Receivers)

VARIABLES
    at,         \* the instance and the receiver of a stream
    lease,      \* members of the scope whose lease has not lapsed
    revived,    \* history: those of them a refresh put back beside another
    mark,       \* the member a take-over gave the scope to
    conns,      \* streams in _agent_connections, of any instance
    slot,       \* _receiver_streams of each instance
    pc,         \* where a stream is
    prev,       \* the earlier stream of its receiver that it will replace
    doomed,     \* the members it has still to release
    took,       \* streams that took over
    signalled,  \* streams told to end as superseded
    unread,     \* history: streams that have not read the mark
    exposed,    \* history: streams whose place was lost while they had it
    faults      \* faults so far

places == <<lease, revived>>
store == <<places, mark>>
local == <<conns, slot, signalled>>
streams == <<pc, at, prev, doomed, took, unread, exposed>>
vars == <<store, local, streams, faults>>

Pcs == {"off", "checking", "releasing", "acquiring", "opening", "open",
        "beating", "ending", "leaving"}
\* The stream holds a place, or believes that it does.
Holding == {s \in Streams : pc[s] \in {"opening", "open", "beating"}}
Open == {s \in Streams : pc[s] \in {"open", "beating"}}

InstOf(s) == at[s][1]
RcvOf(s) == at[s][2]
Nowhere == <<None, None>>

Init ==
    /\ lease = {} /\ revived = {} /\ mark = None
    /\ conns = {} /\ signalled = {}
    /\ slot = [i \in Instances |-> [r \in Receivers |-> None]]
    /\ pc = [s \in Streams |-> "off"]
    /\ at = [s \in Streams |-> Nowhere]
    /\ prev = [s \in Streams |-> None]
    /\ doomed = [s \in Streams |-> {}]
    /\ took = {} /\ unread = {} /\ exposed = {}
    /\ faults = 0

Jumps(s, l) == pc' = [pc EXCEPT ![s] = l]
\* The request is answered and its queue forgotten.
Quits(s) ==
    /\ Jumps(s, "off")
    /\ at' = [at EXCEPT ![s] = Nowhere]
    /\ prev' = [u \in Streams |-> IF s \in {u, prev[u]} THEN None ELSE prev[u]]
    /\ took' = took \ {s}
    /\ exposed' = exposed \ {s}
Fault == faults < MaxFaults /\ faults' = faults + 1

\* _owns_receiver_slot
Owns(s) == slot[InstOf(s)][RcvOf(s)] = s
HereBut(s) == {u \in conns : InstOf(u) = InstOf(s)} \ {prev[s]}

\* The slots of streams in S are emptied.
WithoutSlots(S) ==
    [i \in Instances |-> [r \in Receivers |->
        IF slot[i][r] \in S THEN None ELSE slot[i][r]]]

\* The members in R leave the lease, under the streams that still hold it.
Drops(R) ==
    /\ lease' = lease \ R
    /\ revived' = IF \E r \in Receivers : lease' \subseteq {r} THEN {} ELSE revived \ R
    /\ exposed' = exposed \cup {u \in Holding : RcvOf(u) \in R}

-----------------------------------------------------------------------------
(* agent_stream, up to its first byte *)

Connect(s, i, r) ==
    /\ pc[s] = "off"
    /\ at' = [at EXCEPT ![s] = <<i, r>>]
    /\ prev' = [prev EXCEPT ![s] = slot[i][r]]
    /\ Jumps(s, "checking")
    /\ UNCHANGED <<store, local, doomed, took, unread, exposed, faults>>

\* The streams in H, of this instance, end now.
TakeOverHere(s, H) ==
    /\ conns' = conns \ H
    /\ slot' = WithoutSlots(H)
    /\ signalled' = signalled \cup H
    /\ took' = took \cup {s}

\* The others on this instance; if there were none before members() was
\* awaited, the empty default is all the request goes on to see.
LocalOthers(s) == {{}, HereBut(s)}

\* members() has answered: nobody else; or others, and the request asks to take
\* over or is refused with 409 another_receiver.
Check(s) ==
    /\ pc[s] = "checking"
    /\ \/ /\ lease \subseteq {RcvOf(s)}
          /\ Jumps(s, "acquiring")
          /\ UNCHANGED <<local, at, prev, doomed, took, exposed>>
       \/ /\ ~ (lease \subseteq {RcvOf(s)})
          /\ \E H \in LocalOthers(s) : TakeOverHere(s, H)
          /\ doomed' = [doomed EXCEPT ![s] = lease \ {RcvOf(s)}]
          /\ Jumps(s, "releasing")
          /\ UNCHANGED <<at, prev, exposed>>
       \/ /\ ~ (lease \subseteq {RcvOf(s)})
          /\ Quits(s)
          /\ UNCHANGED <<local, doomed>>
    /\ UNCHANGED <<store, unread, faults>>

\* members() gave None: the streams of this instance are all there is to see.
CheckBlind(s) ==
    /\ pc[s] = "checking"
    /\ Fault
    /\ \E H \in LocalOthers(s) :
        \/ H = {} /\ Jumps(s, "acquiring") /\ UNCHANGED <<local, at, prev, took, exposed>>
        \/ H # {} /\ TakeOverHere(s, H) /\ Jumps(s, "acquiring") /\ UNCHANGED <<at, prev, exposed>>
        \/ H # {} /\ Quits(s) /\ UNCHANGED local
    /\ UNCHANGED <<store, doomed, unread>>

ReleaseOther(s, m) ==
    /\ pc[s] = "releasing" /\ m \in doomed[s]
    /\ doomed' = [doomed EXCEPT ![s] = @ \ {m}]
    /\ \/ Drops({m}) /\ UNCHANGED faults
       \/ Fault /\ UNCHANGED <<places, exposed>>
    /\ UNCHANGED <<mark, local, pc, at, prev, took, unread>>

MarkTaken(s) ==
    /\ pc[s] = "releasing" /\ doomed[s] = {}
    /\ \/ mark' = RcvOf(s) /\ unread' = Open /\ UNCHANGED faults
       \/ Fault /\ UNCHANGED <<mark, unread>>
    /\ Jumps(s, "acquiring")
    /\ UNCHANGED <<places, local, at, prev, doomed, took, exposed>>

\* The place is its receiver's already, whoever else has one; or there is one
\* left; or 409.
AcquireUpTo(s, limit) ==
    /\ pc[s] = "acquiring"
    /\ IF RcvOf(s) \in lease \/ Cardinality(lease) < limit
       THEN /\ lease' = lease \cup {RcvOf(s)}
            /\ Jumps(s, "opening")
            /\ UNCHANGED <<at, prev, took, exposed>>
       ELSE UNCHANGED lease /\ Quits(s)
    /\ UNCHANGED <<revived, mark, local, doomed, unread, faults>>

\* Mutant: the count is compared with <=.
AcquireOneMore(s) == AcquireUpTo(s, 2)

\* One atomic step of the store; a setup key is one place.
Acquire(s) == AcquireUpTo(s, 1)

\* acquire() gave None: the count of this instance against the plan's limit.
AcquireBlind(s) ==
    /\ pc[s] = "acquiring"
    /\ Fault
    /\ IF Cardinality(HereBut(s)) < Limit
       THEN /\ Jumps(s, "opening") /\ exposed' = exposed \cup {s}
            /\ UNCHANGED <<at, prev, took>>
       ELSE Quits(s)
    /\ UNCHANGED <<store, local, doomed, unread>>

\* The earlier stream of the receiver is handed over.
OpenStream(s) ==
    /\ pc[s] = "opening"
    /\ conns' = (conns \ {prev[s]}) \cup {s}
    /\ slot' = [slot EXCEPT ![InstOf(s)][RcvOf(s)] = s]
    /\ signalled' = signalled \cup ({prev[s]} \ {None})
    /\ unread' = unread \cup {s}
    /\ prev' = [prev EXCEPT ![s] = None]
    /\ Jumps(s, "open")
    /\ UNCHANGED <<store, at, doomed, took, exposed, faults>>

\* 503 at the global cap.  The place may be the earlier stream's: it stays.
RefuseGlobal(s) ==
    /\ pc[s] = "opening"
    /\ Fault
    /\ Quits(s)
    /\ UNCHANGED <<store, local, doomed, unread>>

-----------------------------------------------------------------------------
(* The stream's heartbeat *)

\* Mutant: the taker does not read the mark that it set.
BeatReadUnlessTaker(s) ==
    /\ pc[s] = "open" /\ s \notin signalled
    /\ Owns(s)
    /\ unread' = unread \ {s}
    /\ IF mark \notin {None, RcvOf(s)} /\ s \notin took
       THEN signalled' = signalled \cup {s} /\ UNCHANGED pc
       ELSE Jumps(s, "beating") /\ UNCHANGED signalled
    /\ UNCHANGED <<store, conns, slot, at, prev, doomed, took, exposed, faults>>

\* taken_by() has answered; a stream that is no longer its receiver's does not
\* look.
BeatRead(s) ==
    /\ pc[s] = "open" /\ s \notin signalled
    /\ Owns(s)
    /\ unread' = unread \ {s}
    /\ IF mark \notin {None, RcvOf(s)}
       THEN signalled' = signalled \cup {s} /\ UNCHANGED pc
       ELSE Jumps(s, "beating") /\ UNCHANGED signalled
    /\ UNCHANGED <<store, conns, slot, at, prev, doomed, took, exposed, faults>>

\* taken_by() gave None for want of an answer.
BeatBlind(s) ==
    /\ pc[s] = "open" /\ s \notin signalled
    /\ Owns(s)
    /\ Fault
    /\ Jumps(s, "beating")
    /\ UNCHANGED <<store, local, at, prev, doomed, took, unread, exposed>>

\* ZADD, or the upsert: a place that was gone is there again, whoever has come
\* into the lease since.
BeatRefresh(s) ==
    /\ pc[s] = "beating"
    /\ \/ /\ lease' = lease \cup {RcvOf(s)}
          /\ revived' = IF lease \in {{}, lease'} THEN revived ELSE revived \cup {RcvOf(s)}
          /\ UNCHANGED faults
       \/ Fault /\ UNCHANGED places
    /\ Jumps(s, "open")
    /\ UNCHANGED <<mark, local, at, prev, doomed, took, unread, exposed>>

-----------------------------------------------------------------------------
(* _end_connection *)

\* Superseded, at the end of its lifespan, or the client has gone.
EndStream(s) ==
    /\ pc[s] = "open"
    /\ Jumps(s, IF Owns(s) THEN "ending" ELSE "leaving")
    /\ UNCHANGED <<store, local, at, prev, doomed, took, unread, exposed, faults>>

\* Mutant: the receiver's slot stays with the stream that ends.
ReleaseKeepsSlot(s) ==
    /\ pc[s] = "ending"
    /\ \/ Drops({RcvOf(s)}) /\ UNCHANGED faults
       \/ Fault /\ UNCHANGED <<places, exposed>>
    /\ Jumps(s, "leaving")
    /\ UNCHANGED <<mark, local, at, prev, doomed, took, unread>>

\* The lease is released for the receiver, and the slot given up if it is
\* still this stream's.
ReleaseOwn(s) ==
    /\ pc[s] = "ending"
    /\ \/ Drops({RcvOf(s)}) /\ UNCHANGED faults
       \/ Fault /\ UNCHANGED <<places, exposed>>
    /\ slot' = WithoutSlots({s})
    /\ Jumps(s, "leaving")
    /\ UNCHANGED <<mark, conns, signalled, at, prev, doomed, took, unread>>

\* clear_taken compares and deletes in one step.
Leave(s) ==
    /\ pc[s] = "leaving"
    /\ \/ mark' = (IF s \in took /\ mark = RcvOf(s) THEN None ELSE mark) /\ UNCHANGED faults
       \/ Fault /\ s \in took /\ UNCHANGED mark
    /\ conns' = conns \ {s}
    /\ signalled' = signalled \ {s} /\ unread' = unread \ {s}
    /\ Quits(s)
    /\ UNCHANGED <<places, slot, doomed>>

-----------------------------------------------------------------------------
(* Time and crashes *)

Refreshed(r) == \E s \in Holding : RcvOf(s) = r /\ (pc[s] = "opening" \/ Owns(s))

\* Mutant: only the places of streams that are there are evicted.
LapseIfThere(r) ==
    /\ r \in lease /\ ~ Refreshed(r)
    /\ \E s \in Streams : RcvOf(s) = r /\ pc[s] = "leaving"
    /\ Drops({r})
    /\ UNCHANGED <<mark, local, pc, at, prev, doomed, took, unread, faults>>

\* A lease that nobody refreshes lapses and is evicted by the next call.
Lapse(r) ==
    /\ r \in lease /\ ~ Refreshed(r)
    /\ Drops({r})
    /\ UNCHANGED <<mark, local, pc, at, prev, doomed, took, unread, faults>>

\* Heartbeats that are three times too slow, or stopped by the freshness gate.
Stall(r) ==
    /\ r \in lease /\ Refreshed(r)
    /\ Fault
    /\ Drops({r})
    /\ UNCHANGED <<mark, local, pc, at, prev, doomed, took, unread>>

\* No heartbeat renews the mark.
MarkLapses ==
    /\ mark # None
    /\ mark' = None
    /\ UNCHANGED <<places, local, streams, faults>>

Crash(i) ==
    LET gone == {s \in Streams : InstOf(s) = i} IN
    /\ Fault
    /\ pc' = [s \in Streams |-> IF s \in gone THEN "off" ELSE pc[s]]
    /\ at' = [s \in Streams |-> IF s \in gone THEN Nowhere ELSE at[s]]
    /\ prev' = [s \in Streams |-> IF s \in gone THEN None ELSE prev[s]]
    /\ doomed' = [s \in Streams |-> IF s \in gone THEN {} ELSE doomed[s]]
    /\ conns' = conns \ gone
    /\ slot' = [slot EXCEPT ![i] = [r \in Receivers |-> None]]
    /\ signalled' = signalled \ gone /\ took' = took \ gone
    /\ unread' = unread \ gone /\ exposed' = exposed \ gone
    /\ UNCHANGED store

-----------------------------------------------------------------------------
\* What an instance that is up goes on with.
Step(s) ==
    \/ Check(s)
    \/ \E m \in Receivers : ReleaseOther(s, m)
    \/ MarkTaken(s)
    \/ Acquire(s)
    \/ OpenStream(s)
    \/ BeatRefresh(s)
    \/ ReleaseOwn(s)
    \/ Leave(s)

Next ==
    \/ \E s \in Streams : \/ Step(s) \/ BeatRead(s) \/ EndStream(s)
                          \/ BeatBlind(s) \/ CheckBlind(s) \/ AcquireBlind(s) \/ RefuseGlobal(s)
    \/ \E r \in Receivers : Lapse(r) \/ Stall(r)
    \/ \E s \in Streams, i \in Instances, r \in Receivers : Connect(s, i, r)
    \/ \E i \in Instances : Crash(i)
    \/ MarkLapses

Spec == Init /\ [][Next]_vars

\* Streams beat, end and are cleaned up after; leases and marks lapse.
Fairness ==
    /\ \A s \in Streams : WF_vars(Step(s)) /\ WF_vars(EndStream(s))
    /\ \A r \in Receivers : WF_vars(Lapse(r))
    /\ WF_vars(MarkLapses)

FairSpec == Spec /\ Fairness

-----------------------------------------------------------------------------
\* Every stream is somewhere, and _receiver_streams of an instance holds its own
\* streams, each until it gives the slot up.
TypeOK ==
    /\ at \in [Streams -> (Instances \X Receivers) \cup {Nowhere}]
    /\ pc \in [Streams -> Pcs]
    /\ \A s \in Streams : at[s] = Nowhere <=> pc[s] = "off"
    /\ lease \subseteq Receivers /\ revived \subseteq lease
    /\ mark \in Receivers \cup {None}
    /\ conns \subseteq Streams
    /\ signalled \subseteq Streams
    /\ slot \in [Instances -> [Receivers -> Streams \cup {None}]]
    /\ \A i \in Instances, r \in Receivers :
        slot[i][r] # None =>
            /\ at[slot[i][r]] = <<i, r>>
            /\ pc[slot[i][r]] \in {"open", "beating", "ending"}
    /\ prev \in [Streams -> Streams \cup {None}]
    /\ doomed \in [Streams -> SUBSET Receivers]
    /\ took \subseteq Streams
    /\ unread \subseteq Streams
    /\ exposed \subseteq Streams
    /\ faults \in 0 .. MaxFaults

\* A setup key is one receiver.  Two receivers have a stream at once only if one
\* of the streams lost its place while it was open (by a take-over, a lease that
\* lapsed, the release of an older stream of its receiver, or a store that gave no
\* answer), or if one of the receivers has its place back through the heartbeat of
\* a stream that had lost it.  Two connections that race never both get the place.
OneReceiver ==
    \A s, u \in Open :
        RcvOf(s) # RcvOf(u) =>
            s \in exposed \/ u \in exposed \/ {RcvOf(s), RcvOf(u)} \cap revived # {}

\* A heartbeat after a take-over, every stream that is its receiver's is the
\* taker's or has been told to end; also the taker's own, if it was taken back.
TakeoverIsHeard ==
    \A s \in Open :
        mark # None /\ Owns(s) /\ s \notin unread => mark = RcvOf(s) \/ s \in signalled

\* The places of connections that died do not lock a receiver out: when all
\* others are gone for good and it keeps trying, it gets in again and again.
DeadPlaceIsFreed ==
    \A s \in Streams :
        <>[](\A u \in Streams \ {s} : pc[u] = "off") /\ []<>(pc[s] = "checking")
        => []<>(pc[s] = "open")
=============================================================================
