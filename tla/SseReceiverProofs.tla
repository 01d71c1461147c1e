-------------------------- MODULE SseReceiverProofs --------------------------
(***************************************************************************)
(* The safety properties of SseReceiver for any number of streams,         *)
(* receivers and instances.                                                *)
(*                                                                         *)
(* That the acquire is atomic is not enough: a stream keeps on after its   *)
(* place has gone, its heartbeat brings the place back beside another's,   *)
(* and a receiver that has a place is let in whoever else has one.  The    *)
(* strengthening is that a stream which holds a place is in the lease      *)
(* unless it lost the place (PlacesHeld), and that of two places in the    *)
(* lease one was put back by a refresh (PlacesApart).                      *)
(***************************************************************************)
EXTENDS SseReceiver, FiniteSetTheorems, TLAPS

Types ==
    /\ at \in [Streams -> (Instances \X Receivers) \cup {Nowhere}]
    /\ pc \in [Streams -> Pcs]
    /\ \A s \in Streams : at[s] = Nowhere <=> pc[s] = "off"
    /\ lease \subseteq Receivers /\ revived \subseteq lease
    /\ mark \in Receivers \cup {None}
    /\ conns \subseteq Streams
    /\ signalled \subseteq Streams
    /\ slot \in [Instances -> [Receivers -> Streams \cup {None}]]
    /\ prev \in [Streams -> Streams \cup {None}]
    /\ doomed \in [Streams -> SUBSET Receivers]
    /\ took \subseteq Streams
    /\ unread \subseteq Streams
    /\ exposed \subseteq Streams
    /\ faults \in 0 .. MaxFaults

SlotsFit ==
    \A i \in Instances, r \in Receivers :
        slot[i][r] # None =>
            /\ at[slot[i][r]] = <<i, r>>
            /\ pc[slot[i][r]] \in {"open", "beating", "ending"}

PlacesHeld == \A s \in Holding : s \in exposed \/ RcvOf(s) \in lease

PlacesApart == \A r, q \in lease : r # q => {r, q} \cap revived # {}

IInv == Types /\ SlotsFit /\ PlacesHeld /\ PlacesApart /\ TakeoverIsHeard

-----------------------------------------------------------------------------
\* A stream that is connected is somewhere, as somebody.
LEMMA Somewhere ==
    ASSUME Types, NEW s \in Streams, pc[s] # "off"
    PROVE  /\ at[s] = <<InstOf(s), RcvOf(s)>>
           /\ InstOf(s) \in Instances
           /\ RcvOf(s) \in Receivers
  BY DEF Types, InstOf, RcvOf, Nowhere

\* What has been told stays told, while no mark is set and no stream opens.
LEMMA TakeoverKept ==
    ASSUME TakeoverIsHeard,
           UNCHANGED <<mark, slot, signalled, unread>>,
           Open' \subseteq Open,
           \A u \in Open' : at'[u] = at[u]
    PROVE  TakeoverIsHeard'
  BY DEF TakeoverIsHeard, Owns, InstOf, RcvOf

\* The slots are right as long as nothing happens to the streams in them.
LEMMA SlotsKept ==
    ASSUME Types, SlotsFit, UNCHANGED slot,
           \A u \in Streams : pc[u] \in {"open", "beating", "ending"} =>
               at'[u] = at[u] /\ pc'[u] \in {"open", "beating", "ending"}
    PROVE  SlotsFit'
  BY NoneIsNone DEF Types, SlotsFit

LEMMA ConnectStep ==
    ASSUME IInv, NEW s \in Streams, NEW i \in Instances, NEW r \in Receivers, Connect(s, i, r)
    PROVE  IInv'
<1>1. Types'
  BY NoneIsNone, SizesAssumption DEF Connect, Jumps, store, places, local, Types, Pcs, Nowhere, IInv
<1>2. SlotsFit'
  <2>1. /\ UNCHANGED slot
        /\ \A u \in Streams : pc[u] \in {"open", "beating", "ending"} =>
               at'[u] = at[u] /\ pc'[u] \in {"open", "beating", "ending"}
    BY DEF Connect, Jumps, store, places, local, IInv, Types
  <2>2. QED
    BY <2>1, SlotsKept DEF IInv
<1>3. PlacesHeld'
  BY NoneIsNone, SizesAssumption DEF Connect, Jumps, store, places, local, Types, PlacesHeld, Holding, RcvOf, Pcs, IInv
<1>4. PlacesApart'
  BY DEF Connect, store, places, IInv, PlacesApart
<1>5. TakeoverIsHeard'
  BY NoneIsNone, SizesAssumption DEF Connect, Jumps, store, places, local, Types, SlotsFit, TakeoverIsHeard, Open, Owns, InstOf, RcvOf, Nowhere, Pcs, IInv
<1>6. QED
  BY <1>1, <1>2, <1>3, <1>4, <1>5 DEF IInv

LEMMA CheckStep ==
    ASSUME IInv, NEW s \in Streams, Check(s)
    PROVE  IInv'
<1>1. Types'
  BY NoneIsNone, SizesAssumption, SMTT(30) DEF Check, TakeOverHere, LocalOthers, HereBut, WithoutSlots, Quits, Jumps, store, places, local, Types, Pcs, Nowhere, IInv
<1>2. SlotsFit'
  BY NoneIsNone, SizesAssumption DEF Check, TakeOverHere, LocalOthers, HereBut, WithoutSlots, Quits, Jumps, store, places, local, Types, SlotsFit, Nowhere, InstOf, RcvOf, Pcs, IInv
<1>3. PlacesHeld'
  BY NoneIsNone, SizesAssumption DEF Check, TakeOverHere, LocalOthers, HereBut, WithoutSlots, Quits, Jumps, store, places, local, Types, PlacesHeld, Holding, RcvOf, Pcs, IInv
<1>4. PlacesApart'
  BY DEF Check, store, places, IInv, PlacesApart
<1>5. TakeoverIsHeard'
  BY NoneIsNone, SizesAssumption DEF Check, TakeOverHere, LocalOthers, HereBut, WithoutSlots, Quits, Jumps, store, places, local, Types, SlotsFit, TakeoverIsHeard, Open, Owns, InstOf, RcvOf, Nowhere, Pcs, IInv
<1>6. QED
  BY <1>1, <1>2, <1>3, <1>4, <1>5 DEF IInv

LEMMA CheckBlindStep ==
    ASSUME IInv, NEW s \in Streams, CheckBlind(s)
    PROVE  IInv'
<1>1. Types'
  <2>1. faults' \in 0 .. MaxFaults
    BY SizesAssumption DEF CheckBlind, Fault, IInv, Types
  <2>2. PICK H \in LocalOthers(s) :
            \/ H = {} /\ Jumps(s, "acquiring") /\ UNCHANGED <<local, at, prev, took, exposed>>
            \/ H # {} /\ TakeOverHere(s, H) /\ Jumps(s, "acquiring") /\ UNCHANGED <<at, prev, exposed>>
            \/ H # {} /\ Quits(s) /\ UNCHANGED local
    BY DEF CheckBlind
  <2>3. H \subseteq Streams
    BY DEF LocalOthers, HereBut, IInv, Types
  <2>4. CASE H = {} /\ Jumps(s, "acquiring") /\ UNCHANGED <<local, at, prev, took, exposed>>
    BY <2>1, <2>4 DEF CheckBlind, Jumps, store, places, local, IInv, Types, Pcs
  <2>5. CASE H # {} /\ TakeOverHere(s, H) /\ Jumps(s, "acquiring") /\ UNCHANGED <<at, prev, exposed>>
    BY <2>1, <2>3, <2>5 DEF CheckBlind, TakeOverHere, WithoutSlots, Jumps, store, places, IInv, Types, Pcs
  <2>6. CASE H # {} /\ Quits(s) /\ UNCHANGED local
    BY <2>1, <2>6 DEF CheckBlind, Quits, Jumps, store, places, local, IInv, Types, Pcs
  <2>7. QED
    BY <2>2, <2>4, <2>5, <2>6
<1>2. SlotsFit'
  BY NoneIsNone, SizesAssumption DEF CheckBlind, TakeOverHere, LocalOthers, HereBut, WithoutSlots, Quits, Fault, Jumps, store, places, local, Types, SlotsFit, Nowhere, InstOf, RcvOf, Pcs, IInv
<1>3. PlacesHeld'
  BY NoneIsNone, SizesAssumption DEF CheckBlind, TakeOverHere, LocalOthers, HereBut, WithoutSlots, Quits, Fault, Jumps, store, places, local, Types, PlacesHeld, Holding, RcvOf, Pcs, IInv
<1>4. PlacesApart'
  BY DEF CheckBlind, store, places, IInv, PlacesApart
<1>5. TakeoverIsHeard'
  BY NoneIsNone, SizesAssumption DEF CheckBlind, TakeOverHere, LocalOthers, HereBut, WithoutSlots, Quits, Fault, Jumps, store, places, local, Types, SlotsFit, TakeoverIsHeard, Open, Owns, InstOf, RcvOf, Nowhere, Pcs, IInv
<1>6. QED
  BY <1>1, <1>2, <1>3, <1>4, <1>5 DEF IInv

LEMMA ReleaseOtherStep ==
    ASSUME IInv, NEW s \in Streams, NEW m \in Receivers, ReleaseOther(s, m)
    PROVE  IInv'
<1>1. Types'
  BY SizesAssumption DEF ReleaseOther, Drops, Fault, store, places, local, Types, Pcs, Holding, IInv
<1>2. SlotsFit'
  BY NoneIsNone, SizesAssumption DEF ReleaseOther, Drops, Fault, store, places, local, Types, SlotsFit, Nowhere, InstOf, RcvOf, Pcs, IInv
<1>3. PlacesHeld'
  BY NoneIsNone, SizesAssumption DEF ReleaseOther, Drops, Fault, store, places, local, Types, PlacesHeld, Holding, RcvOf, Pcs, IInv
<1>4. PlacesApart'
  BY DEF ReleaseOther, Drops, places, IInv, PlacesApart
<1>5. TakeoverIsHeard'
  BY NoneIsNone, SizesAssumption DEF ReleaseOther, Drops, Fault, store, places, local, Types, SlotsFit, TakeoverIsHeard, Open, Owns, InstOf, RcvOf, Nowhere, Pcs, IInv
<1>6. QED
  BY <1>1, <1>2, <1>3, <1>4, <1>5 DEF IInv

LEMMA MarkTakenStep ==
    ASSUME IInv, NEW s \in Streams, MarkTaken(s)
    PROVE  IInv'
<1>1. Types'
  <2>1. RcvOf(s) \in Receivers
    BY Somewhere DEF IInv, MarkTaken
  <2>2. QED
    BY <2>1, SizesAssumption DEF MarkTaken, Fault, Jumps, store, places, local, Types, Pcs, Open, IInv
<1>2. SlotsFit'
  BY NoneIsNone, SizesAssumption DEF MarkTaken, Fault, Jumps, store, places, local, Types, SlotsFit, Nowhere, InstOf, RcvOf, Pcs, IInv
<1>3. PlacesHeld'
  BY NoneIsNone, SizesAssumption DEF MarkTaken, Fault, Jumps, store, places, local, Types, PlacesHeld, Holding, RcvOf, Pcs, IInv
<1>4. PlacesApart'
  BY DEF MarkTaken, places, IInv, PlacesApart
<1>5. TakeoverIsHeard'
  BY NoneIsNone, SizesAssumption DEF MarkTaken, Fault, Jumps, store, places, local, Types, SlotsFit, TakeoverIsHeard, Open, Owns, InstOf, RcvOf, Nowhere, Pcs, IInv
<1>6. QED
  BY <1>1, <1>2, <1>3, <1>4, <1>5 DEF IInv

LEMMA AcquireStep ==
    ASSUME IInv, NEW s \in Streams, Acquire(s)
    PROVE  IInv'
<1>1. Types'
  <2>1. RcvOf(s) \in Receivers
    BY Somewhere DEF IInv, Acquire, AcquireUpTo
  <2>2. CASE RcvOf(s) \in lease \/ Cardinality(lease) < 1
    BY <2>1, <2>2 DEF Acquire, AcquireUpTo, Jumps, local, IInv, Types, Pcs
  <2>3. CASE ~ (RcvOf(s) \in lease \/ Cardinality(lease) < 1)
    <3>1. Quits(s) /\ UNCHANGED <<lease, revived, mark, local, doomed, unread, faults>>
      BY <2>3 DEF Acquire, AcquireUpTo
    <3>2. QED
      BY <3>1 DEF Quits, Jumps, local, IInv, Types, Pcs
  <2>4. QED
    BY <2>2, <2>3
<1>2. SlotsFit'
  <2>1. /\ UNCHANGED slot
        /\ \A u \in Streams : pc[u] \in {"open", "beating", "ending"} =>
               at'[u] = at[u] /\ pc'[u] \in {"open", "beating", "ending"}
    BY DEF Acquire, AcquireUpTo, Quits, Jumps, local, IInv, Types
  <2>2. QED
    BY <2>1, SlotsKept DEF IInv
<1>3. PlacesHeld'
  BY NoneIsNone, SizesAssumption DEF Acquire, AcquireUpTo, Quits, Jumps, local, Types, PlacesHeld, Holding, RcvOf, Pcs, IInv
<1>4. PlacesApart'
  <2>1. CASE RcvOf(s) \in lease \/ ~ (Cardinality(lease) < 1)
    BY <2>1 DEF Acquire, AcquireUpTo, IInv, PlacesApart
  <2>2. CASE RcvOf(s) \notin lease /\ Cardinality(lease) < 1
    <3>1. lease = {}
      <4>1. IsFiniteSet(lease)
        BY SizesAssumption, FS_Subset DEF IInv, Types
      <4>2. QED
        BY <2>2, <4>1, FS_CardinalityType, FS_EmptySet
    <3>2. QED
      BY <2>2, <3>1 DEF Acquire, AcquireUpTo, PlacesApart
  <2>3. QED
    BY <2>1, <2>2
<1>5. TakeoverIsHeard'
  <2>1. UNCHANGED <<mark, slot, signalled, unread>>
    BY DEF Acquire, AcquireUpTo, Quits, Jumps, local
  <2>2. Open' \subseteq Open /\ \A u \in Open' : at'[u] = at[u]
    BY DEF Acquire, AcquireUpTo, Quits, Jumps, local, IInv, Types, Open
  <2>3. QED
    BY <2>1, <2>2, TakeoverKept DEF IInv
<1>6. QED
  BY <1>1, <1>2, <1>3, <1>4, <1>5 DEF IInv

LEMMA AcquireBlindStep ==
    ASSUME IInv, NEW s \in Streams, AcquireBlind(s)
    PROVE  IInv'
<1>1. Types'
  BY SizesAssumption, SMTT(20) DEF AcquireBlind, Quits, Fault, Jumps, store, places, local, Types, Pcs, Nowhere, IInv
<1>2. SlotsFit'
  <2>1. /\ UNCHANGED slot
        /\ \A u \in Streams : pc[u] \in {"open", "beating", "ending"} =>
               at'[u] = at[u] /\ pc'[u] \in {"open", "beating", "ending"}
    BY DEF AcquireBlind, Quits, Jumps, store, places, local, IInv, Types
  <2>2. QED
    BY <2>1, SlotsKept DEF IInv
<1>3. PlacesHeld'
  BY NoneIsNone, SizesAssumption DEF AcquireBlind, Quits, Fault, Jumps, store, places, local, Types, PlacesHeld, Holding, RcvOf, Pcs, IInv
<1>4. PlacesApart'
  BY DEF AcquireBlind, store, places, IInv, PlacesApart
<1>5. TakeoverIsHeard'
  <2>1. UNCHANGED <<mark, slot, signalled, unread>>
    BY DEF AcquireBlind, Quits, Jumps, store, places, local
  <2>2. Open' \subseteq Open /\ \A u \in Open' : at'[u] = at[u]
    BY DEF AcquireBlind, Quits, Jumps, store, places, local, IInv, Types, Open
  <2>3. QED
    BY <2>1, <2>2, TakeoverKept DEF IInv
<1>6. QED
  BY <1>1, <1>2, <1>3, <1>4, <1>5 DEF IInv

LEMMA OpenStreamStep ==
    ASSUME IInv, NEW s \in Streams, OpenStream(s)
    PROVE  IInv'
<1>1. Types'
  <2>1. /\ at[s] = <<InstOf(s), RcvOf(s)>>
        /\ InstOf(s) \in Instances /\ RcvOf(s) \in Receivers
    BY Somewhere DEF IInv, OpenStream
  <2>2. slot' \in [Instances -> [Receivers -> Streams \cup {None}]]
    BY <2>1 DEF OpenStream, IInv, Types
  <2>3. /\ pc' = [pc EXCEPT ![s] = "open"] /\ pc[s] = "opening"
        /\ UNCHANGED <<at, lease, revived, mark, doomed, took, exposed, faults>>
    BY DEF OpenStream, Jumps, store, places
  <2>4. /\ pc' \in [Streams -> Pcs]
        /\ \A u \in Streams : at'[u] = Nowhere <=> pc'[u] = "off"
    BY <2>3 DEF IInv, Types, Pcs
  <2>5. /\ conns' \subseteq Streams /\ signalled' \subseteq Streams
        /\ unread' \subseteq Streams /\ prev' \in [Streams -> Streams \cup {None}]
    BY DEF OpenStream, IInv, Types
  <2>6. QED
    BY <2>2, <2>3, <2>4, <2>5 DEF IInv, Types
<1>2. SlotsFit'
  BY NoneIsNone, SizesAssumption DEF OpenStream, Jumps, store, places, local, Types, SlotsFit, Nowhere, InstOf, RcvOf, Pcs, IInv
<1>3. PlacesHeld'
  BY NoneIsNone, SizesAssumption DEF OpenStream, Jumps, store, places, local, Types, PlacesHeld, Holding, RcvOf, Pcs, IInv
<1>4. PlacesApart'
  BY DEF OpenStream, store, places, IInv, PlacesApart
<1>5. TakeoverIsHeard'
  BY NoneIsNone, SizesAssumption DEF OpenStream, Jumps, store, places, local, Types, SlotsFit, TakeoverIsHeard, Open, Owns, InstOf, RcvOf, Nowhere, Pcs, IInv
<1>6. QED
  BY <1>1, <1>2, <1>3, <1>4, <1>5 DEF IInv

LEMMA RefuseGlobalStep ==
    ASSUME IInv, NEW s \in Streams, RefuseGlobal(s)
    PROVE  IInv'
<1>1. Types'
  BY SizesAssumption, SMTT(20) DEF RefuseGlobal, Quits, Fault, Jumps, store, places, local, Types, Pcs, Nowhere, IInv
<1>2. SlotsFit'
  <2>1. /\ UNCHANGED slot
        /\ \A u \in Streams : pc[u] \in {"open", "beating", "ending"} =>
               at'[u] = at[u] /\ pc'[u] \in {"open", "beating", "ending"}
    BY DEF RefuseGlobal, Quits, Jumps, store, places, local, IInv, Types
  <2>2. QED
    BY <2>1, SlotsKept DEF IInv
<1>3. PlacesHeld'
  BY NoneIsNone, SizesAssumption DEF RefuseGlobal, Quits, Fault, Jumps, store, places, local, Types, PlacesHeld, Holding, RcvOf, Pcs, IInv
<1>4. PlacesApart'
  BY DEF RefuseGlobal, store, places, IInv, PlacesApart
<1>5. TakeoverIsHeard'
  <2>1. UNCHANGED <<mark, slot, signalled, unread>>
    BY DEF RefuseGlobal, Quits, Jumps, store, places, local
  <2>2. Open' \subseteq Open /\ \A u \in Open' : at'[u] = at[u]
    BY DEF RefuseGlobal, Quits, Jumps, store, places, local, IInv, Types, Open
  <2>3. QED
    BY <2>1, <2>2, TakeoverKept DEF IInv
<1>6. QED
  BY <1>1, <1>2, <1>3, <1>4, <1>5 DEF IInv

LEMMA BeatReadStep ==
    ASSUME IInv, NEW s \in Streams, BeatRead(s)
    PROVE  IInv'
<1>1. Types'
  BY NoneIsNone, SizesAssumption DEF BeatRead, Jumps, store, places, local, Types, Pcs, Nowhere, IInv
<1>2. SlotsFit'
  BY NoneIsNone, SizesAssumption DEF BeatRead, Jumps, store, places, local, Types, SlotsFit, Nowhere, InstOf, RcvOf, Pcs, IInv
<1>3. PlacesHeld'
  BY NoneIsNone, SizesAssumption DEF BeatRead, Jumps, store, places, local, Types, PlacesHeld, Holding, RcvOf, Pcs, IInv
<1>4. PlacesApart'
  BY DEF BeatRead, store, places, IInv, PlacesApart
<1>5. TakeoverIsHeard'
  BY NoneIsNone, SizesAssumption DEF BeatRead, Jumps, store, places, local, Types, SlotsFit, TakeoverIsHeard, Open, Owns, InstOf, RcvOf, Nowhere, Pcs, IInv
<1>6. QED
  BY <1>1, <1>2, <1>3, <1>4, <1>5 DEF IInv

LEMMA BeatBlindStep ==
    ASSUME IInv, NEW s \in Streams, BeatBlind(s)
    PROVE  IInv'
<1>1. Types'
  BY NoneIsNone, SizesAssumption DEF BeatBlind, Fault, Jumps, store, places, local, Types, Pcs, Nowhere, IInv
<1>2. SlotsFit'
  <2>1. /\ UNCHANGED slot
        /\ \A u \in Streams : pc[u] \in {"open", "beating", "ending"} =>
               at'[u] = at[u] /\ pc'[u] \in {"open", "beating", "ending"}
    BY DEF BeatBlind, Jumps, store, places, local, IInv, Types
  <2>2. QED
    BY <2>1, SlotsKept DEF IInv
<1>3. PlacesHeld'
  BY NoneIsNone, SizesAssumption DEF BeatBlind, Fault, Jumps, store, places, local, Types, PlacesHeld, Holding, RcvOf, Pcs, IInv
<1>4. PlacesApart'
  BY DEF BeatBlind, store, places, IInv, PlacesApart
<1>5. TakeoverIsHeard'
  <2>1. UNCHANGED <<mark, slot, signalled, unread>>
    BY DEF BeatBlind, Jumps, store, places, local
  <2>2. Open' \subseteq Open /\ \A u \in Open' : at'[u] = at[u]
    BY DEF BeatBlind, Jumps, store, places, local, IInv, Types, Open
  <2>3. QED
    BY <2>1, <2>2, TakeoverKept DEF IInv
<1>6. QED
  BY <1>1, <1>2, <1>3, <1>4, <1>5 DEF IInv

LEMMA BeatRefreshStep ==
    ASSUME IInv, NEW s \in Streams, BeatRefresh(s)
    PROVE  IInv'
<1>1. Types'
  <2>1. RcvOf(s) \in Receivers
    BY Somewhere DEF IInv, BeatRefresh
  <2>2. QED
    BY <2>1, SizesAssumption DEF BeatRefresh, Fault, Jumps, store, places, local, Types, Pcs, IInv
<1>2. SlotsFit'
  <2>1. /\ UNCHANGED slot
        /\ \A u \in Streams : pc[u] \in {"open", "beating", "ending"} =>
               at'[u] = at[u] /\ pc'[u] \in {"open", "beating", "ending"}
    BY DEF BeatRefresh, Jumps, local, IInv, Types
  <2>2. QED
    BY <2>1, SlotsKept DEF IInv
<1>3. PlacesHeld'
  BY NoneIsNone, SizesAssumption DEF BeatRefresh, Fault, Jumps, store, places, local, Types, PlacesHeld, Holding, RcvOf, Pcs, IInv
<1>4. PlacesApart'
  BY DEF BeatRefresh, places, IInv, PlacesApart
<1>5. TakeoverIsHeard'
  <2>1. UNCHANGED <<mark, slot, signalled, unread>>
    BY DEF BeatRefresh, Jumps, local
  <2>2. Open' \subseteq Open /\ \A u \in Open' : at'[u] = at[u]
    BY DEF BeatRefresh, Jumps, local, IInv, Types, Open
  <2>3. QED
    BY <2>1, <2>2, TakeoverKept DEF IInv
<1>6. QED
  BY <1>1, <1>2, <1>3, <1>4, <1>5 DEF IInv

LEMMA EndStreamStep ==
    ASSUME IInv, NEW s \in Streams, EndStream(s)
    PROVE  IInv'
<1>1. Types'
  BY NoneIsNone, SizesAssumption DEF EndStream, Jumps, store, places, local, Types, Pcs, Nowhere, IInv
<1>2. SlotsFit'
  <2>1. SUFFICES ASSUME NEW i \in Instances, NEW r \in Receivers, slot[i][r] # None
                 PROVE  pc'[slot[i][r]] \in {"open", "beating", "ending"}
    BY DEF EndStream, local, IInv, SlotsFit
  <2>2. at[slot[i][r]] = <<i, r>> /\ pc[slot[i][r]] \in {"open", "beating", "ending"}
    BY <2>1 DEF IInv, SlotsFit
  <2>3. slot[i][r] = s => Owns(s)
    BY <2>2 DEF Owns, InstOf, RcvOf
  <2>4. QED
    BY <2>2, <2>3 DEF EndStream, Jumps, IInv, Types
<1>3. PlacesHeld'
  BY NoneIsNone, SizesAssumption DEF EndStream, Jumps, store, places, local, Types, PlacesHeld, Holding, RcvOf, Pcs, IInv
<1>4. PlacesApart'
  BY DEF EndStream, store, places, IInv, PlacesApart
<1>5. TakeoverIsHeard'
  <2>1. UNCHANGED <<mark, slot, signalled, unread>>
    BY DEF EndStream, Jumps, store, places, local
  <2>2. Open' \subseteq Open /\ \A u \in Open' : at'[u] = at[u]
    BY DEF EndStream, Jumps, store, places, local, IInv, Types, Open
  <2>3. QED
    BY <2>1, <2>2, TakeoverKept DEF IInv
<1>6. QED
  BY <1>1, <1>2, <1>3, <1>4, <1>5 DEF IInv

LEMMA ReleaseOwnStep ==
    ASSUME IInv, NEW s \in Streams, ReleaseOwn(s)
    PROVE  IInv'
<1>1. Types'
  BY SizesAssumption DEF ReleaseOwn, Drops, WithoutSlots, Fault, Jumps, store, places, local, Types, Pcs, Holding, IInv
<1>2. SlotsFit'
  BY NoneIsNone, SizesAssumption DEF ReleaseOwn, Drops, WithoutSlots, Fault, Jumps, store, places, local, Types, SlotsFit, Nowhere, InstOf, RcvOf, Pcs, IInv
<1>3. PlacesHeld'
  BY NoneIsNone, SizesAssumption DEF ReleaseOwn, Drops, WithoutSlots, Fault, Jumps, store, places, local, Types, PlacesHeld, Holding, RcvOf, Pcs, IInv
<1>4. PlacesApart'
  BY DEF ReleaseOwn, Drops, places, IInv, PlacesApart
<1>5. TakeoverIsHeard'
  <2>1. SUFFICES ASSUME NEW u \in Open', mark # None, Owns(u)', u \notin unread
                 PROVE  mark = RcvOf(u) \/ u \in signalled
    BY DEF ReleaseOwn, TakeoverIsHeard, RcvOf
  <2>2. u \in Open
    BY DEF ReleaseOwn, Jumps, Open, IInv, Types
  <2>3. InstOf(u) \in Instances /\ RcvOf(u) \in Receivers
    BY <2>2, Somewhere DEF Open, IInv
  <2>4. Owns(u)
    BY <2>1, <2>2, <2>3, NoneIsNone DEF ReleaseOwn, WithoutSlots, Owns, Open, InstOf, RcvOf
  <2>5. QED
    BY <2>1, <2>2, <2>4 DEF IInv, TakeoverIsHeard
<1>6. QED
  BY <1>1, <1>2, <1>3, <1>4, <1>5 DEF IInv

LEMMA LeaveStep ==
    ASSUME IInv, NEW s \in Streams, Leave(s)
    PROVE  IInv'
<1>1. Types'
  BY NoneIsNone, SizesAssumption DEF Leave, Fault, Quits, Jumps, store, places, local, Types, Pcs, Nowhere, IInv
<1>2. SlotsFit'
  BY NoneIsNone, SizesAssumption DEF Leave, Quits, Jumps, store, places, local, Types, SlotsFit, Nowhere, InstOf, RcvOf, Pcs, IInv
<1>3. PlacesHeld'
  BY NoneIsNone, SizesAssumption DEF Leave, Quits, Jumps, store, places, local, Types, PlacesHeld, Holding, RcvOf, Pcs, IInv
<1>4. PlacesApart'
  BY DEF Leave, places, IInv, PlacesApart
<1>5. TakeoverIsHeard'
  BY NoneIsNone, SizesAssumption DEF Leave, Quits, Jumps, store, places, local, Types, SlotsFit, TakeoverIsHeard, Open, Owns, InstOf, RcvOf, Nowhere, Pcs, IInv
<1>6. QED
  BY <1>1, <1>2, <1>3, <1>4, <1>5 DEF IInv

LEMMA LapseStep ==
    ASSUME IInv, NEW r \in Receivers, Lapse(r)
    PROVE  IInv'
<1>1. Types'
  BY SizesAssumption DEF Lapse, Drops, store, places, local, Types, Pcs, Holding, IInv
<1>2. SlotsFit'
  BY NoneIsNone, SizesAssumption DEF Lapse, Drops, store, places, local, Types, SlotsFit, Nowhere, InstOf, RcvOf, Pcs, IInv
<1>3. PlacesHeld'
  BY NoneIsNone, SizesAssumption DEF Lapse, Drops, store, places, local, Types, PlacesHeld, Holding, RcvOf, Pcs, IInv
<1>4. PlacesApart'
  BY DEF Lapse, Drops, places, IInv, PlacesApart
<1>5. TakeoverIsHeard'
  BY NoneIsNone, SizesAssumption DEF Lapse, Drops, store, places, local, Types, SlotsFit, TakeoverIsHeard, Open, Owns, InstOf, RcvOf, Nowhere, Pcs, IInv
<1>6. QED
  BY <1>1, <1>2, <1>3, <1>4, <1>5 DEF IInv

LEMMA StallStep ==
    ASSUME IInv, NEW r \in Receivers, Stall(r)
    PROVE  IInv'
<1>1. Types'
  BY SizesAssumption DEF Stall, Drops, Fault, store, places, local, Types, Pcs, Holding, IInv
<1>2. SlotsFit'
  BY NoneIsNone, SizesAssumption DEF Stall, Drops, Fault, store, places, local, Types, SlotsFit, Nowhere, InstOf, RcvOf, Pcs, IInv
<1>3. PlacesHeld'
  BY NoneIsNone, SizesAssumption DEF Stall, Drops, Fault, store, places, local, Types, PlacesHeld, Holding, RcvOf, Pcs, IInv
<1>4. PlacesApart'
  BY DEF Stall, Drops, places, IInv, PlacesApart
<1>5. TakeoverIsHeard'
  BY NoneIsNone, SizesAssumption DEF Stall, Drops, Fault, store, places, local, Types, SlotsFit, TakeoverIsHeard, Open, Owns, InstOf, RcvOf, Nowhere, Pcs, IInv
<1>6. QED
  BY <1>1, <1>2, <1>3, <1>4, <1>5 DEF IInv

LEMMA MarkLapsesStep ==
    ASSUME IInv, MarkLapses
    PROVE  IInv'
<1>1. Types'
  BY NoneIsNone, SizesAssumption DEF MarkLapses, streams, store, places, local, Types, Pcs, Nowhere, IInv
<1>2. SlotsFit'
  BY NoneIsNone, SizesAssumption DEF MarkLapses, streams, store, places, local, Types, SlotsFit, Nowhere, InstOf, RcvOf, Pcs, IInv
<1>3. PlacesHeld'
  BY NoneIsNone, SizesAssumption DEF MarkLapses, streams, store, places, local, Types, PlacesHeld, Holding, RcvOf, Pcs, IInv
<1>4. PlacesApart'
  BY DEF MarkLapses, places, IInv, PlacesApart
<1>5. TakeoverIsHeard'
  BY NoneIsNone, SizesAssumption DEF MarkLapses, streams, store, places, local, Types, SlotsFit, TakeoverIsHeard, Open, Owns, InstOf, RcvOf, Nowhere, Pcs, IInv
<1>6. QED
  BY <1>1, <1>2, <1>3, <1>4, <1>5 DEF IInv

LEMMA CrashStep ==
    ASSUME IInv, NEW i \in Instances, Crash(i)
    PROVE  IInv'
<1>1. Types'
  BY NoneIsNone, SizesAssumption DEF Crash, Fault, store, places, local, Types, Pcs, Nowhere, IInv
<1>2. SlotsFit'
  BY NoneIsNone, SizesAssumption DEF Crash, Fault, store, places, local, Types, SlotsFit, Nowhere, InstOf, RcvOf, Pcs, IInv
<1>3. PlacesHeld'
  BY NoneIsNone, SizesAssumption DEF Crash, Fault, store, places, local, Types, PlacesHeld, Holding, RcvOf, Pcs, IInv
<1>4. PlacesApart'
  BY DEF Crash, store, places, IInv, PlacesApart
<1>5. TakeoverIsHeard'
  BY NoneIsNone, SizesAssumption DEF Crash, Fault, store, places, local, Types, SlotsFit, TakeoverIsHeard, Open, Owns, InstOf, RcvOf, Nowhere, Pcs, IInv
<1>6. QED
  BY <1>1, <1>2, <1>3, <1>4, <1>5 DEF IInv

-----------------------------------------------------------------------------
LEMMA InvInit == Init => IInv
  BY NoneIsNone, SizesAssumption
  DEF Init, IInv, Types, SlotsFit, PlacesHeld, PlacesApart, TakeoverIsHeard,
      Holding, Open, Pcs, Nowhere

LEMMA InvStep == IInv /\ [Next]_vars => IInv'
<1>1. ASSUME IInv, Next PROVE IInv'
  <2> USE <1>1
  <2>1. ASSUME NEW s \in Streams, NEW i \in Instances, NEW r \in Receivers, Connect(s, i, r) PROVE IInv'
    BY <2>1, ConnectStep
  <2>2. ASSUME NEW s \in Streams, Check(s) PROVE IInv'
    BY <2>2, CheckStep
  <2>3. ASSUME NEW s \in Streams, CheckBlind(s) PROVE IInv'
    BY <2>3, CheckBlindStep
  <2>4. ASSUME NEW s \in Streams, NEW m \in Receivers, ReleaseOther(s, m) PROVE IInv'
    BY <2>4, ReleaseOtherStep
  <2>5. ASSUME NEW s \in Streams, MarkTaken(s) PROVE IInv'
    BY <2>5, MarkTakenStep
  <2>6. ASSUME NEW s \in Streams, Acquire(s) PROVE IInv'
    BY <2>6, AcquireStep
  <2>7. ASSUME NEW s \in Streams, AcquireBlind(s) PROVE IInv'
    BY <2>7, AcquireBlindStep
  <2>8. ASSUME NEW s \in Streams, OpenStream(s) PROVE IInv'
    BY <2>8, OpenStreamStep
  <2>9. ASSUME NEW s \in Streams, RefuseGlobal(s) PROVE IInv'
    BY <2>9, RefuseGlobalStep
  <2>10. ASSUME NEW s \in Streams, BeatRead(s) PROVE IInv'
    BY <2>10, BeatReadStep
  <2>11. ASSUME NEW s \in Streams, BeatBlind(s) PROVE IInv'
    BY <2>11, BeatBlindStep
  <2>12. ASSUME NEW s \in Streams, BeatRefresh(s) PROVE IInv'
    BY <2>12, BeatRefreshStep
  <2>13. ASSUME NEW s \in Streams, EndStream(s) PROVE IInv'
    BY <2>13, EndStreamStep
  <2>14. ASSUME NEW s \in Streams, ReleaseOwn(s) PROVE IInv'
    BY <2>14, ReleaseOwnStep
  <2>15. ASSUME NEW s \in Streams, Leave(s) PROVE IInv'
    BY <2>15, LeaveStep
  <2>16. ASSUME NEW r \in Receivers, Lapse(r) PROVE IInv'
    BY <2>16, LapseStep
  <2>17. ASSUME NEW r \in Receivers, Stall(r) PROVE IInv'
    BY <2>17, StallStep
  <2>18. ASSUME MarkLapses PROVE IInv'
    BY <2>18, MarkLapsesStep
  <2>19. ASSUME NEW i \in Instances, Crash(i) PROVE IInv'
    BY <2>19, CrashStep
  <2>20. ASSUME NEW s \in Streams, Step(s) PROVE IInv'
    BY <2>20, <2>2, <2>4, <2>5, <2>6, <2>8, <2>12, <2>14, <2>15 DEF Step
  <2>21. QED
    BY <2>1, <2>2, <2>3, <2>4, <2>5, <2>6, <2>7, <2>8, <2>9, <2>10, <2>11, <2>12, <2>13, <2>14, <2>15, <2>16, <2>17, <2>18, <2>19, <2>20 DEF Next
<1>2. ASSUME IInv, UNCHANGED vars PROVE IInv'
  BY <1>2 DEF vars, store, places, local, streams, IInv, Types, SlotsFit, PlacesHeld,
     PlacesApart, TakeoverIsHeard, Holding, Open, Owns, InstOf, RcvOf
<1>3. QED
  BY <1>1, <1>2

LEMMA Invariance == Spec => []IInv
  BY InvInit, InvStep, PTL DEF Spec

\* agent_stream keeps _receiver_streams, the lease and the take-over mark
\* well-formed: a slot names a stream of that instance and receiver that has not
\* given it up.
THEOREM SseTypes == Spec => []TypeOK
<1>1. IInv => TypeOK
  BY DEF IInv, Types, SlotsFit, TypeOK
<1>2. QED
  BY <1>1, Invariance, PTL

\* However many installs connect at once, through however many instances, two of
\* them receive only after one has lost its place or has it back through a refresh
\* that came late (sse_lease.acquire with limit 1, refresh).
THEOREM SseOneReceiver == Spec => []OneReceiver
<1>1. IInv => OneReceiver
  BY DEF IInv, PlacesHeld, PlacesApart, OneReceiver, Holding, Open
<1>2. QED
  BY <1>1, Invariance, PTL

\* A stream that has read the mark since the last take-over is the taker's or
\* ends (the heartbeat of agent_stream).
THEOREM SseTakeoverIsHeard == Spec => []TakeoverIsHeard
<1>1. IInv => TakeoverIsHeard
  BY DEF IInv
<1>2. QED
  BY <1>1, Invariance, PTL
=============================================================================
