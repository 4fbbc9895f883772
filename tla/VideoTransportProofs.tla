------------------------ MODULE VideoTransportProofs ------------------------
(***************************************************************************)
(* Theorems about the video path of one connection, for every IdSpace,     *)
(* MAX_IN_FLIGHT_FRAMES, MaxPackets and MaxFragTotal.                      *)
(***************************************************************************)
EXTENDS VideoTransport, FiniteSetTheorems, TLAPS

-----------------------------------------------------------------------------
(* The inductive invariant *)

Filled(frame) == {i \in DOMAIN frame.fragments : frame.fragments[i] # NoChunk}

\* `received` counts the filled slots, and at least one slot is still empty.
CountedRight ==
    \A id \in InFlight(pending) :
        /\ pending[id].received = Cardinality(Filled(pending[id]))
        /\ pending[id].received < pending[id].frag_total

\* The host can number MaxPackets packets without reusing a frame_id.
NoWrap == MaxPackets <= IdSpace

\* The next packet gets the first frame_id that no packet has had.
Numbered == Len(sent) < IdSpace => frame_counter = Len(sent)

SentShape ==
    \A n \in 1..Len(sent) : \E t \in FragTotals, k \in BOOLEAN :
        sent[n] = EncodedPacket(n, t, k)

\* A datagram in flight is a fragment of the packet its frame_id stands for.
Genuine(d) ==
    /\ d.frame_id < Len(sent)
    /\ DOMAIN sent[d.frame_id + 1].data = 0..(d.frag_total - 1)
    /\ sent[d.frame_id + 1].is_keyframe = d.is_keyframe
    /\ d.frag_index < d.frag_total
    /\ d.payload = <<d.frame_id + 1, d.frag_index>>

\* A frame being reassembled is a part of the packet its frame_id stands for.
PartOfPacket(f, id) ==
    /\ id < Len(sent)
    /\ DOMAIN sent[id + 1].data = 0..(f.frag_total - 1)
    /\ sent[id + 1].is_keyframe = f.is_keyframe
    /\ \A i \in 0..(f.frag_total - 1) : f.fragments[i] \in {NoChunk, <<id + 1, i>>}

\* A datagram in flight has not been stored, nor has its packet been returned.
NotStored(p, d) ==
    p[d.frame_id] # NoFrame => p[d.frame_id].fragments[d.frag_index] = NoChunk
NotYetUsed(d) ==
    /\ NotStored(pending, d)
    /\ ~ Channel!WasDelivered(sent[d.frame_id + 1])

\* The strengthening of FrameIntegrity that every step preserves.
IInv ==
    /\ Numbered
    /\ SentShape
    /\ \A d \in net : Genuine(d) /\ NotYetUsed(d)
    /\ \A id \in InFlight(pending) : PartOfPacket(pending[id], id)
    /\ FrameIntegrity
-----------------------------------------------------------------------------
(* The reassembler's table *)

USE TransportAssumption

\* A frame is a PendingFrame of its own frag_total, and none is NoFrame.
LEMMA FrameShape ==
    ASSUME NEW f \in Frames
    PROVE  /\ f.frag_total \in FragTotals
           /\ f \in PendingFrame(f.frag_total)
           /\ f # NoFrame
<1>1. PICK t \in FragTotals : f \in PendingFrame(t)
  BY DEF Frames
<1> QED
  BY <1>1 DEF PendingFrame, NoFrame, FragTotals

\* A PendingFrame of any legal size is a frame.
LEMMA PendingFrameIsFrame ==
    ASSUME NEW t \in FragTotals, NEW f \in PendingFrame(t)
    PROVE  f \in Frames
BY DEF Frames

\* A fresh frame has the size that the datagram announces.
LEMMA NewFrameType ==
    ASSUME NEW d \in Datagrams
    PROVE  NewPendingFrame(d) \in PendingFrame(d.frag_total)
BY DEF NewPendingFrame, PendingFrame, Datagrams, FragTotals

\* Storing a datagram's chunk in an empty slot of an incomplete frame.
LEMMA StoredType ==
    ASSUME NEW d \in Datagrams, NEW t \in FragTotals, NEW f \in PendingFrame(t),
           d.frag_index < t, f.received < t
    PROVE  /\ Stored(f, d) \in PendingFrame(t)
           /\ Stored(f, d).received = f.received + 1
           /\ Stored(f, d).frag_total = t
           /\ Stored(f, d).is_keyframe = f.is_keyframe
           /\ Stored(f, d).fragments = [f.fragments EXCEPT ![d.frag_index] = d.payload]
BY DEF Stored, PendingFrame, Datagrams, FragTotals, FragIndices, Chunks

\* q is p with some of its frames dropped.
Dropped(p, q) == q \in Tables /\ \A id \in FrameIds : q[id] \in {p[id], NoFrame}

\* evict_before only drops frames.
LEMMA EvictBeforeDrops ==
    ASSUME NEW p \in Tables, NEW bound \in Nat
    PROVE  Dropped(p, evict_before(p, bound))
BY DEF Dropped, evict_before, Tables

\* evict_oldest only drops frames.
LEMMA EvictOldestDrops ==
    ASSUME NEW p \in Tables
    PROVE  Dropped(p, evict_oldest(p))
BY DEF Dropped, evict_oldest, Tables

\* After Track the table has an entry for the datagram, the one it had or a
\* fresh one; of the other frames some may have been dropped.
LEMMA TrackFacts ==
    ASSUME NEW p \in Tables, NEW d \in Datagrams
    PROVE  /\ Track(p, d) \in Tables
           /\ \A id \in FrameIds \ {d.frame_id} : Track(p, d)[id] \in {p[id], NoFrame}
           /\ Track(p, d)[d.frame_id] =
                 IF p[d.frame_id] # NoFrame THEN p[d.frame_id] ELSE NewPendingFrame(d)
           /\ Track(p, d)[d.frame_id] \in Frames
<1>1. d.frame_id \in FrameIds /\ d.frag_total \in FragTotals
  BY DEF Datagrams
<1>2. NewPendingFrame(d) \in Frames
  BY <1>1, NewFrameType, PendingFrameIsFrame
<1>3. CASE p[d.frame_id] # NoFrame
  BY <1>1, <1>3 DEF Track, Tables
<1>4. CASE p[d.frame_id] = NoFrame
  <2> DEFINE q == IF Cardinality(InFlight(p)) >= MAX_IN_FLIGHT_FRAMES
                  THEN evict_oldest(p) ELSE p
  <2>1. Dropped(p, q)
    BY EvictOldestDrops DEF Dropped, Tables
  <2>2. Track(p, d) = [q EXCEPT ![d.frame_id] = NewPendingFrame(d)]
    BY <1>4 DEF Track
  <2> HIDE DEF q
  <2> QED
    BY <1>1, <1>2, <1>4, <2>1, <2>2 DEF Dropped, Tables
<1> QED
  BY <1>3, <1>4
-----------------------------------------------------------------------------
(* What one turn of recv_video's loop does *)

\* recv_video ignores the chunk: its slot is taken, or does not exist.
Ignored(q, d) ==
    /\ \/ d.frag_index >= q[d.frame_id].frag_total
       \/ q[d.frame_id].fragments[d.frag_index] # NoChunk
    /\ pending' = q
    /\ delivered' = delivered

EmptySlot(q, d) ==
    /\ d.frag_index < q[d.frame_id].frag_total
    /\ q[d.frame_id].fragments[d.frag_index] = NoChunk

\* It stores the chunk and the frame is still incomplete.
KeptOn(q, d) ==
    /\ EmptySlot(q, d)
    /\ ~ is_complete(Stored(q[d.frame_id], d))
    /\ pending' = [q EXCEPT ![d.frame_id] = Stored(q[d.frame_id], d)]
    /\ delivered' = delivered

\* It stores the chunk, which completes the frame.
Completed(q, d) ==
    /\ EmptySlot(q, d)
    /\ is_complete(Stored(q[d.frame_id], d))
    /\ pending' = [q EXCEPT ![d.frame_id] = NoFrame]
    /\ delivered' = Append(delivered, assemble(Stored(q[d.frame_id], d)))

\* q is the table recv_video has when it looks at d's slot.
Tracked(q, d) ==
    /\ q \in Tables
    /\ \A id \in FrameIds \ {d.frame_id} : q[id] \in {pending[id], NoFrame}
    /\ q[d.frame_id] \in {pending[d.frame_id], NewPendingFrame(d)}
    /\ q[d.frame_id] \in Frames

\* What recv_video does with d, given the table q in which it looks up d.
Outcome(q, d) ==
    /\ q = Track(Windowed(pending, d), d)
    /\ Tracked(q, d)
    /\ Ignored(q, d) \/ KeptOn(q, d) \/ Completed(q, d)

\* On either network a step is one of the four.
LEMMA NextCases ==
    ASSUME Next
    PROVE  \/ \E total \in FragTotals, key \in BOOLEAN : \E queued \in 0..total :
                 SendVideo(total, key, queued)
           \/ \E d \in net : RecvVideo(d)
           \/ \E d \in net : Lose(d)
           \/ Close
<1>1. \A total \in FragTotals : total \in 0..total
  BY DEF FragTotals
<1>2. CASE LossyNext
  BY <1>2 DEF LossyNext
<1>3. CASE OrderlyNext
  BY <1>1, <1>3 DEF OrderlyNext
<1> QED
  BY <1>2, <1>3 DEF Next

\* A turn of recv_video's loop ignores the chunk, stores it, or completes a frame.
LEMMA RecvVideoCases ==
    ASSUME TypeOK, NEW d \in net, RecvVideo(d)
    PROVE  /\ d \in Datagrams
           /\ net' = net \ {d}
           /\ UNCHANGED <<network, frame_counter, sent, conn>>
           /\ \E q : Outcome(q, d)
<1>1. d \in Datagrams /\ pending \in Tables
  BY DEF TypeOK
<1> DEFINE p == Windowed(pending, d)
           q == Track(p, d)
<1>2. Dropped(pending, p)
  <2>1. d.frame_id \in Nat
    BY <1>1 DEF Datagrams, FrameIds
  <2>2. d.frame_id >= MAX_IN_FLIGHT_FRAMES
           => wrapping_sub(d.frame_id, MAX_IN_FLIGHT_FRAMES) \in Nat
    BY <2>1 DEF wrapping_sub
  <2> QED
    BY <1>1, <2>2, EvictBeforeDrops DEF Dropped, Tables, Windowed
<1>3. ingest(p, d)
  BY DEF RecvVideo
<1> HIDE DEF p
<1>4. p \in Tables
  BY <1>2 DEF Dropped
<1>5. Tracked(q, d)
  <2>1. d.frame_id \in FrameIds
    BY <1>1 DEF Datagrams
  <2> QED
    BY <1>1, <1>2, <1>4, <2>1, TrackFacts DEF Tracked, Dropped
<1>6. Ignored(q, d) \/ KeptOn(q, d) \/ Completed(q, d)
  <2>1. q[d.frame_id].frag_total \in Nat /\ d.frag_index \in Nat
    BY <1>1, <1>5, FrameShape DEF Tracked, Datagrams, FragIndices, FragTotals
  <2> QED
    BY <1>3, <2>1 DEF ingest, Ignored, KeptOn, Completed, EmptySlot
<1>7. Outcome(q, d)
  BY <1>5, <1>6 DEF Outcome, p
<1> QED
  BY <1>1, <1>7 DEF RecvVideo
-----------------------------------------------------------------------------
(* Counting the slots of a frame *)

\* A subset with as many elements as its finite superset is all of it.
LEMMA FullSubset ==
    ASSUME NEW T, IsFiniteSet(T), NEW S \in SUBSET T,
           Cardinality(S) = Cardinality(T)
    PROVE  S = T
<1> SUFFICES ASSUME NEW x \in T, x \notin S
             PROVE  FALSE
  OBVIOUS
<1>1. IsFiniteSet(T \ {x}) /\ Cardinality(T \ {x}) = Cardinality(T) - 1
  BY FS_RemoveElement
<1>2. Cardinality(S) <= Cardinality(T \ {x})
  <2>1. S \in SUBSET (T \ {x})
    OBVIOUS
  <2> QED
    BY <1>1, <2>1, FS_Subset
<1> QED
  BY <1>1, <1>2, FS_CardinalityType

\* A frame of t fragments has t slots.
LEMMA SlotsFinite ==
    ASSUME NEW t \in FragTotals
    PROVE  IsFiniteSet(0..(t - 1)) /\ Cardinality(0..(t - 1)) = t
<1>1. 0 \in Int /\ t - 1 \in Int /\ t \in Nat /\ ~ (0 > t - 1)
  BY DEF FragTotals
<1>2. /\ IsFiniteSet(0..(t - 1))
      /\ Cardinality(0..(t - 1)) = IF 0 > t - 1 THEN 0 ELSE (t - 1) - 0 + 1
  BY <1>1, FS_Interval, Zenon
<1> QED
  BY <1>1, <1>2

\* A fresh frame counts no slot; storing a chunk counts one more.
LEMMA FilledNew ==
    ASSUME NEW d \in Datagrams
    PROVE  Filled(NewPendingFrame(d)) = {} /\ NewPendingFrame(d).received = 0
BY DEF Filled, NewPendingFrame

\* Storing a chunk in an empty slot fills one slot more, and the count follows.
LEMMA FilledStored ==
    ASSUME NEW d \in Datagrams, NEW t \in FragTotals, NEW f \in PendingFrame(t),
           d.frag_index < t, f.received < t,
           f.fragments[d.frag_index] = NoChunk,
           f.received = Cardinality(Filled(f))
    PROVE  /\ Filled(Stored(f, d)) \subseteq 0..(t - 1)
           /\ Stored(f, d).received = Cardinality(Filled(Stored(f, d)))
           /\ Stored(f, d).received = t => Filled(Stored(f, d)) = 0..(t - 1)
<1>1. /\ Stored(f, d).fragments = [f.fragments EXCEPT ![d.frag_index] = d.payload]
      /\ Stored(f, d).received = f.received + 1
  BY StoredType
<1>2. /\ t \in Nat /\ d.frag_index \in 0..(t - 1) /\ d.payload # NoChunk
      /\ f.fragments \in [0..(t - 1) -> Chunks \cup {NoChunk}]
  BY DEF Datagrams, FragTotals, FragIndices, Chunks, NoChunk, PendingFrame
<1>3. Filled(Stored(f, d)) = Filled(f) \cup {d.frag_index}
  BY <1>1, <1>2 DEF Filled
<1>4. IsFiniteSet(0..(t - 1)) /\ Cardinality(0..(t - 1)) = t
  BY SlotsFinite
<1>5. Filled(f) \in SUBSET (0..(t - 1)) /\ d.frag_index \notin Filled(f)
  BY <1>2 DEF Filled
<1>6. IsFiniteSet(Filled(f))
  BY <1>4, <1>5, FS_Subset
<1>7. Cardinality(Filled(f) \cup {d.frag_index}) = Cardinality(Filled(f)) + 1
  BY <1>5, <1>6, FS_AddElement
<1>8. Filled(Stored(f, d)) \in SUBSET (0..(t - 1))
  BY <1>2, <1>3, <1>5
<1>9. Stored(f, d).received = Cardinality(Filled(Stored(f, d)))
  BY <1>1, <1>3, <1>7
<1>10. ASSUME Stored(f, d).received = t
       PROVE  Filled(Stored(f, d)) = 0..(t - 1)
  <2>1. Cardinality(Filled(Stored(f, d))) = Cardinality(0..(t - 1))
    BY <1>4, <1>9, <1>10
  <2> DEFINE T == 0..(t - 1)
             S == Filled(Stored(f, d))
  <2>2. IsFiniteSet(T) /\ S \in SUBSET T /\ Cardinality(S) = Cardinality(T)
    BY <1>4, <1>8, <2>1
  <2> HIDE DEF S, T
  <2>3. S = T
    BY <2>2, FullSubset
  <2> QED
    BY <2>3 DEF S, T
<1> QED
  BY <1>8, <1>9, <1>10
-----------------------------------------------------------------------------
(* Type correctness, and no complete frame is held *)

TypeInv == TypeOK /\ CountedRight

\* The bookkeeping of one frame.
Counted(f) ==
    /\ f.received = Cardinality(Filled(f))
    /\ f.received < f.frag_total

\* The table recv_video works on is as well kept as the one it started from.
LEMMA TrackedCounted ==
    ASSUME TypeInv, NEW d \in Datagrams, NEW q, Tracked(q, d)
    PROVE  \A id \in InFlight(q) : q[id] \in Frames /\ Counted(q[id])
<1>1. d.frame_id \in FrameIds /\ d.frag_total \in FragTotals
  BY DEF Datagrams
<1>2. Counted(NewPendingFrame(d))
  <2>1. NewPendingFrame(d).frag_total = d.frag_total
    BY DEF NewPendingFrame
  <2> QED
    BY <1>1, <2>1, FilledNew, FS_EmptySet DEF Counted, FragTotals
<1>3. \A id \in FrameIds : pending[id] # NoFrame => Counted(pending[id])
  BY DEF TypeInv, CountedRight, Counted, InFlight
<1>4. q[d.frame_id] # NoFrame
  BY FrameShape DEF Tracked
<1> SUFFICES ASSUME NEW id \in FrameIds, q[id] # NoFrame
             PROVE  q[id] \in Frames /\ Counted(q[id])
  BY DEF InFlight
<1>5. q[id] \in Frames
  BY DEF Tracked, Tables
<1>6. CASE id = d.frame_id
  BY <1>2, <1>3, <1>4, <1>6 DEF Tracked
<1>7. CASE id # d.frame_id
  BY <1>3, <1>5, <1>7 DEF Tracked
<1> QED
  BY <1>5, <1>6, <1>7

\* What storing d's chunk makes of its frame.
LEMMA StoredFacts ==
    ASSUME TypeInv, NEW d \in Datagrams, NEW q, Tracked(q, d), EmptySlot(q, d)
    PROVE  LET t == q[d.frame_id].frag_total
               s == Stored(q[d.frame_id], d)
           IN  /\ t \in FragTotals
               /\ s \in PendingFrame(t)
               /\ s.frag_total = t
               /\ s.is_keyframe = q[d.frame_id].is_keyframe
               /\ s.fragments = [q[d.frame_id].fragments EXCEPT ![d.frag_index] = d.payload]
               /\ s.received = Cardinality(Filled(s))
               /\ is_complete(s) => Filled(s) = 0..(t - 1)
               /\ ~ is_complete(s) => s.received < t
<1> DEFINE f == q[d.frame_id]
           t == f.frag_total
<1>1. f \in Frames /\ Counted(f)
  <2>1. d.frame_id \in InFlight(q)
    BY FrameShape DEF Tracked, InFlight, Datagrams
  <2> QED
    BY <2>1, TrackedCounted
<1>2. t \in FragTotals /\ f \in PendingFrame(t)
  BY <1>1, FrameShape
<1>3. d.frag_index < t /\ f.received < t /\ f.fragments[d.frag_index] = NoChunk
      /\ f.received = Cardinality(Filled(f))
  BY <1>1 DEF EmptySlot, Counted
<1> HIDE DEF f
<1>4. /\ Stored(f, d) \in PendingFrame(t)
      /\ Stored(f, d).received = f.received + 1
      /\ Stored(f, d).frag_total = t
      /\ Stored(f, d).is_keyframe = f.is_keyframe
      /\ Stored(f, d).fragments = [f.fragments EXCEPT ![d.frag_index] = d.payload]
  BY <1>2, <1>3, StoredType
<1>5. /\ Stored(f, d).received = Cardinality(Filled(Stored(f, d)))
      /\ Stored(f, d).received = t => Filled(Stored(f, d)) = 0..(t - 1)
  BY <1>2, <1>3, FilledStored
<1>6. is_complete(Stored(f, d)) <=> Stored(f, d).received = t
  BY <1>4 DEF is_complete
<1>7. Stored(f, d).received # t => Stored(f, d).received < t
  BY <1>2, <1>3, <1>4 DEF FragTotals, PendingFrame
<1> QED
  BY <1>2, <1>4, <1>5, <1>6, <1>7 DEF f

DeliveredType ==
    Seq([data : UNION {[0..(t - 1) -> Chunks] : t \in FragTotals},
         is_keyframe : BOOLEAN])

\* A frame with no empty slot assembles into a packet.
LEMMA AssembledType ==
    ASSUME NEW t \in FragTotals, NEW f \in PendingFrame(t),
           Filled(f) = 0..(t - 1)
    PROVE  assemble(f) \in [data : UNION {[0..(u - 1) -> Chunks] : u \in FragTotals},
                            is_keyframe : BOOLEAN]
<1>1. f.fragments \in [0..(t - 1) -> Chunks]
  BY DEF Filled, PendingFrame
<1>2. f.fragments \in UNION {[0..(u - 1) -> Chunks] : u \in FragTotals}
  BY <1>1
<1>3. f.is_keyframe \in BOOLEAN
  BY DEF PendingFrame
<1> QED
  BY <1>2, <1>3 DEF assemble

\* The packet and the datagrams of one call of send_video.
LEMMA SendTypes ==
    ASSUME TypeOK, NEW total \in FragTotals, NEW key \in BOOLEAN,
           Len(sent) < MaxPackets
    PROVE  LET packet == EncodedPacket(Len(sent) + 1, total, key)
           IN  /\ packet \in Channel!EncodedPackets
               /\ fragment(packet, frame_counter, total) \subseteq Datagrams
<1> DEFINE n == Len(sent) + 1
           packet == EncodedPacket(n, total, key)
<1>1. n \in 1..MaxPackets
  BY DEF TypeOK
<1>2. packet \in Channel!EncodedPackets
  <2> HIDE DEF n
  <2> QED
    BY <1>1 DEF EncodedPacket, Channel!EncodedPackets, FragTotals
<1>3. /\ packet.is_keyframe = key
      /\ \A i \in 0..(total - 1) : packet.data[i] = <<n, i>>
  BY DEF EncodedPacket, Channel!EncodedPacket
<1>4. \A i \in 0..(total - 1) : i \in FragIndices /\ <<n, i>> \in Chunks
  BY <1>1 DEF FragIndices, FragTotals, Chunks
<1> HIDE DEF packet, n
<1>5. ASSUME NEW d \in fragment(packet, frame_counter, total)
      PROVE  d \in Datagrams
  <2>1. PICK i \in 0..(total - 1) :
            d = [frame_id |-> frame_counter, frag_index |-> i, frag_total |-> total,
                 is_keyframe |-> packet.is_keyframe, payload |-> packet.data[i]]
    BY DEF fragment
  <2> QED
    BY <1>3, <1>4, <2>1 DEF Datagrams, TypeOK
<1> QED
  BY <1>2, <1>5 DEF packet, n

\* wrapping_add stays within the ids.
LEMMA WrappingAddType ==
    ASSUME NEW id \in FrameIds
    PROVE  wrapping_add(id) \in FrameIds
BY DEF wrapping_add, FrameIds

\* Each variable keeps its type, and the count of a frame's chunks is right and
\* less than its size, in every state.
LEMMA TypeInvHolds == Spec => []TypeInv
<1>1. Init => TypeInv
  <2> SUFFICES ASSUME Init PROVE TypeInv
    OBVIOUS
  <2>1. pending \in Tables /\ InFlight(pending) = {}
    BY DEF Init, Tables, InFlight
  <2>2. frame_counter \in FrameIds
    BY DEF Init, FrameIds
  <2> QED
    BY <2>1, <2>2 DEF Init, TypeInv, TypeOK, CountedRight
<1>2. TypeInv /\ [Next]_vars => TypeInv'
  <2> SUFFICES ASSUME TypeInv, [Next]_vars
               PROVE  TypeInv'
    OBVIOUS
  <2> USE DEF TypeInv
  <2>1. ASSUME NEW total \in FragTotals, NEW key \in BOOLEAN,
               NEW queued \in 0..total, SendVideo(total, key, queued)
        PROVE  TypeInv'
    <3>1. /\ EncodedPacket(Len(sent) + 1, total, key) \in Channel!EncodedPackets
          /\ fragment(EncodedPacket(Len(sent) + 1, total, key), frame_counter, total)
                \subseteq Datagrams
      BY <2>1, SendTypes DEF SendVideo
    <3>2. frame_counter' \in FrameIds
      BY <2>1, WrappingAddType DEF SendVideo, TypeOK
    <3>3. sent' \in Seq(Channel!EncodedPackets) /\ Len(sent') <= MaxPackets
      BY <2>1, <3>1 DEF SendVideo, TypeOK
    <3>4. net' \subseteq Datagrams
      BY <2>1, <3>1 DEF SendVideo, TypeOK
    <3>5. conn' \in {"open", "failed", "closed"}
      BY <2>1 DEF SendVideo, TypeOK
    <3>6. pending' = pending /\ delivered' = delivered /\ network' = network
      BY <2>1 DEF SendVideo
    <3> QED
      BY <3>2, <3>3, <3>4, <3>5, <3>6 DEF TypeOK, CountedRight, InFlight, Filled
  <2>2. ASSUME NEW d \in net, RecvVideo(d)
        PROVE  TypeInv'
    <3>0. PICK q : Outcome(q, d)
      BY <2>2, RecvVideoCases
    <3>1. Tracked(q, d) /\ (Ignored(q, d) \/ KeptOn(q, d) \/ Completed(q, d))
      BY <3>0 DEF Outcome
    <3>2. d \in Datagrams /\ net' \subseteq Datagrams /\ sent' = sent
          /\ frame_counter' = frame_counter /\ conn' = conn /\ network' = network
      BY <2>2, RecvVideoCases DEF TypeOK
    <3>3. q \in Tables /\ d.frame_id \in FrameIds
      BY <3>1, <3>2 DEF Tracked, Datagrams
    <3>4. \A id \in InFlight(q) : Counted(q[id])
      BY <3>1, <3>2, TrackedCounted
    <3>5. CASE Ignored(q, d)
      <4>1. pending' \in Tables /\ delivered' = delivered
        BY <3>3, <3>5 DEF Ignored
      <4>2. CountedRight'
        BY <3>4, <3>5 DEF Ignored, CountedRight, Counted, InFlight, Filled
      <4> QED
        BY <3>2, <4>1, <4>2 DEF TypeOK
    <3>6. CASE KeptOn(q, d)
      <4> DEFINE s == Stored(q[d.frame_id], d)
      <4>1. s \in Frames /\ Counted(s)
        BY <3>1, <3>2, <3>6, StoredFacts, PendingFrameIsFrame DEF KeptOn, Counted
      <4>2. pending' = [q EXCEPT ![d.frame_id] = s] /\ delivered' = delivered
        BY <3>6 DEF KeptOn
      <4> HIDE DEF s
      <4>3. pending' \in Tables
        BY <3>3, <4>1, <4>2 DEF Tables
      <4>4. \A id \in FrameIds : pending'[id] # NoFrame => Counted(pending'[id])
        BY <3>3, <3>4, <4>1, <4>2 DEF Tables, InFlight
      <4>5. CountedRight'
        BY <4>4 DEF CountedRight, Counted, InFlight, Filled
      <4> QED
        BY <3>2, <4>2, <4>3, <4>5 DEF TypeOK
    <3>7. CASE Completed(q, d)
      <4> DEFINE s == Stored(q[d.frame_id], d)
      <4>1. assemble(s) \in [data : UNION {[0..(u - 1) -> Chunks] : u \in FragTotals},
                             is_keyframe : BOOLEAN]
        BY <3>1, <3>2, <3>7, StoredFacts, AssembledType DEF Completed
      <4>2. pending' = [q EXCEPT ![d.frame_id] = NoFrame]
            /\ delivered' = Append(delivered, assemble(s))
        BY <3>7 DEF Completed
      <4> HIDE DEF s
      <4>3. pending' \in Tables
        BY <3>3, <4>2 DEF Tables
      <4>4. \A id \in FrameIds : pending'[id] # NoFrame => Counted(pending'[id])
        BY <3>3, <3>4, <4>2 DEF Tables, InFlight
      <4>5. CountedRight'
        BY <4>4 DEF CountedRight, Counted, InFlight, Filled
      <4>6. delivered' \in DeliveredType
        BY <4>1, <4>2 DEF TypeOK, DeliveredType
      <4> QED
        BY <3>2, <4>3, <4>5, <4>6 DEF TypeOK, DeliveredType
    <3> QED
      BY <3>1, <3>5, <3>6, <3>7
  <2>3. ASSUME NEW d \in net, Lose(d)
        PROVE  TypeInv'
    BY <2>3 DEF Lose, TypeOK, CountedRight, InFlight, Filled
  <2>4. CASE Close
    BY <2>4 DEF Close, TypeOK, CountedRight, InFlight, Filled
  <2>5. CASE UNCHANGED vars
    BY <2>5 DEF vars, TypeOK, CountedRight, InFlight, Filled
  <2> QED
    BY <2>1, <2>2, <2>3, <2>4, <2>5, NextCases
<1> QED
  BY <1>1, <1>2, PTL DEF Spec

\* Every variable keeps its type; in particular the reassembler's table never
\* holds a frame of more or fewer slots than its datagrams announce.
THEOREM TypeCorrect == Spec => []TypeOK
  BY TypeInvHolds, PTL DEF TypeInv

\* A frame of the table waits for a chunk.
LEMMA ChunkMissing ==
    ASSUME TypeInv, NEW id \in InFlight(pending)
    PROVE  \E i \in 0..(pending[id].frag_total - 1) : pending[id].fragments[i] = NoChunk
<1> DEFINE f == pending[id]
           t == f.frag_total
<1>1. f \in Frames
  BY DEF TypeInv, TypeOK, Tables, InFlight
<1>2. t \in FragTotals /\ f \in PendingFrame(t)
  BY <1>1, FrameShape
<1>3. DOMAIN f.fragments = 0..(t - 1)
  BY <1>2 DEF PendingFrame
<1>4. Cardinality(Filled(f)) # Cardinality(0..(t - 1))
  BY <1>2, SlotsFinite DEF TypeInv, CountedRight, FragTotals
<1>5. Filled(f) # 0..(t - 1)
  BY <1>4
<1> QED
  BY <1>3, <1>5 DEF Filled

\* Whatever is lost or reordered, no frame whose chunks have all arrived stays
\* in the reassembler.
THEOREM NoneHeldBack == Spec => []NoCompleteFrameHeld
<1>1. TypeInv => NoCompleteFrameHeld
  <2> SUFFICES ASSUME TypeInv, NEW id \in InFlight(pending)
               PROVE  \E i \in DOMAIN pending[id].fragments :
                         pending[id].fragments[i] = NoChunk
    BY DEF NoCompleteFrameHeld
  <2>1. pending[id] \in Frames
    BY DEF TypeInv, TypeOK, Tables, InFlight
  <2>2. DOMAIN pending[id].fragments = 0..(pending[id].frag_total - 1)
    BY <2>1, FrameShape DEF PendingFrame
  <2> QED
    BY <2>2, ChunkMissing
<1> QED
  BY <1>1, TypeInvHolds, PTL
-----------------------------------------------------------------------------
(* The reassembler's memory is bounded *)

\* A non-empty finite set of numbers has a least element.
LEMMA MinExists ==
    ASSUME NEW S, S \subseteq Nat, IsFiniteSet(S), S # {}
    PROVE  \E x \in S : \A y \in S : x <= y
<1> DEFINE Below(x) == {y \in S : y < x}
           T == {Below(x) : x \in S}
<1>1. T \subseteq FiniteSubsetsOf(S) /\ T # {}
  <2>1. \A x \in S : IsFiniteSet(Below(x)) /\ Below(x) \in SUBSET S
    BY FS_Subset
  <2>2. \A x \in S : Below(x) \in FiniteSubsetsOf(S)
    BY <2>1, Zenon DEF FiniteSubsetsOf
  <2>3. T \subseteq FiniteSubsetsOf(S)
    BY <2>2, Zenon
  <2>4. T # {}
    <3>1. PICK x : x \in S
      OBVIOUS
    <3>2. Below(x) \in T
      BY <3>1, Zenon
    <3> QED
      BY <3>2, Zenon
  <2> QED
    BY <2>3, <2>4
<1>2. PICK U \in T : \A V \in T : ~ (<<V, U>> \in StrictSubsetOrdering(S))
  <2> HIDE DEF T
  <2> QED
    BY <1>1, FS_StrictSubsetOrderingWellFounded, WFMin, Zenon
<1>3. PICK x \in S : U = Below(x)
  BY <1>2
<1>4. ASSUME NEW y \in S, y < x
      PROVE  FALSE
  <2>1. \A z \in S : z \in Nat
    OBVIOUS
  <2>2. \A z \in S : z < y => z < x
    BY <1>4, <2>1
  <2>3. Below(y) \subseteq Below(x) /\ y \in Below(x)
    BY <1>4, <2>2
  <2>5. y \notin Below(y)
    BY <2>1
  <2>4. <<Below(y), Below(x)>> \in StrictSubsetOrdering(S)
    BY <2>3, <2>5 DEF StrictSubsetOrdering
  <2> QED
    BY <1>2, <1>3, <2>4
<1> QED
  BY <1>4

\* The reassembler holds finitely many frames.
LEMMA InFlightFinite ==
    ASSUME NEW p
    PROVE  /\ InFlight(p) \subseteq Nat
           /\ IsFiniteSet(InFlight(p))
           /\ Cardinality(InFlight(p)) \in Nat
<1>1. IsFiniteSet(FrameIds) /\ InFlight(p) \in SUBSET FrameIds
  BY FS_Interval DEF FrameIds, InFlight
<1> QED
  BY <1>1, FS_Subset, FS_CardinalityType DEF FrameIds

\* Dropping frames does not raise their number.
LEMMA DroppedSmaller ==
    ASSUME NEW p \in Tables, NEW q \in Tables,
           InFlight(q) \subseteq InFlight(p)
    PROVE  Cardinality(InFlight(q)) <= Cardinality(InFlight(p))
BY InFlightFinite, FS_Subset

\* evict_oldest makes room for one frame.
LEMMA EvictOldestMakesRoom ==
    ASSUME NEW p \in Tables, InFlight(p) # {}
    PROVE  Cardinality(InFlight(evict_oldest(p))) <= Cardinality(InFlight(p)) - 1
<1> DEFINE S == InFlight(p)
<1>1. S \subseteq Nat /\ IsFiniteSet(S) /\ Cardinality(S) \in Nat
  BY InFlightFinite
<1>2. PICK x \in S : \A y \in S : x <= y
  BY <1>1, MinExists
<1>3. InFlight(evict_oldest(p)) \in SUBSET (S \ {x})
  BY <1>2 DEF InFlight, evict_oldest
<1>4. IsFiniteSet(S \ {x}) /\ Cardinality(S \ {x}) = Cardinality(S) - 1
  BY <1>1, <1>2, FS_RemoveElement
<1> QED
  BY <1>3, <1>4, FS_Subset

\* Making room for a frame before adding it respects the capacity.
LEMMA TrackBounded ==
    ASSUME NEW p \in Tables, NEW d \in Datagrams,
           Cardinality(InFlight(p)) <= MAX_IN_FLIGHT_FRAMES
    PROVE  Cardinality(InFlight(Track(p, d))) <= MAX_IN_FLIGHT_FRAMES
<1>1. d.frame_id \in FrameIds
  BY DEF Datagrams
<1>2. CASE p[d.frame_id] # NoFrame
  BY <1>2 DEF Track
<1>3. CASE p[d.frame_id] = NoFrame
  <2> DEFINE q == IF Cardinality(InFlight(p)) >= MAX_IN_FLIGHT_FRAMES
                  THEN evict_oldest(p) ELSE p
  <2>1. q \in Tables
    BY EvictOldestDrops DEF Dropped
  <2>2. Cardinality(InFlight(q)) <= MAX_IN_FLIGHT_FRAMES - 1
    <3>1. CASE Cardinality(InFlight(p)) >= MAX_IN_FLIGHT_FRAMES
      <4>1. InFlight(p) # {}
        BY <3>1, FS_EmptySet DEF TransportAssumption
      <4> QED
        BY <3>1, <4>1, EvictOldestMakesRoom, InFlightFinite DEF TransportAssumption
    <3>2. CASE ~ (Cardinality(InFlight(p)) >= MAX_IN_FLIGHT_FRAMES)
      BY <3>2, InFlightFinite DEF TransportAssumption
    <3> QED
      BY <3>1, <3>2
  <2>3. Track(p, d) = [q EXCEPT ![d.frame_id] = NewPendingFrame(d)]
    BY <1>3 DEF Track
  <2> HIDE DEF q
  <2>4. InFlight(Track(p, d)) \in SUBSET (InFlight(q) \cup {d.frame_id})
    BY <1>1, <2>1, <2>3 DEF InFlight, Tables
  <2>5. /\ IsFiniteSet(InFlight(q) \cup {d.frame_id})
        /\ Cardinality(InFlight(q) \cup {d.frame_id}) <= Cardinality(InFlight(q)) + 1
    <3> DEFINE S == InFlight(q)
    <3>1. IsFiniteSet(S) /\ Cardinality(S) \in Nat
      BY InFlightFinite
    <3> HIDE DEF S
    <3>2. /\ IsFiniteSet(S \cup {d.frame_id})
          /\ Cardinality(S \cup {d.frame_id}) =
                IF d.frame_id \in S THEN Cardinality(S) ELSE Cardinality(S) + 1
      BY <3>1, FS_AddElement, Zenon
    <3> QED
      BY <3>1, <3>2 DEF S
  <2>6. Cardinality(InFlight(Track(p, d))) <= Cardinality(InFlight(q) \cup {d.frame_id})
    BY <2>4, <2>5, FS_Subset
  <2> QED
    BY <2>2, <2>5, <2>6, InFlightFinite, FS_CardinalityType DEF TransportAssumption
<1> QED
  BY <1>2, <1>3

\* No order of arrival makes the client hold more than MAX_IN_FLIGHT_FRAMES
\* incomplete frames.
THEOREM MemoryBounded == Spec => []PendingBounded
<1>1. Init => PendingBounded
  <2> SUFFICES ASSUME Init PROVE PendingBounded
    OBVIOUS
  <2>1. InFlight(pending) = {}
    BY DEF Init, InFlight
  <2> QED
    BY <2>1, FS_EmptySet DEF PendingBounded, TransportAssumption
<1>2. TypeInv /\ PendingBounded /\ [Next]_vars => PendingBounded'
  <2> SUFFICES ASSUME TypeInv, PendingBounded, [Next]_vars
               PROVE  PendingBounded'
    OBVIOUS
  <2>1. CASE pending' = pending
    BY <2>1 DEF PendingBounded, InFlight
  <2>2. ASSUME NEW d \in net, RecvVideo(d)
        PROVE  PendingBounded'
    <3>0. PICK q : Outcome(q, d)
      BY <2>2, RecvVideoCases DEF TypeInv
    <3>1. /\ q = Track(Windowed(pending, d), d)
          /\ Tracked(q, d)
          /\ Ignored(q, d) \/ KeptOn(q, d) \/ Completed(q, d)
      BY <3>0 DEF Outcome
    <3>2. d \in Datagrams /\ pending \in Tables /\ d.frame_id \in FrameIds
      BY DEF TypeInv, TypeOK, Datagrams
    <3>3. /\ Windowed(pending, d) \in Tables
          /\ InFlight(Windowed(pending, d)) \subseteq InFlight(pending)
      <4>1. d.frame_id >= MAX_IN_FLIGHT_FRAMES
               => wrapping_sub(d.frame_id, MAX_IN_FLIGHT_FRAMES) \in Nat
        BY <3>2 DEF FrameIds, wrapping_sub, TransportAssumption
      <4> QED
        BY <3>2, <4>1, EvictBeforeDrops DEF Windowed, Dropped, InFlight
    <3>4. Cardinality(InFlight(Windowed(pending, d))) <= MAX_IN_FLIGHT_FRAMES
      BY <3>2, <3>3, DroppedSmaller, InFlightFinite DEF PendingBounded, TransportAssumption
    <3>5. Cardinality(InFlight(q)) <= MAX_IN_FLIGHT_FRAMES
      BY <3>1, <3>2, <3>3, <3>4, TrackBounded
    <3>6. pending' \in Tables /\ InFlight(pending') \subseteq InFlight(q)
      <4>1. q \in Tables /\ q[d.frame_id] # NoFrame
        BY <3>1, FrameShape DEF Tracked
      <4>2. CASE Ignored(q, d)
        BY <4>1, <4>2 DEF Ignored
      <4>3. CASE KeptOn(q, d)
        <5>1. Stored(q[d.frame_id], d) \in Frames
          BY <3>1, <3>2, <4>3, StoredFacts, PendingFrameIsFrame DEF KeptOn
        <5> QED
          BY <3>2, <4>1, <4>3, <5>1 DEF KeptOn, InFlight, Tables
      <4>4. CASE Completed(q, d)
        BY <3>2, <4>1, <4>4 DEF Completed, InFlight, Tables
      <4> QED
        BY <3>1, <4>2, <4>3, <4>4
    <3> QED
      BY <3>1, <3>5, <3>6, DroppedSmaller, InFlightFinite
      DEF PendingBounded, Tracked, TransportAssumption
  <2> QED
    BY <2>1, <2>2, NextCases DEF vars, SendVideo, Lose, Close
<1> QED
  BY <1>1, <1>2, TypeInvHolds, PTL DEF Spec
-----------------------------------------------------------------------------
(* Frame integrity *)

\* Different packets of a connection have different contents.
LEMMA PacketsDiffer ==
    ASSUME NEW n \in Nat, NEW m \in Nat, NEW t \in FragTotals, NEW u \in FragTotals,
           NEW k, NEW l, EncodedPacket(n, t, k) = EncodedPacket(m, u, l)
    PROVE  n = m
<1>1. 0 \in 0..(t - 1) /\ 0 \in 0..(u - 1)
  BY DEF FragTotals
<1>2. EncodedPacket(n, t, k).data[0] = <<n, 0>> /\ EncodedPacket(m, u, l).data[0] = <<m, 0>>
  BY <1>1 DEF EncodedPacket, Channel!EncodedPacket
<1> QED
  BY <1>2

\* send_video is never given the same packet twice.
LEMMA SentDiffer ==
    ASSUME SentShape, NEW n \in 1..Len(sent), NEW m \in 1..Len(sent),
           Len(sent) \in Nat, sent[n] = sent[m]
    PROVE  n = m
BY PacketsDiffer DEF SentShape

\* The slots of a frame determine how many fragments it has.
LEMMA SlotsInjective ==
    ASSUME NEW t \in FragTotals, NEW u \in FragTotals, 0..(t - 1) = 0..(u - 1)
    PROVE  t = u
<1>1. t - 1 \in 0..(u - 1) /\ u - 1 \in 0..(t - 1)
  BY DEF FragTotals
<1> QED
  BY <1>1 DEF FragTotals

\* Datagrams in flight of the same packet agree on its header, and are told
\* apart by their frag_index.
LEMMA SamePacket ==
    ASSUME NEW d \in Datagrams, NEW e \in Datagrams, Genuine(d), Genuine(e),
           d.frame_id = e.frame_id
    PROVE  /\ d.frag_total = e.frag_total
           /\ d.frag_index = e.frag_index => d = e
<1>1. d.frag_total = e.frag_total
  BY SlotsInjective DEF Genuine, Datagrams
<1>2. d.is_keyframe = e.is_keyframe
  BY DEF Genuine
<1>3. d.frag_index = e.frag_index => d.payload = e.payload
  BY DEF Genuine
<1> QED
  BY <1>1, <1>2, <1>3 DEF Datagrams

\* The table recv_video works on still holds only parts of packets, and none of
\* the chunks that are in flight.
LEMMA TrackedParts ==
    ASSUME TypeOK, IInv, NEW d \in net, NEW q, Tracked(q, d)
    PROVE  /\ \A id \in InFlight(q) : PartOfPacket(q[id], id)
           /\ \A e \in net : NotStored(q, e)
<1>1. /\ d \in Datagrams /\ d.frame_id \in FrameIds /\ Genuine(d)
      /\ q[d.frame_id] \in Frames /\ q[d.frame_id] # NoFrame
  BY FrameShape DEF TypeOK, Datagrams, IInv, Tracked
<1>2. PartOfPacket(NewPendingFrame(d), d.frame_id)
  BY <1>1 DEF Genuine, PartOfPacket, NewPendingFrame
<1>3. ASSUME NEW id \in InFlight(q)
      PROVE  PartOfPacket(q[id], id)
  <2>1. CASE q[id] = pending[id]
    BY <1>3, <2>1 DEF IInv, InFlight
  <2>2. CASE q[id] # pending[id]
    <3>1. id = d.frame_id /\ q[id] = NewPendingFrame(d)
      BY <1>3, <2>2 DEF Tracked, InFlight
    <3> QED
      BY <1>2, <3>1
  <2> QED
    BY <2>1, <2>2
<1>4. ASSUME NEW e \in net
      PROVE  NotStored(q, e)
  <2>1. e \in Datagrams /\ e.frame_id \in FrameIds /\ Genuine(e) /\ NotStored(pending, e)
    BY DEF TypeOK, Datagrams, IInv, NotYetUsed
  <2>2. CASE q[e.frame_id] \in {pending[e.frame_id], NoFrame}
    BY <2>1, <2>2 DEF NotStored
  <2>3. CASE q[e.frame_id] \notin {pending[e.frame_id], NoFrame}
    <3>1. e.frame_id = d.frame_id /\ q[e.frame_id] = NewPendingFrame(d)
      BY <2>1, <2>3 DEF Tracked
    <3>2. e.frag_index \in 0..(d.frag_total - 1)
      BY <1>1, <2>1, <3>1, SamePacket DEF Genuine, Datagrams, FragIndices, FragTotals
    <3> QED
      BY <3>1, <3>2 DEF NotStored, NewPendingFrame
  <2> QED
    BY <2>2, <2>3
<1> QED
  BY <1>3, <1>4

\* A call of send_video keeps the invariant as long as frame_ids do not wrap.
LEMMA SendKeepsIInv ==
    ASSUME NoWrap, TypeOK, IInv, NEW total \in FragTotals, NEW key \in BOOLEAN,
           NEW queued \in 0..total, SendVideo(total, key, queued)
    PROVE  IInv'
<1> DEFINE n == Len(sent) + 1
           packet == EncodedPacket(n, total, key)
<1>1. /\ Len(sent) \in Nat /\ n \in Nat /\ Len(sent) < MaxPackets
      /\ sent' = Append(sent, packet) /\ sent \in Seq(Channel!EncodedPackets)
      /\ pending' = pending /\ delivered' = delivered
  BY DEF SendVideo, TypeOK
<1>2. /\ Len(sent') = n /\ sent'[n] = packet
      /\ \A m \in 1..Len(sent) : sent'[m] = sent[m]
  BY <1>1
<1>3. frame_counter = Len(sent)
  BY <1>1 DEF NoWrap, IInv, Numbered, TransportAssumption
<1>4. /\ packet.is_keyframe = key
      /\ DOMAIN packet.data = 0..(total - 1)
      /\ \A i \in 0..(total - 1) : packet.data[i] = <<n, i>>
  BY DEF EncodedPacket, Channel!EncodedPacket
<1>5. Numbered'
  BY <1>1, <1>2, <1>3 DEF SendVideo, Numbered, wrapping_add
<1>6. SentShape'
  <2> SUFFICES ASSUME NEW m \in 1..n
               PROVE  \E t \in FragTotals, k \in BOOLEAN : sent'[m] = EncodedPacket(m, t, k)
    BY <1>2 DEF SentShape
  <2> QED
    BY <1>1, <1>2 DEF IInv, SentShape
<1>7. ~ (\E i \in DOMAIN delivered : delivered[i] = packet)
  <2> SUFFICES ASSUME NEW i \in DOMAIN delivered, delivered[i] = packet
               PROVE  FALSE
    OBVIOUS
  <2>1. PICK m \in DOMAIN sent : packet = sent[m]
    BY DEF IInv, FrameIntegrity
  <2>2. m \in 1..Len(sent)
    BY <1>1, <2>1
  <2>3. PICK t \in FragTotals, k \in BOOLEAN : packet = EncodedPacket(m, t, k)
    BY <2>1, <2>2 DEF IInv, SentShape
  <2>4. n = m
    BY <1>1, <2>2, <2>3, PacketsDiffer
  <2> QED
    BY <1>1, <2>2, <2>4
<1> HIDE DEF packet
<1>8. ASSUME NEW d \in net'
      PROVE  Genuine(d)' /\ NotYetUsed(d)'
  <2>1. CASE d \in net
    <3>1. Genuine(d) /\ NotYetUsed(d) /\ d.frame_id + 1 \in 1..Len(sent)
      BY <1>1, <2>1 DEF IInv, Genuine, TypeOK, Datagrams, FrameIds
    <3>2. sent'[d.frame_id + 1] = sent[d.frame_id + 1]
      BY <1>2, <3>1, Zenon
    <3>3. d.frame_id < Len(sent')
      BY <1>1, <1>2, <2>1 DEF IInv, Genuine, TypeOK, Datagrams, FrameIds
    <3> QED
      BY <1>1, <3>1, <3>2, <3>3
      DEF Genuine, NotYetUsed, NotStored, Channel!WasDelivered
  <2>2. CASE d \notin net
    <3>1. d \in fragment(packet, frame_counter, total)
      BY <2>2 DEF SendVideo, packet
    <3>2. PICK i \in 0..(total - 1) :
              d = [frame_id |-> frame_counter, frag_index |-> i, frag_total |-> total,
                   is_keyframe |-> packet.is_keyframe, payload |-> packet.data[i]]
      BY <3>1 DEF fragment
    <3>3. /\ d.frame_id = Len(sent) /\ d.frame_id + 1 = n
          /\ d.frag_total = total /\ d.frag_index = i
          /\ d.is_keyframe = packet.is_keyframe /\ d.payload = <<n, i>>
      BY <1>3, <1>4, <3>2
    <3>4. Genuine(d)'
      BY <1>1, <1>2, <1>4, <3>3 DEF Genuine, FragTotals
    <3>5. pending[d.frame_id] = NoFrame
      <4>1. d.frame_id \in FrameIds
        BY <1>3, <3>3 DEF TypeOK
      <4>2. ~ (d.frame_id < Len(sent))
        BY <1>1, <3>3
      <4> QED
        BY <4>1, <4>2 DEF IInv, PartOfPacket, InFlight
    <3>6. NotYetUsed(d)'
      BY <1>1, <1>2, <1>7, <3>3, <3>5 DEF NotYetUsed, NotStored, Channel!WasDelivered
    <3> QED
      BY <3>4, <3>6
  <2> QED
    BY <2>1, <2>2
<1>9. (\A id \in InFlight(pending) : PartOfPacket(pending[id], id))'
  <2> SUFFICES ASSUME NEW id \in InFlight(pending)
               PROVE  PartOfPacket(pending[id], id)'
    BY <1>1 DEF InFlight
  <2>1. PartOfPacket(pending[id], id) /\ id + 1 \in 1..Len(sent)
    BY <1>1 DEF IInv, PartOfPacket, InFlight, FrameIds
  <2>2. sent'[id + 1] = sent[id + 1]
    BY <1>2, <2>1, Zenon
  <2>3. id < Len(sent')
    BY <1>1, <1>2, <2>1 DEF PartOfPacket, InFlight, FrameIds
  <2> QED
    BY <1>1, <2>1, <2>2, <2>3 DEF PartOfPacket
<1>10. FrameIntegrity'
  <2> SUFFICES ASSUME NEW i \in DOMAIN delivered
               PROVE  \E m \in DOMAIN sent' : delivered[i] = sent'[m]
    BY <1>1 DEF FrameIntegrity
  <2>1. PICK m \in DOMAIN sent : delivered[i] = sent[m]
    BY DEF IInv, FrameIntegrity
  <2>2. m \in 1..Len(sent) /\ m \in DOMAIN sent'
    BY <1>1, <1>2, <2>1
  <2> QED
    BY <1>2, <2>1, <2>2
<1> QED
  BY <1>5, <1>6, <1>8, <1>9, <1>10 DEF IInv
\* The frame that d completes, put together, is the packet d is a part of.
LEMMA CompletedIsSent ==
    ASSUME TypeInv, IInv, NEW d \in net, NEW q, Tracked(q, d), Completed(q, d)
    PROVE  /\ assemble(Stored(q[d.frame_id], d)) = sent[d.frame_id + 1]
           /\ \A e \in net \ {d} : e.frame_id # d.frame_id
<1> DEFINE f == q[d.frame_id]
           s == Stored(f, d)
           t == f.frag_total
           n == d.frame_id + 1
<1>1. d \in Datagrams /\ d.frame_id \in FrameIds /\ Genuine(d) /\ Len(sent) \in Nat
  BY DEF TypeInv, TypeOK, IInv, Datagrams
<1>2. f \in Frames /\ f # NoFrame /\ PartOfPacket(f, d.frame_id)
  BY <1>1, FrameShape, TrackedParts DEF TypeInv, Tracked, InFlight
<1>3. /\ t \in FragTotals /\ f \in PendingFrame(t)
      /\ s \in PendingFrame(t) /\ Filled(s) = 0..(t - 1)
      /\ s.is_keyframe = f.is_keyframe
      /\ s.fragments = [f.fragments EXCEPT ![d.frag_index] = d.payload]
  BY <1>1, <1>2, StoredFacts, FrameShape DEF Completed
<1>4. PICK u \in FragTotals, k \in BOOLEAN : sent[n] = EncodedPacket(n, u, k)
  <2>1. n \in 1..Len(sent)
    BY <1>1 DEF Genuine, FrameIds
  <2> QED
    BY <2>1, Zenon DEF IInv, SentShape
<1>5. /\ DOMAIN sent[n].data = 0..(u - 1)
      /\ sent[n] = [data |-> [i \in 0..(u - 1) |-> <<n, i>>], is_keyframe |-> k]
  BY <1>4 DEF EncodedPacket, Channel!EncodedPacket
<1>6. u = t /\ d.frag_total = t /\ k = f.is_keyframe
  <2>1. 0..(u - 1) = 0..(t - 1) /\ 0..(d.frag_total - 1) = 0..(t - 1) /\ k = f.is_keyframe
    BY <1>1, <1>2, <1>5 DEF PartOfPacket, Genuine
  <2> QED
    BY <1>1, <1>3, <1>4, <2>1, SlotsInjective DEF Datagrams
<1>7. /\ f.fragments \in [0..(t - 1) -> Chunks \cup {NoChunk}]
      /\ d.frag_index \in 0..(t - 1) /\ d.payload = <<n, d.frag_index>>
      /\ \A i \in 0..(t - 1) : f.fragments[i] \in {NoChunk, <<n, i>>}
      /\ DOMAIN s.fragments = 0..(t - 1)
  <2>1. f.fragments \in [0..(t - 1) -> Chunks \cup {NoChunk}]
    BY <1>3 DEF PendingFrame
  <2>2. d.frag_index \in 0..(t - 1) /\ d.payload = <<n, d.frag_index>>
    BY <1>1, <1>3, <1>6 DEF Genuine, Datagrams, FragIndices, FragTotals
  <2>3. \A i \in 0..(t - 1) : f.fragments[i] \in {NoChunk, <<n, i>>}
    BY <1>2 DEF PartOfPacket
  <2> HIDE DEF f, s
  <2>4. DOMAIN s.fragments = 0..(t - 1)
    BY <1>3, <2>1
  <2> QED
    BY <2>1, <2>2, <2>3, <2>4
<1> HIDE DEF f, s, n
<1>8. s.fragments = [i \in 0..(t - 1) |-> <<n, i>>]
  <2>1. \A i \in 0..(t - 1) : s.fragments[i] # NoChunk
    BY <1>3, <1>7 DEF Filled
  <2>2. \A i \in 0..(t - 1) : s.fragments[i] \in {NoChunk, <<n, i>>}
    BY <1>3, <1>7
  <2>3. s.fragments \in [0..(t - 1) -> Chunks \cup {NoChunk}]
    BY <1>3 DEF PendingFrame
  <2> QED
    BY <2>1, <2>2, <2>3
<1>9. assemble(s) = sent[n]
  BY <1>3, <1>5, <1>6, <1>8 DEF assemble
<1>10. ASSUME NEW e \in net \ {d}, e.frame_id = d.frame_id
       PROVE  FALSE
  <2>1. e \in Datagrams /\ Genuine(e) /\ NotStored(q, e)
    BY TrackedParts DEF TypeInv, TypeOK, IInv
  <2>2. e.frag_total = t /\ e.frag_index # d.frag_index
    BY <1>1, <1>6, <1>10, <2>1, SamePacket
  <2>3. e.frag_index \in 0..(t - 1)
    BY <2>1, <2>2 DEF Genuine, Datagrams, FragIndices, FragTotals
  <2>4. f.fragments[e.frag_index] = NoChunk
    BY <1>2, <1>10, <2>1 DEF NotStored, f
  <2>5. s.fragments[e.frag_index] = NoChunk
    BY <1>3, <1>7, <2>2, <2>3, <2>4
  <2> QED
    BY <1>3, <2>3, <2>5 DEF Filled
<1> QED
  BY <1>9, <1>10 DEF f, s, n

\* One turn of recv_video's loop keeps the invariant.
LEMMA RecvKeepsIInv ==
    ASSUME TypeInv, IInv, NEW d \in net, RecvVideo(d)
    PROVE  IInv'
<1>1. PICK q : Outcome(q, d)
  BY RecvVideoCases DEF TypeInv
<1>2. /\ d \in Datagrams /\ d.frame_id \in FrameIds
      /\ net' = net \ {d} /\ sent' = sent /\ frame_counter' = frame_counter
      /\ Len(sent) \in Nat /\ delivered \in DeliveredType
      /\ Tracked(q, d) /\ q \in Tables /\ q[d.frame_id] # NoFrame /\ q[d.frame_id] \in Frames
  BY <1>1, RecvVideoCases, FrameShape
  DEF TypeInv, TypeOK, Datagrams, Outcome, Tracked, DeliveredType
<1>3. /\ \A id \in InFlight(q) : PartOfPacket(q[id], id)
      /\ \A e \in net : NotStored(q, e)
      /\ \A e \in net : e \in Datagrams /\ e.frame_id \in FrameIds /\ Genuine(e)
      /\ \A e \in net : ~ Channel!WasDelivered(sent[e.frame_id + 1])
  BY <1>2, TrackedParts DEF TypeInv, TypeOK, Datagrams, IInv, NotYetUsed
<1>4. Numbered' /\ SentShape'
  BY <1>2 DEF IInv, Numbered, SentShape
<1>5. CASE Ignored(q, d)
  <2>1. \A id \in InFlight(pending)' : PartOfPacket(pending[id], id)'
    BY <1>2, <1>3, <1>5 DEF Ignored, InFlight, PartOfPacket
  <2>2. \A e \in net' : Genuine(e)' /\ NotYetUsed(e)'
    BY <1>2, <1>3, <1>5 DEF Ignored, Genuine, NotYetUsed, NotStored, Channel!WasDelivered
  <2>3. FrameIntegrity'
    BY <1>2, <1>5 DEF Ignored, IInv, FrameIntegrity
  <2> QED
    BY <1>4, <2>1, <2>2, <2>3 DEF IInv
<1>6. CASE KeptOn(q, d)
  <2> DEFINE f == q[d.frame_id]
             s == Stored(f, d)
  <2>1. /\ s.frag_total = f.frag_total /\ s.is_keyframe = f.is_keyframe
        /\ s.fragments = [f.fragments EXCEPT ![d.frag_index] = d.payload]
        /\ f \in PendingFrame(f.frag_total)
    BY <1>2, <1>6, StoredFacts, FrameShape DEF KeptOn
  <2>2. PartOfPacket(f, d.frame_id) /\ Genuine(d)
    BY <1>2, <1>3 DEF InFlight
  <2>3. pending' = [q EXCEPT ![d.frame_id] = s] /\ delivered' = delivered
    BY <1>6 DEF KeptOn
  <2>4. DOMAIN f.fragments = 0..(f.frag_total - 1)
    BY <2>1 DEF PendingFrame
  <2> HIDE DEF s
  <2>5. PartOfPacket(s, d.frame_id)
    BY <2>1, <2>2, <2>4 DEF PartOfPacket, Genuine
  <2>6. pending'[d.frame_id] = s
        /\ \A id \in FrameIds \ {d.frame_id} : pending'[id] = q[id]
    BY <1>2, <2>3 DEF Tables
  <2>7. \A id \in InFlight(pending)' : PartOfPacket(pending[id], id)'
    BY <1>2, <1>3, <2>5, <2>6 DEF InFlight, PartOfPacket
  <2>8. ASSUME NEW e \in net'
        PROVE  NotStored(pending', e)
    <3>1. CASE e.frame_id = d.frame_id
      <4>1. e.frag_index # d.frag_index
        BY <1>2, <1>3, <2>8, <3>1, SamePacket
      <4>2. f.fragments[e.frag_index] = NoChunk
        BY <1>2, <1>3, <2>8, <3>1 DEF NotStored
      <4>3. e.frag_index \in 0..(f.frag_total - 1)
        <5>1. DOMAIN sent[d.frame_id + 1].data = 0..(e.frag_total - 1)
          BY <1>2, <1>3, <2>8, <3>1 DEF Genuine
        <5>2. 0..(e.frag_total - 1) = 0..(f.frag_total - 1)
          BY <2>2, <5>1 DEF PartOfPacket
        <5>3. e.frag_index \in 0..(e.frag_total - 1)
          BY <1>2, <1>3, <2>8 DEF Genuine, Datagrams, FragIndices, FragTotals
        <5> QED
          BY <5>2, <5>3
      <4>4. s.fragments[e.frag_index] = NoChunk
        BY <2>1, <2>4, <4>1, <4>2, <4>3
      <4> QED
        BY <2>6, <3>1, <4>4 DEF NotStored
    <3>2. CASE e.frame_id # d.frame_id
      BY <1>2, <1>3, <2>6, <2>8, <3>2 DEF NotStored
    <3> QED
      BY <3>1, <3>2
  <2>9. \A e \in net' : Genuine(e)' /\ NotYetUsed(e)'
    BY <1>2, <1>3, <2>3, <2>8 DEF Genuine, NotYetUsed, NotStored, Channel!WasDelivered
  <2>10. FrameIntegrity'
    BY <1>2, <2>3 DEF IInv, FrameIntegrity
  <2> QED
    BY <1>4, <2>7, <2>9, <2>10 DEF IInv
<1>7. CASE Completed(q, d)
  <2> DEFINE r == assemble(Stored(q[d.frame_id], d))
  <2>1. /\ r = sent[d.frame_id + 1]
        /\ \A e \in net \ {d} : e.frame_id # d.frame_id
    BY <1>2, <1>7, CompletedIsSent
  <2>2. pending' = [q EXCEPT ![d.frame_id] = NoFrame] /\ delivered' = Append(delivered, r)
    BY <1>7 DEF Completed
  <2> HIDE DEF r
  <2>3. pending'[d.frame_id] = NoFrame
        /\ \A id \in FrameIds \ {d.frame_id} : pending'[id] = q[id]
    BY <1>2, <2>2 DEF Tables
  <2>4. \A id \in InFlight(pending)' : PartOfPacket(pending[id], id)'
    BY <1>2, <1>3, <2>3 DEF InFlight, PartOfPacket
  <2>5. /\ DOMAIN delivered' = 1..(Len(delivered) + 1)
        /\ DOMAIN delivered = 1..Len(delivered) /\ Len(delivered) \in Nat
        /\ delivered'[Len(delivered) + 1] = r
        /\ \A i \in 1..Len(delivered) : delivered'[i] = delivered[i]
    BY <1>2, <2>2 DEF DeliveredType
  <2>6. d.frame_id + 1 \in 1..Len(sent)
    BY <1>2, <1>3 DEF Genuine, FrameIds
  <2>7. ASSUME NEW e \in net'
        PROVE  Genuine(e)' /\ NotYetUsed(e)'
    <3>1. e \in net /\ e # d /\ e.frame_id # d.frame_id /\ Genuine(e)
      BY <1>2, <1>3, <2>1
    <3>2. NotStored(pending', e)
      BY <1>3, <2>3, <3>1 DEF NotStored
    <3>3. e.frame_id + 1 \in 1..Len(sent) /\ e.frame_id + 1 # d.frame_id + 1
      BY <1>2, <1>3, <3>1 DEF Genuine, FrameIds
    <3>4. sent[e.frame_id + 1] # r
      <4> DEFINE n == e.frame_id + 1
                 m == d.frame_id + 1
      <4>1. n \in 1..Len(sent) /\ m \in 1..Len(sent) /\ n # m /\ r = sent[m]
        BY <2>1, <2>6, <3>3
      <4> HIDE DEF n, m
      <4>2. sent[n] # sent[m]
        BY <1>2, <4>1, SentDiffer DEF IInv
      <4> QED
        BY <4>1, <4>2 DEF n
    <3>5. ~ (\E i \in DOMAIN delivered' : delivered'[i] = sent[e.frame_id + 1])
      <4> DEFINE x == sent[e.frame_id + 1]
      <4>1. x # r /\ ~ (\E i \in DOMAIN delivered : delivered[i] = x)
        BY <1>3, <3>1, <3>4 DEF Channel!WasDelivered
      <4> HIDE DEF x
      <4>2. \A i \in 1..(Len(delivered) + 1) : delivered'[i] # x
        BY <2>5, <4>1
      <4> QED
        BY <2>5, <4>2 DEF x
    <3> QED
      BY <1>2, <3>1, <3>2, <3>5 DEF Genuine, NotYetUsed, NotStored, Channel!WasDelivered
  <2>8. FrameIntegrity'
    <3> SUFFICES ASSUME NEW i \in 1..(Len(delivered) + 1)
                 PROVE  \E m \in DOMAIN sent : delivered'[i] = sent[m]
      BY <1>2, <2>5 DEF FrameIntegrity
    <3>1. CASE i \in 1..Len(delivered)
      BY <2>5, <3>1 DEF IInv, FrameIntegrity
    <3>2. CASE i = Len(delivered) + 1
      <4>1. delivered'[i] = sent[d.frame_id + 1]
        BY <2>1, <2>5, <3>2
      <4>2. DOMAIN sent = 1..Len(sent)
        BY DEF TypeInv, TypeOK
      <4> QED
        BY <2>6, <4>1, <4>2
    <3> QED
      BY <2>5, <3>1, <3>2
  <2> QED
    BY <1>4, <2>4, <2>7, <2>8 DEF IInv
<1> QED
  BY <1>1, <1>5, <1>6, <1>7 DEF Outcome

\* Losing a datagram, or the connection, keeps the invariant.
LEMMA LosingKeepsIInv ==
    ASSUME IInv, net' \subseteq net,
           UNCHANGED <<frame_counter, sent, pending, delivered>>
    PROVE  IInv'
<1>1. \A e \in net' : Genuine(e)' /\ NotYetUsed(e)'
  BY DEF IInv, Genuine, NotYetUsed, NotStored, Channel!WasDelivered
<1> QED
  BY <1>1 DEF IInv, Numbered, SentShape, InFlight, PartOfPacket, FrameIntegrity

\* The strengthened invariant holds as long as frame_ids do not wrap.
LEMMA IInvHolds ==
    ASSUME NoWrap
    PROVE  Spec => []IInv
<1>1. Init => IInv
  <2> SUFFICES ASSUME Init PROVE IInv
    OBVIOUS
  <2> QED
    BY DEF Init, IInv, Numbered, SentShape, InFlight, FrameIntegrity
<1>2. TypeInv /\ IInv /\ [Next]_vars => IInv'
  <2> SUFFICES ASSUME TypeInv, IInv, [Next]_vars PROVE IInv'
    OBVIOUS
  <2>1. ASSUME NEW total \in FragTotals, NEW key \in BOOLEAN, NEW queued \in 0..total,
               SendVideo(total, key, queued)
        PROVE  IInv'
    BY <2>1, SendKeepsIInv DEF TypeInv
  <2>2. ASSUME NEW d \in net, RecvVideo(d)
        PROVE  IInv'
    BY <2>2, RecvKeepsIInv
  <2>3. ASSUME NEW d \in net, Lose(d)
        PROVE  IInv'
    BY <2>3, LosingKeepsIInv DEF Lose
  <2>4. CASE Close
    BY <2>4, LosingKeepsIInv DEF Close
  <2>5. CASE UNCHANGED vars
    BY <2>5, LosingKeepsIInv DEF vars
  <2> QED
    BY <2>1, <2>2, <2>3, <2>4, <2>5, NextCases
<1> QED
  BY <1>1, <1>2, TypeInvHolds, PTL DEF Spec
\* Every frame handed to the decoder has the data and the keyframe flag of a packet
\* the host encoded, on every connection short enough for frame_ids not to wrap.
THEOREM FramesAreSentPackets ==
    ASSUME NoWrap
    PROVE  Spec => []FrameIntegrity
<1>1. IInv => FrameIntegrity
  BY DEF IInv
<1> QED
  BY <1>1, IInvHolds, PTL

-----------------------------------------------------------------------------
(* The oldest frames are the ones dropped *)

\* The frames that datagram d moves out of the window are those below a bound.
LEMMA WindowedFacts ==
    ASSUME NEW p \in Tables, NEW d \in Datagrams
    PROVE  \E bound \in Nat :
              /\ bound <= d.frame_id
              /\ Windowed(p, d) = [x \in FrameIds |-> IF x < bound THEN NoFrame ELSE p[x]]
              /\ \A x \in FrameIds : x < bound => x + MAX_IN_FLIGHT_FRAMES < d.frame_id
<1>1. d.frame_id \in Nat /\ MAX_IN_FLIGHT_FRAMES \in Nat /\ \A x \in FrameIds : x \in Nat
  BY DEF Datagrams, FrameIds, TransportAssumption
<1>2. CASE d.frame_id >= MAX_IN_FLIGHT_FRAMES
  <2> DEFINE bound == d.frame_id - MAX_IN_FLIGHT_FRAMES
  <2>1. /\ bound \in Nat /\ bound <= d.frame_id
        /\ wrapping_sub(d.frame_id, MAX_IN_FLIGHT_FRAMES) = bound
    BY <1>1, <1>2 DEF wrapping_sub
  <2>2. \A x \in FrameIds : x < bound => x + MAX_IN_FLIGHT_FRAMES < d.frame_id
    BY <1>1, <1>2
  <2> HIDE DEF bound
  <2>3. Windowed(p, d) = [x \in FrameIds |-> IF x < bound THEN NoFrame ELSE p[x]]
    BY <1>2, <2>1 DEF Windowed, evict_before
  <2> QED
    BY <2>1, <2>2, <2>3
<1>3. CASE ~ (d.frame_id >= MAX_IN_FLIGHT_FRAMES)
  <2>1. Windowed(p, d) = p
    BY <1>3 DEF Windowed
  <2>2. \A x \in FrameIds : ~ (x < 0)
    BY <1>1
  <2>3. p = [x \in FrameIds |-> IF x < 0 THEN NoFrame ELSE p[x]]
    BY <2>2 DEF Tables
  <2> QED
    BY <1>1, <2>1, <2>2, <2>3
<1> QED
  BY <1>2, <1>3

\* A frame that recv_video drops to track d precedes every frame it keeps.
LEMMA TrackDropsOldest ==
    ASSUME NEW p \in Tables, NEW d \in Datagrams,
           NEW id \in InFlight(p), NEW kept \in InFlight(p),
           Track(Windowed(p, d), d)[id] = NoFrame,
           Track(Windowed(p, d), d)[kept] # NoFrame
    PROVE  id < kept
<1> DEFINE w == Windowed(p, d)
           q == Track(w, d)
<1>1. /\ d.frame_id \in FrameIds /\ id \in FrameIds /\ kept \in FrameIds
      /\ d.frame_id \in Nat /\ id \in Nat /\ kept \in Nat
  BY DEF Datagrams, InFlight, FrameIds
<1>2. PICK bound \in Nat : /\ bound <= d.frame_id
                           /\ w = [x \in FrameIds |-> IF x < bound THEN NoFrame ELSE p[x]]
  BY WindowedFacts
<1> HIDE DEF w
<1>3. p[id] # NoFrame /\ p[kept] # NoFrame /\ q[id] = NoFrame /\ q[kept] # NoFrame
  BY DEF InFlight, w
<1>4. w \in Tables
  BY <1>2 DEF Tables
<1>5. /\ q[d.frame_id] # NoFrame
      /\ \A x \in FrameIds \ {d.frame_id} : q[x] \in {w[x], NoFrame}
  BY <1>4, TrackFacts, FrameShape
<1>6. ~ (kept < bound)
  BY <1>1, <1>2, <1>3, <1>5
<1>7. CASE id < bound
  BY <1>1, <1>6, <1>7
<1>8. CASE ~ (id < bound)
  <2>1. w[id] # NoFrame /\ w[kept] # NoFrame /\ id # d.frame_id
    BY <1>1, <1>2, <1>3, <1>5, <1>6, <1>8
  <2>2. w[d.frame_id] = NoFrame /\ q = [evict_oldest(w) EXCEPT ![d.frame_id] = NewPendingFrame(d)]
    BY <1>1, <1>3, <1>4, <2>1 DEF Track, Tables
  <2>3. evict_oldest(w)[id] = NoFrame
    BY <1>1, <1>3, <2>1, <2>2 DEF evict_oldest
  <2>4. id <= kept
    BY <1>1, <2>1, <2>3 DEF evict_oldest, InFlight
  <2> QED
    BY <1>1, <1>3, <2>4
<1> QED
  BY <1>7, <1>8

\* A frame that recv_video drops to track d is outside the window of d, or is the
\* only one dropped, from a full table.
LEMMA TrackDropsFor ==
    ASSUME NEW p \in Tables, NEW d \in Datagrams,
           Cardinality(InFlight(p)) <= MAX_IN_FLIGHT_FRAMES,
           NEW id \in InFlight(p), Track(Windowed(p, d), d)[id] = NoFrame
    PROVE  \/ id + MAX_IN_FLIGHT_FRAMES < d.frame_id
           \/ /\ Cardinality(InFlight(p)) >= MAX_IN_FLIGHT_FRAMES
              /\ \A other \in InFlight(p) :
                    Track(Windowed(p, d), d)[other] = NoFrame => other = id
<1> DEFINE w == Windowed(p, d)
           q == Track(w, d)
<1>1. /\ d.frame_id \in FrameIds /\ id \in FrameIds
      /\ p[id] # NoFrame /\ q[id] = NoFrame
  BY DEF Datagrams, InFlight
<1>2. PICK bound \in Nat :
         /\ w = [x \in FrameIds |-> IF x < bound THEN NoFrame ELSE p[x]]
         /\ \A x \in FrameIds : x < bound => x + MAX_IN_FLIGHT_FRAMES < d.frame_id
  BY WindowedFacts
<1> HIDE DEF w
<1>3. w \in Tables
  BY <1>2 DEF Tables
<1>4. q[d.frame_id] # NoFrame /\ id # d.frame_id
  BY <1>1, <1>3, TrackFacts, FrameShape
<1>5. CASE \E x \in InFlight(p) : x < bound
  <2>1. PICK x \in InFlight(p) : x < bound
    BY <1>5
  <2>2. InFlight(w) \in SUBSET (InFlight(p) \ {x})
    BY <1>2, <2>1 DEF InFlight
  <2>3. ~ (Cardinality(InFlight(w)) >= MAX_IN_FLIGHT_FRAMES)
    <3> DEFINE S == InFlight(p)
               T == InFlight(w)
    <3>1. IsFiniteSet(S) /\ Cardinality(S) \in Nat /\ Cardinality(T) \in Nat /\ x \in S
      BY <2>1, InFlightFinite
    <3>2. T \in SUBSET (S \ {x}) /\ Cardinality(S) <= MAX_IN_FLIGHT_FRAMES
      BY <2>2
    <3> HIDE DEF S, T
    <3>3. IsFiniteSet(S \ {x}) /\ Cardinality(S \ {x}) = Cardinality(S) - 1
      BY <3>1, FS_RemoveElement
    <3>4. Cardinality(T) <= Cardinality(S \ {x})
      BY <3>2, <3>3, FS_Subset
    <3>5. ~ (Cardinality(T) >= MAX_IN_FLIGHT_FRAMES)
      BY <3>1, <3>2, <3>3, <3>4 DEF TransportAssumption
    <3> QED
      BY <3>5 DEF T
  <2>4. q[id] = w[id]
    BY <1>1, <1>3, <1>4, <2>3 DEF Track, Tables
  <2>5. id < bound
    BY <1>1, <1>2, <2>4
  <2> QED
    BY <1>1, <1>2, <2>5
<1>6. CASE ~ \E x \in InFlight(p) : x < bound
  <2>1. w = p
    BY <1>2, <1>6 DEF InFlight, Tables
  <2>2. p[d.frame_id] = NoFrame /\ Cardinality(InFlight(p)) >= MAX_IN_FLIGHT_FRAMES
    BY <1>1, <1>4, <2>1 DEF Track, Tables
  <2>3. q = [evict_oldest(p) EXCEPT ![d.frame_id] = NewPendingFrame(d)]
    BY <2>1, <2>2 DEF Track
  <2>4. \A other \in InFlight(p) :
           q[other] = NoFrame => \A x \in InFlight(p) : other <= x
    <3> SUFFICES ASSUME NEW other \in InFlight(p), q[other] = NoFrame
                 PROVE  \A x \in InFlight(p) : other <= x
      OBVIOUS
    <3>1. other \in FrameIds /\ other # d.frame_id /\ p[other] # NoFrame
      BY <1>4 DEF InFlight
    <3>2. evict_oldest(p)[other] = NoFrame
      BY <1>1, <2>3, <3>1 DEF evict_oldest
    <3> QED
      BY <3>1, <3>2 DEF evict_oldest
  <2>5. \A other \in InFlight(p) : q[other] = NoFrame => other = id
    BY <1>1, <2>4, InFlightFinite
  <2> QED
    BY <2>2, <2>5 DEF w
<1> QED
  BY <1>5, <1>6

\* The frames in the table after a turn of recv_video's loop: those it tracked, but
\* for the one it completed.
LEMMA InFlightAfter ==
    ASSUME TypeInv, NEW d \in net, NEW q, Outcome(q, d)
    PROVE  /\ d.frame_id \in InFlight(q)
           /\ InFlight(pending') = InFlight(q) \ (IF delivered' = delivered THEN {} ELSE {d.frame_id})
<1>1. /\ d \in Datagrams /\ d.frame_id \in FrameIds /\ delivered \in DeliveredType
      /\ q \in Tables /\ q[d.frame_id] # NoFrame /\ Tracked(q, d)
  BY FrameShape DEF TypeInv, TypeOK, Datagrams, DeliveredType, Outcome, Tracked
<1>2. d.frame_id \in InFlight(q)
  BY <1>1 DEF InFlight
<1>3. CASE Ignored(q, d)
  BY <1>2, <1>3 DEF Ignored
<1>4. CASE KeptOn(q, d)
  <2>1. Stored(q[d.frame_id], d) # NoFrame
    <3>1. Stored(q[d.frame_id], d) \in Frames
      BY <1>1, <1>4, StoredFacts, PendingFrameIsFrame DEF KeptOn
    <3> QED
      BY <3>1, FrameShape
  <2> QED
    BY <1>1, <1>2, <1>4, <2>1 DEF KeptOn, InFlight, Tables
<1>5. CASE Completed(q, d)
  <2> DEFINE r == assemble(Stored(q[d.frame_id], d))
  <2>1. delivered' = Append(delivered, r)
    BY <1>5 DEF Completed
  <2> HIDE DEF r
  <2>2. Len(delivered') = Len(delivered) + 1 /\ Len(delivered) \in Nat
    BY <1>1, <2>1 DEF DeliveredType
  <2>3. delivered' # delivered
    BY <2>2
  <2>4. InFlight(pending') = InFlight(q) \ {d.frame_id}
    BY <1>1, <1>5 DEF Completed, InFlight, Tables
  <2> QED
    BY <1>2, <2>3, <2>4
<1> QED
  BY <1>3, <1>4, <1>5 DEF Outcome

\* Whatever arrives, a frame being reassembled is dropped only because it was sent
\* more than the window before the arriving one, or alone, from a full table; and
\* the frames that stay were sent later than the dropped ones.  On every connection
\* short enough for frame_ids not to wrap.
THEOREM OldestDropped ==
    ASSUME NoWrap
    PROVE  Spec => EvictsOldest
<1>1. TypeInv /\ PendingBounded /\ IInv /\ [Next]_vars =>
         [\A d \in net \ net' : \A id \in DroppedBy(d) :
             /\ \A kept \in InFlight(pending) \cap InFlight(pending') :
                   \A n \in PacketsIn(pending[id]), m \in PacketsIn(pending[kept]) : n < m
             /\ \/ \A n \in PacketsIn(pending[id]) : n + MAX_IN_FLIGHT_FRAMES < PacketOf(d)
                \/ /\ DroppedBy(d) = {id}
                   /\ Cardinality(InFlight(pending)) >= MAX_IN_FLIGHT_FRAMES]_vars
  <2> SUFFICES ASSUME TypeInv, PendingBounded, IInv, [Next]_vars,
                      NEW d \in net \ net', NEW id \in DroppedBy(d)
               PROVE  /\ \A kept \in InFlight(pending) \cap InFlight(pending') :
                            \A n \in PacketsIn(pending[id]), m \in PacketsIn(pending[kept]) : n < m
                      /\ \/ \A n \in PacketsIn(pending[id]) : n + MAX_IN_FLIGHT_FRAMES < PacketOf(d)
                         \/ /\ DroppedBy(d) = {id}
                            /\ Cardinality(InFlight(pending)) >= MAX_IN_FLIGHT_FRAMES
    OBVIOUS
  <2>1. RecvVideo(d)
    <3>1. pending' # pending
      BY DEF DroppedBy
    <3>2. PICK e \in net : RecvVideo(e)
      BY <3>1, NextCases DEF vars, SendVideo, Lose, Close
    <3> QED
      BY <3>2 DEF RecvVideo
  <2>2. PICK q : Outcome(q, d)
    BY <2>1, RecvVideoCases DEF TypeInv
  <2>3. d \in Datagrams /\ pending \in Tables /\ q = Track(Windowed(pending, d), d)
    BY <2>2 DEF TypeInv, TypeOK, Outcome
  <2>4. \A x : x \in DroppedBy(d) <=> x \in InFlight(pending) /\ q[x] = NoFrame
    BY <2>2, InFlightAfter DEF DroppedBy, InFlight
  <2>5. ASSUME NEW x \in InFlight(pending), NEW n \in PacketsIn(pending[x])
        PROVE  n = x + 1
    <3>1. /\ PartOfPacket(pending[x], x)
          /\ DOMAIN pending[x].fragments = 0..(pending[x].frag_total - 1)
      <4>1. pending[x] \in Frames
        BY <2>3 DEF Tables, InFlight
      <4> QED
        BY <4>1, FrameShape DEF IInv, PendingFrame
    <3> QED
      BY <2>5, <3>1 DEF PacketsIn, PartOfPacket
  <2>6. /\ id \in InFlight(pending) /\ q[id] = NoFrame
        /\ \A x \in InFlight(pending) : x \in Nat
    BY <2>4, InFlightFinite
  <2>7. ASSUME NEW kept \in InFlight(pending) \cap InFlight(pending'),
               NEW n \in PacketsIn(pending[id]), NEW m \in PacketsIn(pending[kept])
        PROVE  n < m
    <3>1. q[kept] # NoFrame
      BY <2>2, <2>7, InFlightAfter DEF InFlight
    <3>2. id < kept
      BY <2>3, <2>6, <2>7, <3>1, TrackDropsOldest
    <3> QED
      BY <2>5, <2>6, <2>7, <3>2
  <2>8. \/ \A n \in PacketsIn(pending[id]) : n + MAX_IN_FLIGHT_FRAMES < PacketOf(d)
        \/ /\ DroppedBy(d) = {id}
           /\ Cardinality(InFlight(pending)) >= MAX_IN_FLIGHT_FRAMES
    <3>1. CASE id + MAX_IN_FLIGHT_FRAMES < d.frame_id
      <4>1. PacketOf(d) = d.frame_id + 1 /\ d.frame_id \in Nat
        BY <2>3 DEF IInv, Genuine, PacketOf, Datagrams, FrameIds
      <4> QED
        BY <2>5, <2>6, <3>1, <4>1 DEF TransportAssumption
    <3>2. CASE /\ Cardinality(InFlight(pending)) >= MAX_IN_FLIGHT_FRAMES
               /\ \A other \in InFlight(pending) :
                     Track(Windowed(pending, d), d)[other] = NoFrame => other = id
      BY <2>3, <2>4, <2>6, <3>2
    <3> QED
      BY <2>3, <2>6, <3>1, <3>2, TrackDropsFor DEF PendingBounded
  <2> QED
    BY <2>7, <2>8
<1> QED
  BY <1>1, TypeInvHolds, MemoryBounded, IInvHolds, PTL DEF Spec, EvictsOldest
-----------------------------------------------------------------------------
(* Refinement *)

\* The transport implements the channel: each packet is returned at most once,
\* with its data and keyframe flag, on every connection short enough for frame_ids not to wrap.
THEOREM ImplementsChannel ==
    ASSUME NoWrap
    PROVE  Spec => RefinesChannel
<1>1. Init => Channel!ChannelInit
  BY DEF Init, Channel!ChannelInit
<1>2. TypeInv /\ IInv /\ [Next]_vars => [Channel!ChannelNext]_(Channel!channelVars)
  <2> SUFFICES ASSUME TypeInv, IInv, [Next]_vars
               PROVE  Channel!ChannelNext \/ UNCHANGED <<sent, delivered>>
    BY DEF Channel!channelVars
  <2>1. ASSUME NEW total \in FragTotals, NEW key \in BOOLEAN, NEW queued \in 0..total,
               SendVideo(total, key, queued)
        PROVE  Channel!ChannelNext
    <3>1. Channel!Send(total, key)
      BY <2>1 DEF SendVideo, Channel!Send, EncodedPacket
    <3> QED
      BY <3>1 DEF Channel!ChannelNext, FragTotals
  <2>2. ASSUME NEW d \in net, RecvVideo(d)
        PROVE  Channel!ChannelNext \/ UNCHANGED <<sent, delivered>>
    <3>1. PICK q : Outcome(q, d)
      BY <2>2, RecvVideoCases DEF TypeInv
    <3>2. sent' = sent
      BY <2>2 DEF RecvVideo
    <3>3. CASE Completed(q, d)
      <4>1. assemble(Stored(q[d.frame_id], d)) = sent[d.frame_id + 1]
        BY <3>1, <3>3, CompletedIsSent DEF Outcome
      <4>2. ~ Channel!WasDelivered(sent[d.frame_id + 1])
        BY DEF IInv, NotYetUsed
      <4>3. d.frame_id + 1 \in DOMAIN sent
        BY DEF IInv, Genuine, TypeInv, TypeOK, Datagrams, FrameIds
      <4>4. Channel!Deliver(d.frame_id + 1)
        BY <3>2, <3>3, <4>1, <4>2 DEF Completed, Channel!Deliver
      <4> QED
        BY <4>3, <4>4 DEF Channel!ChannelNext
    <3> QED
      BY <3>1, <3>2, <3>3 DEF Outcome, Ignored, KeptOn
  <2> QED
    BY <2>1, <2>2, NextCases DEF vars, Lose, Close
<1> QED
  BY <1>1, <1>2, TypeInvHolds, IInvHolds, PTL
  DEF Spec, RefinesChannel, Channel!ChannelSpec

\* No packet has been returned twice.
ReturnedOnce == \A i, j \in DOMAIN delivered : delivered[i] = delivered[j] => i = j

ChannelInv ==
    /\ sent \in Seq(Channel!EncodedPackets)
    /\ delivered \in Seq(Channel!EncodedPackets)
    /\ ReturnedOnce

\* The channel returns no packet twice.
LEMMA ChannelReturnsOnce == Channel!ChannelSpec => []ReturnedOnce
<1>1. Channel!ChannelInit => ChannelInv
  BY DEF Channel!ChannelInit, ChannelInv, ReturnedOnce
<1>2. ChannelInv /\ [Channel!ChannelNext]_(Channel!channelVars) => ChannelInv'
  <2> SUFFICES ASSUME ChannelInv, [Channel!ChannelNext]_(Channel!channelVars)
               PROVE  ChannelInv'
    OBVIOUS
  <2>1. ASSUME NEW total \in FragTotals, NEW key \in BOOLEAN, Channel!Send(total, key)
        PROVE  ChannelInv'
    <3> DEFINE n == Len(sent) + 1
               packet == Channel!EncodedPacket(n, total, key)
    <3>1. n \in 1..MaxPackets
      BY <2>1 DEF Channel!Send, ChannelInv, TransportAssumption
    <3>2. packet \in Channel!EncodedPackets
      <4> HIDE DEF n
      <4> QED
        BY <3>1 DEF Channel!EncodedPackets, FragTotals
    <3>3. sent' = Append(sent, packet) /\ delivered' = delivered
      BY <2>1 DEF Channel!Send
    <3> HIDE DEF packet
    <3> QED
      BY <3>2, <3>3 DEF ChannelInv, ReturnedOnce
  <2>2. ASSUME NEW n \in DOMAIN sent, Channel!Deliver(n)
        PROVE  ChannelInv'
    <3> DEFINE x == sent[n]
    <3>1. /\ sent' = sent /\ delivered' = Append(delivered, x)
          /\ x \in Channel!EncodedPackets
          /\ \A i \in DOMAIN delivered : delivered[i] # x
      BY <2>2 DEF Channel!Deliver, Channel!WasDelivered, ChannelInv
    <3> HIDE DEF x
    <3> QED
      BY <3>1 DEF ChannelInv, ReturnedOnce
  <2>3. CASE UNCHANGED <<sent, delivered>>
    BY <2>3 DEF ChannelInv, ReturnedOnce
  <2> QED
    BY <2>1, <2>2, <2>3 DEF Channel!ChannelNext, Channel!channelVars, FragTotals
<1> QED
  BY <1>1, <1>2, PTL DEF Channel!ChannelSpec, ChannelInv

\* Whatever is lost or reordered, no packet is returned twice, on every connection
\* short enough for frame_ids not to wrap: what the channel promises, the transport
\* keeps.
THEOREM NoneReturnedTwice ==
    ASSUME NoWrap
    PROVE  Spec => []ReturnedOnce
  BY ImplementsChannel, ChannelReturnsOnce, PTL DEF RefinesChannel
-----------------------------------------------------------------------------
(* Nothing is lost on an orderly network *)

\* Chunk i of the frame is on its way, or in the table p.
OnItsWay(id, i) == \E e \in net : e.frame_id = id /\ e.frag_index = i
Has(p, id, i)   == p[id] # NoFrame /\ p[id].fragments[i] # NoChunk

\* Every chunk of a packet that has not been returned is on its way or stored.
NothingLost ==
    \A n \in 1..Len(sent) :
        \/ Channel!WasDelivered(sent[n])
        \/ \A i \in DOMAIN sent[n].data : OnItsWay(n - 1, i) \/ Has(pending, n - 1, i)

\* No datagram in flight is a whole window behind a frame of the table.
InWindow ==
    \A id \in InFlight(pending), e \in net : id < e.frame_id + MAX_IN_FLIGHT_FRAMES

\* A frame of the table has not been returned.
NotReturned == \A id \in InFlight(pending) : ~ Channel!WasDelivered(sent[id + 1])

\* The strengthening of AllDelivered that every step preserves.
KeptInv == NotReturned /\ (network = "orderly" => NothingLost /\ InWindow)

\* On an orderly network the chunk that an incomplete frame waits for is on its way.
LEMMA WaitsForChunk ==
    ASSUME TypeInv, IInv, KeptInv, network = "orderly", NEW id \in InFlight(pending)
    PROVE  \E e \in net : e.frame_id = id
<1>1. PICK i \in 0..(pending[id].frag_total - 1) : pending[id].fragments[i] = NoChunk
  BY ChunkMissing
<1>2. /\ id \in Nat /\ id < Len(sent) /\ Len(sent) \in Nat
      /\ DOMAIN sent[id + 1].data = 0..(pending[id].frag_total - 1)
  BY DEF IInv, PartOfPacket, InFlight, FrameIds, TypeInv, TypeOK
<1> DEFINE n == id + 1
<1>3. n \in 1..Len(sent) /\ n - 1 = id /\ ~ Channel!WasDelivered(sent[n])
  <2>1. n \in 1..Len(sent) /\ n - 1 = id
    BY <1>2
  <2>2. ~ Channel!WasDelivered(sent[id + 1])
    BY Zenon DEF KeptInv, NotReturned
  <2> QED
    BY <2>1, <2>2, Zenon
<1> HIDE DEF n
<1>4. i \in DOMAIN sent[n].data
  BY <1>1, <1>2 DEF n
<1>5. OnItsWay(n - 1, i) \/ Has(pending, n - 1, i)
  BY <1>3, <1>4 DEF KeptInv, NothingLost
<1> QED
  BY <1>1, <1>3, <1>5 DEF OnItsWay, Has

\* Numbers that are pairwise less than a window apart are no more than it holds.
LEMMA SpanBounded ==
    ASSUME NEW S \in SUBSET Nat, IsFiniteSet(S), NEW w \in Nat \ {0},
           \A x, y \in S : x < y + w
    PROVE  Cardinality(S) <= w
<1>1. CASE S = {}
  BY <1>1, FS_EmptySet
<1>2. CASE S # {}
  <2>1. PICK m \in S : \A y \in S : m <= y
    BY <1>2, MinExists
  <2> DEFINE top == m + w - 1
             T == m..top
  <2>2. m \in Int /\ top \in Int /\ ~ (m > top) /\ top - m + 1 = w
    BY <2>1
  <2>3. S \in SUBSET T
    BY <2>1
  <2> HIDE DEF top
  <2>4. IsFiniteSet(T) /\ Cardinality(T) = w
    <3>1. IsFiniteSet(m..top) /\ Cardinality(m..top) = IF m > top THEN 0 ELSE top - m + 1
      BY <2>2, FS_Interval, Zenon
    <3> QED
      BY <2>2, <3>1
  <2> HIDE DEF T
  <2> QED
    BY <2>3, <2>4, FS_Subset
<1> QED
  BY <1>1, <1>2

\* When datagrams overtake by less than the window, recv_video finds room for d's
\* frame without dropping another one.
LEMMA NothingDropped ==
    ASSUME TypeInv, IInv, KeptInv, network = "orderly",
           NEW d \in net, Orderly(d), NEW q, Outcome(q, d)
    PROVE  \A id \in InFlight(pending) : q[id] = pending[id]
<1> DEFINE W == MAX_IN_FLIGHT_FRAMES
           p == Windowed(pending, d)
           S == InFlight(pending) \cup {d.frame_id}
<1>1. /\ d \in Datagrams /\ d.frame_id \in FrameIds /\ d.frame_id \in Nat
      /\ pending \in Tables /\ W \in Nat \ {0}
      /\ \A e \in net : e.frame_id \in Nat /\ PacketOf(e) = e.frame_id + 1
  BY DEF TypeInv, TypeOK, Datagrams, FrameIds, IInv, Genuine, PacketOf, TransportAssumption
<1>2. \A e \in net : d.frame_id < e.frame_id + W
  BY <1>1 DEF Orderly
<1>3. \A x \in S : x \in Nat /\ \E e \in net : e.frame_id = x
  BY <1>1, WaitsForChunk DEF InFlight, FrameIds
<1>4. \A x, y \in S : x < y + W
  BY <1>2, <1>3 DEF KeptInv, InWindow
<1> HIDE DEF W
<1>5. p = pending
  <2>1. CASE d.frame_id >= W
    <3>1. ASSUME NEW id \in InFlight(pending)
          PROVE  ~ (id < d.frame_id - W)
      <4>1. id \in Nat /\ d.frame_id < id + W
        BY <1>3, <1>4
      <4> QED
        BY <1>1, <4>1
    <3>2. \A id \in FrameIds : id < d.frame_id - W => pending[id] = NoFrame
      BY <3>1 DEF InFlight
    <3> QED
      BY <1>1, <2>1, <3>2 DEF Windowed, wrapping_sub, evict_before, Tables, W
  <2> QED
    BY <2>1 DEF Windowed, W
<1> HIDE DEF p
<1>6. q = Track(pending, d)
  BY <1>5 DEF Outcome, p
<1>7. CASE pending[d.frame_id] # NoFrame
  BY <1>6, <1>7 DEF Track
<1>8. CASE pending[d.frame_id] = NoFrame
  <2>1. IsFiniteSet(InFlight(pending)) /\ d.frame_id \notin InFlight(pending)
        /\ Cardinality(InFlight(pending)) \in Nat
    BY <1>8, InFlightFinite DEF InFlight
  <2>2. IsFiniteSet(S) /\ Cardinality(S) = Cardinality(InFlight(pending)) + 1
    BY <2>1, FS_AddElement
  <2>3. Cardinality(S) <= W
    <3>1. S \in SUBSET Nat
      BY <1>3
    <3> HIDE DEF S
    <3> QED
      BY <1>1, <1>4, <2>2, <3>1, SpanBounded
  <2>4. ~ (Cardinality(InFlight(pending)) >= MAX_IN_FLIGHT_FRAMES)
    BY <1>1, <2>1, <2>2, <2>3 DEF W
  <2>5. q = [pending EXCEPT ![d.frame_id] = NewPendingFrame(d)]
    BY <1>6, <1>8, <2>4 DEF Track
  <2> QED
    BY <1>1, <2>1, <2>5 DEF Tables, InFlight
<1> QED
  BY <1>7, <1>8

\* A packet that has been returned stays so; another one is not returned before
\* its last chunk.
LEMMA ReturnedFacts ==
    ASSUME TypeInv, IInv, NEW d \in net, NEW q, Outcome(q, d), sent' = sent
    PROVE  \A n \in 1..Len(sent) :
              Channel!WasDelivered(sent[n])' <=>
                 \/ Channel!WasDelivered(sent[n])
                 \/ Completed(q, d) /\ n = d.frame_id + 1
<1>1. /\ d \in Datagrams /\ Tracked(q, d) /\ Genuine(d) /\ Len(sent) \in Nat
      /\ delivered \in DeliveredType /\ d.frame_id \in Nat /\ d.frag_index \in Nat
  BY DEF TypeInv, TypeOK, IInv, Outcome, DeliveredType, Datagrams, FrameIds, FragIndices
<1>2. sent' = sent
  OBVIOUS
<1>3. CASE ~ Completed(q, d)
  <2>1. delivered' = delivered
    BY <1>3 DEF Outcome, Ignored, KeptOn
  <2> QED
    BY <1>2, <1>3, <2>1 DEF Channel!WasDelivered
<1>4. CASE Completed(q, d)
  <2> DEFINE r == assemble(Stored(q[d.frame_id], d))
             k == d.frame_id + 1
  <2>1. r = sent[k] /\ k \in 1..Len(sent)
    BY <1>1, <1>4, CompletedIsSent DEF Genuine
  <2>2. delivered' = Append(delivered, r)
    BY <1>4 DEF Completed
  <2> HIDE DEF r, k
  <2>3. /\ DOMAIN delivered' = 1..(Len(delivered) + 1)
        /\ DOMAIN delivered = 1..Len(delivered) /\ Len(delivered) \in Nat
        /\ delivered'[Len(delivered) + 1] = r
        /\ \A i \in 1..Len(delivered) : delivered'[i] = delivered[i]
    BY <1>1, <2>2 DEF DeliveredType
  <2>4. ASSUME NEW x
        PROVE  (\E i \in DOMAIN delivered' : delivered'[i] = x)
                  <=> (\E i \in DOMAIN delivered : delivered[i] = x) \/ x = r
    BY <2>3
  <2>5. \A n \in 1..Len(sent) : sent[n] = r <=> n = k
    BY <1>1, <2>1, SentDiffer DEF IInv
  <2> QED
    BY <1>2, <1>4, <2>4, <2>5 DEF Channel!WasDelivered, k
<1> QED
  BY <1>3, <1>4

\* A call of send_video that the connection accepts puts every chunk on its way.
LEMMA SendKeepsAll ==
    ASSUME NoWrap, TypeInv, IInv, IInv', KeptInv, NEW total \in FragTotals, NEW key \in BOOLEAN,
           NEW queued \in 0..total, SendVideo(total, key, queued),
           network = "orderly" => queued = total
    PROVE  KeptInv'
<1> DEFINE n == Len(sent) + 1
           packet == EncodedPacket(n, total, key)
<1>1. /\ Len(sent) \in Nat /\ n \in Nat /\ Len(sent) < MaxPackets
      /\ sent' = Append(sent, packet) /\ sent \in Seq(Channel!EncodedPackets)
      /\ pending' = pending /\ delivered' = delivered /\ network' = network
      /\ net' = net \cup {d \in fragment(packet, frame_counter, total) : d.frag_index < queued}
  BY DEF SendVideo, TypeInv, TypeOK
<1>2. /\ Len(sent') = n /\ sent'[n] = packet
      /\ \A m \in 1..Len(sent) : sent'[m] = sent[m]
  BY <1>1
<1>3. frame_counter = Len(sent)
  BY <1>1 DEF NoWrap, IInv, Numbered, TransportAssumption
<1>4. DOMAIN packet.data = 0..(total - 1)
  BY DEF EncodedPacket, Channel!EncodedPacket
<1> HIDE DEF packet
<1>5. \A id \in InFlight(pending) : id \in Nat /\ id < Len(sent) /\ id + 1 \in 1..Len(sent)
  BY <1>1 DEF IInv, PartOfPacket, InFlight, FrameIds
<1>6. NotReturned'
  <2> SUFFICES ASSUME NEW id \in InFlight(pending)
               PROVE  ~ Channel!WasDelivered(sent[id + 1])'
    BY <1>1 DEF NotReturned, InFlight
  <2>1. sent'[id + 1] = sent[id + 1]
    BY <1>2, <1>5, Zenon
  <2> QED
    BY <1>1, <2>1 DEF KeptInv, NotReturned, Channel!WasDelivered
<1>7. ASSUME network = "orderly"
      PROVE  NothingLost' /\ InWindow'
  <2>1. \A i \in 0..(total - 1) : \E e \in net' : e.frame_id = Len(sent) /\ e.frag_index = i
    <3> SUFFICES ASSUME NEW i \in 0..(total - 1)
                 PROVE  \E e \in net' : e.frame_id = Len(sent) /\ e.frag_index = i
      OBVIOUS
    <3> DEFINE e == [frame_id |-> frame_counter, frag_index |-> i, frag_total |-> total,
                     is_keyframe |-> packet.is_keyframe, payload |-> packet.data[i]]
    <3>1. e \in fragment(packet, frame_counter, total) /\ e.frag_index = i /\ e.frame_id = frame_counter
      BY DEF fragment
    <3>2. i < queued
      BY <1>7 DEF FragTotals
    <3> HIDE DEF e
    <3> QED
      BY <1>1, <1>3, <3>1, <3>2
  <2>2. NothingLost'
    <3> SUFFICES ASSUME NEW m \in 1..n, NEW i \in DOMAIN sent'[m].data,
                        ~ Channel!WasDelivered(sent[m])'
                 PROVE  OnItsWay(m - 1, i)' \/ Has(pending, m - 1, i)'
      BY <1>2 DEF NothingLost
    <3>1. CASE m = n
      <4>1. sent'[m] = packet
        BY <1>2, <3>1, Zenon
      <4>2. m - 1 = Len(sent) /\ i \in 0..(total - 1)
        <5>1. m - 1 = Len(sent)
          BY <1>1, <3>1
        <5>2. i \in DOMAIN packet.data
          BY <4>1, Zenon
        <5> QED
          BY <1>4, <5>1, <5>2, Zenon
      <4> QED
        BY <2>1, <4>2 DEF OnItsWay
    <3>2. CASE m # n
      <4>1. m \in 1..Len(sent)
        BY <1>1, <3>2
      <4>2. sent'[m] = sent[m]
        BY <1>2, <4>1
      <4>3. ~ Channel!WasDelivered(sent[m])
        BY <1>1, <4>2 DEF Channel!WasDelivered
      <4>4. OnItsWay(m - 1, i) \/ Has(pending, m - 1, i)
        BY <1>7, <4>1, <4>2, <4>3 DEF KeptInv, NothingLost
      <4>5. net \subseteq net'
        BY <1>1
      <4> QED
        BY <1>1, <4>4, <4>5 DEF OnItsWay, Has
    <3> QED
      BY <3>1, <3>2
  <2>3. InWindow'
    <3> SUFFICES ASSUME NEW id \in InFlight(pending), NEW e \in net'
                 PROVE  id < e.frame_id + MAX_IN_FLIGHT_FRAMES
      BY <1>1 DEF InWindow, InFlight
    <3>1. CASE e \in net
      BY <1>7, <3>1 DEF KeptInv, InWindow
    <3>2. CASE e \notin net
      <4>1. e.frame_id = Len(sent)
        BY <1>1, <1>3, <3>2 DEF fragment
      <4> QED
        BY <1>1, <1>5, <4>1 DEF TransportAssumption
    <3> QED
      BY <3>1, <3>2
  <2> QED
    BY <2>2, <2>3
<1> QED
  BY <1>1, <1>6, <1>7 DEF KeptInv

\* One turn of recv_video's loop keeps what is not yet returned, if d has
\* overtaken by less than the window.
LEMMA RecvKeepsAll ==
    ASSUME NoWrap, TypeInv, IInv, KeptInv, NEW d \in net, RecvVideo(d),
           network = "orderly" => Orderly(d)
    PROVE  KeptInv'
<1>1. PICK q : Outcome(q, d)
  BY RecvVideoCases DEF TypeInv
<1>2. /\ d \in Datagrams /\ d.frame_id \in FrameIds /\ d.frame_id \in Nat
      /\ net' = net \ {d} /\ sent' = sent /\ network' = network /\ Len(sent) \in Nat
      /\ Tracked(q, d) /\ q \in Tables /\ q[d.frame_id] # NoFrame /\ q[d.frame_id] \in Frames
      /\ Genuine(d) /\ NotYetUsed(d) /\ NotStored(q, d)
  BY <1>1, RecvVideoCases, FrameShape, TrackedParts
  DEF TypeInv, TypeOK, Datagrams, FrameIds, Outcome, Tracked, IInv
<1>3. \A n \in 1..Len(sent) :
         Channel!WasDelivered(sent[n])' <=>
            \/ Channel!WasDelivered(sent[n])
            \/ Completed(q, d) /\ n = d.frame_id + 1
  BY <1>1, <1>2, ReturnedFacts
<1>4. /\ \A id \in FrameIds \ {d.frame_id} : pending'[id] = q[id]
      /\ Completed(q, d) => pending'[d.frame_id] = NoFrame
  BY <1>1, <1>2 DEF Outcome, Ignored, KeptOn, Completed, Tables
<1>5. NotReturned'
  <2> SUFFICES ASSUME NEW id \in FrameIds, pending'[id] # NoFrame
               PROVE  ~ Channel!WasDelivered(sent[id + 1])'
    BY DEF NotReturned, InFlight
  <2>1. CASE id = d.frame_id
    <3>1. ~ Completed(q, d)
      BY <1>4, <2>1
    <3>2. d.frame_id + 1 \in 1..Len(sent)
      BY <1>2 DEF Genuine
    <3> QED
      BY <1>2, <1>3, <2>1, <3>1, <3>2 DEF NotYetUsed
  <2>2. CASE id # d.frame_id
    <3>1. pending[id] # NoFrame
      BY <1>2, <1>4, <2>2 DEF Tracked
    <3>2. ~ Channel!WasDelivered(sent[id + 1])
      BY <3>1 DEF KeptInv, NotReturned, InFlight
    <3>3. id + 1 \in 1..Len(sent) /\ id + 1 # d.frame_id + 1
      BY <1>2, <2>2, <3>1 DEF IInv, PartOfPacket, InFlight, FrameIds
    <3> QED
      BY <1>3, <3>2, <3>3
  <2> QED
    BY <2>1, <2>2
<1>6. ASSUME network = "orderly"
      PROVE  NothingLost' /\ InWindow'
  <2>1. \A id \in InFlight(pending) : q[id] = pending[id]
    BY <1>1, <1>6, NothingDropped
  <2>2. \A i : Has(pending, d.frame_id, i) => Has(q, d.frame_id, i)
    BY <1>2, <2>1 DEF Has, InFlight
  <2>3. NothingLost'
    <3> SUFFICES ASSUME NEW n \in 1..Len(sent), NEW i \in DOMAIN sent[n].data,
                        ~ Channel!WasDelivered(sent[n])'
                 PROVE  OnItsWay(n - 1, i)' \/ Has(pending, n - 1, i)'
      BY <1>2 DEF NothingLost
    <3>1. /\ ~ Channel!WasDelivered(sent[n])
          /\ ~ (Completed(q, d) /\ n = d.frame_id + 1)
      BY <1>3
    <3>2. OnItsWay(n - 1, i) \/ Has(pending, n - 1, i)
      BY <1>6, <3>1 DEF KeptInv, NothingLost
    <3>3. CASE n - 1 # d.frame_id
      <4>1. OnItsWay(n - 1, i) => OnItsWay(n - 1, i)'
        BY <1>2, <3>3 DEF OnItsWay
      <4>2. ASSUME Has(pending, n - 1, i)
            PROVE  Has(pending', n - 1, i)
        <5>1. n - 1 \in FrameIds /\ pending[n - 1] # NoFrame
          <6>1. pending \in Tables /\ pending[n - 1] # NoFrame /\ Len(sent) <= MaxPackets
            BY <4>2 DEF Has, TypeInv, TypeOK
          <6> QED
            BY <1>2, <6>1 DEF NoWrap, FrameIds, TransportAssumption
        <5> QED
          BY <1>4, <2>1, <3>3, <4>2, <5>1 DEF Has, InFlight
      <4> QED
        BY <3>2, <4>1, <4>2
    <3>4. CASE n - 1 = d.frame_id
      <4> DEFINE f == q[d.frame_id]
                 t == f.frag_total
      <4>1. n = d.frame_id + 1 /\ ~ Completed(q, d)
        BY <1>2, <3>1, <3>4
      <4>2. t \in FragTotals /\ f \in PendingFrame(t) /\ DOMAIN sent[n].data = 0..(t - 1)
        <5>1. PartOfPacket(f, d.frame_id)
          BY <1>2, TrackedParts DEF TypeInv, InFlight
        <5> QED
          BY <1>2, <4>1, <5>1, FrameShape DEF PartOfPacket
      <4>3. d.frag_index \in 0..(t - 1)
        BY <1>2, <4>1, <4>2 DEF Genuine, Datagrams, FragIndices, FragTotals
      <4>4. EmptySlot(q, d)
        BY <1>2, <4>2, <4>3 DEF EmptySlot, NotStored, FragTotals
      <4>5. KeptOn(q, d)
        <5>1. ~ Ignored(q, d)
          BY <4>2, <4>3, <4>4 DEF Ignored, EmptySlot, FragTotals
        <5> QED
          BY <1>1, <4>1, <5>1 DEF Outcome
      <4> DEFINE g == pending'[d.frame_id]
      <4>6. g # NoFrame /\ g.fragments = [f.fragments EXCEPT ![d.frag_index] = d.payload]
        <5> DEFINE s == Stored(f, d)
        <5>1. s \in Frames /\ s.fragments = [f.fragments EXCEPT ![d.frag_index] = d.payload]
          BY <1>2, <4>4, <4>5, StoredFacts, PendingFrameIsFrame
        <5>2. pending' = [q EXCEPT ![d.frame_id] = s]
          BY <4>5 DEF KeptOn
        <5> HIDE DEF s
        <5>3. g = s
          BY <1>2, <5>2 DEF Tables
        <5> QED
          BY <5>1, <5>3, FrameShape
      <4>7. d.payload # NoChunk /\ DOMAIN f.fragments = 0..(t - 1)
        BY <1>2, <4>2 DEF Datagrams, Chunks, NoChunk, PendingFrame
      <4> HIDE DEF f, g
      <4>8. /\ g.fragments[d.frag_index] # NoChunk
            /\ \A j \in 0..(t - 1) : f.fragments[j] # NoChunk => g.fragments[j] # NoChunk
        BY <4>3, <4>6, <4>7
      <4>9. CASE OnItsWay(n - 1, i)
        <5>1. PICK e \in net : e.frame_id = n - 1 /\ e.frag_index = i
          BY <4>9 DEF OnItsWay
        <5>2. e # d => OnItsWay(n - 1, i)'
          BY <1>2, <5>1 DEF OnItsWay
        <5>3. e = d => Has(pending', n - 1, i)
          BY <3>4, <4>6, <4>8, <5>1 DEF Has, g
        <5> QED
          BY <5>2, <5>3 DEF Has
      <4>10. CASE Has(pending, n - 1, i)
        <5>1. f.fragments[i] # NoChunk /\ i \in 0..(t - 1)
          BY <2>2, <3>4, <4>2, <4>10 DEF Has, f
        <5> QED
          BY <3>4, <4>6, <4>8, <5>1 DEF Has, g
      <4> QED
        BY <3>2, <4>9, <4>10
    <3> QED
      BY <3>3, <3>4
  <2>4. InWindow'
    <3> SUFFICES ASSUME NEW id \in FrameIds, pending'[id] # NoFrame, NEW e \in net'
                 PROVE  id < e.frame_id + MAX_IN_FLIGHT_FRAMES
      BY DEF InWindow, InFlight
    <3>1. e \in net
      BY <1>2
    <3>2. CASE id = d.frame_id
      BY <1>6, <3>1, <3>2 DEF Orderly, PacketOf, IInv, Genuine, TypeInv, TypeOK, Datagrams, FrameIds, TransportAssumption
    <3>3. CASE id # d.frame_id
      <4>1. pending[id] # NoFrame
        BY <1>2, <1>4, <3>3 DEF Tracked
      <4> QED
        BY <1>6, <3>1, <4>1 DEF KeptInv, InWindow, InFlight
    <3> QED
      BY <3>2, <3>3
  <2> QED
    BY <2>3, <2>4
<1> QED
  BY <1>2, <1>5, <1>6 DEF KeptInv

\* On every connection short enough for frame_ids not to wrap the strengthened
\* invariant holds.
LEMMA KeptInvHolds ==
    ASSUME NoWrap
    PROVE  Spec => []KeptInv
<1>1. Init => KeptInv
  <2> SUFFICES ASSUME Init PROVE KeptInv
    OBVIOUS
  <2> QED
    BY DEF Init, KeptInv, NotReturned, NothingLost, InWindow, InFlight
<1>2. TypeInv /\ IInv /\ IInv' /\ KeptInv /\ [Next]_vars => KeptInv'
  <2> SUFFICES ASSUME TypeInv, IInv, IInv', KeptInv, [Next]_vars PROVE KeptInv'
    OBVIOUS
  <2>1. CASE OrderlyNext
    <3>1. ASSUME NEW total \in FragTotals, NEW key \in BOOLEAN, SendVideo(total, key, total)
          PROVE  KeptInv'
      <4>1. total \in 0..total
        BY DEF FragTotals
      <4> QED
        BY <3>1, <4>1, SendKeepsAll
    <3>2. ASSUME NEW d \in net, Orderly(d), RecvVideo(d)
          PROVE  KeptInv'
      BY <3>2, RecvKeepsAll
    <3> QED
      BY <2>1, <3>1, <3>2 DEF OrderlyNext
  <2>2. CASE LossyNext
    <3>1. network # "orderly"
      BY <2>2 DEF LossyNext
    <3>2. ASSUME NEW total \in FragTotals, NEW key \in BOOLEAN, NEW queued \in 0..total,
                 SendVideo(total, key, queued)
          PROVE  KeptInv'
      BY <3>1, <3>2, SendKeepsAll
    <3>3. ASSUME NEW d \in net, RecvVideo(d)
          PROVE  KeptInv'
      BY <3>1, <3>3, RecvKeepsAll
    <3>4. ASSUME network' = network, sent' = sent, pending' = pending, delivered' = delivered
          PROVE  KeptInv'
      BY <3>1, <3>4 DEF KeptInv, NotReturned, InFlight, Channel!WasDelivered
    <3> QED
      BY <2>2, <3>2, <3>3, <3>4 DEF LossyNext, Lose, Close
  <2>3. CASE UNCHANGED vars
    BY <2>3 DEF vars, KeptInv, NotReturned, NothingLost, InWindow, OnItsWay, Has, InFlight,
                Channel!WasDelivered
  <2> QED
    BY <2>1, <2>2, <2>3 DEF Next
<1> QED
  BY <1>1, <1>2, TypeInvHolds, IInvHolds, PTL DEF Spec

\* On a network that loses nothing and lets datagrams overtake by less than the
\* window, the reassembler drops nothing: when no datagram is in flight, every packet
\* has been returned, for every capacity, on every connection short enough for
\* frame_ids not to wrap.
THEOREM NothingIsLost ==
    ASSUME NoWrap
    PROVE  Spec => []AllDelivered
<1>1. TypeInv /\ IInv /\ KeptInv => AllDelivered
  <2> SUFFICES ASSUME TypeInv, IInv, KeptInv, network = "orderly", net = {},
                      NEW n \in DOMAIN sent, ~ Channel!WasDelivered(sent[n])
               PROVE  FALSE
    BY DEF AllDelivered
  <2>1. n \in 1..Len(sent) /\ Len(sent) \in Nat
    BY DEF TypeInv, TypeOK
  <2>2. PICK t \in FragTotals, k \in BOOLEAN : sent[n] = EncodedPacket(n, t, k)
    BY <2>1 DEF IInv, SentShape
  <2>3. 0 \in DOMAIN sent[n].data
    BY <2>2 DEF EncodedPacket, Channel!EncodedPacket, FragTotals
  <2>4. Has(pending, n - 1, 0)
    BY <2>1, <2>3 DEF KeptInv, NothingLost, OnItsWay
  <2>5. n - 1 \in InFlight(pending)
    <3>1. n - 1 \in FrameIds
      BY <2>1 DEF NoWrap, TypeInv, TypeOK, FrameIds, TransportAssumption
    <3> QED
      BY <2>4, <3>1 DEF Has, InFlight
  <2> QED
    BY <2>5, WaitsForChunk
<1> QED
  BY <1>1, TypeInvHolds, IInvHolds, KeptInvHolds, PTL
=============================================================================
