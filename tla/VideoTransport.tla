--------------------------- MODULE VideoTransport ---------------------------
(***************************************************************************)
(* One QUIC connection's video path: QuicVideoTransport::send_video with   *)
(* its VideoFragmenter on the host, unreliable datagrams between the       *)
(* peers, and QuicVideoTransport::recv_video with its VideoReassembler on  *)
(* the client.                                                             *)
(*                                                                         *)
(* Abstractions.  A chunk of at most MAX_FRAGMENT_PAYLOAD bytes is the     *)
(* value <<n, i>>: chunk i of the n-th packet.  An empty packet consumes   *)
(* no frame_id and sends nothing, so it is a stuttering step.  QUIC may    *)
(* lose a datagram or deliver it late, never twice (packet numbers are     *)
(* deduplicated).  A frame_id ranges over 0..(IdSpace - 1); in the program *)
(* IdSpace is 2^32.  The timestamps of a packet are left out: fragment     *)
(* does not send them, and assemble's caller sets both to 0.               *)
(***************************************************************************)
EXTENDS Naturals, Sequences, FiniteSets

CONSTANTS
    IdSpace,               \* the number of frame_ids before the counter wraps
    MAX_IN_FLIGHT_FRAMES,  \* capacity of the reassembler, and its window
    MaxPackets,            \* bound: non-empty packets sent on the connection
    MaxFragTotal,          \* the most fragments of a packet (u16::MAX)
    Networks               \* the networks considered: "lossy", "orderly"

ASSUME TransportAssumption ==
    /\ IdSpace \in Nat \ {0}
    /\ MAX_IN_FLIGHT_FRAMES \in Nat \ {0}
    /\ MaxPackets \in Nat
    /\ MaxFragTotal \in Nat \ {0}
    /\ Networks \subseteq {"lossy", "orderly"}

VARIABLES
    network,        \* the kind of network between the peers
    frame_counter,  \* VideoFragmenter::frame_counter
    sent,           \* the packets given to send_video (history)
    net,            \* datagrams in flight
    pending,        \* VideoReassembler::pending
    delivered,      \* the packets recv_video has returned (history)
    conn            \* "open", "failed" (send_video returned Err) or "closed"

vars == <<network, frame_counter, sent, net, pending, delivered, conn>>

Channel == INSTANCE VideoChannel
             WITH MaxPackets <- MaxPackets, MaxFragTotal <- MaxFragTotal,
                  sent <- sent, delivered <- delivered

EncodedPacket(n, total, key) == Channel!EncodedPacket(n, total, key)

FrameIds    == 0..(IdSpace - 1)
FragTotals  == 1..MaxFragTotal
FragIndices == 0..(MaxFragTotal - 1)
Chunks      == (1..MaxPackets) \X FragIndices

\* VideoFragment
Datagrams == [frame_id : FrameIds, frag_index : FragIndices, frag_total : FragTotals,
              is_keyframe : BOOLEAN, payload : Chunks]

NoChunk == <<0, 0>>    \* an empty slot (None)
NoFrame == [frag_total |-> 0]   \* a frame_id that is not a key of pending

\* A PendingFrame of t fragments.
PendingFrame(t) ==
    [frag_total : {t}, is_keyframe : BOOLEAN, received : 0..t,
     fragments : [0..(t - 1) -> Chunks \cup {NoChunk}]]
Frames == UNION {PendingFrame(t) : t \in FragTotals}
Tables == [FrameIds -> Frames \cup {NoFrame}]   \* VideoReassembler::pending
-----------------------------------------------------------------------------
(* VideoFragmenter *)

(***************************************************************************)
(* An operator whose name ends in _mut is a plausible slip in the one      *)
(* defined after it.  No specification uses it: it is there to show that   *)
(* the properties tell the slip from the code.                             *)
(***************************************************************************)

\* A counter that does not wrap.
wrapping_add_mut(id) == id + 1

wrapping_add(id) == IF id + 1 = IdSpace THEN 0 ELSE id + 1

\* a - b in the width of a frame_id, as a build without overflow checks computes it.
wrapping_sub(a, b) == IF a >= b THEN a - b ELSE (a + IdSpace) - b

\* The fragments of a packet: one per chunk, all with the same frame_id,
\* frag_total and keyframe flag.
fragment(packet, id, total) ==
    {[frame_id |-> id, frag_index |-> i, frag_total |-> total,
      is_keyframe |-> packet.is_keyframe, payload |-> packet.data[i]] :
        i \in 0..(total - 1)}
-----------------------------------------------------------------------------
(* VideoReassembler *)

InFlight(p) == {id \in FrameIds : p[id] # NoFrame}

\* The keyframe flag is not copied from the header.
NewPendingFrame_mut(d) ==
    [frag_total  |-> d.frag_total,
     is_keyframe |-> FALSE,
     received    |-> 0,
     fragments   |-> [i \in 0..(d.frag_total - 1) |-> NoChunk]]

NewPendingFrame(d) ==
    [frag_total  |-> d.frag_total,
     is_keyframe |-> d.is_keyframe,
     received    |-> 0,
     fragments   |-> [i \in 0..(d.frag_total - 1) |-> NoChunk]]

\* Off by one.
is_complete_mut(frame) == frame.received > frame.frag_total

is_complete(frame) == frame.received = frame.frag_total

evict_before(p, bound) ==
    [id \in FrameIds |-> IF id < bound THEN NoFrame ELSE p[id]]

\* max() for min().
evict_oldest_mut(p) ==
    [id \in FrameIds |->
        IF \A other \in InFlight(p) : id >= other THEN NoFrame ELSE p[id]]

evict_oldest(p) ==
    [id \in FrameIds |->
        IF \A other \in InFlight(p) : id <= other THEN NoFrame ELSE p[id]]

\* The capacity test is off by one.
Track_mut(p, d) ==
    IF p[d.frame_id] # NoFrame THEN p
    ELSE [(IF Cardinality(InFlight(p)) > MAX_IN_FLIGHT_FRAMES
           THEN evict_oldest(p) ELSE p)
          EXCEPT ![d.frame_id] = NewPendingFrame(d)]

\* The pending table once ingest has made sure it has an entry for d.
Track(p, d) ==
    IF p[d.frame_id] # NoFrame THEN p
    ELSE [(IF Cardinality(InFlight(p)) >= MAX_IN_FLIGHT_FRAMES
           THEN evict_oldest(p) ELSE p)
          EXCEPT ![d.frame_id] = NewPendingFrame(d)]

Stored(frame, d) ==
    [frag_total  |-> frame.frag_total,
     is_keyframe |-> frame.is_keyframe,
     received    |-> frame.received + 1,
     fragments   |-> [frame.fragments EXCEPT ![d.frag_index] = d.payload]]

\* The packet that a complete frame is assembled into.
assemble(frame) == [data |-> frame.fragments, is_keyframe |-> frame.is_keyframe]

ingest(p, d) ==
    LET tracked == Track(p, d)
        frame   == tracked[d.frame_id]
        stored  == Stored(frame, d)
    IN  IF \/ d.frag_index >= frame.frag_total
           \/ frame.fragments[d.frag_index] # NoChunk
        THEN pending' = tracked /\ UNCHANGED delivered
        ELSE IF is_complete(stored)
        THEN /\ pending' = [tracked EXCEPT ![d.frame_id] = NoFrame]
             /\ delivered' = Append(delivered, assemble(stored))
        ELSE /\ pending' = [tracked EXCEPT ![d.frame_id] = stored]
             /\ UNCHANGED delivered
-----------------------------------------------------------------------------
(* QuicVideoTransport *)

Init ==
    /\ network \in Networks
    /\ frame_counter = 0
    /\ sent = <<>>
    /\ net = {}
    /\ pending = [id \in FrameIds |-> NoFrame]
    /\ delivered = <<>>
    /\ conn = "open"

\* send_video: fragment the packet and queue the datagrams in index order.  A
\* datagram that the connection refuses (TooLarge, ConnectionLost) ends the
\* call with the first `queued` fragments already on their way.
SendVideo(total, key, queued) ==
    /\ conn = "open"
    /\ Len(sent) < MaxPackets
    /\ LET packet == EncodedPacket(Len(sent) + 1, total, key)
       IN  /\ sent' = Append(sent, packet)
           /\ net' = net \cup {d \in fragment(packet, frame_counter, total) :
                                  d.frag_index < queued}
    /\ frame_counter' = wrapping_add(frame_counter)
    /\ conn' = IF queued = total THEN conn ELSE "failed"
    /\ UNCHANGED <<network, pending, delivered>>

\* The guard against the first frame_ids is missing.
Windowed_mut(p, d) ==
    evict_before(p, wrapping_sub(d.frame_id, MAX_IN_FLIGHT_FRAMES))

\* The table without the frames that d shows to be outside the window.
Windowed(p, d) ==
    IF d.frame_id >= MAX_IN_FLIGHT_FRAMES
    THEN evict_before(p, wrapping_sub(d.frame_id, MAX_IN_FLIGHT_FRAMES))
    ELSE p

\* One turn of recv_video's loop, for the datagram d that read_datagram yields.
RecvVideo(d) ==
    /\ conn # "closed"
    /\ net' = net \ {d}
    /\ ingest(Windowed(pending, d), d)
    /\ UNCHANGED <<network, frame_counter, sent, conn>>

\* The network, or a full datagram buffer at either end, drops a datagram.
Lose(d) ==
    /\ net' = net \ {d}
    /\ UNCHANGED <<network, frame_counter, sent, pending, delivered, conn>>

\* The connection is lost or closed: read_datagram returns an error and
\* whatever was in flight is gone.
Close ==
    /\ conn # "closed"
    /\ conn' = "closed"
    /\ net' = {}
    /\ UNCHANGED <<network, frame_counter, sent, pending, delivered>>

(***************************************************************************)
(* A lossy network does whatever QUIC's datagrams permit, and connections  *)
(* fail.  An orderly one loses nothing, and lets a datagram overtake only  *)
(* datagrams of the MAX_IN_FLIGHT_FRAMES - 1 packets before its own.       *)
(***************************************************************************)
PacketOf(d) == d.payload[1]
Orderly(d)  == \A e \in net : PacketOf(d) < PacketOf(e) + MAX_IN_FLIGHT_FRAMES

LossyNext ==
    /\ network = "lossy"
    /\ \/ \E total \in FragTotals, key \in BOOLEAN : \E queued \in 0..total :
             SendVideo(total, key, queued)
       \/ \E d \in net : RecvVideo(d) \/ Lose(d)
       \/ Close

OrderlyNext ==
    /\ network = "orderly"
    /\ \/ \E total \in FragTotals, key \in BOOLEAN : SendVideo(total, key, total)
       \/ \E d \in net : Orderly(d) /\ RecvVideo(d)

Next == LossyNext \/ OrderlyNext

Spec == Init /\ [][Next]_vars
-----------------------------------------------------------------------------
(* Properties *)

\* Every variable keeps its type, and a frame being reassembled has a slot for
\* each of its fragments.
TypeOK ==
    /\ network \in Networks
    /\ frame_counter \in FrameIds
    /\ sent \in Seq(Channel!EncodedPackets) /\ Len(sent) <= MaxPackets
    /\ net \subseteq Datagrams
    /\ pending \in Tables
    /\ delivered \in Seq([data : UNION {[0..(t - 1) -> Chunks] : t \in FragTotals},
                          is_keyframe : BOOLEAN])
    /\ conn \in {"open", "failed", "closed"}

\* Memory on the client is bounded: no order of arrival makes the reassembler hold
\* more than max_pending incomplete frames (VideoReassembler's doc comment).
\* recv_video's reassembler has max_pending = MAX_IN_FLIGHT_FRAMES, which is 16;
\* ADR-003 and the comment on with_default_max say 4.
PendingBounded == Cardinality(InFlight(pending)) <= MAX_IN_FLIGHT_FRAMES

\* A frame handed to the decoder is exactly a packet the host encoded: all its
\* chunks, in order, none of another packet's, with its own keyframe flag (its
\* timestamps are not carried), whatever was lost, reordered or evicted in between.
FrameIntegrity ==
    \A i \in DOMAIN delivered : \E n \in DOMAIN sent : delivered[i] = sent[n]

\* No frame waits in the reassembler although all its fragments have arrived:
\* recv_video has then returned it.
NoCompleteFrameHeld ==
    \A id \in InFlight(pending) :
        \E i \in DOMAIN pending[id].fragments : pending[id].fragments[i] = NoChunk

\* The packets whose chunks a pending frame holds.
PacketsIn(frame) ==
    {frame.fragments[i][1] : i \in {j \in DOMAIN frame.fragments :
                                       frame.fragments[j] # NoChunk}}

\* What the arrival of d makes the reassembler drop: all that leaves the table,
\* but for the frame that d completes.
DroppedBy(d) ==
    (InFlight(pending) \ InFlight(pending'))
       \ (IF delivered' = delivered THEN {} ELSE {d.frame_id})

\* Whatever arrives, an incomplete frame is dropped for two reasons only: it was
\* sent more than the window before the arriving one, or the table is full and it
\* is the one frame that makes room.  In both cases all the frames that were being
\* reassembled and stay were sent later ("the oldest incomplete frame is evicted").
\* The arriving frame is not one of those: a late one, older than all of them, is
\* put in the place of a newer one.
EvictsOldest ==
    [][\A d \in net \ net' : \A id \in DroppedBy(d) :
          /\ \A kept \in InFlight(pending) \cap InFlight(pending') :
                \A n \in PacketsIn(pending[id]), m \in PacketsIn(pending[kept]) : n < m
          /\ \/ \A n \in PacketsIn(pending[id]) :
                   n + MAX_IN_FLIGHT_FRAMES < PacketOf(d)
             \/ /\ DroppedBy(d) = {id}
                /\ Cardinality(InFlight(pending)) >= MAX_IN_FLIGHT_FRAMES]_vars

\* The transport implements the abstract channel: each packet is returned at most
\* once, with its data and keyframe flag.
RefinesChannel == Channel!ChannelSpec

\* When nothing is lost and reordering spans fewer than MAX_IN_FLIGHT_FRAMES
\* packets, the reassembler drops nothing: once the network is drained, every
\* packet has been returned, large keyframes overtaken by small frames included.
\* (This is the code's rule; by ADR-003 an incomplete frame would go as soon as the
\* next frame_id arrives.)
AllDelivered ==
    network = "orderly" /\ net = {} =>
        \A n \in DOMAIN sent : Channel!WasDelivered(sent[n])
=============================================================================
