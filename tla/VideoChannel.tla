---------------------------- MODULE VideoChannel ----------------------------
(***************************************************************************)
(* What the video path promises, with fragments, datagrams and reassembly  *)
(* abstracted away: the host hands encoded packets to the transport, and   *)
(* the client is handed some of them, each at most once and with the data  *)
(* and the keyframe flag it was sent with.  A packet may be lost and       *)
(* packets may overtake one another; none is merged with another one or    *)
(* made up.  timestamp_us and duration_us are not part of a packet here:   *)
(* the wire does not carry them, and the reassembler returns 0 for both.   *)
(***************************************************************************)
EXTENDS Naturals, Sequences

CONSTANTS MaxPackets,     \* how many packets the host sends on a connection
          MaxFragTotal    \* the most chunks a packet is made of

VARIABLES sent,           \* the packets handed to send_video, in order
          delivered       \* the packets recv_video has returned, in order

channelVars == <<sent, delivered>>

\* The n-th packet of a connection.  Its data is the sequence of its chunks,
\* each told apart from every other chunk of every packet.
EncodedPacket(n, total, key) ==
    [data |-> [i \in 0..(total - 1) |-> <<n, i>>], is_keyframe |-> key]

EncodedPackets ==
    {EncodedPacket(n, t, k) : n \in 1..MaxPackets, t \in 1..MaxFragTotal, k \in BOOLEAN}

WasDelivered(packet) == \E i \in DOMAIN delivered : delivered[i] = packet

ChannelInit == sent = <<>> /\ delivered = <<>>

Send(total, key) ==
    /\ Len(sent) < MaxPackets
    /\ sent' = Append(sent, EncodedPacket(Len(sent) + 1, total, key))
    /\ UNCHANGED delivered

Deliver(n) ==
    /\ ~ WasDelivered(sent[n])
    /\ delivered' = Append(delivered, sent[n])
    /\ UNCHANGED sent

ChannelNext ==
    \/ \E total \in 1..MaxFragTotal, key \in BOOLEAN : Send(total, key)
    \/ \E n \in DOMAIN sent : Deliver(n)

ChannelSpec == ChannelInit /\ [][ChannelNext]_channelVars
=============================================================================
