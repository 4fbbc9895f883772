------------------------------ MODULE VideoStream ------------------------------
(***************************************************************************)
(* A stream from the host's NVENC encoder to the client's VideoToolbox     *)
(* decoder over a path that loses packets and delivers them out of order.  *)
(* Each picture but a keyframe is decoded from the one before it, so what  *)
(* is lost on the way, in the encoder or in the decoder, damages the       *)
(* picture until the next keyframe.  Nobody asks for one: the client can   *)
(* rely only on those that the host forces in every group of Gop pictures. *)
(*                                                                         *)
(* A packet in flight is its place in the group of pictures, and whether   *)
(* the packet encoded just before it is delivered just before it.          *)
(***************************************************************************)
EXTENDS PicturePath

CONSTANTS
    Textures, NoTexture, MaxSessions, Gop,  \* of the encoder
    MaxFrames,                              \* of the decoder
    MaxInFlight                             \* packets in flight at a time

ASSUME StreamAssumption ==
    /\ NoTexture \notin Textures
    /\ MaxSessions \in Nat \ {0} /\ Gop \in Nat \ {0}
    /\ MaxFrames \in Nat /\ MaxInFlight \in Nat \ {0}

VARIABLES
    stage, sessions, acquired, pending_texture, registered, mapped, frame_index, packet,
    session, refs, frames,
    net,     \* packets in flight
    gap,     \* the last picture encoded will not be delivered before the next one
    intact,  \* the decoder's reference picture is what the encoder's is
    run,     \* pictures delivered without a gap or a failing device, up to Gop
    last     \* the place of the last picture delivered

E == INSTANCE NvencEncoder
D == INSTANCE VtDecoder

host   == <<stage, sessions, acquired, pending_texture, registered, mapped, frame_index, packet>>
client == <<session, refs, frames, intact, run, last>>
path   == <<net, gap>>
vars   == <<host, client, path>>

Packets == [pos : E!Positions, linked : BOOLEAN]

Init ==
    /\ E!Init /\ D!Init
    /\ net = <<>> /\ gap = TRUE
    /\ intact = FALSE /\ run = 0 /\ last = 0
-----------------------------------------------------------------------------
(* The connection: a new decoder for every one. *)

Connect ==
    /\ E!Handshake /\ D!New
    /\ net' = <<>> /\ gap' = TRUE
    /\ intact' = FALSE /\ run' = 0 /\ last' = 0

\* The client leaves its receive loop.
Disconnect ==
    /\ D!Drop
    /\ UNCHANGED <<host, path, intact, run, last>>

HostStep ==
    /\ E!SetUp \/ E!Loop
    /\ UNCHANGED <<client, path>>
-----------------------------------------------------------------------------
(* The path *)

Send ==
    /\ E!SendPacket
    /\ Len(net) < MaxInFlight
    /\ net' = Append(net, [pos |-> packet, linked |-> ~ gap])
    /\ gap' = FALSE
    /\ UNCHANGED client

\* A picture that is encoded and not sent.
Buffer ==
    /\ E!EncodeBuffers
    /\ gap' = TRUE
    /\ UNCHANGED <<client, net>>

\* The packet at i is lost.
Lose(i) ==
    /\ net' = Without(net, i)
    /\ gap' = (gap \/ i = Len(net))
    /\ UNCHANGED <<host, client>>

\* The packet at i + 1 overtakes the one at i.
Overtake(i) ==
    /\ i < Len(net) /\ net' = Swapped(net, i)
    /\ gap' = (gap \/ i + 1 = Len(net))
    /\ UNCHANGED <<host, client>>
-----------------------------------------------------------------------------
(* The client: recv_video and decode_and_dispatch *)

Next1 == Head(net)
Key   == E!Keyframe(Next1.pos)

Grow  == IF ~ Next1.linked THEN 1 ELSE IF run < Gop THEN run + 1 ELSE run

Deliver ==
    /\ net # <<>> /\ net' = Tail(net)
    /\ last' = Next1.pos
    /\ UNCHANGED <<host, gap>>

Decode ==
    /\ Deliver /\ D!Decodes(Key)
    /\ intact' = (Key \/ (Next1.linked /\ intact))
    /\ run' = Grow

\* The packet is skipped for want of a keyframe.
Skip ==
    /\ Deliver /\ D!WaitForKeyframe(Key)
    /\ run' = Grow
    /\ UNCHANGED intact

\* The packet is skipped because the device fails.
DecodeFails ==
    /\ Deliver /\ D!Fails(Key)
    /\ intact' = FALSE /\ run' = 0

Render ==
    /\ D!DropFrame
    /\ UNCHANGED <<host, path, intact, run, last>>
-----------------------------------------------------------------------------
Next ==
    \/ Connect \/ Disconnect \/ HostStep
    \/ Send \/ Buffer \/ \E i \in 1..Len(net) : Lose(i) \/ Overtake(i)
    \/ Decode \/ Skip \/ DecodeFails \/ Render

Spec == Init /\ [][Next]_vars
-----------------------------------------------------------------------------
(* Properties *)

\* The types of the devices and of the path, with their bounds.
TypeOK ==
    /\ E!TypeOK /\ D!TypeOK
    /\ net \in Seq(Packets) /\ Len(net) <= MaxInFlight
    /\ gap \in BOOLEAN /\ intact \in BOOLEAN
    /\ run \in 0..Gop /\ last \in E!Positions

\* At the end of a turn of the encode loop no texture is mapped or kept from the
\* duplication, whatever the path did with the packet.
CleanTurns == E!CleanTurns

\* The client's decoder and renderer hold exactly the objects that they use, through
\* any number of connections.
ReferencesBalanced == D!ReferencesBalanced

\* "Minor loss causes brief artifacts, not a frozen or crashed stream" (UC-003):
\* as soon as Gop pictures in a row have been delivered and the devices have not
\* failed, the decoder runs and its picture is intact, whatever happened before.
RecoversWithinGop == run = Gop => session \in {"ready", "none"} /\ intact
=============================================================================
