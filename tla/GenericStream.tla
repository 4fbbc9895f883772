----------------------------- MODULE GenericStream -----------------------------
(***************************************************************************)
(* A stream through the generic pipeline of the host, which encodes on the *)
(* CPU, to any decoder of the client.  Host and client are each built with *)
(* the FFmpeg codecs, with openh264, or with neither; an Auto client on    *)
(* macOS has VideoToolbox besides.  In the handshake the host announces    *)
(* the codec and the rate of the encoder it has made, whatever the client  *)
(* proposes, and starts to send; the client then makes its decoder.        *)
(*                                                                         *)
(* A packet in flight is its place after the last keyframe, its codec, and *)
(* whether the packet encoded just before it is delivered just before it.  *)
(*                                                                         *)
(* The libraries.  Each may code a keyframe before it must.  FFmpeg must   *)
(* when gop pictures are coded since the last one, openh264 when the       *)
(* caller has asked; the first picture always is one.  openh264 may skip a *)
(* picture to keep its bitrate, and the request then stands.  FFmpeg may   *)
(* hold up to MaxHeld pictures back, and gives them in their order.        *)
(***************************************************************************)
EXTENDS PicturePath

CONSTANTS
    Rates,        \* the frame rates that a host may be started with
    U16Max,       \* u16::MAX, to which FfmpegEncoder limits the rate
    MaxHeld,      \* pictures that FFmpeg's encoder may hold back
    MaxInFlight   \* packets in flight at a time

VARIABLES
    stage,        \* how far the host's pipeline is
    encoder,      \* the encoder, or NoEncoder
    packet,       \* the place of the packet to send
    net,          \* packets in flight
    gap,          \* the last picture encoded will not be delivered before the next one
    params,       \* what the host announced to the client, or NoParams
    decoder,      \* the client's decoder, or NoDecoder
    intact,       \* the decoder's reference picture is what the encoder's is
    run           \* pictures delivered without a gap or a failing decoder, up to the interval

host   == <<stage, encoder, packet>>
path   == <<net, gap>>
client == <<params, decoder, intact, run>>
vars   == <<host, path, client>>

Codecs == {"hevc", "h264"}
Builds == {"ffmpeg-fallback", "fallback"}   \* with software codecs

NoEncoder == [kind |-> "none"]
NoParams  == [codec |-> "none"]
NoDecoder == [kind |-> "none"]

\* "Force a keyframe every 0.5 seconds": (fps / 2).max(1)
HalfSecond(fps) == IF fps \div 2 > 1 THEN fps \div 2 ELSE 1

Init ==
    /\ stage = "down" /\ encoder = NoEncoder /\ packet = 0
    /\ net = <<>> /\ gap = TRUE
    /\ params = NoParams /\ decoder = NoDecoder
    /\ intact = FALSE /\ run = 0
-----------------------------------------------------------------------------
(* create_encoder *)

\* What build_generic_pipeline asks for.
EncoderConfig(rate) == [codec |-> "hevc", fps |-> rate]

\* The picture that comes next is to be a keyframe.
Fresh(kind, config) ==
    [kind |-> kind, codec |-> config.codec, fps |-> config.fps,
     frame_index |-> 0, forced |-> TRUE, since |-> 0, held |-> 0]

FfmpegEncoder(config)   == Fresh("Ffmpeg", config)
OpenH264Encoder(config) == Fresh("OpenH264", [config EXCEPT !.codec = "h264"])

create_software_encoder(build, config) ==
    IF build = "ffmpeg-fallback" THEN FfmpegEncoder(config) ELSE OpenH264Encoder(config)

\* The distance between keyframes: gop, or keyframe_interval.
Interval(e) ==
    HalfSecond(IF e.kind = "Ffmpeg" /\ e.fps > U16Max THEN U16Max ELSE e.fps)

\* Another client is accepted, and the capturer made.
StartPipeline ==
    /\ stage = "down" /\ stage' = "capturer"
    /\ UNCHANGED <<encoder, packet, path, client>>

CreateEncoder(build, rate) ==
    /\ stage = "capturer"
    /\ stage' = "built"
    /\ encoder' = create_software_encoder(build, EncoderConfig(rate))
    /\ UNCHANGED <<packet, path, client>>

\* A host built without software codecs, a display of odd width or height, or a
\* library that fails.
CreateEncoderFails ==
    /\ stage = "capturer" /\ stage' = "down"
    /\ UNCHANGED <<encoder, packet, path, client>>
-----------------------------------------------------------------------------
(* negotiate_and_stream *)

\* The mutant announces what was asked for.
StreamParams_mut(e) == [codec |-> "hevc", fps |-> e.fps]
StreamParams(e)     == [codec |-> e.codec, fps |-> e.fps]

Drop == stage' = "down" /\ encoder' = NoEncoder

\* On the control stream of a new connection.
Handshake ==
    /\ stage = "built" /\ params = NoParams
    /\ stage' = "capture"
    /\ params' = StreamParams(encoder)
    /\ net' = <<>> /\ gap' = TRUE
    /\ intact' = FALSE /\ run' = 0
    /\ UNCHANGED <<encoder, packet, decoder>>

HandshakeFails ==
    /\ stage = "built" /\ Drop
    /\ UNCHANGED <<packet, path, client>>
-----------------------------------------------------------------------------
(* drive_encode_loop and the encoders *)

CaptureFrame ==
    /\ stage = "capture" /\ stage' = "encode"
    /\ UNCHANGED <<encoder, packet, path, client>>

\* The capture fails, or finds the channel closed.
CaptureEnds ==
    /\ stage = "capture" /\ Drop
    /\ UNCHANGED <<packet, path, client>>

\* The library codes a picture; its place, if it is a keyframe or is not.
Place(e, key)      == IF key THEN 0 ELSE e.since
\* The mutant does without the keyframes that must be.
MayCode_mut(e, key) == TRUE
MayCode(e, key)    == key \/ ~ (e.forced \/ (e.kind = "Ffmpeg" /\ e.since = Interval(e)))
Coded(e, key) ==
    [e EXCEPT !.forced = FALSE,
              !.since = Place(e, key) + 1]

\* frame_index is above 0 and a multiple of keyframe_interval: once it is not 0, it
\* is kept as a number from 1 to the interval.  The mutant's multiples are one off.
Due_mut(e) == e.frame_index = Interval(e) + 1
Due(e)     == e.frame_index = Interval(e)

Counted(e) ==
    [e EXCEPT !.forced = e.forced \/ Due(e),
              !.frame_index = IF Due(e) THEN 1 ELSE e.frame_index + 1]

Out(e, key) ==
    /\ stage' = "send"
    /\ encoder' = Coded(e, key) /\ packet' = Place(e, key)

OpenH264Encode(key) ==
    /\ stage = "encode" /\ encoder.kind = "OpenH264"
    /\ LET e == Counted(encoder) IN MayCode(e, key) /\ Out(e, key)
    /\ UNCHANGED <<path, client>>

\* An empty bitstream: encode returns None.
OpenH264Skips ==
    /\ stage = "encode" /\ encoder.kind = "OpenH264"
    /\ stage' = "capture" /\ encoder' = Counted(encoder)
    /\ UNCHANGED <<packet, path, client>>

\* receive_packet gives the oldest picture that is held, or the one just sent.
FfmpegEncode(key) ==
    /\ stage = "encode" /\ encoder.kind = "Ffmpeg"
    /\ MayCode(encoder, key) /\ Out(encoder, key)
    /\ UNCHANGED <<path, client>>

\* EAGAIN: encode returns None.
FfmpegHolds ==
    /\ stage = "encode" /\ encoder.kind = "Ffmpeg" /\ encoder.held < MaxHeld
    /\ stage' = "capture" /\ encoder' = [encoder EXCEPT !.held = @ + 1]
    /\ UNCHANGED <<packet, path, client>>

\* The screen has another size than when the encoder was made, or the library
\* fails.
EncodeFails ==
    /\ stage = "encode" /\ Drop
    /\ UNCHANGED <<packet, path, client>>

Send ==
    /\ stage = "send" /\ stage' = "capture"
    /\ Len(net) < MaxInFlight
    /\ net' = Append(net, [pos |-> packet, linked |-> ~ gap, codec |-> encoder.codec])
    /\ gap' = FALSE
    /\ UNCHANGED <<encoder, packet, client>>

\* The channel is closed.
SendRefused ==
    /\ stage = "send" /\ Drop
    /\ UNCHANGED <<packet, path, client>>
-----------------------------------------------------------------------------
(* The path *)

Lose(i) ==
    /\ net' = Without(net, i)
    /\ gap' = (gap \/ i = Len(net))
    /\ UNCHANGED <<host, client>>

Overtake(i) ==
    /\ i < Len(net) /\ net' = Swapped(net, i)
    /\ gap' = (gap \/ i + 1 = Len(net))
    /\ UNCHANGED <<host, client>>
-----------------------------------------------------------------------------
(* run_pipeline_with_handshake *)

\* The codecs that a kind of decoder takes.
Supports(kind) == IF kind = "OpenH264" THEN {"h264"} ELSE Codecs

\* create_decoder of a client that has VideoToolbox, and of one that has not.
create_software_decoder(build) == IF build = "ffmpeg-fallback" THEN "Ffmpeg" ELSE "OpenH264"

CreateDecoder(kind) ==
    /\ params # NoParams /\ decoder = NoDecoder
    /\ params.codec \in Supports(kind)
    /\ decoder' = [kind |-> kind, codec |-> params.codec]
    /\ UNCHANGED <<host, path, params, intact, run>>

\* The client fails to make a decoder, or leaves its receive loop.
Disconnect ==
    /\ params # NoParams
    /\ params' = NoParams /\ decoder' = NoDecoder
    /\ UNCHANGED <<host, path, intact, run>>

First == Head(net)
Key   == First.pos = 0

Deliver ==
    /\ decoder # NoDecoder /\ net # <<>>
    /\ net' = Tail(net)
    /\ UNCHANGED <<host, gap, params, decoder>>

\* A picture, or none yet.
Decode ==
    /\ Deliver
    /\ intact' = (Key \/ (First.linked /\ intact))
    /\ run' = IF ~ First.linked THEN 1
              ELSE IF run < HalfSecond(params.fps) THEN run + 1 ELSE run

\* The packet is skipped: the decoder fails on it.
DecodeFails ==
    /\ Deliver
    /\ intact' = FALSE /\ run' = 0
-----------------------------------------------------------------------------
Next ==
    \/ StartPipeline \/ CreateEncoderFails
    \/ \E build \in Builds, rate \in Rates : CreateEncoder(build, rate)
    \/ Handshake \/ HandshakeFails
    \/ CaptureFrame \/ CaptureEnds
    \/ \E key \in BOOLEAN : OpenH264Encode(key) \/ FfmpegEncode(key)
    \/ OpenH264Skips \/ FfmpegHolds \/ EncodeFails
    \/ Send \/ SendRefused
    \/ \E i \in 1..Len(net) : Lose(i) \/ Overtake(i)
    \/ \E build \in Builds : CreateDecoder(create_software_decoder(build))
    \/ CreateDecoder("VideoToolbox")
    \/ Disconnect \/ Decode \/ DecodeFails

Spec == Init /\ [][Next]_vars
-----------------------------------------------------------------------------
(* Properties *)

Packets == [pos : Nat, linked : BOOLEAN, codec : Codecs]

Encoders ==
    {e \in [kind : {"Ffmpeg", "OpenH264"}, codec : Codecs, fps : Rates, frame_index : Nat,
            forced : BOOLEAN, since : Nat, held : 0..MaxHeld] :
        e.frame_index <= Interval(e) /\ e.since <= Interval(e)}

\* The types of the pipeline; no encoder ever puts more pictures behind a keyframe
\* than its interval allows.
TypeOK ==
    /\ stage \in {"down", "capturer", "built", "capture", "encode", "send"}
    /\ encoder = NoEncoder \/ encoder \in Encoders
    /\ packet \in Nat
    /\ net \in Seq(Packets) /\ Len(net) <= MaxInFlight
    /\ gap \in BOOLEAN
    /\ params = NoParams \/ params \in [codec : Codecs, fps : Rates]
    /\ \/ decoder = NoDecoder
       \/ decoder \in [kind : {"VideoToolbox", "Ffmpeg", "OpenH264"}, codec : Codecs]
    /\ intact \in BOOLEAN /\ run \in Nat

\* "Ensures client and host agree on format before media flows" (ADR-010): whatever
\* either side is built with, and whatever came before this connection, every packet
\* on its way to a decoder is of the decoder's codec, which its kind can decode.
CodecAgreed ==
    decoder # NoDecoder =>
        \A i \in 1..Len(net) :
            net[i].codec = decoder.codec /\ decoder.codec \in Supports(decoder.kind)

\* "Keyframe every 0.5 seconds for fast recovery from packet loss": once as many
\* pictures as make up half a second at the announced rate have been delivered in a
\* row, the picture is intact, whatever was lost, skipped or held back before.
SoftwareRecovers ==
    decoder # NoDecoder /\ run = HalfSecond(params.fps) => intact
=============================================================================
