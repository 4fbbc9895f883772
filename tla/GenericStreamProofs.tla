-------------------------- MODULE GenericStreamProofs --------------------------
(***************************************************************************)
(* Theorems about the stream through the generic pipeline, for any rates   *)
(* and every number of packets in flight and pictures held back.           *)
(***************************************************************************)
EXTENDS GenericStream, TLAPS

\* Rates, bounds and the limit on rates are numbers.
Constants ==
    /\ Rates \subseteq Nat /\ U16Max \in Nat
    /\ MaxHeld \in Nat /\ MaxInFlight \in Nat

(***************************************************************************)
(* The encoder.  openh264 is asked for a keyframe when frame_index reaches *)
(* the interval, and codes no more pictures than frame_index counts; both  *)
(* together keep since within the interval, although pictures are skipped. *)
(***************************************************************************)
Asks(e) == e.kind = "OpenH264" => e.forced \/ e.since <= e.frame_index

Encoding == stage \in {"capture", "encode", "send"}

EncoderRuns ==
    /\ stage \in {"built", "capture", "encode", "send"} =>
           encoder \in Encoders /\ Asks(encoder)
    /\ stage = "send" => encoder.since = packet + 1 /\ packet < Interval(encoder)

(***************************************************************************)
(* The connection.  What the host announced holds of the encoder for as    *)
(* long as it sends, and of the packets that are in flight and to be sent. *)
(***************************************************************************)
Announced ==
    /\ params # NoParams =>
           /\ Encoding => encoder.codec = params.codec /\ encoder.fps = params.fps
           /\ \A i \in 1..Len(net) :
                  net[i].codec = params.codec /\ net[i].pos < HalfSecond(params.fps)
    /\ decoder # NoDecoder =>
           params # NoParams /\ decoder.codec = params.codec
           /\ decoder.codec \in Supports(decoder.kind)

(***************************************************************************)
(* Why a damaged picture is mended: places grow along linked packets, from *)
(* the pictures delivered in a row while it was damaged to the picture     *)
(* that comes next, up to a keyframe, which is never further than half a   *)
(* second.                                                                 *)
(***************************************************************************)
Floor(i) == IF i # 0 THEN net[i].pos ELSE IF intact THEN 0 ELSE run

Chained == \A i \in 1..Len(net) : net[i].linked /\ net[i].pos # 0 => net[i].pos > Floor(i - 1)

NextChained ==
    Encoding /\ ~ gap =>
        IF stage = "send" THEN packet # 0 => packet > Floor(Len(net))
        ELSE encoder.since > Floor(Len(net))

DamageBound == params # NoParams /\ ~ intact => run < HalfSecond(params.fps)

IInv == TypeOK /\ EncoderRuns /\ Announced /\ Chained /\ NextChained /\ DamageBound
-----------------------------------------------------------------------------
(* Rates and encoders *)

\* Half a second is at least one picture, and no fewer at a higher rate.
LEMMA HalfSeconds ==
    ASSUME NEW fps \in Nat
    PROVE  /\ HalfSecond(fps) \in Nat /\ HalfSecond(fps) > 0
           /\ \A m \in Nat : m < fps => HalfSecond(m) <= HalfSecond(fps)
<1>1. fps \div 2 \in Nat /\ 2 * (fps \div 2) <= fps /\ fps < 2 * (fps \div 2) + 2
  OBVIOUS
<1>2. ASSUME NEW m \in Nat, m < fps PROVE HalfSecond(m) <= HalfSecond(fps)
  <2>1. m \div 2 \in Nat /\ 2 * (m \div 2) <= m /\ m < 2 * (m \div 2) + 2
    OBVIOUS
  <2>2. m \div 2 <= fps \div 2
    BY <1>1, <1>2, <2>1
  <2>. QED
    BY <1>1, <2>1, <2>2 DEF HalfSecond
<1>. QED
  BY <1>1, <1>2 DEF HalfSecond

\* An encoder's interval is at most half a second at its rate.
LEMMA Intervals ==
    ASSUME Constants, NEW e, e.fps \in Rates
    PROVE  /\ e.fps \in Nat
           /\ HalfSecond(e.fps) \in Nat /\ HalfSecond(e.fps) > 0
           /\ Interval(e) \in Nat /\ Interval(e) > 0
           /\ Interval(e) <= HalfSecond(e.fps)
<1>1. e.fps \in Nat /\ U16Max \in Nat
  BY DEF Constants
<1>2. CASE e.kind = "Ffmpeg" /\ e.fps > U16Max
  <2>1. Interval(e) = HalfSecond(U16Max) /\ U16Max < e.fps
    BY <1>1, <1>2 DEF Interval
  <2>. QED
    BY <1>1, <2>1, HalfSeconds
<1>3. CASE ~ (e.kind = "Ffmpeg" /\ e.fps > U16Max)
  <2>1. Interval(e) = HalfSecond(e.fps)
    BY <1>3 DEF Interval
  <2>. QED
    BY <1>1, <2>1, HalfSeconds
<1>. QED
  BY <1>2, <1>3

EncoderRecord ==
    [kind : {"Ffmpeg", "OpenH264"}, codec : Codecs, fps : Rates, frame_index : Nat,
     forced : BOOLEAN, since : Nat, held : 0..MaxHeld]

\* What is known of an encoder.
LEMMA EncoderFacts ==
    ASSUME Constants, NEW e \in Encoders
    PROVE  /\ e \in EncoderRecord
           /\ e.frame_index <= Interval(e) /\ e.since <= Interval(e)
           /\ Interval(e) \in Nat /\ Interval(e) > 0 /\ Interval(e) <= HalfSecond(e.fps)
<1>1. e \in EncoderRecord /\ e.frame_index <= Interval(e) /\ e.since <= Interval(e)
  BY DEF Encoders, EncoderRecord
<1>. QED
  BY <1>1, Intervals DEF EncoderRecord

\* What coding a picture changes of an encoder.
LEMMA CodedRecord ==
    ASSUME NEW e \in EncoderRecord, NEW key, Place(e, key) \in Nat
    PROVE  /\ Coded(e, key) \in EncoderRecord
           /\ Coded(e, key).since = Place(e, key) + 1
           /\ Coded(e, key).kind = e.kind /\ Coded(e, key).codec = e.codec
           /\ Coded(e, key).fps = e.fps /\ Coded(e, key).frame_index = e.frame_index
<1>. DEFINE n == Place(e, key) + 1
<1>1. n \in Nat
  OBVIOUS
<1>. HIDE DEF n
<1>2. Coded(e, key) = [e EXCEPT !.forced = FALSE, !.since = n]
  BY DEF Coded, n
<1>3. [e EXCEPT !.forced = FALSE, !.since = n] \in EncoderRecord
  BY <1>1 DEF EncoderRecord
<1>4. Coded(e, key).since = n /\ Coded(e, key).kind = e.kind /\ Coded(e, key).codec = e.codec
      /\ Coded(e, key).fps = e.fps /\ Coded(e, key).frame_index = e.frame_index
  BY <1>1, <1>2 DEF EncoderRecord
<1>. QED
  BY <1>2, <1>3, <1>4 DEF n

\* What counting a picture changes of an encoder.
LEMMA CountedRecord ==
    ASSUME NEW e \in EncoderRecord
    PROVE  /\ Counted(e) \in EncoderRecord
           /\ Counted(e).frame_index = (IF Due(e) THEN 1 ELSE e.frame_index + 1)
           /\ ~ Counted(e).forced => ~ e.forced /\ ~ Due(e)
           /\ Counted(e).kind = e.kind /\ Counted(e).codec = e.codec
           /\ Counted(e).fps = e.fps /\ Counted(e).since = e.since
<1>. DEFINE f == e.forced \/ Due(e)
            n == IF Due(e) THEN 1 ELSE e.frame_index + 1
<1>1. f \in BOOLEAN /\ n \in Nat
  BY DEF EncoderRecord
<1>2. Counted(e) = [e EXCEPT !.forced = f, !.frame_index = n]
  BY DEF Counted
<1>3. ~ f => ~ e.forced /\ ~ Due(e)
  OBVIOUS
<1>. HIDE DEF f, n
<1>4. [e EXCEPT !.forced = f, !.frame_index = n] \in EncoderRecord
  BY <1>1 DEF EncoderRecord
<1>5. Counted(e).forced = f
  BY <1>2 DEF EncoderRecord
<1>6. Counted(e).frame_index = n /\ Counted(e).kind = e.kind /\ Counted(e).codec = e.codec
      /\ Counted(e).fps = e.fps /\ Counted(e).since = e.since
  BY <1>2 DEF EncoderRecord
<1>7. ~ Counted(e).forced => ~ e.forced /\ ~ Due(e)
  BY <1>3, <1>5
<1>. QED
  BY <1>2, <1>4, <1>6, <1>7 DEF n

\* A record within its interval is an encoder.
LEMMA IsEncoder ==
    ASSUME NEW e \in EncoderRecord, e.frame_index <= Interval(e), e.since <= Interval(e)
    PROVE  e \in Encoders
  BY DEF Encoders, EncoderRecord

\* A new encoder.
LEMMA CreatedFacts ==
    ASSUME Constants, NEW build \in Builds, NEW rate \in Rates
    PROVE  LET e == create_software_encoder(build, EncoderConfig(rate))
           IN  e \in Encoders /\ Asks(e)
<1>. DEFINE e == create_software_encoder(build, EncoderConfig(rate))
<1>1. e \in EncoderRecord /\ e.frame_index = 0 /\ e.since = 0 /\ e.forced
  BY DEF create_software_encoder, EncoderConfig, FfmpegEncoder, OpenH264Encoder, Fresh,
        EncoderRecord, Codecs, Constants
<1>2. Interval(e) \in Nat
  BY <1>1, Intervals DEF EncoderRecord
<1>3. e \in Encoders
  BY <1>1, <1>2, IsEncoder
<1>. QED
  BY <1>1, <1>3 DEF Asks

\* Counting a picture asks openh264 for a keyframe at the end of the interval.
LEMMA CountedFacts ==
    ASSUME Constants, NEW e \in Encoders, Asks(e), e.kind = "OpenH264"
    PROVE  LET c == Counted(e)
           IN  /\ c \in Encoders /\ Asks(c)
               /\ c.kind = e.kind /\ c.codec = e.codec /\ c.fps = e.fps /\ c.since = e.since
               /\ Interval(c) = Interval(e)
               /\ c.frame_index > 0
               /\ ~ c.forced => c.since < c.frame_index
<1>. DEFINE c == Counted(e)
<1>1. /\ e \in EncoderRecord /\ e.frame_index <= Interval(e) /\ e.since <= Interval(e)
      /\ Interval(e) \in Nat /\ Interval(e) > 0
  BY EncoderFacts
<1>2. /\ c \in EncoderRecord
      /\ c.kind = e.kind /\ c.codec = e.codec /\ c.fps = e.fps /\ c.since = e.since
      /\ ~ c.forced => ~ e.forced /\ ~ Due(e)
      /\ c.frame_index = IF Due(e) THEN 1 ELSE e.frame_index + 1
  BY <1>1, CountedRecord
<1>3. Interval(c) = Interval(e)
  BY <1>2 DEF Interval
<1>4. c.frame_index <= Interval(c) /\ c.frame_index > 0
  BY <1>1, <1>2, <1>3 DEF Due, EncoderRecord
<1>5. ~ c.forced => c.since < c.frame_index
  BY <1>1, <1>2 DEF Asks, EncoderRecord
<1>6. c \in Encoders
  BY <1>1, <1>2, <1>3, <1>4, IsEncoder
<1>7. Asks(c)
  BY <1>2, <1>4, <1>5 DEF Asks, EncoderRecord
<1>. QED
  BY <1>2, <1>3, <1>4, <1>5, <1>6, <1>7

\* Coding a picture puts it at a place within the interval.
LEMMA CodedFacts ==
    ASSUME Constants, NEW e \in Encoders, NEW key \in BOOLEAN, MayCode(e, key),
           e.kind = "OpenH264" => e.frame_index > 0 /\ (~ e.forced => e.since < e.frame_index)
    PROVE  LET d == Coded(e, key)
           IN  /\ d \in Encoders /\ Asks(d)
               /\ d.codec = e.codec /\ d.fps = e.fps /\ Interval(d) = Interval(e)
               /\ Place(e, key) \in Nat /\ Place(e, key) < Interval(d)
               /\ d.since = Place(e, key) + 1
               /\ Place(e, key) # 0 => Place(e, key) = e.since
<1>. DEFINE d == Coded(e, key)
<1>1. /\ e \in EncoderRecord /\ e.frame_index <= Interval(e) /\ e.since <= Interval(e)
      /\ Interval(e) \in Nat /\ Interval(e) > 0
  BY EncoderFacts
<1>2. /\ Place(e, key) \in Nat /\ Place(e, key) < Interval(e)
      /\ e.kind = "OpenH264" => Place(e, key) < e.frame_index
      /\ Place(e, key) # 0 => Place(e, key) = e.since
  BY <1>1 DEF Place, MayCode, EncoderRecord
<1>3. /\ d \in EncoderRecord /\ d.since = Place(e, key) + 1
      /\ d.kind = e.kind /\ d.codec = e.codec /\ d.fps = e.fps
      /\ d.frame_index = e.frame_index
  BY <1>1, <1>2, CodedRecord
<1>4. Interval(d) = Interval(e)
  BY <1>3 DEF Interval
<1>5. d \in Encoders
  <2>1. d.since <= Interval(d) /\ d.frame_index <= Interval(d)
    BY <1>1, <1>2, <1>3, <1>4
  <2>. QED
    BY <1>3, <2>1, IsEncoder
<1>6. Asks(d)
  BY <1>1, <1>2, <1>3 DEF Asks, EncoderRecord
<1>. QED
  BY <1>2, <1>3, <1>4, <1>5, <1>6
-----------------------------------------------------------------------------
(* The host *)

\* Nothing in flight is within every bound.
LEMMA NothingInFlight ==
    Constants => <<>> \in Seq(Packets) /\ Len(<<>>) = 0 /\ Len(<<>>) <= MaxInFlight
  BY DEF Constants

\* The invariant holds of a host that has just started.
LEMMA InitIInv == Constants /\ Init => IInv
<1>. SUFFICES ASSUME Constants, Init PROVE IInv
  OBVIOUS
<1>1. TypeOK
  <2>1. net \in Seq(Packets) /\ Len(net) <= MaxInFlight
    BY NothingInFlight DEF Init
  <2>. QED
    BY <2>1 DEF Init, TypeOK
<1>2. net = <<>> /\ Len(net) = 0 /\ stage = "down" /\ params = NoParams /\ decoder = NoDecoder
  BY DEF Init
<1>. QED
  BY <1>1, <1>2 DEF IInv, EncoderRuns, Announced, Encoding, Chained, NextChained, DamageBound

\* What holds in every state, for use in the next.
LEMMA Known ==
    ASSUME Constants, IInv
    PROVE  /\ Len(net) \in Nat /\ MaxInFlight \in Nat /\ Len(net) <= MaxInFlight
           /\ net \in Seq(Packets)
           /\ \A i \in 1..Len(net) : net[i] \in Packets /\ net[i].pos \in Nat
           /\ run \in Nat /\ intact \in BOOLEAN /\ gap \in BOOLEAN /\ packet \in Nat
           /\ stage \in {"built", "capture", "encode", "send"} =>
                  /\ encoder \in Encoders /\ encoder \in EncoderRecord /\ Asks(encoder)
                  /\ encoder.since \in Nat /\ encoder.codec \in Codecs /\ encoder.fps \in Rates
<1>1. \A i \in 1..Len(net) : net[i] \in Packets
  BY DEF IInv, TypeOK
<1>2. stage \in {"built", "capture", "encode", "send"} =>
          encoder \in Encoders /\ encoder \in EncoderRecord /\ Asks(encoder)
  BY EncoderFacts DEF IInv, EncoderRuns
<1>3. encoder \in EncoderRecord =>
          encoder.since \in Nat /\ encoder.codec \in Codecs /\ encoder.fps \in Rates
  BY DEF EncoderRecord
<1>. QED
  BY <1>1, <1>2, <1>3 DEF IInv, TypeOK, Constants, Packets

\* The pipeline is dropped, from any place in it.
LEMMA DropStep ==
    ASSUME Constants, IInv, Drop, UNCHANGED <<packet, path, client>>
    PROVE  IInv'
<1>. USE DEF IInv, path, client
<1>1. TypeOK'
  BY DEF TypeOK, Drop
<1>2. EncoderRuns' /\ NextChained'
  BY DEF EncoderRuns, NextChained, Encoding, Drop
<1>3. Announced'
  BY DEF Announced, Encoding, Drop
<1>4. Chained' /\ DamageBound'
  BY DEF Chained, Floor, DamageBound
<1>. QED
  BY <1>1, <1>2, <1>3, <1>4

\* The steps of the set-up.
LEMMA SetUpStep ==
    ASSUME Constants, IInv,
           \/ StartPipeline \/ CreateEncoderFails
           \/ \E build \in Builds, rate \in Rates : CreateEncoder(build, rate)
    PROVE  IInv'
<1>. USE DEF IInv, path, client
<1>1. UNCHANGED <<packet, path, client>> /\ stage' \in {"down", "capturer", "built"}
  BY DEF StartPipeline, CreateEncoderFails, CreateEncoder
<1>2. /\ stage' # "built" => encoder' = encoder
      /\ stage' = "built" => encoder' \in Encoders /\ Asks(encoder')
  BY CreatedFacts DEF StartPipeline, CreateEncoderFails, CreateEncoder
<1>3. TypeOK'
  BY <1>1, <1>2 DEF TypeOK
<1>4. EncoderRuns' /\ NextChained'
  BY <1>1, <1>2 DEF EncoderRuns, NextChained, Encoding, Asks
<1>5. Announced'
  BY <1>1 DEF Announced, Encoding
<1>6. Chained' /\ DamageBound'
  BY <1>1 DEF Chained, Floor, DamageBound
<1>. QED
  BY <1>3, <1>4, <1>5, <1>6

\* The handshake begins a new connection, with nothing in flight.
LEMMA HandshakeStep ==
    ASSUME Constants, IInv, Handshake
    PROVE  IInv'
<1>. USE DEF IInv, Handshake
<1>1. encoder \in Encoders /\ Asks(encoder) /\ encoder.codec \in Codecs /\ encoder.fps \in Rates
  BY Known
<1>2. params' \in [codec : Codecs, fps : Rates]
      /\ params'.codec = encoder.codec /\ params'.fps = encoder.fps
  BY <1>1 DEF StreamParams
<1>3. net' = <<>> /\ Len(net') = 0 /\ net' \in Seq(Packets) /\ gap' = TRUE
      /\ stage' = "capture" /\ encoder' = encoder /\ run' = 0
  OBVIOUS
<1>4. decoder = NoDecoder /\ decoder' = NoDecoder
  BY DEF Announced
<1>5. TypeOK'
  <2>1. Len(net') <= MaxInFlight
    BY NothingInFlight
  <2>2. intact' \in BOOLEAN /\ gap' \in BOOLEAN
    BY ONLY Handshake DEF Handshake
  <2>. QED
    BY <1>2, <1>3, <1>4, <2>1, <2>2 DEF TypeOK
<1>6. EncoderRuns'
  BY <1>1, <1>3 DEF EncoderRuns, Asks
<1>7. Announced'
  BY <1>2, <1>3, <1>4 DEF Announced, Encoding
<1>8. Chained' /\ NextChained'
  BY <1>3 DEF Chained, NextChained
<1>9. DamageBound'
  <2>1. HalfSecond(params'.fps) > 0
    BY <1>1, <1>2, Intervals
  <2>. QED
    BY <1>3, <2>1 DEF DamageBound
<1>. QED
  BY <1>5, <1>6, <1>7, <1>8, <1>9

\* A turn of the encode loop that makes no packet.
LEMMA NoPacketStep ==
    ASSUME Constants, IInv, CaptureFrame \/ OpenH264Skips \/ FfmpegHolds
    PROVE  IInv'
<1>. USE DEF IInv, path, client
<1>1. /\ stage \in {"capture", "encode"} /\ stage' \in {"capture", "encode"}
      /\ UNCHANGED <<packet, path, client>>
  BY DEF CaptureFrame, OpenH264Skips, FfmpegHolds
<1>2. encoder \in Encoders /\ encoder \in EncoderRecord /\ Asks(encoder)
  BY <1>1, Known
<1>3. /\ encoder' \in Encoders /\ Asks(encoder')
      /\ encoder'.codec = encoder.codec /\ encoder'.fps = encoder.fps
      /\ encoder'.since = encoder.since
  <2>1. CASE CaptureFrame
    BY <1>2, <2>1 DEF CaptureFrame
  <2>2. CASE OpenH264Skips
    BY <1>2, <2>2, CountedFacts DEF OpenH264Skips
  <2>3. CASE FfmpegHolds
    <3>1. encoder' = [encoder EXCEPT !.held = @ + 1] /\ encoder.kind = "Ffmpeg"
          /\ encoder.held + 1 \in 0..MaxHeld
      BY <1>2, <2>3 DEF FfmpegHolds, EncoderRecord, Constants
    <3>2. /\ encoder' \in EncoderRecord /\ encoder'.kind = encoder.kind
          /\ encoder'.codec = encoder.codec /\ encoder'.fps = encoder.fps
          /\ encoder'.since = encoder.since /\ encoder'.frame_index = encoder.frame_index
      BY <1>2, <3>1 DEF EncoderRecord
    <3>3. Interval(encoder') = Interval(encoder)
      BY <3>2 DEF Interval
    <3>4. encoder' \in Encoders
      <4>1. encoder.frame_index <= Interval(encoder) /\ encoder.since <= Interval(encoder)
        BY <1>2, EncoderFacts
      <4>. QED
        BY <3>2, <3>3, <4>1, IsEncoder
    <3>. QED
      BY <3>1, <3>2, <3>4 DEF Asks
  <2>. QED
    BY <2>1, <2>2, <2>3
<1>4. TypeOK'
  BY <1>1, <1>3 DEF TypeOK
<1>5. EncoderRuns'
  BY <1>1, <1>3 DEF EncoderRuns, Asks
<1>6. Announced'
  BY <1>1, <1>3 DEF Announced, Encoding
<1>7. NextChained'
  BY <1>1, <1>3 DEF NextChained, Encoding, Floor
<1>8. Chained' /\ DamageBound'
  BY <1>1 DEF Chained, Floor, DamageBound
<1>. QED
  BY <1>4, <1>5, <1>6, <1>7, <1>8

\* A turn of the encode loop that makes a packet.
LEMMA PacketStep ==
    ASSUME Constants, IInv, NEW key \in BOOLEAN, OpenH264Encode(key) \/ FfmpegEncode(key)
    PROVE  IInv'
<1>. USE DEF IInv, path, client
<1>1. stage = "encode" /\ stage' = "send" /\ UNCHANGED <<path, client>>
  BY DEF OpenH264Encode, FfmpegEncode, Out
<1>2. encoder \in Encoders /\ Asks(encoder)
  BY <1>1, Known
<1>3. PICK e \in Encoders :
          /\ e.codec = encoder.codec /\ e.fps = encoder.fps /\ e.since = encoder.since
          /\ MayCode(e, key) /\ Out(e, key)
          /\ e.kind = "OpenH264" => e.frame_index > 0 /\ (~ e.forced => e.since < e.frame_index)
  <2>1. CASE OpenH264Encode(key)
    BY <1>2, <2>1, CountedFacts DEF OpenH264Encode
  <2>2. CASE FfmpegEncode(key)
    BY <1>2, <2>2 DEF FfmpegEncode
  <2>. QED
    BY <2>1, <2>2
<1>4. /\ encoder' \in Encoders /\ Asks(encoder')
      /\ encoder'.codec = encoder.codec /\ encoder'.fps = encoder.fps
      /\ packet' \in Nat /\ packet' < Interval(encoder')
      /\ encoder'.since = packet' + 1
      /\ packet' # 0 => packet' = encoder.since
  BY <1>3, CodedFacts DEF Out
<1>5. TypeOK'
  BY <1>1, <1>4 DEF TypeOK
<1>6. EncoderRuns'
  BY <1>1, <1>4 DEF EncoderRuns, Asks, Interval
<1>7. Announced'
  BY <1>1, <1>4 DEF Announced, Encoding
<1>8. NextChained'
  BY <1>1, <1>4 DEF NextChained, Encoding, Floor
<1>9. Chained' /\ DamageBound'
  BY <1>1 DEF Chained, Floor, DamageBound
<1>. QED
  BY <1>5, <1>6, <1>7, <1>8, <1>9
-----------------------------------------------------------------------------
(* The path *)

\* What is known of a packet in flight.
LEMMA PacketFacts ==
    ASSUME NEW p \in Packets
    PROVE  /\ p.pos \in Nat /\ p.codec \in Codecs /\ p.linked \in BOOLEAN
           /\ Unlinked(p) \in Packets /\ ~ Unlinked(p).linked
           /\ Unlinked(p).pos = p.pos /\ Unlinked(p).codec = p.codec
  BY DEF Packets, Unlinked

\* A function on 1..n is a sequence of length n.
LEMMA FunctionIsSequence ==
    ASSUME NEW n \in Nat, NEW f \in [1..n -> Packets]
    PROVE  f \in Seq(Packets) /\ Len(f) = n
<1>1. f \in Seq(Packets)
  OBVIOUS
<1>2. DOMAIN f = 1..Len(f) /\ DOMAIN f = 1..n /\ Len(f) \in Nat
  BY <1>1
<1>. QED
  BY <1>1, <1>2

\* A loss unlinks the packet behind it.
LEMMA WithoutFacts ==
    ASSUME NEW q \in Seq(Packets), NEW i \in 1..Len(q)
    PROVE  /\ Without(q, i) \in Seq(Packets) /\ Len(Without(q, i)) = Len(q) - 1
           /\ \A j \in 1..(Len(q) - 1) :
                  /\ j < i => Without(q, i)[j] = q[j]
                  /\ j >= i => /\ Without(q, i)[j].pos = q[j + 1].pos
                               /\ Without(q, i)[j].codec = q[j + 1].codec
                  /\ j = i => ~ Without(q, i)[j].linked
                  /\ j > i => Without(q, i)[j] = q[j + 1]
<1>1. Len(q) - 1 \in Nat /\ \A j \in 1..Len(q) : q[j] \in Packets
  OBVIOUS
<1>2. Without(q, i) \in [1..(Len(q) - 1) -> Packets]
  <2>1. ASSUME NEW j \in 1..(Len(q) - 1)
        PROVE  q[j] \in Packets /\ q[j + 1] \in Packets /\ Unlinked(q[j + 1]) \in Packets
    BY <1>1, PacketFacts
  <2>. QED
    BY <2>1 DEF Without
<1>3. Without(q, i) \in Seq(Packets) /\ Len(Without(q, i)) = Len(q) - 1
  BY <1>1, <1>2, FunctionIsSequence
<1>4. ASSUME NEW j \in 1..(Len(q) - 1)
      PROVE  /\ j < i => Without(q, i)[j] = q[j]
             /\ j = i => Without(q, i)[j] = Unlinked(q[j + 1])
             /\ j > i => Without(q, i)[j] = q[j + 1]
             /\ q[j + 1] \in Packets
  BY <1>1 DEF Without
<1>. QED
  BY <1>3, <1>4, PacketFacts

\* A packet that overtakes another leaves both and the one behind them unlinked.
LEMMA SwappedFacts ==
    ASSUME NEW q \in Seq(Packets), NEW i \in 1..Len(q), i < Len(q)
    PROVE  /\ Swapped(q, i) \in Seq(Packets) /\ Len(Swapped(q, i)) = Len(q)
           /\ \A j \in 1..Len(q) :
                  /\ j \in {i, i + 1, i + 2} => ~ Swapped(q, i)[j].linked
                  /\ j \notin {i, i + 1, i + 2} => Swapped(q, i)[j] = q[j]
                  /\ j \notin {i, i + 1} => Swapped(q, i)[j].pos = q[j].pos
                  /\ \E k \in 1..Len(q) : /\ Swapped(q, i)[j].pos = q[k].pos
                                          /\ Swapped(q, i)[j].codec = q[k].codec
<1>1. Len(q) \in Nat /\ \A j \in 1..Len(q) : q[j] \in Packets
  OBVIOUS
<1>2. i \in 1..Len(q) /\ i + 1 \in 1..Len(q)
  BY <1>1
<1>3. Swapped(q, i) \in [1..Len(q) -> Packets]
  <2>1. ASSUME NEW j \in 1..Len(q)
        PROVE  q[j] \in Packets /\ Unlinked(q[j]) \in Packets
    BY <1>1, PacketFacts
  <2>. QED
    BY <1>2, <2>1 DEF Swapped
<1>4. Swapped(q, i) \in Seq(Packets) /\ Len(Swapped(q, i)) = Len(q)
  BY <1>1, <1>3, FunctionIsSequence
<1>5. ASSUME NEW j \in 1..Len(q)
      PROVE  /\ j = i => Swapped(q, i)[j] = Unlinked(q[i + 1])
             /\ j = i + 1 => Swapped(q, i)[j] = Unlinked(q[i])
             /\ j = i + 2 => Swapped(q, i)[j] = Unlinked(q[j])
             /\ j \notin {i, i + 1, i + 2} => Swapped(q, i)[j] = q[j]
             /\ q[j] \in Packets
  BY <1>1 DEF Swapped
<1>. QED
  BY <1>2, <1>4, <1>5, PacketFacts

\* The path's steps change nothing but what is in flight.
LEMMA PathStep ==
    ASSUME Constants, IInv, UNCHANGED <<host, client>>,
           net' \in Seq(Packets), Len(net') <= Len(net), gap' \in BOOLEAN,
           \A j \in 1..Len(net') : \E k \in 1..Len(net) :
               net'[j].pos = net[k].pos /\ net'[j].codec = net[k].codec,
           Chained', gap' \/ (gap' = gap /\ Floor(Len(net))' = Floor(Len(net)))
    PROVE  IInv'
<1>. USE DEF IInv, host, client
<1>1. Len(net') <= MaxInFlight
  BY Known
<1>2. TypeOK'
  BY <1>1 DEF TypeOK
<1>3. EncoderRuns' /\ DamageBound'
  BY DEF EncoderRuns, DamageBound, Asks, Interval
<1>4. Announced'
  BY DEF Announced, Encoding
<1>5. NextChained'
  BY DEF NextChained, Encoding
<1>. QED
  BY <1>2, <1>3, <1>4, <1>5

LEMMA LoseStep ==
    ASSUME Constants, IInv, NEW i \in 1..Len(net), Lose(i)
    PROVE  IInv'
<1>1. /\ Len(net) \in Nat /\ Len(net) > 0
      /\ net' \in Seq(Packets) /\ Len(net') = Len(net) - 1
      /\ \A j \in 1..Len(net') :
             /\ j < i => net'[j] = net[j]
             /\ j >= i => net'[j].pos = net[j + 1].pos /\ net'[j].codec = net[j + 1].codec
             /\ j = i => ~ net'[j].linked
             /\ j > i => net'[j] = net[j + 1]
  <2>1. net' = Without(net, i) /\ net \in Seq(Packets) /\ Len(net) \in Nat
    BY Known DEF Lose
  <2>2. Len(net') = Len(net) - 1 /\ net' \in Seq(Packets)
    BY <2>1, WithoutFacts
  <2>3. ASSUME NEW j \in 1..Len(net')
        PROVE  /\ j < i => net'[j] = net[j]
               /\ j >= i => net'[j].pos = net[j + 1].pos /\ net'[j].codec = net[j + 1].codec
               /\ j = i => ~ net'[j].linked
               /\ j > i => net'[j] = net[j + 1]
    <3>1. j \in 1..(Len(net) - 1)
      BY <2>2
    <3>. QED
      BY <2>1, <3>1, WithoutFacts
  <2>. QED
    BY <2>1, <2>2, <2>3
<1>2. UNCHANGED <<host, client>> /\ gap' = (gap \/ i = Len(net))
  BY DEF Lose
<1>3. UNCHANGED <<intact, run>>
  BY <1>2 DEF client
<1>4. ASSUME NEW j \in 1..Len(net')
      PROVE  \E k \in 1..Len(net) : net'[j].pos = net[k].pos /\ net'[j].codec = net[k].codec
  <2>1. j \in 1..Len(net) /\ j + 1 \in 1..Len(net)
    BY <1>1
  <2>. QED
    BY <1>1, <2>1
<1>5. Chained'
  <2>1. SUFFICES ASSUME NEW j \in 1..Len(net'), net'[j].linked, net'[j].pos # 0
                 PROVE  net'[j].pos > Floor(j - 1)'
    BY DEF Chained
  <2>2. CASE j < i
    <3>1. j \in 1..Len(net) /\ net'[j] = net[j]
      BY <1>1, <2>2
    <3>2. Floor(j - 1)' = Floor(j - 1)
      BY <1>1, <1>3, <2>2 DEF Floor
    <3>. QED
      BY <2>1, <3>1, <3>2 DEF IInv, Chained
  <2>3. CASE j > i
    <3>1. j + 1 \in 1..Len(net) /\ net'[j] = net[j + 1] /\ j - 1 \in 1..Len(net') /\ j - 1 >= i
      BY <1>1, <2>3
    <3>2. Floor(j - 1)' = Floor(j)
      BY <1>1, <3>1 DEF Floor
    <3>. QED
      BY <2>1, <3>1, <3>2 DEF IInv, Chained
  <2>. QED
    BY <1>1, <2>1, <2>2, <2>3
<1>6. i < Len(net) => Floor(Len(net))' = Floor(Len(net))
  <2>1. SUFFICES ASSUME i < Len(net) PROVE Floor(Len(net))' = Floor(Len(net))
    OBVIOUS
  <2>2. Len(net') \in 1..Len(net') /\ Len(net') >= i /\ Len(net') + 1 = Len(net)
    BY <1>1, <2>1
  <2>3. net'[Len(net')].pos = net[Len(net') + 1].pos
    BY <1>1, <2>2
  <2>. QED
    BY <1>1, <2>2, <2>3 DEF Floor
<1>7. gap' \in BOOLEAN /\ (gap' \/ (gap' = gap /\ Floor(Len(net))' = Floor(Len(net))))
  <2>1. gap \in BOOLEAN
    BY Known
  <2>2. CASE i = Len(net)
    BY <1>2, <2>2
  <2>3. CASE i < Len(net)
    BY <1>2, <1>6, <2>1, <2>3
  <2>. QED
    BY <1>1, <2>2, <2>3
<1>. QED
  BY <1>1, <1>2, <1>4, <1>5, <1>7, PathStep

LEMMA OvertakeStep ==
    ASSUME Constants, IInv, NEW i \in 1..Len(net), Overtake(i)
    PROVE  IInv'
<1>1. /\ Len(net) \in Nat /\ i < Len(net)
      /\ net' \in Seq(Packets) /\ Len(net') = Len(net)
      /\ \A j \in 1..Len(net') :
             /\ j \in {i, i + 1, i + 2} => ~ net'[j].linked
             /\ j \notin {i, i + 1, i + 2} => net'[j] = net[j]
             /\ j \notin {i, i + 1} => net'[j].pos = net[j].pos
             /\ \E k \in 1..Len(net) : net'[j].pos = net[k].pos /\ net'[j].codec = net[k].codec
  <2>1. net' = Swapped(net, i) /\ net \in Seq(Packets) /\ Len(net) \in Nat /\ i < Len(net)
    BY Known DEF Overtake
  <2>2. Len(net') = Len(net) /\ net' \in Seq(Packets)
    BY <2>1, SwappedFacts
  <2>3. ASSUME NEW j \in 1..Len(net')
        PROVE  /\ j \in {i, i + 1, i + 2} => ~ net'[j].linked
               /\ j \notin {i, i + 1, i + 2} => net'[j] = net[j]
               /\ j \notin {i, i + 1} => net'[j].pos = net[j].pos
               /\ \E k \in 1..Len(net) :
                      net'[j].pos = net[k].pos /\ net'[j].codec = net[k].codec
    <3>1. j \in 1..Len(net)
      BY <2>2
    <3>. QED
      BY <2>1, <3>1, SwappedFacts
  <2>. QED
    BY <2>1, <2>2, <2>3
<1>2. UNCHANGED <<host, client>> /\ gap' = (gap \/ i + 1 = Len(net))
  BY DEF Overtake
<1>3. UNCHANGED <<intact, run>>
  BY <1>2 DEF client
<1>4. ASSUME NEW j \in 0..Len(net), j \notin {i, i + 1}
      PROVE  Floor(j)' = Floor(j)
  <2>1. CASE j = 0
    BY <1>3, <2>1 DEF Floor
  <2>2. CASE j # 0
    <3>1. j \in 1..Len(net')
      BY <1>1, <2>2
    <3>2. net'[j].pos = net[j].pos
      BY <1>1, <1>4, <3>1
    <3>. QED
      BY <2>2, <3>2 DEF Floor
  <2>. QED
    BY <2>1, <2>2
<1>5. Chained'
  <2>1. SUFFICES ASSUME NEW j \in 1..Len(net'), net'[j].linked, net'[j].pos # 0
                 PROVE  net'[j].pos > Floor(j - 1)'
    BY DEF Chained
  <2>2. j \in 1..Len(net) /\ j \notin {i, i + 1, i + 2} /\ net'[j] = net[j]
    BY <1>1, <2>1
  <2>3. j - 1 \in 0..Len(net) /\ j - 1 \notin {i, i + 1}
    BY <1>1, <2>2
  <2>. QED
    BY <1>4, <2>1, <2>2, <2>3 DEF IInv, Chained
<1>6. gap' \in BOOLEAN /\ (gap' \/ (gap' = gap /\ Floor(Len(net))' = Floor(Len(net))))
  <2>1. i + 1 # Len(net) => Len(net) \in 0..Len(net) /\ Len(net) \notin {i, i + 1}
    BY <1>1
  <2>2. i + 1 # Len(net) => Floor(Len(net))' = Floor(Len(net))
    BY <1>1, <1>4, <2>1
  <2>. QED
    BY <1>2, <2>2, Known
<1>. QED
  BY <1>1, <1>2, <1>5, <1>6, PathStep

\* What a packet appended leaves in place.
LEMMA AppendedFacts ==
    ASSUME NEW q \in Seq(Packets), NEW p \in Packets
    PROVE  /\ Append(q, p) \in Seq(Packets) /\ Len(Append(q, p)) = Len(q) + 1
           /\ \A j \in 1..Len(q) : Append(q, p)[j] = q[j]
           /\ Append(q, p)[Len(q) + 1] = p
  OBVIOUS

LEMMA SendStep ==
    ASSUME Constants, IInv, Send
    PROVE  IInv'
<1>. DEFINE p == [pos |-> packet, linked |-> ~ gap, codec |-> encoder.codec]
<1>1. /\ stage = "send" /\ stage' = "capture" /\ gap' = FALSE
      /\ UNCHANGED <<encoder, packet, params, decoder, intact, run>>
      /\ net' = Append(net, p) /\ Len(net) < MaxInFlight
  BY DEF Send, client
<1>2. /\ Len(net) \in Nat /\ MaxInFlight \in Nat /\ packet \in Nat /\ net \in Seq(Packets)
      /\ encoder \in Encoders /\ Asks(encoder)
      /\ encoder.codec \in Codecs /\ encoder.fps \in Rates
      /\ gap \in BOOLEAN
  BY <1>1, Known
<1>3. p \in Packets /\ p.pos = packet /\ p.codec = encoder.codec
  BY <1>2 DEF Packets
<1>4. p.linked => ~ gap
  OBVIOUS
<1>. HIDE DEF p
<1>5. /\ net' \in Seq(Packets) /\ Len(net') = Len(net) + 1 /\ Len(net') \in Nat
      /\ \A j \in 1..Len(net) : net'[j] = net[j]
      /\ net'[Len(net')] = p
  BY <1>1, <1>2, <1>3, AppendedFacts
<1>6. encoder.since = packet + 1 /\ packet < HalfSecond(encoder.fps)
  <2>1. encoder.since = packet + 1 /\ packet < Interval(encoder)
    BY <1>1 DEF IInv, EncoderRuns
  <2>2. Interval(encoder) \in Nat /\ HalfSecond(encoder.fps) \in Nat
        /\ Interval(encoder) <= HalfSecond(encoder.fps)
    BY <1>2, Intervals
  <2>. QED
    BY <1>2, <2>1, <2>2
<1>7. ASSUME NEW j \in 0..Len(net) PROVE Floor(j)' = Floor(j)
  BY <1>1, <1>2, <1>5 DEF Floor
<1>8. TypeOK'
  <2>1. Len(net') <= MaxInFlight
    BY <1>1, <1>2, <1>5
  <2>2. gap' \in BOOLEAN
    BY <1>1
  <2>. QED
    BY <1>1, <1>5, <2>1, <2>2 DEF IInv, TypeOK
<1>9. EncoderRuns'
  BY <1>1, <1>2 DEF EncoderRuns, Asks
<1>10. Announced'
  <2>1. params # NoParams => encoder.codec = params.codec /\ encoder.fps = params.fps
    BY <1>1 DEF IInv, Announced, Encoding
  <2>2. ASSUME params # NoParams, NEW j \in 1..Len(net')
        PROVE  net'[j].codec = params.codec /\ net'[j].pos < HalfSecond(params.fps)
    <3>1. CASE j \in 1..Len(net)
      BY <1>5, <2>2, <3>1 DEF IInv, Announced
    <3>2. CASE j = Len(net')
      BY <1>3, <1>5, <1>6, <2>1, <2>2, <3>2
    <3>. QED
      BY <1>2, <1>5, <3>1, <3>2
  <2>. QED
    BY <1>1, <2>1, <2>2 DEF IInv, Announced, Encoding
<1>11. Chained'
  <2>1. SUFFICES ASSUME NEW j \in 1..Len(net'), net'[j].linked, net'[j].pos # 0
                 PROVE  net'[j].pos > Floor(j - 1)'
    BY DEF Chained
  <2>2. j - 1 \in 0..Len(net)
    BY <1>2, <1>5
  <2>3. CASE j \in 1..Len(net)
    BY <1>5, <1>7, <2>1, <2>2, <2>3 DEF IInv, Chained
  <2>4. CASE j = Len(net')
    <3>1. ~ gap /\ packet # 0 /\ net'[j].pos = packet /\ j - 1 = Len(net)
      BY <1>2, <1>3, <1>4, <1>5, <2>1, <2>4
    <3>2. packet > Floor(Len(net))
      BY <1>1, <3>1 DEF IInv, NextChained, Encoding
    <3>. QED
      BY <1>7, <2>2, <3>1, <3>2
  <2>. QED
    BY <1>2, <1>5, <2>3, <2>4
<1>12. NextChained'
  <2>1. Len(net') # 0 /\ net'[Len(net')].pos = packet
    BY <1>2, <1>3, <1>5
  <2>. QED
    BY <1>1, <1>2, <1>6, <2>1 DEF NextChained, Encoding, Floor
<1>13. DamageBound'
  BY <1>1 DEF IInv, DamageBound
<1>. QED
  BY <1>8, <1>9, <1>10, <1>11, <1>12, <1>13 DEF IInv
-----------------------------------------------------------------------------
(* The client *)

LEMMA CreateDecoderStep ==
    ASSUME Constants, IInv,
           NEW kind \in {"VideoToolbox", "Ffmpeg", "OpenH264"}, CreateDecoder(kind)
    PROVE  IInv'
<1>. USE DEF IInv, host, path
<1>1. /\ UNCHANGED <<host, path, params, intact, run>> /\ params # NoParams
      /\ params.codec \in Supports(kind)
      /\ decoder' = [kind |-> kind, codec |-> params.codec]
  BY DEF CreateDecoder
<1>2. params.codec \in Codecs /\ decoder'.codec = params.codec /\ decoder'.kind = kind
  BY <1>1 DEF TypeOK
<1>3. TypeOK'
  BY <1>1, <1>2 DEF TypeOK
<1>4. EncoderRuns' /\ DamageBound'
  BY <1>1 DEF EncoderRuns, DamageBound, Asks, Interval
<1>5. Announced'
  BY <1>1, <1>2 DEF Announced, Encoding
<1>6. Chained' /\ NextChained'
  BY <1>1 DEF Chained, NextChained, Encoding, Floor
<1>. QED
  BY <1>3, <1>4, <1>5, <1>6

LEMMA DisconnectStep ==
    ASSUME Constants, IInv, Disconnect
    PROVE  IInv'
<1>. USE DEF IInv, host, path
<1>1. /\ UNCHANGED <<host, path, intact, run>>
      /\ params' = NoParams /\ decoder' = NoDecoder
  BY DEF Disconnect
<1>2. TypeOK'
  BY <1>1 DEF TypeOK
<1>3. EncoderRuns' /\ DamageBound'
  BY <1>1 DEF EncoderRuns, DamageBound, Asks, Interval
<1>4. Announced'
  BY <1>1 DEF Announced, Encoding
<1>5. Chained' /\ NextChained'
  BY <1>1 DEF Chained, NextChained, Encoding, Floor
<1>. QED
  BY <1>2, <1>3, <1>4, <1>5

\* What is left when the first packet is taken.
LEMMA TakenFacts ==
    ASSUME NEW q \in Seq(Packets), q # <<>>
    PROVE  /\ Tail(q) \in Seq(Packets) /\ Len(Tail(q)) = Len(q) - 1 /\ Len(q) \in Nat
           /\ Len(q) > 0
           /\ \A j \in 1..(Len(q) - 1) : Tail(q)[j] = q[j + 1]
           /\ Head(q) = q[1]
  OBVIOUS

LEMMA DeliverStep ==
    ASSUME Constants, IInv, Decode \/ DecodeFails
    PROVE  IInv'
<1>1. /\ decoder # NoDecoder /\ net # <<>> /\ net' = Tail(net)
      /\ UNCHANGED <<stage, encoder, packet, gap, params, decoder>>
  BY DEF Decode, DecodeFails, Deliver, host
<1>2. /\ net' \in Seq(Packets) /\ Len(net') = Len(net) - 1
      /\ Len(net) \in Nat /\ Len(net) > 0
      /\ \A j \in 1..Len(net') : net'[j] = net[j + 1]
      /\ First = net[1] /\ First \in Packets
  <2>1. net \in Seq(Packets)
    BY Known
  <2>2. /\ Tail(net) \in Seq(Packets) /\ Len(Tail(net)) = Len(net) - 1
        /\ Len(net) \in Nat /\ Len(net) > 0
        /\ \A j \in 1..(Len(net) - 1) : Tail(net)[j] = net[j + 1]
        /\ Head(net) = net[1]
    BY <1>1, <2>1, TakenFacts
  <2>3. 1 \in 1..Len(net)
    BY <2>2
  <2>4. net[1] \in Packets
    BY <2>3, Known
  <2>. QED
    BY <1>1, <2>2, <2>4 DEF First
<1>3. /\ params # NoParams /\ First.pos \in Nat /\ First.pos < HalfSecond(params.fps)
      /\ params.fps \in Nat /\ HalfSecond(params.fps) \in Nat
  <2>1. params # NoParams
    BY <1>1 DEF IInv, Announced
  <2>2. 1 \in 1..Len(net)
    BY <1>2
  <2>3. First.pos < HalfSecond(params.fps)
    BY <1>2, <2>1, <2>2 DEF IInv, Announced
  <2>4. params.fps \in Nat
    BY <2>1 DEF IInv, TypeOK, Constants
  <2>5. HalfSecond(params.fps) \in Nat
    BY <2>4, HalfSeconds
  <2>. QED
    BY <1>2, <2>1, <2>3, <2>4, <2>5, PacketFacts
<1>4. intact' \in BOOLEAN /\ run' \in Nat
  <2>1. intact \in BOOLEAN /\ run \in Nat /\ First.linked \in BOOLEAN
    BY <1>2, Known, PacketFacts
  <2>2. CASE Decode
    <3>1. intact' \in BOOLEAN
      <4>1. intact' = (Key \/ (First.linked /\ intact))
        BY <2>2 DEF Decode
      <4>. QED
        BY <4>1
    <3>2. run' \in Nat
      BY <2>1, <2>2 DEF Decode
    <3>. QED
      BY <3>1, <3>2
  <2>3. CASE DecodeFails
    BY <2>3 DEF DecodeFails
  <2>. QED
    BY <2>2, <2>3
<1>5. ~ intact' => run' <= First.pos
  <2>1. run \in Nat /\ intact \in BOOLEAN
    BY Known
  <2>2. CASE DecodeFails
    BY <1>3, <2>2 DEF DecodeFails
  <2>3. CASE Decode
    <3>1. SUFFICES ASSUME ~ intact' PROVE run' <= First.pos
      OBVIOUS
    <3>2. ~ Key /\ ~ (First.linked /\ intact)
      <4>1. intact' = (Key \/ (First.linked /\ intact))
        BY <2>3 DEF Decode
      <4>. QED
        BY <3>1, <4>1
    <3>3. First.pos # 0
      BY <3>2 DEF Key
    <3>4. CASE ~ First.linked
      BY <1>3, <2>3, <3>3, <3>4 DEF Decode
    <3>5. CASE First.linked
      <4>1. 1 \in 1..Len(net) /\ ~ intact
        BY <1>2, <3>2, <3>5
      <4>2. First.pos > Floor(1 - 1)
        BY <1>2, <3>3, <3>5, <4>1 DEF IInv, Chained
      <4>3. First.pos > run
        BY <4>1, <4>2 DEF Floor
      <4>. QED
        BY <1>3, <2>1, <2>3, <3>5, <4>3 DEF Decode
    <3>. QED
      BY <3>4, <3>5
  <2>. QED
    BY <2>2, <2>3
<1>6. Floor(0)' \in Nat /\ Floor(0)' <= First.pos
  BY <1>3, <1>4, <1>5 DEF Floor
<1>7. ASSUME NEW j \in 1..Len(net') PROVE Floor(j)' = Floor(j + 1)
  BY <1>2 DEF Floor
<1>8. Floor(1) = First.pos
  BY <1>2 DEF Floor
<1>9. TypeOK'
  <2>1. Len(net') <= MaxInFlight
    BY <1>2, Known
  <2>. QED
    BY <1>1, <1>2, <1>4, <2>1 DEF IInv, TypeOK
<1>10. EncoderRuns'
  BY <1>1 DEF IInv, EncoderRuns, Asks, Interval
<1>11. Announced'
  <2>1. ASSUME NEW j \in 1..Len(net') PROVE net'[j] = net[j + 1] /\ j + 1 \in 1..Len(net)
    BY <1>2
  <2>. QED
    BY <1>1, <2>1 DEF IInv, Announced, Encoding
<1>12. Chained'
  <2>1. SUFFICES ASSUME NEW j \in 1..Len(net'), net'[j].linked, net'[j].pos # 0
                 PROVE  net'[j].pos > Floor(j - 1)'
    BY DEF Chained
  <2>2. j + 1 \in 1..Len(net) /\ net'[j] = net[j + 1] /\ net[j + 1] \in Packets
    <3>1. j + 1 \in 1..Len(net) /\ net'[j] = net[j + 1]
      BY <1>2
    <3>. QED
      BY <3>1, Known
  <2>3. net'[j].pos > Floor((j + 1) - 1) /\ net'[j].pos \in Nat
    BY <2>1, <2>2, PacketFacts DEF IInv, Chained
  <2>4. CASE j = 1
    BY <1>3, <1>6, <1>8, <2>3, <2>4
  <2>5. CASE j # 1
    <3>1. j - 1 \in 1..Len(net') /\ (j - 1) + 1 = j /\ (j + 1) - 1 = j
      BY <1>2, <2>5
    <3>. QED
      BY <1>7, <2>3, <3>1
  <2>. QED
    BY <2>4, <2>5
<1>13. NextChained'
  <2>1. CASE Len(net') = 0
    <3>1. Len(net) = 1
      BY <1>2, <2>1
    <3>. QED
      BY <1>1, <1>3, <1>6, <1>8, <2>1, <3>1, Known DEF IInv, NextChained, Encoding
  <2>2. CASE Len(net') # 0
    <3>1. Len(net') \in 1..Len(net') /\ Len(net') + 1 = Len(net)
      BY <1>2, <2>2
    <3>2. Floor(Len(net))' = Floor(Len(net))
      BY <1>7, <3>1
    <3>. QED
      BY <1>1, <3>2 DEF IInv, NextChained, Encoding
  <2>. QED
    BY <2>1, <2>2
<1>14. DamageBound'
  BY <1>1, <1>3, <1>4, <1>5 DEF DamageBound
<1>. QED
  BY <1>9, <1>10, <1>11, <1>12, <1>13, <1>14 DEF IInv
-----------------------------------------------------------------------------
(* Theorems *)

LEMMA StepIInv == Constants /\ IInv /\ [Next]_vars => IInv'
<1>. SUFFICES ASSUME Constants, IInv, [Next]_vars PROVE IInv'
  OBVIOUS
<1>1. CASE StartPipeline \/ CreateEncoderFails
           \/ \E build \in Builds, rate \in Rates : CreateEncoder(build, rate)
  BY <1>1, SetUpStep
<1>2. CASE Handshake
  BY <1>2, HandshakeStep
<1>3. CASE HandshakeFails \/ CaptureEnds \/ EncodeFails \/ SendRefused
  BY <1>3, DropStep DEF HandshakeFails, CaptureEnds, EncodeFails, SendRefused
<1>4. CASE CaptureFrame \/ OpenH264Skips \/ FfmpegHolds
  BY <1>4, NoPacketStep
<1>5. CASE \E key \in BOOLEAN : OpenH264Encode(key) \/ FfmpegEncode(key)
  BY <1>5, PacketStep
<1>6. CASE Send
  BY <1>6, SendStep
<1>7. CASE \E i \in 1..Len(net) : Lose(i) \/ Overtake(i)
  BY <1>7, LoseStep, OvertakeStep
<1>8. CASE \/ \E build \in Builds : CreateDecoder(create_software_decoder(build))
           \/ CreateDecoder("VideoToolbox")
  <2>1. \A build \in Builds :
            create_software_decoder(build) \in {"VideoToolbox", "Ffmpeg", "OpenH264"}
    BY DEF create_software_decoder
  <2>. QED
    BY <1>8, <2>1, CreateDecoderStep
<1>9. CASE Disconnect
  BY <1>9, DisconnectStep
<1>10. CASE Decode \/ DecodeFails
  BY <1>10, DeliverStep
<1>11. CASE UNCHANGED vars
  BY <1>11 DEF vars, host, path, client, IInv, TypeOK, EncoderRuns, Announced, Encoding,
         Chained, NextChained, Floor, DamageBound, Asks, Interval
<1>. QED
  BY <1>1, <1>2, <1>3, <1>4, <1>5, <1>6, <1>7, <1>8, <1>9, <1>10, <1>11 DEF Next

LEMMA Invariant == ASSUME Constants PROVE Spec => []IInv
<1>1. Init => IInv
  BY InitIInv
<1>2. IInv /\ [Next]_vars => IInv'
  BY StepIInv
<1>. QED
  BY <1>1, <1>2, PTL DEF Spec

\* Every variable keeps its type; the encoders keep their keyframe distance although
\* pictures are skipped or held back.
THEOREM TypeCorrect == ASSUME Constants PROVE Spec => []TypeOK
<1>1. IInv => TypeOK
  BY DEF IInv
<1>. QED
  BY <1>1, Invariant, PTL

\* Every packet on its way to a decoder is of the decoder's codec.
THEOREM Agreement == ASSUME Constants PROVE Spec => []CodecAgreed
<1>1. IInv => CodecAgreed
  BY DEF IInv, Announced, CodecAgreed
<1>. QED
  BY <1>1, Invariant, PTL

\* Half a second of pictures in a row restores the picture.
THEOREM Recovery == ASSUME Constants PROVE Spec => []SoftwareRecovers
<1>1. ASSUME IInv PROVE SoftwareRecovers
  <2>1. SUFFICES ASSUME decoder # NoDecoder, run = HalfSecond(params.fps), ~ intact
                 PROVE  FALSE
    BY DEF SoftwareRecovers
  <2>2. params # NoParams
    BY <1>1, <2>1 DEF IInv, Announced
  <2>3. run < HalfSecond(params.fps) /\ run \in Nat
    BY <1>1, <2>1, <2>2 DEF IInv, DamageBound, TypeOK
  <2>. QED
    BY <2>1, <2>3
<1>. QED
  BY <1>1, Invariant, PTL
=============================================================================
