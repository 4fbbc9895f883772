--------------------------- MODULE VideoStreamProofs ---------------------------
(***************************************************************************)
(* Theorems about the stream from encoder to decoder, for every distance   *)
(* between forced keyframes and every number of packets in flight, and     *)
(* about the two pipelines together.                                       *)
(***************************************************************************)
EXTENDS HostPipelines, TLAPS

(***************************************************************************)
(* Why a damaged picture is mended.  Linked packets are neighbours in the  *)
(* encoder's order, so their places in the group of pictures follow one    *)
(* another, from the last picture delivered up to the one that the encoder *)
(* makes next.  While the picture is damaged, the pictures delivered in a  *)
(* row hold no keyframe, so they are no more than the place of the last    *)
(* one, which is less than Gop.                                            *)
(***************************************************************************)
Streaming == {"capture", "encode", "picture", "send"}

Before(i) == IF i = 1 THEN last ELSE net[i - 1].pos
Tip       == IF Len(net) = 0 THEN last ELSE net[Len(net)].pos

Chained == \A i \in 1..Len(net) : net[i].linked => net[i].pos = E!Succ(Before(i))

EncoderNext ==
    /\ stage = "send" => frame_index = E!Succ(packet)
    /\ stage \in Streaming /\ ~ gap =>
           (IF stage = "send" THEN packet ELSE frame_index) = E!Succ(Tip)

DamageBound == ~ intact => run <= last

SessionRuns == intact => session # "waiting"

\* The texture of a turn is there from its capture to its end, and mapped while
\* its picture is encoded.
Turn == {"encode", "picture", "send"}

TurnRuns ==
    /\ mapped = IF stage = "picture" THEN {pending_texture} ELSE {}
    /\ acquired => stage \in Turn
    /\ stage \in Turn => pending_texture \in Textures

SessionOpen == stage \notin {"down", "device", "duplicated"} => sessions > 0

Path == Chained /\ EncoderNext

IInv == TypeOK /\ TurnRuns /\ SessionOpen /\ ReferencesBalanced
        /\ Path /\ DamageBound /\ SessionRuns
-----------------------------------------------------------------------------
(* Places, and sequences of packets *)

\* The place after a place is a place, and is the next number unless that is
\* the place of a keyframe.
LEMMA Places ==
    /\ Gop \in Nat \ {0} /\ 0 \in E!Positions
    /\ \A n \in E!Positions :
           /\ n \in Nat /\ n < Gop
           /\ E!Succ(n) \in E!Positions
           /\ E!Succ(n) = 0 \/ E!Succ(n) = n + 1
  BY StreamAssumption DEF StreamAssumption, E!Positions, E!Succ

\* Nothing is within every bound.
LEMMA Bounds ==
    /\ 0 \in 0..MaxSessions /\ 0 \in 0..MaxFrames /\ 0 \in 0..Gop
    /\ MaxInFlight \in Nat /\ 0 <= MaxInFlight
  BY StreamAssumption DEF StreamAssumption

\* Delivering the first packet moves every other one up.
LEMMA TailFacts ==
    ASSUME NEW q \in Seq(Packets), q # <<>>
    PROVE  /\ Len(q) \in Nat \ {0} /\ Head(q) = q[1] /\ Head(q) \in Packets
           /\ Tail(q) \in Seq(Packets) /\ Len(Tail(q)) = Len(q) - 1
           /\ \A i \in 1..Len(Tail(q)) : Tail(q)[i] = q[i + 1]
  OBVIOUS

\* Sending a packet leaves those before it where they are.
LEMMA AppendFacts ==
    ASSUME NEW q \in Seq(Packets), NEW p \in Packets
    PROVE  /\ Len(q) \in Nat
           /\ Append(q, p) \in Seq(Packets) /\ Len(Append(q, p)) = Len(q) + 1
           /\ Append(q, p)[Len(q) + 1] = p
           /\ \A i \in 1..Len(q) : Append(q, p)[i] = q[i]
  OBVIOUS

\* A function on 1..n is a sequence of length n.
LEMMA FunctionIsSequence ==
    ASSUME NEW n \in Nat, NEW f \in [1..n -> Packets]
    PROVE  f \in Seq(Packets) /\ Len(f) = n
<1>1. f \in Seq(Packets)
  OBVIOUS
<1>2. DOMAIN f = 1..Len(f) /\ DOMAIN f = 1..n /\ Len(f) \in Nat
  BY <1>1
<1>. QED
  BY <1>1, <1>2

\* What is known of a packet in flight.
LEMMA PacketFacts ==
    ASSUME NEW p \in Packets
    PROVE  /\ p.pos \in E!Positions /\ p.linked \in BOOLEAN
           /\ Unlinked(p) \in Packets /\ Unlinked(p).pos = p.pos
           /\ ~ Unlinked(p).linked
  BY DEF Packets, Unlinked
-----------------------------------------------------------------------------
(* The devices *)

\* Every step of the stream is a step of its encoder or leaves it alone.
LEMMA StepOfEncoder ==
    ASSUME Next
    PROVE  E!Next \/ UNCHANGED host
  BY DEF Next, Connect, Disconnect, HostStep, Send, Buffer, Lose, Overtake, Decode,
         Skip, DecodeFails, Render, Deliver, E!Next, host

\* Every step of the stream is a step of its decoder or leaves it alone.
LEMMA StepOfDecoder ==
    ASSUME Next
    PROVE  D!Next \/ UNCHANGED <<session, refs, frames>>
<1>1. ASSUME NEW k, k = Key, D!Decodes(k) \/ D!WaitForKeyframe(k) \/ D!Fails(k)
      PROVE  D!Next
  <2>1. Key \in BOOLEAN
    BY DEF Key, E!Keyframe
  <2>. QED
    BY <1>1, <2>1 DEF D!Next
<1>2. CASE Decode \/ Skip \/ DecodeFails
  BY <1>1, <1>2 DEF Decode, Skip, DecodeFails
<1>. QED
  BY <1>2 DEF Next, Connect, Disconnect, HostStep, Send, Buffer, Lose, Overtake,
              Render, D!Next, client

\* What a call of encode mapped is unmapped when it returns.
LEMMA Unmapped == stage = "picture" /\ TurnRuns => E!Unmap = {}
  BY DEF E!Unmap, TurnRuns

\* Dropping the pipeline closes a session that is open.
LEMMA Dropped ==
    ASSUME E!TypeOK, SessionOpen, stage \notin {"down", "device", "duplicated"}, E!Drop,
           mapped' = {}, UNCHANGED <<frame_index, packet>>
    PROVE  E!TypeOK' /\ TurnRuns' /\ SessionOpen'
<1>1. sessions' \in 0..MaxSessions
  BY StreamAssumption DEF StreamAssumption, E!TypeOK, SessionOpen, E!Drop
<1>. QED
  BY <1>1 DEF E!TypeOK, TurnRuns, Turn, SessionOpen, E!Drop, E!Stages

\* Every turn of the encoder keeps its types, unmaps its texture and returns it.
LEMMA EncoderStep ==
    ASSUME E!TypeOK, TurnRuns, SessionOpen, E!Next
    PROVE  E!TypeOK' /\ TurnRuns' /\ SessionOpen'
<1>1. /\ stage = "picture" => E!Unmap = {}
      /\ stage # "picture" => mapped = {}
  BY Unmapped DEF TurnRuns
<1>2. E!Succ(frame_index) \in E!Positions /\ 0 \in E!Positions
  BY Places DEF E!TypeOK
<1>3. CASE E!CreateDevice \/ E!CreateDuplication \/ E!CreateFails \/ E!InitializeFails \/ E!Handshake
  <2>1. /\ stage' \in {"device", "duplicated", "down", "capture"}
        /\ stage \in {"down", "device", "duplicated", "opened", "built"}
        /\ stage' = "capture" => stage = "built"
        /\ UNCHANGED <<sessions, acquired, pending_texture, registered, mapped, packet>>
        /\ frame_index' = frame_index
    BY <1>3 DEF E!CreateDevice, E!CreateDuplication, E!CreateFails, E!InitializeFails,
          E!Handshake, E!dxgi, E!nvenc
  <2>2. E!TypeOK'
    BY <2>1 DEF E!TypeOK, E!Stages
  <2>3. TurnRuns'
    BY <2>1 DEF TurnRuns, Turn
  <2>. QED
    BY <2>1, <2>2, <2>3 DEF SessionOpen
<1>4. CASE E!OpenSession
  <2>1. sessions' \in 0..MaxSessions /\ sessions' > 0
    BY <1>4, StreamAssumption DEF StreamAssumption, E!OpenSession, E!TypeOK
  <2>. QED
    BY <1>4, <2>1 DEF E!OpenSession, E!TypeOK, E!Stages, TurnRuns, Turn, SessionOpen, E!dxgi, E!nvenc
<1>5. CASE E!Initialize
  BY <1>2, <1>5 DEF E!Initialize, E!TypeOK, E!Stages, TurnRuns, Turn, SessionOpen, E!dxgi, E!nvenc
<1>6. CASE E!HandshakeFails \/ E!CaptureEnds \/ E!MapFails \/ E!EncodePictureFails \/ E!SendRefused
  BY <1>1, <1>6, Dropped DEF E!HandshakeFails, E!CaptureEnds, E!MapFails,
        E!EncodePictureFails, E!SendRefused
<1>7. CASE E!acquire_texture
  BY <1>7 DEF E!acquire_texture, E!TypeOK, E!Stages, TurnRuns, Turn, SessionOpen, E!nvenc
<1>8. CASE E!MapTexture
  <2>1. /\ mapped' = {pending_texture} /\ pending_texture \in Textures
        /\ registered' \subseteq Textures /\ mapped' \subseteq Textures
    BY <1>1, <1>8 DEF E!MapTexture, E!register_texture, E!TypeOK, TurnRuns, Turn
  <2>. QED
    BY <1>8, <2>1 DEF E!MapTexture, E!TypeOK, E!Stages, TurnRuns, Turn, SessionOpen, E!dxgi
<1>9. CASE E!EncodePacket
  BY <1>1, <1>2, <1>9 DEF E!EncodePacket, E!TypeOK, E!Stages, TurnRuns, Turn, SessionOpen, E!dxgi
<1>10. CASE E!EncodeBuffers \/ E!SendPacket
  <2>1. ~ acquired' /\ mapped' = {} /\ stage' = "capture"
    BY <1>1, <1>10, StreamAssumption DEF E!EncodeBuffers, E!SendPacket, E!release_frame,
          TurnRuns, Turn, StreamAssumption, E!nvenc
  <2>2. frame_index' \in E!Positions /\ packet' \in E!Positions
    BY <1>2, <1>10 DEF E!EncodeBuffers, E!SendPacket, E!TypeOK
  <2>. QED
    BY <1>10, <2>1, <2>2 DEF E!EncodeBuffers, E!SendPacket, E!release_frame, E!TypeOK,
          E!Stages, TurnRuns, Turn, SessionOpen, E!nvenc
<1>. QED
  BY <1>3, <1>4, <1>5, <1>6, <1>7, <1>8, <1>9, <1>10 DEF E!Next, E!SetUp, E!Loop

\* With which references a call goes on: those of the decoder that it found or
\* made, and after the callback one more.
Held == [o \in D!Objects |->
             IF o = "surface" THEN frames ELSE IF o \in {"format", "session"} THEN 1 ELSE 0]

LEMMA References ==
    ASSUME D!TypeOK, ReferencesBalanced, NEW k, D!CanDecode(k)
    PROVE  /\ Held \in [D!Objects -> Nat]
           /\ D!Initialized = Held
           /\ D!Release(D!Retain(Held, {"block"}), {"block"}) = Held
           /\ D!Submitted = Held
           /\ D!Release(D!Called, {"pixel"}) = Held
           /\ D!Release(D!Retain(D!Called, {"surface"}), {"pixel"}) = D!Retain(Held, {"surface"})
           /\ D!Release(D!Retain(Held, {"surface"}), {"surface"}) = Held
<1>1. Held \in [D!Objects -> Nat]
  BY DEF Held, D!TypeOK
<1>2. D!Initialized = Held
  BY <1>1 DEF Held, D!Initialized, D!CanDecode, D!TypeOK, ReferencesBalanced,
        D!ReferencesBalanced, D!Retain, D!Objects
<1>3. \A o \in D!Objects : D!Release(D!Retain(Held, {o}), {o}) = Held
  BY <1>1 DEF D!Release, D!Retain, Held
<1>4. D!Submitted = D!Release(D!Release(D!Retain(D!Retain(Held, {"block"}), {"sample"}), {"block"}), {"sample"})
  BY <1>2 DEF D!Submitted
<1>5. D!Submitted = Held
  BY <1>1, <1>4 DEF D!Release, D!Retain, Held, D!Objects
<1>6. D!Called = D!Retain(Held, {"pixel"})
  BY <1>5 DEF D!Called
<1>7. D!Release(D!Retain(D!Called, {"surface"}), {"pixel"}) = D!Retain(Held, {"surface"})
  BY <1>1, <1>6 DEF D!Release, D!Retain, Held, D!Objects
<1>. QED
  BY <1>1, <1>2, <1>3, <1>5, <1>6, <1>7 DEF D!Objects

\* A call that makes no frame keeps what it found or made.
LEMMA NoPicture ==
    ASSUME D!TypeOK, ReferencesBalanced, NEW k,
           D!SubmitFails(k) \/ D!CallbackFails(k) \/ D!NoFrame(k) \/ D!NoSurface(k)
    PROVE  D!TypeOK' /\ ReferencesBalanced'
<1>1. D!CanDecode(k)
  BY DEF D!SubmitFails, D!CallbackFails, D!NoFrame, D!NoSurface
<1>2. session' = "ready" /\ refs' = Held /\ frames' = frames
  BY <1>1, References DEF D!SubmitFails, D!CallbackFails, D!NoFrame, D!NoSurface
<1>3. Held \in [D!Objects -> Nat]
  BY <1>1, References
<1>. QED
  BY <1>2, <1>3 DEF Held, D!TypeOK, ReferencesBalanced, D!ReferencesBalanced, D!Objects

\* A call that makes a frame keeps its surface with it, or gives it back when the
\* channel is full.
LEMMA Picture ==
    ASSUME D!TypeOK, ReferencesBalanced, NEW k, D!Frame(k)
    PROVE  D!TypeOK' /\ ReferencesBalanced'
<1>1. Held \in [D!Objects -> Nat]
  BY References DEF D!Frame
<1>2. /\ session' = "ready"
      /\ IF frames < MaxFrames
         THEN refs' = D!Retain(Held, {"surface"}) /\ frames' = frames + 1
         ELSE refs' = Held /\ frames' = frames
  BY References DEF D!Frame
<1>3. CASE frames < MaxFrames
  <2>1. frames' \in 0..MaxFrames /\ frames' = frames + 1
    BY <1>2, <1>3, StreamAssumption DEF StreamAssumption, D!TypeOK
  <2>. QED
    BY <1>1, <1>2, <1>3, <2>1 DEF Held, D!Retain, D!TypeOK, ReferencesBalanced,
          D!ReferencesBalanced, D!Objects
<1>4. CASE ~ (frames < MaxFrames)
  BY <1>1, <1>2, <1>4 DEF Held, D!TypeOK, ReferencesBalanced, D!ReferencesBalanced, D!Objects
<1>. QED
  BY <1>3, <1>4

\* Every call of decode releases what it retained, but for the surface of a frame.
LEMMA DecoderStep ==
    ASSUME D!TypeOK, ReferencesBalanced, D!Next
    PROVE  D!TypeOK' /\ ReferencesBalanced'
<1>. USE StreamAssumption
     DEF StreamAssumption, D!TypeOK, ReferencesBalanced, D!ReferencesBalanced, D!Objects,
         D!Retain, D!Release
<1>1. CASE D!New
  BY <1>1 DEF D!New
<1>2. CASE D!Drop
  BY <1>2 DEF D!Drop
<1>3. CASE D!DropFrame
  BY <1>3 DEF D!DropFrame
<1>4. ASSUME NEW k \in BOOLEAN, D!WaitForKeyframe(k) \/ D!InitFails(k)
      PROVE  D!TypeOK' /\ ReferencesBalanced'
  BY <1>4 DEF D!WaitForKeyframe, D!InitFails, D!vars
<1>5. ASSUME NEW k \in BOOLEAN, D!SubmitFails(k) \/ D!CallbackFails(k) \/ D!NoFrame(k) \/ D!NoSurface(k)
      PROVE  D!TypeOK' /\ ReferencesBalanced'
  BY <1>5, NoPicture
<1>6. ASSUME NEW k \in BOOLEAN, D!Frame(k)
      PROVE  D!TypeOK' /\ ReferencesBalanced'
  BY <1>6, Picture
<1>. QED
  BY <1>1, <1>2, <1>3, <1>4, <1>5, <1>6 DEF D!Next, D!Decodes, D!Fails
-----------------------------------------------------------------------------
(* The path *)

Typed == /\ net \in Seq(Packets) /\ Len(net) <= MaxInFlight
         /\ gap \in BOOLEAN /\ intact \in BOOLEAN
         /\ run \in 0..Gop /\ last \in E!Positions

\* The initial state satisfies the invariant.
LEMMA InitIInv == Init => IInv
<1>1. SUFFICES ASSUME Init PROVE IInv
  OBVIOUS
<1>2. net \in Seq(Packets) /\ Len(net) = 0
  BY <1>1 DEF Init
<1>3. E!TypeOK /\ TurnRuns /\ SessionOpen
  BY <1>1, Places, Bounds, StreamAssumption DEF Init, E!Init, E!TypeOK, E!Stages, TurnRuns,
        Turn, SessionOpen, StreamAssumption
<1>4. D!TypeOK /\ ReferencesBalanced
  BY <1>1, StreamAssumption DEF Init, D!Init, D!TypeOK, ReferencesBalanced,
        D!ReferencesBalanced, D!Objects, StreamAssumption
<1>5. Typed
  BY <1>1, <1>2, Places, Bounds DEF Init, Typed
<1>6. Path /\ DamageBound /\ SessionRuns
  BY <1>1, <1>2 DEF Init, E!Init, Path, Chained, EncoderNext, DamageBound, SessionRuns, Streaming
<1>. QED
  BY <1>3, <1>4, <1>5, <1>6 DEF IInv, TypeOK, Typed

\* The host goes on with the picture after the one it sent last, and sends none
\* but SendPacket's.
LEMMA HostKeepsPath ==
    ASSUME Typed, E!TypeOK, Path, E!SetUp \/ E!Loop, UNCHANGED <<net, gap, last>>
    PROVE  Path'
<1>1. Chained' /\ Tip' = Tip
  BY DEF Path, Chained, Before, Tip
<1>2. CASE stage' \notin Streaming
  BY <1>1, <1>2 DEF Path, EncoderNext, Streaming
<1>3. CASE stage' \in Streaming
  <2>1. E!acquire_texture \/ E!MapTexture \/ E!EncodePacket
    BY <1>3 DEF E!SetUp, E!CreateDevice, E!CreateDuplication, E!OpenSession, E!Initialize,
          E!InitializeFails, E!CreateFails, E!HandshakeFails, E!Drop, E!Loop, E!CaptureEnds,
          E!MapFails, E!EncodePictureFails, E!SendRefused, Streaming
  <2>2. CASE E!acquire_texture \/ E!MapTexture
    BY <1>1, <2>2 DEF Path, EncoderNext, Streaming, E!acquire_texture, E!MapTexture
  <2>3. CASE E!EncodePacket
    BY <1>1, <2>3 DEF Path, EncoderNext, Streaming, E!EncodePacket
  <2>. QED
    BY <2>1, <2>2, <2>3
<1>. QED
  BY <1>2, <1>3

\* A connection starts with nothing in flight.
LEMMA ConnectStep ==
    ASSUME Typed, Connect
    PROVE  Typed' /\ Path' /\ DamageBound' /\ SessionRuns'
<1>1. net' \in Seq(Packets) /\ Len(net') = 0 /\ stage' = "capture" /\ gap' = TRUE
  BY DEF Connect, E!Handshake
<1>2. intact' = FALSE /\ run' = 0 /\ last' = 0 /\ session' = "waiting"
  BY DEF Connect, D!New
<1>3. Typed'
  BY <1>1, <1>2, Places, Bounds DEF Typed
<1>4. Path'
  BY <1>1 DEF Path, Chained, EncoderNext
<1>. QED
  BY <1>2, <1>3, <1>4 DEF DamageBound, SessionRuns

\* The packet sent is linked to the last one encoded if that was sent, too.
LEMMA SendStep ==
    ASSUME Typed, E!TypeOK, Path, Send
    PROVE  Typed' /\ Path'
<1>. DEFINE p == [pos |-> packet, linked |-> ~ gap]
<1>1. p \in Packets /\ p.pos = packet /\ p.linked = ~ gap
  BY DEF Typed, E!TypeOK, Packets
<1>2. /\ net' = Append(net, p) /\ gap' = FALSE /\ stage = "send" /\ stage' = "capture"
      /\ frame_index' = frame_index /\ last' = last
  BY DEF Send, client, E!SendPacket
<1>. HIDE DEF p
<1>3. /\ Len(net) \in Nat /\ net' \in Seq(Packets) /\ Len(net') = Len(net) + 1
      /\ net'[Len(net) + 1] = p /\ \A i \in 1..Len(net) : net'[i] = net[i]
  BY <1>1, <1>2, AppendFacts DEF Typed
<1>4. Typed'
  <2>1. Len(net') <= MaxInFlight
    BY <1>3, Bounds DEF Send
  <2>. QED
    BY <1>2, <1>3, <2>1 DEF Send, client, Typed
<1>5. Chained'
  <2>1. SUFFICES ASSUME NEW i \in 1..Len(net'), net'[i].linked
                 PROVE  net'[i].pos = E!Succ(Before(i)')
    BY DEF Chained, E!Succ
  <2>2. CASE i <= Len(net)
    <3>1. i \in 1..Len(net) /\ net'[i] = net[i] /\ (i # 1 => net'[i - 1] = net[i - 1])
      BY <1>3, <2>2
    <3>. QED
      BY <1>2, <2>1, <3>1 DEF Path, Chained, Before
  <2>3. CASE i = Len(net) + 1
    <3>1. Before(i)' = Tip
      BY <1>2, <1>3, <2>3 DEF Before, Tip
    <3>2. net'[i] = p /\ ~ gap
      BY <1>1, <1>3, <2>1, <2>3
    <3>. QED
      BY <1>1, <1>2, <3>1, <3>2 DEF Path, EncoderNext, Streaming
  <2>. QED
    BY <1>3, <2>2, <2>3
<1>6. EncoderNext'
  <2>1. Tip' = packet
    BY <1>1, <1>3 DEF Tip
  <2>. QED
    BY <1>2, <2>1 DEF Path, EncoderNext
<1>. QED
  BY <1>4, <1>5, <1>6 DEF Path

\* A loss unlinks the packet behind it.
LEMMA LoseStep ==
    ASSUME Typed, Path, NEW i \in 1..Len(net), Lose(i)
    PROVE  Typed' /\ Path'
<1>1. /\ Len(net) \in Nat \ {0} /\ Len(net) - 1 \in Nat
      /\ \A j \in 1..Len(net) : net[j] \in Packets
  BY DEF Typed
<1>. DEFINE f == [j \in 1..(Len(net) - 1) |->
                     IF j < i THEN net[j]
                     ELSE IF j = i THEN Unlinked(net[j + 1]) ELSE net[j + 1]]
<1>2. f \in [1..(Len(net) - 1) -> Packets]
  <2>1. ASSUME NEW j \in 1..(Len(net) - 1)
        PROVE  /\ net[j] \in Packets /\ net[j + 1] \in Packets
               /\ Unlinked(net[j + 1]) \in Packets
    BY <1>1, PacketFacts
  <2>. QED
    BY <2>1
<1>3. net' = f /\ net' \in Seq(Packets) /\ Len(net') = Len(net) - 1
  BY <1>1, <1>2, FunctionIsSequence DEF Lose, Without
<1>4. ASSUME NEW j \in 1..Len(net')
      PROVE  /\ j \in 1..(Len(net) - 1) /\ j + 1 \in 1..Len(net)
             /\ j < i => net'[j] = net[j]
             /\ j >= i => net'[j].pos = net[j + 1].pos
             /\ j = i => ~ net'[j].linked
             /\ j > i => net'[j] = net[j + 1]
  BY <1>1, <1>3, PacketFacts
<1>. HIDE DEF f
<1>5. UNCHANGED <<stage, packet, frame_index, last, intact, run>> /\ gap' = (gap \/ i = Len(net))
  BY DEF Lose, host, client
<1>6. Typed'
  <2>1. Len(net') <= MaxInFlight
    BY <1>1, <1>3, Bounds DEF Typed
  <2>2. gap' \in BOOLEAN
    BY <1>5
  <2>. QED
    BY <1>3, <1>5, <2>1, <2>2 DEF Typed
<1>7. Chained'
  <2>1. SUFFICES ASSUME NEW j \in 1..Len(net'), net'[j].linked
                 PROVE  net'[j].pos = E!Succ(Before(j)')
    BY DEF Chained, E!Succ
  <2>2. CASE j < i
    <3>1. Before(j)' = Before(j) /\ j \in 1..Len(net) /\ net'[j] = net[j]
      BY <1>1, <1>3, <1>4, <1>5, <2>2 DEF Before
    <3>. QED
      BY <2>1, <3>1 DEF Path, Chained
  <2>3. CASE j > i
    <3>1. j - 1 \in 1..Len(net') /\ j - 1 >= i /\ j # 1
      BY <1>3, <2>3
    <3>2. Before(j)' = Before(j + 1) /\ net'[j] = net[j + 1] /\ j + 1 \in 1..Len(net)
      BY <1>4, <2>3, <3>1 DEF Before
    <3>. QED
      BY <2>1, <3>2 DEF Path, Chained
  <2>. QED
    BY <1>4, <2>1, <2>2, <2>3
<1>8. EncoderNext'
  <2>1. CASE i = Len(net)
    BY <1>5, <2>1 DEF Path, EncoderNext
  <2>2. CASE i < Len(net)
    <3>1. Len(net') \in 1..Len(net') /\ Len(net') >= i
      BY <1>1, <1>3, <2>2
    <3>2. net'[Len(net')].pos = net[Len(net)].pos
      <4>1. net'[Len(net')].pos = net[Len(net') + 1].pos
        BY <1>4, <3>1
      <4>. QED
        BY <1>1, <1>3, <4>1
    <3>3. Tip' = Tip
      BY <1>1, <1>3, <3>1, <3>2 DEF Tip
    <3>. QED
      BY <1>5, <3>3 DEF Path, EncoderNext
  <2>. QED
    BY <1>1, <2>1, <2>2
<1>. QED
  BY <1>6, <1>7, <1>8 DEF Path

\* A packet that overtakes another leaves both and the one behind them unlinked.
LEMMA OvertakeStep ==
    ASSUME Typed, Path, NEW i \in 1..Len(net), Overtake(i)
    PROVE  Typed' /\ Path'
<1>1. /\ Len(net) \in Nat /\ i < Len(net)
      /\ \A j \in 1..Len(net) : net[j] \in Packets
  BY DEF Typed, Overtake
<1>. DEFINE f == [j \in 1..Len(net) |->
                     IF j = i THEN Unlinked(net[i + 1])
                     ELSE IF j = i + 1 THEN Unlinked(net[i])
                     ELSE IF j = i + 2 THEN Unlinked(net[j]) ELSE net[j]]
<1>2. f \in [1..Len(net) -> Packets]
  <2>1. ASSUME NEW j \in 1..Len(net)
        PROVE  net[j] \in Packets /\ Unlinked(net[j]) \in Packets
    BY <1>1, PacketFacts
  <2>2. i \in 1..Len(net) /\ i + 1 \in 1..Len(net)
    BY <1>1
  <2>. QED
    BY <2>1, <2>2
<1>3. net' = f /\ net' \in Seq(Packets) /\ Len(net') = Len(net)
  BY <1>1, <1>2, FunctionIsSequence DEF Overtake, Swapped
<1>4. ASSUME NEW j \in 1..Len(net')
      PROVE  /\ j \in 1..Len(net)
             /\ j \in {i, i + 1, i + 2} => ~ net'[j].linked
             /\ j \notin {i, i + 1, i + 2} => net'[j] = net[j]
             /\ j \notin {i, i + 1} => net'[j].pos = net[j].pos
  BY <1>1, <1>3, PacketFacts
<1>. HIDE DEF f
<1>5. UNCHANGED <<stage, packet, frame_index, last, intact, run>> /\ gap' = (gap \/ i + 1 = Len(net))
  BY DEF Overtake, host, client
<1>6. Typed'
  <2>1. gap' \in BOOLEAN
    BY <1>5
  <2>. QED
    BY <1>3, <1>5, <2>1 DEF Typed
<1>7. Chained'
  <2>1. SUFFICES ASSUME NEW j \in 1..Len(net'), net'[j].linked
                 PROVE  net'[j].pos = E!Succ(Before(j)')
    BY DEF Chained, E!Succ
  <2>2. j \notin {i, i + 1, i + 2} /\ net'[j] = net[j] /\ j \in 1..Len(net)
    BY <1>4, <2>1
  <2>3. CASE j = 1
    BY <1>5, <2>1, <2>2, <2>3 DEF Path, Chained, Before
  <2>4. CASE j # 1
    <3>1. j - 1 \in 1..Len(net') /\ j - 1 \notin {i, i + 1}
      BY <1>3, <2>2, <2>4
    <3>2. net'[j - 1].pos = net[j - 1].pos
      BY <1>4, <3>1
    <3>. QED
      BY <2>1, <2>2, <2>4, <3>2 DEF Path, Chained, Before
  <2>. QED
    BY <2>3, <2>4
<1>8. EncoderNext'
  <2>1. CASE i + 1 = Len(net)
    BY <1>5, <2>1 DEF Path, EncoderNext
  <2>2. CASE i + 1 # Len(net)
    <3>1. Len(net') \in 1..Len(net') /\ Len(net') \notin {i, i + 1}
      BY <1>1, <1>3, <2>2
    <3>2. net'[Len(net')].pos = net[Len(net')].pos
      BY <1>4, <3>1
    <3>3. Tip' = Tip
      BY <1>1, <1>3, <3>1, <3>2 DEF Tip
    <3>. QED
      BY <1>5, <3>3 DEF Path, EncoderNext
  <2>. QED
    BY <2>1, <2>2
<1>. QED
  BY <1>6, <1>7, <1>8 DEF Path

\* The packet delivered gives its place to last.
LEMMA DeliverStep ==
    ASSUME Typed, Path, Deliver
    PROVE  /\ net' \in Seq(Packets) /\ Len(net') <= MaxInFlight /\ last' \in E!Positions
           /\ gap' = gap /\ Path'
<1>1. /\ Len(net) \in Nat \ {0} /\ Next1 = net[1] /\ Next1 \in Packets
      /\ net' \in Seq(Packets) /\ Len(net') = Len(net) - 1
      /\ \A i \in 1..Len(net') : net'[i] = net[i + 1]
  BY TailFacts DEF Typed, Deliver, Next1
<1>2. last' = net[1].pos /\ last' \in E!Positions
  BY <1>1, PacketFacts DEF Deliver
<1>3. UNCHANGED <<stage, packet, frame_index, gap>>
  BY DEF Deliver, host
<1>4. Len(net') <= MaxInFlight
  BY <1>1, Bounds DEF Typed
<1>5. Chained'
  <2>1. SUFFICES ASSUME NEW i \in 1..Len(net'), net'[i].linked
                 PROVE  net'[i].pos = E!Succ(Before(i)')
    BY DEF Chained, E!Succ
  <2>2. i + 1 \in 1..Len(net) /\ i + 1 # 1 /\ net'[i] = net[i + 1]
    BY <1>1
  <2>3. Before(i)' = net[i].pos /\ Before(i + 1) = net[i].pos
    <3>1. CASE i = 1
      BY <1>2, <3>1 DEF Before
    <3>2. CASE i # 1
      <4>1. i - 1 \in 1..Len(net') /\ net'[i - 1] = net[i]
        BY <1>1, <3>2
      <4>. QED
        BY <3>2, <4>1 DEF Before
    <3>. QED
      BY <3>1, <3>2
  <2>. QED
    BY <2>1, <2>2, <2>3 DEF Path, Chained
<1>6. Tip' = Tip
  <2>1. CASE Len(net) = 1
    BY <1>1, <1>2, <2>1 DEF Tip
  <2>2. CASE Len(net) # 1
    <3>1. Len(net') \in 1..Len(net') /\ net'[Len(net')] = net[Len(net)]
      BY <1>1, <2>2
    <3>. QED
      BY <1>1, <3>1 DEF Tip
  <2>. QED
    BY <2>1, <2>2
<1>7. EncoderNext'
  BY <1>3, <1>6 DEF Path, EncoderNext
<1>. QED
  BY <1>1, <1>2, <1>3, <1>4, <1>5, <1>7 DEF Path

\* While the picture is damaged, another picture that is no keyframe is at a
\* place after those delivered in a row.
LEMMA GrowBounded ==
    ASSUME Typed, Path, DamageBound, net # <<>>, ~ Key, ~ Next1.linked \/ ~ intact
    PROVE  Grow \in 0..Gop /\ Grow <= Next1.pos
<1>1. Len(net) \in Nat \ {0} /\ Next1 = net[1] /\ Next1 \in Packets
  BY TailFacts DEF Typed, Next1
<1>2. Next1.pos \in E!Positions /\ Next1.pos # 0 /\ Next1.pos \in Nat
  BY <1>1, PacketFacts, Places DEF Key, E!Keyframe
<1>3. CASE ~ Next1.linked
  BY <1>2, <1>3, Places DEF Grow
<1>4. CASE Next1.linked /\ ~ intact
  <2>1. Next1.pos = E!Succ(last)
    BY <1>1, <1>4 DEF Path, Chained, Before
  <2>2. last \in E!Positions /\ last \in Nat /\ run \in 0..Gop /\ Gop \in Nat
    BY Places DEF Typed
  <2>3. Next1.pos = last + 1
    BY <1>2, <2>1, <2>2, Places
  <2>4. run <= last
    BY <1>4 DEF DamageBound
  <2>. QED
    BY <1>4, <2>2, <2>3, <2>4 DEF Grow
<1>. QED
  BY <1>3, <1>4

\* A picture delivered mends the damage, or leaves it within its bound.
LEMMA ClientStep ==
    ASSUME Typed, Path, DamageBound, SessionRuns, Decode \/ Skip \/ DecodeFails
    PROVE  Typed' /\ Path' /\ DamageBound' /\ SessionRuns'
<1>1. net # <<>> /\ Deliver /\ last' = Next1.pos
  BY DEF Decode, Skip, DecodeFails, Deliver
<1>2. /\ net' \in Seq(Packets) /\ Len(net') <= MaxInFlight /\ last' \in E!Positions
      /\ gap' = gap /\ Path'
  BY <1>1, DeliverStep
<1>3. Next1 \in Packets /\ Next1.linked \in BOOLEAN /\ Next1.pos \in E!Positions
  BY <1>1, TailFacts, PacketFacts DEF Typed, Next1
<1>4. Grow \in 0..Gop
  BY Places DEF Typed, Grow
<1>5. CASE Decode
  <2>1. session' = "ready" /\ intact' = (Key \/ (Next1.linked /\ intact)) /\ run' = Grow
    BY <1>5 DEF Decode, D!Decodes, D!NoFrame, D!Frame, D!NoSurface
  <2>2. intact' \in BOOLEAN
    BY <2>1
  <2>3. DamageBound'
    <3>1. SUFFICES ASSUME ~ intact' PROVE run' <= last'
      BY DEF DamageBound
    <3>2. ~ Key /\ (~ Next1.linked \/ ~ intact)
      BY <2>1, <3>1
    <3>. QED
      BY <1>1, <2>1, <3>2, GrowBounded
  <2>. QED
    BY <1>2, <1>4, <2>1, <2>2, <2>3 DEF Typed, SessionRuns
<1>6. CASE Skip
  <2>1. session = "waiting" /\ session' = session /\ ~ Key /\ intact' = intact /\ run' = Grow
    BY <1>6 DEF Skip, D!WaitForKeyframe, D!vars
  <2>2. ~ intact /\ ~ intact'
    BY <2>1 DEF SessionRuns
  <2>3. run' <= last'
    BY <1>1, <2>1, <2>2, GrowBounded
  <2>. QED
    BY <1>2, <1>4, <2>1, <2>2, <2>3 DEF Typed, DamageBound, SessionRuns
<1>7. CASE DecodeFails
  <2>1. intact' = FALSE /\ run' = 0
    BY <1>7 DEF DecodeFails
  <2>2. run' <= last'
    BY <1>2, <2>1, Places
  <2>. QED
    BY <1>2, <2>1, <2>2, Bounds DEF Typed, DamageBound, SessionRuns
<1>. QED
  BY <1>5, <1>6, <1>7

\* Every step keeps what is known of the path and of the picture.
LEMMA StreamStep ==
    ASSUME IInv, Next
    PROVE  Typed' /\ Path' /\ DamageBound' /\ SessionRuns'
<1>. USE DEF IInv, TypeOK
<1>1. Typed /\ E!TypeOK /\ Path /\ DamageBound /\ SessionRuns
  BY DEF Typed
<1>2. CASE Connect
  BY <1>1, <1>2, ConnectStep
<1>3. CASE Disconnect \/ Render
  <2>1. /\ UNCHANGED <<stage, packet, frame_index, net, gap, intact, run, last>>
        /\ session' = session \/ session' = "none"
    BY <1>3 DEF Disconnect, Render, D!Drop, D!DropFrame, host, path
  <2>. QED
    BY <1>1, <2>1 DEF Typed, Path, Chained, Before, EncoderNext, Tip, DamageBound, SessionRuns
<1>4. CASE HostStep
  <2>1. UNCHANGED <<session, net, gap, intact, run, last>>
    BY <1>4 DEF HostStep, client, path
  <2>2. Path'
    BY <1>1, <1>4, <2>1, HostKeepsPath DEF HostStep
  <2>. QED
    BY <1>1, <2>1, <2>2 DEF Typed, DamageBound, SessionRuns
<1>5. CASE Send
  <2>1. UNCHANGED <<session, intact, run, last>>
    BY <1>5 DEF Send, client
  <2>. QED
    BY <1>1, <1>5, <2>1, SendStep DEF DamageBound, SessionRuns
<1>6. CASE Buffer
  <2>1. UNCHANGED <<session, net, intact, run, last>> /\ gap' = TRUE /\ stage' = "capture"
    BY <1>6 DEF Buffer, E!EncodeBuffers, client
  <2>. QED
    BY <1>1, <2>1 DEF Typed, Path, Chained, Before, EncoderNext, DamageBound, SessionRuns
<1>7. ASSUME NEW i \in 1..Len(net), Lose(i) \/ Overtake(i)
      PROVE  Typed' /\ Path' /\ DamageBound' /\ SessionRuns'
  <2>1. UNCHANGED <<session, intact, run, last>>
    BY <1>7 DEF Lose, Overtake, client
  <2>2. Typed' /\ Path'
    BY <1>1, <1>7, LoseStep, OvertakeStep
  <2>. QED
    BY <1>1, <2>1, <2>2 DEF DamageBound, SessionRuns
<1>8. CASE Decode \/ Skip \/ DecodeFails
  BY <1>1, <1>8, ClientStep
<1>. QED
  BY <1>2, <1>3, <1>4, <1>5, <1>6, <1>7, <1>8 DEF Next

\* Every step keeps the invariant.
LEMMA StepIInv == IInv /\ [Next]_vars => IInv'
<1>1. ASSUME IInv, Next PROVE IInv'
  <2>1. E!TypeOK' /\ TurnRuns' /\ SessionOpen'
    <3>1. CASE E!Next
      BY <1>1, <3>1, EncoderStep DEF IInv, TypeOK
    <3>2. CASE UNCHANGED host
      BY <1>1, <3>2 DEF host, IInv, TypeOK, E!TypeOK, TurnRuns, SessionOpen
    <3>. QED
      BY <1>1, <3>1, <3>2, StepOfEncoder
  <2>2. D!TypeOK' /\ ReferencesBalanced'
    <3>1. CASE D!Next
      BY <1>1, <3>1, DecoderStep DEF IInv, TypeOK
    <3>2. CASE UNCHANGED <<session, refs, frames>>
      BY <1>1, <3>2 DEF IInv, TypeOK, D!TypeOK, ReferencesBalanced, D!ReferencesBalanced
    <3>. QED
      BY <1>1, <3>1, <3>2, StepOfDecoder
  <2>3. Typed' /\ Path' /\ DamageBound' /\ SessionRuns'
    BY <1>1, StreamStep
  <2>. QED
    BY <2>1, <2>2, <2>3 DEF IInv, TypeOK, Typed
<1>2. ASSUME IInv, UNCHANGED vars PROVE IInv'
  BY <1>2 DEF vars, host, client, path, IInv, TypeOK, E!TypeOK, D!TypeOK, TurnRuns,
        SessionOpen, ReferencesBalanced, D!ReferencesBalanced, Path, Chained, Before,
        EncoderNext, Tip, DamageBound, SessionRuns
<1>. QED
  BY <1>1, <1>2
-----------------------------------------------------------------------------
(* The theorems *)

LEMMA Invariant == Spec => []IInv
  BY InitIInv, StepIInv, PTL DEF Spec

\* Types: among them the packets in flight, the driver's sessions and the frames
\* alive, within their bounds.
THEOREM TypeCorrect == Spec => []TypeOK
<1>1. IInv => TypeOK
  BY DEF IInv
<1>. QED
  BY <1>1, Invariant, PTL

\* At the end of every turn of the encode loop, and when the pipeline is torn down
\* from any place in it, nothing is mapped and the texture is back with the
\* duplication.
THEOREM TurnsAreClean == Spec => []CleanTurns
<1>1. IInv => CleanTurns
  BY DEF IInv, TurnRuns, Turn, CleanTurns, E!CleanTurns
<1>. QED
  BY <1>1, Invariant, PTL

\* Every way out of decode, VtDecoder's drop and the frames' own drops on another
\* thread release exactly what was retained.
THEOREM ReferencesAreBalanced == Spec => []ReferencesBalanced
<1>1. IInv => ReferencesBalanced
  BY DEF IInv
<1>. QED
  BY <1>1, Invariant, PTL

\* Whatever was lost, overtaken, buffered or failed before, the picture is intact
\* as soon as Gop pictures in a row were delivered.
THEOREM Recovery == Spec => []RecoversWithinGop
<1>1. IInv => RecoversWithinGop
  <2>1. SUFFICES ASSUME IInv, run = Gop PROVE session \in {"ready", "none"} /\ intact
    BY DEF RecoversWithinGop
  <2>2. last < Gop /\ last \in Nat /\ Gop \in Nat
    BY <2>1, Places DEF IInv, TypeOK
  <2>3. intact
    BY <2>1, <2>2 DEF IInv, DamageBound
  <2>. QED
    BY <2>1, <2>3 DEF IInv, TypeOK, D!TypeOK, SessionRuns
<1>. QED
  BY <1>1, Invariant, PTL
-----------------------------------------------------------------------------
(* The two pipelines *)

\* A host that streams through either pipeline does nothing but what VideoStream and
\* GenericStream say: what is proved of each alone holds of both together.
THEOREM Composition == PipelinesSpec => Spec /\ G!Spec
<1>1. PipelinesInit => Init /\ G!Init
  BY DEF PipelinesInit
<1>2. [PipelinesNext]_<<pipeline, vars, generic>> => [Next]_vars
  BY DEF PipelinesNext, ZeroCopy, Generic
<1>3. [PipelinesNext]_<<pipeline, vars, generic>> => [G!Next]_(G!vars)
  <2>1. UNCHANGED generic => UNCHANGED G!vars
    BY DEF generic, G!vars, G!host, G!path, G!client
  <2>. QED
    BY <2>1 DEF PipelinesNext, ZeroCopy, Generic
<1>. QED
  BY <1>1, <1>2, <1>3, PTL DEF PipelinesSpec, Spec, G!Spec

\* GenericStream as its theorems have it: the same module, with the same variables.
GP == INSTANCE GenericStreamProofs
      WITH stage <- gStage, encoder <- gEncoder, packet <- gPacket, net <- gNet, gap <- gGap,
           params <- gParams, decoder <- gDecoder, intact <- gIntact, run <- gRun

\* The two instances say the same, once all their definitions are expanded.
LEMMA SameStream ==
    /\ G!Init <=> GP!Init
    /\ [G!Next]_(G!vars) <=> [GP!Next]_(GP!vars)
    /\ G!TypeOK <=> GP!TypeOK
    /\ G!CodecAgreed <=> GP!CodecAgreed
    /\ G!SoftwareRecovers <=> GP!SoftwareRecovers
  BY DEF
         G!host, G!path, G!client, G!vars, G!Codecs, G!Builds, G!NoEncoder,
         G!NoParams, G!NoDecoder, G!HalfSecond, G!Init, G!EncoderConfig, G!Fresh,
         G!FfmpegEncoder, G!OpenH264Encoder, G!create_software_encoder, G!Interval,
         G!StartPipeline, G!CreateEncoder, G!CreateEncoderFails, G!StreamParams,
         G!Drop, G!Handshake, G!HandshakeFails, G!CaptureFrame, G!CaptureEnds,
         G!Place, G!MayCode, G!Coded, G!Due, G!Counted, G!Out, G!OpenH264Encode,
         G!OpenH264Skips, G!FfmpegEncode, G!FfmpegHolds, G!EncodeFails, G!Send,
         G!SendRefused, G!Lose, G!Overtake, G!Supports, G!create_software_decoder,
         G!CreateDecoder, G!Disconnect, G!First, G!Key, G!Deliver, G!Decode,
         G!DecodeFails, G!Next, G!Packets, G!Encoders, G!TypeOK, G!CodecAgreed,
         G!SoftwareRecovers, G!Unlinked, G!Without, G!Swapped,
         GP!host, GP!path, GP!client, GP!vars, GP!Codecs, GP!Builds, GP!NoEncoder,
         GP!NoParams, GP!NoDecoder, GP!HalfSecond, GP!Init, GP!EncoderConfig,
         GP!Fresh, GP!FfmpegEncoder, GP!OpenH264Encoder, GP!create_software_encoder,
         GP!Interval, GP!StartPipeline, GP!CreateEncoder, GP!CreateEncoderFails,
         GP!StreamParams, GP!Drop, GP!Handshake, GP!HandshakeFails, GP!CaptureFrame,
         GP!CaptureEnds, GP!Place, GP!MayCode, GP!Coded, GP!Due, GP!Counted, GP!Out,
         GP!OpenH264Encode, GP!OpenH264Skips, GP!FfmpegEncode, GP!FfmpegHolds,
         GP!EncodeFails, GP!Send, GP!SendRefused, GP!Lose, GP!Overtake, GP!Supports,
         GP!create_software_decoder, GP!CreateDecoder, GP!Disconnect, GP!First,
         GP!Key, GP!Deliver, GP!Decode, GP!DecodeFails, GP!Next, GP!Packets,
         GP!Encoders, GP!TypeOK, GP!CodecAgreed, GP!SoftwareRecovers, GP!Unlinked,
         GP!Without, GP!Swapped

\* What is proved of the generic pipeline holds of a host that has both.
LEMMA GenericTheorems ==
    PipelinesSpec => [](GP!TypeOK /\ GP!CodecAgreed /\ GP!SoftwareRecovers)
<1>1. GP!Constants
  BY PipelinesAssumption, StreamAssumption DEF GP!Constants
<1>2. G!Spec => GP!Spec
  BY SameStream, PTL DEF G!Spec, GP!Spec
<1>3. GP!Spec => []GP!TypeOK
  BY <1>1, GP!TypeCorrect
<1>4. GP!Spec => []GP!CodecAgreed
  BY <1>1, GP!Agreement
<1>5. GP!Spec => []GP!SoftwareRecovers
  BY <1>1, GP!Recovery
<1>. QED
  BY <1>2, <1>3, <1>4, <1>5, Composition, PTL

\* The types of both pipelines; the encoders of the generic one keep their keyframe
\* distance although pictures are skipped or held back.
THEOREM PipelinesTypeCorrect == PipelinesSpec => []PipelinesTypeOK
<1>1. TypeOK /\ GP!TypeOK => PipelinesTypeOK
  BY SameStream DEF PipelinesTypeOK
<1>. QED
  BY <1>1, TypeCorrect, Composition, GenericTheorems, PTL

\* Whatever host and client are built with, every packet on its way to a decoder is
\* of the decoder's codec.
THEOREM Agreement == PipelinesSpec => []CodecAgreed
<1>1. GP!CodecAgreed => CodecAgreed
  BY SameStream DEF CodecAgreed
<1>. QED
  BY <1>1, GenericTheorems, PTL

\* Half a second of pictures delivered in a row restores the picture.
THEOREM SoftwareRecovery == PipelinesSpec => []SoftwareRecovers
<1>1. GP!SoftwareRecovers => SoftwareRecovers
  BY SameStream DEF SoftwareRecovers
<1>. QED
  BY <1>1, GenericTheorems, PTL
=============================================================================
