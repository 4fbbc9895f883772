--------------------------- MODULE HostSessionProofs ---------------------------
(***************************************************************************)
(* Theorems about the host's streaming session, for every capacity of the  *)
(* channel between the encode thread and the send loop.                    *)
(***************************************************************************)
EXTENDS HostSession, TLAPS

(***************************************************************************)
(* The invariants of HostSession speak of what is seen between steps; the  *)
(* inductive one adds why.  The receiver is open exactly while a session    *)
(* streams, so the thread can only have ended by sending its error, and    *)
(* a task that joins the thread holds it up no longer.  The queue goes     *)
(* up from the last packet sent, and what the encoder emits next goes on   *)
(* from the newest packet in it.                                           *)
(***************************************************************************)
Newest == IF queue = <<>> THEN last ELSE queue[Len(queue)]

StreamingOpen ==
    /\ rx_open <=> phase = "streaming"
    /\ phase = "streaming" => worker # "none"

QueueInOrder ==
    phase = "streaming" =>
        \A i \in 1..Len(queue) :
            IF queue[i] = Err
            THEN i = Len(queue) /\ worker = "exited"
            ELSE queue[i] = Succ(IF i = 1 THEN last ELSE queue[i - 1])

EncoderInOrder ==
    phase = "streaming" =>
        /\ worker \in {"capturing", "encoding"} => next = Succ(Newest)
        /\ worker = "sending" /\ item # Err => item = Succ(Newest) /\ next = Succ(item)

IInv ==
    /\ TypeOK
    /\ OneEncodeThread /\ StreamingOpen /\ FrameReleased
    /\ QueueInOrder /\ EncoderInOrder
-----------------------------------------------------------------------------
(* Numbers and sequences *)

\* Packets and the error item are naturals that differ, and Succ stays in Packets.
LEMMA PacketNumbers ==
    /\ Cycle \in Nat /\ Cycle - 1 \in Packets /\ 0 \in Packets
    /\ Err \notin Packets
    /\ \A n \in Packets : Succ(n) \in Packets
    /\ Succ(Cycle - 1) = 0
  BY HostAssumption DEF HostAssumption, Cycle, Packets, Err, Succ

Items == Packets \cup {Err}

\* Taking the head off the channel moves every other item up by one.
LEMMA TailFacts ==
    ASSUME NEW q \in Seq(Items), q # <<>>
    PROVE  /\ Len(q) \in Nat \ {0} /\ Head(q) = q[1] /\ Head(q) \in Items
           /\ Tail(q) \in Seq(Items) /\ Len(Tail(q)) = Len(q) - 1
           /\ \A i \in 1..Len(Tail(q)) : Tail(q)[i] = q[i + 1]
  OBVIOUS

\* Appending to the channel leaves the items before it where they are.
LEMMA AppendFacts ==
    ASSUME NEW q \in Seq(Items), NEW e \in Items
    PROVE  /\ Len(q) \in Nat
           /\ Append(q, e) \in Seq(Items) /\ Len(Append(q, e)) = Len(q) + 1
           /\ Append(q, e)[Len(q) + 1] = e
           /\ \A i \in 1..Len(q) : Append(q, e)[i] = q[i]
           /\ Append(q, e) # <<>>
  OBVIOUS

\* The newest packet of a session is the last one sent or the last one queued.
LEMMA NewestIsItem ==
    ASSUME TypeOK
    PROVE  Newest \in Items
  BY DEF TypeOK, Newest, Items
-----------------------------------------------------------------------------
(* The steps *)

\* The initial state satisfies the invariant.
LEMMA InitIInv == Init => IInv
<1>1. SUFFICES ASSUME Init PROVE IInv
  OBVIOUS
<1>2. queue \in Seq(Packets \cup {Err}) /\ Len(queue) = 0
  BY <1>1 DEF Init
<1>3. 0 <= ENCODE_CHANNEL_CAPACITY
  BY HostAssumption DEF HostAssumption
<1>4. TypeOK
  <2>1. last \in Packets /\ item \in Packets \cup {Err} /\ next \in Packets
    BY <1>1, PacketNumbers DEF Init
  <2>. QED
    BY <1>1, <1>2, <1>3, <2>1 DEF Init, TypeOK, Phases, Workers
<1>. QED
  BY <1>1, <1>4 DEF Init, IInv, OneEncodeThread, StreamingOpen, FrameReleased,
        QueueInOrder, EncoderInOrder

\* Every step keeps the types.
LEMMA StepTypeOK ==
    ASSUME TypeOK, Next
    PROVE  TypeOK'
<1>. USE PacketNumbers DEF TypeOK, Phases, Workers, task, thread, vars, Items
<1>1. CASE Environment
  <2>1. CASE Cancel \/ LoseLink
    BY <2>1 DEF Cancel, LoseLink
  <2>2. CASE Accept \/ PermissionGranted
    BY <2>2 DEF Accept, PermissionGranted
  <2>3. CASE Panic
    BY <2>3 DEF Panic, GoTo
  <2>. QED
    BY <1>1, <2>1, <2>2, <2>3 DEF Environment
<1>2. CASE SetupStep
  <2>1. <<>> \in Seq(Items) /\ Len(<<>>) <= ENCODE_CHANNEL_CAPACITY
    BY HostAssumption DEF HostAssumption
  <2>. QED
    BY <1>2, <2>1 DEF SetupStep, Authenticated, StartStreaming, SetupFails
<1>3. CASE StopAccepting \/ Join
  BY <1>3 DEF StopAccepting, Join
<1>4. CASE SendPacket
  <2>1. Head(queue) \in Packets /\ Tail(queue) \in Seq(Items)
        /\ Len(Tail(queue)) <= ENCODE_CHANNEL_CAPACITY
    BY <1>4, TailFacts, HostAssumption DEF SendPacket, HostAssumption
  <2>. QED
    BY <1>4, <2>1 DEF SendPacket
<1>5. CASE SendFails \/ ReceiveError \/ ChannelDrained \/ StopOnCancel
  <2>1. <<>> \in Seq(Items) /\ Len(<<>>) <= ENCODE_CHANNEL_CAPACITY
    BY HostAssumption DEF HostAssumption
  <2>. QED
    BY <1>5, <2>1 DEF SendFails, ReceiveError, ChannelDrained, StopOnCancel, LeaveLoop
<1>6. CASE CaptureStep
  BY <1>6 DEF CaptureStep, CaptureFrame, CaptureTimeout, CaptureFails, GoTo
<1>7. CASE EncodeStep
  BY <1>7 DEF EncodeStep, EncodePacket, EncodeNone, EncodeFails, GoTo
<1>8. CASE BlockingSend
  <2>1. Append(queue, item) \in Seq(Items)
        /\ Len(Append(queue, item)) <= ENCODE_CHANNEL_CAPACITY
    BY <1>8, AppendFacts, HostAssumption DEF BlockingSend, HostAssumption
  <2>. QED
    BY <1>8, <2>1 DEF BlockingSend, GoTo
<1>9. CASE SendRefused
  BY <1>9 DEF SendRefused, GoTo
<1>. QED
  BY <1>1, <1>2, <1>3, <1>4, <1>5, <1>6, <1>7, <1>8, <1>9 DEF Next, TaskStep, SendStep

\* The thread of a session is over before the session is, and a frame is held
\* only between a capture and the send or failure that follows it.
LEMMA StepThread ==
    ASSUME TypeOK, OneEncodeThread, StreamingOpen, FrameReleased, Next
    PROVE  OneEncodeThread' /\ StreamingOpen' /\ FrameReleased'
<1>. USE DEF OneEncodeThread, StreamingOpen, FrameReleased, task, thread, vars
<1>1. CASE Environment \/ SetupStep
  BY <1>1 DEF Environment, Cancel, LoseLink, Accept, PermissionGranted, Panic, GoTo,
        SetupStep, Authenticated, StartStreaming, SetupFails
<1>2. CASE TaskStep \/ StopOnCancel
  BY <1>2 DEF TaskStep, StopAccepting, Join, SendPacket, SendFails, ReceiveError,
        ChannelDrained, StopOnCancel, LeaveLoop
<1>3. CASE CaptureStep
  BY <1>3 DEF CaptureStep, CaptureFrame, CaptureTimeout, CaptureFails, GoTo
<1>4. CASE EncodeStep
  BY <1>4 DEF EncodeStep, EncodePacket, EncodeNone, EncodeFails, GoTo
<1>5. CASE SendStep
  BY <1>5 DEF SendStep, BlockingSend, SendRefused, GoTo
<1>. QED
  BY <1>1, <1>2, <1>3, <1>4, <1>5 DEF Next

\* A step that touches neither the queue, nor last, nor ends the thread keeps the
\* queue in order.
LEMMA QueueUntouched ==
    ASSUME QueueInOrder, phase' = "streaming" => phase = "streaming",
           queue' = queue, last' = last, worker = "exited" => worker' = "exited"
    PROVE  QueueInOrder'
  BY DEF QueueInOrder, Err, Cycle, Succ

\* send_video takes the head of the queue.
LEMMA SendPacketOrder ==
    ASSUME TypeOK, QueueInOrder, EncoderInOrder, SendPacket
    PROVE  QueueInOrder' /\ EncoderInOrder'
<1>. DEFINE Rest == Tail(queue)
<1>1. queue \in Seq(Items) /\ queue # <<>> /\ phase = "streaming"
  BY DEF TypeOK, Items, SendPacket
<1>2. /\ queue' = Rest /\ last' = queue[1] /\ queue[1] # Err
      /\ phase' = phase /\ worker' = worker /\ item' = item /\ next' = next
  BY <1>1, TailFacts DEF SendPacket, thread
<1>3. /\ Len(queue) \in Nat \ {0} /\ Len(Rest) = Len(queue) - 1
      /\ \A i \in 1..Len(Rest) : Rest[i] = queue[i + 1]
      /\ Rest \in Seq(Items)
  BY <1>1, TailFacts
<1>. HIDE DEF Rest
<1>4. QueueInOrder'
  <2>1. SUFFICES ASSUME NEW i \in 1..Len(Rest)
                 PROVE  IF Rest[i] = Err
                        THEN i = Len(Rest) /\ worker = "exited"
                        ELSE Rest[i] = Succ(IF i = 1 THEN last' ELSE Rest[i - 1])
    BY <1>2 DEF QueueInOrder, Err, Cycle, Succ
  <2>2. i + 1 \in 1..Len(queue) /\ i + 1 # 1 /\ (i + 1) - 1 = i /\ Rest[i] = queue[i + 1]
    BY <1>3
  <2>3. IF queue[i + 1] = Err
        THEN i + 1 = Len(queue) /\ worker = "exited"
        ELSE queue[i + 1] = Succ(queue[i])
    BY <1>1, <2>2 DEF QueueInOrder
  <2>4. queue[i] = IF i = 1 THEN last' ELSE Rest[i - 1]
    BY <1>2, <1>3
  <2>. QED
    BY <1>3, <2>2, <2>3, <2>4
<1>5. Newest' = Newest
  <2>1. CASE Len(queue) = 1
    <3>1. Rest = <<>>
      BY <2>1, <1>3
    <3>. QED
      BY <1>1, <1>2, <2>1, <3>1 DEF Newest
  <2>2. CASE Len(queue) # 1
    <3>1. Rest # <<>> /\ Rest[Len(Rest)] = queue[Len(queue)]
      BY <2>2, <1>3
    <3>. QED
      BY <1>1, <1>2, <3>1 DEF Newest
  <2>. QED
    BY <2>1, <2>2
<1>6. EncoderInOrder'
  BY <1>2, <1>5 DEF EncoderInOrder, Err, Cycle, Succ
<1>. QED
  BY <1>4, <1>6

\* The thread appends what it holds: the next packet, or the error that ends it.
LEMMA BlockingSendOrder ==
    ASSUME TypeOK, QueueInOrder, EncoderInOrder, BlockingSend
    PROVE  QueueInOrder' /\ EncoderInOrder'
<1>. DEFINE More == Append(queue, item)
<1>1. queue \in Seq(Items) /\ item \in Items
  BY DEF TypeOK, Items
<1>2. /\ queue' = More /\ worker = "sending"
      /\ phase' = phase /\ last' = last /\ item' = item /\ next' = next
      /\ worker' = IF item = Err THEN "exited" ELSE "capturing"
  BY DEF BlockingSend, GoTo, task
<1>3. /\ Len(queue) \in Nat /\ Len(More) = Len(queue) + 1
      /\ More[Len(queue) + 1] = item
      /\ \A i \in 1..Len(queue) : More[i] = queue[i]
      /\ More # <<>>
  BY <1>1, AppendFacts
<1>. HIDE DEF More
<1>4. SUFFICES ASSUME phase = "streaming"
               PROVE  QueueInOrder' /\ EncoderInOrder'
  BY <1>2 DEF QueueInOrder, EncoderInOrder
<1>5. item # Err => item = Succ(Newest) /\ next = Succ(item)
  BY <1>2, <1>4 DEF EncoderInOrder
<1>6. \A i \in 1..Len(queue) :
          queue[i] # Err /\ queue[i] = Succ(IF i = 1 THEN last ELSE queue[i - 1])
  BY <1>2, <1>4 DEF QueueInOrder
<1>7. QueueInOrder'
  <2>1. SUFFICES ASSUME NEW i \in 1..Len(More)
                 PROVE  IF More[i] = Err
                        THEN i = Len(More) /\ worker' = "exited"
                        ELSE More[i] = Succ(IF i = 1 THEN last ELSE More[i - 1])
    BY <1>2 DEF QueueInOrder, Err, Cycle, Succ
  <2>2. CASE i \in 1..Len(queue)
    <3>1. i # 1 => More[i - 1] = queue[i - 1]
      BY <1>3, <2>2
    <3>. QED
      BY <1>3, <1>6, <2>2, <3>1
  <2>3. CASE i = Len(queue) + 1
    <3>1. Newest = IF i = 1 THEN last ELSE More[i - 1]
      <4>1. queue = <<>> <=> i = 1
        BY <1>1, <1>3, <2>3
      <4>. QED
        BY <1>3, <2>3, <4>1 DEF Newest
    <3>. QED
      BY <1>2, <1>3, <1>5, <2>3, <3>1
  <2>. QED
    BY <1>3, <2>2, <2>3
<1>8. Newest' = item
  BY <1>2, <1>3 DEF Newest
<1>9. EncoderInOrder'
  BY <1>2, <1>5, <1>8 DEF EncoderInOrder, Err, Cycle, Succ
<1>. QED
  BY <1>7, <1>9

\* Every step keeps the packets in order.
LEMMA StepOrder ==
    ASSUME IInv, Next
    PROVE  QueueInOrder' /\ EncoderInOrder'
<1>1. TypeOK /\ QueueInOrder /\ EncoderInOrder /\ OneEncodeThread /\ StreamingOpen
  BY DEF IInv
<1>2. CASE StartStreaming
  <2>1. /\ queue' = <<>> /\ last' = Cycle - 1 /\ next' = 0
        /\ worker' = "capturing" /\ phase' = "streaming"
    BY <1>2 DEF StartStreaming
  <2>2. Len(queue') = 0 /\ Newest' = Cycle - 1
    BY <2>1 DEF Newest
  <2>. QED
    BY <2>1, <2>2, PacketNumbers DEF QueueInOrder, EncoderInOrder, Err, Cycle, Succ
<1>3. CASE SendPacket
  BY <1>1, <1>3, SendPacketOrder
<1>4. CASE BlockingSend
  BY <1>1, <1>4, BlockingSendOrder
<1>5. CASE phase' # "streaming"
  BY <1>5 DEF QueueInOrder, EncoderInOrder
<1>6. CASE Cancel \/ LoseLink \/ Panic \/ CaptureStep \/ EncodeStep \/ SendRefused
  <2>1. /\ phase' = phase /\ queue' = queue /\ last' = last /\ Newest' = Newest
        /\ worker = "exited" => worker' = "exited"
    BY <1>6 DEF Cancel, LoseLink, Panic, CaptureStep, CaptureFrame, CaptureTimeout, CaptureFails,
         EncodeStep, EncodePacket, EncodeNone, EncodeFails, SendRefused, GoTo, task, thread, Newest
  <2>2. QueueInOrder'
    BY <1>1, <2>1, QueueUntouched
  <2>3. EncoderInOrder'
    <3>1. CASE EncodePacket
      BY <1>1, <2>1, <3>1 DEF EncodePacket, EncoderInOrder, Err, Cycle, Succ
    <3>2. CASE Cancel \/ LoseLink
      BY <1>1, <2>1, <3>2 DEF Cancel, LoseLink, thread, EncoderInOrder, Err, Cycle, Succ
    <3>3. CASE CaptureStep
      BY <1>1, <2>1, <3>3 DEF CaptureStep, CaptureFrame, CaptureTimeout, CaptureFails, GoTo,
           EncoderInOrder, Err, Cycle, Succ
    <3>4. CASE EncodeNone \/ EncodeFails
      BY <1>1, <2>1, <3>4 DEF EncodeNone, EncodeFails, GoTo, EncoderInOrder, Err, Cycle, Succ
    <3>5. CASE SendRefused
      BY <1>1, <2>1, <3>5 DEF SendRefused, GoTo, EncoderInOrder, Err, Cycle, Succ
    <3>6. CASE Panic
      BY <1>1, <2>1, <3>6 DEF Panic, GoTo, EncoderInOrder, Err, Cycle, Succ
    <3>. QED
      BY <1>6, <3>1, <3>2, <3>3, <3>4, <3>5, <3>6 DEF EncodeStep
  <2>. QED
    BY <2>2, <2>3
<1>7. CASE Accept \/ Authenticated \/ PermissionGranted \/ SetupFails \/ StopAccepting \/ Join
           \/ SendFails \/ ReceiveError \/ ChannelDrained \/ StopOnCancel
  BY <1>5, <1>7 DEF Accept, Authenticated, PermissionGranted, SetupFails, StopAccepting, Join, SendFails, ReceiveError,
       ChannelDrained, StopOnCancel, LeaveLoop
<1>. QED
  BY <1>2, <1>3, <1>4, <1>6, <1>7 DEF Next, Environment, SetupStep, TaskStep, SendStep

\* The inductive invariant holds in every reachable state.
LEMMA IInvHolds == Spec => []IInv
<1>1. IInv /\ [Next]_vars => IInv'
  <2>1. CASE Next
    BY <2>1, StepTypeOK, StepThread, StepOrder DEF IInv
  <2>2. CASE UNCHANGED vars
    BY <2>2 DEF vars, task, thread, IInv, TypeOK, OneEncodeThread, StreamingOpen, FrameReleased,
         QueueInOrder, EncoderInOrder, Newest, Succ, Err, Cycle, Packets
  <2>. QED
    BY <2>1, <2>2
<1>. QED
  BY InitIInv, <1>1, PTL DEF Spec
-----------------------------------------------------------------------------
(* The theorems *)

\* Every variable keeps its type; the channel never exceeds its capacity.
THEOREM TypeCorrect == Spec => []TypeOK
  BY IInvHolds, PTL DEF IInv

\* A session's encode thread is over before the next session can start one, so
\* two threads never capture the display at once.
THEOREM NeverTwoEncodeThreads == Spec => []OneEncodeThread
  BY IInvHolds, PTL DEF IInv

\* The thread holds no DXGI frame whenever it asks for the next one and when it is
\* over, on every path through its loop.
THEOREM FramesAreReleased == Spec => []FrameReleased
  BY IInvHolds, PTL DEF IInv

\* What the encoder emitted reaches send_video in order and without a gap, and an
\* error arrives last, whatever the capacity of the channel between them.
THEOREM PacketsStayInOrder == Spec => []PacketsInOrder
<1>1. IInv => PacketsInOrder
  <2>1. SUFFICES ASSUME IInv, phase = "streaming", NEW i \in 1..Len(Backlog)
                 PROVE  IF Backlog[i] = Err
                        THEN i = Len(Backlog) /\ worker \in {"sending", "exited"}
                        ELSE Backlog[i] = Succ(IF i = 1 THEN last ELSE Backlog[i - 1])
    BY DEF PacketsInOrder
  <2>2. queue \in Seq(Items) /\ item \in Items /\ QueueInOrder /\ EncoderInOrder
    BY <2>1 DEF IInv, TypeOK, Items
  <2>3. CASE worker # "sending"
    <3>1. Backlog = queue
      BY <2>2, <2>3 DEF Backlog
    <3>. QED
      BY <2>1, <2>2, <3>1 DEF QueueInOrder
  <2>4. CASE worker = "sending"
    <3>1. /\ Len(queue) \in Nat /\ Len(Backlog) = Len(queue) + 1
          /\ Backlog[Len(queue) + 1] = item
          /\ \A k \in 1..Len(queue) : Backlog[k] = queue[k]
      BY <2>2, <2>4 DEF Backlog
    <3>2. CASE i \in 1..Len(queue)
      <4>1. i # 1 => Backlog[i - 1] = queue[i - 1]
        BY <3>1, <3>2
      <4>. QED
        BY <2>1, <2>2, <2>4, <3>1, <3>2, <4>1 DEF QueueInOrder
    <3>3. CASE i = Len(queue) + 1
      <4>1. queue = <<>> <=> i = 1
        BY <2>2, <3>1, <3>3
      <4>2. Newest = IF i = 1 THEN last ELSE Backlog[i - 1]
        BY <3>1, <3>3, <4>1 DEF Newest
      <4>3. item # Err => item = Succ(Newest)
        BY <2>1, <2>2, <2>4 DEF EncoderInOrder
      <4>. QED
        BY <2>4, <3>1, <3>3, <4>2, <4>3
    <3>. QED
      BY <2>1, <3>1, <3>2, <3>3
  <2>. QED
    BY <2>3, <2>4
<1>. QED
  BY IInvHolds, <1>1, PTL

\* The thread that is blocked on the full channel has a send loop at work, for every
\* capacity: leaving the loop drops packet_rx, and that releases the thread before the
\* task waits for it (stream_with_pipeline).
THEOREM NeverWaitForEachOther == Spec => []NoMutualWait
<1>1. IInv => NoMutualWait
  BY DEF IInv, StreamingOpen, NoMutualWait
<1>. QED
  BY IInvHolds, <1>1, PTL
=============================================================================
