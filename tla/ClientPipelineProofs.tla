------------------------- MODULE ClientPipelineProofs -------------------------
(***************************************************************************)
(* Theorems about the client's decode and render pipeline, for every       *)
(* capacity of the frame channel and every number of frames.               *)
(***************************************************************************)
EXTENDS ClientPipeline, FiniteSetTheorems, TLAPS

(***************************************************************************)
(* The safety invariants are inductive once the types are, and the type of *)
(* wakeups is: each user event stands for a decoded frame of its own, and  *)
(* the one about to be sent does as well.                                  *)
(***************************************************************************)
WakeupsCounted == wakeups + (IF net = "notifying" THEN 1 ELSE 0) <= decoded

\* main cancels the token before it joins the network thread.
JoiningCancelled == main \in {"joining", "ended"} => token

IInv == TypeOK /\ WakeupsCounted /\ NoLostWakeup /\ NewestAcceptedKept /\ JoiningCancelled
-----------------------------------------------------------------------------
\* Draining takes the oldest frame and leaves the newest one where it is.
LEMMA DrainFacts ==
    ASSUME NEW q \in Seq(Frames), q # <<>>
    PROVE  /\ Len(q) \in Nat \ {0} /\ Head(q) = q[1] /\ Head(q) \in Frames
           /\ Tail(q) \in Seq(Frames) /\ Len(Tail(q)) = Len(q) - 1
           /\ Tail(q) = <<>> <=> Len(q) = 1
           /\ Tail(q) # <<>> => Tail(q)[Len(Tail(q))] = q[Len(q)]
<1>1. /\ Len(q) \in Nat \ {0} /\ Head(q) = q[1] /\ Head(q) \in Frames
      /\ Tail(q) \in Seq(Frames) /\ Len(Tail(q)) = Len(q) - 1
  OBVIOUS
<1>2. \A i \in 1..Len(Tail(q)) : Tail(q)[i] = q[i + 1]
  OBVIOUS
<1>3. ASSUME NEW r \in Seq(Frames) PROVE r = <<>> <=> Len(r) = 0
  OBVIOUS
<1>4. Tail(q) = <<>> <=> Len(Tail(q)) = 0
  BY <1>1, <1>3
<1>. QED
  BY <1>1, <1>2, <1>4

\* A frame queued is the newest of the channel.
LEMMA QueueFacts ==
    ASSUME NEW q \in Seq(Frames), NEW f \in Frames
    PROVE  /\ Append(q, f) \in Seq(Frames) /\ Len(Append(q, f)) = Len(q) + 1
           /\ Append(q, f) # <<>> /\ Append(q, f)[Len(Append(q, f))] = f
           /\ Len(q) \in Nat
  OBVIOUS

\* The initial state satisfies the invariant.
LEMMA InitIInv == Init => IInv
<1>1. SUFFICES ASSUME Init PROVE IInv
  OBVIOUS
<1>2. chan \in Seq(Frames) /\ Len(chan) = 0 /\ 0 <= FRAME_CHANNEL_CAPACITY /\ 0 \in 0..MaxFrames
  BY <1>1, ClientAssumption DEF Init, ClientAssumption
<1>3. TypeOK
  BY <1>1, <1>2 DEF Init, TypeOK
<1>. QED
  BY <1>1, <1>3 DEF Init, IInv, WakeupsCounted, NoLostWakeup, NewestAcceptedKept,
       JoiningCancelled

\* The three outcomes of try_send.
LEMMA DispatchIInv ==
    ASSUME IInv, Dispatch
    PROVE  IInv'
<1>. USE DEF TypeOK, WakeupsCounted, NoLostWakeup, NewestAcceptedKept, LoopEnded,
         JoiningCancelled
<1>1. /\ IInv /\ net = "receiving" /\ decoded < MaxFrames /\ decoded' = decoded + 1
      /\ UNCHANGED <<mode, token, wakeups, rendering>>
  BY DEF Dispatch
<1>2. decoded' \in Frames /\ decoded' \in 0..MaxFrames /\ decoded \in Nat
  BY <1>1, ClientAssumption DEF IInv, Frames, ClientAssumption
<1>3. CASE LoopEnded /\ net' \in AfterSession /\ UNCHANGED <<chan, accepted>>
  BY <1>1, <1>2, <1>3 DEF IInv, AfterSession, rendering
<1>4. CASE ~ LoopEnded /\ Len(chan) = FRAME_CHANNEL_CAPACITY /\ UNCHANGED <<net, chan, accepted>>
  BY <1>1, <1>2, <1>4 DEF IInv, rendering
<1>5. CASE /\ ~ LoopEnded /\ Len(chan) < FRAME_CHANNEL_CAPACITY
           /\ chan' = Append(chan, decoded') /\ accepted' = decoded'
           /\ net' = "notifying"
  <2>1. /\ chan' \in Seq(Frames) /\ Len(chan') <= FRAME_CHANNEL_CAPACITY
        /\ chan' # <<>> /\ chan'[Len(chan')] = accepted'
    BY <1>1, <1>2, <1>5, QueueFacts, ClientAssumption DEF IInv, ClientAssumption
  <2>2. TypeOK'
    BY <1>1, <1>2, <1>5, <2>1 DEF IInv, rendering
  <2>3. WakeupsCounted' /\ NoLostWakeup' /\ NewestAcceptedKept' /\ JoiningCancelled'
    BY <1>1, <1>2, <1>5, <2>1 DEF IInv, rendering
  <2>. QED
    BY <2>2, <2>3 DEF IInv
<1>. QED
  BY <1>3, <1>4, <1>5 DEF Dispatch

\* The event loop takes a frame off the channel.
LEMMA DrainOneIInv ==
    ASSUME IInv, DrainOne
    PROVE  IInv'
<1>1. /\ IInv /\ main = "draining" /\ chan # <<>> /\ pending' = Head(chan) /\ chan' = Tail(chan)
      /\ UNCHANGED <<mode, token, net, decoded, accepted, wakeups, main, redraw, drawn,
                     surface>>
  BY DEF DrainOne
<1>2. chan \in Seq(Frames) /\ Len(chan) <= FRAME_CHANNEL_CAPACITY
  BY <1>1 DEF IInv, TypeOK
<1>3. /\ pending' \in Frames /\ pending' \in 0..MaxFrames /\ pending' # 0
      /\ chan' \in Seq(Frames) /\ Len(chan') <= FRAME_CHANNEL_CAPACITY
  BY <1>1, <1>2, DrainFacts, ClientAssumption DEF Frames, ClientAssumption
<1>4. TypeOK'
  BY <1>1, <1>3 DEF IInv, TypeOK
<1>5. NewestAcceptedKept'
  BY <1>1, <1>2, <1>3, DrainFacts DEF IInv, NewestAcceptedKept, LoopEnded
<1>6. WakeupsCounted' /\ NoLostWakeup' /\ JoiningCancelled'
  BY <1>1 DEF IInv, WakeupsCounted, NoLostWakeup, JoiningCancelled
<1>. QED
  BY <1>4, <1>5, <1>6 DEF IInv

\* The other steps preserve the invariant.
LEMMA OtherIInv ==
    ASSUME IInv, Next, ~ Dispatch, ~ DrainOne
    PROVE  IInv'
<1>. USE DEF IInv, TypeOK, WakeupsCounted, NoLostWakeup, NewestAcceptedKept, LoopEnded,
         JoiningCancelled, decoding, rendering, AfterFailure, AfterSession, GoTo
<1>1. CASE CtrlC
  BY <1>1 DEF CtrlC
<1>2. CASE ConnectStep \/ EnterPin \/ SetupStep \/ StopReceiving \/ SessionLost \/ Retry
  <2>1. CASE ConnectStep \/ EnterPin
    BY <2>1 DEF ConnectStep, Connect, ConnectFails, CancelConnect, EnterPin
  <2>2. CASE SetupStep
    BY <2>2 DEF SetupStep, Setup, SetupFails, Handshake, HandshakeFails
  <2>3. CASE StopReceiving \/ SessionLost \/ Retry
    BY <2>3 DEF StopReceiving, SessionLost, Retry
  <2>. QED
    BY <1>2, <2>1, <2>2, <2>3
<1>3. CASE Notify
  <2>1. wakeups' \in 0..MaxFrames
    BY <1>3, ClientAssumption DEF Notify, ClientAssumption
  <2>. QED
    BY <1>3, <2>1 DEF Notify
<1>4. CASE Close
  <2>1. <<>> \in Seq(Frames) /\ Len(<<>>) <= FRAME_CHANNEL_CAPACITY /\ 0 \in 0..MaxFrames
    BY ClientAssumption DEF ClientAssumption
  <2>2. TypeOK'
    BY <1>4, <2>1 DEF Close
  <2>. QED
    BY <1>4, <2>2 DEF Close
<1>5. CASE Resume \/ Expose \/ LoseSurface \/ Resized
  <2>1. CASE Resume
    BY <2>1 DEF Resume, configure
  <2>2. CASE Expose
    BY <2>2 DEF Expose
  <2>3. CASE LoseSurface
    BY <2>3 DEF LoseSurface
  <2>4. CASE Resized
    BY <2>4 DEF Resized, configure
  <2>. QED
    BY <1>5, <2>1, <2>2, <2>3, <2>4
<1>6. CASE Redraw
  <2>1. 0 \in 0..MaxFrames
    BY ClientAssumption DEF ClientAssumption
  <2>2. surface' = surface \/ surface' = "configured"
    BY <1>6 DEF Redraw, render, configure
  <2>3. /\ pending' = 0 /\ drawn' = (IF pending = 0 THEN drawn ELSE pending)
        /\ main = "idle" /\ redraw' = FALSE
        /\ UNCHANGED <<mode, token, decoding, wakeups, main>>
    BY <1>6 DEF Redraw, render
  <2>. QED
    BY <2>1, <2>2, <2>3
<1>7. CASE TakeWakeup
  <2>1. wakeups' \in 0..MaxFrames
    BY <1>7, ClientAssumption DEF TakeWakeup, ClientAssumption
  <2>. QED
    BY <1>7, <2>1 DEF TakeWakeup
<1>8. CASE DrainDone
  BY <1>8 DEF DrainDone
<1>9. CASE ExitStep
  BY <1>9 DEF ExitStep, Cancel, Join
<1>. QED
  BY <1>1, <1>2, <1>3, <1>4, <1>5, <1>6, <1>7, <1>8, <1>9 DEF Next, LoopStep

\* The inductive invariant holds in every reachable state.
LEMMA IInvHolds == Spec => []IInv
<1>1. IInv /\ [Next]_vars => IInv'
  <2>1. CASE Next
    BY <2>1, DispatchIInv, DrainOneIInv, OtherIInv
  <2>2. CASE UNCHANGED vars
    BY <2>2 DEF vars, decoding, rendering, IInv, TypeOK, WakeupsCounted, NoLostWakeup,
         NewestAcceptedKept, LoopEnded, JoiningCancelled
  <2>. QED
    BY <2>1, <2>2
<1>. QED
  BY InitIInv, <1>1, PTL DEF Spec
-----------------------------------------------------------------------------
\* Every variable keeps its type; the channel never exceeds its capacity, and no
\* more user events are outstanding than frames were decoded.
THEOREM TypeCorrect == Spec => []TypeOK
  BY IInvHolds, PTL DEF IInv

\* The event loop never sleeps on a queued frame: its wakeup is on its way.
THEOREM WakeupsAreNotLost == Spec => []NoLostWakeup
  BY IInvHolds, PTL DEF IInv

\* The renderer skips frames but never the newest one the channel accepted.
THEOREM NewestIsKept == Spec => []NewestAcceptedKept
  BY IInvHolds, PTL DEF IInv

\* From the moment main joins the network thread, that thread only takes steps that lead to
\* its end: no new attempt, no backoff, no further frame queued, for every capacity and
\* whatever it was doing.
THEOREM JoinedThreadEnds == Spec => JoinedThreadWindsDown
<1>. DEFINE Down == main = "joining" /\ net' # net => <<net, net'>> \in Onward
<1>1. IInv /\ [Next]_vars => Down
  <2>1. SUFFICES ASSUME TypeOK, token, main = "joining", [Next]_vars PROVE Down
    BY DEF IInv, JoiningCancelled
  <2>. USE DEF Onward, AfterFailure, AfterSession, GoTo
  <2>2. CASE ConnectStep
    BY <2>1, <2>2 DEF ConnectStep, Connect, ConnectFails, CancelConnect, TypeOK
  <2>3. CASE SetupStep
    BY <2>1, <2>3 DEF SetupStep, Setup, SetupFails, Handshake, HandshakeFails
  <2>4. CASE EnterPin \/ StopReceiving \/ SessionLost \/ Retry
    BY <2>1, <2>4 DEF EnterPin, StopReceiving, SessionLost, Retry
  <2>5. CASE Dispatch
    BY <2>1, <2>5 DEF Dispatch, LoopEnded
  <2>6. CASE Notify
    BY <2>6 DEF Notify
  <2>7. CASE Resume \/ Close \/ LoopStep \/ Expose \/ LoseSurface \/ Resized \/ ExitStep \/ CtrlC
    BY <2>7 DEF Resume, Close, LoopStep, TakeWakeup, DrainOne, DrainDone, Redraw, Expose,
         LoseSurface, Resized, ExitStep, Cancel, Join, CtrlC, decoding
  <2>8. CASE UNCHANGED vars
    BY <2>8 DEF vars, decoding
  <2>. QED
    BY <2>1, <2>2, <2>3, <2>4, <2>5, <2>6, <2>7, <2>8 DEF Next
<1>2. IInv /\ [Next]_vars => [Down]_vars
  BY <1>1
<1>. HIDE DEF Down
<1>3. Spec => [][Down]_vars
  BY <1>2, IInvHolds, PTL DEF Spec
<1>. QED
  BY <1>3 DEF JoinedThreadWindsDown, Down
-----------------------------------------------------------------------------
(***************************************************************************)
(* The pipeline implements FrameMailbox.  Frames go from the decoder to    *)
(* the screen in the order of their numbers, so those that wait are as     *)
(* many as the channel holds, and the pending one, which is the oldest.    *)
(***************************************************************************)
InOrder(q) == \A i, j \in 1..Len(q) : i < j => q[i] < q[j]

Ordered ==
    /\ InOrder(chan)
    /\ \A i \in 1..Len(chan) : pending < chan[i] /\ drawn < chan[i] /\ chan[i] <= decoded
    /\ pending # 0 => drawn < pending
    /\ pending <= decoded /\ drawn <= decoded

\* The next frame queued comes last, and a channel without its first frame is in order.
LEMMA AppendInOrder ==
    ASSUME NEW q \in Seq(Frames), NEW f \in Frames, \A i \in 1..Len(q) : q[i] < f, InOrder(q)
    PROVE  /\ InOrder(Append(q, f))
           /\ \A i \in 1..Len(Append(q, f)) :
                 Append(q, f)[i] = f \/ (i \in 1..Len(q) /\ Append(q, f)[i] = q[i])
<1>1. /\ Len(Append(q, f)) = Len(q) + 1 /\ Len(q) \in Nat
      /\ \A i \in 1..(Len(q) + 1) : Append(q, f)[i] = IF i = Len(q) + 1 THEN f ELSE q[i]
  OBVIOUS
<1>. QED
  BY <1>1 DEF InOrder

LEMMA TailInOrder ==
    ASSUME NEW q \in Seq(Frames), q # <<>>, InOrder(q)
    PROVE  /\ InOrder(Tail(q))
           /\ \A i \in 1..Len(Tail(q)) :
                 i + 1 \in 1..Len(q) /\ Tail(q)[i] = q[i + 1] /\ Head(q) < Tail(q)[i]
<1>1. /\ Len(q) \in Nat \ {0} /\ Head(q) = q[1] /\ Len(Tail(q)) = Len(q) - 1
      /\ \A i \in 1..Len(Tail(q)) : Tail(q)[i] = q[i + 1]
  OBVIOUS
<1>. QED
  BY <1>1 DEF InOrder

LEMMA InitOrdered == Init => Ordered
  BY DEF Init, Ordered, InOrder

LEMMA NextOrdered == IInv /\ Ordered /\ [Next]_vars => Ordered'
<1>. SUFFICES ASSUME IInv, Ordered, [Next]_vars PROVE Ordered'
  OBVIOUS
<1>1. /\ chan \in Seq(Frames) /\ decoded \in Nat /\ pending \in Nat /\ drawn \in Nat
      /\ \A i \in 1..Len(chan) : chan[i] \in Nat \ {0}
  BY ClientAssumption DEF IInv, TypeOK, Frames
<1>2. CASE UNCHANGED <<decoded, chan, pending, drawn>>
  BY <1>2 DEF Ordered, InOrder
<1>3. CASE Dispatch
  <2>1. decoded' = decoded + 1 /\ decoded' \in Frames /\ pending' = pending /\ drawn' = drawn
    BY <1>1, <1>3, ClientAssumption DEF Dispatch, rendering, Frames
  <2>2. CASE chan' = chan
    BY <1>1, <2>1, <2>2 DEF Ordered, InOrder
  <2>3. CASE chan' = Append(chan, decoded')
    <3>1. \A i \in 1..Len(chan) : chan[i] < decoded'
      BY <1>1, <2>1 DEF Ordered
    <3>2. /\ InOrder(chan')
          /\ \A i \in 1..Len(chan') :
                chan'[i] = decoded' \/ (i \in 1..Len(chan) /\ chan'[i] = chan[i])
      BY <1>1, <2>1, <2>3, <3>1, AppendInOrder DEF Ordered
    <3>. QED
      BY <1>1, <2>1, <3>2 DEF Ordered, InOrder
  <2>. QED
    BY <1>3, <2>2, <2>3 DEF Dispatch
<1>4. CASE DrainOne
  <2>1. /\ chan # <<>> /\ pending' = Head(chan) /\ chan' = Tail(chan)
        /\ UNCHANGED <<decoded, drawn>>
    BY <1>4 DEF DrainOne
  <2>2. /\ InOrder(chan')
        /\ \A i \in 1..Len(chan') :
              i + 1 \in 1..Len(chan) /\ chan'[i] = chan[i + 1] /\ pending' < chan'[i]
    BY <1>1, <2>1, TailInOrder DEF Ordered
  <2>3. pending' = chan[1] /\ 1 \in 1..Len(chan)
    BY <1>1, <2>1, DrainFacts
  <2>. QED
    BY <1>1, <2>1, <2>2, <2>3 DEF Ordered, InOrder
<1>5. CASE Redraw
  <2>1. /\ pending' = 0 /\ drawn' = (IF pending = 0 THEN drawn ELSE pending)
        /\ UNCHANGED <<decoded, chan>>
    BY <1>5 DEF Redraw, render, decoding
  <2>. QED
    BY <1>1, <2>1 DEF Ordered, InOrder
<1>6. CASE Close
  <2>1. chan' = <<>> /\ pending' = 0 /\ UNCHANGED <<decoded, drawn>>
    BY <1>6 DEF Close
  <2>. QED
    BY <1>1, <2>1 DEF Ordered, InOrder
<1>. QED
  BY <1>2, <1>3, <1>4, <1>5, <1>6
     DEF Next, vars, decoding, rendering, GoTo, CtrlC, ConnectStep, Connect, ConnectFails,
         CancelConnect, EnterPin, SetupStep, Setup, SetupFails, Handshake, HandshakeFails,
         StopReceiving, SessionLost, Notify, Retry, Resume, LoopStep, TakeWakeup, DrainDone,
         Expose, LoseSurface, Resized, ExitStep, Cancel, Join

\* As many frames wait in the channel as it is long.
LEMMA InOrderCount ==
    ASSUME NEW q \in Seq(Frames), InOrder(q)
    PROVE  /\ IsFiniteSet({q[i] : i \in 1..Len(q)})
           /\ Cardinality({q[i] : i \in 1..Len(q)}) = Len(q)
<1>. DEFINE S == 1..Len(q)
            T == {q[i] : i \in S}
<1>1. Len(q) \in Nat /\ q \in [S -> T]
  OBVIOUS
<1>2. \A i, j \in S : q[i] = q[j] => i = j
  <2>1. \A i \in S : q[i] \in Frames
    BY <1>1
  <2>2. \A i \in S : q[i] \in Nat
    BY <2>1 DEF Frames
  <2>3. ASSUME NEW i \in S, NEW j \in S, i < j PROVE q[i] # q[j]
    BY <2>2, <2>3 DEF InOrder
  <2>. QED
    BY <1>1, <2>3
<1>3. q \in Bijection(S, T)
  BY <1>1, <1>2 DEF Bijection, Injection, Surjection, IsInjective
<1>4. ExistsBijection(S, T)
  BY <1>3 DEF ExistsBijection
<1>5. IsFiniteSet(S) /\ Cardinality(S) = Len(q)
  BY <1>1, FS_Interval
<1>. QED
  BY <1>4, <1>5, FS_Bijection

\* The library's cardinality and the abstract module's are the same.
LEMMA SameCardinality == ASSUME NEW S PROVE Mailbox!Cardinality(S) = Cardinality(S)
  BY DEF Mailbox!Cardinality, Cardinality

LEMMA WaitingCount ==
    ASSUME IInv, Ordered
    PROVE  Mailbox!Cardinality(Waiting) \in {Len(chan), Len(chan) + 1}
<1>. DEFINE T == {chan[i] : i \in 1..Len(chan)}
<1>0. chan \in Seq(Frames) /\ Len(chan) \in Nat /\ InOrder(chan)
  BY DEF IInv, TypeOK, Ordered
<1>1. IsFiniteSet(T) /\ Cardinality(T) = Len(chan) /\ Len(chan) \in Nat
  BY <1>0, InOrderCount
<1>2. Waiting = T \/ Waiting = T \cup {pending}
  BY DEF Waiting
<1>. HIDE DEF T
<1>3. IsFiniteSet(T \cup {pending})
      /\ Cardinality(T \cup {pending}) \in {Cardinality(T), Cardinality(T) + 1}
  BY <1>1, FS_AddElement
<1>4. Cardinality(Waiting) \in {Len(chan), Len(chan) + 1}
  BY <1>1, <1>2, <1>3
<1>. QED
  BY <1>4, SameCardinality

MailboxStep == [Mailbox!MailboxNext]_(Mailbox!mailboxVars)

LEMMA NextMailbox == IInv /\ Ordered /\ [Next]_vars => MailboxStep
<1>. SUFFICES ASSUME IInv, Ordered, [Next]_vars PROVE MailboxStep
  OBVIOUS
<1>1. /\ chan \in Seq(Frames) /\ Len(chan) \in Nat /\ decoded \in Nat /\ pending \in Nat
      /\ drawn \in Nat /\ \A i \in 1..Len(chan) : chan[i] \in Nat \ {0}
  BY ClientAssumption DEF IInv, TypeOK, Frames
<1>2. ASSUME UNCHANGED <<decoded, chan, pending, drawn, LoopEnded>> PROVE MailboxStep
  BY <1>2 DEF MailboxStep, Mailbox!mailboxVars, Waiting
<1>3. CASE Dispatch
  <2>1. decoded' = decoded + 1 /\ decoded' \in Frames /\ pending' = pending /\ drawn' = drawn
        /\ main' = main
    BY <1>1, <1>3, ClientAssumption DEF Dispatch, rendering, Frames
  <2>2. LoopEnded' = LoopEnded /\ Mailbox!Cardinality(Waiting) \in {Len(chan), Len(chan) + 1}
    BY <2>1, WaitingCount DEF LoopEnded
  <2>3. CASE UNCHANGED chan /\ (LoopEnded \/ Len(chan) = FRAME_CHANNEL_CAPACITY)
    <3>1. Mailbox!Refuse
      BY <1>1, <2>1, <2>2, <2>3 DEF Mailbox!Refuse, Waiting
    <3>. QED
      BY <3>1 DEF MailboxStep, Mailbox!MailboxNext
  <2>4. CASE /\ ~ LoopEnded /\ Len(chan) < FRAME_CHANNEL_CAPACITY
             /\ chan' = Append(chan, decoded')
    <3>1. Waiting' = Waiting \cup {decoded'}
      <4>1. {chan'[i] : i \in 1..Len(chan')} = {chan[i] : i \in 1..Len(chan)} \cup {decoded'}
        <5>1. /\ Len(chan') = Len(chan) + 1
              /\ \A i \in 1..(Len(chan) + 1) :
                    chan'[i] = IF i = Len(chan) + 1 THEN decoded' ELSE chan[i]
          BY <1>1, <2>1, <2>4
        <5>. QED
          BY <1>1, <5>1
      <4>. QED
        BY <2>1, <4>1 DEF Waiting
    <3>2. Mailbox!Cardinality(Waiting) <= FRAME_CHANNEL_CAPACITY
      BY <1>1, <2>2, <2>4, ClientAssumption
    <3>3. Mailbox!Accept
      BY <2>1, <2>2, <2>4, <3>1, <3>2 DEF Mailbox!Accept
    <3>. QED
      BY <3>3 DEF MailboxStep, Mailbox!MailboxNext
  <2>. QED
    BY <1>3, <2>3, <2>4 DEF Dispatch
<1>4. CASE DrainOne
  <2>1. /\ chan # <<>> /\ pending' = Head(chan) /\ chan' = Tail(chan)
        /\ UNCHANGED <<decoded, drawn, main>>
    BY <1>4 DEF DrainOne
  <2>2. pending' = chan[1] /\ 1 \in 1..Len(chan) /\ pending < chan[1] /\ chan[1] # 0
    BY <1>1, <2>1, DrainFacts DEF Ordered
  <2>3. {chan[i] : i \in 1..Len(chan)} = {chan'[i] : i \in 1..Len(chan')} \cup {pending'}
    <3>1. Len(chan') = Len(chan) - 1 /\ \A i \in 1..(Len(chan) - 1) : chan'[i] = chan[i + 1]
      BY <1>1, <2>1
    <3>2. ASSUME NEW i \in 1..Len(chan), i # 1
          PROVE  chan[i] \in {chan'[j] : j \in 1..Len(chan')}
      <4>1. i - 1 \in 1..Len(chan') /\ chan'[i - 1] = chan[i]
        BY <1>1, <3>1, <3>2
      <4>. QED
        BY <4>1
    <3>3. ASSUME NEW i \in 1..Len(chan')
          PROVE  chan'[i] \in {chan[j] : j \in 1..Len(chan)}
      <4>1. i + 1 \in 1..Len(chan) /\ chan'[i] = chan[i + 1]
        BY <1>1, <3>1
      <4>. QED
        BY <4>1
    <3>. QED
      BY <2>2, <3>2, <3>3
  <2>4. Waiting' = {chan[i] : i \in 1..Len(chan)}
    BY <2>2, <2>3 DEF Waiting
  <2>5. pending \notin {chan[i] : i \in 1..Len(chan)}
    BY <1>1 DEF Ordered
  <2>6. CASE pending = 0
    <3>1. Waiting' = Waiting
      BY <2>4, <2>6 DEF Waiting
    <3>. QED
      BY <2>1, <3>1 DEF MailboxStep, Mailbox!mailboxVars, LoopEnded
  <2>7. CASE pending # 0
    <3>1. pending \in Waiting /\ Waiting' = Waiting \ {pending} /\ chan[1] \in Waiting
      BY <2>2, <2>4, <2>5, <2>7 DEF Waiting
    <3>2. Mailbox!Supersede(pending)
      BY <2>1, <2>2, <3>1 DEF Mailbox!Supersede, LoopEnded
    <3>. QED
      BY <3>1, <3>2 DEF MailboxStep, Mailbox!MailboxNext
  <2>. QED
    BY <2>6, <2>7
<1>5. CASE Redraw
  <2>1. /\ pending' = 0 /\ drawn' = (IF pending = 0 THEN drawn ELSE pending)
        /\ UNCHANGED <<decoded, chan, main>>
    BY <1>5 DEF Redraw, render, decoding
  <2>2. CASE pending = 0
    BY <1>2, <2>1, <2>2 DEF LoopEnded
  <2>3. CASE pending # 0
    <3>1. pending \notin {chan[i] : i \in 1..Len(chan)}
      BY <1>1 DEF Ordered
    <3>2. pending \in Waiting /\ Waiting' = Waiting \ {pending}
      BY <2>1, <2>3, <3>1 DEF Waiting
    <3>3. drawn < pending /\ \A g \in Waiting : pending <= g
      BY <1>1, <2>3 DEF Ordered, Waiting
    <3>4. Mailbox!Show(pending)
      BY <2>1, <2>3, <3>2, <3>3 DEF Mailbox!Show, LoopEnded
    <3>. QED
      BY <3>2, <3>4 DEF MailboxStep, Mailbox!MailboxNext
  <2>. QED
    BY <2>2, <2>3
<1>6. CASE Close
  <2>1. chan' = <<>> /\ pending' = 0 /\ UNCHANGED <<decoded, drawn>> /\ ~ LoopEnded /\ LoopEnded'
    BY <1>6 DEF Close, LoopEnded
  <2>2. Waiting' = {}
    BY <2>1 DEF Waiting
  <2>3. Mailbox!Close
    BY <2>1, <2>2 DEF Mailbox!Close
  <2>. QED
    BY <2>3 DEF MailboxStep, Mailbox!MailboxNext
<1>7. CASE TakeWakeup \/ DrainDone \/ Resume \/ ExitStep
  <2>1. UNCHANGED <<decoded, chan, pending, drawn>>
    BY <1>7 DEF TakeWakeup, DrainDone, Resume, ExitStep, Cancel, Join, decoding
  <2>2. LoopEnded' = LoopEnded
    BY <1>7 DEF TakeWakeup, DrainDone, Resume, ExitStep, Cancel, Join, LoopEnded
  <2>. QED
    BY <1>2, <2>1, <2>2
<1>8. CASE UNCHANGED <<decoded, chan, pending, drawn, main>>
  BY <1>2, <1>8 DEF LoopEnded
<1>. QED
  BY <1>3, <1>4, <1>5, <1>6, <1>7, <1>8
     DEF Next, vars, decoding, rendering, GoTo, CtrlC, ConnectStep, Connect, ConnectFails,
         CancelConnect, EnterPin, SetupStep, Setup, SetupFails, Handshake, HandshakeFails,
         StopReceiving, SessionLost, Notify, Retry, LoopStep, Expose, LoseSurface, Resized

\* Between decoder and screen the pipeline is a FrameMailbox, for every capacity of the
\* channel: frames are drawn once and in order, and dropped only when the channel is full
\* or a newer one takes their place (decode_and_dispatch, user_event, AppState::render).
THEOREM ImplementsMailbox == Spec => RefinesMailbox
<1>1. Init => Mailbox!MailboxInit
  BY DEF Init, Mailbox!MailboxInit, Waiting, LoopEnded
<1>2. IInv /\ Ordered /\ [Next]_vars => [Mailbox!MailboxNext]_(Mailbox!mailboxVars)
  BY NextMailbox DEF MailboxStep
<1>. QED
  BY <1>1, <1>2, InitOrdered, NextOrdered, IInvHolds, PTL
     DEF Spec, RefinesMailbox, Mailbox!MailboxSpec
=============================================================================
