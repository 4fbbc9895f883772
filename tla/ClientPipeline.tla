---------------------------- MODULE ClientPipeline ----------------------------
(***************************************************************************)
(* The RayView process: a network thread that connects, receives, decodes  *)
(* and queues frames (client::connect, run_receive_loop,                   *)
(* decode_and_dispatch), and the main thread, winit's event loop, which    *)
(* sleeps until FrameNotifier::notify wakes it and draws (RenderWindow).   *)
(* They share a bounded channel of frames, the loop's user events and the  *)
(* CancellationToken.                                                      *)
(*                                                                         *)
(* Abstractions.  Decoded frames are numbered from 1; a packet the decoder *)
(* buffers or rejects changes nothing here.  Of a frame that is presented  *)
(* only what becomes of the swap chain is modelled, not the picture.  When *)
(* a lost session is given up instead of retried is the subject of module  *)
(* Reconnect; here either may happen.                                      *)
(***************************************************************************)
EXTENDS Naturals, Sequences

CONSTANTS
    FRAME_CHANNEL_CAPACITY,  \* DEFAULT_FRAME_CHANNEL_CAPACITY
    MaxFrames,               \* frames decoded in a behaviour (bound)
    Modes                    \* "normal", "pair": without and with --pair

ASSUME ClientAssumption ==
    /\ FRAME_CHANNEL_CAPACITY \in Nat \ {0}
    /\ MaxFrames \in Nat
    /\ Modes \subseteq {"normal", "pair"}

VARIABLES
    mode,      \* ClientConfig::pair
    token,     \* the CancellationToken
    net,       \* where the network thread is
    decoded,   \* frames decoded so far
    chan,      \* the channel from frame_tx to frame_rx
    accepted,  \* the newest frame the channel took (history)
    wakeups,   \* user events sent to the event loop and not yet handled
    main,      \* where the main thread is
    pending,   \* AppState::pending_frame, 0 for None
    redraw,    \* a RedrawRequested event is due
    drawn,     \* the last frame given to present_frame
    surface    \* the renderer's swap chain

decoding  == <<net, decoded, chan, accepted>>
rendering == <<main, pending, redraw, drawn, surface>>
vars      == <<mode, token, decoding, wakeups, rendering>>

Frames == 1..MaxFrames

\* run has returned and frame_rx is dropped.
LoopEnded == main \in {"closed", "joining", "ended"}

Init ==
    /\ mode \in Modes /\ token = FALSE
    /\ net = "connecting" /\ decoded = 0 /\ chan = <<>> /\ accepted = 0
    /\ wakeups = 0
    /\ main = "starting" /\ pending = 0 /\ redraw = FALSE /\ drawn = 0
    /\ surface = "none"

\* The task that waits for Ctrl+C lives as long as the network thread's runtime.
CtrlC ==
    /\ net # "ended" /\ ~ token
    /\ token' = TRUE
    /\ UNCHANGED <<mode, decoding, wakeups, rendering>>
-----------------------------------------------------------------------------
(* The network thread *)

GoTo(where) ==
    /\ net' \in where
    /\ UNCHANGED <<mode, token, decoded, chan, accepted, wakeups, rendering>>

\* Where an attempt that failed leads: pairing has no second one, otherwise the
\* thread waits to reconnect, or gives up.
AfterFailure == IF mode = "pair" \/ token THEN {"ended"} ELSE {"waiting", "ended"}

\* Where an attempt leads whose receive loop returned Ok.
AfterSession == IF mode = "pair" \/ token THEN {"ended"} ELSE {"waiting"}

Connect == net = "connecting" /\ GoTo({IF mode = "pair" THEN "prompting" ELSE "setup"})
ConnectFails == net = "connecting" /\ GoTo(AfterFailure)

\* Only the normal mode selects on the token while it connects.
CancelConnect == net = "connecting" /\ mode = "normal" /\ token /\ GoTo({"ended"})

\* read_line blocks the thread until the user types the PIN.
EnterPin == net = "prompting" /\ GoTo({"setup", "ended"})

\* open_control, then pairing or authentication.
Setup == net = "setup" /\ GoTo({"handshake"})
SetupFails == net = "setup" /\ GoTo(AfterFailure)

\* The host's answer is a codec for which there is a decoder.
Handshake == net = "handshake" /\ GoTo({"receiving"})

\* Another answer, or none, or no decoder.
HandshakeFails == net = "handshake" /\ GoTo(AfterFailure)

StopReceiving == net = "receiving" /\ token /\ GoTo(AfterSession)
SessionLost == net = "receiving" /\ GoTo(AfterFailure)

\* The mutant checks the channel's limit too late.
Dispatch_mut ==
    /\ net = "receiving" /\ decoded < MaxFrames
    /\ decoded' = decoded + 1
    /\ \/ /\ LoopEnded
          /\ net' \in AfterSession
          /\ UNCHANGED <<chan, accepted>>
       \/ /\ ~ LoopEnded /\ Len(chan) <= FRAME_CHANNEL_CAPACITY
          /\ chan' = Append(chan, decoded') /\ accepted' = decoded'
          /\ net' = "notifying"
    /\ UNCHANGED <<mode, token, wakeups, rendering>>

\* A frame is decoded and try_send never waits: the frame is queued, is dropped
\* because the channel is full, or finds the renderer gone.
Dispatch ==
    /\ net = "receiving" /\ decoded < MaxFrames
    /\ decoded' = decoded + 1
    /\ \/ /\ LoopEnded
          /\ net' \in AfterSession
          /\ UNCHANGED <<chan, accepted>>
       \/ /\ ~ LoopEnded /\ Len(chan) < FRAME_CHANNEL_CAPACITY
          /\ chan' = Append(chan, decoded') /\ accepted' = decoded'
          /\ net' = "notifying"
       \/ /\ ~ LoopEnded /\ Len(chan) = FRAME_CHANNEL_CAPACITY
          /\ UNCHANGED <<net, chan, accepted>>
    /\ UNCHANGED <<mode, token, wakeups, rendering>>

\* FrameNotifier::notify; a loop that has ended ignores it.
Notify_mut ==
    /\ net = "notifying"
    /\ net' = "receiving"
    /\ wakeups' = IF main = "idle" THEN 1 ELSE wakeups
    /\ UNCHANGED <<mode, token, decoded, chan, accepted, rendering>>
Notify ==
    /\ net = "notifying"
    /\ net' = "receiving"
    /\ wakeups' = IF LoopEnded THEN wakeups ELSE wakeups + 1
    /\ UNCHANGED <<mode, token, decoded, chan, accepted, rendering>>

\* The backoff elapses, or the token is cancelled first.
Retry == net = "waiting" /\ GoTo({IF token THEN "ended" ELSE "connecting"})
-----------------------------------------------------------------------------
(* The main thread *)

\* Surface::configure, for a new renderer or a new size.
configure == surface' = "configured"

\* resumed creates the window and the renderer.
Resume ==
    /\ main = "starting"
    /\ main' = "idle" /\ configure
    /\ UNCHANGED <<mode, token, decoding, wakeups, pending, redraw, drawn>>

\* The window is closed, or could not be created: run returns and drops AppState,
\* frame_rx and the frames in the channel with it.
Close ==
    /\ main \in {"starting", "idle"}
    /\ main' = "closed" /\ chan' = <<>> /\ wakeups' = 0
    /\ pending' = 0 /\ redraw' = FALSE /\ surface' = "none"
    /\ UNCHANGED <<mode, token, net, decoded, accepted, drawn>>

\* user_event: drain the channel, then ask for a redraw.
TakeWakeup ==
    /\ main = "idle" /\ wakeups > 0
    /\ main' = "draining" /\ wakeups' = wakeups - 1
    /\ UNCHANGED <<mode, token, decoding, pending, redraw, drawn, surface>>

DrainOne ==
    /\ main = "draining" /\ chan # <<>>
    /\ pending' = Head(chan) /\ chan' = Tail(chan)
    /\ UNCHANGED <<mode, token, net, decoded, accepted, wakeups, main, redraw, drawn,
                   surface>>

DrainDone_mut ==
    /\ main = "draining" /\ chan = <<>>
    /\ main' = "idle"
    /\ UNCHANGED redraw
    /\ UNCHANGED <<mode, token, decoding, wakeups, pending, drawn, surface>>
DrainDone ==
    /\ main = "draining" /\ chan = <<>>
    /\ main' = "idle"
    /\ redraw' = (redraw \/ pending # 0)
    /\ UNCHANGED <<mode, token, decoding, wakeups, pending, drawn, surface>>

\* What acquiring the next texture of the swap chain, and drawing to it, may return.
present_to_surface ==
    IF surface = "outdated" THEN {"Lost", "Outdated"} ELSE {"Ok", "Timeout", "OutOfMemory"}

surface_error_to_render_error_mut(e) == IF e = "Lost" THEN "SurfaceLost" ELSE e
surface_error_to_render_error(e) == IF e \in {"Lost", "Outdated"} THEN "SurfaceLost" ELSE e

present_frame == {surface_error_to_render_error(e) : e \in present_to_surface}

\* The mutant presents the pending frame and does not take it.
render_mut ==
    IF pending = 0 THEN UNCHANGED <<pending, drawn, surface>>
    ELSE /\ drawn' = pending /\ UNCHANGED pending
         /\ \E result \in present_frame :
               IF result = "SurfaceLost" THEN configure ELSE UNCHANGED surface

\* The pending frame, if there is one, is taken and presented.  A surface that is
\* lost is configured again, but the frame is gone; other errors are ignored.
render ==
    IF pending = 0 THEN UNCHANGED <<pending, drawn, surface>>
    ELSE /\ pending' = 0 /\ drawn' = pending
         /\ \E result \in present_frame :
               IF result = "SurfaceLost" THEN configure ELSE UNCHANGED surface

Redraw ==
    /\ main = "idle" /\ redraw
    /\ redraw' = FALSE /\ render
    /\ UNCHANGED <<mode, token, decoding, wakeups, main>>

\* The window is resized or moved, or the display sleeps: the swap chain no longer
\* fits, and stays so until it is configured.
LoseSurface ==
    /\ surface = "configured" /\ surface' = "outdated"
    /\ UNCHANGED <<mode, token, decoding, wakeups, main, pending, redraw, drawn>>

\* WindowEvent::Resized
Resized ==
    /\ main = "idle" /\ configure
    /\ UNCHANGED <<mode, token, decoding, wakeups, main, pending, redraw, drawn>>

\* The system asks for a redraw (exposure, resize).
Expose ==
    /\ main = "idle" /\ ~ redraw
    /\ redraw' = TRUE
    /\ UNCHANGED <<mode, token, decoding, wakeups, main, pending, drawn, surface>>

\* main, after run: cancel the token, then join the network thread.
Cancel_mut ==
    /\ main = "closed"
    /\ main' = "joining"
    /\ UNCHANGED <<mode, token, decoding, wakeups, pending, redraw, drawn, surface>>
Cancel ==
    /\ main = "closed"
    /\ main' = "joining" /\ token' = TRUE
    /\ UNCHANGED <<mode, decoding, wakeups, pending, redraw, drawn, surface>>

Join ==
    /\ main = "joining" /\ net = "ended"
    /\ main' = "ended"
    /\ UNCHANGED <<mode, token, decoding, wakeups, pending, redraw, drawn, surface>>
-----------------------------------------------------------------------------
ConnectStep == Connect \/ ConnectFails \/ CancelConnect
SetupStep   == Setup \/ SetupFails \/ Handshake \/ HandshakeFails
LoopStep    == TakeWakeup \/ DrainOne \/ DrainDone \/ Redraw
ExitStep    == Cancel \/ Join

Next == CtrlC \/ ConnectStep \/ EnterPin \/ SetupStep \/ StopReceiving \/ SessionLost
        \/ Dispatch \/ Notify \/ Retry
        \/ Resume \/ Close \/ LoopStep \/ Expose \/ LoseSurface \/ Resized \/ ExitStep

Spec == Init /\ [][Next]_vars

(***************************************************************************)
(* Fairness.  Both threads run.  connect and the setup end by their own    *)
(* result or by QUIC's idle timeout; a backoff elapses.  select! in the    *)
(* receive loop starts at a random branch, so a cancelled token is seen    *)
(* even when packets keep coming.  winit handles every user event and      *)
(* every redraw it was asked for, whatever else it has to do.  Nothing is  *)
(* assumed of the user or of the host.                                     *)
(***************************************************************************)
Fairness ==
    /\ WF_vars(ConnectStep) /\ WF_vars(SetupStep) /\ WF_vars(Retry) /\ WF_vars(Notify)
    /\ SF_vars(StopReceiving)
    /\ WF_vars(Resume) /\ SF_vars(TakeWakeup) /\ WF_vars(DrainOne) /\ WF_vars(DrainDone)
    /\ SF_vars(Redraw) /\ WF_vars(ExitStep)

FairSpec == Spec /\ Fairness
-----------------------------------------------------------------------------
(* Properties *)

\* Every variable keeps its type; the channel never exceeds its capacity, and there
\* is a renderer while the event loop runs.
TypeOK ==
    /\ mode \in Modes /\ token \in BOOLEAN
    /\ net \in {"connecting", "prompting", "setup", "handshake", "receiving", "notifying",
               "waiting", "ended"}
    /\ decoded \in 0..MaxFrames /\ accepted \in 0..MaxFrames
    /\ chan \in Seq(Frames) /\ Len(chan) <= FRAME_CHANNEL_CAPACITY
    /\ wakeups \in 0..MaxFrames
    /\ main \in {"starting", "idle", "draining", "closed", "joining", "ended"}
    /\ pending \in 0..MaxFrames /\ redraw \in BOOLEAN /\ drawn \in 0..MaxFrames
    /\ surface \in {"none", "configured", "outdated"}
    /\ surface # "none" <=> main \in {"idle", "draining"}

\* The event loop never sleeps on a frame: as long as one is queued, a user event
\* is on its way or the network thread is about to send it.
NoLostWakeup ==
    chan # <<>> /\ main \in {"starting", "idle"} => wakeups > 0 \/ net = "notifying"

\* Draining skips frames but never the newest: the newest frame the channel ever
\* took is the last in the channel, or is pending, or has been drawn.
NewestAcceptedKept ==
    ~ LoopEnded =>
        accepted = IF chan # <<>> THEN chan[Len(chan)]
                   ELSE IF pending # 0 THEN pending ELSE drawn

\* The frames that are on their way to the screen: in the channel, or pending.
Waiting == {chan[i] : i \in 1..Len(chan)} \cup ({pending} \ {0})

Mailbox ==
    INSTANCE FrameMailbox
    WITH Capacity <- FRAME_CHANNEL_CAPACITY,
         offered <- decoded, waiting <- Waiting, shown <- drawn, closed <- LoopEnded

\* The pipeline is such a mailbox: a decoded frame is dropped only when the channel is
\* full, a queued one only when a newer one takes its place, and what is drawn is drawn
\* once and in order, however the two threads interleave.
RefinesMailbox == Mailbox!MailboxSpec

\* A queued frame, or a newer one, is drawn, unless the window is closed.
QueuedFrameDrawn ==
    \A f \in Frames : (accepted = f) ~> (drawn >= f \/ LoopEnded)

\* A surface that is lost does not stay so: the next frame that is queued brings it
\* back, also if no Resized event ever comes.
SurfaceRecovers ==
    \A f \in Frames :
        (surface = "outdated" /\ accepted = f /\ drawn < f) ~> (surface # "outdated")

\* The steps that take the network thread closer to its end; they form no cycle.
Onward ==
    {<<"connecting", "prompting">>, <<"connecting", "setup">>, <<"prompting", "setup">>,
     <<"setup", "handshake">>, <<"handshake", "receiving">>, <<"notifying", "receiving">>}
        \cup {"connecting", "prompting", "setup", "handshake", "receiving", "waiting"}
                 \X {"ended"}

\* The thread that main joins is on its way out: it finishes the attempt that it is in,
\* but starts no other, queues no further frame and waits for no backoff.
JoinedThreadWindsDown ==
    [][main = "joining" /\ net' # net => <<net, net'>> \in Onward]_vars

\* Once the window is closed the process ends, whatever the network thread is
\* doing, provided a user who is asked for the PIN types it.
ClosedWindowEndsProcess ==
    []<>(net # "prompting") => ((main = "closed") ~> (main = "ended"))

\* "Keeping this small (2) ensures the renderer always works on the most recent
\* frame" (client_main.rs): the last frame decoded is drawn in the end.
NewestDecodedDrawn ==
    \A f \in Frames : (decoded = f) ~> (drawn = f \/ decoded > f \/ LoopEnded)
=============================================================================
