----------------------------- MODULE HostSession -----------------------------
(***************************************************************************)
(* The RayHost process as a streaming server: the accept loop              *)
(* (serve_with_handler) that handles one client at a time, and for each    *)
(* client an async send loop (run_send_loop) and a blocking encode thread  *)
(* (drive_encode_loop, drive_zero_copy_encode_loop) joined by a bounded    *)
(* channel, under Ctrl+C, lost connections and failing devices.            *)
(*                                                                         *)
(* Abstractions.  Authentication or pairing is one phase, "setup", and the *)
(* construction of the pipeline with host_handshake another, "pipeline";   *)
(* each ends in success or failure.  Between them the generic pipeline, as *)
(* built for macOS, may wait for the permission to record the screen.      *)
(* Encoded packets are numbered modulo Cycle, which is enough to tell a    *)
(* gap or a swap from the next packet and keeps the state space finite     *)
(* although a session streams without end.                                 *)
(***************************************************************************)
EXTENDS Naturals, Sequences

CONSTANTS
    ENCODE_CHANNEL_CAPACITY,  \* packets the channel holds
    Paths                     \* the pipelines configured: "generic", "zero_copy"

ASSUME HostAssumption ==
    /\ ENCODE_CHANNEL_CAPACITY \in Nat \ {0}
    /\ Paths \subseteq {"generic", "zero_copy"}

VARIABLES
    path,       \* the pipeline this host uses (HostConfig::pipeline_mode)
    cancelled,  \* the CancellationToken
    phase,      \* where the accept task is
    link,       \* the client's QUIC connection: "none", "up" or "lost"
    worker,     \* where the encode thread is
    item,       \* what it is about to send on packet_tx
    next,       \* the number of the next packet the encoder emits
    queue,      \* the channel between packet_tx and packet_rx
    rx_open,    \* packet_rx has not been dropped
    held,       \* the thread holds a DXGI frame (FrameGuard)
    last        \* the last packet given to send_video on this session

task   == <<phase, link, rx_open, last>>
thread == <<worker, item, next, held>>
vars   == <<path, cancelled, task, thread, queue>>

Cycle   == ENCODE_CHANNEL_CAPACITY + 3
Packets == 0..(Cycle - 1)
Err     == Cycle     \* an Err item: the capture or the encoder failed
Succ(n) == IF n = Cycle - 1 THEN 0 ELSE n + 1

Phases  == {"accepting", "setup", "permission", "pipeline", "streaming", "joining", "returned"}
Workers == {"none", "capturing", "encoding", "sending", "exited"}

Init ==
    /\ path \in Paths
    /\ cancelled = FALSE
    /\ phase = "accepting" /\ link = "none" /\ rx_open = FALSE /\ last = Cycle - 1
    /\ worker = "none" /\ item = Err /\ next = 0 /\ held = FALSE
    /\ queue = <<>>

\* Ctrl+C.
Cancel ==
    /\ ~ cancelled
    /\ cancelled' = TRUE
    /\ UNCHANGED <<path, task, thread, queue>>

\* The client vanishes, closes the connection, or is idle for too long.
LoseLink ==
    /\ link = "up"
    /\ link' = "lost"
    /\ UNCHANGED <<path, cancelled, phase, rx_open, last, thread, queue>>
-----------------------------------------------------------------------------
(* The accept loop.  tokio::select! takes any branch that is ready, so a     *)
(* client may still be accepted when the token is already cancelled.         *)

Accept ==
    /\ phase = "accepting"
    /\ phase' = "setup" /\ link' = "up"
    /\ UNCHANGED <<path, cancelled, rx_open, last, thread, queue>>

\* The token is cancelled while waiting for a client, or accept fails then.
StopAccepting ==
    /\ phase = "accepting" /\ cancelled
    /\ phase' = "returned"
    /\ UNCHANGED <<path, cancelled, link, rx_open, last, thread, queue>>

\* The client is trusted or has paired.  What comes next is the pipeline; on macOS,
\* without the permission to record the screen, it is a wait for that permission.
Authenticated ==
    /\ phase = "setup" /\ link = "up"
    /\ \/ phase' = "pipeline"
       \/ path = "generic" /\ phase' = "permission"
    /\ UNCHANGED <<path, cancelled, link, rx_open, last, thread, queue>>

\* wait_for_screen_recording_permission: the user grants it.  The wait looks at
\* neither the token nor the connection and has no end of its own.
PermissionGranted ==
    /\ phase = "permission"
    /\ phase' = "pipeline"
    /\ UNCHANGED <<path, cancelled, link, rx_open, last, thread, queue>>

\* Authentication, the pipeline or the handshake fails; nothing here looks at
\* the token.
SetupFails ==
    /\ phase \in {"setup", "pipeline"}
    /\ phase' = "accepting" /\ link' = "none"
    /\ UNCHANGED <<path, cancelled, rx_open, last, thread, queue>>

\* stream_with_pipeline: make the channel and start the encode thread.
StartStreaming ==
    /\ phase = "pipeline" /\ link = "up"
    /\ phase' = "streaming" /\ rx_open' = TRUE /\ last' = Cycle - 1
    /\ worker' = "capturing" /\ item' = Err /\ next' = 0 /\ held' = FALSE
    /\ queue' = <<>>
    /\ UNCHANGED <<path, cancelled, link>>

\* The encode handle resolves once the thread has ended; the connection is
\* closed with its last handle.
Join_mut ==
    /\ phase = "joining"
    /\ phase' = "accepting" /\ link' = "none"
    /\ UNCHANGED <<path, cancelled, rx_open, last, thread, queue>>

Join ==
    /\ phase = "joining" /\ worker = "exited"
    /\ phase' = "accepting" /\ link' = "none"
    /\ worker' = "none"
    /\ UNCHANGED <<path, cancelled, rx_open, last, item, next, held, queue>>
-----------------------------------------------------------------------------
(* run_send_loop *)

\* The loop ends and packet_rx is dropped, with whatever was in it.
LeaveLoop_mut ==
    /\ phase' = "joining"
    /\ UNCHANGED <<rx_open, queue>>

LeaveLoop ==
    /\ phase' = "joining"
    /\ rx_open' = FALSE /\ queue' = <<>>

StopOnCancel ==
    /\ phase = "streaming" /\ cancelled
    /\ LeaveLoop
    /\ UNCHANGED <<path, cancelled, link, last, thread>>

\* packet_rx yields a packet and send_video takes it.
SendPacket ==
    /\ phase = "streaming" /\ queue # <<>> /\ Head(queue) # Err
    /\ link = "up"
    /\ last' = Head(queue)
    /\ queue' = Tail(queue)
    /\ UNCHANGED <<path, cancelled, phase, link, rx_open, thread>>

\* A failure to send is only logged.
SendFails_mut ==
    /\ phase = "streaming" /\ queue # <<>> /\ Head(queue) # Err
    /\ last' = Head(queue)
    /\ queue' = Tail(queue)
    /\ UNCHANGED <<path, cancelled, phase, link, rx_open, thread>>

\* send_video fails: the connection is lost or refuses a datagram.
SendFails ==
    /\ phase = "streaming" /\ queue # <<>> /\ Head(queue) # Err
    /\ LeaveLoop
    /\ UNCHANGED <<path, cancelled, link, last, thread>>

\* packet_rx yields the thread's error.
ReceiveError ==
    /\ phase = "streaming" /\ queue # <<>> /\ Head(queue) = Err
    /\ LeaveLoop
    /\ UNCHANGED <<path, cancelled, link, last, thread>>

\* The thread has panicked, packet_tx is dropped and the channel is drained.
ChannelDrained ==
    /\ phase = "streaming" /\ queue = <<>> /\ worker = "exited"
    /\ LeaveLoop
    /\ UNCHANGED <<path, cancelled, link, last, thread>>
-----------------------------------------------------------------------------
(* drive_encode_loop and drive_zero_copy_encode_loop *)

\* The thread goes round its loop, or returns; either drops the FrameGuard.
GoTo_mut(where) == worker' = where /\ UNCHANGED held
GoTo(where) == worker' = where /\ held' = FALSE

CaptureFrame ==
    /\ worker = "capturing"
    /\ worker' = "encoding"
    /\ held' = (path = "zero_copy")
    /\ UNCHANGED <<path, cancelled, task, item, next, queue>>

\* Nothing new on the screen within acquire_timeout_ms.
CaptureTimeout_mut ==
    /\ worker = "capturing"
    /\ UNCHANGED vars

CaptureTimeout ==
    /\ worker = "capturing"
    /\ GoTo(IF rx_open THEN "capturing" ELSE "exited")
    /\ UNCHANGED <<path, cancelled, task, item, next, queue>>

CaptureFails ==
    /\ worker = "capturing"
    /\ worker' = "sending" /\ item' = Err
    /\ UNCHANGED <<path, cancelled, task, next, held, queue>>

EncodePacket ==
    /\ worker = "encoding"
    /\ worker' = "sending" /\ item' = next /\ next' = Succ(next)
    /\ UNCHANGED <<path, cancelled, task, held, queue>>

\* The encoder buffers the frame.
EncodeNone ==
    /\ worker = "encoding"
    /\ GoTo("capturing")
    /\ UNCHANGED <<path, cancelled, task, item, next, queue>>

EncodeFails ==
    /\ worker = "encoding"
    /\ worker' = "sending" /\ item' = Err
    /\ UNCHANGED <<path, cancelled, task, next, held, queue>>

\* capture_frame, acquire_texture or encode panics; unwinding drops packet_tx and
\* the FrameGuard.
Panic ==
    /\ worker \in {"capturing", "encoding"}
    /\ GoTo("exited")
    /\ UNCHANGED <<path, cancelled, task, item, next, queue>>

\* A channel without a bound, and one that drops what does not fit.
BlockingSend_mut2 ==
    /\ worker = "sending" /\ rx_open
    /\ queue' = Append(queue, item)
    /\ GoTo(IF item = Err THEN "exited" ELSE "capturing")
    /\ UNCHANGED <<path, cancelled, task, item, next>>
BlockingSend_mut ==
    /\ worker = "sending" /\ rx_open
    /\ queue' = IF Len(queue) < ENCODE_CHANNEL_CAPACITY THEN Append(queue, item) ELSE queue
    /\ GoTo(IF item = Err THEN "exited" ELSE "capturing")
    /\ UNCHANGED <<path, cancelled, task, item, next>>

\* blocking_send waits for a place in the channel.
BlockingSend ==
    /\ worker = "sending" /\ rx_open
    /\ Len(queue) < ENCODE_CHANNEL_CAPACITY
    /\ queue' = Append(queue, item)
    /\ GoTo(IF item = Err THEN "exited" ELSE "capturing")
    /\ UNCHANGED <<path, cancelled, task, item, next>>

\* blocking_send fails: packet_rx is gone.
SendRefused ==
    /\ worker = "sending" /\ ~ rx_open
    /\ GoTo("exited")
    /\ UNCHANGED <<path, cancelled, task, item, next, queue>>
-----------------------------------------------------------------------------
SetupStep   == Authenticated \/ StartStreaming \/ SetupFails
TaskStep    == StopAccepting \/ Join \/ SendPacket \/ SendFails \/ ReceiveError \/ ChannelDrained
CaptureStep == CaptureFrame \/ CaptureTimeout \/ CaptureFails
EncodeStep  == EncodePacket \/ EncodeNone \/ EncodeFails
SendStep    == BlockingSend \/ SendRefused
Environment == Cancel \/ LoseLink \/ Accept \/ PermissionGranted \/ Panic

Next == Environment \/ SetupStep \/ TaskStep \/ StopOnCancel
        \/ CaptureStep \/ EncodeStep \/ SendStep

Spec == Init /\ [][Next]_vars

(***************************************************************************)
(* Fairness.  The accept task and the encode thread run (tokio and the OS  *)
(* schedule them, and capture_frame returns within its timeout).  A select *)
(* whose token is cancelled takes that branch sooner or later, even if     *)
(* another one is ready whenever it looks: select! starts at a random      *)
(* branch.  Authentication and host_handshake end, by QUIC's idle timeout  *)
(* if nothing else; the wait for the permission need not.  Nothing is      *)
(* assumed of the screen, of the encoder's output, of the client or of the *)
(* user.                                                                   *)
(***************************************************************************)
Fairness ==
    /\ WF_vars(TaskStep) /\ WF_vars(SetupStep)
    /\ WF_vars(CaptureTimeout) /\ WF_vars(EncodeStep) /\ WF_vars(SendStep)
    /\ WF_vars(StopOnCancel) /\ SF_vars(StopAccepting)

FairSpec == Spec /\ Fairness
-----------------------------------------------------------------------------
(* Properties *)

\* Every variable keeps its type; the channel never exceeds its capacity.
TypeOK ==
    /\ path \in Paths /\ cancelled \in BOOLEAN
    /\ phase \in Phases /\ link \in {"none", "up", "lost"} /\ rx_open \in BOOLEAN
    /\ last \in Packets
    /\ worker \in Workers /\ item \in Packets \cup {Err} /\ next \in Packets
    /\ held \in BOOLEAN
    /\ queue \in Seq(Packets \cup {Err}) /\ Len(queue) <= ENCODE_CHANNEL_CAPACITY

\* A session's encode thread is over before the next client is accepted and
\* before serve returns, so two threads never capture the same display.
OneEncodeThread == phase \notin {"streaming", "joining"} => worker = "none"

\* What has been encoded and not yet sent: the channel, then the thread's item.
Backlog == queue \o (IF worker = "sending" THEN <<item>> ELSE <<>>)

\* While a session streams, the encoder's packets reach send_video in order and
\* without a gap (each depends on the ones before it), and an error comes after
\* every packet encoded before it and is the last thing to come.
PacketsInOrder ==
    phase = "streaming" =>
        \A i \in 1..Len(Backlog) :
            IF Backlog[i] = Err
            THEN i = Len(Backlog) /\ worker \in {"sending", "exited"}
            ELSE Backlog[i] = Succ(IF i = 1 THEN last ELSE Backlog[i - 1])

\* The thread has given its DXGI frame back whenever it asks for the next one
\* and when it is over: a frame that is kept makes every later acquire fail.
FrameReleased == worker \in {"none", "capturing", "exited"} => ~ held

\* The accept task and the encode thread never wait for each other: when the thread is
\* blocked on the full channel its send loop is at work, not waiting for the thread.
NoMutualWait ==
    worker = "sending" /\ rx_open /\ Len(queue) = ENCODE_CHANNEL_CAPACITY
        => phase = "streaming"

\* Two premises, without which the code does hang.  wait_for_screen_recording_permission
\* polls until the user grants the permission; and a thread whose encoder buffers
\* every frame neither sends nor times out, so it never learns that packet_rx is gone.
NoEndlessWait ==
    /\ []<>(phase # "permission")
    /\ []<>(worker = "encoding") => []<>(worker \notin {"capturing", "encoding"})

\* After Ctrl+C the server returns, whatever the client and the screen are doing and
\* in whatever phase a session is, but for the two premises.
ShutdownCompletes == NoEndlessWait => (cancelled ~> (phase = "returned"))

\* When the display keeps changing, a client that is gone is noticed and the
\* host waits for the next one (under the same premises).
GoneClientNoticedWhenBusy ==
    NoEndlessWait /\ []<>(worker = "encoding" \/ phase # "streaming") =>
        ((link = "lost") ~> (phase \in {"accepting", "returned"}))

\* The same whatever the display does: "If the peer stops responding, the
\* session is considered lost.  On the host side, this triggers cleanup and
\* return to the accept loop" (ADR-010, section 5).
GoneClientNoticed ==
    NoEndlessWait => ((link = "lost") ~> (phase \in {"accepting", "returned"}))
=============================================================================
