# RayPlay in TLA+

RayPlay streams a screen from a host (`rayhost`) to a client (`rayview`) over QUIC. This
directory models the parts of it in which concurrency, loss, failure and time matter, checks them
with TLC on small instances, and proves with TLAPS, for every value of the constants, the safety
properties that the runs check and that three of the modules implement abstract specifications.

## The system

| Component | State | Operations | Talks to |
|---|---|---|---|
| Video transport (`rayplay-network`: fragmenter, wire, reassembler, transport) | the next frame_id; the table of incomplete frames | `send_video`, `recv_video`, `ingest`, eviction | QUIC datagrams |
| Host session (`rayplay-cli/src/host.rs`, `main.rs`) | the cancellation token; per session a channel of 4 packets and an encode thread | accept, set up, capture, encode, send, join, Ctrl+C | transport, capturer, encoder, pairing |
| Client pipeline (`client_main.rs`, `client/receive.rs`, `client/decode_dispatch.rs`, `frame_notifier.rs`, `render_window.rs`, `wgpu_surface.rs`) | a channel of 2 frames, pending wakeups, the frame to draw, the swap chain, the token | decode and queue, notify, drain, redraw, resize, close, Ctrl+C | transport, decoder, winit, wgpu |
| Reconnect loop (`client/connect.rs`) | backoff, time of the first failure | connect, retry, give up, cancel | transport, client pipeline |
| Pairing and trust (`pairing.rs`, `host_pairing_glue.rs`, `trust_store.rs`, `client_key_store.rs`, `server_cert_store.rs`) | the trust database in memory and on disk, the client's key and certificates on disk | pair by PIN, authenticate by signature, load, save | control stream, files, user |
| Codec handshake (`handshake.rs`, `host_pairing_glue.rs`) | none that lasts | one request and answer | control stream, both pipelines |
| Keepalive (`keepalive.rs`) | two loops, a sleep and a timeout; nothing starts them yet | ping, ack, time out, cancel | control stream |
| Windows pipeline (`host_pairing_glue.rs`, `dxgi_capture.rs`, `d3d11_device.rs`, `nvenc.rs`) | the desktop duplication and its pending texture, the NVENC session, its registered and mapped textures, `frame_index` | set up, acquire, encode, release, drop | D3D11, NVENC driver, host session |
| VideoToolbox decoder (`videotoolbox.rs`, `decoded_frame.rs`) | the decompression session, its format, references to Core Foundation objects | make a session from a keyframe, decode, drop | VideoToolbox, renderer |
| Generic pipeline (`encoder.rs`, `ffmpeg_enc.rs`, `openh264_enc.rs`, `decoder.rs`, `ffmpeg_dec.rs`, `openh264_dec.rs`) | the encoder's `frame_index` and keyframe interval, the library's own state | choose a codec, encode, force keyframes, decode | FFmpeg, openh264, host session |
| Other capture back ends, renderer (`rayplay-video`) | device sessions, GPU resources | capture, present | operating system, libraries |

They meet as follows. `serve` hands every accepted connection to `authenticate_and_stream`, which
pairs or authenticates on the control stream, negotiates the codec, and then runs the send loop and
the encode thread over one `VideoTransport`. On the client the network thread runs
`connect_with_reconnect`, each attempt of which authenticates, negotiates, and then receives,
decodes and queues frames for the event loop on the main thread. The components share nothing but
channels, the connection and the cancellation token, which is why each has a module of its own and
sees the others as outcomes (a connection that is lost, a set-up that succeeds or fails).

What is hard, and hard to test:

* datagrams are lost and overtake each other while the reassembler must bound its memory;
* an async task and a blocking thread, joined by a full or empty channel, must end together;
* a sleeping event loop must not miss a frame that another thread queues;
* cancellation arrives in any phase of a loop of connecting, streaming and sleeping;
* either side crashes between trusting, telling and saving;
* a call into a driver fails between acquiring and releasing what must be released by hand;
* pictures build on one another, and lost ones are never asked for again;
* a timeout races a message that is on its way, and a loop waits in a send for a peer that does not read;
* which codec is spoken depends on how two programs were built, and only one of them decides.

`PROJECT.json` lists these hazards line by line with the properties aimed at them.

## Modules

| Module | Models | Correspondence |
|---|---|---|
| `VideoChannel` | what the video path promises: packets may be lost or reordered, never merged, invented or repeated, and their data and keyframe flag arrive as they were sent (their timestamps do not, see below) | abstract specification |
| `VideoTransport` | fragmenter, datagrams, reassembler, transport | `SendVideo` is one call of `send_video`, which may fail after some datagrams; `RecvVideo` is one turn of the loop of `recv_video`: window eviction, then `ingest`; `Lose` and `Close` are QUIC's |
| `HostSession` | accept loop, send loop, encode thread (generic and zero-copy), channel, token | one action per branch of each `select!` and `match`; a blocking send is enabled when it would return |
| `FrameMailbox` | what the client promises between decoder and screen: frames are shown once and in order, refused only when as many wait as the channel holds, lost only to a newer one | abstract specification |
| `ClientPipeline` | network thread, frame channel, user events, event loop, swap chain, shutdown | `Dispatch` and `Notify` are two steps because another thread can run between them; so are the turns of the draining loop |
| `Reconnect` | `connect_with_reconnect` around `connect_with_handler`, with a clock | one action per outcome of an attempt; `Tick` lets time pass in the phases that wait |
| `HostTrust` | what pairing promises of hosts: trust comes from a PIN or from a file saved whole, a session belongs to one trusted key | abstract specification; who starts, saves and crashes is in it, connections and messages are not |
| `Pairing` | pairing and authentication, trust database, the three files, restarts | one action per message received (with the reply it triggers) and per file written |
| `NvencEncoder` | the zero-copy pipeline of a Windows host and the objects it owns: duplication, texture, NVENC session | one action per place where a call returns; `Drop` is what the drops of encoder, capturer and device do together |
| `VtDecoder` | `decode` with the reference counts of the objects it makes, and the frames' drops | one action per return; `refs` counts references by kind of object |
| `PicturePath` | what loss and overtaking do to a sequence of packets | used by the next two |
| `VideoStream` | `NvencEncoder` and `VtDecoder` (by `INSTANCE`) joined by a path that loses and reorders packets | `Send`, `Lose`, `Overtake` stand for what `VideoTransport` does to whole packets; the client's actions are the turns of `run_receive_loop` |
| `GenericStream` | the pipeline that encodes on the CPU, for every build of host and client | one action per outcome of `encode` and `decode`, of making encoder and decoder, and of the handshake |
| `HostPipelines` | `VideoStream` and `GenericStream` (by `INSTANCE ... WITH`) as the two branches of `stream_with_handshake` | `pipeline` is the host's platform and mode, which never change |
| `Keepalive` | `run_keepalive_sender` and `run_keepalive_responder` with a clock, their tokens and the stream between them | one action per branch of each `select!` and `match`; whoever runs the loops, reads the acks and closes is the environment |
| `MC...` | the instances that TLC checks | |
| `...Proofs` | theorems and their proofs | each extends its component's module |

Abstractions that matter:

* A chunk of a packet is the pair of the packet's number and its own index, so a chunk in the wrong
  frame or place is seen. An empty packet sends nothing and is left out.
* The host's packets are numbered modulo capacity + 3, enough to tell a gap or a swap; the state
  space is then finite although sessions stream for ever.
* In `Pairing` the PIN exchange succeeds exactly if the user typed the PIN that the host shows, and a
  signature names its key. A connection that ends may or may not take along unread messages. A
  certificate or a trust file cut short cannot be used, a key file cut short stops the client (`BadKey`),
  and a client that finds no key file at all goes on without one: that is a client started with `--cert`
  and a copy of the host's certificate (`ConnectWithoutKey`), as a client that has paired has its key.
  The retry of a client is a new connection with the same files.
* In `HostSession` authentication, the wait for macOS's permission to record the screen, and the making
  of the pipeline are three phases. The first and the last end by themselves. The second ends when the user
  grants the permission, and heeds neither the token nor the connection.
* In `VideoStream` a packet is its place in the group of pictures, and whether its predecessor is
  delivered just before it: that is all a decoder's picture depends on. `frame_index` is kept modulo the
  group's length. The variables `intact`, `run` and `last` record what was delivered; no step depends on
  them. Parameter sets and NAL units are abstracted to whether a keyframe's are usable. A call
  of `encode` is two actions: the texture is registered and mapped, then the picture is encoded, its
  output locked and copied, and the texture unmapped, on each way the call returns. Nothing else can
  reach the session meanwhile; what each failing call leaves behind is told apart.
* In `VideoTransport` the variable `network` says which of two networks the datagrams travel over: one
  that loses and reorders them at will, or an orderly one that loses nothing and overtakes by less than
  the window. `AllDelivered` is about the second.
* In `GenericStream` the libraries are nondeterministic within their contracts: FFmpeg codes a keyframe at
  the latest after `gop` pictures and holds back up to `MaxHeld`; openh264 codes one when it is asked and may
  skip pictures. `frame_index` is kept up to the interval; `since` is the library's place in the group.
  How many pictures FFmpeg holds never falls: `encode` receives at most one for each one it sends.
  Pixels, sizes and bitrates are left out; a picture of another size is one way in which `encode` fails.
* In `Keepalive` the variable `quiet` records how long it is since the last sign of life of a sender that
  has stopped; no step depends on it. A message that the responder ignores (`Other`) is one, as it restarts
  the timeout; it can only come from whoever owns the sender's loop, after that has returned.
* Time is discrete in `Keepalive` and `Reconnect`. In `Keepalive` a message arrives within `MaxDelay` and
  no time passes while a loop could do something; how much later the sender starts is `MaxSkew`.
* In `Reconnect` an attempt lasts at most `MaxAttempt` per phase (QUIC's idle
  timeout). Ages are told apart up to `Horizon`, beyond anything the properties ask.

In every module an operator whose name ends in `_mut` (or `_mut2`) is a plausible slip in the
definition that follows it. No specification uses it; it serves to show that the property named for
it in `PROJECT.json` tells the slip from the code.

## Runs

| Run | Instance | Shows |
|---|---|---|
| `VideoTransport` | 4 packets of 1 or 2 fragments, capacity 2, both networks | bounded memory, frames evicted only for newer ones or by their age, refinement of `VideoChannel` (integrity, at-most-once delivery) under loss, reordering and failing sends; nothing is dropped when nothing is lost and reordering stays inside the window |
| `HostSession` | channel of 4, both pipelines, any number of sessions | order, no leftover thread or frame, no two threads that wait for each other, shutdown and a gone client noticed while frames flow, unless the host waits for a permission that nobody grants or for an encoder that makes nothing |
| `ClientPipeline` | channel of 2, 5 frames, with and without `--pair` | no lost wakeup, queued frames drawn, once and in order, and dropped only when the channel is full or for a newer one (refinement of `FrameMailbox`), a lost surface configured again, a closed window that ends the process |
| `Reconnect` | backoff 1 to 5, phases up to 3, timeouts none, short, long | when the client gives up; without a timeout its session comes back, whatever failed before; it returns `Ok` whenever it is cancelled |
| `Pairing` | 2 hosts of which one restarts, 1 client, 2 keys or none | only PIN-holders are trusted, both ends agree and never wait for each other, a client that holds a host's present certificate and a key made for it is trusted by it, hosts gain, save and lose trust as in `HostTrust`, no attempt hangs |
| `VideoStream` | both pipelines: 2 textures, groups of 3, 3 packets in flight, 1 frame alive, a driver limit of 2 sessions; rates 1 and 6, `u16::MAX` 5, 1 picture held back | the picture recovers within one group of pictures; every turn of the encode loop ends clean; references are balanced over connections and failures; in the generic pipeline host and client agree on the codec, and half a second of pictures restores the picture |
| `Keepalive` | interval 2, delay 1, skew 1, timeout 5, 2 messages per direction | a peer that is alive is kept at the tightest timeout, one that is gone is noticed within the timeout and one delay of its last sign of life, both loops end when cancelled |

The bounds are small but every interesting case occurs within them: the transport has more packets than
the reassembler has places, so that eviction happens with one frame kept, one dropped and one
arriving, both by window and by capacity; the host's channel has its real size and fills up; the
client decodes more than twice what the channel holds, so frames are queued, dropped when full, and
drained in pairs; a group of
3 pictures has a keyframe and two that depend on it, and as many packets in flight allow each of them to be
lost or overtaken; a rate of 1 makes every picture a keyframe, and 6 is above the `u16::MAX` of the
instance, so that FFmpeg's interval (2) is shorter than the announced half second (3) while openh264's is
as long; 2 + 1 + 1 < 5 leaves `Keepalive` no slack, and a window of 2 fills up in either direction; the
backoff reaches its cap before and after the timeouts; a host in `Pairing` loses its
state once, and a client has two keys, so that a key of the wrong host and of an earlier pairing are
both presented. The theorems have no bound on clients, hosts, keys or starts.

### Where the code does not do what is written

Five runs check a sentence of the documentation or a comment and are expected to find it violated:

* `HostSessionGoneClient` - ADR-010 section 5 promises that a peer that stops responding is noticed.
  Keepalive is not wired in, and a session on a static screen sends nothing, so a client that has gone
  is not noticed until the screen changes; meanwhile nobody else is served.
* `ClientPipelineNewest` - `client_main.rs` says the small channel keeps the renderer on the most
  recent frame. When it is full the most recent frame is what is dropped.
* `ReconnectTimer` - ADR-010 section 6: "Elapsed timer resets on each successful connection". It is
  reset only when the receive loop returns `Ok`, which happens when the client is stopping.
* `PairingRestart` - UC-016: a paired client reconnects without the PIN. The host's certificate is new
  at every start, and the client accepts only the one it saved.
* `PairingSecondHost` - `server_cert_store.rs`: certificates are kept per host so that the client need
  not pair again. The signing key is not: the second pairing overwrites it. What is true, as `PairedKeyIsGood`
  says, is that the host still trusts a client whose key was made to pair with it.

Other disagreements have no run:

* `keepalive.rs:3-5` says that a missing ack within a timeout is a `KeepaliveTimeout`. The sender never reads
  an ack and cannot return that error; only the responder times out, on missing pings.
  `SilenceNoticedInTime` is therefore about the responder, and `CancelledReturns` needs somebody who reads
  the acks: the responder waits in its send without a timeout, its token unheeded.
* The host announces what its encoder makes, whatever the client proposes. A client whose only decoder is
  openh264 therefore never streams from a host that encodes HEVC (`CreateDecoder` is not enabled), although
  ADR-010 (line 249) says that the negotiation prevents decode failures. `CodecAgreed` says what does hold.
* ADR-003 (lines 96-99) bounds the receiver to 4 incomplete frames, as does a comment in `reassembler.rs:69`.
  The code keeps 16 (`reassembler.rs:9-13` says why), and `BoundedTable` is about that constant.
* The same lines drop an incomplete frame as soon as a fragment of the next one arrives, and let the decoder
  ask for an I-frame. The code keeps the frame until it is 16 behind or the table is full, and nobody is told:
  there is no message by which a client could ask. `AllDelivered` holds of the code because of the former (a
  frame overtaken by the next is completed after all); `RecoversWithinGop` says what holds without the latter.
* `reassembler.rs:46-48` and ADR-003 let a full table evict its oldest frame. It does, but for the frame
  that arrives, which may be older still: a late fragment can take the place of a newer frame. `EvictsOldest`
  names this case; everywhere else what is dropped is older than all that is kept, the arriving frame included.
* `timestamp_us` and `duration_us` of a packet (`packet.rs:6-16`) do not travel: `reassembler.rs:120` sets
  both to 0, and `videotoolbox.rs` hands the 0 to the decoder as the presentation time.
* On macOS a host waits for the screen recording permission (`host_capture_macos.rs:27-34`, called from
  `host_pairing_glue.rs:157`) without looking at the token or the connection. Until it is granted, Ctrl+C
  does not end the process, and nobody else is served.
  `ShutdownCompletes` and `GoneClientNoticedWhenBusy` have the grant as a premise (`NoEndlessWait`).
* `connect.rs:168` says that a client without a saved key falls back to a "cert-based connection", and
  `connect.rs:264-268` warns that it goes on without authentication. No host lets it: the first message has
  to be a `ClientHello` (`host_pairing_glue.rs:28-32`), so its `HandshakeRequest` ends the connection.
* Pictures that FFmpeg holds back at the end of a session are lost, and while it lasts they stay a delay
  that is never made up: nothing calls `flush`.

One more needs none, as nothing written promises otherwise: `NvencEncoder::new` returns
early after it has opened the driver's session and nothing closes it (`InitializeFails`; `sessions` stays one
higher). That is why `VideoStream.cfg` does not check for deadlock: in the end no session can be opened.

## Fairness

* Threads and tasks run: weak fairness of their internal steps (OS and tokio scheduling).
* `select!` starts at a random branch, so the cancelled branch is taken although another is always
  ready: strong fairness of `StopOnCancel`'s counterparts where the other branch can disable it
  (`StopAccepting`, `StopReceiving`).
* `capture_frame` returns within its timeout. Nothing is assumed of what an encoder returns: that it does
  not return `Ok(None)` for ever (`host.rs:211`), during which the encode thread sends nothing and so does not
  notice that its receiver is gone, is a premise of the two properties that need it. So is that the
  permission to record the screen is not awaited for ever (`NoEndlessWait`).
* In `Keepalive` both tasks run and time goes on; a silent connection reaches QUIC's idle timeout, and who
  ran a responder that has returned drops its connection. The two cancelled branches are taken in the end
  (`select!`, as above). That the acks are read is a premise of `CancelledReturns`, not an assumption.
* winit handles every user event and requested redraw, whatever else it has to do (strong fairness).
* A phase that waits for the peer ends by its answer or by QUIC's idle timeout (quinn's default; no
  keep-alive is configured).
* Nothing is assumed of users, of the screen, of the network, of crashes or of restarts.
  `ClosedWindowEndsProcess` says what it needs (a user who is asked for the PIN types it), and so do
  `ShutdownCompletes` (`NoEndlessWait`), `GoneClientNoticedWhenBusy` (the same, and the screen keeps
  changing) and `SessionComesBack` (the client is not stopped and attempts fail only finitely often).

## Proofs

TLAPS checks all of them; each is for every value of the constants that the module's `ASSUME` allows.

* `VideoTransportProofs`. Type correctness needs that a datagram's index lies in its own frame, and that a
  frame's table has the size its first fragment announced. `NoneHeldBack` rests on the count `received`
  being the number of filled slots (a cardinality argument). The rest assumes `NoWrap`, at most `IdSpace`
  packets per connection (2^32, or 2.3 years at 60 fps). The invariant then says that packet n has frame_id
  n - 1, that every datagram and every filled slot is a chunk of that packet at that index, and that a
  packet is either delivered or still has a chunk outside the delivered ones: the last clause is what makes
  delivery happen at most once, since a delivered packet's datagrams are all consumed. From it follow
  `FramesAreSentPackets`, `OldestDropped` (of every eviction, also those for a frame that is complete at once
  and so never seen in the table) and `ImplementsChannel` (every step is a step of the channel or a
  stutter; the first is part of what the channel promises). `NoneReturnedTwice` is proved of `VideoChannel`
  and carried over by that refinement. `NothingIsLost` (`AllDelivered`) adds, for the orderly network, that
  every chunk of a packet not yet returned is on its way or stored, and that the frames in the table and on
  their way span less than the window and no more than the table's capacity; so neither eviction fires, and
  a packet of which nothing is on its way is complete.
* `HostSessionProofs`. `PacketsInOrder` is not inductive: the invariant adds where the numbering of the
  encoder stands relative to the backlog, that an error is only ever the last item, and that the thread has
  ended once it has queued one. `NeverWaitForEachOther` needs that `packet_rx` is open only while the
  session streams.
* `ClientPipelineProofs`. `NoLostWakeup`, and that draining never loses the newest accepted frame
  (`NewestIsKept`), with their types; the wakeups are bounded by the frames decoded, and the main thread's
  phase tells whether the channel may hold frames without a wakeup (only while draining). `JoinedThreadEnds`
  needs that whoever joins has cancelled the token. `ImplementsMailbox` rests on the order of the frames
  (`Ordered`: drawn, pending, the channel from front to back, decoded), which also counts those that wait:
  as many as the channel is long, and at most one more.
* `ReconnectProofs`. `GivesUpOnTime` follows from an invariant that bounds, phase by phase, the time without
  a session by the time of the first failure, the current backoff and the time spent in the phase.
  `CancelledLoopsWindDown` is proved of each step.
* `VideoStreamProofs`. `Recovery` (`RecoversWithinGop`) rests on the order of places: linked packets are
  neighbours in the encoder's order, from the last one delivered to the one that is encoded next (`Chained`,
  `EncoderNext`), so while the picture is damaged, the pictures delivered in a row hold no keyframe and are
  no more than the last one's place (`DamageBound`), which is less than `Gop`. `TurnsAreClean` adds that a
  pending texture exists for as long as one is acquired, and that a session is open from `OpenSession` to
  `Drop`. `ReferencesAreBalanced` is inductive with its types. Each device's step is proved on its own
  (`EncoderStep`, `DecoderStep`) and used in the composition. `Composition` shows that a host with two
  pipelines does nothing but what each module says, so these theorems hold of the specification that the run
  checks; `PipelinesTypeCorrect`, `Agreement` and `SoftwareRecovery` carry over those of
  `GenericStreamProofs` in the same way.
* `GenericStreamProofs`. The invariant has three parts. The encoder: as openh264 is asked for a keyframe
  when `frame_index` reaches the interval, and `since` stays behind `frame_index` unless a keyframe is due
  (`Asks`), no picture is further than an interval from its keyframe, skipped ones or not. The connection:
  the announced codec and rate are the encoder's while it sends and those of all packets in flight. The
  picture: places grow along linked packets from `Floor(0)`, the pictures delivered in a row while the
  picture was damaged, so these stay below the first packet's place and that below half a second.
  `CodecAgreed` and `SoftwareRecovers` follow.
* `KeepaliveProofs`. `LivePeerKept` needs where time has gone: while the responder waits for a sender that
  lives, what has passed of its timeout and what is left of the sender's sleep add up to at most interval +
  skew, and once a ping is on its way its age is all that can be added (`OnTime`); the sum stays below the
  timeout. `SilenceIsNoticedInTime` bounds `quiet` by the age of the last ping on its way, and once that is
  read by the time waited since.
* `PairingProofs`. None of `TrustedByPin`, `SessionAgreement` and `TrustKept` (no save drops a saved key) is
  inductive. The invariant adds what a host can still hear from the client it serves, even after the
  connection is gone (`Hears`: one message at most once the PIN is shown, and a confirmation that verifies
  carries a key whose user typed it); which pairs of places client and host can be in while their connection
  is up, and which messages are on their way then (`Agrees`); and that a running host has in memory what its
  file held (`Loaded`). A step changes one host, one client or one connection: `HostTurn` and `ClientTurn`
  say what has to be shown of that one, and the protocol itself is a handful of lemmas, one for each
  message. `EndsNeverBothWait` follows from `Agrees`. `PairedKeysAreGood` needs two more invariants. A
  certificate stands for one start of the host, and while that lasts keys are only added; so `CertInv` says
  of a client that is told it is paired, or is saving what it was told, that its host has the key or is no
  longer in the start that the connection's certificate names, and that no saved certificate is of a start
  that is yet to come. `FreshKeys` says that a key made for one pairing is known to no other host, so that
  saving it can make no earlier certificate count for more than it did. `ImplementsHostTrust` needs no
  further invariant, as `Agrees` ties the key of a session's client to the host's place: the host's own
  steps change what it lets in, a client's or the network's step can only end that, and each touches one
  host.

Every safety and every action property that a passing run checks has its theorem, and so has each refinement.
Some theorems have no run of their own, because a refinement or a liveness property that TLC checks says as
much of the instance: `FramesAreSentPackets`, `NoneReturnedTwice`, `NewestIsKept`, `TrustIsKept`,
`JoinedThreadEnds` and `CancelledLoopsWindDown`. Only model-checked: the liveness properties (the prover has
no rule for fairness), and that `Keepalive` does not deadlock. The theorems about frame_ids assume `NoWrap`.

## Not modelled

* The capturers other than DXGI appear by the outcomes of a capture call, the renderer by what becomes of
  its swap chain: textures, uploads, the import of an IOSurface and render passes are GPU calls on one
  frame. DXGI's copy to the CPU is left out.
* Conversions of pixels, bitrates and timestamps of the codecs; the `flush` of encoders and decoders (never
  called); H.264 and HEVC parsing beyond what it decides.
* The bytes of the wire and control formats, TLS and cryptography beyond what they decide. Messages that
  arrive out of protocol order appear as a failure of the step that reads them; the one that the programs
  really send, a client's `HandshakeRequest` in place of its `ClientHello`, is modelled.
* A client started with `--cert` that has a key as well: it behaves like a paired one whose certificate was
  copied instead of saved.
* An entry that somebody removes from the trust file by hand while the host runs: the host read the file at
  its start and saves its own list over it (`main.rs:41`).
* The wrap of frame_id, which is out of reach of the program's life (see above).
* `FrameChunker` is not used by the program. `rayplay-input` is empty.

## Plan

In order of importance; what is done is marked.

1. (done) `VideoTransport` with `VideoChannel`, and its proofs.
2. (done) `HostSession`, `ClientPipeline`, `Reconnect`, and their proofs.
3. (done) `Pairing` and its proofs.
4. (done) `NvencEncoder`, `VtDecoder`, their composition `VideoStream`, and its proofs.
   Next: the hand-off of frames from ScreenCaptureKit's callback thread to the capture call, over a
   channel of one frame where the newer frame is the one dropped.
5. (done) `Keepalive` and its proofs. Next, once something starts the two loops: their composition with
   `HostSession`.
6. (done) The renderer's surface states (`present_frame` with a lost surface), in `ClientPipeline`.
7. (done) The generic pipeline, the codec handshake and both pipelines together: `GenericStream`,
   `HostPipelines`, and their proofs.
8. A composition of `HostSession` and `ClientPipeline` over `VideoChannel`, whose refinement by
   `VideoTransport` is already proved: a packet captured is drawn, or dropped at a named place.
