----------------------------- MODULE NvencEncoder -----------------------------
(***************************************************************************)
(* The zero-copy pipeline of a Windows host and the device objects it      *)
(* owns: the desktop duplication of a D3D11 device (DxgiCapture), the      *)
(* NVENC session on the same device (NvencEncoder), and the loop that      *)
(* encodes the captured textures.  The pipeline is made anew for every     *)
(* client (stream_windows_zero_copy); what the driver keeps outlives it.   *)
(*                                                                         *)
(* Abstractions.  A call of encode maps the texture, and then returns at   *)
(* one of several places, an action each.  Function pointers missing from  *)
(* the driver's table count as the failure of the call; unmapping and      *)
(* unlocking what is mapped and locked succeed (a failure is only logged). *)
(* The two output buffers alternate and are locked only within a call.     *)
(* frame_index is kept modulo Gop, which is all that is asked of it.       *)
(* Panics are in HostSession.                                              *)
(***************************************************************************)
EXTENDS Naturals

CONSTANTS
    Textures,     \* the textures the duplication hands out
    NoTexture,
    MaxSessions,  \* the encode sessions the driver allows
    Gop           \* frames between forced keyframes, max(fps / 2, 1)

VARIABLES
    stage,            \* how far the pipeline is
    sessions,         \* encode sessions open in the driver
    acquired,         \* the duplication waits for ReleaseFrame
    pending_texture,  \* the texture of the frame acquired
    registered,       \* registered_resources: textures known to the session
    mapped,           \* textures mapped for encoding
    frame_index,      \* pictures encoded by this session, modulo Gop
    packet            \* the place in its group of pictures of the packet to send

dxgi  == <<acquired, pending_texture>>
nvenc == <<registered, mapped>>
vars  == <<stage, sessions, dxgi, nvenc, frame_index, packet>>

Positions == 0..(Gop - 1)
Stages    == {"down", "device", "duplicated", "opened", "built", "capture", "encode", "picture",
              "send"}

Init ==
    /\ stage = "down" /\ sessions = 0
    /\ acquired = FALSE /\ pending_texture = NoTexture
    /\ registered = {} /\ mapped = {}
    /\ frame_index = 0 /\ packet = 0
-----------------------------------------------------------------------------
(* stream_windows_zero_copy *)

CreateDevice ==
    /\ stage = "down" /\ stage' = "device"
    /\ UNCHANGED <<sessions, dxgi, nvenc, frame_index, packet>>

CreateDuplication ==
    /\ stage = "device" /\ stage' = "duplicated"
    /\ UNCHANGED <<sessions, dxgi, nvenc, frame_index, packet>>

\* The driver opens a session on the device.
OpenSession ==
    /\ stage = "duplicated" /\ sessions < MaxSessions
    /\ stage' = "opened" /\ sessions' = sessions + 1
    /\ UNCHANGED <<dxgi, nvenc, frame_index, packet>>

\* The preset, the encoder's parameters and the output buffers; only now is
\* there an NvencEncoder.
Initialize ==
    /\ stage = "opened" /\ stage' = "built"
    /\ frame_index' = 0
    /\ UNCHANGED <<sessions, dxgi, nvenc, packet>>

\* NvencEncoder::new returns early.  There is no NvencEncoder to be dropped, so
\* nothing destroys the session.
InitializeFails ==
    /\ stage = "opened" /\ stage' = "down"
    /\ UNCHANGED <<sessions, dxgi, nvenc, frame_index, packet>>

\* No device, no duplication, or no session.
CreateFails ==
    /\ stage \in {"device", "duplicated"} /\ stage' = "down"
    /\ UNCHANGED <<sessions, dxgi, nvenc, frame_index, packet>>

\* The encoder is dropped, then the capturer with its duplication, then the
\* device.
Drop ==
    /\ stage' = "down"
    /\ registered' = {} /\ sessions' = sessions - 1
    /\ acquired' = FALSE /\ pending_texture' = NoTexture

HandshakeFails ==
    /\ stage = "built" /\ Drop
    /\ UNCHANGED <<mapped, frame_index, packet>>

Handshake ==
    /\ stage = "built" /\ stage' = "capture"
    /\ UNCHANGED <<sessions, dxgi, nvenc, frame_index, packet>>
-----------------------------------------------------------------------------
(* DxgiCapture *)

\* FrameGuard: the texture goes back to the duplication.
release_frame_mut ==
    /\ pending_texture' = NoTexture
    /\ UNCHANGED acquired

release_frame ==
    /\ pending_texture' = NoTexture
    /\ acquired' = IF pending_texture # NoTexture THEN FALSE ELSE acquired

acquire_texture ==
    /\ stage = "capture"
    /\ stage' = "encode" /\ acquired' = TRUE
    /\ pending_texture' \in Textures
    /\ UNCHANGED <<sessions, nvenc, frame_index, packet>>

\* AcquireNextFrame fails, or what it acquired is not a texture, or the timeout
\* finds the channel closed: the thread returns.
CaptureEnds ==
    /\ stage = "capture" /\ Drop
    /\ UNCHANGED <<mapped, frame_index, packet>>
-----------------------------------------------------------------------------
(* NvencEncoder::encode, for the texture that is pending *)

register_texture  == registered \cup {pending_texture}
Unmap             == mapped \ {pending_texture}
Succ_mut(n)       == IF n = Gop THEN 0 ELSE n + 1
Succ(n)           == IF n = Gop - 1 THEN 0 ELSE n + 1
Keyframe(n)       == n = 0     \* frame_index.is_multiple_of(gop)

\* The texture is registered, unless it is already, and mapped.
MapTexture ==
    /\ stage = "encode" /\ stage' = "picture"
    /\ registered' = register_texture
    /\ mapped' = mapped \cup {pending_texture}
    /\ UNCHANGED <<sessions, dxgi, frame_index, packet>>

\* The texture is not registered or not mapped.
MapFails ==
    /\ stage = "encode" /\ Drop
    /\ UNCHANGED <<mapped, frame_index, packet>>

\* The picture is not encoded or its output not locked; it is unmapped all the
\* same.
EncodePictureFails ==
    /\ stage = "picture" /\ Drop
    /\ mapped' = Unmap
    /\ UNCHANGED <<frame_index, packet>>

\* The output is empty: encode returns None, and the picture is not sent.
EncodeBuffers ==
    /\ stage = "picture" /\ stage' = "capture"
    /\ mapped' = Unmap
    /\ frame_index' = Succ(frame_index)
    /\ release_frame
    /\ UNCHANGED <<sessions, registered, packet>>

\* The output is locked, copied and unlocked.
EncodePacket ==
    /\ stage = "picture" /\ stage' = "send"
    /\ mapped' = Unmap
    /\ packet' = frame_index
    /\ frame_index' = Succ(frame_index)
    /\ UNCHANGED <<sessions, dxgi, registered>>

\* blocking_send returns, and the guard goes out of scope.
SendPacket ==
    /\ stage = "send" /\ stage' = "capture"
    /\ release_frame
    /\ UNCHANGED <<sessions, nvenc, frame_index, packet>>

\* The channel is closed.
SendRefused ==
    /\ stage = "send" /\ Drop
    /\ UNCHANGED <<mapped, frame_index, packet>>
-----------------------------------------------------------------------------
SetUp == CreateDevice \/ CreateDuplication \/ OpenSession \/ Initialize
         \/ InitializeFails \/ CreateFails \/ HandshakeFails
Loop  == acquire_texture \/ CaptureEnds \/ MapTexture \/ MapFails
         \/ EncodePictureFails \/ EncodePacket \/ SendRefused

\* On its own, with a client that always agrees and a channel that takes every
\* packet.
Next == SetUp \/ Handshake \/ Loop \/ EncodeBuffers \/ SendPacket

Spec == Init /\ [][Next]_vars
-----------------------------------------------------------------------------
(* Properties *)

\* The types of the pipeline's objects, with the driver's limit of sessions.
TypeOK ==
    /\ stage \in Stages /\ sessions \in 0..MaxSessions
    /\ acquired \in BOOLEAN /\ pending_texture \in Textures \cup {NoTexture}
    /\ registered \subseteq Textures /\ mapped \subseteq Textures
    /\ frame_index \in Positions /\ packet \in Positions

\* Whenever the next frame is asked for, and when the pipeline is gone, nothing
\* is mapped and the last frame is back with the duplication: otherwise the next
\* AcquireNextFrame, or the unregistering of the texture, is refused.
CleanTurns ==
    stage \in {"capture", "down"} => mapped = {} /\ ~ acquired
=============================================================================
