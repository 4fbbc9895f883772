------------------------------- MODULE VtDecoder -------------------------------
(***************************************************************************)
(* The client's hardware decoder on macOS (VtDecoder) and the reference    *)
(* counts of the Core Foundation objects it makes, up to the IOSurfaces    *)
(* that decoded frames carry to the renderer on another thread.            *)
(*                                                                         *)
(* Abstractions.  A call of decode is one action per place where it can    *)
(* return.  VideoToolbox decodes synchronously (decode_flags is 0): its    *)
(* callback has run when DecodeFrame returns, and has not run if that      *)
(* fails.  A keyframe carries its parameter sets (repeatSPSPPS); one whose *)
(* sets are unusable makes init_session fail.                              *)
(***************************************************************************)
EXTENDS Naturals

CONSTANT MaxFrames   \* decoded frames that the channel and the renderer hold

VARIABLES
    session,   \* "none": no decoder, "waiting": for a keyframe, or "ready"
    refs,      \* references held on each kind of object
    frames     \* DecodedFrames alive

vars == <<session, refs, frames>>

Objects == {"format", "session", "block", "sample", "pixel", "surface"}

\* CFRetain, or creation; and CFRelease.
Retain(r, S)  == [o \in Objects |-> IF o \in S THEN r[o] + 1 ELSE r[o]]
Release(r, S) == [o \in Objects |-> IF o \in S THEN r[o] - 1 ELSE r[o]]

Init ==
    /\ session = "none"
    /\ refs = [o \in Objects |-> 0]
    /\ frames = 0

\* VtDecoder::new
New ==
    /\ session = "none" /\ session' = "waiting"
    /\ UNCHANGED <<refs, frames>>

\* Drop: the session is invalidated and released, then the format description,
\* if they are there.
Drop ==
    /\ session # "none" /\ session' = "none"
    /\ refs' = IF session = "ready" THEN Release(refs, {"session", "format"}) ELSE refs
    /\ UNCHANGED frames
-----------------------------------------------------------------------------
(* decode *)

\* A packet that is not a keyframe, without a session: an error.
WaitForKeyframe(is_keyframe) ==
    /\ session = "waiting" /\ ~ is_keyframe
    /\ UNCHANGED vars

\* No parameter sets, no format description or no session; a format
\* description that was made is released.
InitFails(is_keyframe) ==
    /\ session = "waiting" /\ is_keyframe
    /\ refs' = Release(Retain(refs, {"format"}), {"format"})
    /\ UNCHANGED <<session, frames>>

\* init_session if need be, then decode_packet.
CanDecode(is_keyframe) == session = "ready" \/ (session = "waiting" /\ is_keyframe)
Initialized == IF session = "ready" THEN refs ELSE Retain(refs, {"format", "session"})

\* The sample buffer is made from the block buffer, which is then released, and
\* is submitted, and is then released, whether or not that fails.
Submitted == Release(Release(Retain(Retain(Initialized, {"block"}), {"sample"}), {"block"}), {"sample"})

\* No slice data, no block buffer, no sample buffer, or DecodeFrame fails.
SubmitFails(is_keyframe) ==
    /\ CanDecode(is_keyframe) /\ session' = "ready"
    /\ refs' \in {Initialized, Release(Retain(Initialized, {"block"}), {"block"}), Submitted}
    /\ UNCHANGED frames

\* decode_callback retains the pixel buffer that it is given, if any.
Called == Retain(Submitted, {"pixel"})

\* The callback reports an error, with or without a pixel buffer.
CallbackFails(is_keyframe) ==
    /\ CanDecode(is_keyframe) /\ session' = "ready"
    /\ refs' \in {Submitted, Release(Called, {"pixel"})}
    /\ UNCHANGED frames

\* The decoder took the packet and has no picture to give.
NoFrame(is_keyframe) ==
    /\ CanDecode(is_keyframe) /\ session' = "ready"
    /\ refs' = Submitted
    /\ UNCHANGED frames

\* The pixel buffer has no IOSurface: the error is returned after the release.
NoSurface_mut(is_keyframe) ==
    /\ CanDecode(is_keyframe) /\ session' = "ready"
    /\ refs' = Called
    /\ UNCHANGED frames

NoSurface(is_keyframe) ==
    /\ CanDecode(is_keyframe) /\ session' = "ready"
    /\ refs' = Release(Called, {"pixel"})
    /\ UNCHANGED frames

\* The frame retains the surface.  It goes to the channel, or is dropped when
\* that is full, and its handle releases the surface.
Frame(is_keyframe) ==
    /\ CanDecode(is_keyframe) /\ session' = "ready"
    /\ LET made == Release(Retain(Called, {"surface"}), {"pixel"})
       IN IF frames < MaxFrames
          THEN refs' = made /\ frames' = frames + 1
          ELSE refs' = Release(made, {"surface"}) /\ UNCHANGED frames

\* The renderer lets go of a frame, on the main thread.
DropFrame ==
    /\ frames > 0 /\ frames' = frames - 1
    /\ refs' = Release(refs, {"surface"})
    /\ UNCHANGED session
-----------------------------------------------------------------------------
Decodes(k) == NoFrame(k) \/ Frame(k) \/ NoSurface(k)
Fails(k)   == InitFails(k) \/ SubmitFails(k) \/ CallbackFails(k)

Next == New \/ Drop \/ DropFrame
        \/ \E k \in BOOLEAN : WaitForKeyframe(k) \/ Decodes(k) \/ Fails(k)

Spec == Init /\ [][Next]_vars
-----------------------------------------------------------------------------
(* Properties *)

\* The types of the decoder: no count of references is ever below zero.
TypeOK ==
    /\ session \in {"none", "waiting", "ready"}
    /\ refs \in [Objects -> Nat]
    /\ frames \in 0..MaxFrames

\* Between two calls of decode exactly the objects in use are retained: the
\* session and its format while the decoder is ready, and one surface for every
\* frame alive, which outlives the decoder that made it.
ReferencesBalanced ==
    refs = [o \in Objects |->
                IF o = "surface" THEN frames
                ELSE IF session = "ready" /\ o \in {"format", "session"} THEN 1 ELSE 0]
=============================================================================
