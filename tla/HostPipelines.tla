----------------------------- MODULE HostPipelines -----------------------------
(***************************************************************************)
(* The two pipelines a host may stream through.  Its platform and its mode *)
(* decide once and for all which one stream_with_handshake takes: an Auto  *)
(* host on Windows encodes textures (VideoStream), every other host frames *)
(* in memory (GenericStream).                                              *)
(***************************************************************************)
EXTENDS VideoStream

CONSTANTS Rates, U16Max, MaxHeld   \* of the generic pipeline

ASSUME PipelinesAssumption ==
    Rates \subseteq Nat /\ U16Max \in Nat /\ MaxHeld \in Nat

VARIABLES
    pipeline,   \* "zero_copy" or "generic"
    \* The variables of GenericStream.
    gStage, gEncoder, gPacket, gNet, gGap, gParams, gDecoder, gIntact, gRun

generic == <<gStage, gEncoder, gPacket, gNet, gGap, gParams, gDecoder, gIntact, gRun>>

G == INSTANCE GenericStream
     WITH stage <- gStage, encoder <- gEncoder, packet <- gPacket, net <- gNet, gap <- gGap,
          params <- gParams, decoder <- gDecoder, intact <- gIntact, run <- gRun

PipelinesInit ==
    /\ Init /\ G!Init
    /\ pipeline \in {"zero_copy", "generic"}

ZeroCopy == pipeline = "zero_copy" /\ Next /\ UNCHANGED <<pipeline, generic>>
Generic  == pipeline = "generic" /\ G!Next /\ UNCHANGED <<pipeline, vars>>

PipelinesNext == ZeroCopy \/ Generic

PipelinesSpec == PipelinesInit /\ [][PipelinesNext]_<<pipeline, vars, generic>>
-----------------------------------------------------------------------------
(* Properties *)

\* Every variable of either pipeline keeps its type, and no encoder of the generic one
\* ever puts more pictures behind a keyframe than its interval allows.
PipelinesTypeOK == TypeOK /\ G!TypeOK

\* Whatever host and client are built with, every packet on its way to a decoder is of
\* the codec that the decoder was made for.
CodecAgreed == G!CodecAgreed

\* Half a second of pictures in a row restores the picture.
SoftwareRecovers == G!SoftwareRecovers
=============================================================================
