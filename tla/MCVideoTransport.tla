-------------------------- MODULE MCVideoTransport --------------------------
(***************************************************************************)
(* VideoTransport on a small instance: both kinds of network.              *)
(***************************************************************************)
EXTENDS VideoTransport

BothNetworks == {"lossy", "orderly"}
=============================================================================
