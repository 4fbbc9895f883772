----------------------------- MODULE MCKeepalive -----------------------------
(***************************************************************************)
(* Keepalive on a small instance, with a timeout as tight as it may be.    *)
(***************************************************************************)
EXTENDS Keepalive
=============================================================================
