---------------------------- MODULE MCHostSession ----------------------------
(***************************************************************************)
(* HostSession on small instances: both pipelines, a short channel.        *)
(***************************************************************************)
EXTENDS HostSession

BothPaths == {"generic", "zero_copy"}
=============================================================================
