--------------------------- MODULE MCClientPipeline ---------------------------
(***************************************************************************)
(* ClientPipeline on small instances: both modes.                          *)
(***************************************************************************)
EXTENDS ClientPipeline

BothModes  == {"normal", "pair"}
NormalMode == {"normal"}
=============================================================================
