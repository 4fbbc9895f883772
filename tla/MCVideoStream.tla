----------------------------- MODULE MCVideoStream -----------------------------
(***************************************************************************)
(* A stream on a small instance.  The textures are interchangeable.        *)
(***************************************************************************)
EXTENDS HostPipelines, TLC

CONSTANTS t1, t2

TwoTextures == {t1, t2}
TextureSymmetry == Permutations(TwoTextures)
=============================================================================
