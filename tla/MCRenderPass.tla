---------------------------- MODULE MCRenderPass ----------------------------
(***************************************************************************)
(* RenderPass with targets of a few pixels, for TLC.                       *)
(***************************************************************************)
EXTENDS RenderPass

MCFrames == {<<2, 1>>}
=============================================================================
