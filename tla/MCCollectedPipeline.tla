------------------------- MODULE MCCollectedPipeline -------------------------
(***************************************************************************)
(* CollectedPipeline on small instances.                                   *)
(***************************************************************************)
EXTENDS CollectedPipeline
==============================================================================
