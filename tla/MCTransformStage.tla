--------------------------- MODULE MCTransformStage ---------------------------
(***************************************************************************)
(* TransformStage on small instances.                                      *)
(***************************************************************************)
EXTENDS TransformStage
===============================================================================
