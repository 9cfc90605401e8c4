-------------------------- MODULE MCBatchedPipeline --------------------------
(***************************************************************************)
(* BatchedPipeline on small instances.                                     *)
(***************************************************************************)
EXTENDS BatchedPipeline

\* The sinks of a fanout are interchangeable (safety runs only).
SinkSymmetry == Permutations(Sinks)
==============================================================================
