--------------------------- MODULE MCEachPipeline ---------------------------
(***************************************************************************)
(* EachPipeline on small instances.                                        *)
(***************************************************************************)
EXTENDS EachPipeline

\* The frontier every commit leaves behind, for a checkpoint type that
\* represents a complete frontier: README.md:104-106 and source.rs:9 promise
\* that state is carried into the next epoch, so that a committed checkpoint
\* always covers every position from the first one on.
FrontierIsComplete ==
    \A i \in DOMAIN committed : FirstOf(committed[i]) = 1
=============================================================================
