--------------------------- MODULE MCKafkaPipeline ---------------------------
(***************************************************************************)
(* KafkaPipeline on small instances.                                       *)
(***************************************************************************)
EXTENDS KafkaPipeline

CONSTANTS p, q

\* One partition reaches the largest offset, the other does not.
LastOffset == [t \in Partitions |-> IF t = p THEN OffsetMax + 1 ELSE 1]
===============================================================================
