--------------------------- MODULE MCFileCheckpoint ---------------------------
(***************************************************************************)
(* FileCheckpoint on small instances: every process has the same id, as    *)
(* the first process of every container has.                               *)
(***************************************************************************)
EXTENDS FileCheckpoint

CONSTANTS host, peer, a, b

OneProcess == [s \in Savers |-> host]

TwoProcesses == [s \in Savers |-> IF s = a THEN host ELSE peer]

SamePid == [r \in Processes |-> 1]
===============================================================================
