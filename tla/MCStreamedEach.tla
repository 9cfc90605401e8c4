---------------------------- MODULE MCStreamedEach ----------------------------
(***************************************************************************)
(* StreamedEach on small instances.                                        *)
(***************************************************************************)
EXTENDS StreamedEach
===============================================================================
