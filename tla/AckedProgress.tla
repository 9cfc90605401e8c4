---------------------------- MODULE AckedProgress ----------------------------
(***************************************************************************)
(* What every runner promises about durable progress, with nothing of how: *)
(* records are delivered in source order, the source persists progress     *)
(* only forward and only over delivered records, a run that returns Ok has *)
(* persisted everything it delivered, and a run that has returned neither  *)
(* delivers nor persists any more.                                         *)
(*                                                                         *)
(* README.md ("Commit timing follows delivery acknowledgements rather than *)
(* interrupting delivery") states it in words; the runners' modules        *)
(* implement it.                                                           *)
(***************************************************************************)
EXTENDS Naturals

VARIABLES
    delivered,   \* the records every sink has accepted are 1 .. delivered
    persisted,   \* the source's durable progress
    outcome      \* "running", "ok" or "error"

vars == <<delivered, persisted, outcome>>

\* A pipeline without sinks returns an error at once.
Init ==
    /\ delivered = 0
    /\ persisted = 0
    /\ outcome \in {"running", "error"}

Deliver ==
    /\ outcome = "running"
    /\ delivered' \in Nat
    /\ delivered' > delivered
    /\ UNCHANGED <<persisted, outcome>>

Persist ==
    /\ outcome = "running"
    /\ persisted' \in (persisted + 1) .. delivered
    /\ UNCHANGED <<delivered, outcome>>

Complete ==
    /\ outcome = "running"
    /\ persisted = delivered
    /\ outcome' = "ok"
    /\ UNCHANGED <<delivered, persisted>>

Fail ==
    /\ outcome = "running"
    /\ outcome' = "error"
    /\ UNCHANGED <<delivered, persisted>>

Next == Deliver \/ Persist \/ Complete \/ Fail

Spec == Init /\ [][Next]_vars
==============================================================================
