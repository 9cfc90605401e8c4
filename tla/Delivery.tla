------------------------------- MODULE Delivery -------------------------------
(***************************************************************************)
(* The delivery of one unit (a record, or a batch of records) to the sinks *)
(* of a pipeline: the awaited Sink::deliver of a linear pipeline, or the   *)
(* JoinSet of tasks, one per sink, that a fanout pipeline spawns and       *)
(* drains.                                                                 *)
(*                                                                         *)
(* The sinks are external: each answers Ok or Err when it likes, and in a  *)
(* fanout a sink's task may panic, which the runner sees as a join error.  *)
(***************************************************************************)
EXTENDS Naturals, FiniteSets

CONSTANTS
    Sinks,      \* the sinks the pipeline was built with
    Topology    \* "linear" or "fanout"

ASSUME DeliveryAssumption ==
    /\ IsFiniteSet(Sinks)
    /\ Topology \in {"linear", "fanout"}
    /\ Topology = "linear" => Cardinality(Sinks) = 1

VARIABLES
    unit,       \* the positions of the unit being delivered
    branch,     \* what each sink's delivery of the unit has come to
    accepted    \* history: the positions each sink answered Ok for

deliveryVars == <<unit, branch, accepted>>

BranchStates == {"idle", "running", "ok", "failed", "panicked"}

DeliveryTypeOK ==
    /\ unit \in SUBSET Nat
    /\ branch \in [Sinks -> BranchStates]
    /\ accepted \in [Sinks -> SUBSET Nat]

DeliveryInit ==
    /\ unit = {}
    /\ branch = [s \in Sinks |-> "idle"]
    /\ accepted = [s \in Sinks |-> {}]

\* Call the sink, or spawn one task per sink.
StartDelivery(records) ==
    /\ unit' = records
    /\ branch' = [s \in Sinks |-> "running"]
    /\ UNCHANGED accepted

SinkAccepts(s) ==
    /\ branch[s] = "running"
    /\ branch' = [branch EXCEPT ![s] = "ok"]
    /\ accepted' = [accepted EXCEPT ![s] = @ \cup unit]
    /\ UNCHANGED unit

SinkRefuses(s) ==
    /\ branch[s] = "running"
    /\ branch' = [branch EXCEPT ![s] = "failed"]
    /\ UNCHANGED <<unit, accepted>>

SinkPanics(s) ==
    /\ Topology = "fanout"
    /\ branch[s] = "running"
    /\ branch' = [branch EXCEPT ![s] = "panicked"]
    /\ UNCHANGED <<unit, accepted>>

\* Mutant: the first failure ends the drain.
DrainedAtFirstFailure ==
    \/ \A s \in Sinks : branch[s] # "running"
    \/ \E s \in Sinks : branch[s] = "failed"

\* drain: every task has been joined, whatever the others answered.
Drained == \A s \in Sinks : branch[s] # "running"

\* Mutant: a join error is not taken for a failure.
FailuresWithoutPanics == {s \in Sinks : branch[s] = "failed"}

Failures == {s \in Sinks : branch[s] \in {"failed", "panicked"}}

\* The JoinSet is empty again, the unit has been dropped.
EndDelivery ==
    /\ unit' = {}
    /\ branch' = [s \in Sinks |-> "idle"]
    /\ UNCHANGED accepted
===============================================================================
