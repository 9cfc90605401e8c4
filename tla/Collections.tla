----------------------------- MODULE Collections -----------------------------
(***************************************************************************)
(* The collections of one delivery unit: each collector of the pipeline    *)
(* begins a session, the records are pushed into every session one by one, *)
(* and every session is finished.  finish() makes durable what was pushed. *)
(*                                                                         *)
(* A linear pipeline awaits its one session; a fanout begins the sessions  *)
(* one after the other, joins the pushes of a record, and finishes in one  *)
(* task per session.  Which collector answers first makes no difference to *)
(* a runner that waits for all of them, so the order is left open.  The    *)
(* collectors are external: each call is answered Ok or Err at some point, *)
(* and a task that finishes may panic.                                     *)
(***************************************************************************)
EXTENDS Naturals, FiniteSets

CONSTANTS
    Sinks,      \* the collectors the pipeline was built with
    Topology    \* "linear" or "fanout"

ASSUME CollectionsAssumption ==
    /\ IsFiniteSet(Sinks)
    /\ Topology \in {"linear", "fanout"}
    /\ Topology = "linear" => Cardinality(Sinks) = 1

VARIABLES
    session,    \* the call each collector is answering, or its answer
    pushed,     \* the positions pushed into each session
    accepted    \* history: the positions each collector finished with Ok

collectionVars == <<session, pushed, accepted>>

\* beginning, pushing, finishing: a call is under way.
\* none: no session; open: the last call was answered Ok; finished: durable.
Calls == {"beginning", "pushing", "finishing"}

SessionStates == Calls \cup {"none", "open", "finished", "failed", "panicked"}

CollectionsTypeOK ==
    /\ session \in [Sinks -> SessionStates]
    /\ pushed \in [Sinks -> SUBSET Nat]
    /\ accepted \in [Sinks -> SUBSET Nat]

CollectionsInit ==
    /\ session = [s \in Sinks |-> "none"]
    /\ pushed = [s \in Sinks |-> {}]
    /\ accepted = [s \in Sinks |-> {}]

\* begin_collections, the join_all of the pushes, finish_collections.
CallAll(call) == session' = [s \in Sinks |-> call]

BeginCollections == CallAll("beginning") /\ UNCHANGED <<pushed, accepted>>

PushAll == CallAll("pushing") /\ UNCHANGED <<pushed, accepted>>

FinishCollections == CallAll("finishing") /\ UNCHANGED <<pushed, accepted>>

Answered(s, state) == session' = [session EXCEPT ![s] = state]

Begun(s) ==
    /\ session[s] = "beginning"
    /\ Answered(s, "open")
    /\ UNCHANGED <<pushed, accepted>>

Pushed(s, position) ==
    /\ session[s] = "pushing"
    /\ Answered(s, "open")
    /\ pushed' = [pushed EXCEPT ![s] = @ \cup {position}]
    /\ UNCHANGED accepted

Finished(s) ==
    /\ session[s] = "finishing"
    /\ Answered(s, "finished")
    /\ accepted' = [accepted EXCEPT ![s] = @ \cup pushed[s]]
    /\ UNCHANGED pushed

Refused(s) ==
    /\ session[s] \in Calls
    /\ Answered(s, "failed")
    /\ UNCHANGED <<pushed, accepted>>

\* Only a task of finish_collections is caught when it panics.
Panicked(s) ==
    /\ Topology = "fanout"
    /\ session[s] = "finishing"
    /\ Answered(s, "panicked")
    /\ UNCHANGED <<pushed, accepted>>

AllAnswered == \A s \in Sinks : session[s] \notin Calls

\* Mutant: a join error is not taken for a failure.
FailedSessionsWithoutPanics == {s \in Sinks : session[s] = "failed"}

FailedSessions == {s \in Sinks : session[s] \in {"failed", "panicked"}}

\* The sessions are dropped.
DropSessions ==
    /\ session' = [s \in Sinks |-> "none"]
    /\ pushed' = [s \in Sinks |-> {}]
    /\ UNCHANGED accepted
==============================================================================
