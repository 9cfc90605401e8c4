-------------------------- MODULE CollectedPipeline --------------------------
(***************************************************************************)
(* The runners of `.collect(...)`: LinearPipeline and the cloned and       *)
(* shared FanoutCollectorPipeline.  The first item of the stream opens a   *)
(* collection; records are tracked and pushed until the collection is      *)
(* full, its timeout passes, or the stream ends; the collection is         *)
(* finished, acknowledged as one unit, and the eligible epochs committed.  *)
(*                                                                         *)
(* Two deadlines are never waited for at once: the one of the commit       *)
(* policy between two collections, the one of the collection inside it.    *)
(***************************************************************************)
EXTENDS CommitState, Collections

CONSTANTS
    CollectSize,   \* CollectPolicy's size
    MaxRecords     \* bound: the records the stream yields before it must end or fail

ASSUME CollectedAssumption ==
    /\ CollectSize \in 1 .. UsizeMax
    /\ MaxRecords \in Nat

VARIABLES
    first,         \* the item that opened the collection: a record, or an error
    count,         \* records pushed into the collection
    collectTimer,  \* the deadline of the collection
    ended,         \* the stream ended inside a collection
    pc,            \* where the run is
    failure        \* the PipelineError the run returned, "none" so far

collectVars == <<first, count, collectTimer, ended>>

vars == <<commitVars, collectionVars, collectVars, pc, failure>>

\* next:       waiting for the first item of a collection or the commit deadline
\* beginning:  waiting for the collectors to begin
\* pushing:    waiting for every session to take the record
\* gathering:  waiting for a further item or the collection's deadline
\* finish:     waiting for every session to finish
\* committing, finishing, done, failed: as in EachPipeline
PCs == {"next", "beginning", "pushing", "gathering", "finish",
        "committing", "finishing", "done", "failed"}

Items == {"none", "record", "error"}

Errors == {"none", "Source", "Transform", "Sinks", "Commit", "NoSinks"}

TypeOK ==
    /\ CommitTypeOK
    /\ CollectionsTypeOK
    /\ first \in Items
    /\ count \in 0 .. CollectSize
    /\ collectTimer \in Deadlines
    /\ ended \in BOOLEAN
    /\ pc \in PCs
    /\ failure \in Errors

Init ==
    /\ CommitInit
    /\ CollectionsInit
    /\ first = "none"
    /\ count = 0
    /\ collectTimer = "none"
    /\ ended = FALSE
    /\ IF Sinks = {} THEN pc = "failed" /\ failure = "NoSinks"
                     ELSE pc = "next" /\ failure = "none"

Fail(error) == pc' = "failed" /\ failure' = error

Goto(label) == pc' = label /\ UNCHANGED failure

StreamFails == \E error \in {"Source", "Transform"} : Fail(error)

-----------------------------------------------------------------------------
(***************************************************************************)
(* Opening a collection.  The collectors begin whatever the first item is; *)
(* an error is looked at only afterwards.                                  *)
(***************************************************************************)
FirstItem ==
    /\ pc = "next"
    /\ first' \in IF tracked < MaxRecords THEN {"record", "error"} ELSE {"error"}
    /\ BeginCollections
    /\ Goto("beginning")
    /\ UNCHANGED <<commitVars, count, collectTimer, ended>>

\* The stream ends between two collections.
NextEnds ==
    /\ pc = "next"
    /\ Finish
    /\ Goto("finishing")
    /\ UNCHANGED <<collectionVars, collectVars>>

\* The commit deadline wins the select.
CommitTimer ==
    /\ pc = "next"
    /\ Deadline = "passed"
    /\ HandleTimeout
    /\ Goto("committing")
    /\ UNCHANGED <<collectionVars, collectVars>>

Begin(s) ==
    /\ pc = "beginning"
    /\ Begun(s) \/ Refused(s)
    /\ UNCHANGED <<commitVars, collectVars, pc, failure>>

BeginFails ==
    /\ pc = "beginning"
    /\ AllAnswered
    /\ FailedSessions # {}
    /\ Fail("Sinks")
    /\ UNCHANGED <<commitVars, collectionVars, collectVars>>

\* first? : the sessions that have begun are dropped.
FirstFails ==
    /\ pc = "beginning"
    /\ AllAnswered
    /\ FailedSessions = {}
    /\ first = "error"
    /\ StreamFails
    /\ DropSessions
    /\ UNCHANGED <<commitVars, collectVars>>

\* A record enters the collection: it is tracked, then every session has it.
PushNext ==
    /\ Track(tracked + 1)
    /\ PushAll
    /\ Goto("pushing")

\* Mutant: the deadline of the collection is not set.
PushFirstWithoutTimer ==
    /\ pc = "beginning"
    /\ AllAnswered
    /\ FailedSessions = {}
    /\ first = "record"
    /\ PushNext
    /\ first' = "none"
    /\ count' = 0
    /\ UNCHANGED <<collectTimer, ended>>

PushFirst ==
    /\ pc = "beginning"
    /\ AllAnswered
    /\ FailedSessions = {}
    /\ first = "record"
    /\ PushNext
    /\ first' = "none"
    /\ count' = 0
    /\ collectTimer' = "armed"
    /\ UNCHANGED ended

-----------------------------------------------------------------------------
(***************************************************************************)
(* Filling it.                                                             *)
(***************************************************************************)
Push(s) ==
    /\ pc = "pushing"
    /\ Pushed(s, tracked) \/ Refused(s)
    /\ UNCHANGED <<commitVars, collectVars, pc, failure>>

PushFails ==
    /\ pc = "pushing"
    /\ AllAnswered
    /\ FailedSessions # {}
    /\ Fail("Sinks")
    /\ UNCHANGED <<commitVars, collectionVars, collectVars>>

\* Mutant: a push that failed in one session is not noticed.
PushDoneRegardless ==
    /\ pc = "pushing"
    /\ AllAnswered
    /\ count' = count + 1
    /\ IF count' = CollectSize
         THEN FinishCollections /\ Goto("finish")
         ELSE UNCHANGED collectionVars /\ Goto("gathering")
    /\ UNCHANGED <<commitVars, first, collectTimer, ended>>

\* Every session has the record; the last one of a full collection ends it.
PushDone ==
    /\ pc = "pushing"
    /\ AllAnswered
    /\ FailedSessions = {}
    /\ count' = count + 1
    /\ IF count' = CollectSize
         THEN FinishCollections /\ Goto("finish")
         ELSE UNCHANGED collectionVars /\ Goto("gathering")
    /\ UNCHANGED <<commitVars, first, collectTimer, ended>>

PushFurther ==
    /\ pc = "gathering"
    /\ tracked < MaxRecords
    /\ PushNext
    /\ UNCHANGED collectVars

\* record? : the stream yields an error, the sessions are dropped unfinished.
GatherFails ==
    /\ pc = "gathering"
    /\ StreamFails
    /\ DropSessions
    /\ UNCHANGED <<commitVars, collectVars>>

\* The stream ends inside the collection, or the collection's deadline passes
\* while the stream is pending.
GatherEnds ==
    /\ pc = "gathering"
    /\ \/ ended' = TRUE
       \/ collectTimer = "passed" /\ UNCHANGED ended
    /\ FinishCollections
    /\ Goto("finish")
    /\ UNCHANGED <<commitVars, first, count, collectTimer>>

-----------------------------------------------------------------------------
(***************************************************************************)
(* Finishing it, and committing.                                           *)
(***************************************************************************)
FinishSession(s) ==
    /\ pc = "finish"
    /\ Finished(s) \/ Refused(s) \/ Panicked(s)
    /\ UNCHANGED <<commitVars, collectVars, pc, failure>>

FinishFails ==
    /\ pc = "finish"
    /\ AllAnswered
    /\ FailedSessions # {}
    /\ Fail("Sinks")
    /\ UNCHANGED <<commitVars, collectionVars, collectVars>>

CollectionFinished ==
    /\ pc = "finish"
    /\ AllAnswered
    /\ FailedSessions = {}
    /\ AcknowledgeDelivery(count)
    /\ DropSessions
    /\ collectTimer' = "none"
    /\ Goto("committing")
    /\ UNCHANGED <<first, count, ended>>

CommitNext ==
    /\ pc \in {"committing", "finishing"}
    /\ PopEligible
    /\ UNCHANGED <<collectionVars, collectVars, pc, failure>>

CommitOk ==
    /\ pc \in {"committing", "finishing"}
    /\ CommitSucceeds
    /\ UNCHANGED <<collectionVars, collectVars, pc, failure>>

CommitErr ==
    /\ pc \in {"committing", "finishing"}
    /\ CommitFails
    /\ Fail("Commit")
    /\ UNCHANGED <<collectionVars, collectVars>>

\* Mutant: a stream that ended inside a collection returns without finish.
CommitDoneSkipsFinish ==
    /\ NothingEligible
    /\ \/ pc = "committing" /\ Goto(IF ended THEN "done" ELSE "next")
       \/ pc = "finishing" /\ Goto("done")
    /\ UNCHANGED <<commitVars, collectionVars, collectVars>>

CommitDone ==
    /\ NothingEligible
    /\ \/ pc = "committing" /\ ended  /\ Finish /\ Goto("finishing")
       \/ pc = "committing" /\ ~ended /\ Goto("next") /\ UNCHANGED commitVars
       \/ pc = "finishing" /\ Goto("done") /\ UNCHANGED commitVars
    /\ UNCHANGED <<collectionVars, collectVars>>

-----------------------------------------------------------------------------
Tick ==
    /\ pc \notin {"done", "failed"}
    /\ DeadlinePasses
    /\ UNCHANGED <<collectionVars, collectVars, pc, failure>>

CollectTick ==
    /\ pc \notin {"done", "failed"}
    /\ collectTimer = "armed"
    /\ collectTimer' = "passed"
    /\ UNCHANGED <<commitVars, collectionVars, first, count, ended, pc, failure>>

Terminated ==
    /\ pc \in {"done", "failed"}
    /\ UNCHANGED vars

Next ==
    \/ FirstItem
    \/ NextEnds
    \/ CommitTimer
    \/ \E s \in Sinks : Begin(s) \/ Push(s) \/ FinishSession(s)
    \/ BeginFails
    \/ FirstFails
    \/ PushFirst
    \/ PushFails
    \/ PushDone
    \/ PushFurther
    \/ GatherFails
    \/ GatherEnds
    \/ FinishFails
    \/ CollectionFinished
    \/ CommitNext
    \/ CommitOk
    \/ CommitErr
    \/ CommitDone
    \/ Tick
    \/ CollectTick
    \/ Terminated

Spec == Init /\ [][Next]_vars

(***************************************************************************)
(* The stream owes nothing, it may stay silent; the clock, the runtime,    *)
(* the collectors and Source::commit do what they have begun.              *)
(***************************************************************************)
FairSpec ==
    /\ Spec
    /\ WF_vars(CommitTimer)
    /\ \A s \in Sinks : WF_vars(Begin(s) \/ Push(s) \/ FinishSession(s))
    /\ WF_vars(BeginFails \/ FirstFails \/ PushFirst)
    /\ WF_vars(PushFails \/ PushDone)
    /\ WF_vars(GatherEnds /\ collectTimer = "passed")
    /\ WF_vars(FinishFails \/ CollectionFinished)
    /\ WF_vars(CommitNext)
    /\ WF_vars(CommitOk \/ CommitErr)
    /\ WF_vars(CommitDone)
    /\ WF_vars(Tick)
    /\ WF_vars(CollectTick)

-----------------------------------------------------------------------------
(***************************************************************************)
(* Properties                                                              *)
(***************************************************************************)

\* The epochs that have left the runner, committed or being committed.
Handed == committed \o committing

\* At-least-once delivery: no position reaches Source::commit before every
\* collector has finished, with Ok, a collection into which its record was
\* pushed (sink.rs:109, "Finish the collection and durably acknowledge every
\* successfully pushed record").
CommittedIsDurable ==
    \A i \in DOMAIN Handed : \A j \in DOMAIN Handed[i] :
        \A s \in Sinks : Handed[i][j] \in accepted[s]

\* finish() is called on whole collections only: all the sessions of a unit
\* hold the same records, at least one, all those tracked since the last
\* acknowledgement; never the session opened for an error of the stream, nor
\* one that has missed a push.
WholeCollectionsFinish ==
    \A s \in Sinks : session[s] \in {"finishing", "finished"} =>
        /\ pushed[s] = (acked + 1) .. tracked
        /\ pushed[s] # {}

\* A commit deadline that passes while a collection is under way is applied
\* when the collection has finished, and includes it: nothing acknowledged
\* stays in an open epoch (README.md:118-119).
PassedDeadlineIncludesUnit ==
    [][Kind = "AfterRecordsOrTimeout" /\ policy.deadline = "passed" /\ acked' > acked
         => currentEpoch' = << >>]_vars

\* Every record pushed is part of a collection that finishes sooner or later,
\* even if it never fills and the stream stays silent, unless the run fails.
CollectionsFinish ==
    \A n \in 1 .. MaxRecords : (tracked >= n) ~> (acked >= n \/ pc = "failed")

\* The runner implements the promise of AckedProgress.
Promise == INSTANCE AckedProgress WITH
    delivered <- acked,
    persisted <- CommittedThrough,
    outcome   <- CASE pc = "done"   -> "ok"
                   [] pc = "failed" -> "error"
                   [] OTHER         -> "running"

ImplementsPromise == Promise!Spec
==============================================================================
