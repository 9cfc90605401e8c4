----------------------------- MODULE EachPipeline -----------------------------
(***************************************************************************)
(* The runners of `.each()`: LinearPipeline and the cloned and shared      *)
(* FanoutPipeline.  One record at a time is taken from the transformed     *)
(* stream, tracked, delivered to every sink, acknowledged, and whatever    *)
(* the commit policy made eligible is committed before the next record is  *)
(* polled.  Between two records the runner waits for the stream and for    *)
(* the commit deadline at once.                                            *)
(*                                                                         *)
(* The three run_until functions differ in how a record reaches a sink     *)
(* (moved, cloned, or behind an Arc), not in control.  The stream of       *)
(* records, the source's and the transform's errors in it, and its end     *)
(* (natural or by shutdown) are the environment.                           *)
(***************************************************************************)
EXTENDS CommitState, Delivery

CONSTANT MaxRecords   \* bound: the records the stream yields before it must end or fail

ASSUME EachAssumption == MaxRecords \in Nat

VARIABLES
    pc,         \* where the run is
    failure     \* the PipelineError the run returned, "none" so far

vars == <<commitVars, deliveryVars, pc, failure>>

\* next:       waiting for a record or the commit deadline
\* deliver:    waiting for the sinks
\* committing: in commit_eligible, to go back to next
\* finishing:  in the last commit_eligible, after finish
PCs == {"next", "deliver", "committing", "finishing", "done", "failed"}

Errors == {"none", "Source", "Transform", "Sinks", "Commit", "NoSinks"}

TypeOK ==
    /\ CommitTypeOK
    /\ DeliveryTypeOK
    /\ pc \in PCs
    /\ failure \in Errors

Init ==
    /\ CommitInit
    /\ DeliveryInit
    /\ IF Sinks = {} THEN pc = "failed" /\ failure = "NoSinks"
                     ELSE pc = "next" /\ failure = "none"

Fail(error) == pc' = "failed" /\ failure' = error

Goto(label) == pc' = label /\ UNCHANGED failure

-----------------------------------------------------------------------------
\* The stream yields the next record: it is tracked before any sink sees it.
NextRecord ==
    /\ pc = "next"
    /\ tracked < MaxRecords
    /\ Track(tracked + 1)
    /\ StartDelivery({tracked + 1})
    /\ Goto("deliver")

\* The stream yields an error of the source or of the transform.
NextFails ==
    /\ pc = "next"
    /\ \E error \in {"Source", "Transform"} : Fail(error)
    /\ UNCHANGED <<commitVars, deliveryVars>>

\* The stream ends: natural end, or shutdown once the admitted records are out.
NextEnds ==
    /\ pc = "next"
    /\ Finish
    /\ Goto("finishing")
    /\ UNCHANGED deliveryVars

\* The commit deadline wins the select.
CommitTimer ==
    /\ pc = "next"
    /\ Deadline = "passed"
    /\ HandleTimeout
    /\ Goto("committing")
    /\ UNCHANGED deliveryVars

-----------------------------------------------------------------------------
Deliver(s) ==
    /\ pc = "deliver"
    /\ SinkAccepts(s) \/ SinkRefuses(s) \/ SinkPanics(s)
    /\ UNCHANGED <<commitVars, pc, failure>>

DeliverySucceeds ==
    /\ pc = "deliver"
    /\ Drained
    /\ Failures = {}
    /\ AcknowledgeDelivery(1)
    /\ EndDelivery
    /\ Goto("committing")

DeliveryFails ==
    /\ pc = "deliver"
    /\ Drained
    /\ Failures # {}
    /\ Fail("Sinks")
    /\ UNCHANGED <<commitVars, deliveryVars>>

-----------------------------------------------------------------------------
CommitNext ==
    /\ pc \in {"committing", "finishing"}
    /\ PopEligible
    /\ UNCHANGED <<deliveryVars, pc, failure>>

CommitOk ==
    /\ pc \in {"committing", "finishing"}
    /\ CommitSucceeds
    /\ UNCHANGED <<deliveryVars, pc, failure>>

CommitErr ==
    /\ pc \in {"committing", "finishing"}
    /\ CommitFails
    /\ Fail("Commit")
    /\ UNCHANGED deliveryVars

CommitDone ==
    /\ pc \in {"committing", "finishing"}
    /\ NothingEligible
    /\ Goto(IF pc = "committing" THEN "next" ELSE "done")
    /\ UNCHANGED <<commitVars, deliveryVars>>

-----------------------------------------------------------------------------
\* Time passes while the run is under way.
Tick ==
    /\ pc \notin {"done", "failed"}
    /\ DeadlinePasses
    /\ UNCHANGED <<deliveryVars, pc, failure>>

\* The run has returned.
Terminated ==
    /\ pc \in {"done", "failed"}
    /\ UNCHANGED vars

Next ==
    \/ NextRecord
    \/ NextFails
    \/ NextEnds
    \/ CommitTimer
    \/ \E s \in Sinks : Deliver(s)
    \/ DeliverySucceeds
    \/ DeliveryFails
    \/ CommitNext
    \/ CommitOk
    \/ CommitErr
    \/ CommitDone
    \/ Tick
    \/ Terminated

Spec == Init /\ [][Next]_vars

-----------------------------------------------------------------------------
(***************************************************************************)
(* The inductive invariant: CommitInv on the epochs; what is acknowledged  *)
(* has been accepted by every sink; and what each control point knows.     *)
(***************************************************************************)
AckedIsAccepted ==
    /\ \A s \in Sinks : 1 .. acked \subseteq accepted[s]
    /\ \A s \in Sinks : branch[s] = "ok" => unit \subseteq accepted[s]

Control ==
    /\ pc = "deliver" =>
          /\ unit = {tracked}
          /\ tracked = acked + 1
          /\ currentEpoch # << >>
          /\ \A s \in Sinks : branch[s] # "idle"
    /\ pc # "deliver" =>
          /\ \A s \in Sinks : branch[s] # "running"
          /\ failure = "Sinks" <=> Failures # {}
    /\ pc \in {"next", "committing", "finishing", "done"} =>
          /\ tracked = acked
          /\ stagedEpochs = << >>
          /\ \A s \in Sinks : branch[s] = "idle"
    /\ pc \in {"next", "deliver", "done"} => NothingEligible
    /\ pc \in {"finishing", "done"} => currentEpoch = << >>
    /\ pc = "failed" <=> failure # "none"

IInv ==
    /\ TypeOK
    /\ CommitInv
    /\ AckedIsAccepted
    /\ Control

-----------------------------------------------------------------------------
(***************************************************************************)
(* Properties                                                              *)
(***************************************************************************)

\* The epochs that have left the runner, committed or being committed.
Handed == committed \o committing

\* At-least-once delivery: no position reaches Source::commit before every
\* sink has answered Ok for its record (README.md:89-90, "the source checkpoint
\* is committed only when every sink succeeds"), whatever the policy, the
\* timer and the epoch boundaries do.
CommittedIsDurable ==
    \A i \in DOMAIN Handed : \A j \in DOMAIN Handed[i] :
        \A s \in Sinks : Handed[i][j] \in accepted[s]

\* Epochs reach Source::commit in source order, each one a run of positions
\* that begins where the one before ended: no position is skipped over and
\* none is committed a second time.  An epoch that carries its frontier may
\* begin earlier, but never later.
CommitsInSourceOrder == InOrder(Handed)

\* A run that returns Ok has committed every record it ever took from the
\* stream (README.md:120, "Clean EOF or graceful shutdown commits remaining
\* acknowledged progress"), across timeouts, boundaries and partial counts.
CleanStopCommitsAll == pc = "done" => CommittedThrough = tracked

\* The bookkeeping of a counting policy agrees with the commits: between two
\* records it holds exactly the acknowledged records that are not committed,
\* always fewer than the threshold, and the timer runs just when there are
\* some.  Only without boundaries: an epoch closed at a boundary resets the
\* count while a later acknowledged epoch is still open.
PolicyCountsPending ==
    (pc = "next" /\ ~EpochBoundaries) =>
        /\ Kind \in {"AfterRecords", "AfterRecordsOrTimeout"} =>
              /\ policy.acknowledged = acked - CommittedThrough
              /\ policy.acknowledged < Threshold
        /\ Kind = "AfterRecordsOrTimeout" =>
              (Deadline # "none" <=> acked > CommittedThrough)

\* The backlog of a counting policy stays within its threshold even when
\* epochs are closed at boundaries.  on_committed then resets the count while
\* an acknowledged record of the next epoch is still open, so that the count
\* runs one record behind: one, and never more (policy.rs:159-190).
BacklogBounded ==
    (pc = "next" /\ Kind \in {"AfterRecords", "AfterRecordsOrTimeout"}) =>
        acked - CommittedThrough <= Threshold

\* A run never returns while the delivery of a sink is still under way, and
\* when it reports sink failures some sink has failed and every sink has been
\* heard (README.md:89, "Every fanout task is drained").
ReturnsDrained ==
    pc \in {"done", "failed"} =>
        /\ \A s \in Sinks : branch[s] # "running"
        /\ (failure = "Sinks" <=> Failures # {})

\* The timer measures from the first uncommitted acknowledgement: later
\* acknowledgements never push a deadline back (README.md:117-118).
DeadlineNeverExtended ==
    [][Kind = "AfterRecordsOrTimeout" /\ policy.deadline = "passed"
         => policy'.deadline = "passed" \/ committed' # committed]_vars

\* The runner implements the promise of AckedProgress.
Promise == INSTANCE AckedProgress WITH
    delivered <- acked,
    persisted <- CommittedThrough,
    outcome   <- CASE pc = "done"   -> "ok"
                   [] pc = "failed" -> "error"
                   [] OTHER         -> "running"

ImplementsPromise == Promise!Spec

===============================================================================
