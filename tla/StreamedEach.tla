----------------------------- MODULE StreamedEach -----------------------------
(***************************************************************************)
(* A run of `.each()` with the stream it polls: EachPipeline and           *)
(* TransformStage as one system.  The runner polls the stream only between *)
(* two records, inside a select with the commit deadline: when the         *)
(* deadline wins, the poll is abandoned and taken up again after the       *)
(* commit, with the transforms in flight still there.  The caller may ask  *)
(* for a shutdown at any time, in the middle of a delivery or a commit.    *)
(***************************************************************************)
EXTENDS EachPipeline, TransformStage

ASSUME StreamedAssumption == MaxRecords = MaxItems

runVars == <<vars, stageVars>>

RunInit == Init /\ StageInit

Returned == pc \in {"done", "failed"}

\* The stream is polled while the runner waits for a record.
PollStream ==
    /\ pc = "next"
    /\ Poll \/ PollStep
    /\ UNCHANGED vars

\* Mutant: the runner skips an item whose transform failed and goes on.
RecordOrSkipArrives ==
    /\ Yield
    /\ IF result[Head(queue)] = "ok" THEN NextRecord ELSE pc = "next" /\ UNCHANGED vars

\* The poll returns a record.
RecordArrives ==
    /\ Yield
    /\ result[Head(queue)] = "ok"
    /\ NextRecord

\* The poll returns an error: the run returns it.
ErrorArrives ==
    /\ Yield
    /\ result[Head(queue)] # "ok"
    /\ NextFails
    /\ failure' = result[Head(queue)]

StreamEnds ==
    /\ YieldEnd
    /\ NextEnds

\* Mutant: what is in flight is lost with the abandoned poll.
DeadlineDropsTransforms ==
    /\ phase \in {"idle", "pending"}
    /\ CommitTimer
    /\ phase' = "idle"
    /\ queue' = << >>
    /\ UNCHANGED <<shutdown, ended, admitted, result, outputs, late>>

\* Mutant: the deadline is looked at before a poll, and not while it waits.
DeadlineBeforePoll ==
    /\ phase = "idle"
    /\ CommitTimer
    /\ UNCHANGED stageVars

\* The deadline wins the select: records.next() is abandoned, not the stream.
DeadlineWins ==
    /\ phase \in {"idle", "pending"}
    /\ CommitTimer
    /\ phase' = "idle"
    /\ UNCHANGED <<shutdown, ended, admitted, queue, result, outputs, late>>

\* What the runner does without the stream.
RunnerStep ==
    /\ \/ \E s \in Sinks : Deliver(s)
       \/ DeliverySucceeds
       \/ DeliveryFails
       \/ CommitNext
       \/ CommitOk
       \/ CommitErr
       \/ CommitDone
    /\ UNCHANGED stageVars

\* The run has returned: its stream goes with it.
StreamDropped ==
    /\ Returned
    /\ DropStream
    /\ UNCHANGED vars

ShutdownRequested ==
    /\ ~Returned
    /\ RequestShutdown
    /\ UNCHANGED vars

TimePasses ==
    /\ Tick
    /\ UNCHANGED stageVars

RunOver ==
    /\ Returned
    /\ Over
    /\ UNCHANGED runVars

RunNext ==
    \/ PollStream
    \/ RecordArrives
    \/ ErrorArrives
    \/ StreamEnds
    \/ DeadlineWins
    \/ RunnerStep
    \/ StreamDropped
    \/ ShutdownRequested
    \/ TimePasses
    \/ RunOver

RunSpec == RunInit /\ [][RunNext]_runVars

(***************************************************************************)
(* The source owes nothing: it may stay silent for ever.  The rest does.   *)
(* The runner polls the stream while it waits, a poll returns, and a       *)
(* transform that is polled again and again comes to its result; sinks and *)
(* Source::commit answer; the clock advances.  The select polls the timer  *)
(* each time it is polled, so a deadline that stays passed while the       *)
(* runner waits again and again is noticed (strong fairness).              *)
(***************************************************************************)
RunFairSpec ==
    /\ RunSpec
    /\ WF_runVars(PollStream \/ RecordArrives \/ ErrorArrives \/ StreamEnds)
    /\ \A i \in Item : SF_runVars(pc = "next" /\ TransformFinishes(i) /\ UNCHANGED vars)
    /\ SF_runVars(DeadlineWins)
    /\ WF_runVars(RunnerStep)
    /\ WF_runVars(TimePasses)

-----------------------------------------------------------------------------
(***************************************************************************)
(* Properties                                                              *)
(***************************************************************************)

\* A run that returns Ok, at the source's end or after a shutdown that came
\* at the worst moment, has delivered to every sink and committed every record
\* that was taken from the source (README.md:120-122 and linear.rs:142).
ShutdownCommitsAdmitted ==
    pc = "done" =>
        /\ CommittedThrough = admitted
        /\ \A s \in Sinks : accepted[s] = 1 .. admitted

\* An error of the source or of a transform is reported only after every
\* record before it was delivered and acknowledged, although transforms behind
\* it may have finished long ago, and nothing behind it reaches a sink.
ErrorsInPlace ==
    /\ pc \in {"next", "deliver"} => tracked = Len(outputs)
    /\ failure \in {"Source", "Transform"} =>
          /\ acked = Len(outputs) - 1
          /\ failure = result[Len(outputs)]
          /\ \A s \in Sinks : accepted[s] = 1 .. acked

\* A shutdown ends the run, whatever it was doing and however silent the
\* source is.
ShutdownReturns == shutdown ~> Returned

\* The deadline is served while transforms are in flight: an acknowledged
\* record is committed in time even if the record behind it is still being
\* transformed, or never comes (README.md:117-120).
TimeoutServedWhileTransforming ==
    \A n \in 1 .. MaxRecords :
        (acked >= n) ~> (CommittedThrough >= n \/ pc = "failed")
===============================================================================
