---------------------------- MODULE KafkaPipeline ----------------------------
(***************************************************************************)
(* A pipeline of `.each()` over a KafkaSource, through rebalances, failed  *)
(* runs, crashes and restarts: EachPipeline with its positions given a     *)
(* meaning, the messages of a consumer group's partitions, and its commits *)
(* an effect, the group's offsets.                                         *)
(***************************************************************************)
EXTENDS EachPipeline, KafkaSource

CONSTANT MaxRestarts   \* bound: runs after the first

ASSUME RestartAssumption == MaxRestarts \in Nat /\ Sinks # {}

VARIABLE restarts

systemVars == <<vars, kafkaVars, restarts>>

SystemTypeOK ==
    /\ TypeOK
    /\ KafkaTypeOK
    /\ Len(message) = tracked
    /\ restarts \in 0 .. MaxRestarts

SystemInit ==
    /\ Init
    /\ KafkaInit
    /\ restarts = 0

-----------------------------------------------------------------------------
TakeMessage ==
    /\ NextRecord
    /\ \E p \in Partitions : Fetch(p)
    /\ UNCHANGED restarts

\* All sinks have accepted the message.
MessageDelivered ==
    /\ DeliverySucceeds
    /\ delivered' = delivered \cup {message[i] : i \in unit}
    /\ UNCHANGED <<groupOffset, owned, cursor, message, stray, rebalances, restarts>>

OffsetsCommitted ==
    /\ CommitOk
    /\ SourceCommits(Checkpoint(committing[1]))
    /\ UNCHANGED restarts

CommitRefused ==
    /\ CommitErr
    /\ SourceFailsToCommit(Checkpoint(committing[1]))
    /\ UNCHANGED restarts

\* What the runner does without the source, once it has a message.
RunnerSteps ==
    /\ \/ \E s \in Sinks : Deliver(s)
       \/ DeliveryFails
       \/ CommitNext
       \/ CommitDone
    /\ UNCHANGED <<kafkaVars, restarts>>

\* What it does while it waits for one: the consumer or the transform fails,
\* the run is shut down, its deadline passes.
WaitingSteps ==
    /\ NextFails \/ NextEnds \/ CommitTimer \/ Tick
    /\ UNCHANGED <<kafkaVars, restarts>>

Returned == pc \in {"done", "failed"}

\* A new run_until: Init, as the state that follows.
NewRun ==
    /\ policy' = NewPolicy
    /\ currentEpoch' = << >> /\ stagedEpochs' = << >> /\ eligibleEpochs' = << >>
    /\ currentEpochAcknowledged' = FALSE
    /\ committing' = << >> /\ committed' = << >>
    /\ tracked' = 0 /\ acked' = 0
    /\ unit' = {}
    /\ branch' = [s \in Sinks |-> "idle"]
    /\ accepted' = [s \in Sinks |-> {}]
    /\ pc' = "next" /\ failure' = "none"

\* The run is lost where it is: its process dies, or its future is dropped.
\* Or it has returned.  The next one is a new consumer with a new runner; a
\* commit that was under way may still come to its end, now or later.
Restart ==
    /\ restarts < MaxRestarts
    /\ restarts' = restarts + 1
    /\ NewRun
    /\ message' = << >>
    /\ owned' = Partitions
    /\ cursor' = groupOffset
    /\ \/ UNCHANGED stray
       \/ /\ committing # << >> /\ pc # "failed"
          /\ ~Exhausted(Checkpoint(committing[1]))
          /\ stray' = stray \cup {Checkpoint(committing[1])}
    /\ UNCHANGED <<groupOffset, delivered, rebalances>>

Group ==
    /\ \/ \E p \in Partitions : Revoke(p) \/ Assign(p) \/ OtherDelivers(p) \/ OtherCommits(p)
       \/ \E checkpoint \in stray : StrayCommit(checkpoint)
    /\ UNCHANGED <<vars, restarts>>

SystemOver ==
    /\ Returned
    /\ UNCHANGED systemVars

SystemNext ==
    \/ TakeMessage
    \/ MessageDelivered
    \/ OffsetsCommitted
    \/ CommitRefused
    \/ RunnerSteps
    \/ WaitingSteps
    \/ Restart
    \/ Group
    \/ SystemOver

SystemSpec == SystemInit /\ [][SystemNext]_systemVars

(***************************************************************************)
(* The broker hands out the messages there are, a task that is ready is    *)
(* polled, sinks and commits are answered, a run that has returned is      *)
(* followed by another, and the other members deliver what they are given. *)
(***************************************************************************)
SystemFairSpec ==
    /\ SystemSpec
    /\ WF_systemVars(TakeMessage)
    /\ WF_systemVars(MessageDelivered \/ RunnerSteps)
    /\ WF_systemVars(OffsetsCommitted \/ CommitRefused)
    /\ WF_systemVars(Returned /\ Restart)
    /\ \A p \in Partitions : WF_systemVars(OtherDelivers(p) /\ UNCHANGED <<vars, restarts>>)

-----------------------------------------------------------------------------
(***************************************************************************)
(* Properties                                                              *)
(***************************************************************************)

\* End-to-end at-least-once: no message below the group's offset has been
\* missed by the sinks, whichever member delivered it, in whichever run, and
\* however late a commit arrived; so none is skipped by whoever resumes there
\* (kafka/mod.rs:431-432, "offsets are advanced only through the source's
\* committer after successful delivery").
NothingSkipped ==
    \A p \in Partitions : \A o \in 0 .. groupOffset[p] - 1 :
        [partition |-> p, offset |-> o] \in delivered

\* A commit that returned Ok covers every message of its epoch, although a
\* rebalance may have rewound a partition in the middle of it, and leaves the
\* partitions the epoch did not observe as they were (kafka/mod.rs:236-237).
CommitCoversEpoch ==
    [][committed' # committed /\ committed' # << >> =>
         LET epoch == committed'[Len(committed')]
         IN  /\ \A i \in DOMAIN epoch :
                    groupOffset'[message[epoch[i]].partition] > message[epoch[i]].offset
             /\ \A p \in Partitions :
                    (\A i \in DOMAIN epoch : message[epoch[i]].partition # p)
                        => groupOffset'[p] = groupOffset[p]]_systemVars

\* After a clean stop of the one member, the group resumes at the very next
\* message: nothing is lost and nothing is delivered again.
CleanStopResumesNext ==
    (pc = "done" /\ rebalances = 0 /\ stray = {} /\ restarts = 0) =>
        groupOffset = cursor

\* An epoch with a partition whose offset cannot be advanced commits nothing,
\* of the other partitions neither, and fails the run.
ExhaustedCommitsNothing ==
    [][(/\ committing # << >> /\ restarts' = restarts
        /\ committing' = << >> \/ failure' # failure
        /\ \E i \in DOMAIN committing[1] : message[committing[1][i]].offset = OffsetMax)
         => failure' = "Commit" /\ groupOffset' = groupOffset]_systemVars

\* Every message is delivered to every sink in the end, by this member or by
\* another, unless the last run has returned: what a run that failed or was
\* lost had not committed is delivered again (core/src/source.rs:54).
EveryMessageDelivered ==
    \A p \in Partitions : \A o \in 0 .. LogEnd[p] - 1 :
        <>(\/ [partition |-> p, offset |-> o] \in delivered
           \/ Returned /\ restarts = MaxRestarts)
===============================================================================
