--------------------------- MODULE BatchedPipeline ---------------------------
(***************************************************************************)
(* The runners of `.batched(...)`: LinearPipeline and the cloned and       *)
(* shared FanoutPipeline, with BatchPolicy::consume.                       *)
(*                                                                         *)
(*   transformed stream -> chunks_timeout -> try_from_chunk                *)
(*       -> [channel of Prefetch batches] -> track, deliver, acknowledge,  *)
(*          commit                                                         *)
(*                                                                         *)
(* Without prefetch the runner polls the batches itself, between two       *)
(* deliveries.  With prefetch a producer reserves a place in a bounded     *)
(* channel, polls one batch, and sends it, while the consumer delivers;    *)
(* both live in one task, so they interleave where they await, and         *)
(* nowhere else.                                                           *)
(***************************************************************************)
EXTENDS CommitState, Delivery, SequencesExt

CONSTANTS
    BatchSize,    \* BatchPolicy.size
    Prefetch,     \* BatchPolicy.prefetch; 0 is demand-driven
    MaxRecords    \* bound: the records the stream yields before it must end or fail

ASSUME BatchedAssumption ==
    /\ BatchSize \in 1 .. UsizeMax
    /\ Prefetch \in Nat
    /\ MaxRecords \in Nat

VARIABLES
    produced,     \* records the transformed stream has yielded
    streamEnded,  \* the stream has returned None
    chunk,        \* the items chunks_timeout has gathered
    chunkTimer,   \* the deadline of the chunk
    producer,     \* where the prefetch producer is
    channel,      \* batches materialised ahead, <<Bad>> for an error
    batch,        \* the batch being consumed
    untracked,    \* its records that have not been tracked yet
    pc,           \* where the consumer is
    failure,      \* the PipelineError the run returned, "none" so far
    errorsAt      \* history: how many records each error item came after

streamVars == <<produced, streamEnded, chunk, chunkTimer, errorsAt>>

batchVars == <<producer, channel, batch, untracked>>

vars == <<commitVars, deliveryVars, streamVars, batchVars, pc, failure>>

\* An item of the stream is the position of a record, or an error of the
\* source or of the transform.
Bad == 0

Item == Nat

PCs == {"next", "tracking", "deliver", "committing", "finishing", "done", "failed"}

Errors == {"none", "Source", "Transform", "Sinks", "Commit", "NoSinks"}

TypeOK ==
    /\ CommitTypeOK
    /\ DeliveryTypeOK
    /\ produced \in 0 .. MaxRecords
    /\ streamEnded \in BOOLEAN
    /\ chunk \in Seq(Item) /\ Len(chunk) < BatchSize
    /\ chunkTimer \in Deadlines
    /\ chunkTimer = "none" <=> chunk = << >>
    /\ producer \in {"reserving", "polling", "returned"}
    /\ channel \in Seq(Seq(Item))
    /\ batch \in Seq(Position) /\ untracked \in Seq(Position)
    /\ pc \in PCs
    /\ failure \in Errors
    /\ errorsAt \subseteq 0 .. MaxRecords

Init ==
    /\ CommitInit
    /\ DeliveryInit
    /\ produced = 0
    /\ streamEnded = FALSE
    /\ chunk = << >>
    /\ chunkTimer = "none"
    /\ producer = IF Prefetch = 0 THEN "returned" ELSE "reserving"
    /\ channel = << >>
    /\ batch = << >>
    /\ untracked = << >>
    /\ errorsAt = {}
    /\ IF Sinks = {} THEN pc = "failed" /\ failure = "NoSinks"
                     ELSE pc = "next" /\ failure = "none"

Fail(error) == pc' = "failed" /\ failure' = error

Goto(label) == pc' = label /\ UNCHANGED failure

\* The producer is dropped with the run; it is not polled while the consumer
\* runs through code that does not await.
Polled == pc \notin {"tracking", "finishing", "done", "failed"}

-----------------------------------------------------------------------------
(***************************************************************************)
(* One batch: what a chunk becomes, and who receives it.                   *)
(***************************************************************************)

\* Mutant: the good records of a chunk are kept, its errors are dropped.
TryFromChunkKeepsRest(items) == SelectSeq(items, LAMBDA item : item # Bad)

\* The first error discards the whole chunk.
TryFromChunk(items) == IF Bad \in Range(items) THEN <<Bad>> ELSE items

\* The consumer has its next batch, or the error it must return.
Receive(received) ==
    IF received = <<Bad>>
      THEN /\ \E error \in {"Source", "Transform"} : Fail(error)
           /\ UNCHANGED <<batch, untracked>>
      ELSE /\ batch' = received
           /\ untracked' = received
           /\ Goto("tracking")

\* chunks_timeout yields the items gathered.
Emit(items) ==
    /\ chunk' = << >>
    /\ chunkTimer' = "none"
    /\ LET made == TryFromChunk(items)
       IN  IF Prefetch = 0
             THEN /\ Receive(made)
                  /\ UNCHANGED <<producer, channel>>
             ELSE /\ channel' = Append(channel, made)
                  /\ producer' = IF made = <<Bad>> THEN "returned" ELSE "reserving"
                  /\ UNCHANGED <<batch, untracked, pc, failure>>

-----------------------------------------------------------------------------
(***************************************************************************)
(* Polling the batches: by the consumer between two deliveries, or by the  *)
(* producer once it holds a place in the channel.                          *)
(***************************************************************************)
Demanded == IF Prefetch = 0 THEN pc = "next" ELSE Polled /\ producer = "polling"

\* Mutant: the producer does not wait for a free place.
ReserveAlways ==
    /\ Polled
    /\ producer = "reserving"
    /\ producer' = "polling"
    /\ UNCHANGED <<commitVars, deliveryVars, streamVars, channel, batch, untracked, pc, failure>>

Reserve ==
    /\ Polled
    /\ producer = "reserving"
    /\ Len(channel) < Prefetch
    /\ producer' = "polling"
    /\ UNCHANGED <<commitVars, deliveryVars, streamVars, channel, batch, untracked, pc, failure>>

\* The stream yields an item.  The first one arms the chunk's timer; one that
\* fills the chunk emits it in the same poll.
Gather(item) ==
    LET items == Append(chunk, item)
    IN  IF Len(items) = BatchSize
          THEN Emit(items)
          ELSE /\ chunk' = items
               /\ chunkTimer' = IF chunk = << >> THEN "armed" ELSE chunkTimer
               /\ UNCHANGED <<batchVars, pc, failure>>

PollRecord ==
    /\ Demanded
    /\ ~streamEnded
    /\ produced < MaxRecords
    /\ produced' = produced + 1
    /\ Gather(produced + 1)
    /\ UNCHANGED <<commitVars, deliveryVars, streamEnded, errorsAt>>

PollError ==
    /\ Demanded
    /\ ~streamEnded
    /\ Gather(Bad)
    /\ errorsAt' = errorsAt \cup {produced}
    /\ UNCHANGED <<commitVars, deliveryVars, produced, streamEnded>>

\* The chunk's timeout has passed and the stream is pending.
PollTimeout ==
    /\ Demanded
    /\ chunkTimer = "passed"
    /\ Emit(chunk)
    /\ UNCHANGED <<commitVars, deliveryVars, produced, streamEnded, errorsAt>>

\* The stream returns None: the rest of the chunk is a batch.
PollRest ==
    /\ Demanded
    /\ chunk # << >>
    /\ streamEnded' = TRUE
    /\ Emit(chunk)
    /\ UNCHANGED <<commitVars, deliveryVars, produced, errorsAt>>

\* The stream returns None and no item is left: the batches end.
PollEnd ==
    /\ Demanded
    /\ chunk = << >>
    /\ streamEnded' = TRUE
    /\ IF Prefetch = 0
         THEN Finish /\ Goto("finishing") /\ UNCHANGED producer
         ELSE producer' = "returned" /\ UNCHANGED <<commitVars, pc, failure>>
    /\ UNCHANGED <<deliveryVars, produced, chunk, chunkTimer, errorsAt, channel, batch, untracked>>

-----------------------------------------------------------------------------
(***************************************************************************)
(* The consumer.                                                           *)
(***************************************************************************)

\* receiver.recv yields the oldest batch of the channel.
ReceiveBatch ==
    /\ pc = "next"
    /\ channel # << >>
    /\ channel' = Tail(channel)
    /\ Receive(Head(channel))
    /\ UNCHANGED <<commitVars, deliveryVars, streamVars, producer>>

\* Mutant: the run ends as soon as the producer has returned.
ChannelClosedEarly ==
    /\ pc = "next"
    /\ Prefetch > 0
    /\ producer = "returned"
    /\ Finish
    /\ Goto("finishing")
    /\ UNCHANGED <<deliveryVars, streamVars, batchVars>>

\* The channel is empty and its sender is gone.
ChannelClosed ==
    /\ pc = "next"
    /\ Prefetch > 0
    /\ producer = "returned"
    /\ channel = << >>
    /\ Finish
    /\ Goto("finishing")
    /\ UNCHANGED <<deliveryVars, streamVars, batchVars>>

\* The commit deadline wins the select.
CommitTimer ==
    /\ pc = "next"
    /\ Deadline = "passed"
    /\ HandleTimeout
    /\ Goto("committing")
    /\ UNCHANGED <<deliveryVars, streamVars, batchVars>>

\* for record in batch.iter(): one iteration.
TrackRecord ==
    /\ pc = "tracking"
    /\ untracked # << >>
    /\ Track(Head(untracked))
    /\ untracked' = Tail(untracked)
    /\ UNCHANGED <<deliveryVars, streamVars, producer, channel, batch, pc, failure>>

StartBatch ==
    /\ pc = "tracking"
    /\ untracked = << >>
    /\ StartDelivery(Range(batch))
    /\ Goto("deliver")
    /\ UNCHANGED <<commitVars, streamVars, batchVars>>

Deliver(s) ==
    /\ pc = "deliver"
    /\ SinkAccepts(s) \/ SinkRefuses(s) \/ SinkPanics(s)
    /\ UNCHANGED <<commitVars, streamVars, batchVars, pc, failure>>

DeliverySucceeds ==
    /\ pc = "deliver"
    /\ Drained
    /\ Failures = {}
    /\ AcknowledgeDelivery(Len(batch))
    /\ EndDelivery
    /\ batch' = << >>
    /\ Goto("committing")
    /\ UNCHANGED <<streamVars, producer, channel, untracked>>

DeliveryFails ==
    /\ pc = "deliver"
    /\ Drained
    /\ Failures # {}
    /\ Fail("Sinks")
    /\ UNCHANGED <<commitVars, deliveryVars, streamVars, batchVars>>

CommitNext ==
    /\ pc \in {"committing", "finishing"}
    /\ PopEligible
    /\ UNCHANGED <<deliveryVars, streamVars, batchVars, pc, failure>>

CommitOk ==
    /\ pc \in {"committing", "finishing"}
    /\ CommitSucceeds
    /\ UNCHANGED <<deliveryVars, streamVars, batchVars, pc, failure>>

CommitErr ==
    /\ pc \in {"committing", "finishing"}
    /\ CommitFails
    /\ Fail("Commit")
    /\ UNCHANGED <<deliveryVars, streamVars, batchVars>>

CommitDone ==
    /\ pc \in {"committing", "finishing"}
    /\ NothingEligible
    /\ Goto(IF pc = "committing" THEN "next" ELSE "done")
    /\ UNCHANGED <<commitVars, deliveryVars, streamVars, batchVars>>

-----------------------------------------------------------------------------
(***************************************************************************)
(* Time.                                                                   *)
(***************************************************************************)
Tick ==
    /\ pc \notin {"done", "failed"}
    /\ DeadlinePasses
    /\ UNCHANGED <<deliveryVars, streamVars, batchVars, pc, failure>>

ChunkTick ==
    /\ pc \notin {"done", "failed"}
    /\ chunkTimer = "armed"
    /\ chunkTimer' = "passed"
    /\ UNCHANGED <<commitVars, deliveryVars, produced, streamEnded, chunk, errorsAt,
                   batchVars, pc, failure>>

Terminated ==
    /\ pc \in {"done", "failed"}
    /\ UNCHANGED vars

Next ==
    \/ Reserve
    \/ PollRecord
    \/ PollError
    \/ PollTimeout
    \/ PollRest
    \/ PollEnd
    \/ ReceiveBatch
    \/ ChannelClosed
    \/ CommitTimer
    \/ TrackRecord
    \/ StartBatch
    \/ \E s \in Sinks : Deliver(s)
    \/ DeliverySucceeds
    \/ DeliveryFails
    \/ CommitNext
    \/ CommitOk
    \/ CommitErr
    \/ CommitDone
    \/ Tick
    \/ ChunkTick
    \/ Terminated

Spec == Init /\ [][Next]_vars

(***************************************************************************)
(* The stream owes nothing, it may stay silent.  The clock advances, tasks *)
(* that are ready are polled, and sinks and Source::commit answer.         *)
(***************************************************************************)
FairSpec ==
    /\ Spec
    /\ WF_vars(Reserve)
    /\ WF_vars(PollTimeout)
    /\ WF_vars(PollEnd /\ streamEnded)
    /\ WF_vars(ReceiveBatch)
    /\ WF_vars(ChannelClosed)
    /\ WF_vars(CommitTimer)
    /\ WF_vars(TrackRecord \/ StartBatch)
    /\ \A s \in Sinks : WF_vars(Deliver(s))
    /\ WF_vars(DeliverySucceeds \/ DeliveryFails)
    /\ WF_vars(CommitNext)
    /\ WF_vars(CommitOk \/ CommitErr)
    /\ WF_vars(CommitDone)
    /\ WF_vars(Tick)
    /\ WF_vars(ChunkTick)

-----------------------------------------------------------------------------
(***************************************************************************)
(* Properties                                                              *)
(***************************************************************************)

\* The epochs that have left the runner, committed or being committed.
Handed == committed \o committing

\* At-least-once delivery of batches: no position reaches Source::commit
\* before every sink has answered Ok for the batch that holds it, while the
\* producer materialises later batches and the commit timer runs.
CommittedIsDurable ==
    \A i \in DOMAIN Handed : \A j \in DOMAIN Handed[i] :
        \A s \in Sinks : Handed[i][j] \in accepted[s]

\* Epochs reach Source::commit in source order, none skipped or repeated:
\* chunking, the channel and the tracking of a batch keep the stream's order.
CommitsInSourceOrder == InOrder(Handed)

\* A record that follows an error of the stream is never delivered, nor
\* committed: the error discards its chunk and ends the run at that batch,
\* even if the producer had gone on polling (sink.rs, try_from_chunk).
NothingPastAnError == \A position \in errorsAt : tracked <= position

\* While a batch is delivered, no more than Prefetch batches are materialised
\* ahead of it; none at all without prefetch, where the stream is not even
\* polled (the doc of BatchPolicy::prefetch).
Backpressure ==
    pc = "deliver" => produced - tracked <= Prefetch * BatchSize

\* Between two batches a counting policy leaves fewer than Threshold
\* acknowledged records uncommitted, even where the count would overflow.
CountBoundsBacklog ==
    (pc = "next" /\ ~EpochBoundaries
        /\ Kind \in {"AfterRecords", "AfterRecordsOrTimeout"})
      => acked - CommittedThrough < Threshold

\* Every record the stream has yielded is handed to the sinks sooner or
\* later, even if the chunk it is in never fills and the stream stays silent
\* (README.md:133-135), unless the run fails: producer and consumer never wait
\* for one another for ever.
ChunksAreDelivered ==
    \A n \in 1 .. MaxRecords :
        (produced >= n) ~> (tracked >= n \/ pc = "failed")

\* With a timeout policy every acknowledged record is committed sooner or
\* later, unless the run fails.
TimeoutCommitsProgress ==
    \A n \in 1 .. MaxRecords :
        (acked >= n) ~> (CommittedThrough >= n \/ pc = "failed")

\* The runner implements the promise of AckedProgress.
Promise == INSTANCE AckedProgress WITH
    delivered <- acked,
    persisted <- CommittedThrough,
    outcome   <- CASE pc = "done"   -> "ok"
                   [] pc = "failed" -> "error"
                   [] OTHER         -> "running"

ImplementsPromise == Promise!Spec
==============================================================================
