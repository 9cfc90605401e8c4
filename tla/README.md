# A TLA+ model of sluiceway

sluiceway moves records from a source, through a transform, to one or several
sinks, and commits the source's progress once every sink has accepted the
records. What can go wrong in it is not the data but the bookkeeping between
those steps: which positions are in which checkpoint epoch, which epochs may be
committed, and when. This directory models that bookkeeping and the runners
around it, the transform stage that feeds them, the Kafka source and the checkpoint
stores, checks them with TLC on small instances, and proves the main results with
TLAPS for every instance.

References to the repository are relative to `src/`; `core` stands for
`sluiceway-core/src`.

## 1. Inventory

| Component | State | Operations | Interacts with |
| --- | --- | --- | --- |
| Commit policies (`core/pipeline/policy.rs`) | acknowledged count, deadline | `on_position`, `on_acknowledged`, `deadline`, `on_timeout`, `on_committed` | called by the commit state |
| Commit state (`policy.rs`) | open epoch, staged epochs, eligible epochs, "open epoch is acknowledged" | `track`, `acknowledge_delivery`, `deadline`, `handle_timeout`, `finish`, `commit_eligible` | policy, `Checkpoint`, `Source::commit` |
| Sink delivery (`core/sink.rs`, `core/pipeline/fanout/mod.rs`) | one task per sink | deliver, drain | sinks (external) |
| Collector sessions (`sink.rs`, `fanout/collected.rs`) | one session per collector | begin, push, finish | collectors (external) |
| Record-at-a-time runners (`linear.rs`, `fanout/each.rs`) | where the run is | `run_until` | stream, commit state, delivery |
| Batched runners (`linear.rs`, `fanout/batched.rs`, `BatchPolicy::consume`) | chunk, channel of batches, producer, consumer | `run_until`, `consume` | stream, commit state, delivery |
| Collecting runners (`linear.rs`, `fanout/collected.rs`) | the collection being filled | `run_until` | stream, commit state, sessions |
| Transform stage (`core/transform.rs`, the `take_until`/`map`/`buffered` of each runner) | transforms in flight, shutdown | poll, yield, cut off | source stream, runner, the caller's shutdown |
| Source and Checkpoint traits (`core/source.rs`) | checkpoint | `stream`, `commit`, `start_epoch`, `include_position`, `start_next_epoch` | implemented by users and by Kafka |
| Kafka source (`sluiceway-contrib/src/kafka/mod.rs`) | offsets by partition | `stream`, `include_position`, `commit` | broker and consumer group (external) |
| Checkpoint store trait (`core/checkpoint.rs`) | one checkpoint | `save`, `load` | implemented by the stores |
| File store (`sluiceway-io/src/checkpoint/file.rs`) | the file, temporary files, `TEMP_FILE_SEQUENCE` | `save`, `load` | file system (external), other processes |
| Object and SQL stores (`object.rs`, `sql.rs`) | object or row per pipeline | `initialize`, `save`, `load` | object store, database (external) |
| Builders, identity, telemetry, type erasure, errors | none that a run depends on | | |

The hard behaviours are: the commit deadline racing the stream while a delivery
must never be interrupted; a poll of the stream abandoned with transforms in flight;
a shutdown at any moment; epochs that are closed inside a delivery unit that can still
fail; several eligible epochs of which one fails to commit; fanout branches that fail
or panic while others still write; the prefetch producer and the consumer sharing a
bounded channel; errors inside a chunk; rebalances between a delivery and its commit;
commits and saves that take effect after their caller has gone; crashes between the
steps of a save; counts and offsets at the edge of their type. Each is listed under
`hazards` in `PROJECT.json`, at its line, with the properties that would catch it.

What makes the components correct:

* policies: the count agrees with what is acknowledged and not committed; the
  timer runs from the first acknowledgement after a commit and is never pushed back;
* commit state: the epochs form one list in source order; only acknowledged
  epochs leave it, oldest first;
* runners: nothing is committed before every sink has accepted it, a run that
  returns `Ok` has committed everything, acknowledged progress is committed in
  time, and nothing waits for ever on the runner's own account;
* transform stage: the source's order, bounded concurrency, an immediate cutoff;
* Kafka: no message below a group offset was missed by the sinks;
* stores: an atomic register per pipeline, also under failures and crashes.

## 2. Modules

```
CommitPolicy <- CommitState <-+- EachPipeline      --implements--> AckedProgress
                Delivery    <-+- BatchedPipeline   --implements-->      "
                Collections <-+- CollectedPipeline --implements-->      "

TransformStage --implements--> RecordStream
EachPipeline + TransformStage  =  StreamedEach
EachPipeline + KafkaSource     =  KafkaPipeline

FileCheckpoint   --implements--> CheckpointStore      (until a power cut)
KeyedCheckpoint  --implements--> CheckpointStore      (one per pipeline id)

CommitStateProofs <- EachPipelineProofs, BatchedPipelineProofs, CollectedPipelineProofs
EachPipelineProofs <- StreamedEachProofs (and the stage), KafkaPipelineProofs
FileCheckpointProofs, KeyedCheckpointProofs
```

Every module that TLC runs has an `MC` module of its own, which declares the model
values and defines the constants that are functions.

**CommitPolicy** - the three library policies and `Custom`, any implementation
of the trait. A callback is the set of its outcomes (the policy afterwards and
the action it asks for). Time is abstracted to what a runner can observe of a
deadline: none, armed, or passed.

**CommitState** - one operator per method of `CommitState`, and the loop of
`commit_eligible` cut at its `await`: `PopEligible`, then `CommitSucceeds` or
`CommitFails`. Checkpoints are opaque to the runner, so an epoch is kept as the
sequence of positions folded into it. `committed`, `tracked` and `acked` are
history variables; the Rust fields are `policy`, `currentEpoch`, `stagedEpochs`,
`eligibleEpochs` and `currentEpochAcknowledged`. `committing` is the epoch in
the hands of `Source::commit`.

**Delivery** - the unit in the hands of the sinks and what each branch has come
to. The runner goes on when every branch has answered. A sink task of a fanout
may panic (a `JoinError`); a panic of a linear pipeline's sink unwinds the run
itself and is left out.

**Collections** - the sessions of one collection: begin, push, finish of every
collector, each answered `Ok` or `Err`, finish tasks of a fanout possibly
panicking. `finish` makes durable what was pushed into that session, and
nothing else.

**EachPipeline** - `run_until` of `.each()`. `pc = "next"` is the wait for the
stream and the commit deadline, `"deliver"` the wait for the sinks,
`"committing"` and `"finishing"` the two calls of `commit_eligible`. The linear,
cloned and shared versions share their control and are one module; they differ
in the number of sinks and in how a record reaches them. `PipelineError::Sink`
and `PipelineError::Sinks` are both "Sinks".

**BatchedPipeline** - `run_until` of `.batched(...)` with `BatchPolicy::consume`.
`chunks_timeout` (external) gathers items into `chunk`; `TryFromChunk` makes it a
batch or an error. With `Prefetch = 0` the consumer polls the chunks itself;
otherwise the producer reserves a place (`Reserve`), polls, and sends into
`channel`. Both run in one task, so neither is interrupted between two awaits:
the producer is not polled while the consumer tracks a batch.

**CollectedPipeline** - `run_until` of `.collect(...)`: the first item begins the
sessions (even if it is an error), records are tracked and pushed, and the
collection ends when it is full, when its deadline passes, or with the stream.

**AckedProgress** - the promise common to the three: records are delivered in
order, the source's durable progress moves only forward and only over delivered
records, a run that returns `Ok` has persisted all it delivered, and a run that
has returned does nothing more.

**TransformStage** - `source.stream().take_until(shutdown).map(apply).buffered(n)`
one poll at a time: `phase` is where the poll is. A poll fills the queue while
there is room (`LookAtShutdown`, then the source is asked), polls the transforms
in flight, and looks at the front one. `result[i]` is "running", "ok", or the error
of item i; an error of the source needs no transform. The combinators are the futures
crate and external: `take_until` polls its future before the stream and never polls
the stream again afterwards; `buffered` fills up first and yields in order. `late`
counts the items admitted after the shutdown was ready.

**RecordStream** - what the three runner modules assume of the stream they poll:
items come out in the source's order, the end comes last. A refinement of it is what
lets those modules have a bare environment instead of a stage each.

**StreamedEach** - `EachPipeline` with the stage it polls, as one system: the stage
makes steps only while the runner waits for a record, the deadline may win the select
with transforms in flight (`DeadlineWins`), and the shutdown may be requested in any
state. `NextRecord`, `NextFails` and `NextEnds` of the runner, free in `EachPipeline`,
happen exactly when the stage yields.

**KafkaSource** - checkpoints are maps from partitions to the largest offset
(`Include`), a commit translates them to next offsets (`NextOffset`, `Exhausted`
where `checked_add` fails) and gives them to the broker on a blocking thread. The
broker and the group are external: a partition can be taken away and given back, its
next owner starts at the group's offset, a commit is accepted for a partition that is
no longer owned, and one that fails may have taken effect for any of its partitions.
`from_config` disables automatic commits (`AutoCommit`). `NoCommitter` does nothing
and is left out.

**KafkaPipeline** - `EachPipeline` over `KafkaSource`, with restarts: a run that
failed, or is dropped anywhere (a crash), is followed by another that starts from the
group's offsets, and the commit that was under way may come to its end at any
time later (`stray`). `delivered` is what all sinks of some member have accepted.

**CheckpointStore** - the abstract register: a save takes effect at one moment while
it is under way; one that failed may still take effect later (`lingering`); a load
returns what the register held at one moment. `NoCheckpoint` and `Option<S>` have no
state of their own.

**FileCheckpoint** - `save` and `load` of the file store, one file operation per
action, by savers of several processes that may have the same process id. Files are
numbered by the checkpoint they were created for; names are the checkpoint's `Path`
and pairs of process id and `TEMP_FILE_SEQUENCE`. The file system is external:
operations on names are atomic, `dir` reaches `disk` in the order of its changes and
at any later time (`FlushDirectory`), a power cut goes back to `disk` and may tear
every file that was not synced.

**KeyedCheckpoint** - the object store and the three SQL dialects: an operation is a
request, its execution (one atomic statement, put or get), and its answer. Answers
are lost, clients give up or die before or after the execution, and a save whose
client gave up may still be executed (`abandoned`). PostgreSQL's `initialize` is two
statements. `KeyOf` says which ids are one key for the store.

## 3. Runs

| Run | Instance | What it shows |
| --- | --- | --- |
| `each_custom_policy` | any policy, epochs closed anywhere, frontier carried, 2 sinks, 5 records | at-least-once delivery, source order, clean stop, drained branches and the refinement, whatever the policy answers |
| `each_frontier_carry` | `AfterRecords` of 2, frontier carried, 1 sink, 4 records | a violation: see section 6 |
| `streamed_each` | `AfterRecordsOrTimeout` of 3 = `usize::MAX`, 2 transforms at once, 4 items, fairness | the runner and the stage it polls: shutdown at any moment, errors behind slow transforms, the deadline served in between, count and timer agree with the commits |
| `batched_demand_fanout` | no prefetch, batches of 2, `AfterRecords` of 3, epochs closed anywhere, 2 sinks, 5 records | whole batches are committed, in order |
| `batched_prefetch` | prefetch 2, batches of 2, `AfterRecordsOrTimeout` of 3 = `usize::MAX`, 6 records, fairness | nothing lost in the channel, nothing past an error, back-pressure, the count at its limit, every record delivered and every acknowledged one committed, refinement |
| `collected_fanout` | `AfterRecordsOrTimeout` of 3, epochs closed anywhere, 2 collectors, collections of 2, 4 records, fairness | only whole collections are finished and committed; a deadline that passed includes the unit just acknowledged; collections that never fill are finished; refinement |
| `stage_order` | 3 transforms at once, 5 items | the stage is the ordered stream, bounded, cut off at once |
| `file_crashes` | 2 processes with one id, 1 saver each, 1 loader, 2 saves, 1 crash, 1 power cut, fairness | an atomic register, never torn; no save meets the temporary file of another; every save returns |
| `file_not_durable` | 1 saver, 2 saves, 1 power cut | a violation: see section 6 |
| `keyed_postgres` | 2 clients of one id, 1 of another, 2 saves | an atomic register for each id; an initialized store stays usable |
| `keyed_mysql_collation` | 2 clients of two ids, 2 saves, case ignored | a violation: see section 6 |
| `kafka_group` | 2 partitions, one of which reaches the largest offset (2), the other has 1 message; 6 records, `AfterRecords` of 3 with epochs closed anywhere, 1 rebalance, 1 restart, fairness | nothing below a group offset was missed, in any run and by any member; everything is delivered in the end; an exhausted offset commits nothing |

Bounds. `MaxRecords` and `MaxItems` are the only bounds on the behaviour of the
runners; `Threshold`, `UsizeMax`, `BatchSize`, `CollectSize`, `Prefetch` and
`Concurrency` are configuration. With one record more than a threshold there is a
commit and progress left after it; with two batches or collections and a rest there is
a full one, one ended by its timeout and one ended by the stream. `UsizeMax =
Threshold` with units of two makes the sum overflow. Two sinks let one answer before,
after, and differently from the other. Six records with batches of 2 fill the batch
being delivered and the channel. Five items over three transforms let the queue fill,
turn over, and be cut off when full. `MaxSaves` of 2 lets an old save and a new one
race; `MaxCrashes` and `MaxPowerCuts` of 1 are enough, as the invariants proved hold
for every number of them. In `kafka_group` one rebalance makes a partition rewind
while an epoch still names it, and one restart leaves a commit behind; a third
partition or a second rebalance repeats these cases. Deadlock is checked everywhere: a
run that has returned takes a step of its own (`Terminated`, `RunOver`, `StreamOver`,
`SystemOver`), anything else that stops is an error.

Fairness. `FairSpec` never asks anything of the stream. It asks that the clock
advances, that a task that is ready is polled (tokio), and that each call of
a sink, a collector or `Source::commit` is answered. The select between two units is
not biased; for batches and collections weak fairness of `CommitTimer` is enough,
because a unit that wins the select leads to an acknowledgement, which applies a
passed deadline itself. In `StreamedEach` a poll of the stage enables and disables
the timer's step, so strong fairness is asked for: the select polls the timer every
time it is polled. A transform that is polled again and again comes to its result
(strong fairness, as it is polled only while the runner waits). `PollTimeout` (of the
chunk) and the timeout of a collection are biased towards the stream, and only finitely
many records can win against them. `SystemFairSpec` asks in addition that the broker
hands out the messages there are, that a run that has returned is followed by another
while the bound allows, and that other members deliver what they are given. For
files, a save that has begun runs on, since it has no await; no failure is owed.

## 4. Proofs

Eight modules hold theorems; all are proved from the named assumptions on the constants,
which TLC evaluates in every run, and for every value of the constants.

`CommitStateProofs` and `EachPipelineProofs`: the record-at-a-time runner, for every
policy, threshold, `usize` width, finite set of sinks and number of records.

* `Invariant`: `IInv` is inductive. It is `CommitInv` (the epochs, from the committed
  ones to the open one, are one list in source order that covers exactly the tracked
  positions, and all but the staged and the open ones are acknowledged),
  `AckedIsAccepted` (what is acknowledged, every sink has accepted) and `Control`
  (what each control point knows). None of the properties is inductive alone: that
  a committed position is durable needs that eligible epochs are acknowledged, and
  that a clean stop leaves nothing needs the coverage of the whole list.
* `TypeCorrect`, `AtLeastOnce`, `SourceOrder`, `CleanStop` and `Drain`: the safety
  properties of the runs, from the invariant.
* `DeadlineStays`: the action property that a passed deadline is cleared by a commit only.
* `CountIsPending`: the count of a counting policy is exactly what is acknowledged and
  not committed, wherever no epoch is closed at a boundary. `CountInv` is its
  strengthening: either nothing waits to be committed and the count is exact, or one
  epoch waits, holding everything acknowledged, and its commit makes zero exact.
* `BacklogIsBounded`: with epochs closed anywhere, at most `Threshold` acknowledged
  records are uncommitted. `Backlog` is its strengthening: the count runs at most one
  record behind, and while epochs wait, at most the last acknowledged record is in
  none of them, because an epoch is staged only by the record that follows it.
* `Refinement`: the runner implements `AckedProgress`, step by step.

One lemma per operation of the commit state (`TrackInv`, `AcknowledgeInv`,
`HandleTimeoutInv`, `FinishInv`, `PopEligibleInv`, `CommitSucceedsInv`), which the
lemmas on the runner's actions cite. `MovedEpochsInv` is the idea behind them: every
operation but `track` only moves the marks between the parts of one list.

`BatchedPipelineProofs`, for every batch size and prefetch: `BatchedInv` adds to the
above that what is tracked, the rest of the batch, the batches of the channel, the
chunk, and what the stream has yielded follow one another without a gap (`Reach`,
`RunFrom`, `ChannelInOrder`, `InStream`), an error being the last thing that is passed
on. `BatchesAtLeastOnce`, `BatchesInSourceOrder`, `NothingAfterAnError` and
`BatchedRefinement` follow; `NothingAfterAnError` needs the gap-free chain, as the
producer goes on polling behind an error until its chunk is full.
`BacklogBelowThreshold` uses `CountInv`: a count that would saturate has reached the
threshold, so it is never the exact one that is kept. `PrefetchIsBounded` is
`Backpressure`, from `Ahead`: what the stream has yielded beyond the k-th batch of the
channel fits into the batches behind it and the chunk, for every k, so that no step
has to add up the sizes of all the batches.

`CollectedPipelineProofs`, for every collection size: `CollectedInv` says what each
session holds at each control point (`SessionOK`); a session that is being finished
holds exactly the records tracked since the last acknowledgement. From it
`CollectionsAtLeastOnce`, `WholeCollections`, `DeadlineClosesUnit` and
`CollectedRefinement`.

`StreamedEachProofs`, first for the stage alone, for every concurrency and number of
items: `StageInvariant` (`InSourceOrder`: what is out, then the queue, is 1, 2, ...,
`admitted`; with the bound on the queue and what each phase knows), from it
`StageHoldsBack` and `StageCutsOff`, and `StageRefinement`: the stage implements
`RecordStream`. The cutoff needs `StageControl`: an item is asked for only in a round
that found no shutdown. Then for the runner and its stream as one system: `RunIsRunner`
(the composition implements `EachPipeline`, so every theorem about that holds of it,
among them `RunCountIsPending` and `RunDeadlineStays`), `RunStreamOrdered` (and
`RecordStream`, although polls are abandoned), and, from the invariant `Coupled`,
`RunCommitsAdmitted` and `RunErrorsInPlace`. `Coupled` is what neither part knows: the
records tracked are the items that came out, but for an error that came out last; no
poll is under way while the runner is busy; it finishes only once the stream has ended.

`KafkaPipelineProofs`, for every set of partitions, length of their logs, policy, set of
sinks, and number of rebalances and restarts:

* `CheckpointLargest`, about the operator: the checkpoint of an epoch names exactly the
  partitions its messages have, each with the largest of their offsets, in whatever
  order a rewind made them come. A checkpoint is built by recursion along the epoch;
  `CheckpointSteps` shows that the recursive function exists and unfolds, by
  `IntervalInduction`: a set of naturals that holds 0 and is closed under successor up
  to n holds them all, since a missing one would have a least, `<` being well-founded.
* `SystemInvariant`: `NothingSkipped` alone is not inductive, since a commit takes the
  offsets from an epoch. `GroupInv` adds that whatever the stream or a cursor has passed
  over (`StreamSkipsNothing`, `CursorSkipsNothing`) is delivered or a message of this
  run's stream; that what is acknowledged is delivered; and that a commit left behind by
  a lost run is safe at any time (`StraysAreSafe`), as what is delivered stays delivered.
  The invariant of the runner supplies the rest: an epoch being committed names
  acknowledged messages only (`CommittingIsSafe`). A rebalance or another member moves a
  cursor only to what is committed or delivered, and a restart is `Init` of the runner.
* `NothingIsSkipped` and `SystemTypeCorrect` follow, and `RunsOverGroup` and
  `BacklogOverGroup`: each run keeps the promises of the runner over the group.
* `CommitCovers` and `ExhaustionIsWhole`, action properties, from `CheckpointLargest`.
* `ResumesNext` is `CleanStopResumesNext`. Its strengthening `SoleInv` is about the one
  member in its first run: the messages of a partition ascend, the cursor is the offset
  after the last of them that was fetched, and the group's offset the one after the last
  whose position is committed. When every position is committed the two agree.
* `OffsetsOnlyAdvance`: before the first rebalance and the first restart no offset of
  the group goes back. Afterwards they may, by a commit that was left behind or that
  follows a rewind, which is why `NothingSkipped` cannot rest on it.

`FileCheckpointProofs`, for any number of savers, processes, equal process ids, crashes
and power cuts: `FileInvariant`, whose heart is `Whole`: every file that the path has
ever named, in the directory, on the disk or for a load, is synced, and what is synced
is not torn. `FileNeverTorn` and `FileNothingLeftBehind` follow. `FileRefinement` (the
file is an atomic register until the power is cut) needs one invariant more,
`OwnFiles`: no two saves under way write the same file, none writes a synced one, and
a file about to be renamed holds its saver's checkpoint; so a step before the rename
changes nothing that a user of the store can see, and the rename is the moment of
the save.

`KeyedCheckpointProofs`, for every dialect and any set of clients and ids:
`KeyedInvariant` and `InitializeSuffices` without further assumptions; `OwnCheckpoints`
and `KeyedRefinement` (an atomic register for each id) under `Distinct`, that the store
tells every two ids apart. `keyed_mysql_collation` shows why it is needed.

Only model-checked: liveness (`EveryMessageDelivered`, `ShutdownReturns`,
`TimeoutServedWhileTransforming`, `ChunksAreDelivered`, `TimeoutCommitsProgress`,
`CollectionsFinish`, `SaveReturns`), which rests on fairness and ENABLED, out of the
prover's reach. Every invariant, action property and refinement of the passing runs is
proved. The type invariants of the three runners, `TransformStage`, `FileCheckpoint`,
`KeyedCheckpoint` and `KafkaPipeline` are parts of the invariants proved; those of the
other modules are stated, and no run is spent on them.

## 5. What is not modelled

* Payloads, formatting, telemetry, builders and type erasure: no behaviour of a run
  depends on them. Of the identity only whether a store tells two ids apart.
* Panics outside a spawned task. Dropping the future of a run is modelled where
  something outlives it: a commit on a blocking thread (`KafkaPipeline`) and a request
  to a store (`KeyedCheckpoint`); elsewhere only what was committed remains.
* Durations: `Instant::now() + timeout` overflows for absurd timeouts; there is no
  clock value in the models.
* Encoding and parsing of checkpoints: a torn or foreign file does not parse and is an
  error of `load`; the models keep the checkpoint itself.
* The broker, the databases, the object stores and the file system, beyond what the
  modules say of them under "external". In particular a file system that loses
  a sync, or reorders a rename before the contents it names although they were
  synced, is not considered.
* A commit of a live run that failed because its answer was lost takes effect when it
  fails, not later; only the commit of a run that is gone comes late (`stray`). A later
  one would be as safe, since what it covers has been delivered and stays so.
* The stage in front of the batched and the collecting runners: they assume
  `RecordStream`, which the stage is proved to implement; only the record-at-a-time
  runner is also checked with it as one system.

## 6. Findings

`each_frontier_carry`: `README.md:104-106` says that checkpoint types representing
complete frontiers can override `start_next_epoch` to carry state into the next epoch,
and `core/source.rs:9` that `start_epoch` constructs the *first* epoch. The runner calls
`start_next_epoch` only where a policy answers `StartNewEpoch` inside an open epoch.
After every commit of the open epoch (by a count, a timeout, `CommitEach`) the next
position starts from `start_epoch` (`policy.rs:270`, `:279`), and the frontier is
lost: the run shows a committed checkpoint that does not cover the first position. The
repository's own test of the feature (`sluiceway/tests/pipeline.rs:1667`) uses
boundaries only.

`file_not_durable`: `core/checkpoint.rs:3` calls a `CheckpointStore` durable storage.
`FileCheckpoint::save` syncs the temporary file (`file.rs:95`) and renames it
(`file.rs:97`) but never syncs the directory, so where directories are written later a
power cut after `Ok` brings back the previous checkpoint, or none. The run shows one
save, `Ok`, a power cut, and an empty directory. What is there is whole in any
case (`NeverTorn`).

`keyed_mysql_collation`: `core/identity.rs:5` calls a pipeline id a stable identity for
durable checkpoint storage; ids are compared byte by byte and may contain both cases.
The MySQL table is created without a collation for `pipeline_id` (`sql.rs:168`), and
the defaults of MySQL ignore case: "orders" and "Orders" share a row, and each resumes
from the checkpoint of the other.

## 7. Plan

Done: the commit machinery; the three runners and their proofs; the transform stage and
its composition with a runner, with their proofs; Kafka with its group, rebalances and
restarts, and its proofs; the three stores with crashes and lost answers, and their
proofs.

Left: the group's offsets as an abstract specification of their own, that
`KafkaPipeline` would be shown to implement (each partition's offset moves only within
what is delivered), to which the batched and the collecting runners over Kafka could
be related too.
