---------------------------- MODULE TransformStage ----------------------------
(***************************************************************************)
(* The transformed stream every runner polls:                              *)
(*                                                                         *)
(*   source.stream().take_until(shutdown).map(transform)                   *)
(*       .buffered(transform.max_concurrency())                            *)
(*                                                                         *)
(* One poll of `buffered` first fills up: while it holds fewer than        *)
(* max_concurrency items it polls take_until, which looks at the shutdown  *)
(* before it polls the source.  Then it polls the transforms it holds, and *)
(* yields the front one if that is finished.  Transforms finish in any     *)
(* order, and only while they are polled.  take_until, map and buffered    *)
(* are the futures crate's; their order and arguments are the runner's.    *)
(***************************************************************************)
EXTENDS Integers, Sequences, SequencesExt

CONSTANTS
    Concurrency,   \* Transform::max_concurrency
    MaxItems       \* bound: the items the source yields before it is silent or ends

ASSUME StageAssumption ==
    /\ Concurrency \in Nat \ {0}
    /\ MaxItems \in Nat

VARIABLES
    phase,      \* where the poll of the stream is
    shutdown,   \* the shutdown future is ready
    ended,      \* take_until has yielded None, at the shutdown or at the source's end
    admitted,   \* items taken from the source, numbered from 1
    queue,      \* the items buffered holds, in the order of admission
    result,     \* item -> "running", "ok", or the error it came to
    outputs,    \* history: the items yielded, in that order
    late        \* history: items admitted since the shutdown was ready

stageVars == <<phase, shutdown, ended, admitted, queue, result, outputs, late>>

Item == 1 .. MaxItems

\* idle:     not being polled
\* filling:  about to ask for one more item, if there is a place for it
\* asking:   take_until saw no shutdown and polls the source
\* front:    polling the transforms
\* pending:  the poll returned Pending
\* ended:    the poll returned None
\* dropped:  the run has returned, its stream is gone
Phases == {"idle", "filling", "asking", "front", "pending", "ended", "dropped"}

Results == {"running", "ok", "Source", "Transform"}

StageTypeOK ==
    /\ phase \in Phases
    /\ shutdown \in BOOLEAN
    /\ ended \in BOOLEAN
    /\ admitted \in 0 .. MaxItems
    /\ queue \in Seq(1 .. admitted)
    /\ result \in [1 .. admitted -> Results]
    /\ outputs \in Seq(1 .. admitted)
    /\ late \in Nat

StageInit ==
    /\ phase = "idle"
    /\ shutdown = FALSE
    /\ ended = FALSE
    /\ admitted = 0
    /\ queue = << >>
    /\ result = << >>
    /\ outputs = << >>
    /\ late = 0

Over == phase \in {"ended", "dropped"}

-----------------------------------------------------------------------------
\* The runner polls for the next record: for the first time, or because
\* something woke it up.
Poll ==
    /\ phase \in {"idle", "pending"}
    /\ phase' = "filling"
    /\ UNCHANGED <<shutdown, ended, admitted, queue, result, outputs, late>>

\* Mutant: only running transforms count, finished ones do not.
HasPlaceForRunning == Len(SelectSeq(queue, LAMBDA i : result[i] = "running")) < Concurrency

HasPlace == Len(queue) < Concurrency

\* buffered has no place left, or its source is over: on to the transforms.
StopFilling ==
    /\ phase = "filling"
    /\ ended \/ ~HasPlace
    /\ phase' = "front"
    /\ UNCHANGED <<shutdown, ended, admitted, queue, result, outputs, late>>

\* Mutant: take_until around the stream that is empty, not around the source.
LookAtShutdownWhenEmpty ==
    /\ phase = "filling"
    /\ ~ended /\ HasPlace
    /\ IF shutdown /\ queue = << >>
         THEN ended' = TRUE /\ phase' = "front"
         ELSE phase' = "asking" /\ UNCHANGED ended
    /\ UNCHANGED <<shutdown, admitted, queue, result, outputs, late>>

\* Mutant: the shutdown never reaches the stream.
LookAtNothing ==
    /\ phase = "filling"
    /\ ~ended /\ HasPlace
    /\ phase' = "asking"
    /\ UNCHANGED <<shutdown, ended, admitted, queue, result, outputs, late>>

\* take_until polls the shutdown first.
LookAtShutdown ==
    /\ phase = "filling"
    /\ ~ended /\ HasPlace
    /\ IF shutdown
         THEN ended' = TRUE /\ phase' = "front"
         ELSE phase' = "asking" /\ UNCHANGED ended
    /\ UNCHANGED <<shutdown, admitted, queue, result, outputs, late>>

\* The source yields a record, which starts its transform, or an error, for
\* which there is nothing to wait.  Another round of filling follows.
SourceYields ==
    /\ phase = "asking"
    /\ admitted < MaxItems
    /\ admitted' = admitted + 1
    /\ queue' = Append(queue, admitted + 1)
    /\ \E r \in {"running", "Source"} : result' = Append(result, r)
    /\ late' = IF shutdown THEN late + 1 ELSE late
    /\ phase' = "filling"
    /\ UNCHANGED <<shutdown, ended, outputs>>

\* The source has nothing yet.
SourcePends ==
    /\ phase = "asking"
    /\ phase' = "front"
    /\ UNCHANGED <<shutdown, ended, admitted, queue, result, outputs, late>>

\* The source's natural end.
SourceEnds ==
    /\ phase = "asking"
    /\ ended' = TRUE
    /\ phase' = "front"
    /\ UNCHANGED <<shutdown, admitted, queue, result, outputs, late>>

-----------------------------------------------------------------------------
\* A transform that is being polled comes to its result.
TransformFinishes(i) ==
    /\ phase = "front"
    /\ i \in Range(queue)
    /\ result[i] = "running"
    /\ \E r \in {"ok", "Transform"} : result' = [result EXCEPT ![i] = r]
    /\ UNCHANGED <<phase, shutdown, ended, admitted, queue, outputs, late>>

\* Mutant: the first transform to finish is yielded first (buffer_unordered).
YieldAny ==
    /\ phase = "front"
    /\ \E i \in Range(queue) :
          /\ result[i] # "running"
          /\ queue' = Remove(queue, i)
          /\ outputs' = Append(outputs, i)
    /\ phase' = "idle"
    /\ UNCHANGED <<shutdown, ended, admitted, result, late>>

\* The front transform is finished: the poll returns its record or its error.
Yield ==
    /\ phase = "front"
    /\ queue # << >> /\ result[Head(queue)] # "running"
    /\ queue' = Tail(queue)
    /\ outputs' = Append(outputs, Head(queue))
    /\ phase' = "idle"
    /\ UNCHANGED <<shutdown, ended, admitted, result, late>>

\* The front transform is not finished, or there is none yet.
StayPending ==
    /\ phase = "front"
    /\ IF queue = << >> THEN ~ended ELSE result[Head(queue)] = "running"
    /\ phase' = "pending"
    /\ UNCHANGED <<shutdown, ended, admitted, queue, result, outputs, late>>

\* The source is over and everything admitted is out: the poll returns None.
YieldEnd ==
    /\ phase = "front"
    /\ queue = << >> /\ ended
    /\ phase' = "ended"
    /\ UNCHANGED <<shutdown, ended, admitted, queue, result, outputs, late>>

-----------------------------------------------------------------------------
\* The run returns before the end of the stream: what is in flight is dropped.
DropStream ==
    /\ phase \in {"idle", "pending"}
    /\ phase' = "dropped"
    /\ UNCHANGED <<shutdown, ended, admitted, queue, result, outputs, late>>

\* The caller asks the run to stop, at any time.
RequestShutdown ==
    /\ ~shutdown /\ ~Over
    /\ shutdown' = TRUE
    /\ UNCHANGED <<phase, ended, admitted, queue, result, outputs, late>>

\* One poll of the stream, but for its result.
PollStep ==
    \/ StopFilling
    \/ LookAtShutdown
    \/ SourceYields
    \/ SourcePends
    \/ SourceEnds
    \/ \E i \in Item : TransformFinishes(i)
    \/ StayPending

StreamOver ==
    /\ Over
    /\ UNCHANGED stageVars

StageNext ==
    \/ Poll
    \/ PollStep
    \/ Yield
    \/ YieldEnd
    \/ DropStream
    \/ RequestShutdown
    \/ StreamOver

StageSpec == StageInit /\ [][StageNext]_stageVars

-----------------------------------------------------------------------------
(***************************************************************************)
(* Properties                                                              *)
(***************************************************************************)

\* However the transforms finish, the outputs are in the order of the source,
\* none missing and none twice, errors in their own place (README.md:130-131,
\* "their outputs remain in the source stream's observed order").
InSourceOrder ==
    /\ \A k \in DOMAIN outputs : outputs[k] = k
    /\ \A k \in DOMAIN queue : queue[k] = Len(outputs) + k
    /\ Len(outputs) + Len(queue) = admitted

\* A slow transform at the front holds the source back: no more than
\* max_concurrency items are taken from it before the front one is out,
\* however many behind it are finished (README.md:130).
HeldBack == admitted - Len(outputs) <= Concurrency

\* run_until's shutdown is an immediate cutoff (linear.rs:140): of the items
\* the source has ready once the shutdown is, at most the one that was being
\* asked for is still admitted, however much room buffered has.
CutoffIsImmediate == late <= 1

\* The stage is the ordered stream the runners rely on.
Stream == INSTANCE RecordStream WITH
    handed <- admitted,
    out    <- outputs,
    status <- IF Over THEN phase ELSE "open"

ImplementsRecordStream == Stream!Spec
===============================================================================
