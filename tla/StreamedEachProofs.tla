-------------------------- MODULE StreamedEachProofs --------------------------
(***************************************************************************)
(* The stage, and then the runner and its stream as one system, for every  *)
(* policy, concurrency, set of sinks and length of the stream.             *)
(*                                                                         *)
(* However the transforms finish and whenever the shutdown comes, the      *)
(* stage is the ordered stream of RecordStream, holds back at its          *)
(* concurrency, and a shutdown cuts it off at once.                        *)
(*                                                                         *)
(* As one system the runner takes steps of its own module only, and so     *)
(* does the stage, but for the polls the runner abandons, so that their    *)
(* invariants hold of them together.  What neither knows alone is how they *)
(* are coupled: the records tracked are the items that came out of the     *)
(* stream.                                                                 *)
(***************************************************************************)
EXTENDS StreamedEach, EachPipelineProofs

-----------------------------------------------------------------------------
(***************************************************************************)
(* The stage alone.                                                        *)
(***************************************************************************)

\* The source is asked only while there is a place and its end has not come,
\* and only the item that was being asked for at the shutdown is late.
StageControl ==
    /\ phase = "asking" => ~ended /\ HasPlace /\ late = 0
    /\ ~shutdown => late = 0
    /\ phase = "ended" => queue = << >>

\* The inductive invariant of the stage.
StageInv ==
    /\ StageTypeOK
    /\ InSourceOrder
    /\ Len(queue) <= Concurrency
    /\ CutoffIsImmediate
    /\ StageControl

\* The front item is the next one to come out.
LEMMA FrontIsNext ==
    ASSUME StageInv, queue # << >>
    PROVE  /\ Head(queue) = Len(outputs) + 1
           /\ Head(queue) \in 1 .. admitted
           /\ Len(queue) \in Nat \ {0}
  BY DEF StageInv, StageTypeOK, InSourceOrder

\* A step that takes nothing in and lets nothing out.
LEMMA QuietStep ==
    ASSUME StageInv,
           UNCHANGED <<admitted, queue, outputs, late>>,
           phase' \in Phases, shutdown' \in BOOLEAN, ended' \in BOOLEAN,
           result' \in [1 .. admitted -> Results],
           StageControl'
    PROVE  StageInv'
  BY DEF StageInv, StageTypeOK, InSourceOrder, CutoffIsImmediate

\* The source hands an item over: it joins the queue at the end.
LEMMA SourceYieldsInv ==
    ASSUME StageInv, SourceYields
    PROVE  StageInv'
<1>1. /\ phase = "asking" /\ phase' = "filling"
      /\ admitted' = admitted + 1 /\ admitted < MaxItems
      /\ queue' = Append(queue, admitted + 1)
      /\ late = 0 /\ late' \in {0, 1} /\ (~shutdown => late' = 0)
      /\ UNCHANGED <<shutdown, ended, outputs>>
  BY DEF SourceYields, StageInv, StageControl
<1>2. /\ admitted \in Nat /\ admitted' \in 0 .. MaxItems
      /\ queue \in Seq(1 .. admitted) /\ outputs \in Seq(1 .. admitted)
      /\ result \in [1 .. admitted -> Results]
      /\ Len(queue) < Concurrency
      /\ Len(queue) \in Nat /\ Len(outputs) \in Nat
  BY <1>1, StageAssumption DEF StageInv, StageTypeOK, StageControl, HasPlace
<1>3. queue \in Seq(1 .. admitted') /\ outputs \in Seq(1 .. admitted')
  <2>1. 1 .. admitted \subseteq 1 .. admitted'
    BY <1>1, <1>2
  <2> QED
    BY <1>2, <2>1, SeqMonotonic
<1>4. queue' \in Seq(1 .. admitted') /\ outputs' \in Seq(1 .. admitted')
  BY <1>1, <1>2, <1>3
<1>5. result' \in [1 .. admitted' -> Results]
  <2>1. PICK r \in {"running", "Source"} : result' = Append(result, r)
    BY DEF SourceYields
  <2>2. result \in Seq(Results) /\ Len(result) = admitted
    BY <1>2
  <2>3. /\ Append(result, r) \in Seq(Results)
        /\ Len(Append(result, r)) = admitted + 1
    BY <2>1, <2>2 DEF Results
  <2>4. Append(result, r) \in [1 .. Len(Append(result, r)) -> Results]
    BY <2>3, LenProperties
  <2> QED
    BY <1>1, <2>1, <2>3, <2>4
<1>6. InSourceOrder'
  <2>1. /\ Len(outputs) + Len(queue) = admitted
        /\ \A k \in 1 .. Len(queue) : queue[k] = Len(outputs) + k
        /\ \A k \in DOMAIN outputs : outputs[k] = k
    BY <1>2 DEF StageInv, InSourceOrder
  <2>2. /\ Len(queue') = Len(queue) + 1
        /\ \A k \in 1 .. Len(queue) + 1 : queue'[k] = Len(outputs) + k
    <3>1. /\ Len(queue) \in Nat /\ Len(outputs) \in Nat
          /\ admitted + 1 = Len(outputs) + (Len(queue) + 1)
      BY <1>2, <2>1
    <3>2. /\ Len(Append(queue, admitted + 1)) = Len(queue) + 1
          /\ \A k \in 1 .. Len(queue) : Append(queue, admitted + 1)[k] = queue[k]
          /\ Append(queue, admitted + 1)[Len(queue) + 1] = admitted + 1
      BY <1>2
    <3>3. ASSUME NEW k \in 1 .. Len(queue) + 1
          PROVE  Append(queue, admitted + 1)[k] = Len(outputs) + k
      <4>1. CASE k = Len(queue) + 1
        BY <3>1, <3>2, <4>1
      <4>2. CASE k \in 1 .. Len(queue)
        BY <2>1, <3>2, <4>2
      <4> QED
        BY <3>1, <4>1, <4>2
    <3> QED
      BY <1>1, <3>2, <3>3
  <2>3. DOMAIN queue' = 1 .. Len(queue) + 1
    BY <1>4, <2>2
  <2>4. Len(outputs') + Len(queue') = admitted'
    <3>1. /\ Len(queue') = Len(queue) + 1 /\ Len(outputs') = Len(outputs)
          /\ admitted' = admitted + 1
      BY <1>1, <2>2
    <3>2. Len(outputs) + Len(queue) = admitted /\ Len(queue) \in Nat /\ Len(outputs) \in Nat
      BY <1>2, <2>1
    <3> QED
      BY <3>1, <3>2
  <2> QED
    BY <1>1, <2>1, <2>2, <2>3, <2>4 DEF InSourceOrder
<1>7. StageTypeOK'
  BY <1>1, <1>2, <1>4, <1>5 DEF StageInv, StageTypeOK, Phases
<1>8. (Len(queue) <= Concurrency)'
  BY <1>1, <1>2, StageAssumption
<1>9. CutoffIsImmediate' /\ StageControl'
  BY <1>1 DEF CutoffIsImmediate, StageControl
<1> QED
  BY <1>6, <1>7, <1>8, <1>9 DEF StageInv

\* The front item comes out.
LEMMA YieldInv ==
    ASSUME StageInv, Yield
    PROVE  StageInv'
<1>1. /\ queue # << >>
      /\ queue' = Tail(queue) /\ outputs' = Append(outputs, Head(queue))
      /\ phase' = "idle"
      /\ UNCHANGED <<shutdown, ended, admitted, result, late>>
  BY DEF Yield
<1>2. /\ queue \in Seq(1 .. admitted) /\ outputs \in Seq(1 .. admitted)
      /\ Len(queue) <= Concurrency /\ Concurrency \in Nat
      /\ admitted \in Nat /\ Len(queue) \in Nat /\ Len(outputs) \in Nat
  BY StageAssumption DEF StageInv, StageTypeOK
<1>3. /\ Len(queue') = Len(queue) - 1 /\ Len(outputs') = Len(outputs) + 1
      /\ \A k \in 1 .. Len(queue) - 1 : queue'[k] = queue[k + 1]
      /\ queue' \in Seq(1 .. admitted) /\ outputs' \in Seq(1 .. admitted)
  BY <1>1, <1>2, FrontIsNext
<1>4. InSourceOrder'
  <2>1. /\ Len(outputs) + Len(queue) = admitted
        /\ \A k \in 1 .. Len(queue) : queue[k] = Len(outputs) + k
        /\ \A k \in 1 .. Len(outputs) : outputs[k] = k
    BY <1>2 DEF StageInv, InSourceOrder
  <2>2. \A k \in 1 .. Len(outputs) + 1 : outputs'[k] = k
    BY <1>1, <1>2, <2>1, FrontIsNext
  <2>3. \A k \in 1 .. Len(queue) - 1 : queue'[k] = Len(outputs') + k
    <3> SUFFICES ASSUME NEW k \in 1 .. Len(queue) - 1 PROVE queue'[k] = Len(outputs') + k
      OBVIOUS
    <3>1. k \in Nat /\ k + 1 \in 1 .. Len(queue) /\ Len(outputs) \in Nat
      BY <1>2
    <3>2. queue'[k] = Len(outputs) + (k + 1)
      BY <1>3, <2>1, <3>1
    <3> QED
      BY <1>3, <3>1, <3>2
  <2>4. DOMAIN outputs' = 1 .. Len(outputs) + 1 /\ DOMAIN queue' = 1 .. Len(queue) - 1
    BY <1>3
  <2>5. Len(outputs') + Len(queue') = admitted'
    <3>1. /\ Len(queue') = Len(queue) - 1 /\ Len(outputs') = Len(outputs) + 1
          /\ admitted' = admitted
      BY <1>1, <1>3
    <3>2. Len(outputs) + Len(queue) = admitted /\ Len(queue) \in Nat /\ Len(outputs) \in Nat
      BY <1>2, <2>1
    <3> QED
      BY <3>1, <3>2
  <2> QED
    BY <2>2, <2>3, <2>4, <2>5 DEF InSourceOrder
<1>5. StageTypeOK'
  BY <1>1, <1>3 DEF StageInv, StageTypeOK, Phases
<1>6. (Len(queue) <= Concurrency)'
  BY <1>2, <1>3
<1>7. CutoffIsImmediate' /\ StageControl'
  BY <1>1 DEF StageInv, CutoffIsImmediate, StageControl
<1> QED
  BY <1>4, <1>5, <1>6, <1>7 DEF StageInv

\* StageInv holds of a stream that has not been polled.
THEOREM StageInitInvariant == StageInit => StageInv
<1> SUFFICES ASSUME StageInit PROVE StageInv
  OBVIOUS
<1>1. << >> \in Seq(1 .. 0) /\ Len(<< >>) = 0 /\ << >> \in [1 .. 0 -> Results]
  BY EmptySeq, LenProperties
<1>2. StageTypeOK
  <2>1. /\ admitted = 0 /\ queue = << >> /\ outputs = << >> /\ result = << >>
    BY DEF StageInit
  <2>2. /\ queue \in Seq(1 .. admitted) /\ outputs \in Seq(1 .. admitted)
        /\ result \in [1 .. admitted -> Results]
    BY <1>1, <2>1
  <2>3. /\ phase \in Phases /\ shutdown \in BOOLEAN /\ ended \in BOOLEAN
        /\ admitted \in 0 .. MaxItems /\ late \in Nat
    <3>1. /\ phase = "idle" /\ shutdown = FALSE /\ ended = FALSE
          /\ admitted = 0 /\ late = 0
      BY DEF StageInit
    <3>2. shutdown \in BOOLEAN /\ ended \in BOOLEAN
      BY <3>1, Zenon
    <3>3. phase \in Phases
      BY <3>1 DEF Phases
    <3>4. admitted \in 0 .. MaxItems /\ late \in Nat
      BY <3>1, StageAssumption
    <3> QED
      BY <3>2, <3>3, <3>4
  <2> QED
    BY <2>2, <2>3 DEF StageTypeOK
<1>3. InSourceOrder
  BY <1>1 DEF StageInit, InSourceOrder
<1> QED
  BY <1>1, <1>2, <1>3, StageAssumption DEF StageInit, StageInv, CutoffIsImmediate, StageControl

\* Every step of the poll, of the transforms and of the caller keeps StageInv.
THEOREM StageStepInvariant == StageInv /\ [StageNext]_stageVars => StageInv'
<1> SUFFICES ASSUME StageInv, [StageNext]_stageVars PROVE StageInv'
  OBVIOUS
<1> USE DEF Phases
<1>0. /\ shutdown \in BOOLEAN /\ ended \in BOOLEAN /\ phase \in Phases
      /\ result \in [1 .. admitted -> Results]
  BY DEF StageInv, StageTypeOK
<1>1. CASE Poll
  BY <1>0, <1>1, QuietStep DEF Poll, StageInv, StageControl, HasPlace
<1>2. CASE StopFilling
  BY <1>0, <1>2, QuietStep DEF StopFilling, StageInv, StageControl, HasPlace
<1>3. CASE LookAtShutdown
  BY <1>0, <1>3, QuietStep DEF LookAtShutdown, StageInv, StageControl, HasPlace
<1>4. CASE SourceYields
  BY <1>4, SourceYieldsInv
<1>5. CASE SourcePends
  BY <1>0, <1>5, QuietStep DEF SourcePends, StageInv, StageControl, HasPlace
<1>6. CASE SourceEnds
  BY <1>0, <1>6, QuietStep DEF SourceEnds, StageInv, StageControl, HasPlace
<1>7. CASE \E i \in Item : TransformFinishes(i)
  <2>1. PICK i \in Item : TransformFinishes(i)
    BY <1>7
  <2>2. result' \in [1 .. admitted -> Results]
    BY <1>0, <2>1 DEF TransformFinishes, Results
  <2> QED
    BY <1>0, <2>1, <2>2, QuietStep DEF TransformFinishes, StageInv, StageControl, HasPlace
<1>8. CASE StayPending
  BY <1>0, <1>8, QuietStep DEF StayPending, StageInv, StageControl, HasPlace
<1>9. CASE Yield
  BY <1>9, YieldInv
<1>10. CASE YieldEnd
  BY <1>0, <1>10, QuietStep DEF YieldEnd, StageInv, StageControl, HasPlace
<1>11. CASE DropStream
  BY <1>0, <1>11, QuietStep DEF DropStream, StageInv, StageControl, HasPlace
<1>12. CASE RequestShutdown
  BY <1>0, <1>12, QuietStep DEF RequestShutdown, StageInv, StageControl, HasPlace
<1>13. CASE StreamOver \/ UNCHANGED stageVars
  BY <1>0, <1>13, QuietStep DEF StreamOver, stageVars, StageInv, StageControl, HasPlace
<1> QED
  BY <1>1, <1>2, <1>3, <1>4, <1>5, <1>6, <1>7, <1>8, <1>9, <1>10, <1>11, <1>12, <1>13
     DEF StageNext, PollStep

\* StageInv holds in every reachable state.
THEOREM StageInvariant == StageSpec => []StageInv
  BY StageInitInvariant, StageStepInvariant, PTL DEF StageSpec

\* Never more items are in flight than Transform::max_concurrency, finished or
\* not: the front one holds the source back.
THEOREM StageHoldsBack == StageSpec => []HeldBack
<1>1. StageInv => HeldBack
  BY StageAssumption DEF StageInv, StageTypeOK, InSourceOrder, HeldBack
<1> QED
  BY <1>1, StageInvariant, PTL

\* After a shutdown at most the one item that was being asked for is admitted.
THEOREM StageCutsOff == StageSpec => []CutoffIsImmediate
  BY StageInvariant, PTL DEF StageInv

\* Every step of the stage is a step of the ordered stream, or leaves it alone.
LEMMA StepsOfStream ==
    ASSUME StageInv, [StageNext]_stageVars
    PROVE  [Stream!Next]_(Stream!vars)
<1>1. CASE SourceYields
  <2>1. Stream!HandOver
    BY <1>1 DEF SourceYields, Over, Stream!HandOver
  <2> QED
    BY <2>1 DEF Stream!Next
<1>2. CASE Yield
  <2>1. /\ Len(outputs) < admitted /\ Head(queue) = Len(outputs) + 1
    BY <1>2, FrontIsNext DEF Yield, StageInv, StageTypeOK
  <2>2. Stream!ComeOut
    BY <1>2, <2>1 DEF Yield, Over, Stream!ComeOut
  <2> QED
    BY <2>2 DEF Stream!Next
<1>3. CASE YieldEnd
  <2>1. Len(outputs) = admitted
    BY <1>3 DEF YieldEnd, StageInv, StageTypeOK, InSourceOrder
  <2>2. Stream!End
    BY <1>3, <2>1 DEF YieldEnd, Over, Stream!End
  <2> QED
    BY <2>2 DEF Stream!Next
<1>4. CASE DropStream
  <2>1. Stream!Drop
    BY <1>4 DEF DropStream, Over, Stream!Drop
  <2> QED
    BY <2>1 DEF Stream!Next
<1>5. CASE \/ Poll \/ StopFilling \/ LookAtShutdown \/ SourcePends \/ SourceEnds
           \/ (\E i \in Item : TransformFinishes(i)) \/ StayPending
           \/ RequestShutdown \/ StreamOver \/ UNCHANGED stageVars
  BY <1>5 DEF Poll, StopFilling, LookAtShutdown, SourcePends, SourceEnds,
              TransformFinishes, StayPending, RequestShutdown, StreamOver,
              stageVars, Over, Stream!vars
<1> QED
  BY <1>1, <1>2, <1>3, <1>4, <1>5 DEF StageNext, PollStep

\* The stage implements the ordered stream: an item that comes out is the next
\* one of the source, and the end comes out after the last.
THEOREM StageRefinement == StageSpec => ImplementsRecordStream
<1>1. StageInit => Stream!Init
  BY DEF StageInit, Over, Stream!Init
<1> QED
  BY <1>1, StepsOfStream, StageInvariant, PTL DEF StageSpec, ImplementsRecordStream, Stream!Spec

-----------------------------------------------------------------------------
(***************************************************************************)
(* Every step is a step of the runner, or leaves it alone; and the same    *)
(* for the stage.                                                          *)
(***************************************************************************)
LEMMA StepsOfRunner ==
    ASSUME [RunNext]_runVars
    PROVE  [Next]_vars
<1>1. CASE RecordArrives
  BY <1>1 DEF RecordArrives, Next
<1>2. CASE ErrorArrives
  BY <1>2 DEF ErrorArrives, Next
<1>3. CASE StreamEnds
  BY <1>3 DEF StreamEnds, Next
<1>4. CASE DeadlineWins
  BY <1>4 DEF DeadlineWins, Next
<1>5. CASE RunnerStep
  BY <1>5 DEF RunnerStep, Next
<1>6. CASE TimePasses
  BY <1>6 DEF TimePasses, Next
<1>7. CASE \/ PollStream \/ StreamDropped \/ ShutdownRequested \/ RunOver
           \/ UNCHANGED runVars
  BY <1>7 DEF PollStream, StreamDropped, ShutdownRequested, RunOver, runVars
<1> QED
  BY <1>1, <1>2, <1>3, <1>4, <1>5, <1>6, <1>7 DEF RunNext

\* Only the runner abandons a poll: DeadlineWins is the one step of the stage's
\* variables that is no step of the stage.
LEMMA StepsOfStage ==
    ASSUME [RunNext]_runVars, ~DeadlineWins
    PROVE  [StageNext]_stageVars
<1>1. CASE PollStream
  BY <1>1 DEF PollStream, StageNext
<1>2. CASE RecordArrives \/ ErrorArrives
  BY <1>2 DEF RecordArrives, ErrorArrives, StageNext
<1>3. CASE StreamEnds
  BY <1>3 DEF StreamEnds, StageNext
<1>4. CASE StreamDropped
  BY <1>4 DEF StreamDropped, StageNext
<1>5. CASE ShutdownRequested
  BY <1>5 DEF ShutdownRequested, StageNext
<1>6. CASE RunnerStep \/ TimePasses \/ RunOver \/ UNCHANGED runVars
  BY <1>6 DEF RunnerStep, TimePasses, RunOver, runVars
<1> QED
  BY <1>1, <1>2, <1>3, <1>4, <1>5, <1>6 DEF RunNext

\* An abandoned poll changes nothing of what the stage holds.
LEMMA DeadlineWinsStage ==
    ASSUME StageInv, DeadlineWins
    PROVE  StageInv' /\ UNCHANGED (Stream!vars)
<1>1. /\ phase \in {"idle", "pending"} /\ phase' = "idle"
      /\ UNCHANGED <<shutdown, ended, admitted, queue, result, outputs, late>>
  BY DEF DeadlineWins
<1>2. /\ shutdown' \in BOOLEAN /\ ended' \in BOOLEAN /\ phase' \in Phases
      /\ result' \in [1 .. admitted -> Results]
  BY <1>1 DEF StageInv, StageTypeOK, Phases
<1>3. StageControl'
  BY <1>1 DEF StageInv, StageControl
<1>4. StageInv'
  BY <1>1, <1>2, <1>3, QuietStep
<1> QED
  BY <1>1, <1>4 DEF Over, Stream!vars

-----------------------------------------------------------------------------
(***************************************************************************)
(* The coupling.  The records tracked are the items that came out, but for *)
(* an error that came out last; while the runner is busy no poll is under  *)
(* way, with everything in flight kept in the stream; it finishes only     *)
(* after the end of the stream; and no sink has more than what is tracked. *)
(***************************************************************************)
StreamFailed == failure \in {"Source", "Transform"}

Coupled ==
    /\ ~StreamFailed => tracked = Len(outputs)
    /\ StreamFailed =>
          /\ tracked = acked
          /\ Len(outputs) = acked + 1
          /\ failure = result[Len(outputs)]
    /\ pc \in {"deliver", "committing"} => phase = "idle"
    /\ pc \in {"finishing", "done"} => phase = "ended"
    /\ \A s \in Sinks : accepted[s] \subseteq 1 .. tracked

RunInv ==
    /\ IInv
    /\ StageInv
    /\ Coupled

\* What every step needs of the types.
LEMMA RunTypes ==
    ASSUME RunInv
    PROVE  /\ tracked \in Nat /\ acked \in Nat
           /\ Len(outputs) \in Nat
           /\ StreamFailed => pc = "failed"
           /\ pc \in PCs
  BY DEF RunInv, IInv, TypeOK, CommitTypeOK, StageInv, StageTypeOK, Control,
         StreamFailed, PCs

\* The stream yields an item: the runner tracks it, or fails with it.
LEMMA ArrivalCoupled ==
    ASSUME RunInv, RecordArrives \/ ErrorArrives
    PROVE  Coupled'
<1>1. /\ pc = "next" /\ phase' = "idle"
      /\ queue # << >> /\ outputs' = Append(outputs, Head(queue))
      /\ UNCHANGED result
      /\ ~StreamFailed /\ tracked = Len(outputs) /\ tracked = acked
      /\ \A s \in Sinks : accepted[s] \subseteq 1 .. tracked
      /\ Head(queue) = Len(outputs) + 1
  BY FrontIsNext, RunTypes
     DEF RecordArrives, ErrorArrives, NextRecord, NextFails, Yield, RunInv, IInv,
         Control, Coupled, StreamFailed
<1>2. /\ Len(outputs') = Len(outputs) + 1
      /\ outputs'[Len(outputs')] = Head(queue)
  <2>1. outputs \in Seq(1 .. admitted) /\ Head(queue) \in 1 .. admitted
    BY <1>1, FrontIsNext DEF RunInv, StageInv, StageTypeOK
  <2>2. /\ Len(Append(outputs, Head(queue))) = Len(outputs) + 1
        /\ Append(outputs, Head(queue))[Len(outputs) + 1] = Head(queue)
    BY <2>1
  <2> QED
    BY <1>1, <2>2
<1>3. CASE RecordArrives
  <2>1. /\ tracked' = tracked + 1 /\ UNCHANGED <<acked, failure, accepted>>
        /\ pc' = "deliver"
    BY <1>3 DEF RecordArrives, NextRecord, Track, StartDelivery, Goto
  <2>2. 1 .. tracked \subseteq 1 .. tracked'
    BY <2>1, RunTypes
  <2> QED
    BY <1>1, <1>2, <2>1, <2>2, RunTypes DEF Coupled, StreamFailed
<1>4. CASE ErrorArrives
  <2>1. /\ UNCHANGED <<tracked, acked, accepted>>
        /\ pc' = "failed" /\ failure' = result[Head(queue)]
        /\ failure' \in {"Source", "Transform"}
    BY <1>4 DEF ErrorArrives, NextFails, Fail, commitVars, deliveryVars
  <2>2. failure' = result'[Len(outputs')] /\ Len(outputs') = acked' + 1 /\ tracked' = acked'
    BY <1>1, <1>2, <2>1
  <2> QED
    BY <1>1, <2>1, <2>2 DEF Coupled, StreamFailed
<1> QED
  BY <1>3, <1>4

\* A step that neither takes an item out nor lets a sink accept anything.
LEMMA QuietCoupled ==
    ASSUME RunInv,
           UNCHANGED <<tracked, acked, accepted, outputs>>,
           StreamFailed' = StreamFailed,
           StreamFailed => failure' = failure /\ UNCHANGED result,
           pc' \in {"deliver", "committing"} => phase' = "idle",
           pc' \in {"finishing", "done"} => phase' = "ended"
    PROVE  Coupled'
  BY DEF RunInv, Coupled

\* The stream alone moves: a poll, a shutdown, or the drop of the stream.
LEMMA StreamMovesCoupled ==
    ASSUME RunInv, PollStream \/ ShutdownRequested \/ StreamDropped
    PROVE  Coupled'
<1>1. UNCHANGED <<tracked, acked, accepted, pc, failure>>
  BY DEF PollStream, ShutdownRequested, StreamDropped, vars, commitVars, deliveryVars
<1>2. CASE PollStream
  <2>1. pc = "next" /\ ~StreamFailed
    BY <1>2, RunTypes DEF PollStream
  <2>2. UNCHANGED outputs
    BY <1>2 DEF PollStream, Poll, PollStep, StopFilling, LookAtShutdown, SourceYields,
                SourcePends, SourceEnds, TransformFinishes, StayPending
  <2> QED
    BY <1>1, <2>1, <2>2, QuietCoupled DEF StreamFailed
<1>3. CASE ShutdownRequested
  BY <1>1, <1>3, QuietCoupled
     DEF ShutdownRequested, RequestShutdown, StreamFailed, RunInv, Coupled
<1>4. CASE StreamDropped
  BY <1>1, <1>4, QuietCoupled
     DEF StreamDropped, DropStream, Returned, StreamFailed, RunInv, Coupled
<1> QED
  BY <1>2, <1>3, <1>4

\* A sink answers: what it accepts is the record that was tracked last.
LEMMA DeliverCoupled ==
    ASSUME RunInv, NEW s \in Sinks, Deliver(s), UNCHANGED stageVars
    PROVE  Coupled'
<1>1. /\ pc = "deliver" /\ unit = {tracked} /\ tracked = acked + 1
      /\ UNCHANGED <<tracked, acked, pc, failure>>
      /\ UNCHANGED <<phase, outputs, result>>
  BY DEF Deliver, RunInv, IInv, Control, commitVars, stageVars
<1>2. accepted' = accepted \/ accepted' = [accepted EXCEPT ![s] = @ \cup unit]
  BY DEF Deliver, SinkAccepts, SinkRefuses, SinkPanics
<1>3. accepted \in [Sinks -> SUBSET Nat]
  BY DEF RunInv, IInv, TypeOK, DeliveryTypeOK
<1>4. unit \subseteq 1 .. tracked
  BY <1>1, RunTypes
<1>5. \A t \in Sinks : accepted'[t] \subseteq 1 .. tracked
  BY <1>2, <1>3, <1>4 DEF RunInv, Coupled
<1> QED
  BY <1>1, <1>5 DEF RunInv, Coupled, StreamFailed

\* The runner's other steps.
LEMMA RunnerMovesCoupled ==
    ASSUME RunInv, RunnerStep
    PROVE  Coupled'
<1>1. UNCHANGED <<phase, outputs, result>>
  BY DEF RunnerStep, stageVars
<1>2. CASE \E s \in Sinks : Deliver(s)
  BY <1>2, DeliverCoupled DEF RunnerStep
<1>3. CASE DeliverySucceeds
  <2>1. /\ pc = "deliver" /\ pc' = "committing" /\ tracked = acked + 1
        /\ tracked' = tracked /\ accepted' = accepted /\ failure' = failure
        /\ acked' = acked + 1
    BY <1>3 DEF DeliverySucceeds, AcknowledgeDelivery, EndDelivery, Goto, RunInv, IInv, Control
  <2> QED
    BY <1>1, <2>1, RunTypes DEF RunInv, Coupled, StreamFailed
<1>4. CASE DeliveryFails
  <2>1. pc = "deliver" /\ pc' = "failed" /\ failure' = "Sinks"
        /\ UNCHANGED <<tracked, acked, accepted>>
    BY <1>4 DEF DeliveryFails, Fail, commitVars, deliveryVars
  <2> QED
    BY <1>1, <2>1, RunTypes, QuietCoupled DEF StreamFailed
<1>5. CASE CommitNext \/ CommitOk
  <2>1. pc \in {"committing", "finishing"} /\ UNCHANGED <<tracked, acked, accepted, pc, failure>>
    BY <1>5 DEF CommitNext, CommitOk, PopEligible, CommitSucceeds, deliveryVars
  <2> QED
    BY <1>1, <2>1, QuietCoupled DEF StreamFailed, RunInv, Coupled
<1>6. CASE CommitErr
  <2>1. /\ pc \in {"committing", "finishing"} /\ pc' = "failed" /\ failure' = "Commit"
        /\ UNCHANGED <<tracked, acked, accepted>>
    BY <1>6 DEF CommitErr, CommitFails, Fail, commitVars, deliveryVars
  <2> QED
    BY <1>1, <2>1, RunTypes, QuietCoupled DEF StreamFailed
<1>7. CASE CommitDone
  <2>1. /\ \/ pc = "committing" /\ pc' = "next"
           \/ pc = "finishing" /\ pc' = "done"
        /\ UNCHANGED <<tracked, acked, accepted, failure>>
    BY <1>7 DEF CommitDone, Goto, commitVars, deliveryVars
  <2> QED
    BY <1>1, <2>1, QuietCoupled DEF StreamFailed, RunInv, Coupled
<1> QED
  BY <1>2, <1>3, <1>4, <1>5, <1>6, <1>7 DEF RunnerStep

\* The coupling is kept by every step of the run.
LEMMA StepCoupled ==
    ASSUME RunInv, [RunNext]_runVars
    PROVE  Coupled'
<1>1. CASE PollStream \/ ShutdownRequested \/ StreamDropped
  BY <1>1, StreamMovesCoupled
<1>2. CASE RecordArrives \/ ErrorArrives
  BY <1>2, ArrivalCoupled
<1>3. CASE StreamEnds
  <2>1. /\ pc = "next" /\ pc' = "finishing" /\ phase' = "ended"
        /\ UNCHANGED <<tracked, acked, accepted, failure, outputs>>
    BY <1>3 DEF StreamEnds, NextEnds, YieldEnd, Finish, Goto, deliveryVars
  <2> QED
    BY <2>1, RunTypes, QuietCoupled DEF StreamFailed
<1>4. CASE DeadlineWins
  <2>1. /\ pc = "next" /\ pc' = "committing" /\ phase' = "idle"
        /\ UNCHANGED <<tracked, acked, accepted, failure, outputs>>
    BY <1>4 DEF DeadlineWins, CommitTimer, HandleTimeout, Goto, deliveryVars
  <2> QED
    BY <2>1, RunTypes, QuietCoupled DEF StreamFailed
<1>5. CASE RunnerStep
  BY <1>5, RunnerMovesCoupled
<1>6. CASE TimePasses \/ RunOver \/ UNCHANGED runVars
  <2>1. UNCHANGED <<tracked, acked, accepted, pc, failure, phase, outputs, result>>
    BY <1>6 DEF TimePasses, Tick, DeadlinePasses, RunOver, runVars, vars, commitVars,
                deliveryVars, stageVars
  <2> QED
    BY <2>1 DEF RunInv, Coupled, StreamFailed
<1> QED
  BY <1>1, <1>2, <1>3, <1>4, <1>5, <1>6 DEF RunNext

\* RunInv holds in every reachable state of the run with its stream.
THEOREM RunInvariant == RunSpec => []RunInv
<1>1. RunInit => RunInv
  BY InitInvariant, StageInitInvariant
     DEF RunInit, RunInv, Coupled, StreamFailed, Init, CommitInit, DeliveryInit, StageInit
<1>2. ASSUME RunInv, [RunNext]_runVars
      PROVE  RunInv'
  <2>1. IInv'
    BY <1>2, StepsOfRunner, StepInvariant DEF RunInv
  <2>2. StageInv'
    BY <1>2, StepsOfStage, StageStepInvariant, DeadlineWinsStage DEF RunInv
  <2> QED
    BY <1>2, <2>1, <2>2, StepCoupled DEF RunInv
<1> QED
  BY <1>1, <1>2, PTL DEF RunSpec

-----------------------------------------------------------------------------
(***************************************************************************)
(* What follows from it.                                                   *)
(***************************************************************************)

\* The run behaves as the runner does of which everything is proved.
THEOREM RunIsRunner == RunSpec => Spec
<1>1. RunInit => Init
  BY DEF RunInit
<1>2. [RunNext]_runVars => [Next]_vars
  BY StepsOfRunner
<1> QED
  BY <1>1, <1>2, PTL DEF RunSpec, Spec

\* Its stream is an ordered stream, although polls of it are abandoned.
THEOREM RunStreamOrdered == RunSpec => ImplementsRecordStream
<1>1. RunInit => Stream!Init
  BY DEF RunInit, StageInit, Over, Stream!Init
<1>2. RunInv /\ [RunNext]_runVars => [Stream!Next]_(Stream!vars)
  BY StepsOfStage, StepsOfStream, DeadlineWinsStage DEF RunInv
<1> QED
  BY <1>1, <1>2, RunInvariant, PTL DEF RunSpec, ImplementsRecordStream, Stream!Spec

\* A run that returns Ok has delivered and committed every record that was
\* taken from the source: none is lost between the stream and the runner.
THEOREM RunCommitsAdmitted == RunSpec => []ShutdownCommitsAdmitted
<1>1. ASSUME RunInv, pc = "done"
      PROVE  /\ CommittedThrough = admitted
             /\ \A s \in Sinks : accepted[s] = 1 .. admitted
  <2>1. CommittedThrough = tracked /\ tracked = acked
    BY <1>1, NothingLeft DEF RunInv, IInv, Control
  <2>2. tracked = admitted
    <3>1. tracked = Len(outputs) /\ queue = << >>
      BY <1>1, RunTypes DEF RunInv, Coupled, StageInv, StageControl
    <3> QED
      BY <1>1, <3>1 DEF RunInv, StageInv, StageTypeOK, InSourceOrder
  <2>3. \A s \in Sinks : 1 .. acked \subseteq accepted[s] /\ accepted[s] \subseteq 1 .. tracked
    BY <1>1 DEF RunInv, IInv, AckedIsAccepted, Coupled
  <2> QED
    BY <2>1, <2>2, <2>3
<1> QED
  BY <1>1, RunInvariant, PTL DEF ShutdownCommitsAdmitted

\* An error comes after the delivery of everything before it, and nothing that
\* finished behind it is delivered.
THEOREM RunErrorsInPlace == RunSpec => []ErrorsInPlace
<1>1. ASSUME RunInv
      PROVE  ErrorsInPlace
  <2>1. pc \in {"next", "deliver"} => tracked = Len(outputs)
    BY <1>1, RunTypes DEF RunInv, Coupled
  <2>2. ASSUME StreamFailed
        PROVE  /\ acked = Len(outputs) - 1
               /\ failure = result[Len(outputs)]
               /\ \A s \in Sinks : accepted[s] = 1 .. acked
    <3>1. /\ tracked = acked /\ Len(outputs) = acked + 1
          /\ failure = result[Len(outputs)]
      BY <1>1, <2>2 DEF RunInv, Coupled
    <3>2. \A s \in Sinks : 1 .. acked \subseteq accepted[s] /\ accepted[s] \subseteq 1 .. tracked
      BY <1>1 DEF RunInv, IInv, AckedIsAccepted, Coupled
    <3>3. \A s \in Sinks : accepted[s] = 1 .. acked
      BY <3>1, <3>2
    <3>4. acked = Len(outputs) - 1
      BY <1>1, <3>1, RunTypes
    <3> QED
      BY <3>1, <3>3, <3>4
  <2> QED
    BY <2>1, <2>2 DEF ErrorsInPlace, StreamFailed
<1> QED
  BY <1>1, RunInvariant, PTL

\* The bookkeeping of a counting policy is exact between two records of the
\* run, however the stream is polled.
THEOREM RunCountIsPending == RunSpec => []PolicyCountsPending
  BY RunIsRunner, CountIsPending, PTL

\* And a deadline is never pushed back.
THEOREM RunDeadlineStays == RunSpec => DeadlineNeverExtended
  BY RunIsRunner, DeadlineStays, PTL

===============================================================================
