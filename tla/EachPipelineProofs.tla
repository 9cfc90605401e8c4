-------------------------- MODULE EachPipelineProofs --------------------------
(***************************************************************************)
(* For every set of sinks, policy, threshold and length of the stream, the *)
(* runner of EachPipeline keeps its inductive invariant, and with it the   *)
(* properties that matter most.                                            *)
(***************************************************************************)
EXTENDS EachPipeline, CommitStateProofs

-----------------------------------------------------------------------------
(***************************************************************************)
(* The parts of the invariant that a step leaves alone.                    *)
(***************************************************************************)

\* A step of the commit loop or of the clock: the sinks and what they have
\* accepted, the tracked and the acknowledged positions stay.
LEMMA CommitStepKeeps ==
    ASSUME IInv, UNCHANGED <<deliveryVars, acked>>
    PROVE  AckedIsAccepted' /\ DeliveryTypeOK'
  BY DEF IInv, AckedIsAccepted, DeliveryTypeOK, TypeOK, deliveryVars

-----------------------------------------------------------------------------
\* The run begins in the invariant, with or without sinks.
THEOREM InitInvariant == Init => IInv
<1> SUFFICES ASSUME Init PROVE IInv
  OBVIOUS
<1>1. CommitInv /\ CommitTypeOK
  BY CommitInitInv DEF Init, CommitInv
<1>2. DeliveryTypeOK
  BY DEF Init, DeliveryInit, DeliveryTypeOK, BranchStates
<1>3. TypeOK
  BY <1>1, <1>2 DEF Init, TypeOK, PCs, Errors
<1>4. AckedIsAccepted
  BY DEF Init, CommitInit, DeliveryInit, AckedIsAccepted
<1>5. Control
  BY DEF Init, CommitInit, DeliveryInit, Control, NothingEligible, Failures
<1> QED
  BY <1>1, <1>3, <1>4, <1>5 DEF IInv

\* NextRecord: the next position is tracked and its record goes to the sinks.
LEMMA NextRecordInv ==
    ASSUME IInv, NextRecord
    PROVE  IInv'
<1>1. CommitInv' /\ currentEpoch' # << >>
  BY TrackInv DEF IInv, NextRecord
<1>2. /\ unit' = {tracked + 1}
      /\ branch' = [s \in Sinks |-> "running"]
      /\ accepted' = accepted
      /\ pc' = "deliver" /\ failure' = failure
      /\ tracked' = tracked + 1 /\ acked' = acked
      /\ committing' = committing /\ eligibleEpochs' = eligibleEpochs
  BY DEF NextRecord, StartDelivery, Goto, Track
<1>3. /\ tracked = acked /\ tracked \in Nat
      /\ failure = "none"
      /\ NothingEligible
  BY DEF IInv, Control, CommitInv, CommitTypeOK, TypeOK, PCs, NextRecord
<1>4. DeliveryTypeOK'
  BY <1>2, <1>3 DEF IInv, TypeOK, DeliveryTypeOK, BranchStates
<1>5. TypeOK'
  BY <1>1, <1>2, <1>4 DEF IInv, TypeOK, CommitInv, PCs
<1>6. AckedIsAccepted'
  BY <1>2 DEF IInv, AckedIsAccepted
<1>7. Control'
  BY <1>1, <1>2, <1>3 DEF Control, NothingEligible
<1> QED
  BY <1>1, <1>5, <1>6, <1>7 DEF IInv

\* NextFails: the run returns between two units.
LEMMA NextFailsInv ==
    ASSUME IInv, NextFails
    PROVE  IInv'
<1>1. /\ UNCHANGED <<commitVars, deliveryVars>>
      /\ pc = "next" /\ pc' = "failed"
      /\ failure' \in {"Source", "Transform"}
  BY DEF NextFails, Fail
<1>2. CommitInv'
  BY <1>1, SameEpochsInv DEF IInv, CommitInv, CommitTypeOK, commitVars
<1>3. AckedIsAccepted' /\ DeliveryTypeOK'
  BY <1>1, CommitStepKeeps DEF commitVars
<1>4. TypeOK'
  BY <1>1, <1>2, <1>3 DEF TypeOK, CommitInv, PCs, Errors
<1>5. Control'
  BY <1>1 DEF IInv, Control, Failures, deliveryVars
<1> QED
  BY <1>2, <1>3, <1>4, <1>5 DEF IInv

\* NextEnds: the stream is over, everything acknowledged becomes eligible.
LEMMA NextEndsInv ==
    ASSUME IInv, NextEnds
    PROVE  IInv'
<1>1. /\ Finish /\ UNCHANGED deliveryVars
      /\ pc = "next" /\ pc' = "finishing" /\ failure' = failure
      /\ UNCHANGED <<tracked, acked>> /\ stagedEpochs' = << >>
      /\ tracked = acked
  BY DEF NextEnds, Goto, Finish, IInv, Control
<1>2. CommitInv' /\ currentEpoch' = << >>
  BY <1>1, FinishInv DEF IInv
<1>3. AckedIsAccepted' /\ DeliveryTypeOK'
  BY <1>1, CommitStepKeeps
<1>4. TypeOK'
  BY <1>1, <1>2, <1>3 DEF IInv, TypeOK, CommitInv, PCs
<1>5. Control'
  BY <1>1, <1>2 DEF IInv, Control, Failures, deliveryVars
<1> QED
  BY <1>2, <1>3, <1>4, <1>5 DEF IInv

\* CommitTimer: the deadline is handled between two units.
LEMMA CommitTimerInv ==
    ASSUME IInv, CommitTimer
    PROVE  IInv'
<1>1. /\ HandleTimeout /\ UNCHANGED deliveryVars
      /\ pc = "next" /\ pc' = "committing" /\ failure' = failure
      /\ UNCHANGED <<tracked, acked, stagedEpochs>>
      /\ tracked = acked /\ stagedEpochs = << >>
  BY DEF CommitTimer, Goto, HandleTimeout, IInv, Control
<1>2. CommitInv'
  BY <1>1, HandleTimeoutInv DEF IInv
<1>3. AckedIsAccepted' /\ DeliveryTypeOK'
  BY <1>1, CommitStepKeeps
<1>4. TypeOK'
  BY <1>1, <1>2, <1>3 DEF IInv, TypeOK, CommitInv, PCs
<1>5. Control'
  BY <1>1 DEF IInv, Control, Failures, deliveryVars
<1> QED
  BY <1>2, <1>3, <1>4, <1>5 DEF IInv

\* Deliver: one sink answers.
LEMMA DeliverInv ==
    ASSUME IInv, NEW s \in Sinks, Deliver(s)
    PROVE  IInv'
<1>1. /\ UNCHANGED <<commitVars, pc, failure, unit>>
      /\ pc = "deliver"
      /\ branch[s] = "running"
      /\ \E answer \in {"ok", "failed", "panicked"} :
            /\ branch' = [branch EXCEPT ![s] = answer]
            /\ accepted' = IF answer = "ok"
                             THEN [accepted EXCEPT ![s] = @ \cup unit] ELSE accepted
  BY DEF Deliver, SinkAccepts, SinkRefuses, SinkPanics
<1>2. PICK answer \in {"ok", "failed", "panicked"} :
            /\ branch' = [branch EXCEPT ![s] = answer]
            /\ accepted' = IF answer = "ok"
                             THEN [accepted EXCEPT ![s] = @ \cup unit] ELSE accepted
  BY <1>1
<1>3. DeliveryTypeOK /\ AckedIsAccepted
  BY DEF IInv, TypeOK
<1>4. CommitInv'
  BY <1>1, SameEpochsInv DEF IInv, CommitInv, CommitTypeOK, commitVars
<1>5. DeliveryTypeOK'
  BY <1>1, <1>2, <1>3 DEF DeliveryTypeOK, BranchStates
<1>6. AckedIsAccepted'
  <2>1. ASSUME NEW t \in Sinks
        PROVE  /\ accepted[t] \subseteq accepted'[t]
               /\ branch'[t] = "ok" => unit \subseteq accepted'[t]
    BY <1>2, <1>3 DEF DeliveryTypeOK, AckedIsAccepted
  <2>2. acked' = acked /\ unit' = unit
    BY <1>1 DEF commitVars
  <2> QED
    BY <1>3, <2>1, <2>2 DEF AckedIsAccepted
<1>7. TypeOK'
  BY <1>1, <1>4, <1>5 DEF IInv, TypeOK, CommitInv
<1>8. Control'
  <2>1. \A t \in Sinks : branch'[t] # "idle"
    BY <1>1, <1>2, <1>3 DEF DeliveryTypeOK, IInv, Control
  <2>2. UNCHANGED <<tracked, acked, currentEpoch, committing, eligibleEpochs>>
    BY <1>1 DEF commitVars
  <2> QED
    BY <1>1, <2>1, <2>2 DEF IInv, Control, NothingEligible
<1> QED
  BY <1>4, <1>6, <1>7, <1>8 DEF IInv

\* DeliverySucceeds: every sink has accepted the record, it is acknowledged.
LEMMA DeliverySucceedsInv ==
    ASSUME IInv, DeliverySucceeds
    PROVE  IInv'
<1>1. /\ AcknowledgeDelivery(1)
      /\ pc = "deliver" /\ pc' = "committing" /\ failure' = failure
      /\ unit' = {} /\ branch' = [s \in Sinks |-> "idle"] /\ accepted' = accepted
      /\ acked' = acked + 1 /\ tracked' = tracked /\ stagedEpochs' = << >>
  BY DEF DeliverySucceeds, Goto, EndDelivery, AcknowledgeDelivery
<1>2. /\ tracked = acked + 1 /\ acked \in Nat
      /\ unit = {tracked}
      /\ failure = "none"
      /\ DeliveryTypeOK
  BY <1>1 DEF IInv, Control, TypeOK, CommitTypeOK, PCs
<1>3. CommitInv'
  BY <1>1, <1>2, AcknowledgeInv DEF IInv
<1>4. \A s \in Sinks : branch[s] = "ok"
  BY <1>1, <1>2 DEF DeliverySucceeds, Drained, Failures, DeliveryTypeOK, BranchStates,
                    IInv, Control
<1>5. AckedIsAccepted'
  <2>1. ASSUME NEW s \in Sinks
        PROVE  1 .. (acked + 1) \subseteq accepted[s]
    <3>1. 1 .. acked \subseteq accepted[s] /\ acked + 1 \in accepted[s]
      BY <1>2, <1>4 DEF IInv, AckedIsAccepted
    <3> QED
      BY <1>2, <3>1
  <2> QED
    BY <1>1, <2>1 DEF AckedIsAccepted
<1>6. DeliveryTypeOK'
  BY <1>1, <1>2 DEF DeliveryTypeOK, BranchStates
<1>7. TypeOK'
  BY <1>1, <1>3, <1>6 DEF IInv, TypeOK, CommitInv, PCs
<1>8. Control'
  BY <1>1, <1>2 DEF Control, Failures
<1> QED
  BY <1>3, <1>5, <1>7, <1>8 DEF IInv

\* DeliveryFails: the run returns with the unit tracked but not acknowledged.
LEMMA DeliveryFailsInv ==
    ASSUME IInv, DeliveryFails
    PROVE  IInv'
<1>1. /\ UNCHANGED <<commitVars, deliveryVars>>
      /\ Drained /\ Failures # {}
      /\ pc' = "failed" /\ failure' = "Sinks"
  BY DEF DeliveryFails, Fail
<1>2. CommitInv'
  BY <1>1, SameEpochsInv DEF IInv, CommitInv, CommitTypeOK, commitVars
<1>3. AckedIsAccepted' /\ DeliveryTypeOK'
  BY <1>1, CommitStepKeeps DEF commitVars
<1>4. TypeOK'
  BY <1>1, <1>2, <1>3 DEF TypeOK, CommitInv, PCs, Errors
<1>5. Control'
  BY <1>1 DEF Control, Drained, Failures, deliveryVars
<1> QED
  BY <1>2, <1>3, <1>4, <1>5 DEF IInv

\* CommitNext: the oldest eligible epoch goes to Source::commit.
LEMMA CommitNextInv ==
    ASSUME IInv, CommitNext
    PROVE  IInv'
<1>1. /\ PopEligible
      /\ UNCHANGED <<deliveryVars, pc, failure, tracked, acked, stagedEpochs, currentEpoch>>
      /\ pc \in {"committing", "finishing"}
  BY DEF CommitNext, PopEligible
<1>2. CommitInv'
  BY <1>1, PopEligibleInv DEF IInv
<1>3. AckedIsAccepted' /\ DeliveryTypeOK'
  BY <1>1, CommitStepKeeps
<1>4. TypeOK'
  BY <1>1, <1>2, <1>3 DEF IInv, TypeOK, CommitInv
<1>5. Control'
  BY <1>1 DEF IInv, Control, Failures, deliveryVars
<1> QED
  BY <1>2, <1>3, <1>4, <1>5 DEF IInv

\* CommitOk: the source has persisted the epoch.
LEMMA CommitOkInv ==
    ASSUME IInv, CommitOk
    PROVE  IInv'
<1>1. /\ CommitSucceeds
      /\ UNCHANGED <<deliveryVars, pc, failure, tracked, acked, stagedEpochs, currentEpoch>>
      /\ pc \in {"committing", "finishing"}
  BY DEF CommitOk, CommitSucceeds
<1>2. CommitInv'
  BY <1>1, CommitSucceedsInv DEF IInv
<1>3. AckedIsAccepted' /\ DeliveryTypeOK'
  BY <1>1, CommitStepKeeps
<1>4. TypeOK'
  BY <1>1, <1>2, <1>3 DEF IInv, TypeOK, CommitInv
<1>5. Control'
  BY <1>1 DEF IInv, Control, Failures, deliveryVars
<1> QED
  BY <1>2, <1>3, <1>4, <1>5 DEF IInv

\* CommitErr: the run returns with the epoch still in its hands.
LEMMA CommitErrInv ==
    ASSUME IInv, CommitErr
    PROVE  IInv'
<1>1. /\ UNCHANGED <<commitVars, deliveryVars>>
      /\ pc \in {"committing", "finishing"}
      /\ pc' = "failed" /\ failure' = "Commit"
  BY DEF CommitErr, CommitFails, Fail
<1>2. CommitInv'
  BY <1>1, SameEpochsInv DEF IInv, CommitInv, CommitTypeOK, commitVars
<1>3. AckedIsAccepted' /\ DeliveryTypeOK'
  BY <1>1, CommitStepKeeps DEF commitVars
<1>4. TypeOK'
  BY <1>1, <1>2, <1>3 DEF TypeOK, CommitInv, PCs, Errors
<1>5. Control'
  BY <1>1 DEF IInv, Control, Failures, deliveryVars
<1> QED
  BY <1>2, <1>3, <1>4, <1>5 DEF IInv

\* CommitDone: nothing is left to commit.
LEMMA CommitDoneInv ==
    ASSUME IInv, CommitDone
    PROVE  IInv'
<1>1. /\ UNCHANGED <<commitVars, deliveryVars, failure>>
      /\ NothingEligible
      /\ \/ pc = "committing" /\ pc' = "next"
         \/ pc = "finishing" /\ pc' = "done"
  BY DEF CommitDone, Goto
<1>2. CommitInv'
  BY <1>1, SameEpochsInv DEF IInv, CommitInv, CommitTypeOK, commitVars
<1>3. AckedIsAccepted' /\ DeliveryTypeOK'
  BY <1>1, CommitStepKeeps DEF commitVars
<1>4. TypeOK'
  BY <1>1, <1>2, <1>3 DEF IInv, TypeOK, CommitInv, PCs
<1>5. Control'
  BY <1>1 DEF IInv, Control, Failures, NothingEligible, deliveryVars, commitVars
<1> QED
  BY <1>2, <1>3, <1>4, <1>5 DEF IInv

\* Tick: the policy's deadline passes.
LEMMA TickInv ==
    ASSUME IInv, Tick
    PROVE  IInv'
<1>1. /\ DeadlinePasses
      /\ UNCHANGED <<deliveryVars, pc, failure>>
      /\ UNCHANGED <<currentEpoch, stagedEpochs, eligibleEpochs, currentEpochAcknowledged,
                     committing, committed, tracked, acked>>
      /\ policy' = [policy EXCEPT !.deadline = "passed"]
  BY DEF Tick, DeadlinePasses
<1>2. policy' \in Policy
  BY <1>1 DEF IInv, CommitInv, CommitTypeOK, Policy, Deadlines
<1>3. CommitInv'
  BY <1>1, <1>2, SameEpochsInv DEF IInv
<1>4. AckedIsAccepted' /\ DeliveryTypeOK'
  BY <1>1, CommitStepKeeps
<1>5. TypeOK'
  BY <1>1, <1>3, <1>4 DEF IInv, TypeOK, CommitInv
<1>6. Control'
  BY <1>1 DEF IInv, Control, Failures, NothingEligible, deliveryVars
<1> QED
  BY <1>3, <1>4, <1>5, <1>6 DEF IInv

\* A stuttering step.
LEMMA StutterInv ==
    ASSUME IInv, UNCHANGED vars
    PROVE  IInv'
<1>1. UNCHANGED <<commitVars, deliveryVars, pc, failure>>
  BY DEF vars
<1>2. CommitInv'
  BY <1>1, SameEpochsInv DEF IInv, CommitInv, CommitTypeOK, commitVars
<1>3. AckedIsAccepted' /\ DeliveryTypeOK'
  BY <1>1, CommitStepKeeps DEF commitVars
<1>4. TypeOK'
  BY <1>1, <1>2, <1>3 DEF IInv, TypeOK, CommitInv
<1>5. Control'
  BY <1>1 DEF IInv, Control, Failures, NothingEligible, deliveryVars, commitVars
<1> QED
  BY <1>2, <1>3, <1>4, <1>5 DEF IInv

-----------------------------------------------------------------------------
\* Every step keeps the invariant.
THEOREM StepInvariant == IInv /\ [Next]_vars => IInv'
<1> SUFFICES ASSUME IInv, [Next]_vars PROVE IInv'
  OBVIOUS
<1>1. CASE NextRecord
  BY <1>1, NextRecordInv
<1>2. CASE NextFails
  BY <1>2, NextFailsInv
<1>3. CASE NextEnds
  BY <1>3, NextEndsInv
<1>4. CASE CommitTimer
  BY <1>4, CommitTimerInv
<1>5. CASE \E s \in Sinks : Deliver(s)
  BY <1>5, DeliverInv
<1>6. CASE DeliverySucceeds
  BY <1>6, DeliverySucceedsInv
<1>7. CASE DeliveryFails
  BY <1>7, DeliveryFailsInv
<1>8. CASE CommitNext
  BY <1>8, CommitNextInv
<1>9. CASE CommitOk
  BY <1>9, CommitOkInv
<1>10. CASE CommitErr
  BY <1>10, CommitErrInv
<1>11. CASE CommitDone
  BY <1>11, CommitDoneInv
<1>12. CASE Tick
  BY <1>12, TickInv
<1>13. CASE Terminated \/ UNCHANGED vars
  BY <1>13, StutterInv DEF Terminated
<1> QED
  BY <1>1, <1>2, <1>3, <1>4, <1>5, <1>6, <1>7, <1>8, <1>9, <1>10, <1>11, <1>12, <1>13 DEF Next

\* The inductive invariant holds in every reachable state.
THEOREM Invariant == Spec => []IInv
<1>1. Init => IInv
  BY InitInvariant
<1>2. IInv /\ [Next]_vars => IInv'
  BY StepInvariant
<1> QED
  BY <1>1, <1>2, PTL DEF Spec

-----------------------------------------------------------------------------
(***************************************************************************)
(* What follows from it.                                                   *)
(***************************************************************************)

\* Type correctness: every variable keeps its type, whatever the policy.
THEOREM TypeCorrect == Spec => []TypeOK
<1>1. IInv => TypeOK
  BY DEF IInv
<1> QED
  BY <1>1, Invariant, PTL

\* No position reaches Source::commit before every sink has accepted its
\* record: an epoch is handed over only once it is acknowledged, and all that
\* is acknowledged is accepted.
THEOREM AtLeastOnce == Spec => []CommittedIsDurable
<1>1. ASSUME IInv
      PROVE  CommittedIsDurable
  <2>1. \A i \in DOMAIN Handed : \A j \in DOMAIN Handed[i] : Handed[i][j] \in 1 .. acked
    BY <1>1, HandedAcknowledged DEF IInv, Handed
  <2> QED
    BY <1>1, <2>1 DEF IInv, AckedIsAccepted, CommittedIsDurable
<1> QED
  BY <1>1, Invariant, PTL

\* Epochs reach Source::commit in source order, without a gap.
THEOREM SourceOrder == Spec => []CommitsInSourceOrder
<1>1. IInv => CommitsInSourceOrder
  BY HandedAcknowledged DEF IInv, Handed, CommitsInSourceOrder
<1> QED
  BY <1>1, Invariant, PTL

\* A run that returns Ok has committed everything it took from the stream:
\* when it is done, the committed epochs are all the epochs there are.
THEOREM CleanStop == Spec => []CleanStopCommitsAll
<1>1. IInv => CleanStopCommitsAll
  BY NothingLeft DEF IInv, Control, CleanStopCommitsAll
<1> QED
  BY <1>1, Invariant, PTL

\* A run never returns while a sink is still being written to, and reports
\* sink failures exactly when there are some.
THEOREM Drain == Spec => []ReturnsDrained
<1>1. IInv => ReturnsDrained
  BY DEF IInv, Control, ReturnsDrained
<1> QED
  BY <1>1, Invariant, PTL

\* A deadline that has passed is never pushed back: only a commit clears it,
\* for every count, unit and order of acknowledgements.
THEOREM DeadlineStays == Spec => DeadlineNeverExtended
<1> DEFINE Stays == Kind = "AfterRecordsOrTimeout" /\ policy.deadline = "passed"
                      => policy'.deadline = "passed" \/ committed' # committed
<1>1. ASSUME IInv, [Next]_vars
      PROVE  Stays
  <2>1. CASE UNCHANGED policy
    BY <2>1
  <2>2. CASE DeliverySucceeds
    <3> SUFFICES ASSUME Kind = "AfterRecordsOrTimeout", policy.deadline = "passed"
                 PROVE  policy'.deadline = "passed"
      OBVIOUS
    <3>1. \A o \in OnAcknowledged(policy, 1) : o.policy.deadline = "passed"
      BY DEF OnAcknowledged, AfterRecordsOrTimeoutOnAcknowledged
    <3>2. \A o \in OnAcknowledged(policy, 1) :
            \A t \in OnTimeout(o.policy) : t.policy.deadline = "passed"
      BY <3>1 DEF OnTimeout
    <3>3. \A o \in AcknowledgeOutcomes(1) : o.policy.deadline = "passed"
      BY <3>1, <3>2 DEF AcknowledgeOutcomes
    <3>4. \E o \in AcknowledgeOutcomes(1) : policy' = o.policy
      BY <2>2 DEF DeliverySucceeds, AcknowledgeDelivery
    <3> QED
      BY <3>3, <3>4
  <2>3. CASE CommitTimer
    BY <2>3 DEF CommitTimer, HandleTimeout, OnTimeout
  <2>4. CASE CommitOk
    <3>1. committed \in Seq(Epoch) /\ committing \in Seq(Epoch) /\ committing # << >>
      BY <1>1, <2>4 DEF IInv, CommitInv, CommitTypeOK, CommitOk, CommitSucceeds
    <3>2. committed' = committed \o committing
      BY <2>4 DEF CommitOk, CommitSucceeds
    <3>3. Len(committed') = Len(committed) + Len(committing) /\ Len(committing) > 0
      BY <3>1, <3>2, ConcatProperties, EmptySeq, LenProperties
    <3>4. Len(committed) \in Nat /\ Len(committing) \in Nat
      BY <3>1, LenProperties
    <3> QED
      BY <3>3, <3>4
  <2>5. CASE Tick
    BY <2>5 DEF Tick, DeadlinePasses
  <2> QED
    BY <1>1, <2>1, <2>2, <2>3, <2>4, <2>5
       DEF Next, vars, commitVars, NextRecord, Track, NextFails, NextEnds, Finish, Deliver,
           DeliveryFails, CommitNext, PopEligible, CommitErr, CommitFails, CommitDone, Terminated
<1>2. IInv /\ [Next]_vars => [Stays]_vars
  BY <1>1
<1> QED
  BY <1>2, Invariant, PTL DEF Spec, DeadlineNeverExtended

-----------------------------------------------------------------------------
(***************************************************************************)
(* The count of a counting policy.  Where no epoch is closed at a boundary *)
(* the bookkeeping of CommitStateProofs holds at every control point.      *)
(***************************************************************************)
CountedIInv == IInv /\ (Counting => CountInv)

\* Every step of the runner keeps the bookkeeping.
LEMMA StepCount ==
    ASSUME IInv, Counting, CountInv, [Next]_vars
    PROVE  CountInv'
<1>1. CommitInv /\ acked \in Nat
  BY DEF IInv, CommitInv, CommitTypeOK
<1>2. pc \in {"next", "deliver"} => NothingEligible
  BY DEF IInv, Control
<1>3. pc = "next" => tracked = acked
  BY DEF IInv, Control
<1>4. CASE NextRecord
  BY <1>1, <1>2, <1>3, <1>4, TrackCount DEF NextRecord
<1>5. CASE NextEnds
  BY <1>1, <1>2, <1>3, <1>5, FinishCount DEF NextEnds
<1>6. CASE CommitTimer
  BY <1>1, <1>2, <1>3, <1>6, TimeoutCount DEF CommitTimer
<1>7. CASE DeliverySucceeds
  <2>1. tracked = acked + 1
    BY <1>7 DEF DeliverySucceeds, IInv, Control
  <2> QED
    BY <1>1, <1>2, <1>7, <2>1, AcknowledgeCount DEF DeliverySucceeds
<1>8. CASE CommitNext
  BY <1>8, PopCount DEF CommitNext
<1>9. CASE CommitOk
  BY <1>1, <1>9, CommitSucceedsCount DEF CommitOk
<1>10. CASE Tick
  BY <1>1, <1>10, DeadlinePassesCount DEF Tick
<1>11. CASE UNCHANGED commitVars
  BY <1>11, CountKept
<1> QED
  BY <1>4, <1>5, <1>6, <1>7, <1>8, <1>9, <1>10, <1>11
     DEF Next, vars, NextFails, Deliver, DeliveryFails, CommitErr, CommitFails, CommitDone,
         Terminated

\* Between two records the count of a counting policy is the number of
\* acknowledged records that are not committed, for every threshold, every
\* saturation limit and every order of timeouts, records and commits.
THEOREM CountIsPending == Spec => []PolicyCountsPending
<1>1. Init => CountedIInv
  BY InitInvariant, CountInit DEF Init, CountedIInv
<1>2. CountedIInv /\ [Next]_vars => CountedIInv'
  BY StepInvariant, StepCount DEF CountedIInv, Counting
<1>3. ASSUME CountedIInv, pc = "next", ~EpochBoundaries,
             Kind \in {"AfterRecords", "AfterRecordsOrTimeout"}
      PROVE  /\ policy.acknowledged = acked - CommittedThrough
             /\ policy.acknowledged < Threshold
             /\ Kind = "AfterRecordsOrTimeout" => (Deadline # "none" <=> acked > CommittedThrough)
  <2>1. CommitInv /\ CountInv /\ NothingEligible /\ tracked = acked
    BY <1>3 DEF CountedIInv, Counting, IInv, Control
  <2>2. Counted
    BY <2>1, CountExact
  <2>3. acked \in Nat /\ CommittedThrough \in Nat
    BY <2>1, CommittedType DEF CommitInv, CommitTypeOK
  <2>4. policy.acknowledged > 0 <=> acked > CommittedThrough
    BY <2>2, <2>3 DEF Counted
  <2>5. acked > CommittedThrough => currentEpochAcknowledged
    BY <2>1, <2>3, NothingLeft DEF CountInv
  <2> QED
    BY <2>2, <2>4, <2>5 DEF Counted, Deadline
<1>4. CountedIInv => PolicyCountsPending
  BY <1>3 DEF PolicyCountsPending
<1> QED
  BY <1>1, <1>2, <1>4, PTL DEF Spec

-----------------------------------------------------------------------------
(***************************************************************************)
(* The backlog of a counting policy with epochs closed at boundaries.      *)
(***************************************************************************)

\* The position that the acknowledged epochs reach.
AcknowledgedThrough == ThroughOf(Acknowledged, Len(Acknowledged))

\* The count runs at most one record behind; while epochs wait, at most the
\* last acknowledged record is in none of them; and an epoch is staged only by
\* the record that follows it.
Backlog ==
    /\ NothingEligible =>
          /\ policy.acknowledged < Threshold
          /\ acked <= CommittedThrough + policy.acknowledged + 1
    /\ ~NothingEligible => acked <= AcknowledgedThrough + 1
    /\ pc = "deliver" =>
          \/ stagedEpochs = << >>
          \/ \E epoch \in Epoch : stagedEpochs = <<epoch>> /\ LastOf(epoch) = acked

BacklogInv ==
    /\ IInv
    /\ Kind \in {"AfterRecords", "AfterRecordsOrTimeout"} => Backlog

\* The open epoch reaches the last tracked position.
LEMMA OpenEpochReaches ==
    ASSUME CommitInv, currentEpoch # << >>
    PROVE  currentEpoch \in Epoch /\ LastOf(currentEpoch) = tracked
<1>1. /\ Closed \in Seq(Epoch) /\ currentEpoch \in Epoch
  BY ListTypes DEF CommitInv, CommitTypeOK
<1>2. /\ Len(AllEpochs) = Len(Closed) + 1 /\ Len(Closed) \in Nat
      /\ AllEpochs[Len(AllEpochs)] = currentEpoch
  BY <1>1, AppendProperties, LenProperties DEF AllEpochs
<1> QED
  BY <1>1, <1>2 DEF CommitInv, Covers, ThroughOf

\* Where no epoch is open or staged, the acknowledged epochs are all there are.
LEMMA AllAcknowledged ==
    CommitInv /\ currentEpoch = << >> /\ stagedEpochs = << >>
      => AcknowledgedThrough = tracked
<1> SUFFICES ASSUME CommitInv, currentEpoch = << >>, stagedEpochs = << >>
             PROVE  AcknowledgedThrough = tracked
  OBVIOUS
<1>1. Acknowledged \in Seq(Epoch)
  BY ListTypes DEF CommitInv
<1>2. AllEpochs = Acknowledged
  BY <1>1, ConcatEmptySeq DEF AllEpochs, Closed
<1> QED
  BY <1>2 DEF CommitInv, Covers, AcknowledgedThrough


\* NextRecord counts nothing; it stages the open epoch, if it crosses a boundary.
LEMMA BacklogTracks ==
    ASSUME IInv, Backlog, NextRecord
    PROVE  Backlog'
<1>1. /\ NothingEligible /\ stagedEpochs = << >> /\ tracked = acked /\ CommitInv
      /\ Track(tracked + 1) /\ pc = "next"
  BY DEF NextRecord, IInv, Control
<1>2. UNCHANGED <<policy, eligibleEpochs, committing, committed, acked>>
  BY <1>1 DEF Track
<1>3. NothingEligible' /\ CommittedThrough' = CommittedThrough
  BY <1>1, <1>2, CommittedKept DEF NothingEligible
<1>4. \/ stagedEpochs' = << >>
      \/ currentEpoch # << >> /\ stagedEpochs' = Append(<< >>, currentEpoch)
  BY <1>1 DEF Track, FoldPosition, CrossBoundary, StartNextEpoch
<1>5. currentEpoch # << >> =>
        /\ currentEpoch \in Epoch /\ LastOf(currentEpoch) = acked
        /\ Append(<< >>, currentEpoch) = <<currentEpoch>>
  BY <1>1, OpenEpochReaches
<1>6. \/ stagedEpochs' = << >>
      \/ \E epoch \in Epoch : stagedEpochs' = <<epoch>> /\ LastOf(epoch) = acked'
  BY <1>2, <1>4, <1>5
<1> QED
  BY <1>1, <1>2, <1>3, <1>6 DEF Backlog, LastOf

\* Once the open epoch has joined the queue, nothing acknowledged is behind.
LEMMA BacklogQueued ==
    ASSUME IInv', currentEpoch' = << >>, stagedEpochs' = << >>, acked' = tracked',
           ~NothingEligible', pc' # "deliver"
    PROVE  Backlog'
<1>1. (CommitInv /\ currentEpoch = << >> /\ stagedEpochs = << >>
          => AcknowledgedThrough = tracked)'
  BY AllAcknowledged, PTL
<1>2. AcknowledgedThrough' = acked' /\ acked' \in Nat
  <2>1. CommitInv' /\ acked' \in Nat
    BY DEF IInv, CommitInv, CommitTypeOK
  <2> QED
    BY <1>1, <2>1
<1>3. acked' <= AcknowledgedThrough' + 1
  <2>0. \A n \in Nat : n <= n + 1
    OBVIOUS
  <2>1. acked' <= acked' + 1
    BY <1>2, <2>0
  <2> QED
    BY <1>2, <2>1, Zenon
<1> QED
  BY <1>3 DEF Backlog

\* A timeout, or the end of the stream: all is queued, if there is any.
LEMMA BacklogFinishes ==
    ASSUME IInv, IInv', Backlog, Kind \in {"AfterRecords", "AfterRecordsOrTimeout"},
           NextEnds \/ CommitTimer
    PROVE  Backlog'
<1>1. /\ NothingEligible /\ tracked = acked /\ stagedEpochs = << >>
      /\ eligibleEpochs \o stagedEpochs = << >>
  BY DEF NextEnds, CommitTimer, IInv, Control, NothingEligible
<1>2. /\ QueueLatest(<< >>) /\ stagedEpochs' = << >> /\ pc' # "deliver"
      /\ UNCHANGED <<policy, committing, committed, tracked, acked>>
  BY <1>1 DEF NextEnds, CommitTimer, Finish, HandleTimeout, OnTimeout, Goto, NothingEligible
<1>3. CASE NothingEligible'
  BY <1>1, <1>2, <1>3, CommittedKept DEF Backlog
<1>4. CASE ~NothingEligible'
  BY <1>1, <1>2, <1>4, BacklogQueued DEF QueueLatest
<1> QED
  BY <1>3, <1>4

\* An acknowledgement that commits queues everything; one that goes on adds one
\* to the count, unless a staged epoch leaves it just this one record.
LEMMA BacklogAcknowledges ==
    ASSUME IInv, IInv', Backlog, Kind \in {"AfterRecords", "AfterRecordsOrTimeout"},
           DeliverySucceeds
    PROVE  Backlog'
<1>1. /\ NothingEligible /\ tracked = acked + 1 /\ currentEpoch # << >> /\ CommitInv
      /\ AcknowledgeDelivery(1) /\ pc = "deliver" /\ pc' = "committing"
      /\ committed \in Seq(Epoch)
      /\ acked \in Nat /\ policy \in Policy /\ policy.acknowledged \in Nat
      /\ CommittedThrough \in Nat
      /\ Threshold \in Nat /\ UsizeMax \in Nat /\ Threshold <= UsizeMax
  BY CommittedType, PolicyAssumption
     DEF DeliverySucceeds, IInv, Control, CommitInv, CommitTypeOK, Goto, Policy
<1>2. /\ committing = << >> /\ eligibleEpochs \o stagedEpochs = stagedEpochs
      /\ stagedEpochs \in Seq(Epoch)
  BY <1>1, ConcatEmptySeq DEF NothingEligible, CommitInv, CommitTypeOK
<1>3. /\ stagedEpochs' = << >> /\ acked' = acked + 1
      /\ UNCHANGED <<committing, committed, tracked>>
  BY <1>1 DEF AcknowledgeDelivery
<1>4. PICK outcome \in AcknowledgeOutcomes(1) :
        /\ policy' = outcome.policy
        /\ IF outcome.action = "CommitLatest"
             THEN QueueLatest(stagedEpochs) ELSE KeepOpen(stagedEpochs, currentEpoch # << >>)
  BY <1>1, <1>2 DEF AcknowledgeDelivery
<1>5. CASE outcome.action = "CommitLatest"
  <2>1. eligibleEpochs' = Append(stagedEpochs, currentEpoch) /\ currentEpoch' = << >>
    BY <1>1, <1>4, <1>5 DEF QueueLatest
  <2>2. eligibleEpochs' # << >>
    BY <1>1, <1>2, <2>1, OpenEpochReaches, AppendProperties
  <2> QED
    BY <1>1, <1>3, <2>1, <2>2, BacklogQueued DEF NothingEligible
<1>6. CASE outcome.action # "CommitLatest" /\ stagedEpochs = << >>
  <2>1. NothingEligible' /\ CommittedThrough' = CommittedThrough
    BY <1>2, <1>3, <1>4, <1>6, CommittedKept DEF KeepOpen, NothingEligible
  <2>2. outcome \in OnAcknowledged(policy, 1)
    BY <1>4, <1>6 DEF AcknowledgeOutcomes, OnTimeout
  <2>3. /\ outcome.policy.acknowledged = SaturatingAdd(policy.acknowledged, 1)
        /\ outcome.action = CountAction(outcome.policy.acknowledged)
    BY <1>1, <2>2
       DEF OnAcknowledged, AfterRecordsOnAcknowledged, AfterRecordsOrTimeoutOnAcknowledged,
           Policy
  <2>4. SaturatingAdd(policy.acknowledged, 1) < Threshold
    BY <1>1, <1>6, <2>3 DEF CountAction, SaturatingAdd
  <2>5. policy'.acknowledged = policy.acknowledged + 1 /\ policy'.acknowledged < Threshold
    BY <1>1, <1>4, <2>3, <2>4 DEF SaturatingAdd
  <2>6. acked <= CommittedThrough + policy.acknowledged + 1
    BY <1>1 DEF Backlog
  <2> QED
    BY <1>1, <1>3, <2>1, <2>5, <2>6 DEF Backlog
<1>7. CASE outcome.action # "CommitLatest" /\ stagedEpochs # << >>
  <2>1. PICK epoch \in Epoch : stagedEpochs = <<epoch>> /\ LastOf(epoch) = acked
    BY <1>1, <1>7 DEF Backlog
  <2>2. eligibleEpochs' = <<epoch>> /\ committing' = << >>
    BY <1>2, <1>3, <1>4, <1>7, <2>1 DEF KeepOpen
  <2>3. Acknowledged' = Append(committed, epoch)
    <3>1. Acknowledged' = (committed \o << >>) \o <<epoch>>
      BY <1>3, <2>2 DEF Acknowledged
    <3>2. committed \o << >> = committed
      BY <1>1, ConcatEmptySeq
    <3> QED
      BY <1>1, <3>1, <3>2, AppendIsConcat
  <2>4. AcknowledgedThrough' = acked
    <3>1. /\ Len(Acknowledged') = Len(committed) + 1 /\ Len(committed) \in Nat
          /\ Acknowledged'[Len(committed) + 1] = epoch
      BY <1>1, <2>3, AppendProperties, LenProperties
    <3> QED
      BY <2>1, <3>1 DEF AcknowledgedThrough, ThroughOf, LastOf
  <2> QED
    BY <1>1, <1>3, <2>2, <2>4 DEF Backlog, NothingEligible
<1> QED
  BY <1>5, <1>6, <1>7

\* The commit loop moves epochs within the acknowledged ones, and the last
\* commit leaves the count at zero.
LEMMA BacklogCommits ==
    ASSUME IInv, Backlog, Kind \in {"AfterRecords", "AfterRecordsOrTimeout"},
           CommitNext \/ CommitOk
    PROVE  Backlog'
<1>1. /\ CommitTypeOK
      /\ PopEligible \/ CommitSucceeds
      /\ ~NothingEligible /\ acked' = acked /\ pc' # "deliver"
  BY DEF IInv, CommitInv, CommitNext, CommitOk, PopEligible, CommitSucceeds, NothingEligible
<1>2. Acknowledged' = Acknowledged
  BY <1>1, PopKeepsAcknowledged, CommitKeepsAcknowledged DEF IInv, CommitInv
<1>3. acked' <= AcknowledgedThrough' + 1
  BY <1>1, <1>2 DEF Backlog, AcknowledgedThrough, ThroughOf, LastOf
<1>4. CASE ~NothingEligible'
  BY <1>1, <1>3, <1>4 DEF Backlog
<1>5. CASE NothingEligible'
  <2>1. CommitSucceeds
    BY <1>1, <1>5 DEF PopEligible, NothingEligible
  <2>2. policy'.acknowledged = 0
    BY <2>1 DEF CommitSucceeds, OnCommitted, NewPolicy, IInv, CommitInv, CommitTypeOK, Policy
  <2>3. Acknowledged' = committed'
    <3>1. committed' \in Seq(Epoch)
      BY <2>1, ConcatProperties DEF CommitSucceeds, IInv, CommitInv, CommitTypeOK
    <3> QED
      BY <1>5, <3>1, ConcatEmptySeq DEF Acknowledged, NothingEligible
  <2>4. AcknowledgedThrough' = CommittedThrough'
    BY <2>3 DEF AcknowledgedThrough, CommittedThrough
  <2>5. acked' <= CommittedThrough' + 0 + 1
    <3>1. CommittedThrough' \in (CommittedThrough + 1) .. acked /\ CommittedThrough \in Nat
      BY <1>1, <2>1, CommitSucceedsInv, CommittedType DEF IInv
    <3>2. CommittedThrough' + 0 + 1 = CommittedThrough' + 1
      BY <3>1
    <3> QED
      BY <1>3, <2>4, <3>2
  <2> QED
    BY <1>1, <1>5, <2>2, <2>5, PolicyAssumption DEF Backlog
<1> QED
  BY <1>4, <1>5

\* Every step of the runner keeps the backlog within the threshold.
LEMMA StepBacklog ==
    ASSUME IInv, Backlog, Kind \in {"AfterRecords", "AfterRecordsOrTimeout"}, [Next]_vars
    PROVE  Backlog'
<1>1. IInv'
  BY StepInvariant
<1>2. CASE NextRecord
  BY <1>2, BacklogTracks
<1>3. CASE NextEnds \/ CommitTimer
  BY <1>1, <1>3, BacklogFinishes
<1>4. CASE DeliverySucceeds
  BY <1>1, <1>4, BacklogAcknowledges
<1>5. CASE CommitNext \/ CommitOk
  BY <1>5, BacklogCommits
<1>6. CASE Tick
  <2>1. /\ policy'.acknowledged = policy.acknowledged
        /\ UNCHANGED <<stagedEpochs, eligibleEpochs, committing, committed, acked, pc>>
    BY <1>6 DEF Tick, DeadlinePasses, IInv, CommitInv, CommitTypeOK, Policy
  <2>2. CommittedThrough' = CommittedThrough /\ AcknowledgedThrough' = AcknowledgedThrough
    BY <2>1, CommittedKept DEF AcknowledgedThrough, Acknowledged, ThroughOf, LastOf
  <2> QED
    BY <2>1, <2>2 DEF Backlog, NothingEligible, LastOf
<1>7. CASE UNCHANGED commitVars /\ (pc' = pc \/ pc' # "deliver")
  <2>1. CommittedThrough' = CommittedThrough /\ AcknowledgedThrough' = AcknowledgedThrough
    BY <1>7, CommittedKept DEF commitVars, AcknowledgedThrough, Acknowledged, ThroughOf, LastOf
  <2> QED
    BY <1>7, <2>1 DEF Backlog, NothingEligible, LastOf, commitVars
<1> QED
  BY <1>2, <1>3, <1>4, <1>5, <1>6, <1>7
     DEF Next, vars, NextFails, Deliver, DeliveryFails, CommitErr, CommitFails, CommitDone,
         Terminated, Goto, Fail

\* A run begins with no backlog.
LEMMA BacklogInit == Init => BacklogInv
<1> SUFFICES ASSUME Init PROVE BacklogInv
  OBVIOUS
<1>1. /\ IInv
      /\ NothingEligible /\ policy.acknowledged = 0 /\ acked = 0 /\ pc # "deliver"
  BY InitInvariant DEF Init, CommitInit, NothingEligible, NewPolicy
<1>2. CommittedThrough \in Nat /\ Threshold \in Nat \ {0}
  BY <1>1, CommittedType, PolicyAssumption DEF IInv, CommitInv
<1>3. acked <= CommittedThrough + policy.acknowledged + 1
  BY <1>1, <1>2
<1> QED
  BY <1>1, <1>2, <1>3 DEF BacklogInv, Backlog

\* Every step keeps the invariant and the backlog.
LEMMA BacklogStep == BacklogInv /\ [Next]_vars => BacklogInv'
  BY StepInvariant, StepBacklog DEF BacklogInv

\* Between two records nothing waits, and the count is below the threshold.
LEMMA BacklogWithinThreshold == BacklogInv => BacklogBounded
<1>1. ASSUME BacklogInv, pc = "next", Kind \in {"AfterRecords", "AfterRecordsOrTimeout"}
      PROVE  acked - CommittedThrough <= Threshold
  <2>1. /\ NothingEligible /\ Backlog
        /\ acked \in Nat /\ policy.acknowledged \in Nat
        /\ CommittedThrough \in Nat /\ Threshold \in Nat
    BY <1>1, CommittedType, PolicyAssumption
       DEF BacklogInv, IInv, Control, CommitInv, CommitTypeOK, Policy
  <2>2. acked <= CommittedThrough + policy.acknowledged + 1 /\ policy.acknowledged < Threshold
    BY <2>1 DEF Backlog
  <2> QED
    BY <2>1, <2>2
<1> QED
  BY <1>1 DEF BacklogBounded

\* Wherever a policy or its wrapper closes epochs, no more than Threshold
\* acknowledged records are uncommitted between two records: the reset of the
\* count by a commit that leaves a later record open costs one record.
THEOREM BacklogIsBounded == Spec => []BacklogBounded
  BY BacklogInit, BacklogStep, BacklogWithinThreshold, PTL DEF Spec

-----------------------------------------------------------------------------
(***************************************************************************)
(* The runner implements AckedProgress.                                    *)
(***************************************************************************)

Outcome == CASE pc = "done"   -> "ok"
             [] pc = "failed" -> "error"
             [] OTHER         -> "running"

\* A step that changes neither the acknowledged nor the committed progress,
\* nor whether the run has returned, is a stutter.
LEMMA PromiseStutter ==
    ASSUME UNCHANGED <<acked, committed>>, Outcome' = Outcome
    PROVE  UNCHANGED Promise!vars
<1>1. CommittedThrough' = CommittedThrough
  BY DEF CommittedThrough, ThroughOf, LastOf
<1> QED
  BY <1>1 DEF Promise!vars, Outcome

\* A run that returns an error fails in the abstract too.
LEMMA PromiseFails ==
    ASSUME UNCHANGED <<acked, committed>>, pc \notin {"done", "failed"}, pc' = "failed"
    PROVE  Promise!Next
<1>1. CommittedThrough' = CommittedThrough
  BY DEF CommittedThrough, ThroughOf, LastOf
<1> QED
  BY <1>1 DEF Promise!Next, Promise!Fail

\* Init and every step of the runner are allowed by AckedProgress, through the
\* mapping acked -> delivered, CommittedThrough -> persisted.
THEOREM Refinement == Spec => ImplementsPromise
<1>1. Init => Promise!Init
  BY DEF Init, CommitInit, Promise!Init, CommittedThrough, ThroughOf
<1>2. ASSUME IInv, [Next]_vars
      PROVE  [Promise!Next]_(Promise!vars)
  <2> USE DEF Outcome
  <2>1. CASE NextRecord
    BY <2>1, PromiseStutter DEF NextRecord, Track, Goto
  <2>2. CASE NextFails
    BY <2>2, PromiseFails DEF NextFails, Fail, commitVars
  <2>3. CASE NextEnds
    BY <2>3, PromiseStutter DEF NextEnds, Finish, Goto
  <2>4. CASE CommitTimer
    BY <2>4, PromiseStutter DEF CommitTimer, HandleTimeout, Goto
  <2>5. CASE \E s \in Sinks : Deliver(s)
    BY <2>5, PromiseStutter DEF Deliver, commitVars
  <2>6. CASE DeliverySucceeds
    <3>1. /\ acked' = acked + 1 /\ committed' = committed /\ acked \in Nat
          /\ pc = "deliver" /\ pc' = "committing"
      BY <1>2, <2>6 DEF DeliverySucceeds, AcknowledgeDelivery, Goto, IInv, CommitInv, CommitTypeOK
    <3>2. CommittedThrough' = CommittedThrough
      BY <3>1 DEF CommittedThrough, ThroughOf, LastOf
    <3> QED
      BY <3>1, <3>2 DEF Promise!Next, Promise!Deliver
  <2>7. CASE DeliveryFails
    BY <2>7, PromiseFails DEF DeliveryFails, Fail, commitVars
  <2>8. CASE CommitNext
    BY <2>8, PromiseStutter DEF CommitNext, PopEligible
  <2>9. CASE CommitOk
    <3>1. CommittedThrough' \in (CommittedThrough + 1) .. acked
      BY <1>2, <2>9, CommitSucceedsInv DEF IInv, CommitOk
    <3>2. /\ acked' = acked /\ pc' = pc
          /\ pc \in {"committing", "finishing"}
      BY <2>9 DEF CommitOk, CommitSucceeds
    <3> QED
      BY <3>1, <3>2 DEF Promise!Next, Promise!Persist
  <2>10. CASE CommitErr
    BY <2>10, PromiseFails DEF CommitErr, CommitFails, Fail, commitVars
  <2>11. CASE CommitDone
    <3>1. CASE pc = "committing"
      BY <2>11, <3>1, PromiseStutter DEF CommitDone, Goto, commitVars
    <3>2. CASE pc = "finishing"
      <4>1. /\ UNCHANGED commitVars /\ pc' = "done"
            /\ NothingEligible
        BY <2>11, <3>2 DEF CommitDone, Goto
      <4>2. CommittedThrough = acked
        BY <1>2, <3>2, <4>1, NothingLeft DEF IInv, Control
      <4>3. CommittedThrough' = CommittedThrough /\ acked' = acked
        BY <4>1 DEF commitVars, CommittedThrough, ThroughOf, LastOf
      <4> QED
        BY <3>2, <4>1, <4>2, <4>3 DEF Promise!Next, Promise!Complete
    <3> QED
      BY <2>11, <3>1, <3>2 DEF CommitDone
  <2>12. CASE Tick
    BY <2>12, PromiseStutter DEF Tick, DeadlinePasses
  <2>13. CASE Terminated \/ UNCHANGED vars
    BY <2>13, PromiseStutter DEF Terminated, vars, commitVars
  <2> QED
    BY <1>2, <2>1, <2>2, <2>3, <2>4, <2>5, <2>6, <2>7, <2>8, <2>9, <2>10, <2>11, <2>12, <2>13
       DEF Next
<1> QED
  BY <1>1, <1>2, Invariant, PTL DEF Spec, ImplementsPromise, Promise!Spec
===============================================================================
