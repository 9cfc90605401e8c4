-------------------------- MODULE CommitStateProofs --------------------------
(***************************************************************************)
(* Every operation of CommitState keeps CommitInv, from the facts the      *)
(* runners establish before they call it.  The runners' proofs cite these  *)
(* lemmas, one per operation.                                              *)
(***************************************************************************)
EXTENDS CommitState, SequenceTheorems, TLAPS

-----------------------------------------------------------------------------
(***************************************************************************)
(* Epochs.                                                                 *)
(***************************************************************************)

\* The first and the last position of an epoch are positions.
LEMMA EpochEnds ==
    ASSUME NEW epoch \in Epoch
    PROVE  /\ epoch \in Seq(Position)
           /\ Len(epoch) \in Nat \ {0}
           /\ FirstOf(epoch) \in Position
           /\ LastOf(epoch) \in Position
  BY EmptySeq DEF Epoch, FirstOf, LastOf, Position

\* start_epoch gives a run of one position.
LEMMA StartEpochRun ==
    ASSUME NEW position \in Position
    PROVE  /\ StartEpoch(position) \in Epoch
           /\ FirstOf(StartEpoch(position)) = position
           /\ LastOf(StartEpoch(position)) = position
           /\ IsRun(StartEpoch(position))
  BY DEF StartEpoch, Epoch, FirstOf, LastOf, IsRun, Position

\* include_position keeps where an epoch begins, and keeps a run a run when
\* the position is the next one.
LEMMA IncludePositionRun ==
    ASSUME NEW epoch \in Epoch, NEW position \in Position
    PROVE  /\ IncludePosition(epoch, position) \in Epoch
           /\ FirstOf(IncludePosition(epoch, position)) = FirstOf(epoch)
           /\ LastOf(IncludePosition(epoch, position)) = position
           /\ IsRun(epoch) /\ position = LastOf(epoch) + 1
                => IsRun(IncludePosition(epoch, position))
<1> DEFINE longer == IncludePosition(epoch, position)
<1>1. /\ longer \in Seq(Position)
      /\ longer # << >>
      /\ Len(longer) = Len(epoch) + 1
      /\ \A i \in 1 .. Len(epoch) : longer[i] = epoch[i]
      /\ longer[Len(epoch) + 1] = position
  BY EpochEnds, AppendProperties DEF IncludePosition
<1>2. Len(epoch) \in Nat \ {0}
  BY EpochEnds
<1>3. FirstOf(longer) = FirstOf(epoch) /\ LastOf(longer) = position
  BY <1>1, <1>2 DEF FirstOf, LastOf
<1>4. ASSUME IsRun(epoch), position = LastOf(epoch) + 1
      PROVE  IsRun(longer)
  <2>1. LastOf(epoch) = FirstOf(epoch) + (Len(epoch) - 1)
    BY <1>2, <1>4 DEF IsRun, LastOf
  <2>2. FirstOf(epoch) \in Nat
    BY EpochEnds DEF Position
  <2>3. ASSUME NEW i \in 1 .. Len(longer)
        PROVE  longer[i] = FirstOf(epoch) + (i - 1)
    <3>1. CASE i \in 1 .. Len(epoch)
      BY <1>1, <1>4, <3>1 DEF IsRun
    <3>2. CASE i = Len(epoch) + 1
      BY <1>1, <1>2, <1>4, <2>1, <2>2, <3>2
    <3> QED
      BY <1>1, <1>2, <2>3, <3>1, <3>2
  <2> QED
    BY <1>3, <2>3 DEF IsRun
<1> QED
  BY <1>1, <1>3, <1>4 DEF Epoch

-----------------------------------------------------------------------------
(***************************************************************************)
(* Lists of epochs.                                                        *)
(***************************************************************************)

\* A list that covers the positions up to n, and an epoch that continues it.
LEMMA CoversAppend ==
    ASSUME NEW epochs \in Seq(Epoch), NEW epoch \in Epoch,
           NEW n \in Nat,
           Covers(epochs, n), IsRun(epoch), Continues(n, epoch)
    PROVE  Covers(Append(epochs, epoch), LastOf(epoch))
<1> DEFINE longer == Append(epochs, epoch)
           m == Len(epochs)
<1>1. /\ longer \in Seq(Epoch)
      /\ Len(longer) = m + 1
      /\ \A i \in 1 .. m : longer[i] = epochs[i]
      /\ longer[m + 1] = epoch
      /\ m \in Nat
  BY AppendProperties, LenProperties
<1>2. n < LastOf(epoch) /\ LastOf(epoch) \in Nat
  BY EpochEnds DEF Continues, Position
<1>3. ASSUME NEW i \in 1 .. m
      PROVE  LastOf(epochs[i]) \in Nat
  BY <1>1, EpochEnds, ElementOfSeq DEF Position
<1>4. \A i \in 0 .. m : ThroughOf(longer, i) = ThroughOf(epochs, i)
  BY <1>1 DEF ThroughOf
<1>5. ASSUME NEW i \in 1 .. m + 1
      PROVE  /\ IsRun(longer[i])
             /\ Continues(ThroughOf(longer, i - 1), longer[i])
             /\ LastOf(longer[i]) <= LastOf(epoch)
  <2>1. CASE i \in 1 .. m
    <3>1. LastOf(longer[i]) <= LastOf(epoch)
      BY <1>1, <1>2, <1>3, <2>1 DEF Covers
    <3>2. IsRun(longer[i]) /\ Continues(ThroughOf(longer, i - 1), longer[i])
      BY <1>1, <1>4, <2>1 DEF Covers, InOrder
    <3> QED
      BY <3>1, <3>2
  <2>2. CASE i = m + 1
    BY <1>1, <1>2, <1>4, <2>2 DEF Covers
  <2> QED
    BY <1>1, <1>5, <2>1, <2>2
<1>6. ThroughOf(longer, m + 1) = LastOf(epoch)
  BY <1>1 DEF ThroughOf
<1> QED
  BY <1>1, <1>5, <1>6 DEF Covers, InOrder

\* The last epoch of a list may be replaced by one that begins at the same
\* position and reaches further.
LEMMA CoversExtend ==
    ASSUME NEW epochs \in Seq(Epoch), NEW old \in Epoch, NEW new \in Epoch,
           NEW n \in Nat,
           Covers(Append(epochs, old), n),
           IsRun(new), FirstOf(new) = FirstOf(old), n < LastOf(new)
    PROVE  Covers(Append(epochs, new), LastOf(new))
<1> DEFINE before == Append(epochs, old)
           after == Append(epochs, new)
           m == Len(epochs)
<1>1. /\ Len(before) = m + 1 /\ Len(after) = m + 1
      /\ \A i \in 1 .. m : before[i] = epochs[i] /\ after[i] = epochs[i]
      /\ before[m + 1] = old /\ after[m + 1] = new
      /\ m \in Nat
  BY AppendProperties, LenProperties
<1>2. LastOf(old) = n /\ LastOf(new) \in Nat
  BY <1>1, EpochEnds DEF Covers, ThroughOf, Position
<1>3. ASSUME NEW i \in 1 .. m
      PROVE  LastOf(epochs[i]) \in Nat
  BY <1>1, EpochEnds, ElementOfSeq DEF Position
<1>4. \A i \in 0 .. m : ThroughOf(after, i) = ThroughOf(before, i)
  BY <1>1 DEF ThroughOf
<1>5. ThroughOf(before, m) \in Nat
  BY <1>1, <1>3 DEF ThroughOf
<1>6. ASSUME NEW i \in 1 .. m + 1
      PROVE  /\ IsRun(after[i])
             /\ Continues(ThroughOf(after, i - 1), after[i])
             /\ LastOf(after[i]) <= LastOf(new)
  <2>1. /\ IsRun(before[i])
        /\ Continues(ThroughOf(before, i - 1), before[i])
        /\ LastOf(before[i]) <= n
    BY <1>1 DEF Covers, InOrder
  <2>2. CASE i \in 1 .. m
    <3>1. after[i] = before[i] /\ ThroughOf(after, i - 1) = ThroughOf(before, i - 1)
      BY <1>1, <1>4, <2>2
    <3>2. LastOf(after[i]) <= LastOf(new)
      BY <1>1, <1>2, <1>3, <2>1, <2>2
    <3> QED
      BY <2>1, <3>1, <3>2
  <2>3. CASE i = m + 1
    <3>1. Continues(ThroughOf(before, m), old)
      BY <1>1, <2>1, <2>3
    <3>2. Continues(ThroughOf(before, m), new)
      BY <1>2, <1>5, <3>1 DEF Continues
    <3> QED
      BY <1>1, <1>2, <1>4, <2>3, <3>2
  <2> QED
    BY <1>1, <1>6, <2>2, <2>3
<1>7. ThroughOf(after, m + 1) = LastOf(new)
  BY <1>1 DEF ThroughOf
<1> QED
  BY <1>1, <1>6, <1>7 DEF Covers, InOrder

\* Appending after a concatenation is concatenating the longer list.
LEMMA ConcatAppend ==
    ASSUME NEW S, NEW s \in Seq(S), NEW t \in Seq(S), NEW e \in S
    PROVE  s \o Append(t, e) = Append(s \o t, e)
  BY AppendIsConcat, ConcatAssociative, ConcatProperties

\* A sequence that is not empty and not longer than one has one element.
LEMMA SingletonSeq ==
    ASSUME NEW S, NEW s \in Seq(S), s # << >>, Len(s) <= 1
    PROVE  \E e \in S : s = <<e>>
<1>1. Len(s) = 1
  <2>1. Len(s) \in Nat \ {0}
    BY EmptySeq
  <2> QED
    BY <2>1
<1>2. s[1] \in S
  BY <1>1, ElementOfSeq
<1>3. <<s[1]>> \in Seq(S) /\ Len(<<s[1]>>) = 1 /\ <<s[1]>>[1] = s[1]
  BY <1>2
<1>4. s = <<s[1]>>
  BY <1>1, <1>3, SeqEqual
<1> QED
  BY <1>2, <1>4

\* The first part of a concatenation, element by element.
LEMMA ConcatPrefix ==
    ASSUME NEW S, NEW s \in Seq(S), NEW t \in Seq(S)
    PROVE  /\ s \o t \in Seq(S)
           /\ Len(s \o t) = Len(s) + Len(t)
           /\ Len(s) \in Nat /\ Len(t) \in Nat
           /\ \A i \in 1 .. Len(s) : (s \o t)[i] = s[i]
  BY ConcatProperties, LenProperties
-----------------------------------------------------------------------------
(***************************************************************************)
(* The policy: every callback of every kind returns a policy.              *)
(***************************************************************************)

\* on_acknowledged returns a policy and an action.
LEMMA OnAcknowledgedType ==
    ASSUME NEW p \in Policy, NEW n \in Nat
    PROVE  \A o \in OnAcknowledged(p, n) :
               o.policy \in Policy /\ o.action \in CommitAction
<1>1. UsizeMax \in Nat
  BY PolicyAssumption
<1>2. p.acknowledged \in 0 .. UsizeMax /\ p.deadline \in Deadlines
  BY DEF Policy
<1>3. SaturatingAdd(p.acknowledged, n) \in 0 .. UsizeMax
  BY <1>1, <1>2 DEF SaturatingAdd
<1>4. CASE Kind = "CommitEach"
  BY <1>4 DEF OnAcknowledged, CommitEachOnAcknowledged, CommitAction
<1>5. CASE Kind = "AfterRecords"
  BY <1>3, <1>5 DEF OnAcknowledged, AfterRecordsOnAcknowledged, CountAction, CommitAction, Policy
<1>6. CASE Kind = "AfterRecordsOrTimeout"
  BY <1>2, <1>3, <1>6 DEF OnAcknowledged, AfterRecordsOrTimeoutOnAcknowledged, CountAction,
                          CommitAction, Policy, Deadlines
<1>7. CASE Kind = "Custom"
  BY <1>7 DEF OnAcknowledged, CustomOnAcknowledged, CommitAction, Policy, Deadlines
<1> QED
  BY <1>4, <1>5, <1>6, <1>7, PolicyAssumption DEF PolicyKinds

\* on_timeout returns a policy and an action.
LEMMA OnTimeoutType ==
    ASSUME NEW p \in Policy
    PROVE  \A o \in OnTimeout(p) : o.policy \in Policy /\ o.action \in CommitAction
  BY DEF OnTimeout, CustomOnTimeout, Policy, CommitAction, Deadlines

\* on_committed returns a policy.
LEMMA OnCommittedType ==
    ASSUME NEW p \in Policy
    PROVE  OnCommitted(p) \subseteq Policy
  BY PolicyAssumption DEF OnCommitted, NewPolicy, Policy, Deadlines, PolicyKinds

\* So does acknowledge_delivery, whichever of the callbacks speaks last.
LEMMA AcknowledgeOutcomesType ==
    ASSUME policy \in Policy, NEW n \in Nat
    PROVE  \A o \in AcknowledgeOutcomes(n) :
               o.policy \in Policy /\ o.action \in CommitAction
  BY OnAcknowledgedType, OnTimeoutType DEF AcknowledgeOutcomes

-----------------------------------------------------------------------------
(***************************************************************************)
(* The lists of a state that satisfies CommitTypeOK.                       *)
(***************************************************************************)

\* Each part of the list of epochs, and each concatenation of parts.
LEMMA ListTypes ==
    ASSUME CommitTypeOK
    PROVE  /\ Acknowledged \in Seq(Epoch)
           /\ Closed \in Seq(Epoch)
           /\ AllEpochs \in Seq(Epoch)
           /\ currentEpoch # << >> => currentEpoch \in Epoch
<1>1. Acknowledged \in Seq(Epoch)
  BY ConcatProperties DEF Acknowledged, CommitTypeOK
<1>2. Closed \in Seq(Epoch)
  BY <1>1, ConcatProperties DEF Closed, CommitTypeOK
<1>3. currentEpoch # << >> => currentEpoch \in Epoch
  BY DEF CommitTypeOK
<1> QED
  BY <1>1, <1>2, <1>3, AppendProperties DEF AllEpochs

\* The first part of a list that covers the positions up to n ends at n or
\* before.  The open epoch may be there or not.
LEMMA CoversPrefix ==
    ASSUME NEW first \in Seq(Epoch), NEW rest \in Seq(Epoch),
           NEW open \in Epoch \cup {<< >>}, NEW n,
           Covers(IF open = << >> THEN first \o rest ELSE Append(first \o rest, open), n)
    PROVE  \A i \in 1 .. Len(first) : LastOf(first[i]) <= n
<1> DEFINE closed == first \o rest
           list == IF open = << >> THEN closed ELSE Append(closed, open)
<1>1. /\ closed \in Seq(Epoch)
      /\ Len(closed) = Len(first) + Len(rest)
      /\ Len(first) \in Nat /\ Len(rest) \in Nat
      /\ \A i \in 1 .. Len(first) : closed[i] = first[i]
  BY ConcatPrefix
<1>2. /\ Len(list) \in Nat
      /\ Len(closed) <= Len(list)
      /\ \A i \in 1 .. Len(closed) : list[i] = closed[i]
  <2>1. CASE open = << >>
    BY <1>1, <2>1
  <2>2. CASE open # << >>
    <3>1. /\ Len(Append(closed, open)) = Len(closed) + 1
          /\ \A i \in 1 .. Len(closed) : Append(closed, open)[i] = closed[i]
      BY <1>1, <2>2, AppendProperties
    <3> QED
      BY <1>1, <2>2, <3>1
  <2> QED
    BY <2>1, <2>2
<1>3. \A i \in 1 .. Len(list) : LastOf(list[i]) <= n
  BY DEF Covers
<1> QED
  BY <1>1, <1>2, <1>3

\* Where a list in order is cut, the parts before and after it meet.
LEMMA InOrderPrefix ==
    ASSUME NEW list \in Seq(Epoch), InOrder(list), NEW first \in Seq(Epoch),
           Len(first) <= Len(list),
           \A i \in 1 .. Len(first) : list[i] = first[i]
    PROVE  InOrder(first)
<1>1. Len(list) \in Nat /\ Len(first) \in Nat
  BY LenProperties
<1>2. \A i \in 0 .. Len(first) : ThroughOf(first, i) = ThroughOf(list, i)
  BY <1>1 DEF ThroughOf
<1> QED
  BY <1>1, <1>2 DEF InOrder

\* The acknowledged epochs are in source order.
LEMMA AcknowledgedInOrder ==
    ASSUME CommitInv
    PROVE  InOrder(Acknowledged)
<1>1. CommitTypeOK /\ stagedEpochs \in Seq(Epoch)
  BY DEF CommitInv, CommitTypeOK
<1>2. /\ Acknowledged \in Seq(Epoch) /\ Closed \in Seq(Epoch)
      /\ AllEpochs \in Seq(Epoch)
      /\ currentEpoch # << >> => currentEpoch \in Epoch
  BY <1>1, ListTypes
<1>3. /\ Len(Closed) = Len(Acknowledged) + Len(stagedEpochs)
      /\ Len(Acknowledged) \in Nat /\ Len(stagedEpochs) \in Nat
      /\ \A i \in 1 .. Len(Acknowledged) : Closed[i] = Acknowledged[i]
  BY <1>1, <1>2, ConcatPrefix DEF Closed
<1>4. /\ Len(Closed) <= Len(AllEpochs)
      /\ Len(AllEpochs) \in Nat
      /\ \A i \in 1 .. Len(Closed) : AllEpochs[i] = Closed[i]
  BY <1>2, <1>3, AppendProperties DEF AllEpochs
<1>5. /\ Len(Acknowledged) <= Len(AllEpochs)
      /\ \A i \in 1 .. Len(Acknowledged) : AllEpochs[i] = Acknowledged[i]
  BY <1>3, <1>4
<1>6. InOrder(AllEpochs)
  BY DEF CommitInv, Covers
<1> QED
  BY <1>2, <1>5, <1>6, InOrderPrefix

-----------------------------------------------------------------------------
(***************************************************************************)
(* The operations.                                                         *)
(***************************************************************************)

\* CommitState::new: nothing is tracked, the list is empty.
LEMMA CommitInitInv ==
    ASSUME CommitInit
    PROVE  CommitInv
<1>1. /\ << >> \in Seq(Epoch)
      /\ Len(<< >>) = 0
  BY EmptySeq
<1>2. NewPolicy \in Policy
  BY PolicyAssumption DEF NewPolicy, Policy, Deadlines
<1>3. CommitTypeOK
  BY <1>1, <1>2 DEF CommitInit, CommitTypeOK
<1>4. AllEpochs = << >> /\ Acknowledged = << >>
  BY <1>1, ConcatEmptySeq DEF CommitInit, AllEpochs, Closed, Acknowledged
<1> QED
  BY <1>1, <1>3, <1>4
     DEF CommitInit, CommitInv, Covers, InOrder, ThroughOf, AcknowledgedOnly

\* A step that moves epochs from one part of the list to another.
LEMMA MovedEpochsInv ==
    ASSUME CommitInv, CommitTypeOK', AllEpochs' = AllEpochs, tracked' = tracked,
           acked' = tracked' \/ (acked' = acked /\ Acknowledged' = Acknowledged),
           Len(committing') <= 1
    PROVE  CommitInv'
<1>1. Covers(AllEpochs', tracked')
  BY DEF CommitInv
<1>2. AcknowledgedOnly'
  <2>1. CASE acked' = tracked'
    <3>1. /\ Acknowledged' \in Seq(Epoch) /\ stagedEpochs' \in Seq(Epoch)
          /\ currentEpoch' \in Epoch \cup {<< >>}
      BY ConcatProperties DEF Acknowledged, CommitTypeOK
    <3>2. \A i \in 1 .. Len(Acknowledged') : LastOf(Acknowledged'[i]) <= tracked'
      BY <1>1, <3>1, CoversPrefix DEF AllEpochs, Closed
    <3> QED
      BY <2>1, <3>2 DEF AcknowledgedOnly, LastOf
  <2>2. CASE acked' = acked /\ Acknowledged' = Acknowledged
    BY <2>2 DEF CommitInv, AcknowledgedOnly, LastOf
  <2> QED
    BY <2>1, <2>2
<1>3. Covers(AllEpochs, tracked)'
  BY <1>1 DEF Covers, InOrder, ThroughOf, Continues, IsRun, FirstOf, LastOf
<1> QED
  BY <1>2, <1>3 DEF CommitInv

\* A step that leaves the epochs where they are: the timer, a failed commit.
LEMMA SameEpochsInv ==
    ASSUME CommitInv, policy' \in Policy,
           UNCHANGED <<currentEpoch, stagedEpochs, eligibleEpochs, currentEpochAcknowledged,
                       committing, committed, tracked, acked>>
    PROVE  CommitInv'
<1>1. CommitTypeOK'
  BY DEF CommitInv, CommitTypeOK
<1>2. Acknowledged' = Acknowledged /\ AllEpochs' = AllEpochs
  BY DEF Acknowledged, AllEpochs, Closed
<1> QED
  BY <1>1, <1>2, MovedEpochsInv DEF CommitInv

\* track: the next position joins the list, acknowledged epochs stay.
LEMMA TrackInv ==
    ASSUME CommitInv, Track(tracked + 1)
    PROVE  CommitInv' /\ currentEpoch' # << >>
<1> DEFINE position == tracked + 1
<1>1. /\ CommitTypeOK
      /\ Covers(AllEpochs, tracked)
      /\ tracked \in Nat
      /\ position \in Position
      /\ tracked' = position
  BY DEF CommitInv, CommitTypeOK, Position, Track
<1>2. /\ UNCHANGED <<policy, eligibleEpochs, committing, committed, acked>>
      /\ Acknowledged' = Acknowledged
      /\ currentEpochAcknowledged' = FALSE
  BY DEF Track, Acknowledged
<1>3. /\ Closed \in Seq(Epoch) /\ Acknowledged \in Seq(Epoch)
      /\ stagedEpochs \in Seq(Epoch)
      /\ currentEpoch # << >> => currentEpoch \in Epoch
  BY <1>1, ListTypes DEF CommitTypeOK
<1>4. FoldPosition(position) \/ CrossBoundary(position)
  BY DEF Track
<1>5. ASSUME NEW closed \in Seq(Epoch), Closed' = closed, stagedEpochs' \in Seq(Epoch),
             NEW epoch \in Epoch, currentEpoch' = epoch,
             Covers(Append(closed, epoch), position)
      PROVE  CommitInv' /\ currentEpoch' # << >>
  <2>1. currentEpoch' # << >>
    BY <1>5 DEF Epoch
  <2>2. AllEpochs' = Append(closed, epoch)
    BY <1>5, <2>1 DEF AllEpochs
  <2>3. CommitTypeOK'
    <3>1. tracked' \in Nat /\ currentEpochAcknowledged' \in BOOLEAN
      BY <1>1, <1>2 DEF Position
    <3> QED
      BY <1>1, <1>2, <1>5, <3>1 DEF CommitTypeOK
  <2>4. Covers(AllEpochs', tracked')
    BY <1>1, <1>5, <2>2
  <2>5. Covers(AllEpochs, tracked)'
    BY <2>4 DEF Covers, InOrder, ThroughOf, Continues, IsRun, FirstOf, LastOf
  <2>6. AcknowledgedOnly'
    BY <1>2 DEF CommitInv, AcknowledgedOnly, LastOf
  <2> QED
    BY <1>2, <2>1, <2>3, <2>5, <2>6 DEF CommitInv
<1>6. CASE currentEpoch = << >>
  <2>1. currentEpoch' = StartEpoch(position) /\ stagedEpochs' = stagedEpochs
    BY <1>4, <1>6 DEF FoldPosition, CrossBoundary
  <2>2. Closed' = Closed
    BY <1>2, <2>1 DEF Closed
  <2>3. /\ StartEpoch(position) \in Epoch
        /\ LastOf(StartEpoch(position)) = position
        /\ IsRun(StartEpoch(position))
        /\ Continues(tracked, StartEpoch(position))
    BY <1>1, StartEpochRun DEF Continues
  <2>4. Covers(Closed, tracked)
    BY <1>1, <1>6 DEF AllEpochs
  <2>5. Covers(Append(Closed, StartEpoch(position)), position)
    BY <1>1, <1>3, <2>3, <2>4, CoversAppend
  <2> QED
    BY <1>3, <1>5, <2>1, <2>2, <2>3, <2>5
<1>7. CASE currentEpoch # << >>
  <2>1. /\ currentEpoch \in Epoch
        /\ AllEpochs = Append(Closed, currentEpoch)
        /\ Covers(Append(Closed, currentEpoch), tracked)
        /\ Append(Closed, currentEpoch) \in Seq(Epoch)
    BY <1>1, <1>3, <1>7, AppendProperties DEF AllEpochs
  <2>2. LastOf(currentEpoch) = tracked /\ IsRun(currentEpoch)
    <3>1. /\ Len(Append(Closed, currentEpoch)) = Len(Closed) + 1
          /\ Append(Closed, currentEpoch)[Len(Closed) + 1] = currentEpoch
          /\ Len(Closed) \in Nat
      BY <1>3, <2>1, AppendProperties, LenProperties
    <3> QED
      BY <2>1, <3>1 DEF Covers, InOrder, ThroughOf
  <2>3. LET longer == IncludePosition(currentEpoch, position)
        IN  /\ longer \in Epoch
            /\ FirstOf(longer) = FirstOf(currentEpoch)
            /\ LastOf(longer) = position
            /\ IsRun(longer)
    BY <1>1, <2>1, <2>2, IncludePositionRun
  <2>4. CASE FoldPosition(position)
    <3>1. /\ currentEpoch' = IncludePosition(currentEpoch, position)
          /\ stagedEpochs' = stagedEpochs
          /\ Closed' = Closed
      BY <1>2, <1>7, <2>4 DEF FoldPosition, Closed
    <3>2. Covers(Append(Closed, IncludePosition(currentEpoch, position)), position)
      BY <1>1, <1>3, <2>1, <2>3, CoversExtend
    <3> QED
      BY <1>3, <1>5, <2>3, <3>1, <3>2
  <2>5. CASE CrossBoundary(position)
    <3> DEFINE next == StartNextEpoch(currentEpoch, position).next
    <3>1. /\ stagedEpochs' = Append(stagedEpochs, currentEpoch)
          /\ currentEpoch' = next
      BY <1>7, <2>5 DEF CrossBoundary, StartNextEpoch
    <3>2. Closed' = Append(Closed, currentEpoch) /\ stagedEpochs' \in Seq(Epoch)
      BY <1>2, <1>3, <2>1, <3>1, ConcatAppend, AppendProperties DEF Closed
    <3>3. /\ next \in Epoch
          /\ LastOf(next) = position
          /\ IsRun(next)
          /\ Continues(tracked, next)
      <4>1. CASE CarryFrontier
        <5>1. next = IncludePosition(currentEpoch, position)
          BY <4>1 DEF StartNextEpoch
        <5>2. FirstOf(currentEpoch) <= tracked
          <6>1. LastOf(currentEpoch) = FirstOf(currentEpoch) + (Len(currentEpoch) - 1)
            BY <2>1, <2>2, EpochEnds DEF IsRun, LastOf
          <6> QED
            BY <2>1, <2>2, <6>1, EpochEnds DEF Position
        <5>3. FirstOf(currentEpoch) \in Nat
          BY <2>1, EpochEnds DEF Position
        <5> QED
          BY <1>1, <2>3, <4>1, <5>1, <5>2, <5>3 DEF Continues
      <4>2. CASE ~CarryFrontier
        <5>1. next = StartEpoch(position)
          BY <4>2 DEF StartNextEpoch
        <5> QED
          BY <1>1, <4>2, <5>1, StartEpochRun DEF Continues
      <4> QED
        BY <4>1, <4>2
    <3>4. Covers(Append(Append(Closed, currentEpoch), next), position)
      BY <1>1, <2>1, <3>3, CoversAppend
    <3> HIDE DEF next
    <3> QED
      BY <1>5, <2>1, <3>1, <3>2, <3>3, <3>4
  <2> QED
    BY <1>4, <2>4, <2>5
<1> QED
  BY <1>6, <1>7

\* queue_latest, or not, after the staged epochs have joined the queue.
LEMMA QueueInv ==
    ASSUME CommitInv, policy' \in Policy, stagedEpochs' = << >>,
           NEW keep \in BOOLEAN,
           \/ QueueLatest(eligibleEpochs \o stagedEpochs)
           \/ KeepOpen(eligibleEpochs \o stagedEpochs, keep),
           UNCHANGED <<committing, committed, tracked>>,
           acked' = tracked
    PROVE  CommitInv'
<1> DEFINE queue == eligibleEpochs \o stagedEpochs
           sent == committed \o committing
<1>1. CommitTypeOK /\ tracked \in Nat
  BY DEF CommitInv, CommitTypeOK
<1>2. /\ sent \in Seq(Epoch) /\ queue \in Seq(Epoch)
      /\ eligibleEpochs \in Seq(Epoch) /\ stagedEpochs \in Seq(Epoch)
      /\ << >> \in Seq(Epoch)
      /\ currentEpoch # << >> => currentEpoch \in Epoch
  BY <1>1, ConcatProperties, EmptySeq DEF CommitTypeOK
<1>3. Closed = sent \o queue
  <2>1. Closed = (sent \o eligibleEpochs) \o stagedEpochs
    BY DEF Closed, Acknowledged
  <2> HIDE DEF sent
  <2>2. (sent \o eligibleEpochs) \o stagedEpochs = sent \o (eligibleEpochs \o stagedEpochs)
    BY <1>2, ConcatAssociative
  <2> QED
    BY <2>1, <2>2
<1>4. Acknowledged' = sent \o eligibleEpochs'
  BY DEF Acknowledged
<1>5. CASE KeepOpen(queue, keep) \/ (QueueLatest(queue) /\ currentEpoch = << >>)
  <2>1. eligibleEpochs' = queue /\ currentEpoch' = currentEpoch
    BY <1>5 DEF KeepOpen, QueueLatest
  <2>2. Closed' = Closed
    <3>1. Closed' = (sent \o queue) \o << >>
      BY <1>4, <2>1 DEF Closed
    <3>2. sent \o queue \in Seq(Epoch)
      BY <1>2, ConcatProperties
    <3> QED
      BY <1>3, <3>1, <3>2, ConcatEmptySeq
  <2>3. AllEpochs' = AllEpochs
    BY <2>1, <2>2 DEF AllEpochs
  <2>4. CommitTypeOK'
    BY <1>1, <1>2, <1>5, <2>1 DEF CommitTypeOK, KeepOpen, QueueLatest
  <2> QED
    BY <2>3, <2>4, MovedEpochsInv DEF CommitInv
<1>6. CASE QueueLatest(queue) /\ currentEpoch # << >>
  <2>1. /\ eligibleEpochs' = Append(queue, currentEpoch)
        /\ currentEpoch' = << >>
        /\ currentEpochAcknowledged' = FALSE
    BY <1>6 DEF QueueLatest
  <2>2. Append(queue, currentEpoch) \in Seq(Epoch)
    BY <1>2, <1>6, AppendProperties
  <2>3. AllEpochs' = AllEpochs
    <3>1. Closed' = (sent \o Append(queue, currentEpoch)) \o << >>
      BY <1>4, <2>1 DEF Closed
    <3>2. Closed' = sent \o Append(queue, currentEpoch)
      BY <1>2, <2>2, <3>1, ConcatProperties, ConcatEmptySeq
    <3>3. currentEpoch \in Epoch
      BY <1>2, <1>6
    <3>4. Closed' = Append(Closed, currentEpoch)
      <4> HIDE DEF queue, sent
      <4>1. sent \o Append(queue, currentEpoch) = Append(sent \o queue, currentEpoch)
        BY <1>2, <3>3, ConcatAppend
      <4> QED
        BY <1>3, <3>2, <4>1
    <3> QED
      BY <1>6, <2>1, <3>4 DEF AllEpochs
  <2>4. CommitTypeOK'
    BY <1>1, <1>2, <2>1, <2>2 DEF CommitTypeOK
  <2> QED
    BY <2>3, <2>4, MovedEpochsInv DEF CommitInv
<1> QED
  BY <1>5, <1>6

\* acknowledge_delivery, of a unit that reaches up to what is tracked.
LEMMA AcknowledgeInv ==
    ASSUME CommitInv, NEW n \in Nat, AcknowledgeDelivery(n), tracked = acked + n
    PROVE  CommitInv'
<1>1. policy \in Policy
  BY DEF CommitInv, CommitTypeOK
<1>2. PICK outcome \in AcknowledgeOutcomes(n) :
        /\ policy' = outcome.policy
        /\ IF outcome.action = "CommitLatest"
             THEN QueueLatest(eligibleEpochs \o stagedEpochs)
             ELSE KeepOpen(eligibleEpochs \o stagedEpochs, currentEpoch # << >>)
  BY DEF AcknowledgeDelivery
<1>3. policy' \in Policy
  BY <1>1, <1>2, AcknowledgeOutcomesType
<1>4. PICK keep \in BOOLEAN :
        \/ QueueLatest(eligibleEpochs \o stagedEpochs)
        \/ KeepOpen(eligibleEpochs \o stagedEpochs, keep)
  BY <1>2
<1>5. /\ stagedEpochs' = << >>
      /\ UNCHANGED <<committing, committed, tracked>>
      /\ acked' = tracked
  BY DEF AcknowledgeDelivery
<1> QED
  BY <1>3, <1>4, <1>5, QueueInv

\* handle_timeout, between two units.
LEMMA HandleTimeoutInv ==
    ASSUME CommitInv, HandleTimeout, stagedEpochs = << >>, tracked = acked
    PROVE  CommitInv'
<1>1. /\ policy \in Policy
      /\ currentEpochAcknowledged \in BOOLEAN
      /\ eligibleEpochs \o stagedEpochs = eligibleEpochs
  BY ConcatEmptySeq DEF CommitInv, CommitTypeOK
<1>2. PICK outcome \in OnTimeout(policy) :
        /\ policy' = outcome.policy
        /\ IF outcome.action = "CommitLatest"
             THEN QueueLatest(eligibleEpochs)
             ELSE KeepOpen(eligibleEpochs, currentEpochAcknowledged)
  BY DEF HandleTimeout
<1>3. policy' \in Policy
  BY <1>1, <1>2, OnTimeoutType
<1>4. \/ QueueLatest(eligibleEpochs \o stagedEpochs)
      \/ KeepOpen(eligibleEpochs \o stagedEpochs, currentEpochAcknowledged)
  BY <1>1, <1>2
<1>5. /\ stagedEpochs' = << >>
      /\ UNCHANGED <<committing, committed, tracked>>
      /\ acked' = tracked
  BY DEF HandleTimeout
<1> QED
  BY <1>1, <1>3, <1>4, <1>5, QueueInv

\* finish, after the last unit: nothing stays open.
LEMMA FinishInv ==
    ASSUME CommitInv, Finish, tracked = acked
    PROVE  CommitInv' /\ currentEpoch' = << >>
<1>1. policy' \in Policy
  BY DEF CommitInv, CommitTypeOK, Finish
<1>2. /\ QueueLatest(eligibleEpochs \o stagedEpochs)
      /\ stagedEpochs' = << >>
      /\ UNCHANGED <<committing, committed, tracked>>
      /\ acked' = tracked
  BY DEF Finish
<1>3. CommitInv'
  BY <1>1, <1>2, QueueInv
<1> QED
  BY <1>2, <1>3 DEF QueueLatest

\* Taking the head of the queue to commit it, and committing it, move the
\* epoch within the acknowledged ones.
LEMMA PopKeepsAcknowledged ==
    ASSUME CommitTypeOK, PopEligible
    PROVE  Acknowledged' = Acknowledged
<1>1. /\ eligibleEpochs \in Seq(Epoch) /\ eligibleEpochs # << >>
      /\ committed \in Seq(Epoch) /\ committing = << >>
  BY DEF CommitTypeOK, PopEligible
<1> DEFINE head == Head(eligibleEpochs)
           tail == Tail(eligibleEpochs)
<1>2. head \in Epoch /\ tail \in Seq(Epoch)
  BY <1>1, HeadTailProperties
<1>3. <<head>> \in Seq(Epoch)
  BY <1>2
<1>4. <<head>> \o tail = eligibleEpochs
  BY <1>1
<1>5. committing' = <<head>> /\ eligibleEpochs' = tail /\ committed' = committed
  BY DEF PopEligible
<1> HIDE DEF head, tail
<1>6. Acknowledged' = (committed \o <<head>>) \o tail
  BY <1>5 DEF Acknowledged
<1>7. (committed \o <<head>>) \o tail = committed \o (<<head>> \o tail)
  BY <1>1, <1>2, <1>3, ConcatAssociative
<1>8. Acknowledged = committed \o eligibleEpochs
  BY <1>1, ConcatEmptySeq DEF Acknowledged
<1> QED
  BY <1>4, <1>6, <1>7, <1>8

LEMMA CommitKeepsAcknowledged ==
    ASSUME CommitTypeOK, CommitSucceeds
    PROVE  Acknowledged' = Acknowledged
<1>1. /\ committed \o committing \in Seq(Epoch)
      /\ Acknowledged' = ((committed \o committing) \o << >>) \o eligibleEpochs
  BY ConcatProperties DEF Acknowledged, CommitSucceeds, CommitTypeOK
<1> QED
  BY <1>1, ConcatEmptySeq DEF Acknowledged

\* Taking the head of the queue to commit it.
LEMMA PopEligibleInv ==
    ASSUME CommitInv, PopEligible
    PROVE  CommitInv'
<1>1. /\ CommitTypeOK
      /\ eligibleEpochs \in Seq(Epoch) /\ eligibleEpochs # << >>
      /\ committed \in Seq(Epoch) /\ committing = << >>
  BY DEF CommitInv, CommitTypeOK, PopEligible
<1> DEFINE head == Head(eligibleEpochs)
           tail == Tail(eligibleEpochs)
<1>2. head \in Epoch /\ tail \in Seq(Epoch)
  BY <1>1, HeadTailProperties
<1>3. committing' = <<head>> /\ eligibleEpochs' = tail
  BY DEF PopEligible
<1>4. <<head>> \in Seq(Epoch) /\ Len(<<head>>) = 1
  BY <1>2
<1>5. Acknowledged' = Acknowledged
  BY <1>1, PopKeepsAcknowledged
<1>6. AllEpochs' = AllEpochs
  BY <1>5 DEF AllEpochs, Closed, PopEligible
<1>7. CommitTypeOK'
  BY <1>1, <1>2, <1>3, <1>4 DEF CommitTypeOK, PopEligible
<1> HIDE DEF head, tail
<1>8. tracked' = tracked /\ acked' = acked /\ Len(committing') <= 1
  BY <1>3, <1>4 DEF PopEligible
<1> QED
  BY <1>5, <1>6, <1>7, <1>8, MovedEpochsInv

\* The epoch being committed joins the committed ones, and moves the durable
\* progress forward, never past what is acknowledged.
LEMMA CommitSucceedsInv ==
    ASSUME CommitInv, CommitSucceeds
    PROVE  /\ CommitInv'
           /\ CommittedThrough' \in (CommittedThrough + 1) .. acked
<1>1. /\ CommitTypeOK
      /\ eligibleEpochs \in Seq(Epoch) /\ stagedEpochs \in Seq(Epoch)
      /\ committed \in Seq(Epoch) /\ committing \in Seq(Epoch)
      /\ acked \in Nat
      /\ << >> \in Seq(Epoch)
  BY EmptySeq DEF CommitInv, CommitTypeOK
<1>2. /\ committed' = committed \o committing
      /\ committing' = << >>
      /\ UNCHANGED <<currentEpoch, stagedEpochs, eligibleEpochs, currentEpochAcknowledged,
                     tracked, acked>>
      /\ policy' \in Policy
  BY <1>1, OnCommittedType DEF CommitSucceeds, CommitTypeOK
<1>3. committed \o committing \in Seq(Epoch)
  BY <1>1, ConcatProperties
<1>4. Acknowledged' = Acknowledged
  BY <1>1, CommitKeepsAcknowledged
<1>5. AllEpochs' = AllEpochs
  BY <1>2, <1>4 DEF AllEpochs, Closed
<1>6. CommitTypeOK'
  BY <1>1, <1>2, <1>3 DEF CommitTypeOK
<1>7. CommitInv'
  BY <1>2, <1>4, <1>5, <1>6, MovedEpochsInv, EmptySeq
<1>8. PICK epoch \in Epoch : committing = <<epoch>>
  <2>1. committing # << >> /\ Len(committing) <= 1
    BY DEF CommitInv, CommitSucceeds
  <2>2. committing \in Seq(Epoch)
    BY <1>1
  <2> QED
    BY <2>1, <2>2, SingletonSeq
<1>9. CommittedThrough' \in (CommittedThrough + 1) .. acked
  <2> DEFINE m == Len(committed)
             list == committed \o <<epoch>>
  <2>1. /\ m \in Nat
        /\ list \in Seq(Epoch)
        /\ Len(list) = m + 1
        /\ list[m + 1] = epoch
        /\ \A i \in 1 .. m : list[i] = committed[i]
    BY <1>1, <1>8, ConcatProperties, LenProperties
  <2>2. /\ Acknowledged = list \o eligibleEpochs
        /\ Closed = list \o (eligibleEpochs \o stagedEpochs)
        /\ eligibleEpochs \o stagedEpochs \in Seq(Epoch)
    BY <1>1, <1>8, <2>1, ConcatProperties, ConcatAssociative DEF Acknowledged, Closed
  <2>3. /\ Len(Acknowledged) >= m + 1
        /\ \A i \in 1 .. m + 1 : Acknowledged[i] = list[i]
    BY <1>1, <2>1, <2>2, ConcatPrefix
  <2>4. Len(Acknowledged) \in Nat /\ Acknowledged \in Seq(Epoch)
    BY <1>1, ListTypes, LenProperties
  <2>5. Acknowledged[m + 1] = epoch
    BY <2>1, <2>3
  <2>6. LastOf(epoch) <= acked /\ LastOf(epoch) \in Nat
    <3>1. m + 1 \in 1 .. Len(Acknowledged)
      BY <2>1, <2>3, <2>4
    <3>2. LastOf(Acknowledged[m + 1]) <= acked
      BY <3>1 DEF CommitInv, AcknowledgedOnly
    <3> QED
      BY <2>5, <3>2, EpochEnds DEF Position
  <2>7. CommittedThrough' = LastOf(epoch)
    BY <1>2, <1>8, <2>1 DEF CommittedThrough, ThroughOf, LastOf
  <2>8. CommittedThrough < LastOf(epoch) /\ CommittedThrough \in Nat
    <3>1. Continues(ThroughOf(Acknowledged, m), epoch)
      <4>1. m + 1 \in 1 .. Len(Acknowledged) /\ (m + 1) - 1 = m
        BY <2>1, <2>3, <2>4
      <4> QED
        BY <2>5, <4>1, AcknowledgedInOrder DEF InOrder
    <3>2. ThroughOf(Acknowledged, m) = CommittedThrough
      BY <2>1, <2>3 DEF ThroughOf, CommittedThrough
    <3>3. CommittedThrough \in Nat
      <4>1. CASE m = 0
        BY <4>1 DEF CommittedThrough, ThroughOf
      <4>2. CASE m # 0
        <5>1. m \in 1 .. Len(committed)
          BY <2>1, <4>2
        <5>2. committed[m] \in Epoch
          BY <1>1, <5>1, ElementOfSeq
        <5>3. LastOf(committed[m]) \in Nat
          BY <5>2, EpochEnds DEF Position
        <5> QED
          BY <4>2, <5>3 DEF CommittedThrough, ThroughOf
      <4> QED
        BY <4>1, <4>2
    <3> QED
      BY <3>1, <3>2, <3>3 DEF Continues
  <2> QED
    BY <1>1, <2>6, <2>7, <2>8
<1> QED
  BY <1>7, <1>9

-----------------------------------------------------------------------------
(***************************************************************************)
(* What the invariant says of the epochs that have left the runner.        *)
(***************************************************************************)

\* Every position of an epoch that was handed to Source::commit has been
\* acknowledged, and these epochs are in source order.
LEMMA HandedAcknowledged ==
    ASSUME CommitInv
    PROVE  LET handed == committed \o committing
           IN  /\ \A i \in DOMAIN handed : \A j \in DOMAIN handed[i] : handed[i][j] \in 1 .. acked
               /\ InOrder(handed)
<1> DEFINE handed == committed \o committing
<1>1. /\ CommitTypeOK /\ AcknowledgedOnly
      /\ acked \in Nat
      /\ handed \in Seq(Epoch) /\ eligibleEpochs \in Seq(Epoch)
      /\ Acknowledged \in Seq(Epoch)
      /\ Acknowledged = handed \o eligibleEpochs
  BY ConcatProperties, ListTypes DEF CommitInv, CommitTypeOK, Acknowledged
<1>2. /\ Len(handed) \in Nat /\ Len(Acknowledged) \in Nat
      /\ Len(handed) <= Len(Acknowledged)
      /\ \A i \in 1 .. Len(handed) : Acknowledged[i] = handed[i]
      /\ DOMAIN handed = 1 .. Len(handed)
  <2>1. /\ Len(handed \o eligibleEpochs) = Len(handed) + Len(eligibleEpochs)
        /\ Len(handed) \in Nat /\ Len(eligibleEpochs) \in Nat
        /\ \A i \in 1 .. Len(handed) : (handed \o eligibleEpochs)[i] = handed[i]
    BY <1>1, ConcatPrefix
  <2> QED
    BY <1>1, <2>1, LenProperties
<1>3. InOrder(Acknowledged)
  BY AcknowledgedInOrder
<1> HIDE DEF handed
<1>4. InOrder(handed)
  BY <1>1, <1>2, <1>3, InOrderPrefix
<1>5. ASSUME NEW i \in DOMAIN handed, NEW j \in DOMAIN handed[i]
      PROVE  handed[i][j] \in 1 .. acked
  <2> DEFINE epoch == handed[i]
  <2>1. /\ epoch \in Epoch
        /\ IsRun(epoch)
        /\ LastOf(epoch) <= acked
    BY <1>1, <1>2, <1>4, <1>5, ElementOfSeq DEF InOrder, AcknowledgedOnly
  <2> HIDE DEF epoch
  <2>2. /\ epoch \in Seq(Position)
        /\ Len(epoch) \in Nat \ {0}
        /\ FirstOf(epoch) \in Nat \ {0}
        /\ DOMAIN epoch = 1 .. Len(epoch)
    BY <2>1, EpochEnds, LenProperties DEF Position
  <2>3. j \in 1 .. Len(epoch)
    BY <1>5, <2>2 DEF epoch
  <2>4. /\ epoch[j] = FirstOf(epoch) + (j - 1)
        /\ LastOf(epoch) = FirstOf(epoch) + (Len(epoch) - 1)
    BY <2>1, <2>2, <2>3 DEF IsRun, LastOf
  <2>5. epoch[j] \in 1 .. acked
    BY <1>1, <2>1, <2>2, <2>3, <2>4
  <2> QED
    BY <2>5 DEF epoch
<1> QED
  BY <1>4, <1>5 DEF handed

\* When no epoch is left in the runner, the source has persisted everything
\* that was tracked.
LEMMA NothingLeft ==
    ASSUME CommitInv, NothingEligible, stagedEpochs = << >>, currentEpoch = << >>
    PROVE  CommittedThrough = tracked
<1>1. committing = << >> /\ eligibleEpochs = << >> /\ committed \in Seq(Epoch)
  BY DEF NothingEligible, CommitInv, CommitTypeOK
<1>2. AllEpochs = committed
  BY <1>1, ConcatEmptySeq DEF AllEpochs, Closed, Acknowledged
<1> QED
  BY <1>2 DEF CommitInv, Covers, CommittedThrough

-----------------------------------------------------------------------------
(***************************************************************************)
(* The bookkeeping of the counting policies, where no epoch is closed at a *)
(* boundary.  Either nothing waits to be committed, and the policy holds   *)
(* the number of acknowledged records that are not committed; or one       *)
(* epoch waits, and it holds everything acknowledged.                      *)
(***************************************************************************)
Counting == Kind \in {"AfterRecords", "AfterRecordsOrTimeout"} /\ ~EpochBoundaries

Counted ==
    /\ NothingEligible
    /\ policy.acknowledged = acked - CommittedThrough
    /\ policy.acknowledged < Threshold
    /\ Kind = "AfterRecordsOrTimeout" =>
          (policy.deadline # "none" <=> policy.acknowledged > 0)

Queued ==
    /\ currentEpoch = << >>
    /\ tracked = acked
    /\ \E epoch \in Epoch :
          \/ committing = <<epoch>> /\ eligibleEpochs = << >>
          \/ committing = << >> /\ eligibleEpochs = <<epoch>>

CountInv ==
    /\ stagedEpochs = << >>
    /\ acked = tracked => (currentEpochAcknowledged <=> currentEpoch # << >>)
    /\ Counted \/ Queued

\* What the source has persisted is a number.
LEMMA CommittedType ==
    ASSUME CommitTypeOK
    PROVE  CommittedThrough \in Nat
<1>1. committed \in Seq(Epoch) /\ Len(committed) \in Nat
  BY LenProperties DEF CommitTypeOK
<1>2. CASE Len(committed) = 0
  BY <1>2 DEF CommittedThrough, ThroughOf
<1>3. CASE Len(committed) # 0
  <2>1. Len(committed) \in 1 .. Len(committed)
    BY <1>1, <1>3
  <2>2. committed[Len(committed)] \in Epoch
    BY <1>1, <2>1, ElementOfSeq
  <2>3. LastOf(committed[Len(committed)]) \in Nat
    BY <2>2, EpochEnds DEF Position
  <2> QED
    BY <1>3, <2>3 DEF CommittedThrough, ThroughOf
<1> QED
  BY <1>2, <1>3

\* It stays where it is unless an epoch is committed.
LEMMA CommittedKept ==
    ASSUME UNCHANGED committed
    PROVE  CommittedThrough' = CommittedThrough
  BY DEF CommittedThrough, ThroughOf, LastOf

\* Where nothing waits to be committed, the policy's count is exact.
LEMMA CountExact ==
    ASSUME CountInv, NothingEligible
    PROVE  Counted
<1>1. \A epoch \in Epoch : <<epoch>> # << >>
  OBVIOUS
<1> QED
  BY <1>1 DEF CountInv, Queued, NothingEligible

\* A run begins with nothing to count.
LEMMA CountInit ==
    ASSUME CommitInit, Counting
    PROVE  CountInv
<1>1. Len(<< >>) = 0 /\ Threshold \in Nat \ {0}
  BY EmptySeq, PolicyAssumption
<1>2. CommittedThrough = 0
  BY <1>1 DEF CommitInit, CommittedThrough, ThroughOf
<1> QED
  BY <1>1, <1>2 DEF CommitInit, CountInv, Counted, NothingEligible, NewPolicy

\* A step that leaves the epochs and the policy alone.
LEMMA CountKept ==
    ASSUME CountInv, UNCHANGED commitVars
    PROVE  CountInv'
<1>1. CommittedThrough' = CommittedThrough
  BY CommittedKept DEF commitVars
<1> QED
  BY <1>1 DEF CountInv, Counted, Queued, NothingEligible, commitVars

\* track opens or extends the open epoch, and counts nothing.
LEMMA TrackCount ==
    ASSUME CommitInv, CountInv, Counting, NothingEligible, acked <= tracked,
           Track(tracked + 1)
    PROVE  CountInv'
<1>1. /\ stagedEpochs' = << >>
      /\ tracked' = tracked + 1
      /\ UNCHANGED <<policy, eligibleEpochs, committing, committed, acked>>
  BY DEF Track, OnPosition, Counting, FoldPosition, CountInv
<1>2. acked' # tracked'
  BY <1>1 DEF CommitInv, CommitTypeOK
<1>3. Counted /\ CommittedThrough' = CommittedThrough
  BY <1>1, CountExact, CommittedKept
<1> QED
  BY <1>1, <1>2, <1>3 DEF CountInv, Counted, NothingEligible

\* The open epoch joins an empty queue with everything that is acknowledged.
LEMMA QueueLatestCount ==
    ASSUME CommitInv, Counted, stagedEpochs = << >>,
           QueueLatest(eligibleEpochs \o stagedEpochs),
           UNCHANGED <<committing, committed, tracked>>,
           stagedEpochs' = << >>, acked' = tracked, currentEpoch # << >>
    PROVE  CountInv'
<1>1. committing = << >> /\ eligibleEpochs = << >> /\ currentEpoch \in Epoch
  BY DEF Counted, NothingEligible, CommitInv, CommitTypeOK
<1>2. << >> \o << >> = << >> /\ Append(<< >>, currentEpoch) = <<currentEpoch>>
  BY <1>1
<1>3. /\ eligibleEpochs' = <<currentEpoch>> /\ committing' = << >>
      /\ currentEpoch' = << >> /\ currentEpochAcknowledged' = FALSE
  BY <1>1, <1>2 DEF QueueLatest
<1> QED
  BY <1>1, <1>3 DEF CountInv, Queued

\* acknowledge_delivery counts the unit, or commits when the count is full or
\* the deadline has passed.
LEMMA AcknowledgeCount ==
    ASSUME CommitInv, CountInv, Counting, NothingEligible,
           NEW n \in Nat \ {0}, AcknowledgeDelivery(n), tracked = acked + n
    PROVE  CountInv'
<1>1. /\ acked \in Nat /\ tracked \in Nat /\ policy \in Policy
      /\ CommittedThrough \in Nat
      /\ policy.acknowledged \in Nat
      /\ Threshold \in Nat /\ UsizeMax \in Nat /\ Threshold <= UsizeMax
  BY CommittedType, PolicyAssumption DEF CommitInv, CommitTypeOK, Policy
<1>2. /\ Counted /\ stagedEpochs = << >>
      /\ eligibleEpochs \o stagedEpochs = << >>
  BY CountExact DEF CountInv, NothingEligible
<1>3. currentEpoch # << >>
  <2>1. CommittedThrough <= acked
    BY <1>1, <1>2 DEF Counted
  <2>2. CommittedThrough # tracked
    BY <1>1, <2>1
  <2> QED
    BY <1>2, <2>2, NothingLeft
<1>4. /\ stagedEpochs' = << >>
      /\ UNCHANGED <<committing, committed, tracked>>
      /\ acked' = acked + n
      /\ acked' = tracked
  BY DEF AcknowledgeDelivery
<1>5. PICK outcome \in AcknowledgeOutcomes(n) :
        /\ policy' = outcome.policy
        /\ IF outcome.action = "CommitLatest"
             THEN QueueLatest(eligibleEpochs \o stagedEpochs)
             ELSE KeepOpen(eligibleEpochs \o stagedEpochs, currentEpoch # << >>)
  BY DEF AcknowledgeDelivery
<1>6. CASE outcome.action = "CommitLatest"
  BY <1>2, <1>3, <1>4, <1>5, <1>6, QueueLatestCount
<1>7. CASE outcome.action # "CommitLatest"
  <2>1. /\ eligibleEpochs' = << >> /\ committing' = << >>
        /\ currentEpoch' = currentEpoch /\ currentEpochAcknowledged' = TRUE
    BY <1>2, <1>3, <1>4, <1>5, <1>7 DEF KeepOpen, NothingEligible
  <2>2. outcome \in OnAcknowledged(policy, n)
    BY <1>7, <1>5 DEF AcknowledgeOutcomes, OnTimeout, Counting
  <2>3. /\ outcome.policy.acknowledged = SaturatingAdd(policy.acknowledged, n)
        /\ outcome.action = CountAction(outcome.policy.acknowledged)
        /\ Kind = "AfterRecordsOrTimeout" => outcome.policy.deadline # "none"
    BY <1>1, <2>2
       DEF OnAcknowledged, Counting, AfterRecordsOnAcknowledged,
           AfterRecordsOrTimeoutOnAcknowledged, Policy
  <2>4. SaturatingAdd(policy.acknowledged, n) < Threshold
    BY <1>1, <1>7, <2>3 DEF CountAction, SaturatingAdd
  <2>5. policy'.acknowledged = policy.acknowledged + n
    BY <1>1, <1>5, <2>3, <2>4 DEF SaturatingAdd
  <2>6. CommittedThrough' = CommittedThrough
    BY <1>4, CommittedKept
  <2>7. Counted'
    BY <1>1, <1>2, <1>4, <1>5, <2>1, <2>3, <2>4, <2>5, <2>6 DEF Counted, NothingEligible
  <2> QED
    BY <1>3, <1>4, <2>1, <2>7 DEF CountInv
<1> QED
  BY <1>6, <1>7

\* Where everything tracked is acknowledged, the open epoch joins an empty
\* queue, if there is one: a timeout, or the end of the stream.
LEMMA QueueAllCount ==
    ASSUME CommitInv, CountInv, NothingEligible, tracked = acked,
           QueueLatest(eligibleEpochs \o stagedEpochs), stagedEpochs' = << >>,
           UNCHANGED <<policy, committing, committed, tracked, acked>>
    PROVE  CountInv'
<1>1. /\ Counted /\ stagedEpochs = << >>
      /\ eligibleEpochs \o stagedEpochs = << >>
  BY CountExact DEF CountInv, NothingEligible
<1>2. CASE currentEpoch = << >>
  <2>1. /\ eligibleEpochs' = << >> /\ committing' = << >>
        /\ currentEpoch' = << >> /\ currentEpochAcknowledged' = FALSE
    BY <1>1, <1>2 DEF QueueLatest, NothingEligible
  <2>2. CommittedThrough' = CommittedThrough
    BY CommittedKept
  <2> QED
    BY <1>1, <2>1, <2>2 DEF CountInv, Counted, NothingEligible
<1>3. CASE currentEpoch # << >>
  BY <1>1, <1>3, QueueLatestCount
<1> QED
  BY <1>2, <1>3

\* handle_timeout always commits under a policy of the library.
LEMMA TimeoutCount ==
    ASSUME CommitInv, CountInv, Counting, NothingEligible, tracked = acked, HandleTimeout
    PROVE  CountInv'
<1>1. /\ policy' = policy
      /\ QueueLatest(eligibleEpochs)
      /\ UNCHANGED <<stagedEpochs, committing, committed, tracked, acked>>
  BY DEF HandleTimeout, OnTimeout, Counting
<1>2. stagedEpochs = << >> /\ eligibleEpochs \o stagedEpochs = eligibleEpochs
  BY DEF CountInv, NothingEligible
<1> QED
  BY <1>1, <1>2, QueueAllCount

\* finish queues what is open.
LEMMA FinishCount ==
    ASSUME CommitInv, CountInv, NothingEligible, tracked = acked, Finish
    PROVE  CountInv'
  BY QueueAllCount DEF Finish

\* The one epoch that waits is handed to Source::commit.
LEMMA PopCount ==
    ASSUME CountInv, PopEligible
    PROVE  CountInv'
<1>1. PICK epoch \in Epoch : committing = << >> /\ eligibleEpochs = <<epoch>>
  BY DEF PopEligible, CountInv, Counted, NothingEligible, Queued
<1>2. committing' = <<epoch>> /\ eligibleEpochs' = << >>
  BY <1>1 DEF PopEligible
<1>3. currentEpoch = << >> /\ tracked = acked
  BY DEF PopEligible, CountInv, Counted, NothingEligible, Queued
<1> QED
  BY <1>2, <1>3 DEF CountInv, Queued, PopEligible

\* Once it is persisted nothing acknowledged is left, and the count is zero.
LEMMA CommitSucceedsCount ==
    ASSUME CommitInv, CountInv, Counting, CommitSucceeds
    PROVE  CountInv'
<1>1. /\ committing # << >> /\ eligibleEpochs = << >>
      /\ currentEpoch = << >> /\ tracked = acked /\ stagedEpochs = << >>
  BY DEF CommitSucceeds, CountInv, Counted, NothingEligible, Queued
<1>2. committed \in Seq(Epoch) /\ committing \in Seq(Epoch) /\ acked \in Nat
  BY DEF CommitInv, CommitTypeOK
<1>3. /\ committed' = committed \o committing /\ committing' = << >>
      /\ UNCHANGED <<currentEpoch, stagedEpochs, eligibleEpochs, currentEpochAcknowledged,
                     tracked, acked>>
      /\ policy' \in OnCommitted(policy)
  BY DEF CommitSucceeds
<1>4. AllEpochs = committed'
  BY <1>1, <1>2, <1>3, ConcatProperties, ConcatEmptySeq DEF AllEpochs, Closed, Acknowledged
<1>5. CommittedThrough' = acked'
  BY <1>1, <1>3, <1>4 DEF CommitInv, Covers, CommittedThrough, ThroughOf, LastOf
<1>6. /\ policy'.acknowledged = 0
      /\ Kind = "AfterRecordsOrTimeout" => policy'.deadline = "none"
  BY <1>3 DEF OnCommitted, Counting, NewPolicy, CommitInv, CommitTypeOK, Policy
<1>7. Counted'
  BY <1>1, <1>2, <1>3, <1>5, <1>6, PolicyAssumption DEF Counted, NothingEligible
<1> QED
  BY <1>1, <1>3, <1>7 DEF CountInv

\* The clock moves the deadline of a timer that runs.
LEMMA DeadlinePassesCount ==
    ASSUME CommitInv, CountInv, DeadlinePasses
    PROVE  CountInv'
<1>1. /\ policy'.acknowledged = policy.acknowledged
      /\ policy'.deadline # "none" /\ policy.deadline # "none"
      /\ UNCHANGED <<currentEpoch, stagedEpochs, eligibleEpochs, currentEpochAcknowledged,
                     committing, committed, tracked, acked>>
  BY DEF DeadlinePasses, CommitInv, CommitTypeOK, Policy
<1>2. CommittedThrough' = CommittedThrough
  BY <1>1, CommittedKept
<1> QED
  BY <1>1, <1>2 DEF CountInv, Counted, Queued, NothingEligible

==============================================================================
