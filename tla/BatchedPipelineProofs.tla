------------------------ MODULE BatchedPipelineProofs ------------------------
(***************************************************************************)
(* For every set of sinks, policy, threshold, batch size, prefetch and     *)
(* length of the stream: the batches that producer and consumer pass on    *)
(* keep the stream's order, and with it the runner keeps the promise of    *)
(* AckedProgress.                                                          *)
(***************************************************************************)
EXTENDS BatchedPipeline, CommitStateProofs

-----------------------------------------------------------------------------
(***************************************************************************)
(* The inductive invariant.                                                *)
(***************************************************************************)

\* The items are the records that follow position n.
RunFrom(n, items) == \A i \in 1 .. Len(items) : items[i] = n + i

\* The last record of the first k batches of the channel, and of all before.
Reach(k) == IF k = 0 THEN tracked + Len(untracked) ELSE channel[k][Len(channel[k])]

\* Somebody may still poll the stream.
Live == IF Prefetch = 0 THEN pc # "failed" ELSE producer # "returned"

AckedIsAccepted ==
    /\ \A s \in Sinks : 1 .. acked \subseteq accepted[s]
    /\ \A s \in Sinks : branch[s] = "ok" => unit \subseteq accepted[s]

\* What each control point of the consumer knows.
Control ==
    /\ pc = "tracking" => Len(batch) = tracked + Len(untracked) - acked
    /\ pc = "deliver" =>
          /\ Len(batch) = tracked - acked
          /\ unit = Range(batch)
          /\ \A s \in Sinks : branch[s] # "idle"
    /\ pc \in {"tracking", "deliver"} => batch # << >> /\ RunFrom(acked, batch)
    /\ pc # "tracking" => untracked = << >>
    /\ RunFrom(tracked, untracked)
    /\ pc \in {"next", "committing", "finishing", "done"} =>
          /\ tracked = acked
          /\ stagedEpochs = << >>
    /\ pc = "done" => NothingEligible
    /\ pc \in {"finishing", "done"} => currentEpoch = << >>

\* The batches of the channel follow one another, an error is the last.
ChannelInOrder ==
    \A k \in 1 .. Len(channel) :
        \/ channel[k] = <<Bad>> /\ k = Len(channel) /\ producer = "returned"
        \/ channel[k] # << >> /\ RunFrom(Reach(k - 1), channel[k])

\* Items with no error among them follow position n, up to the last position
\* the stream has yielded, and the stream has never erred.
InStream(n, items, last, errors) ==
    Bad \notin Range(items) => /\ RunFrom(n, items)
                               /\ last = n + Len(items)
                               /\ errors = {}

Stream ==
    /\ ChannelInOrder
    /\ Prefetch = 0 => channel = << >> /\ producer = "returned"
    /\ Live => InStream(Reach(Len(channel)), chunk, produced, errorsAt)
    /\ \A k \in 0 .. Len(channel) :
          /\ Reach(k) <= produced
          /\ \A position \in errorsAt : Reach(k) <= position

BatchedInv ==
    /\ TypeOK
    /\ CommitInv
    /\ AckedIsAccepted
    /\ Control
    /\ Stream

-----------------------------------------------------------------------------
(***************************************************************************)
(* The parts of the invariant that a step leaves alone.                    *)
(***************************************************************************)

\* A step that neither acknowledges nor touches the sinks.
LEMMA DeliveryKept ==
    ASSUME BatchedInv, UNCHANGED <<deliveryVars, acked>>
    PROVE  AckedIsAccepted' /\ DeliveryTypeOK'
  BY DEF BatchedInv, AckedIsAccepted, DeliveryTypeOK, TypeOK, deliveryVars

\* A step that leaves the epochs alone.
LEMMA EpochsKept ==
    ASSUME BatchedInv, UNCHANGED commitVars
    PROVE  CommitInv' /\ CommitTypeOK'
<1>1. CommitInv'
  BY SameEpochsInv DEF BatchedInv, CommitInv, CommitTypeOK, commitVars
<1> QED
  BY <1>1 DEF CommitInv

\* A step of the consumer that receives no batch.
LEMMA TypesKept ==
    ASSUME BatchedInv, CommitTypeOK', DeliveryTypeOK',
           UNCHANGED <<streamVars, producer, channel>>,
           batch' \in Seq(Position), untracked' \in Seq(Position),
           pc' \in PCs, failure' \in Errors
    PROVE  TypeOK'
  BY DEF BatchedInv, TypeOK, streamVars

\* A step that moves nothing between the stream and the sinks but, at most,
\* a record from the untracked to the tracked ones.
LEMMA StreamKept ==
    ASSUME BatchedInv,
           UNCHANGED <<produced, chunk, errorsAt, producer, channel>>,
           tracked' + Len(untracked') = tracked + Len(untracked),
           pc = "failed" => pc' = "failed"
    PROVE  Stream'
<1>1. \A k \in 0 .. Len(channel) : Reach(k)' = Reach(k)
  BY DEF Reach
<1>2. Live' => Live
  BY DEF Live
<1>3. Len(channel) \in Nat
  BY LenProperties DEF BatchedInv, TypeOK
<1>4. ChannelInOrder'
  <2>1. \A k \in 1 .. Len(channel) : Reach(k - 1)' = Reach(k - 1)
    BY <1>1, <1>3
  <2> QED
    BY <2>1 DEF BatchedInv, Stream, ChannelInOrder
<1>5. Reach(Len(channel))' = Reach(Len(channel))
  BY <1>1, <1>3
<1> QED
  BY <1>1, <1>2, <1>4, <1>5 DEF BatchedInv, Stream

-----------------------------------------------------------------------------
\* The run begins in the invariant.
LEMMA BatchedInitInv == Init => BatchedInv
<1> SUFFICES ASSUME Init PROVE BatchedInv
  OBVIOUS
<1>1. CommitInv /\ CommitTypeOK
  BY CommitInitInv DEF Init, CommitInv
<1>2. DeliveryTypeOK
  BY DEF Init, DeliveryInit, DeliveryTypeOK, BranchStates
<1>3. BatchSize \in Nat \ {0} /\ MaxRecords \in Nat
  BY BatchedAssumption, PolicyAssumption
<1>4. TypeOK
  <2>1. /\ chunk \in Seq(Item) /\ Len(chunk) < BatchSize
        /\ channel \in Seq(Seq(Item))
        /\ batch \in Seq(Position) /\ untracked \in Seq(Position)
    BY <1>3, EmptySeq DEF Init
  <2>2. produced \in 0 .. MaxRecords /\ errorsAt \subseteq 0 .. MaxRecords
    BY <1>3 DEF Init
  <2>3. /\ producer \in {"reserving", "polling", "returned"}
        /\ streamEnded \in BOOLEAN
        /\ chunkTimer \in Deadlines /\ chunkTimer = "none" /\ chunk = << >>
    BY DEF Init, Deadlines
  <2>4. pc \in PCs /\ failure \in Errors
    BY DEF Init, PCs, Errors
  <2> QED
    BY <1>1, <1>2, <2>1, <2>2, <2>3, <2>4 DEF TypeOK
<1>5. AckedIsAccepted
  BY DEF Init, CommitInit, DeliveryInit, AckedIsAccepted
<1>6. Control
  BY DEF Init, CommitInit, DeliveryInit, Control, NothingEligible, RunFrom
<1>7. Stream
  BY DEF Init, CommitInit, Stream, ChannelInOrder, Live, InStream, RunFrom, Reach
<1> QED
  BY <1>1, <1>4, <1>5, <1>6, <1>7 DEF BatchedInv

-----------------------------------------------------------------------------
(***************************************************************************)
(* Polling the stream.                                                     *)
(***************************************************************************)

\* The channel reaches a position, whichever batch is taken for the last.
LEMMA ReachType ==
    ASSUME BatchedInv, NEW k \in 0 .. Len(channel)
    PROVE  Reach(k) \in Nat
<1>1. /\ channel \in Seq(Seq(Item)) /\ untracked \in Seq(Position) /\ tracked \in Nat
      /\ ChannelInOrder
  BY DEF BatchedInv, TypeOK, CommitTypeOK, Stream
<1>2. CASE k = 0
  BY <1>1, <1>2, LenProperties DEF Reach
<1>3. CASE k # 0
  <2>1. k \in 1 .. Len(channel)
    BY <1>1, <1>3, LenProperties
  <2>2. channel[k] \in Seq(Item)
    BY <1>1, <2>1, ElementOfSeq
  <2>3. channel[k] # << >>
    <3>1. <<Bad>> # << >>
      OBVIOUS
    <3> QED
      BY <1>1, <2>1, <3>1, Zenon DEF ChannelInOrder
  <2>4. Len(channel[k]) \in Nat \ {0}
    BY <2>2, <2>3, EmptySeq
  <2>5. channel[k][Len(channel[k])] \in Item
    BY <2>2, <2>4, ElementOfSeq
  <2> QED
    BY <1>3, <2>5 DEF Reach, Item
<1> QED
  BY <1>2, <1>3

\* Whoever may poll finds a stream that has not failed its reader, and the
\* consumer that polls has nothing left to track.
LEMMA DemandedFacts ==
    ASSUME BatchedInv, Demanded
    PROVE  /\ InStream(Reach(Len(channel)), chunk, produced, errorsAt)
           /\ chunk \in Seq(Item)
           /\ produced \in Nat
           /\ Len(channel) \in Nat
           /\ Reach(Len(channel)) \in Nat
           /\ Prefetch = 0 => /\ pc = "next" /\ channel = << >> /\ untracked = << >>
                              /\ tracked = acked /\ stagedEpochs = << >>
           /\ Prefetch # 0 => producer = "polling" /\ Polled
<1>1. /\ chunk \in Seq(Item) /\ produced \in Nat /\ Len(channel) \in Nat
  BY LenProperties DEF BatchedInv, TypeOK
<1>2. Live
  BY DEF Demanded, Live
<1>3. Reach(Len(channel)) \in Nat
  BY <1>1, ReachType
<1>4. InStream(Reach(Len(channel)), chunk, produced, errorsAt)
  BY <1>2 DEF BatchedInv, Stream
<1>5. Prefetch = 0 => /\ pc = "next" /\ channel = << >> /\ untracked = << >>
                      /\ tracked = acked /\ stagedEpochs = << >>
  BY DEF Demanded, BatchedInv, Stream, Control
<1>6. Prefetch # 0 => producer = "polling" /\ Polled
  BY DEF Demanded
<1> QED
  BY <1>1, <1>3, <1>4, <1>5, <1>6

\* A record joins the items of the chunk in the order of the stream.
LEMMA RecordInStream ==
    ASSUME NEW n \in Nat, NEW items \in Seq(Item), NEW last \in Nat, NEW errors,
           InStream(n, items, last, errors)
    PROVE  InStream(n, Append(items, last + 1), last + 1, errors)
<1> DEFINE longer == Append(items, last + 1)
<1>1. /\ longer \in Seq(Item)
      /\ Len(items) \in Nat
      /\ Len(longer) = Len(items) + 1
      /\ \A i \in 1 .. Len(items) : longer[i] = items[i]
      /\ longer[Len(items) + 1] = last + 1
  BY AppendProperties, LenProperties DEF Item
<1> SUFFICES ASSUME Bad \notin Range(longer)
             PROVE  RunFrom(n, longer) /\ last + 1 = n + Len(longer) /\ errors = {}
  BY DEF InStream
<1>2. Bad \notin Range(items)
  <2>1. /\ Range(items) = {items[i] : i \in 1 .. Len(items)}
        /\ Range(longer) = {longer[i] : i \in 1 .. Len(longer)}
    BY <1>1, RangeEquality
  <2> QED
    BY <1>1, <2>1
<1>3. RunFrom(n, items) /\ last = n + Len(items) /\ errors = {}
  BY <1>2 DEF InStream
<1>4. RunFrom(n, longer)
  <2>1. ASSUME NEW i \in 1 .. Len(longer)
        PROVE  longer[i] = n + i
    <3>1. CASE i \in 1 .. Len(items)
      BY <1>1, <1>3, <3>1 DEF RunFrom
    <3>2. CASE i = Len(items) + 1
      BY <1>1, <1>3, <3>2
    <3> QED
      BY <1>1, <2>1, <3>1, <3>2
  <2> QED
    BY <2>1 DEF RunFrom
<1> QED
  BY <1>1, <1>3, <1>4

\* A chunk with nothing in it.
LEMMA EmptyInStream ==
    ASSUME NEW n \in Nat
    PROVE  InStream(n, << >>, n, {})
<1>1. Len(<< >>) = 0
  BY EmptySeq
<1>2. \A i \in 1 .. Len(<< >>) : << >>[i] = n + i
  BY <1>1
<1>3. n = n + Len(<< >>)
  BY <1>1
<1> QED
  BY <1>2, <1>3, Zenon DEF InStream, RunFrom

\* An error among the items says nothing of the others.
LEMMA ErrorInStream ==
    ASSUME NEW n \in Nat, NEW items \in Seq(Item), NEW last, NEW errors
    PROVE  InStream(n, Append(items, Bad), last, errors)
<1>1. /\ Append(items, Bad) \in Seq(Item)
      /\ Len(Append(items, Bad)) = Len(items) + 1
      /\ Append(items, Bad)[Len(items) + 1] = Bad
      /\ Len(items) \in Nat
  BY AppendProperties, LenProperties DEF Item, Bad
<1>2. Bad \in Range(Append(items, Bad))
  <2>1. Range(Append(items, Bad)) =
          {Append(items, Bad)[i] : i \in 1 .. Len(Append(items, Bad))}
    BY <1>1, RangeEquality
  <2> QED
    BY <1>1, <2>1
<1> QED
  BY <1>2 DEF InStream

\* The items of a run without an error are positions, and the last of them is
\* the last position of the stream.
LEMMA RunIsPositions ==
    ASSUME NEW n \in Nat, NEW items \in Seq(Item), items # << >>, RunFrom(n, items)
    PROVE  /\ items \in Seq(Position)
           /\ Len(items) \in Nat \ {0}
           /\ items[Len(items)] = n + Len(items)
<1>1. Len(items) \in Nat \ {0}
  BY EmptySeq
<1>2. \A i \in 1 .. Len(items) : items[i] \in Position
  BY <1>1 DEF RunFrom, Position
<1>3. Range(items) \subseteq Position
  BY <1>2, RangeEquality
<1>4. items \in Seq(Position)
  <2>1. items \in Seq(Range(items))
    BY SeqOfRange
  <2> QED
    BY <1>3, <2>1, SeqMonotonic, Zenon
<1> QED
  BY <1>1, <1>4 DEF RunFrom

\* What a poll that emits a batch leaves alone, and the batch it makes.
EmitFrame(items) ==
    /\ items \in Seq(Item) /\ items # << >>
    /\ InStream(Reach(Len(channel)), items, produced', errorsAt')
    /\ Emit(items)
    /\ produced' \in 0 .. MaxRecords /\ produced <= produced'
    /\ errorsAt' \subseteq 0 .. MaxRecords
    /\ errorsAt' \subseteq errorsAt \cup {produced'}
    /\ streamEnded' \in BOOLEAN
    /\ UNCHANGED <<commitVars, deliveryVars>>

\* The batch is an error, or the next positions up to the last one yielded.
LEMMA MadeBatch ==
    ASSUME BatchedInv, Demanded, NEW items, EmitFrame(items)
    PROVE  \/ TryFromChunk(items) = <<Bad>>
           \/ /\ TryFromChunk(items) = items
              /\ items # <<Bad>>
              /\ items \in Seq(Position)
              /\ RunFrom(Reach(Len(channel)), items)
              /\ Len(items) \in Nat \ {0}
              /\ items[Len(items)] = produced'
              /\ produced' = Reach(Len(channel)) + Len(items)
              /\ errorsAt' = {}
<1>1. CASE Bad \in Range(items)
  BY <1>1 DEF TryFromChunk
<1>2. CASE Bad \notin Range(items)
  <2>1. /\ items \in Seq(Item) /\ items # << >>
        /\ RunFrom(Reach(Len(channel)), items)
        /\ produced' = Reach(Len(channel)) + Len(items)
        /\ errorsAt' = {}
    BY <1>2 DEF EmitFrame, InStream
  <2>2. Reach(Len(channel)) \in Nat
    BY DemandedFacts
  <2>3. /\ items \in Seq(Position)
        /\ Len(items) \in Nat \ {0}
        /\ items[Len(items)] = produced'
    BY <2>1, <2>2, RunIsPositions
  <2>4. items # <<Bad>>
    <3>1. items[Len(items)] \in Position
      BY <2>3, ElementOfSeq
    <3>2. Len(<<Bad>>) = 1 /\ <<Bad>>[1] = Bad /\ Bad \notin Position
      BY DEF Bad, Position
    <3> QED
      BY <3>1, <3>2
  <2> QED
    BY <1>2, <2>1, <2>3, <2>4 DEF TryFromChunk
<1> QED
  BY <1>1, <1>2

\* The bounds that every poll keeps: what is reached was yielded, and no error
\* came before it.
LEMMA ReachBounds ==
    ASSUME BatchedInv, NEW k \in 0 .. Len(channel),
           produced' \in Nat, produced <= produced',
           errorsAt' \subseteq errorsAt \cup {produced'}
    PROVE  /\ Reach(k) <= produced'
           /\ \A position \in errorsAt' : Reach(k) <= position
<1>1. /\ Reach(k) <= produced
      /\ \A position \in errorsAt : Reach(k) <= position
  BY DEF BatchedInv, Stream
<1>2. Reach(k) \in Nat /\ produced \in Nat
  BY ReachType DEF BatchedInv, TypeOK
<1> QED
  BY <1>1, <1>2

\* Without prefetch the consumer takes the batch at once, or fails.
LEMMA EmitDirectInv ==
    ASSUME BatchedInv, Demanded, Prefetch = 0, NEW items, EmitFrame(items)
    PROVE  BatchedInv'
<1> DEFINE made == TryFromChunk(items)
<1>1. /\ chunk' = << >> /\ chunkTimer' = "none"
      /\ Receive(made)
      /\ UNCHANGED <<producer, channel, commitVars, deliveryVars>>
  BY DEF EmitFrame, Emit
<1>2. /\ pc = "next" /\ channel = << >> /\ untracked = << >>
      /\ tracked = acked /\ stagedEpochs = << >>
      /\ Len(channel) = 0
      /\ tracked \in Nat
  BY DemandedFacts DEF BatchedInv, TypeOK, CommitTypeOK
<1>3. Reach(0) = tracked
  BY <1>2 DEF Reach
<1>4. /\ tracked' = tracked /\ acked' = acked /\ stagedEpochs' = stagedEpochs
      /\ channel' = << >> /\ producer' = "returned"
  BY <1>1, <1>2 DEF BatchedInv, Stream, commitVars
<1>5. CommitInv' /\ CommitTypeOK' /\ AckedIsAccepted' /\ DeliveryTypeOK'
  BY <1>1, EpochsKept, DeliveryKept DEF commitVars
<1>6. /\ tracked <= produced'
      /\ \A position \in errorsAt' : tracked <= position
  BY <1>2, <1>3, ReachBounds DEF EmitFrame
<1>7. CASE made = <<Bad>>
  <2>1. /\ pc' = "failed" /\ failure' \in {"Source", "Transform"}
        /\ UNCHANGED <<batch, untracked>>
    BY <1>1, <1>7 DEF Receive, Fail
  <2>2. TypeOK'
    <3>1. chunk' \in Seq(Item) /\ Len(chunk') = 0
      BY <1>1, EmptySeq
    <3> QED
      BY <1>1, <1>5, <2>1, <3>1, BatchedAssumption, PolicyAssumption
         DEF BatchedInv, TypeOK, EmitFrame, PCs, Errors, Deadlines
  <2>3. Control'
    BY <1>2, <1>4, <2>1 DEF BatchedInv, Control, RunFrom
  <2>4. Stream'
    BY <1>2, <1>4, <1>6, <2>1 DEF Stream, ChannelInOrder, Live, Reach
  <2> QED
    BY <1>5, <2>2, <2>3, <2>4 DEF BatchedInv
<1>8. CASE made # <<Bad>>
  <2>1. /\ made = items
        /\ items # << >>
        /\ items \in Seq(Position)
        /\ RunFrom(tracked, items)
        /\ Len(items) \in Nat \ {0}
        /\ produced' = tracked + Len(items)
        /\ errorsAt' = {}
    BY <1>2, <1>3, <1>8, MadeBatch DEF EmitFrame
  <2>2. /\ batch' = items /\ untracked' = items
        /\ pc' = "tracking" /\ failure' = failure
    BY <1>1, <1>8, <2>1 DEF Receive, Goto
  <2>3. TypeOK'
    <3>1. chunk' \in Seq(Item) /\ Len(chunk') = 0
      BY <1>1, EmptySeq
    <3> QED
      BY <1>1, <1>5, <2>1, <2>2, <3>1, BatchedAssumption, PolicyAssumption
         DEF BatchedInv, TypeOK, EmitFrame, PCs, Errors, Deadlines
  <2>4. Control'
    BY <1>2, <1>4, <2>1, <2>2 DEF Control, RunFrom
  <2>5. Stream'
    <3>1. Reach(0)' = produced'
      BY <1>4, <2>1, <2>2 DEF Reach
    <3>2. Len(channel') = 0
      BY <1>4
    <3>3. InStream(Reach(Len(channel)), chunk, produced, errorsAt)'
      BY <1>1, <1>2, <2>1, <3>1, <3>2 DEF InStream, RunFrom
    <3> QED
      BY <1>2, <1>4, <2>1, <3>1, <3>2, <3>3 DEF Stream, ChannelInOrder
  <2> QED
    BY <1>5, <2>3, <2>4, <2>5 DEF BatchedInv
<1> QED
  BY <1>7, <1>8

\* With prefetch the producer sends the batch, and returns after an error.
LEMMA EmitAheadInv ==
    ASSUME BatchedInv, Demanded, Prefetch # 0, NEW items, EmitFrame(items)
    PROVE  BatchedInv'
<1> DEFINE made == TryFromChunk(items)
<1>0. PICK m \in Nat : m = Len(channel)
  BY DemandedFacts
<1>1. /\ chunk' = << >> /\ chunkTimer' = "none"
      /\ channel' = Append(channel, made)
      /\ producer' = IF made = <<Bad>> THEN "returned" ELSE "reserving"
      /\ UNCHANGED <<batch, untracked, pc, failure, commitVars, deliveryVars>>
  BY DEF EmitFrame, Emit
<1>2. /\ producer = "polling" /\ channel \in Seq(Seq(Item))
      /\ ChannelInOrder
      /\ Reach(m) \in Nat
  BY <1>0, DemandedFacts DEF BatchedInv, TypeOK, Stream
<1>3. made = <<Bad>> \/ made = items
  BY MadeBatch
<1>4. made \in Seq(Item)
  <2>1. <<Bad>> \in Seq(Item)
    BY DEF Bad, Item
  <2> QED
    BY <1>3, <2>1 DEF EmitFrame
<1>5. /\ channel' \in Seq(Seq(Item))
      /\ Len(channel') = m + 1
      /\ \A k \in 1 .. m : channel'[k] = channel[k]
      /\ channel'[m + 1] = made
  BY <1>0, <1>1, <1>2, <1>4, AppendProperties
<1>6. \A k \in 0 .. m : Reach(k)' = Reach(k)
  BY <1>1, <1>2, <1>5 DEF Reach, commitVars
<1> HIDE DEF made
<1>7. CommitInv' /\ CommitTypeOK' /\ AckedIsAccepted' /\ DeliveryTypeOK'
  BY <1>1, EpochsKept, DeliveryKept DEF commitVars
<1>8. TypeOK'
  <2>1. chunk' \in Seq(Item) /\ Len(chunk') = 0
    BY <1>1, EmptySeq
  <2> QED
    BY <1>1, <1>5, <1>7, <2>1, BatchedAssumption, PolicyAssumption
       DEF BatchedInv, TypeOK, EmitFrame, Deadlines
<1>9. Control'
  BY <1>1 DEF BatchedInv, Control, NothingEligible, RunFrom, commitVars, deliveryVars
<1>10. made # <<Bad>> =>
         /\ made # << >>
         /\ RunFrom(Reach(m), made)
         /\ Reach(m + 1)' = produced'
         /\ errorsAt' = {}
  <2> SUFFICES ASSUME made # <<Bad>>
               PROVE  /\ made # << >>
                      /\ RunFrom(Reach(m), made)
                      /\ Reach(m + 1)' = produced'
                      /\ errorsAt' = {}
    OBVIOUS
  <2>1. /\ made = items
        /\ items # << >>
        /\ RunFrom(Reach(m), items)
        /\ items[Len(items)] = produced'
        /\ errorsAt' = {}
    BY <1>0, MadeBatch DEF EmitFrame, made
  <2>2. Reach(m + 1)' = made[Len(made)]
    BY <1>2, <1>5 DEF Reach
  <2> QED
    BY <2>1, <2>2
<1>11. made = <<Bad>> => Reach(m + 1)' = 0
  BY <1>2, <1>5 DEF Reach, Bad
<1>12. ChannelInOrder'
  <2>1. ASSUME NEW k \in 1 .. m
        PROVE  channel'[k] # << >> /\ RunFrom(Reach(k - 1)', channel'[k])
    <3>1. channel[k] # << >> /\ RunFrom(Reach(k - 1), channel[k])
      BY <1>0, <1>2 DEF ChannelInOrder
    <3>2. k - 1 \in 0 .. m
      BY <1>2
    <3> QED
      BY <1>5, <1>6, <3>1, <3>2
  <2>2. \/ made = <<Bad>> /\ producer' = "returned"
        \/ made # << >> /\ RunFrom(Reach(m)', made)
    <3>1. Reach(m)' = Reach(m)
      BY <1>2, <1>6
    <3> QED
      BY <1>1, <1>10, <3>1 DEF made
  <2>3. ASSUME NEW k \in 1 .. m + 1
        PROVE  \/ channel'[k] = <<Bad>> /\ k = m + 1 /\ producer' = "returned"
               \/ channel'[k] # << >> /\ RunFrom(Reach(k - 1)', channel'[k])
    <3>1. CASE k \in 1 .. m
      BY <2>1, <3>1
    <3>2. CASE k = m + 1
      <4>1. k - 1 = m
        BY <1>2, <3>2
      <4> QED
        BY <1>5, <2>2, <3>2, <4>1
    <3> QED
      BY <1>2, <3>1, <3>2
  <2> QED
    BY <1>5, <2>3 DEF ChannelInOrder
<1>13. ASSUME NEW k \in 0 .. m + 1
       PROVE  /\ Reach(k)' <= produced'
              /\ \A position \in errorsAt' : Reach(k)' <= position
  <2>1. produced' \in Nat /\ \A position \in errorsAt' : position \in Nat
    BY BatchedAssumption DEF EmitFrame
  <2>2. CASE k \in 0 .. m
    BY <1>0, <1>6, <2>1, <2>2, ReachBounds DEF EmitFrame
  <2>3. CASE k = m + 1
    BY <1>10, <1>11, <2>1, <2>3
  <2> QED
    BY <1>2, <2>2, <2>3
<1>14. Live' => InStream(Reach(Len(channel)), chunk, produced, errorsAt)'
  <2> SUFFICES ASSUME Live'
               PROVE  InStream(Reach(Len(channel))', chunk', produced', errorsAt')
    OBVIOUS
  <2>1. made # <<Bad>>
    BY <1>1 DEF Live, made
  <2>2. Reach(Len(channel))' = produced' /\ errorsAt' = {}
    BY <1>5, <1>10, <2>1
  <2>3. produced' \in Nat /\ chunk' = << >>
    BY <1>1, BatchedAssumption DEF EmitFrame
  <2>4. InStream(produced', << >>, produced', {})
    BY <2>3, EmptyInStream
  <2> QED
    BY <2>2, <2>3, <2>4, Zenon
<1>15. Stream'
  BY <1>5, <1>12, <1>13, <1>14 DEF Stream
<1> QED
  BY <1>7, <1>8, <1>9, <1>15 DEF BatchedInv

\* A poll that emits a batch, whoever polls.
LEMMA EmitInv ==
    ASSUME BatchedInv, Demanded, NEW items, EmitFrame(items)
    PROVE  BatchedInv'
  BY EmitDirectInv, EmitAheadInv

\* An item of the stream joins the chunk, which it may fill.
LEMMA GatherInv ==
    ASSUME BatchedInv, Demanded, NEW item \in Item, Gather(item),
           InStream(Reach(Len(channel)), Append(chunk, item), produced', errorsAt'),
           produced' \in 0 .. MaxRecords, produced <= produced',
           errorsAt' \subseteq 0 .. MaxRecords,
           errorsAt' \subseteq errorsAt \cup {produced'},
           UNCHANGED <<commitVars, deliveryVars, streamEnded>>
    PROVE  BatchedInv'
<1> DEFINE items == Append(chunk, item)
<1>1. /\ chunk \in Seq(Item) /\ Len(chunk) \in Nat /\ Len(chunk) < BatchSize
      /\ BatchSize \in Nat
      /\ items \in Seq(Item) /\ items # << >> /\ Len(items) = Len(chunk) + 1
  <2>1. chunk \in Seq(Item) /\ Len(chunk) < BatchSize
    BY DEF BatchedInv, TypeOK
  <2>2. BatchSize \in Nat
    BY BatchedAssumption, PolicyAssumption
  <2>3. Len(chunk) \in Nat
    BY <2>1, LenProperties
  <2>4. items \in Seq(Item) /\ items # << >> /\ Len(items) = Len(chunk) + 1
    BY <2>1, AppendProperties
  <2> QED
    BY <2>1, <2>2, <2>3, <2>4
<1>2. CASE Len(items) = BatchSize
  <2>1. EmitFrame(items)
    BY <1>1, <1>2 DEF EmitFrame, Gather, BatchedInv, TypeOK
  <2> QED
    BY <2>1, EmitInv
<1>3. CASE Len(items) # BatchSize
  <2>1. /\ chunk' = items
        /\ chunkTimer' = IF chunk = << >> THEN "armed" ELSE chunkTimer
        /\ UNCHANGED <<batchVars, pc, failure, commitVars, deliveryVars>>
    BY <1>3 DEF Gather
  <2>2. CommitInv' /\ CommitTypeOK' /\ AckedIsAccepted' /\ DeliveryTypeOK'
    BY <2>1, EpochsKept, DeliveryKept DEF commitVars
  <2>3. TypeOK'
    <3>1. /\ chunk' \in Seq(Item) /\ Len(chunk') < BatchSize
          /\ chunkTimer' \in Deadlines
          /\ chunkTimer' = "none" <=> chunk' = << >>
      BY <1>1, <1>3, <2>1 DEF BatchedInv, TypeOK, Deadlines
    <3> QED
      BY <2>1, <2>2, <3>1 DEF BatchedInv, TypeOK, batchVars
  <2>4. Control'
    BY <2>1 DEF BatchedInv, Control, NothingEligible, RunFrom, commitVars, deliveryVars,
                batchVars
  <2>5. \A k : Reach(k)' = Reach(k)
    BY <2>1 DEF Reach, batchVars, commitVars
  <2>6. UNCHANGED <<channel, producer, pc>>
    BY <2>1 DEF batchVars
  <2>7. ChannelInOrder'
    BY <2>5, <2>6 DEF BatchedInv, Stream, ChannelInOrder
  <2>8. InStream(Reach(Len(channel)), chunk, produced, errorsAt)'
    <3>1. Reach(Len(channel))' = Reach(Len(channel))
      BY <2>5, <2>6
    <3> QED
      BY <2>1, <3>1
  <2>9. \A k \in 0 .. Len(channel) :
            /\ Reach(k)' <= produced'
            /\ \A position \in errorsAt' : Reach(k)' <= position
    BY <2>5, ReachBounds, BatchedAssumption
  <2>10. Stream'
    BY <2>6, <2>7, <2>8, <2>9 DEF BatchedInv, Stream
  <2> QED
    BY <2>2, <2>3, <2>4, <2>10 DEF BatchedInv
<1> QED
  BY <1>2, <1>3

\* PollRecord: the stream yields its next record.
LEMMA PollRecordInv ==
    ASSUME BatchedInv, PollRecord
    PROVE  BatchedInv'
<1>1. /\ Demanded /\ Gather(produced + 1)
      /\ produced' = produced + 1 /\ produced < MaxRecords
      /\ UNCHANGED <<commitVars, deliveryVars, streamEnded, errorsAt>>
  BY DEF PollRecord
<1>2. /\ produced \in 0 .. MaxRecords /\ errorsAt \subseteq 0 .. MaxRecords
      /\ MaxRecords \in Nat
  BY BatchedAssumption DEF BatchedInv, TypeOK
<1>3. InStream(Reach(Len(channel)), Append(chunk, produced + 1), produced', errorsAt')
  BY <1>1, DemandedFacts, RecordInStream
<1>4. produced + 1 \in Item /\ produced' \in 0 .. MaxRecords /\ produced <= produced'
  BY <1>1, <1>2 DEF Item
<1> QED
  BY <1>1, <1>2, <1>3, <1>4, GatherInv

\* PollError: the stream yields an error.
LEMMA PollErrorInv ==
    ASSUME BatchedInv, PollError
    PROVE  BatchedInv'
<1>1. /\ Demanded /\ Gather(Bad)
      /\ produced' = produced /\ errorsAt' = errorsAt \cup {produced}
      /\ UNCHANGED <<commitVars, deliveryVars, streamEnded>>
  BY DEF PollError
<1>2. /\ produced \in 0 .. MaxRecords /\ errorsAt \subseteq 0 .. MaxRecords
      /\ MaxRecords \in Nat
  BY BatchedAssumption DEF BatchedInv, TypeOK
<1>3. InStream(Reach(Len(channel)), Append(chunk, Bad), produced', errorsAt')
  BY <1>1, DemandedFacts, ErrorInStream
<1>4. Bad \in Item /\ produced' \in 0 .. MaxRecords /\ produced <= produced'
  BY <1>1, <1>2 DEF Item, Bad
<1> QED
  BY <1>1, <1>2, <1>3, <1>4, GatherInv

\* PollTimeout and PollRest: what the chunk holds is a batch.
LEMMA PollChunkInv ==
    ASSUME BatchedInv, PollTimeout \/ PollRest
    PROVE  BatchedInv'
<1>1. /\ Demanded /\ Emit(chunk)
      /\ UNCHANGED <<commitVars, deliveryVars, produced, errorsAt>>
      /\ streamEnded' \in BOOLEAN
      /\ chunk # << >>
  BY DEF PollTimeout, PollRest, BatchedInv, TypeOK
<1>2. EmitFrame(chunk)
  BY <1>1, DemandedFacts DEF EmitFrame, BatchedInv, TypeOK
<1> QED
  BY <1>1, <1>2, EmitInv

\* PollEnd: the stream is over, for the consumer or for the producer.
LEMMA PollEndInv ==
    ASSUME BatchedInv, PollEnd
    PROVE  BatchedInv'
<1>1. /\ Demanded /\ streamEnded' = TRUE
      /\ UNCHANGED <<deliveryVars, produced, chunk, chunkTimer, errorsAt, channel, batch,
                     untracked>>
  BY DEF PollEnd
<1>2. CASE Prefetch = 0
  <2>1. /\ Finish /\ producer' = producer /\ failure' = failure
        /\ pc = "next" /\ pc' = "finishing"
        /\ tracked = acked /\ stagedEpochs = << >> /\ untracked = << >>
        /\ UNCHANGED <<tracked, acked>> /\ stagedEpochs' = << >>
    BY <1>1, <1>2, DemandedFacts DEF PollEnd, Goto, Finish
  <2>2. CommitInv' /\ CommitTypeOK' /\ currentEpoch' = << >>
    BY <2>1, FinishInv DEF BatchedInv, CommitInv
  <2>3. AckedIsAccepted' /\ DeliveryTypeOK'
    BY <1>1, <2>1, DeliveryKept
  <2>4. TypeOK'
    BY <1>1, <2>1, <2>2, <2>3 DEF BatchedInv, TypeOK, PCs
  <2>5. Control'
    BY <1>1, <2>1, <2>2 DEF BatchedInv, Control, RunFrom
  <2>6. Stream'
    BY <1>1, <2>1, StreamKept
  <2> QED
    BY <2>2, <2>3, <2>4, <2>5, <2>6 DEF BatchedInv
<1>3. CASE Prefetch # 0
  <2>1. /\ producer = "polling" /\ producer' = "returned"
        /\ UNCHANGED <<commitVars, pc, failure>>
    BY <1>1, <1>3, DemandedFacts DEF PollEnd
  <2>2. CommitInv' /\ CommitTypeOK' /\ AckedIsAccepted' /\ DeliveryTypeOK'
    BY <1>1, <2>1, EpochsKept, DeliveryKept DEF commitVars
  <2>3. TypeOK'
    BY <1>1, <2>1, <2>2 DEF BatchedInv, TypeOK
  <2>4. Control'
    BY <1>1, <2>1 DEF BatchedInv, Control, NothingEligible, RunFrom, commitVars, deliveryVars
  <2>5. \A k : Reach(k)' = Reach(k)
    BY <1>1, <2>1 DEF Reach, commitVars
  <2>6. ChannelInOrder' /\ ~Live'
    BY <1>1, <1>3, <2>1, <2>5 DEF BatchedInv, Stream, ChannelInOrder, Live
  <2>7. Stream'
    BY <1>1, <1>3, <2>5, <2>6 DEF BatchedInv, Stream
  <2> QED
    BY <2>2, <2>3, <2>4, <2>7 DEF BatchedInv
<1> QED
  BY <1>2, <1>3

-----------------------------------------------------------------------------
(***************************************************************************)
(* The producer and the consumer.                                          *)
(***************************************************************************)

\* Reserve: the producer holds a place in the channel.
LEMMA ReserveInv ==
    ASSUME BatchedInv, Reserve
    PROVE  BatchedInv'
<1>1. /\ producer = "reserving" /\ producer' = "polling"
      /\ UNCHANGED <<commitVars, deliveryVars, streamVars, channel, batch, untracked, pc,
                     failure>>
  BY DEF Reserve
<1>2. CommitInv' /\ CommitTypeOK' /\ AckedIsAccepted' /\ DeliveryTypeOK'
  BY <1>1, EpochsKept, DeliveryKept DEF commitVars
<1>3. TypeOK'
  BY <1>1, <1>2 DEF BatchedInv, TypeOK, streamVars
<1>4. Control'
  BY <1>1 DEF BatchedInv, Control, NothingEligible, RunFrom, commitVars, deliveryVars
<1>5. \A k : Reach(k)' = Reach(k)
  BY <1>1 DEF Reach, commitVars
<1>6. ChannelInOrder'
  BY <1>1, <1>5 DEF BatchedInv, Stream, ChannelInOrder
<1>7. UNCHANGED <<chunk, produced, errorsAt, channel>> /\ Prefetch # 0 /\ Live
  BY <1>1 DEF streamVars, BatchedInv, Stream, Live
<1>8. InStream(Reach(Len(channel)), chunk, produced, errorsAt)'
  <2>1. Reach(Len(channel))' = Reach(Len(channel))
    BY <1>5, <1>7
  <2> QED
    BY <1>7, <2>1 DEF BatchedInv, Stream
<1>9. Stream'
  BY <1>5, <1>6, <1>7, <1>8 DEF BatchedInv, Stream
<1> QED
  BY <1>2, <1>3, <1>4, <1>9 DEF BatchedInv

\* ReceiveBatch: the oldest batch of the channel, or the error it is.
LEMMA ReceiveBatchInv ==
    ASSUME BatchedInv, ReceiveBatch
    PROVE  BatchedInv'
<1> DEFINE received == Head(channel)
<1>1. /\ pc = "next" /\ channel # << >> /\ channel' = Tail(channel)
      /\ Receive(received)
      /\ UNCHANGED <<commitVars, deliveryVars, streamVars, producer>>
  BY DEF ReceiveBatch
<1>2. /\ channel \in Seq(Seq(Item)) /\ ChannelInOrder
      /\ tracked = acked /\ stagedEpochs = << >> /\ untracked = << >>
      /\ tracked \in Nat /\ Prefetch # 0
  BY <1>1 DEF BatchedInv, TypeOK, CommitTypeOK, Stream, Control
<1>3. PICK m \in Nat : m = Len(channel) - 1
  <2>1. Len(channel) \in Nat \ {0}
    BY <1>1, <1>2, EmptySeq
  <2>2. Len(channel) - 1 \in Nat
    BY <2>1
  <2> QED
    BY <2>2
<1>4. /\ channel' \in Seq(Seq(Item))
      /\ Len(channel) = m + 1 /\ Len(channel') = m
      /\ \A k \in 1 .. m : channel'[k] = channel[k + 1]
      /\ received = channel[1] /\ received \in Seq(Item)
  BY <1>1, <1>2, <1>3, HeadTailProperties
<1>5. Reach(0) = tracked
  BY <1>2, EmptySeq DEF Reach
<1>6. \/ received = <<Bad>> /\ m = 0 /\ producer = "returned"
      \/ /\ received # <<Bad>>
         /\ received # << >>
         /\ RunFrom(tracked, received)
  <2>1. 1 \in 1 .. Len(channel) /\ 1 - 1 = 0
    BY <1>3, <1>4
  <2>2. \/ received = <<Bad>> /\ 1 = Len(channel) /\ producer = "returned"
        \/ received # << >> /\ RunFrom(tracked, received)
    BY <1>2, <1>4, <1>5, <2>1 DEF ChannelInOrder
  <2>3. ~RunFrom(tracked, <<Bad>>)
    BY <1>2 DEF RunFrom, Bad
  <2> QED
    BY <1>3, <1>4, <2>2, <2>3
<1> HIDE DEF received
<1>7. CommitInv' /\ CommitTypeOK' /\ AckedIsAccepted' /\ DeliveryTypeOK'
  BY <1>1, EpochsKept, DeliveryKept DEF commitVars
<1>8. /\ tracked' = tracked /\ acked' = acked /\ stagedEpochs' = stagedEpochs
      /\ UNCHANGED <<produced, chunk, errorsAt, producer>>
  BY <1>1 DEF commitVars, streamVars
<1>9. CASE received = <<Bad>>
  <2>1. /\ pc' = "failed" /\ failure' \in {"Source", "Transform"}
        /\ UNCHANGED <<batch, untracked>>
        /\ m = 0 /\ producer = "returned"
    BY <1>1, <1>6, <1>9 DEF Receive, Fail
  <2>2. TypeOK'
    BY <1>1, <1>4, <1>7, <2>1 DEF BatchedInv, TypeOK, streamVars, PCs, Errors
  <2>3. Control'
    BY <1>2, <1>8, <2>1 DEF BatchedInv, Control, RunFrom
  <2>4. Stream'
    <3>1. Reach(0)' = Reach(0)
      BY <1>8, <2>1 DEF Reach
    <3>2. Len(channel') = 0
      BY <1>4, <2>1
    <3>3. 0 \in 0 .. Len(channel)
      BY <1>3, <1>4
    <3>4. ~Live'
      BY <1>2, <1>8, <2>1 DEF Live
    <3> QED
      BY <1>2, <1>8, <3>1, <3>2, <3>3, <3>4 DEF BatchedInv, Stream, ChannelInOrder
  <2> QED
    BY <1>7, <2>2, <2>3, <2>4 DEF BatchedInv
<1>10. CASE received # <<Bad>>
  <2>1. /\ batch' = received /\ untracked' = received
        /\ pc' = "tracking" /\ failure' = failure
        /\ received # << >>
        /\ RunFrom(tracked, received)
    BY <1>1, <1>6, <1>10 DEF Receive, Goto
  <2>2. /\ received \in Seq(Position)
        /\ Len(received) \in Nat \ {0}
        /\ received[Len(received)] = tracked + Len(received)
    BY <1>2, <1>4, <2>1, RunIsPositions
  <2>3. TypeOK'
    BY <1>1, <1>4, <1>7, <2>1, <2>2 DEF BatchedInv, TypeOK, streamVars, PCs
  <2>4. Control'
    BY <1>2, <1>8, <2>1, <2>2 DEF Control, RunFrom
  <2>5. ASSUME NEW k \in 0 .. m
        PROVE  Reach(k)' = Reach(k + 1)
    <3>1. CASE k = 0
      BY <1>4, <1>8, <2>1, <2>2, <3>1 DEF Reach
    <3>2. CASE k # 0
      BY <1>4, <3>2 DEF Reach
    <3> QED
      BY <3>1, <3>2
  <2>6. ChannelInOrder'
    <3>1. ASSUME NEW k \in 1 .. m
          PROVE  \/ channel'[k] = <<Bad>> /\ k = m /\ producer' = "returned"
                 \/ channel'[k] # << >> /\ RunFrom(Reach(k - 1)', channel'[k])
      <4>1. /\ k + 1 \in 1 .. Len(channel) /\ (k + 1) - 1 = (k - 1) + 1
            /\ k - 1 \in 0 .. m
        BY <1>4
      <4>2. Reach(k - 1)' = Reach((k + 1) - 1)
        BY <2>5, <4>1
      <4>3. \/ channel[k + 1] = <<Bad>> /\ k + 1 = Len(channel) /\ producer = "returned"
            \/ channel[k + 1] # << >> /\ RunFrom(Reach((k + 1) - 1), channel[k + 1])
        BY <1>2, <4>1 DEF ChannelInOrder
      <4> QED
        BY <1>4, <1>8, <4>2, <4>3
    <3> QED
      BY <1>4, <3>1 DEF ChannelInOrder
  <2>7. Live' => InStream(Reach(Len(channel)), chunk, produced, errorsAt)'
    <3>1. Reach(Len(channel))' = Reach(Len(channel))
      BY <1>4, <2>5
    <3> QED
      BY <1>2, <1>8, <3>1 DEF BatchedInv, Stream, Live
  <2>8. ASSUME NEW k \in 0 .. m
        PROVE  /\ Reach(k)' <= produced'
               /\ \A position \in errorsAt' : Reach(k)' <= position
    <3>1. k + 1 \in 0 .. Len(channel)
      BY <1>4
    <3> QED
      BY <1>8, <2>5, <3>1 DEF BatchedInv, Stream
  <2>9. Stream'
    BY <1>2, <1>4, <2>6, <2>7, <2>8 DEF Stream
  <2> QED
    BY <1>7, <2>3, <2>4, <2>9 DEF BatchedInv
<1> QED
  BY <1>9, <1>10

\* ChannelClosed: the producer is gone and its batches have been consumed.
LEMMA ChannelClosedInv ==
    ASSUME BatchedInv, ChannelClosed
    PROVE  BatchedInv'
<1>1. /\ Finish /\ UNCHANGED <<deliveryVars, streamVars, batchVars>>
      /\ pc = "next" /\ pc' = "finishing" /\ failure' = failure
      /\ UNCHANGED <<tracked, acked>> /\ stagedEpochs' = << >>
      /\ tracked = acked
  BY DEF ChannelClosed, Goto, Finish, BatchedInv, Control
<1>2. CommitInv' /\ CommitTypeOK' /\ currentEpoch' = << >>
  BY <1>1, FinishInv DEF BatchedInv, CommitInv
<1>3. AckedIsAccepted' /\ DeliveryTypeOK'
  BY <1>1, DeliveryKept
<1>4. TypeOK'
  BY <1>1, <1>2, <1>3 DEF BatchedInv, TypeOK, streamVars, batchVars, PCs
<1>5. Control'
  BY <1>1, <1>2 DEF BatchedInv, Control, RunFrom, batchVars
<1>6. Stream'
  BY <1>1, StreamKept DEF streamVars, batchVars
<1> QED
  BY <1>2, <1>3, <1>4, <1>5, <1>6 DEF BatchedInv

\* CommitTimer: the deadline is handled between two batches.
LEMMA CommitTimerInv ==
    ASSUME BatchedInv, CommitTimer
    PROVE  BatchedInv'
<1>1. /\ HandleTimeout /\ UNCHANGED <<deliveryVars, streamVars, batchVars>>
      /\ pc = "next" /\ pc' = "committing" /\ failure' = failure
      /\ UNCHANGED <<tracked, acked, stagedEpochs>>
      /\ tracked = acked /\ stagedEpochs = << >>
  BY DEF CommitTimer, Goto, HandleTimeout, BatchedInv, Control
<1>2. CommitInv' /\ CommitTypeOK'
  BY <1>1, HandleTimeoutInv DEF BatchedInv, CommitInv
<1>3. AckedIsAccepted' /\ DeliveryTypeOK'
  BY <1>1, DeliveryKept
<1>4. TypeOK'
  BY <1>1, <1>2, <1>3 DEF BatchedInv, TypeOK, streamVars, batchVars, PCs
<1>5. Control'
  BY <1>1 DEF BatchedInv, Control, RunFrom, batchVars
<1>6. Stream'
  BY <1>1, StreamKept DEF streamVars, batchVars
<1> QED
  BY <1>2, <1>3, <1>4, <1>5, <1>6 DEF BatchedInv

\* TrackRecord: the next record of the batch is the next position.
LEMMA TrackRecordInv ==
    ASSUME BatchedInv, TrackRecord
    PROVE  BatchedInv'
<1>1. /\ pc = "tracking" /\ untracked # << >>
      /\ Track(Head(untracked)) /\ untracked' = Tail(untracked)
      /\ UNCHANGED <<deliveryVars, streamVars, producer, channel, batch, pc, failure>>
  BY DEF TrackRecord
<1>2. /\ untracked \in Seq(Position) /\ RunFrom(tracked, untracked)
      /\ tracked \in Nat /\ acked \in Nat
      /\ batch # << >> /\ RunFrom(acked, batch)
      /\ Len(batch) = tracked + Len(untracked) - acked
  BY <1>1 DEF BatchedInv, TypeOK, CommitTypeOK, Control
<1>3. PICK m \in Nat : m = Len(untracked) - 1
  <2>1. Len(untracked) \in Nat \ {0}
    BY <1>1, <1>2, EmptySeq
  <2>2. Len(untracked) - 1 \in Nat
    BY <2>1
  <2> QED
    BY <2>2
<1>4. /\ untracked' \in Seq(Position)
      /\ Len(untracked) = m + 1 /\ Len(untracked') = m
      /\ \A i \in 1 .. m : untracked'[i] = untracked[i + 1]
      /\ Head(untracked) = untracked[1]
  BY <1>1, <1>2, <1>3, HeadTailProperties
<1>5. Head(untracked) = tracked + 1
  BY <1>2, <1>4 DEF RunFrom
<1>6. /\ CommitInv' /\ CommitTypeOK'
      /\ tracked' = tracked + 1 /\ acked' = acked
  BY <1>1, <1>5, TrackInv DEF BatchedInv, CommitInv, Track
<1>7. RunFrom(tracked, untracked)'
  <2>1. ASSUME NEW i \in 1 .. m
        PROVE  untracked'[i] = tracked' + i
    <3>1. i + 1 \in 1 .. Len(untracked)
      BY <1>4
    <3>2. untracked[i + 1] = tracked + (i + 1)
      BY <1>2, <3>1 DEF RunFrom
    <3> QED
      BY <1>2, <1>4, <1>6, <3>2
  <2> QED
    BY <1>4, <2>1 DEF RunFrom
<1>8. tracked' + Len(untracked') = tracked + Len(untracked)
  BY <1>2, <1>4, <1>6
<1>9. AckedIsAccepted' /\ DeliveryTypeOK'
  BY <1>1, <1>6, DeliveryKept
<1>10. TypeOK'
  BY <1>1, <1>4, <1>6, <1>9 DEF BatchedInv, TypeOK, streamVars
<1>11. Control'
  BY <1>1, <1>2, <1>6, <1>7, <1>8 DEF Control, RunFrom
<1>12. Stream'
  BY <1>1, <1>8, StreamKept DEF streamVars
<1> QED
  BY <1>6, <1>9, <1>10, <1>11, <1>12 DEF BatchedInv

\* StartBatch: the tracked batch goes to the sinks.
LEMMA StartBatchInv ==
    ASSUME BatchedInv, StartBatch
    PROVE  BatchedInv'
<1>1. /\ pc = "tracking" /\ untracked = << >>
      /\ unit' = Range(batch)
      /\ branch' = [s \in Sinks |-> "running"]
      /\ accepted' = accepted
      /\ pc' = "deliver" /\ failure' = failure
      /\ UNCHANGED <<commitVars, streamVars, batchVars>>
  BY DEF StartBatch, StartDelivery, Goto
<1>2. CommitInv' /\ CommitTypeOK'
  BY <1>1, EpochsKept
<1>3. DeliveryTypeOK'
  <2>1. Range(batch) \in SUBSET Nat
    BY RangeOfSeq DEF BatchedInv, TypeOK, Position
  <2> QED
    BY <1>1, <2>1 DEF BatchedInv, TypeOK, DeliveryTypeOK, BranchStates
<1>4. AckedIsAccepted'
  BY <1>1 DEF BatchedInv, AckedIsAccepted, commitVars
<1>5. TypeOK'
  BY <1>1, <1>2, <1>3 DEF BatchedInv, TypeOK, streamVars, batchVars, PCs
<1>6. Control'
  <2>1. /\ Len(batch) = tracked - acked
        /\ batch # << >> /\ RunFrom(acked, batch) /\ RunFrom(tracked, untracked)
    BY <1>1, EmptySeq DEF BatchedInv, TypeOK, CommitTypeOK, Control
  <2> QED
    BY <1>1, <2>1 DEF Control, RunFrom, batchVars, commitVars
<1>7. Stream'
  BY <1>1, StreamKept DEF streamVars, batchVars, commitVars
<1> QED
  BY <1>2, <1>4, <1>5, <1>6, <1>7 DEF BatchedInv

-----------------------------------------------------------------------------
(***************************************************************************)
(* Delivery, commits and time.                                             *)
(***************************************************************************)

\* Deliver: one sink answers.
LEMMA DeliverInv ==
    ASSUME BatchedInv, NEW s \in Sinks, Deliver(s)
    PROVE  BatchedInv'
<1>1. /\ UNCHANGED <<commitVars, streamVars, batchVars, pc, failure, unit>>
      /\ pc = "deliver"
      /\ \E answer \in {"ok", "failed", "panicked"} :
            /\ branch' = [branch EXCEPT ![s] = answer]
            /\ accepted' = IF answer = "ok"
                             THEN [accepted EXCEPT ![s] = @ \cup unit] ELSE accepted
  BY DEF Deliver, SinkAccepts, SinkRefuses, SinkPanics
<1>2. PICK answer \in {"ok", "failed", "panicked"} :
            /\ branch' = [branch EXCEPT ![s] = answer]
            /\ accepted' = IF answer = "ok"
                             THEN [accepted EXCEPT ![s] = @ \cup unit] ELSE accepted
  BY <1>1
<1>3. DeliveryTypeOK /\ AckedIsAccepted
  BY DEF BatchedInv, TypeOK
<1>4. CommitInv' /\ CommitTypeOK'
  BY <1>1, EpochsKept
<1>5. DeliveryTypeOK'
  BY <1>1, <1>2, <1>3 DEF DeliveryTypeOK, BranchStates
<1>6. AckedIsAccepted'
  <2>1. ASSUME NEW t \in Sinks
        PROVE  /\ accepted[t] \subseteq accepted'[t]
               /\ branch'[t] = "ok" => unit \subseteq accepted'[t]
    BY <1>2, <1>3 DEF DeliveryTypeOK, AckedIsAccepted
  <2>2. acked' = acked /\ unit' = unit
    BY <1>1 DEF commitVars
  <2> QED
    BY <1>3, <2>1, <2>2 DEF AckedIsAccepted
<1>7. TypeOK'
  BY <1>1, <1>4, <1>5 DEF BatchedInv, TypeOK, streamVars, batchVars
<1>8. Control'
  <2>1. \A t \in Sinks : branch'[t] # "idle"
    BY <1>1, <1>2, <1>3 DEF DeliveryTypeOK, BatchedInv, Control
  <2>2. UNCHANGED <<tracked, acked, batch, untracked>>
    BY <1>1 DEF commitVars, batchVars
  <2> QED
    BY <1>1, <2>1, <2>2 DEF BatchedInv, Control, RunFrom
<1>9. Stream'
  BY <1>1, StreamKept DEF streamVars, batchVars, commitVars
<1> QED
  BY <1>4, <1>6, <1>7, <1>8, <1>9 DEF BatchedInv

\* DeliverySucceeds: every sink has accepted the batch, it is acknowledged.
LEMMA DeliverySucceedsInv ==
    ASSUME BatchedInv, DeliverySucceeds
    PROVE  BatchedInv'
<1>1. /\ AcknowledgeDelivery(Len(batch))
      /\ pc = "deliver" /\ pc' = "committing" /\ failure' = failure
      /\ batch' = << >>
      /\ unit' = {} /\ branch' = [s \in Sinks |-> "idle"] /\ accepted' = accepted
      /\ acked' = acked + Len(batch) /\ tracked' = tracked /\ stagedEpochs' = << >>
      /\ UNCHANGED <<streamVars, producer, channel, untracked>>
  BY DEF DeliverySucceeds, Goto, EndDelivery, AcknowledgeDelivery
<1>2. /\ Len(batch) = tracked - acked /\ unit = Range(batch)
      /\ batch \in Seq(Position) /\ batch # << >> /\ RunFrom(acked, batch)
      /\ untracked = << >>
      /\ acked \in Nat /\ tracked \in Nat
      /\ DeliveryTypeOK
  BY <1>1 DEF BatchedInv, Control, TypeOK, CommitTypeOK
<1>3. Len(batch) \in Nat /\ tracked = acked + Len(batch)
  BY <1>2, LenProperties
<1>4. CommitInv' /\ CommitTypeOK'
  BY <1>1, <1>3, AcknowledgeInv DEF BatchedInv, CommitInv
<1>5. \A s \in Sinks : branch[s] = "ok"
  BY <1>1, <1>2 DEF DeliverySucceeds, Drained, Failures, DeliveryTypeOK, BranchStates,
                    BatchedInv, Control
<1>6. AckedIsAccepted'
  <2>1. ASSUME NEW s \in Sinks, NEW position \in 1 .. tracked
        PROVE  position \in accepted[s]
    <3>1. 1 .. acked \subseteq accepted[s] /\ Range(batch) \subseteq accepted[s]
      BY <1>2, <1>5 DEF BatchedInv, AckedIsAccepted
    <3>2. CASE position <= acked
      BY <1>2, <3>1, <3>2
    <3>3. CASE position > acked
      <4>1. position - acked \in 1 .. Len(batch)
        BY <1>2, <1>3, <3>3
      <4>2. batch[position - acked] = position
        BY <1>2, <4>1 DEF RunFrom
      <4>3. Range(batch) = {batch[i] : i \in 1 .. Len(batch)}
        BY <1>2, RangeEquality
      <4> QED
        BY <3>1, <4>1, <4>2, <4>3
    <3> QED
      BY <1>2, <3>2, <3>3
  <2> QED
    BY <1>1, <1>3, <2>1 DEF AckedIsAccepted
<1>7. DeliveryTypeOK'
  BY <1>1, <1>2 DEF DeliveryTypeOK, BranchStates
<1>8. TypeOK'
  <2>1. batch' \in Seq(Position)
    BY <1>1, EmptySeq
  <2> QED
    BY <1>1, <1>4, <1>7, <2>1 DEF BatchedInv, TypeOK, streamVars, PCs
<1>9. Control'
  BY <1>1, <1>2, <1>3 DEF BatchedInv, Control, RunFrom
<1>10. Stream'
  BY <1>1, StreamKept DEF streamVars
<1> QED
  BY <1>4, <1>6, <1>8, <1>9, <1>10 DEF BatchedInv

\* The run returns an error: the sinks failed, or a commit did.
LEMMA RunFailsInv ==
    ASSUME BatchedInv, DeliveryFails \/ CommitErr
    PROVE  BatchedInv'
<1>1. /\ UNCHANGED <<commitVars, deliveryVars, streamVars, batchVars>>
      /\ pc \in {"deliver", "committing", "finishing"}
      /\ pc' = "failed" /\ failure' \in {"Sinks", "Commit"}
  BY DEF DeliveryFails, CommitErr, CommitFails, Fail
<1>2. CommitInv' /\ CommitTypeOK' /\ AckedIsAccepted' /\ DeliveryTypeOK'
  BY <1>1, EpochsKept, DeliveryKept DEF commitVars
<1>3. TypeOK'
  BY <1>1, <1>2 DEF BatchedInv, TypeOK, streamVars, batchVars, PCs, Errors
<1>4. Control'
  BY <1>1 DEF BatchedInv, Control, RunFrom, batchVars, commitVars
<1>5. Stream'
  BY <1>1, StreamKept DEF streamVars, batchVars, commitVars
<1> QED
  BY <1>2, <1>3, <1>4, <1>5 DEF BatchedInv

\* CommitNext and CommitOk: an epoch goes to Source::commit, and is persisted.
LEMMA CommitStepInv ==
    ASSUME BatchedInv, CommitNext \/ CommitOk
    PROVE  BatchedInv'
<1>1. /\ PopEligible \/ CommitSucceeds
      /\ UNCHANGED <<deliveryVars, streamVars, batchVars, pc, failure>>
      /\ UNCHANGED <<tracked, acked, stagedEpochs, currentEpoch>>
      /\ pc \in {"committing", "finishing"}
  BY DEF CommitNext, PopEligible, CommitOk, CommitSucceeds
<1>2. CommitInv' /\ CommitTypeOK'
  BY <1>1, PopEligibleInv, CommitSucceedsInv DEF BatchedInv, CommitInv
<1>3. AckedIsAccepted' /\ DeliveryTypeOK'
  BY <1>1, DeliveryKept
<1>4. TypeOK'
  BY <1>1, <1>2, <1>3 DEF BatchedInv, TypeOK, streamVars, batchVars
<1>5. Control'
  BY <1>1 DEF BatchedInv, Control, RunFrom, batchVars
<1>6. Stream'
  BY <1>1, StreamKept DEF streamVars, batchVars
<1> QED
  BY <1>2, <1>3, <1>4, <1>5, <1>6 DEF BatchedInv

\* CommitDone: nothing is left to commit.
LEMMA CommitDoneInv ==
    ASSUME BatchedInv, CommitDone
    PROVE  BatchedInv'
<1>1. /\ UNCHANGED <<commitVars, deliveryVars, streamVars, batchVars, failure>>
      /\ NothingEligible
      /\ \/ pc = "committing" /\ pc' = "next"
         \/ pc = "finishing" /\ pc' = "done"
  BY DEF CommitDone, Goto
<1>2. CommitInv' /\ CommitTypeOK' /\ AckedIsAccepted' /\ DeliveryTypeOK'
  BY <1>1, EpochsKept, DeliveryKept DEF commitVars
<1>3. TypeOK'
  BY <1>1, <1>2 DEF BatchedInv, TypeOK, streamVars, batchVars, PCs
<1>4. Control'
  BY <1>1 DEF BatchedInv, Control, NothingEligible, RunFrom, batchVars, commitVars
<1>5. Stream'
  BY <1>1, StreamKept DEF streamVars, batchVars, commitVars
<1> QED
  BY <1>2, <1>3, <1>4, <1>5 DEF BatchedInv

\* Tick: the policy's deadline passes.
LEMMA TickInv ==
    ASSUME BatchedInv, Tick
    PROVE  BatchedInv'
<1>1. /\ UNCHANGED <<deliveryVars, streamVars, batchVars, pc, failure>>
      /\ UNCHANGED <<currentEpoch, stagedEpochs, eligibleEpochs, currentEpochAcknowledged,
                     committing, committed, tracked, acked>>
      /\ policy' = [policy EXCEPT !.deadline = "passed"]
  BY DEF Tick, DeadlinePasses
<1>2. policy' \in Policy
  BY <1>1 DEF BatchedInv, CommitInv, CommitTypeOK, Policy, Deadlines
<1>3. CommitInv' /\ CommitTypeOK'
  BY <1>1, <1>2, SameEpochsInv DEF BatchedInv, CommitInv
<1>4. AckedIsAccepted' /\ DeliveryTypeOK'
  BY <1>1, DeliveryKept
<1>5. TypeOK'
  BY <1>1, <1>3, <1>4 DEF BatchedInv, TypeOK, streamVars, batchVars
<1>6. Control'
  BY <1>1 DEF BatchedInv, Control, NothingEligible, RunFrom, deliveryVars, batchVars
<1>7. Stream'
  BY <1>1, StreamKept DEF streamVars, batchVars
<1> QED
  BY <1>3, <1>4, <1>5, <1>6, <1>7 DEF BatchedInv

\* ChunkTick, a step after the run has returned, and a stuttering step: at
\* most the chunk's timer moves.
LEMMA StillInv ==
    ASSUME BatchedInv, ChunkTick \/ Terminated \/ UNCHANGED vars
    PROVE  BatchedInv'
<1>1. /\ UNCHANGED <<commitVars, deliveryVars, batchVars, pc, failure>>
      /\ UNCHANGED <<produced, streamEnded, chunk, errorsAt>>
      /\ chunkTimer' = chunkTimer \/ (chunkTimer = "armed" /\ chunkTimer' = "passed")
  BY DEF ChunkTick, Terminated, vars, streamVars
<1>2. CommitInv' /\ CommitTypeOK' /\ AckedIsAccepted' /\ DeliveryTypeOK'
  BY <1>1, EpochsKept, DeliveryKept DEF commitVars
<1>3. TypeOK'
  BY <1>1, <1>2 DEF BatchedInv, TypeOK, batchVars, Deadlines
<1>4. Control'
  BY <1>1 DEF BatchedInv, Control, NothingEligible, RunFrom, commitVars, deliveryVars,
              batchVars
<1>5. Stream'
  BY <1>1, StreamKept DEF batchVars, commitVars
<1> QED
  BY <1>2, <1>3, <1>4, <1>5 DEF BatchedInv

-----------------------------------------------------------------------------
\* Every step keeps the invariant.
LEMMA BatchedStepInv == BatchedInv /\ [Next]_vars => BatchedInv'
<1> SUFFICES ASSUME BatchedInv, [Next]_vars PROVE BatchedInv'
  OBVIOUS
<1>1. CASE Reserve
  BY <1>1, ReserveInv
<1>2. CASE PollRecord
  BY <1>2, PollRecordInv
<1>3. CASE PollError
  BY <1>3, PollErrorInv
<1>4. CASE PollTimeout \/ PollRest
  BY <1>4, PollChunkInv
<1>5. CASE PollEnd
  BY <1>5, PollEndInv
<1>6. CASE ReceiveBatch
  BY <1>6, ReceiveBatchInv
<1>7. CASE ChannelClosed
  BY <1>7, ChannelClosedInv
<1>8. CASE CommitTimer
  BY <1>8, CommitTimerInv
<1>9. CASE TrackRecord
  BY <1>9, TrackRecordInv
<1>10. CASE StartBatch
  BY <1>10, StartBatchInv
<1>11. CASE \E s \in Sinks : Deliver(s)
  BY <1>11, DeliverInv
<1>12. CASE DeliverySucceeds
  BY <1>12, DeliverySucceedsInv
<1>13. CASE DeliveryFails \/ CommitErr
  BY <1>13, RunFailsInv
<1>14. CASE CommitNext \/ CommitOk
  BY <1>14, CommitStepInv
<1>15. CASE CommitDone
  BY <1>15, CommitDoneInv
<1>16. CASE Tick
  BY <1>16, TickInv
<1>17. CASE ChunkTick \/ Terminated \/ UNCHANGED vars
  BY <1>17, StillInv
<1> QED
  BY <1>1, <1>2, <1>3, <1>4, <1>5, <1>6, <1>7, <1>8, <1>9, <1>10, <1>11, <1>12, <1>13,
     <1>14, <1>15, <1>16, <1>17 DEF Next

\* The inductive invariant holds in every reachable state: what the stream has
\* yielded, what the channel and the batch hold and what has been tracked
\* follow one another without a gap.
THEOREM BatchedInvariant == Spec => []BatchedInv
<1>1. Init => BatchedInv
  BY BatchedInitInv
<1>2. BatchedInv /\ [Next]_vars => BatchedInv'
  BY BatchedStepInv
<1> QED
  BY <1>1, <1>2, PTL DEF Spec

-----------------------------------------------------------------------------
(***************************************************************************)
(* What follows from it.                                                   *)
(***************************************************************************)

\* Type correctness, whatever the policy, the batch size and the prefetch.
THEOREM BatchedTypes == Spec => []TypeOK
<1>1. BatchedInv => TypeOK
  BY DEF BatchedInv
<1> QED
  BY <1>1, BatchedInvariant, PTL

\* No position reaches Source::commit before every sink has accepted the batch
\* that holds it, while later batches are materialised ahead.
THEOREM BatchesAtLeastOnce == Spec => []CommittedIsDurable
<1>1. ASSUME BatchedInv
      PROVE  CommittedIsDurable
  <2>1. \A i \in DOMAIN Handed : \A j \in DOMAIN Handed[i] : Handed[i][j] \in 1 .. acked
    BY <1>1, HandedAcknowledged DEF BatchedInv, Handed
  <2> QED
    BY <1>1, <2>1 DEF BatchedInv, AckedIsAccepted, CommittedIsDurable
<1> QED
  BY <1>1, BatchedInvariant, PTL

\* Epochs reach Source::commit in source order: chunking, the channel and the
\* tracking of a batch skip no record and repeat none.
THEOREM BatchesInSourceOrder == Spec => []CommitsInSourceOrder
<1>1. BatchedInv => CommitsInSourceOrder
  BY HandedAcknowledged DEF BatchedInv, Handed, CommitsInSourceOrder
<1> QED
  BY <1>1, BatchedInvariant, PTL

\* No record that follows an error of the stream is tracked, let alone
\* delivered or committed, however far the producer has polled.
THEOREM NothingAfterAnError == Spec => []NothingPastAnError
<1>1. ASSUME BatchedInv
      PROVE  NothingPastAnError
  <2>1. /\ untracked \in Seq(Position) /\ tracked \in Nat /\ Len(channel) \in Nat
        /\ errorsAt \subseteq Nat
    BY <1>1, BatchedAssumption, LenProperties DEF BatchedInv, TypeOK, CommitTypeOK
  <2>2. Len(untracked) \in Nat
    BY <2>1, LenProperties
  <2>3. \A position \in errorsAt : tracked + Len(untracked) <= position
    BY <1>1, <2>1 DEF BatchedInv, Stream, Reach
  <2> QED
    BY <2>1, <2>2, <2>3 DEF NothingPastAnError
<1> QED
  BY <1>1, BatchedInvariant, PTL

-----------------------------------------------------------------------------
(***************************************************************************)
(* The count of a counting policy, which acknowledges a batch at a time    *)
(* and saturates: the bookkeeping of CommitStateProofs.                    *)
(***************************************************************************)
CountedBatchedInv ==
    /\ BatchedInv
    /\ acked <= tracked
    /\ pc \in {"next", "tracking", "deliver"} => NothingEligible
    /\ Counting => CountInv

\* A step of the stream that goes on to no control point of the commit loop.
LEMMA PollKeepsEpochs ==
    ASSUME PollRecord \/ PollError \/ PollTimeout \/ PollRest
    PROVE  /\ UNCHANGED commitVars
           /\ UNCHANGED pc \/ pc = "next"
<1>1. Demanded /\ UNCHANGED commitVars
  BY DEF PollRecord, PollError, PollTimeout, PollRest
<1>2. Prefetch # 0 => UNCHANGED pc
  BY DEF PollRecord, PollError, PollTimeout, PollRest, Gather, Emit
<1> QED
  BY <1>1, <1>2 DEF Demanded

\* The end of the stream leaves the epochs alone, or finishes between two
\* batches.
LEMMA EndKeepsEpochs ==
    ASSUME PollEnd \/ ChannelClosed
    PROVE  \/ UNCHANGED <<commitVars, pc>>
           \/ pc = "next" /\ pc' = "finishing" /\ Finish
  BY DEF PollEnd, ChannelClosed, Demanded, Goto

\* The queue is empty wherever the commit loop is not under way.
LEMMA StepNothingEligible ==
    ASSUME CountedBatchedInv, [Next]_vars, pc' \in {"next", "tracking", "deliver"}
    PROVE  NothingEligible'
<1>1. CASE CommitDone
  BY <1>1 DEF CommitDone, NothingEligible, commitVars
<1>2. CASE TrackRecord \/ Tick
  BY <1>2 DEF CountedBatchedInv, TrackRecord, Track, Tick, DeadlinePasses, NothingEligible
<1>3. CASE PollRecord \/ PollError \/ PollTimeout \/ PollRest
  BY <1>3, PollKeepsEpochs DEF CountedBatchedInv, NothingEligible, commitVars
<1>4. CASE PollEnd \/ ChannelClosed
  BY <1>4, EndKeepsEpochs DEF CountedBatchedInv, NothingEligible, commitVars
<1>5. CASE Reserve \/ ReceiveBatch \/ StartBatch \/ ChunkTick \/ Terminated \/ UNCHANGED vars
           \/ \E s \in Sinks : Deliver(s)
  BY <1>5 DEF CountedBatchedInv, Reserve, ReceiveBatch, StartBatch, ChunkTick, Terminated,
              Deliver, NothingEligible, vars, commitVars
<1>6. CASE CommitTimer \/ DeliverySucceeds \/ DeliveryFails \/ CommitErr \/ CommitNext \/ CommitOk
  BY <1>6 DEF CommitTimer, DeliverySucceeds, DeliveryFails, CommitErr, CommitNext, CommitOk,
              Goto, Fail
<1> QED
  BY <1>1, <1>2, <1>3, <1>4, <1>5, <1>6 DEF Next

\* The next record of a batch is the next position.
LEMMA TracksNext ==
    ASSUME BatchedInv, TrackRecord
    PROVE  Track(tracked + 1)
<1>1. /\ untracked # << >> /\ Track(Head(untracked))
      /\ untracked \in Seq(Position) /\ RunFrom(tracked, untracked)
  BY DEF TrackRecord, BatchedInv, TypeOK, Control
<1>2. Len(untracked) \in Nat \ {0} /\ Head(untracked) = untracked[1]
  BY <1>1, EmptySeq
<1> QED
  BY <1>1, <1>2 DEF RunFrom

\* A batch is acknowledged as a whole, with everything tracked.
LEMMA AcknowledgesAll ==
    ASSUME BatchedInv, DeliverySucceeds
    PROVE  /\ Len(batch) \in Nat \ {0}
           /\ AcknowledgeDelivery(Len(batch))
           /\ tracked = acked + Len(batch)
<1>1. /\ AcknowledgeDelivery(Len(batch))
      /\ Len(batch) = tracked - acked /\ batch \in Seq(Position) /\ batch # << >>
      /\ tracked \in Nat /\ acked \in Nat
  BY DEF DeliverySucceeds, BatchedInv, TypeOK, CommitTypeOK, Control
<1> QED
  BY <1>1, EmptySeq

\* Nothing is acknowledged before it is tracked.
LEMMA StepAcked ==
    ASSUME CountedBatchedInv, [Next]_vars
    PROVE  acked' <= tracked'
<1>1. acked <= tracked /\ acked \in Nat /\ tracked \in Nat /\ BatchedInv
  BY DEF CountedBatchedInv, BatchedInv, CommitInv, CommitTypeOK
<1>2. CASE TrackRecord
  BY <1>1, <1>2, TracksNext DEF Track
<1>3. CASE DeliverySucceeds
  BY <1>1, <1>3, AcknowledgesAll DEF AcknowledgeDelivery
<1>4. CASE PollEnd \/ ChannelClosed
  BY <1>1, <1>4, EndKeepsEpochs DEF Finish, commitVars
<1>5. CASE CommitTimer \/ CommitNext \/ CommitOk \/ Tick
  BY <1>1, <1>5 DEF CommitTimer, HandleTimeout, CommitNext, PopEligible, CommitOk,
                    CommitSucceeds, Tick, DeadlinePasses
<1>6. CASE UNCHANGED commitVars
  BY <1>1, <1>6 DEF commitVars
<1> QED
  BY <1>2, <1>3, <1>4, <1>5, <1>6
     DEF Next, vars, Reserve, PollRecord, PollError, PollTimeout, PollRest, ReceiveBatch,
         StartBatch, Deliver, DeliveryFails, CommitErr, CommitFails, CommitDone, ChunkTick,
         Terminated

\* Every step keeps the bookkeeping.
LEMMA StepCount ==
    ASSUME CountedBatchedInv, Counting, [Next]_vars
    PROVE  CountInv'
<1>1. CommitInv /\ CountInv /\ acked \in Nat /\ tracked \in Nat
  BY DEF CountedBatchedInv, BatchedInv, CommitInv, CommitTypeOK
<1>2. pc \in {"next", "tracking", "deliver"} => NothingEligible
  BY DEF CountedBatchedInv
<1>3. pc = "next" => tracked = acked
  BY DEF CountedBatchedInv, BatchedInv, Control
<1>4. CASE PollEnd \/ ChannelClosed
  BY <1>1, <1>2, <1>3, <1>4, EndKeepsEpochs, FinishCount, CountKept
<1>5. CASE CommitTimer
  BY <1>1, <1>2, <1>3, <1>5, TimeoutCount DEF CommitTimer
<1>6. CASE TrackRecord
  <2>1. pc = "tracking" /\ acked <= tracked /\ Track(tracked + 1)
    BY <1>6, TracksNext DEF TrackRecord, CountedBatchedInv
  <2> QED
    BY <1>1, <1>2, <2>1, TrackCount
<1>7. CASE DeliverySucceeds
  <2>1. pc = "deliver" /\ BatchedInv
    BY <1>7 DEF DeliverySucceeds, CountedBatchedInv
  <2> QED
    BY <1>1, <1>2, <1>7, <2>1, AcknowledgesAll, AcknowledgeCount
<1>8. CASE CommitNext
  BY <1>1, <1>8, PopCount DEF CommitNext
<1>9. CASE CommitOk
  BY <1>1, <1>9, CommitSucceedsCount DEF CommitOk
<1>10. CASE Tick
  BY <1>1, <1>10, DeadlinePassesCount DEF Tick
<1>11. CASE PollRecord \/ PollError \/ PollTimeout \/ PollRest
  BY <1>1, <1>11, PollKeepsEpochs, CountKept
<1>12. CASE UNCHANGED commitVars
  BY <1>1, <1>12, CountKept
<1> QED
  BY <1>4, <1>5, <1>6, <1>7, <1>8, <1>9, <1>10, <1>11, <1>12
     DEF Next, vars, Reserve, ReceiveBatch, StartBatch, Deliver, DeliveryFails, CommitErr,
         CommitFails, CommitDone, ChunkTick, Terminated

\* Between two batches fewer than Threshold acknowledged records are not
\* committed, even where the count of the policy saturates.
THEOREM BacklogBelowThreshold == Spec => []CountBoundsBacklog
<1>1. ASSUME Init
      PROVE  CountedBatchedInv
  <2>1. BatchedInv /\ (Counting => CountInv)
    BY <1>1, BatchedInitInv, CountInit DEF Init
  <2>2. NothingEligible /\ acked <= tracked
    BY <1>1 DEF Init, CommitInit, NothingEligible
  <2> QED
    BY <2>1, <2>2 DEF CountedBatchedInv
<1>2. CountedBatchedInv /\ [Next]_vars => CountedBatchedInv'
  BY BatchedStepInv, StepAcked, StepNothingEligible, StepCount DEF CountedBatchedInv, Counting
<1>3. CountedBatchedInv => CountBoundsBacklog
  BY CountExact DEF CountedBatchedInv, Counting, Counted, CountBoundsBacklog
<1> QED
  BY <1>1, <1>2, <1>3, PTL DEF Spec

-----------------------------------------------------------------------------
(***************************************************************************)
(* Back-pressure: how far the stream is polled ahead of the consumer.  The *)
(* bound is stated for every place of the channel, so that no step has to  *)
(* add up the sizes of all the batches.                                    *)
(***************************************************************************)

\* What the stream has yielded beyond the k-th batch of the channel fits into
\* the batches behind it and the chunk.
Fits(k) == produced <= Reach(k) + (Len(channel) - k) * BatchSize + Len(chunk)

Ahead ==
    /\ Prefetch # 0 =>
          /\ Len(channel) <= Prefetch
          /\ producer = "polling" => Len(channel) < Prefetch
          /\ chunk # << >> => producer = "polling"
    /\ Prefetch = 0 /\ pc \in {"tracking", "deliver"} => chunk = << >>
    /\ pc # "failed" =>
          \A k \in 0 .. Len(channel) : k = 0 \/ channel[k] # <<Bad>> => Fits(k)

AheadInv == BatchedInv /\ Ahead

\* The sizes of the numbers that Fits relates.
LEMMA AheadTypes ==
    ASSUME BatchedInv
    PROVE  /\ produced \in Nat /\ Len(channel) \in Nat /\ Len(chunk) \in Nat
           /\ BatchSize \in Nat /\ Prefetch \in Nat /\ Len(chunk) < BatchSize
           /\ \A k \in 0 .. Len(channel) : Reach(k) \in Nat
           /\ \A n \in Nat : /\ n * BatchSize \in Nat
                             /\ (n + 1) * BatchSize = n * BatchSize + BatchSize
<1>1. BatchSize \in Nat /\ Prefetch \in Nat
  BY BatchedAssumption, PolicyAssumption
<1>2. \A n \in Nat : n * BatchSize \in Nat
  BY <1>1
<1>3. \A n \in Nat : (n + 1) * BatchSize = n * BatchSize + BatchSize
  BY <1>1
<1>4. /\ produced \in Nat /\ Len(channel) \in Nat /\ Len(chunk) \in Nat
      /\ Len(chunk) < BatchSize
  BY LenProperties DEF BatchedInv, TypeOK
<1> QED
  BY <1>1, <1>2, <1>3, <1>4, ReachType

\* Places in the channel: more of them hold no fewer records.
LEMMA MorePlaces ==
    ASSUME NEW m \in Nat, NEW n \in Nat, m <= n
    PROVE  m * BatchSize <= n * BatchSize
<1>1. BatchSize \in Nat
  BY BatchedAssumption, PolicyAssumption
<1>2. PICK d \in Nat : n = m + d
  <2>1. n - m \in Nat /\ n = m + (n - m)
    OBVIOUS
  <2> QED
    BY <2>1
<1>3. n * BatchSize = m * BatchSize + d * BatchSize
  BY <1>1, <1>2
<1>4. m * BatchSize \in Nat /\ d * BatchSize \in Nat
  BY <1>1
<1> QED
  BY <1>3, <1>4

\* A step that moves nothing between the stream and the sinks.
LEMMA AheadKept ==
    ASSUME AheadInv,
           UNCHANGED <<produced, chunk, producer, channel>>,
           tracked' + Len(untracked') = tracked + Len(untracked),
           pc = "failed" => pc' = "failed",
           Prefetch = 0 /\ pc' \in {"tracking", "deliver"} => pc \in {"tracking", "deliver"}
    PROVE  Ahead'
<1>1. \A k \in 0 .. Len(channel) : Reach(k)' = Reach(k)
  BY DEF Reach
<1>2. \A k \in 0 .. Len(channel) : Fits(k) => Fits(k)'
  BY <1>1 DEF Fits
<1> QED
  BY <1>2 DEF AheadInv, Ahead

\* The chunk is emitted: without prefetch the consumer has all there is, with
\* prefetch the batch takes the place the producer has reserved.
LEMMA AheadEmits ==
    ASSUME AheadInv, Demanded, NEW items, EmitFrame(items),
           Len(items) <= BatchSize,
           produced' <= produced + (Len(items) - Len(chunk))
    PROVE  Ahead'
<1> DEFINE made == TryFromChunk(items)
<1>1. PICK m \in Nat : m = Len(channel)
  BY AheadTypes DEF AheadInv
<1>2. /\ produced \in Nat /\ Len(chunk) \in Nat /\ BatchSize \in Nat /\ Prefetch \in Nat
      /\ \A k \in 0 .. m : Reach(k) \in Nat
      /\ \A n \in Nat : n * BatchSize \in Nat
      /\ \A n \in Nat : (n + 1) * BatchSize = n * BatchSize + BatchSize
  BY <1>1, AheadTypes DEF AheadInv
<1>3. /\ chunk' = << >> /\ Len(chunk') = 0
      /\ produced' \in Nat /\ Len(items) \in Nat /\ items \in Seq(Item)
      /\ UNCHANGED commitVars
  BY EmptySeq, LenProperties, BatchedAssumption DEF EmitFrame, Emit
<1>4. CASE Prefetch = 0
  <2>1. /\ Receive(made) /\ UNCHANGED channel
        /\ channel = << >> /\ m = 0 /\ untracked = << >>
    BY <1>1, <1>4, DemandedFacts, EmptySeq DEF AheadInv, EmitFrame, Emit
  <2>2. CASE made = <<Bad>>
    <3>1. pc' = "failed"
      BY <2>1, <2>2 DEF Receive, Fail
    <3> QED
      BY <1>3, <1>4, <3>1 DEF Ahead
  <2>3. CASE made # <<Bad>>
    <3>1. /\ made = items /\ Len(items) \in Nat
          /\ produced' = Reach(0) + Len(items)
      BY <1>1, <2>1, <2>3, MadeBatch DEF AheadInv
    <3>2. /\ untracked' = items /\ pc' = "tracking" /\ tracked' = tracked
          /\ Len(channel') = 0 /\ Reach(0) = tracked /\ tracked \in Nat
      BY <1>3, <2>1, <2>3, <3>1, EmptySeq
         DEF Receive, Goto, commitVars, Reach, AheadInv, BatchedInv, CommitInv, CommitTypeOK
    <3>3. Fits(0)'
      BY <1>2, <1>3, <3>1, <3>2 DEF Fits, Reach
    <3> QED
      BY <1>3, <1>4, <3>2, <3>3 DEF Ahead
  <2> QED
    BY <2>2, <2>3
<1>5. CASE Prefetch # 0
  <2>1. /\ channel' = Append(channel, made)
        /\ producer' # "polling"
        /\ UNCHANGED <<untracked, pc>>
        /\ Polled /\ producer = "polling" /\ m < Prefetch
        /\ channel \in Seq(Seq(Item))
    BY <1>1, <1>5, DemandedFacts
       DEF AheadInv, Ahead, BatchedInv, TypeOK, EmitFrame, Emit
  <2>2. made \in Seq(Item)
    <3>1. made = <<Bad>> \/ made = items
      BY MadeBatch DEF AheadInv
    <3>2. <<Bad>> \in Seq(Item)
      BY DEF Bad, Item
    <3> QED
      BY <1>3, <3>1, <3>2
  <2>3. /\ Len(channel') = m + 1
        /\ \A k \in 1 .. m : channel'[k] = channel[k]
        /\ channel'[m + 1] = made
    BY <1>1, <2>1, <2>2, AppendProperties
  <2>4. \A k \in 0 .. m : Reach(k)' = Reach(k)
    BY <1>3, <2>1, <2>3 DEF Reach, commitVars
  <2> HIDE DEF made
  <2>5. ASSUME NEW k \in 0 .. m, k = 0 \/ channel'[k] # <<Bad>>
        PROVE  Fits(k)'
    <3>1. k = 0 \/ channel[k] # <<Bad>>
      BY <2>3, <2>5
    <3>2. produced <= Reach(k) + (m - k) * BatchSize + Len(chunk)
      BY <1>1, <2>1, <3>1 DEF AheadInv, Ahead, Fits, Polled
    <3>3. m - k \in Nat /\ (m + 1) - k = (m - k) + 1
      BY <1>1
    <3>4. /\ (m - k) * BatchSize \in Nat
          /\ ((m + 1) - k) * BatchSize = (m - k) * BatchSize + BatchSize
      BY <1>2, <3>3
    <3>5. produced' <= Reach(k) + ((m + 1) - k) * BatchSize
      <4> DEFINE a == (m - k) * BatchSize
                 b == ((m + 1) - k) * BatchSize
                 r == Reach(k)
      <4>1. a \in Nat /\ b = a + BatchSize /\ r \in Nat
        BY <1>2, <3>4
      <4>2. produced <= r + a + Len(chunk)
        BY <3>2
      <4> HIDE DEF a, b, r
      <4>3. produced' <= r + b
        BY <1>2, <1>3, <4>1, <4>2
      <4> QED
        BY <4>3 DEF b, r
    <3>6. /\ Reach(k) + ((m + 1) - k) * BatchSize \in Nat
          /\ Reach(k)' = Reach(k) /\ Len(channel') = m + 1 /\ Len(chunk') = 0
      BY <1>2, <1>3, <2>3, <2>4, <3>4
    <3>7. produced' <= Reach(k)' + (Len(channel') - k) * BatchSize + Len(chunk')
      BY <3>5, <3>6
    <3> QED
      BY <3>7 DEF Fits
  <2>6. made # <<Bad>> => Fits(m + 1)'
    <3> SUFFICES ASSUME made # <<Bad>> PROVE Fits(m + 1)'
      OBVIOUS
    <3>1. made = items /\ items[Len(items)] = produced'
      BY MadeBatch DEF AheadInv, made
    <3>2. Reach(m + 1)' = produced'
      BY <1>1, <2>3, <3>1 DEF Reach
    <3>3. (m + 1) - (m + 1) = 0 /\ 0 * BatchSize = 0
      BY <1>1, <1>2
    <3> QED
      BY <1>3, <2>3, <3>2, <3>3 DEF Fits
  <2>7. \A k \in 0 .. m + 1 : k = 0 \/ channel'[k] # <<Bad>> => Fits(k)'
    BY <1>1, <2>3, <2>5, <2>6
  <2> QED
    BY <1>1, <1>2, <1>3, <1>5, <2>1, <2>3, <2>7 DEF Ahead
<1> QED
  BY <1>4, <1>5

\* An item joins the chunk, which it may fill.
LEMMA AheadGathers ==
    ASSUME AheadInv, Demanded, NEW item \in Item, Gather(item),
           InStream(Reach(Len(channel)), Append(chunk, item), produced', errorsAt'),
           produced' \in 0 .. MaxRecords, produced' \in {produced, produced + 1},
           errorsAt' \subseteq 0 .. MaxRecords,
           errorsAt' \subseteq errorsAt \cup {produced'},
           UNCHANGED <<commitVars, deliveryVars, streamEnded>>
    PROVE  Ahead'
<1> DEFINE items == Append(chunk, item)
<1>1. /\ chunk \in Seq(Item) /\ Len(chunk) \in Nat /\ Len(chunk) < BatchSize
      /\ BatchSize \in Nat /\ produced \in Nat /\ Len(channel) \in Nat
      /\ items \in Seq(Item) /\ items # << >> /\ Len(items) = Len(chunk) + 1
  <2>1. /\ chunk \in Seq(Item) /\ Len(chunk) \in Nat /\ Len(chunk) < BatchSize
        /\ BatchSize \in Nat /\ produced \in Nat /\ Len(channel) \in Nat
    BY AheadTypes DEF AheadInv, BatchedInv, TypeOK
  <2>2. items \in Seq(Item) /\ items # << >> /\ Len(items) = Len(chunk) + 1
    BY <2>1, AppendProperties
  <2> QED
    BY <2>1, <2>2
<1>2. produced <= produced' /\ produced' <= produced + (Len(items) - Len(chunk))
  BY <1>1
<1>3. CASE Len(items) = BatchSize
  <2>1. EmitFrame(items)
    BY <1>1, <1>2, <1>3 DEF EmitFrame, Gather, AheadInv, BatchedInv, TypeOK
  <2>2. Len(items) <= BatchSize
    BY <1>1, <1>3
  <2> HIDE DEF items
  <2> QED
    BY <1>2, <2>1, <2>2, AheadEmits
<1>4. CASE Len(items) # BatchSize
  <2>1. chunk' = items /\ UNCHANGED <<batchVars, pc, tracked>>
    BY <1>4 DEF Gather, commitVars
  <2>2. ASSUME NEW k \in 0 .. Len(channel), Fits(k)
        PROVE  Fits(k)'
    <3> DEFINE places == Reach(k) + (Len(channel) - k) * BatchSize
    <3>1. Len(channel) - k \in Nat
      BY <1>1
    <3>2. places \in Nat
      BY <1>1, <3>1, AheadTypes DEF AheadInv
    <3>3. produced <= places + Len(chunk)
      BY <2>2 DEF Fits
    <3> HIDE DEF places
    <3>4. produced' <= places + Len(chunk')
      BY <1>1, <1>2, <2>1, <3>2, <3>3
    <3>5. places = Reach(k)' + (Len(channel') - k) * BatchSize
      BY <2>1 DEF Reach, batchVars, places
    <3> QED
      BY <3>4, <3>5 DEF Fits
  <2>3. Prefetch = 0 => pc = "next"
    BY DEF Demanded
  <2>4. Prefetch # 0 => producer = "polling"
    BY DEF Demanded
  <2> QED
    BY <2>1, <2>2, <2>3, <2>4 DEF AheadInv, Ahead, batchVars
<1> QED
  BY <1>3, <1>4

\* A poll: the items of the stream, the chunk's timeout, the end.
LEMMA AheadPolls ==
    ASSUME AheadInv, PollRecord \/ PollError \/ PollTimeout \/ PollRest \/ PollEnd
    PROVE  Ahead'
<1>1. /\ produced \in 0 .. MaxRecords /\ errorsAt \subseteq 0 .. MaxRecords
      /\ MaxRecords \in Nat /\ BatchedInv /\ chunk \in Seq(Item)
      /\ Len(chunk) \in Nat /\ BatchSize \in Nat /\ Len(chunk) < BatchSize
  BY BatchedAssumption, AheadTypes DEF AheadInv, BatchedInv, TypeOK
<1>2. CASE PollRecord
  <2>1. /\ Demanded /\ Gather(produced + 1)
        /\ produced' = produced + 1 /\ produced < MaxRecords
        /\ UNCHANGED <<commitVars, deliveryVars, streamEnded, errorsAt>>
    BY <1>2 DEF PollRecord
  <2>2. InStream(Reach(Len(channel)), Append(chunk, produced + 1), produced', errorsAt')
    BY <1>1, <2>1, DemandedFacts, RecordInStream
  <2>3. produced + 1 \in Item /\ produced' \in 0 .. MaxRecords
    BY <1>1, <2>1 DEF Item
  <2> QED
    BY <1>1, <2>1, <2>2, <2>3, AheadGathers
<1>3. CASE PollError
  <2>1. /\ Demanded /\ Gather(Bad)
        /\ errorsAt' = errorsAt \cup {produced} /\ produced' = produced
        /\ UNCHANGED <<commitVars, deliveryVars, streamEnded>>
    BY <1>3 DEF PollError
  <2>2. InStream(Reach(Len(channel)), Append(chunk, Bad), produced', errorsAt')
    BY <1>1, <2>1, DemandedFacts, ErrorInStream
  <2>3. Bad \in Item
    BY DEF Bad, Item
  <2> QED
    BY <1>1, <2>1, <2>2, <2>3, AheadGathers
<1>4. CASE PollTimeout \/ PollRest
  <2>1. /\ Demanded /\ Emit(chunk)
        /\ UNCHANGED <<commitVars, deliveryVars, produced, errorsAt>>
        /\ streamEnded' \in BOOLEAN
        /\ chunk # << >>
    BY <1>1, <1>4 DEF PollTimeout, PollRest, BatchedInv, TypeOK
  <2>2. EmitFrame(chunk)
    BY <1>1, <2>1, DemandedFacts DEF EmitFrame
  <2> QED
    BY <1>1, <2>1, <2>2, AheadEmits
<1>5. CASE PollEnd
  <2>1. /\ UNCHANGED <<produced, chunk, channel, untracked, tracked>>
        /\ chunk = << >> /\ producer' \in {producer, "returned"}
        /\ pc # "failed"
    BY <1>5 DEF PollEnd, Finish, commitVars, Demanded, Polled
  <2>2. \A k \in 0 .. Len(channel) : Fits(k) => Fits(k)'
    BY <2>1 DEF Fits, Reach
  <2> QED
    BY <2>1, <2>2 DEF AheadInv, Ahead
<1> QED
  BY <1>2, <1>3, <1>4, <1>5

\* The oldest batch leaves the channel for the consumer.
LEMMA AheadReceives ==
    ASSUME AheadInv, ReceiveBatch
    PROVE  Ahead'
<1>1. /\ pc = "next" /\ channel # << >> /\ channel' = Tail(channel)
      /\ Receive(Head(channel))
      /\ UNCHANGED <<produced, chunk, producer, tracked>>
      /\ channel \in Seq(Seq(Item)) /\ untracked = << >> /\ Prefetch # 0
      /\ tracked \in Nat /\ Prefetch \in Nat
  BY AheadTypes
     DEF ReceiveBatch, AheadInv, BatchedInv, TypeOK, CommitTypeOK, Stream, Control,
         streamVars, commitVars
<1>2. PICK m \in Nat : m = Len(channel) - 1
  <2>1. Len(channel) \in Nat \ {0}
    BY <1>1, EmptySeq
  <2>2. Len(channel) - 1 \in Nat
    BY <2>1
  <2> QED
    BY <2>2
<1>3. /\ Len(channel) = m + 1 /\ Len(channel') = m
      /\ \A k \in 1 .. m : channel'[k] = channel[k + 1]
      /\ Head(channel) = channel[1]
  BY <1>1, <1>2, HeadTailProperties
<1>4. m <= Prefetch /\ (producer = "polling" => m < Prefetch)
  BY <1>1, <1>3 DEF AheadInv, Ahead
<1>5. CASE Head(channel) = <<Bad>>
  <2>1. pc' = "failed"
    BY <1>1, <1>5 DEF Receive, Fail
  <2> QED
    BY <1>1, <1>3, <1>4, <2>1 DEF AheadInv, Ahead
<1>6. CASE Head(channel) # <<Bad>>
  <2>1. untracked' = channel[1] /\ channel[1] \in Seq(Item)
    <3>1. 1 \in 1 .. Len(channel)
      BY <1>2, <1>3
    <3> QED
      BY <1>1, <1>3, <1>6, <3>1, ElementOfSeq DEF Receive
  <2>2. Reach(0)' = Reach(1)
    <3>1. 1 \in 1 .. Len(channel) /\ 1 - 1 = 0 /\ Reach(0) = tracked
      BY <1>1, <1>2, <1>3, EmptySeq DEF Reach
    <3>2. channel[1] # << >> /\ RunFrom(tracked, channel[1])
      BY <1>3, <1>6, <3>1 DEF AheadInv, BatchedInv, Stream, ChannelInOrder
    <3>3. channel[1][Len(channel[1])] = tracked + Len(channel[1])
      BY <1>1, <2>1, <3>2, RunIsPositions
    <3> QED
      BY <1>1, <2>1, <3>3 DEF Reach
  <2>3. ASSUME NEW k \in 0 .. m, k = 0 \/ channel'[k] # <<Bad>>
        PROVE  Fits(k)'
    <3>1. Reach(k)' = Reach(k + 1)
      BY <1>3, <2>2 DEF Reach
    <3>2. k + 1 \in 0 .. Len(channel) /\ channel[k + 1] # <<Bad>>
      BY <1>3, <1>6, <2>3
    <3>3. Fits(k + 1)
      BY <1>1, <3>2 DEF AheadInv, Ahead
    <3>4. Len(channel) - (k + 1) = Len(channel') - k
      BY <1>3
    <3> QED
      BY <1>1, <3>1, <3>3, <3>4 DEF Fits
  <2> QED
    BY <1>1, <1>3, <1>4, <2>3 DEF AheadInv, Ahead
<1> QED
  BY <1>5, <1>6

\* Every step keeps what is materialised ahead within the channel.
LEMMA AheadStep ==
    ASSUME AheadInv, [Next]_vars
    PROVE  Ahead'
<1>1. CASE PollRecord \/ PollError \/ PollTimeout \/ PollRest \/ PollEnd
  BY <1>1, AheadPolls
<1>2. CASE ReceiveBatch
  BY <1>2, AheadReceives
<1>3. CASE Reserve
  <2>1. /\ UNCHANGED <<produced, chunk, channel, untracked, tracked, pc>>
        /\ Len(channel) < Prefetch
    BY <1>3 DEF Reserve, streamVars, commitVars
  <2>2. \A k \in 0 .. Len(channel) : Fits(k) => Fits(k)'
    BY <2>1 DEF Fits, Reach
  <2>3. producer' = "polling"
    BY <1>3 DEF Reserve
  <2> QED
    BY <2>1, <2>2, <2>3, AheadTypes DEF AheadInv, Ahead
<1>4. CASE TrackRecord
  <2>1. /\ tracked' = tracked + 1 /\ tracked \in Nat
        /\ untracked' = Tail(untracked) /\ untracked # << >> /\ untracked \in Seq(Position)
        /\ UNCHANGED <<produced, chunk, producer, channel, pc>>
    BY <1>4, TracksNext
       DEF TrackRecord, Track, AheadInv, BatchedInv, TypeOK, CommitTypeOK, streamVars
  <2>2. tracked' + Len(untracked') = tracked + Len(untracked)
    <3>1. Len(untracked) \in Nat \ {0} /\ Len(untracked') = Len(untracked) - 1
      BY <2>1, EmptySeq, HeadTailProperties
    <3> QED
      BY <2>1, <3>1
  <2> QED
    BY <2>1, <2>2, AheadKept
<1>5. CASE ChannelClosed \/ CommitTimer \/ DeliverySucceeds \/ CommitNext \/ CommitOk
  <2>1. /\ UNCHANGED <<produced, chunk, producer, channel, untracked, tracked>>
        /\ pc # "failed" /\ (pc' = pc \/ pc' \notin {"tracking", "deliver"})
    BY <1>5 DEF ChannelClosed, Finish, CommitTimer, HandleTimeout, DeliverySucceeds,
                AcknowledgeDelivery, CommitNext, PopEligible, CommitOk, CommitSucceeds, Goto,
                streamVars, batchVars
  <2> QED
    BY <2>1, AheadKept
<1>6. CASE StartBatch \/ DeliveryFails \/ CommitErr \/ CommitDone
           \/ \E s \in Sinks : Deliver(s)
  <2>1. /\ UNCHANGED <<produced, chunk, producer, channel, untracked, tracked>>
        /\ pc # "failed"
        /\ pc' \in {"tracking", "deliver"} => pc \in {"tracking", "deliver"}
    BY <1>6 DEF StartBatch, DeliveryFails, CommitErr, CommitFails, CommitDone, Deliver, Goto,
                Fail, streamVars, batchVars, commitVars
  <2> QED
    BY <2>1, AheadKept
<1>7. CASE Tick \/ ChunkTick \/ Terminated \/ UNCHANGED vars
  <2>1. UNCHANGED <<produced, chunk, producer, channel, untracked, tracked, pc>>
    BY <1>7 DEF Tick, DeadlinePasses, ChunkTick, Terminated, vars, streamVars, batchVars,
                commitVars
  <2> QED
    BY <2>1, AheadKept
<1> QED
  BY <1>1, <1>2, <1>3, <1>4, <1>5, <1>6, <1>7 DEF Next

\* While a batch is delivered, at most Prefetch batches are materialised
\* behind it, and without prefetch the stream has not been polled any further.
THEOREM PrefetchIsBounded == Spec => []Backpressure
<1>1. ASSUME Init
      PROVE  AheadInv
  <2>1. BatchedInv
    BY <1>1, BatchedInitInv
  <2>2. /\ Len(channel) = 0 /\ Len(chunk) = 0 /\ Len(untracked) = 0 /\ chunk = << >>
        /\ produced = 0 /\ tracked = 0 /\ producer # "polling"
    BY <1>1, EmptySeq DEF Init, CommitInit
  <2>3. BatchSize \in Nat /\ Prefetch \in Nat
    BY BatchedAssumption, PolicyAssumption
  <2>4. Fits(0)
    BY <2>2, <2>3 DEF Fits, Reach
  <2> QED
    BY <2>1, <2>2, <2>3, <2>4 DEF AheadInv, Ahead
<1>2. AheadInv /\ [Next]_vars => AheadInv'
  BY BatchedStepInv, AheadStep DEF AheadInv
<1>3. ASSUME AheadInv, pc = "deliver"
      PROVE  produced - tracked <= Prefetch * BatchSize
  <2>1. PICK m \in Nat : m = Len(channel)
    BY <1>3, AheadTypes DEF AheadInv
  <2>2. /\ untracked = << >> /\ Len(untracked) = 0
        /\ tracked \in Nat /\ produced \in Nat /\ Len(chunk) \in Nat
        /\ BatchSize \in Nat /\ Prefetch \in Nat /\ Len(chunk) < BatchSize
    BY <1>3, AheadTypes, EmptySeq DEF AheadInv, BatchedInv, Control, TypeOK, CommitTypeOK
  <2>3. produced <= tracked + m * BatchSize + Len(chunk)
    <3>1. Fits(0) /\ Reach(0) = tracked
      BY <1>3, <2>1, <2>2 DEF AheadInv, Ahead, Reach
    <3> QED
      BY <2>1, <3>1 DEF Fits
  <2>4. m * BatchSize + Len(chunk) <= Prefetch * BatchSize
    <3>1. CASE chunk = << >>
      <4>1. m <= Prefetch
        BY <1>3, <2>1, <2>2, EmptySeq DEF AheadInv, Ahead, BatchedInv, Stream
      <4>2. m * BatchSize <= Prefetch * BatchSize /\ Len(chunk) = 0
        BY <2>2, <3>1, <4>1, MorePlaces, EmptySeq
      <4> QED
        BY <2>2, <4>2
    <3>2. CASE chunk # << >>
      <4>1. m + 1 <= Prefetch
        BY <1>3, <2>1, <2>2, <3>2 DEF AheadInv, Ahead
      <4>2. (m + 1) * BatchSize <= Prefetch * BatchSize
        BY <2>2, <4>1, MorePlaces
      <4>3. (m + 1) * BatchSize = m * BatchSize + BatchSize /\ m * BatchSize \in Nat
        BY <1>3, AheadTypes DEF AheadInv
      <4>4. Prefetch * BatchSize \in Nat
        BY <2>2
      <4> QED
        BY <2>2, <4>2, <4>3, <4>4
    <3> QED
      BY <3>1, <3>2
  <2>5. m * BatchSize \in Nat /\ Prefetch * BatchSize \in Nat
    BY <2>2
  <2> QED
    BY <2>2, <2>3, <2>4, <2>5
<1>4. AheadInv => Backpressure
  BY <1>3 DEF Backpressure
<1> QED
  BY <1>1, <1>2, <1>4, PTL DEF Spec

-----------------------------------------------------------------------------
(***************************************************************************)
(* The runner implements AckedProgress.                                    *)
(***************************************************************************)

Outcome == CASE pc = "done"   -> "ok"
             [] pc = "failed" -> "error"
             [] OTHER         -> "running"

\* A step that changes neither the acknowledged nor the committed progress,
\* nor whether the run has returned, is a stutter.
LEMMA PromiseStutter ==
    ASSUME UNCHANGED <<acked, committed>>, Outcome' = Outcome
    PROVE  UNCHANGED Promise!vars
<1>1. CommittedThrough' = CommittedThrough
  BY DEF CommittedThrough, ThroughOf, LastOf
<1> QED
  BY <1>1 DEF Promise!vars, Outcome

\* A run that returns an error fails in the abstract too.
LEMMA PromiseFails ==
    ASSUME UNCHANGED <<acked, committed>>, pc \notin {"done", "failed"}, pc' = "failed"
    PROVE  Promise!Next
<1>1. CommittedThrough' = CommittedThrough
  BY DEF CommittedThrough, ThroughOf, LastOf
<1> QED
  BY <1>1 DEF Promise!Next, Promise!Fail

\* A batch goes to the consumer, or the error that ends the run does.
LEMMA PromiseReceives ==
    ASSUME NEW received, Receive(received), UNCHANGED <<acked, committed>>,
           pc \notin {"done", "failed"}
    PROVE  [Promise!Next]_(Promise!vars)
<1>1. CASE pc' = "failed"
  BY <1>1, PromiseFails
<1>2. CASE pc' = "tracking"
  BY <1>2, PromiseStutter DEF Outcome
<1> QED
  BY <1>1, <1>2 DEF Receive, Fail, Goto

\* A poll gives the consumer a batch, or leaves it where it is.
LEMMA PromisePolls ==
    ASSUME Demanded, UNCHANGED <<acked, committed>>,
           \/ UNCHANGED pc
           \/ \E received : Receive(received)
    PROVE  [Promise!Next]_(Promise!vars)
<1>1. pc \notin {"done", "failed"}
  BY DEF Demanded, Polled
<1>2. CASE UNCHANGED pc
  BY <1>2, PromiseStutter DEF Outcome
<1> QED
  BY <1>1, <1>2, PromiseReceives

\* Init and every step of the runner are allowed by AckedProgress, through the
\* mapping acked -> delivered, CommittedThrough -> persisted: a batch moves the
\* delivered progress by all its records at once.
THEOREM BatchedRefinement == Spec => ImplementsPromise
<1>1. Init => Promise!Init
  BY DEF Init, CommitInit, Promise!Init, CommittedThrough, ThroughOf
<1>2. ASSUME BatchedInv, [Next]_vars
      PROVE  [Promise!Next]_(Promise!vars)
  <2>1. CASE Reserve \/ ChunkTick \/ Tick \/ TrackRecord \/ \E s \in Sinks : Deliver(s)
    BY <2>1, PromiseStutter
       DEF Reserve, ChunkTick, Tick, DeadlinePasses, TrackRecord, Track, Deliver, commitVars,
           Outcome
  <2>2. CASE PollRecord \/ PollError \/ PollTimeout \/ PollRest
    <3>1. Demanded /\ UNCHANGED commitVars
      BY <2>2 DEF PollRecord, PollError, PollTimeout, PollRest
    <3>2. UNCHANGED pc \/ \E received : Receive(received)
      BY <2>2 DEF PollRecord, PollError, PollTimeout, PollRest, Gather, Emit
    <3> QED
      BY <3>1, <3>2, PromisePolls DEF commitVars
  <2>3. CASE PollEnd
    <3>1. UNCHANGED <<acked, committed>>
      BY <2>3 DEF PollEnd, Finish, commitVars
    <3>2. pc' = pc \/ (pc = "next" /\ pc' = "finishing")
      BY <2>3 DEF PollEnd, Goto, Demanded
    <3> QED
      BY <3>1, <3>2, PromiseStutter DEF Outcome
  <2>4. CASE ReceiveBatch
    BY <2>4, PromiseReceives DEF ReceiveBatch, commitVars
  <2>5. CASE ChannelClosed
    BY <2>5, PromiseStutter DEF ChannelClosed, Finish, Goto, Outcome
  <2>6. CASE CommitTimer
    BY <2>6, PromiseStutter DEF CommitTimer, HandleTimeout, Goto, Outcome
  <2>7. CASE StartBatch
    BY <2>7, PromiseStutter DEF StartBatch, Goto, Outcome, commitVars
  <2>8. CASE DeliverySucceeds
    <3>1. /\ acked' = acked + Len(batch) /\ committed' = committed /\ acked \in Nat
          /\ pc = "deliver" /\ pc' = "committing"
      BY <1>2, <2>8 DEF DeliverySucceeds, AcknowledgeDelivery, Goto, BatchedInv, TypeOK,
                        CommitTypeOK
    <3>2. Len(batch) \in Nat \ {0}
      BY <1>2, <3>1, EmptySeq DEF BatchedInv, TypeOK, Control
    <3>3. CommittedThrough' = CommittedThrough
      BY <3>1 DEF CommittedThrough, ThroughOf, LastOf
    <3> QED
      BY <3>1, <3>2, <3>3 DEF Promise!Next, Promise!Deliver
  <2>9. CASE DeliveryFails \/ CommitErr
    BY <2>9, PromiseFails DEF DeliveryFails, CommitErr, CommitFails, Fail, commitVars
  <2>10. CASE CommitNext
    BY <2>10, PromiseStutter DEF CommitNext, PopEligible, Outcome
  <2>11. CASE CommitOk
    <3>1. CommittedThrough' \in (CommittedThrough + 1) .. acked
      BY <1>2, <2>11, CommitSucceedsInv DEF BatchedInv, CommitOk
    <3>2. /\ acked' = acked /\ pc' = pc
          /\ pc \in {"committing", "finishing"}
      BY <2>11 DEF CommitOk, CommitSucceeds
    <3> QED
      BY <3>1, <3>2 DEF Promise!Next, Promise!Persist
  <2>12. CASE CommitDone
    <3>1. CASE pc = "committing"
      BY <2>12, <3>1, PromiseStutter DEF CommitDone, Goto, commitVars, Outcome
    <3>2. CASE pc = "finishing"
      <4>1. /\ UNCHANGED commitVars /\ pc' = "done"
            /\ NothingEligible
        BY <2>12, <3>2 DEF CommitDone, Goto
      <4>2. CommittedThrough = acked
        BY <1>2, <3>2, <4>1, NothingLeft DEF BatchedInv, Control
      <4>3. CommittedThrough' = CommittedThrough /\ acked' = acked
        BY <4>1 DEF commitVars, CommittedThrough, ThroughOf, LastOf
      <4> QED
        BY <3>2, <4>1, <4>2, <4>3 DEF Promise!Next, Promise!Complete
    <3> QED
      BY <2>12, <3>1, <3>2 DEF CommitDone
  <2>13. CASE Terminated \/ UNCHANGED vars
    BY <2>13, PromiseStutter DEF Terminated, vars, commitVars, Outcome
  <2> QED
    BY <1>2, <2>1, <2>2, <2>3, <2>4, <2>5, <2>6, <2>7, <2>8, <2>9, <2>10, <2>11, <2>12, <2>13
       DEF Next
<1> QED
  BY <1>1, <1>2, BatchedInvariant, PTL DEF Spec, ImplementsPromise, Promise!Spec
==============================================================================
