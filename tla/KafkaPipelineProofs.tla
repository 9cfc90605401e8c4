------------------------- MODULE KafkaPipelineProofs -------------------------
(***************************************************************************)
(* A pipeline over a consumer group, for every set of partitions, length   *)
(* of their logs, policy, set of sinks, and number of rebalances and       *)
(* restarts.                                                               *)
(***************************************************************************)
EXTENDS KafkaPipeline, EachPipelineProofs, WellFoundedInduction

-----------------------------------------------------------------------------
(***************************************************************************)
(* Induction over an interval, as a fact about sets: the natural numbers   *)
(* are well-founded, so a non-empty set of them has a least element.       *)
(***************************************************************************)
LEMMA LeastNatural ==
    ASSUME NEW T \in SUBSET Nat, T # {}
    PROVE  \E x \in T : \A y \in T : x <= y
<1>1. \E R : /\ IsWellFoundedOn(R, Nat)
             /\ \A x, y \in Nat : <<x, y>> \in R <=> x < y
  <2> DEFINE Less == OpToRel(<, Nat)
  <2>1. IsWellFoundedOn(Less, Nat)
    BY NatLessThanWellFounded
  <2>2. \A x, y \in Nat : <<x, y>> \in Less <=> x < y
    BY DEF OpToRel
  <2> HIDE DEF Less
  <2> QED
    BY <2>1, <2>2
<1>2. PICK R : /\ IsWellFoundedOn(R, Nat)
               /\ \A x, y \in Nat : <<x, y>> \in R <=> x < y
  BY <1>1
<1>3. IsWellFoundedOn(R, Nat)
  BY <1>2
<1>4. PICK x \in T : \A y \in T : ~ (<<y, x>> \in R)
  BY <1>3, WFMin
<1>5. ASSUME NEW y \in T
      PROVE  x <= y
  <2>1. x \in Nat /\ y \in Nat
    OBVIOUS
  <2>2. ~(<<y, x>> \in R)
    BY <1>4
  <2>3. ~(y < x)
    BY <1>2, <2>1, <2>2
  <2> QED
    BY <2>1, <2>3
<1> QED
  BY <1>5

LEMMA IntervalInduction ==
    ASSUME NEW n \in Nat, NEW S, 0 \in S,
           \A i \in 0 .. n - 1 : i \in S => i + 1 \in S
    PROVE  0 .. n \subseteq S
<1> DEFINE Missing == {i \in 0 .. n : i \notin S}
<1> SUFFICES ASSUME Missing # {} PROVE FALSE
  OBVIOUS
<1>1. PICK least \in Missing : \A k \in Missing : least <= k
  <2>1. Missing \in SUBSET Nat
    OBVIOUS
  <2> HIDE DEF Missing
  <2> QED
    BY <2>1, LeastNatural
<1>2. least # 0 /\ least \in 0 .. n
  OBVIOUS
<1>3. least - 1 \in 0 .. n - 1 /\ least - 1 \notin Missing
  BY <1>1, <1>2
<1>4. least - 1 \in S
  BY <1>3
<1>5. least - 1 + 1 = least
  BY <1>2
<1> QED
  BY <1>3, <1>4, <1>5

-----------------------------------------------------------------------------
(***************************************************************************)
(* The checkpoint of an epoch.                                             *)
(***************************************************************************)

\* Including a message keeps the partitions and offsets of a checkpoint, and
\* none becomes smaller.
LEMMA IncludeLargest ==
    ASSUME NEW checkpoint \in KafkaCheckpoint, NEW m \in Message
    PROVE  LET result == Include(checkpoint, m)
           IN  /\ result \in KafkaCheckpoint
               /\ DOMAIN result = DOMAIN checkpoint \cup {m.partition}
               /\ \A p \in DOMAIN checkpoint : checkpoint[p] <= result[p]
               /\ m.offset <= result[m.partition]
               /\ \A p \in DOMAIN result :
                     \/ p \in DOMAIN checkpoint /\ result[p] = checkpoint[p]
                     \/ p = m.partition /\ result[p] = m.offset
<1> DEFINE result == Include(checkpoint, m)
<1>1. PICK P \in SUBSET Partitions : checkpoint \in [P -> Offset]
  BY DEF KafkaCheckpoint
<1>2. m.partition \in Partitions /\ m.offset \in Offset
  BY DEF Message
<1>3. result \in [P \cup {m.partition} -> Offset]
  BY <1>1, <1>2 DEF Include
<1>4. result \in KafkaCheckpoint
  BY <1>1, <1>2, <1>3 DEF KafkaCheckpoint
<1>5. \A p \in P : checkpoint[p] \in Int
  BY <1>1, KafkaAssumption DEF Offset
<1>6. m.offset \in Int
  BY <1>2, KafkaAssumption DEF Offset
<1> QED
  BY <1>1, <1>3, <1>4, <1>5, <1>6 DEF Include

\* The recursion is well-founded: there is a checkpoint for each prefix of the
\* epoch, and Checkpoint is the last of them.
LEMMA CheckpointSteps ==
    ASSUME message \in Seq(Message), NEW epoch \in Seq(1 .. Len(message))
    PROVE  \E upTo \in [0 .. Len(epoch) -> KafkaCheckpoint] :
              /\ upTo[0] = NewCheckpoint
              /\ \A n \in 1 .. Len(epoch) : upTo[n] = Include(upTo[n - 1], message[epoch[n]])
              /\ Checkpoint(epoch) = upTo[Len(epoch)]
<1> DEFINE N == Len(epoch)
           Unfolds(g, n) ==
               /\ g[0] = NewCheckpoint
               /\ \A i \in 1 .. n : g[i] = Include(g[i - 1], message[epoch[i]])
           Upto(f) == [n \in 0 .. N |-> IF n = 0 THEN NewCheckpoint
                                        ELSE Include(f[n - 1], message[epoch[n]])]
<1>1. N \in Nat
  OBVIOUS
<1>2. \A n \in 1 .. N : message[epoch[n]] \in Message
  OBVIOUS
<1>3. NewCheckpoint \in KafkaCheckpoint
  <2>1. NewCheckpoint \in [{} -> Offset]
    BY DEF NewCheckpoint
  <2> QED
    BY <2>1 DEF KafkaCheckpoint
<1>4. \E g \in [0 .. N -> KafkaCheckpoint] : Unfolds(g, N)
  <2> DEFINE Reached == {n \in 0 .. N : \E g \in [0 .. n -> KafkaCheckpoint] : Unfolds(g, n)}
  <2>1. 0 \in Reached
    <3> DEFINE h == [i \in 0 .. 0 |-> NewCheckpoint]
    <3>1. h \in [0 .. 0 -> KafkaCheckpoint]
      BY <1>3
    <3>2. Unfolds(h, 0)
      OBVIOUS
    <3>3. 0 \in 0 .. N
      BY <1>1
    <3> HIDE DEF h, Unfolds
    <3> QED
      BY <3>1, <3>2, <3>3
  <2>2. ASSUME NEW n \in 0 .. N - 1, n \in Reached
        PROVE  n + 1 \in Reached
    <3>1. PICK g \in [0 .. n -> KafkaCheckpoint] : Unfolds(g, n)
      BY <2>2
    <3> DEFINE h == [i \in 0 .. n + 1 |-> IF i = n + 1 THEN Include(g[n], message[epoch[n + 1]])
                                          ELSE g[i]]
    <3>2. n \in Nat /\ n + 1 \in 1 .. N
      BY <1>1
    <3>3. Include(g[n], message[epoch[n + 1]]) \in KafkaCheckpoint
      <4>1. g[n] \in KafkaCheckpoint /\ message[epoch[n + 1]] \in Message
        BY <1>2, <3>2
      <4> QED
        BY <4>1, IncludeLargest
    <3>4. h \in [0 .. n + 1 -> KafkaCheckpoint]
      BY <3>2, <3>3
    <3>5. Unfolds(h, n + 1)
      <4>1. h[0] = NewCheckpoint
        BY <3>1, <3>2
      <4>2. ASSUME NEW i \in 1 .. n + 1
            PROVE  h[i] = Include(h[i - 1], message[epoch[i]])
        <5>1. i - 1 \in 0 .. n /\ i - 1 # n + 1 /\ i \in 0 .. n + 1
          BY <3>2
        <5>2. h[i - 1] = g[i - 1]
          BY <5>1
        <5>3. CASE i = n + 1
          BY <3>2, <5>2, <5>3
        <5>4. CASE i # n + 1
          BY <3>1, <3>2, <5>1, <5>2, <5>4
        <5> QED
          BY <5>3, <5>4
      <4> QED
        BY <4>1, <4>2
    <3>6. n + 1 \in 0 .. N
      BY <3>2
    <3> HIDE DEF h, Unfolds
    <3> QED
      BY <3>4, <3>5, <3>6
  <2> HIDE DEF Reached
  <2>3. 0 .. N \subseteq Reached
    BY <1>1, <2>1, <2>2, IntervalInduction
  <2>4. N \in Reached
    BY <1>1, <2>3
  <2> HIDE DEF Unfolds
  <2> QED
    BY <2>4 DEF Reached
<1>5. PICK g \in [0 .. N -> KafkaCheckpoint] : Unfolds(g, N)
  BY <1>4
<1>6. g = Upto(g)
  <2>1. ASSUME NEW n \in 0 .. N
        PROVE  g[n] = Upto(g)[n]
    BY <1>1, <1>5
  <2> QED
    BY <2>1
<1> DEFINE upTo == CHOOSE f : f = Upto(f)
<1>7. upTo = Upto(upTo)
  BY <1>6
<1>8. Checkpoint(epoch) = upTo[N]
  BY DEF Checkpoint
<1> HIDE DEF upTo
<1>9. Unfolds(upTo, N)
  BY <1>1, <1>7
<1>10. \A n \in 0 .. N : upTo[n] \in KafkaCheckpoint
  <2> DEFINE Typed == {n \in 0 .. N : upTo[n] \in KafkaCheckpoint}
  <2>1. 0 \in Typed
    BY <1>1, <1>3, <1>9
  <2>2. ASSUME NEW n \in 0 .. N - 1, n \in Typed
        PROVE  n + 1 \in Typed
    <3>1. n + 1 \in 1 .. N /\ n + 1 - 1 = n
      BY <1>1
    <3>2. upTo[n + 1] = Include(upTo[n], message[epoch[n + 1]])
      BY <1>9, <3>1
    <3>3. upTo[n] \in KafkaCheckpoint /\ message[epoch[n + 1]] \in Message
      BY <1>2, <2>2, <3>1
    <3>4. upTo[n + 1] \in KafkaCheckpoint
      BY <3>2, <3>3, IncludeLargest
    <3> QED
      BY <3>1, <3>4
  <2> HIDE DEF Typed
  <2>3. 0 .. N \subseteq Typed
    BY <1>1, <2>1, <2>2, IntervalInduction
  <2> QED
    BY <2>3 DEF Typed
<1>11. upTo \in [0 .. N -> KafkaCheckpoint]
  BY <1>7, <1>10
<1> QED
  BY <1>8, <1>9, <1>11

\* What a checkpoint is, whatever the order of the messages in its epoch: for
\* each partition that the epoch observed, the largest offset it observed.
LEMMA CheckpointLargest ==
    ASSUME message \in Seq(Message), NEW epoch \in Seq(1 .. Len(message))
    PROVE  /\ Checkpoint(epoch) \in KafkaCheckpoint
           /\ \A k \in 1 .. Len(epoch) :
                 /\ message[epoch[k]].partition \in DOMAIN Checkpoint(epoch)
                 /\ message[epoch[k]].offset <= Checkpoint(epoch)[message[epoch[k]].partition]
           /\ \A p \in DOMAIN Checkpoint(epoch) : \E k \in 1 .. Len(epoch) :
                 /\ message[epoch[k]].partition = p
                 /\ message[epoch[k]].offset = Checkpoint(epoch)[p]
<1> DEFINE N == Len(epoch)
<1>1. PICK upTo \in [0 .. N -> KafkaCheckpoint] :
          /\ upTo[0] = NewCheckpoint
          /\ \A n \in 1 .. N : upTo[n] = Include(upTo[n - 1], message[epoch[n]])
          /\ Checkpoint(epoch) = upTo[N]
  BY CheckpointSteps
<1> DEFINE Covered(n) ==
               \A k \in 1 .. n :
                  /\ message[epoch[k]].partition \in DOMAIN upTo[n]
                  /\ message[epoch[k]].offset <= upTo[n][message[epoch[k]].partition]
           Observed(n) ==
               \A p \in DOMAIN upTo[n] : \E k \in 1 .. n :
                  /\ message[epoch[k]].partition = p
                  /\ message[epoch[k]].offset = upTo[n][p]
           Right == {n \in 0 .. N : Covered(n) /\ Observed(n)}
<1>2. N \in Nat /\ \A n \in 1 .. N : message[epoch[n]] \in Message
  OBVIOUS
<1>3. 0 \in Right
  <2>1. DOMAIN upTo[0] = {}
    BY <1>1 DEF NewCheckpoint
  <2>2. Covered(0) /\ Observed(0)
    BY <2>1
  <2> QED
    BY <1>2, <2>2
<1>4. ASSUME NEW n \in 0 .. N - 1, n \in Right
      PROVE  n + 1 \in Right
  <2> DEFINE m == message[epoch[n + 1]]
  <2>1. n \in Nat /\ n + 1 \in 1 .. N /\ n \in 0 .. N /\ n + 1 - 1 = n
    BY <1>2
  <2>2. upTo[n] \in KafkaCheckpoint /\ m \in Message
    BY <1>1, <1>2, <2>1
  <2>3. /\ upTo[n + 1] \in KafkaCheckpoint
        /\ upTo[n + 1] = Include(upTo[n], m)
    <3>1. n + 1 \in 0 .. N
      BY <1>2, <2>1
    <3>2. upTo[n + 1] = Include(upTo[n + 1 - 1], m)
      BY <1>1, <2>1
    <3> QED
      BY <2>1, <3>1, <3>2
  <2>4. /\ DOMAIN upTo[n + 1] = DOMAIN upTo[n] \cup {m.partition}
        /\ \A p \in DOMAIN upTo[n] : upTo[n][p] <= upTo[n + 1][p]
        /\ m.offset <= upTo[n + 1][m.partition]
        /\ \A p \in DOMAIN upTo[n + 1] :
              \/ p \in DOMAIN upTo[n] /\ upTo[n + 1][p] = upTo[n][p]
              \/ p = m.partition /\ upTo[n + 1][p] = m.offset
    BY <2>2, <2>3, IncludeLargest
  <2>5. /\ \A p \in DOMAIN upTo[n] : upTo[n][p] \in Int
        /\ \A p \in DOMAIN upTo[n + 1] : upTo[n + 1][p] \in Int
        /\ \A k \in 1 .. N : message[epoch[k]].offset \in Int
    <3>1. /\ \A p \in DOMAIN upTo[n] : upTo[n][p] \in Offset
          /\ \A p \in DOMAIN upTo[n + 1] : upTo[n + 1][p] \in Offset
      BY <2>2, <2>3 DEF KafkaCheckpoint
    <3>2. \A k \in 1 .. N : message[epoch[k]].offset \in Offset
      BY <1>2 DEF Message
    <3>3. Offset \subseteq Int
      BY KafkaAssumption DEF Offset
    <3> QED
      BY <3>1, <3>2, <3>3
  <2>6. Covered(n) /\ Observed(n)
    BY <1>4
  <2>7. ASSUME NEW k \in 1 .. n + 1
        PROVE  /\ message[epoch[k]].partition \in DOMAIN upTo[n + 1]
               /\ message[epoch[k]].offset <= upTo[n + 1][message[epoch[k]].partition]
    <3>1. CASE k = n + 1
      BY <2>4, <3>1
    <3>2. CASE k \in 1 .. n
      <4> DEFINE p == message[epoch[k]].partition
      <4>1. p \in DOMAIN upTo[n] /\ message[epoch[k]].offset <= upTo[n][p]
        BY <2>6, <3>2
      <4>2. p \in DOMAIN upTo[n + 1] /\ upTo[n][p] <= upTo[n + 1][p]
        BY <2>4, <4>1
      <4>3. /\ message[epoch[k]].offset \in Int
            /\ upTo[n][p] \in Int /\ upTo[n + 1][p] \in Int
        <5>1. k \in 1 .. N
          BY <2>1, <3>2
        <5> QED
          BY <2>5, <4>1, <4>2, <5>1
      <4> HIDE DEF p
      <4>4. message[epoch[k]].offset <= upTo[n + 1][p]
        BY <4>1, <4>2, <4>3
      <4> QED
        BY <4>2, <4>4 DEF p
    <3> QED
      BY <2>1, <3>1, <3>2
  <2>8. ASSUME NEW p \in DOMAIN upTo[n + 1]
        PROVE  \E k \in 1 .. n + 1 :
                  /\ message[epoch[k]].partition = p
                  /\ message[epoch[k]].offset = upTo[n + 1][p]
    <3>1. CASE p \in DOMAIN upTo[n] /\ upTo[n + 1][p] = upTo[n][p]
      <4>1. PICK k \in 1 .. n : /\ message[epoch[k]].partition = p
                                /\ message[epoch[k]].offset = upTo[n][p]
        BY <2>6, <3>1
      <4>2. k \in 1 .. n + 1
        BY <2>1
      <4> QED
        BY <3>1, <4>1, <4>2
    <3>2. CASE p = m.partition /\ upTo[n + 1][p] = m.offset
      <4>1. n + 1 \in 1 .. n + 1
        BY <2>1
      <4> QED
        BY <3>2, <4>1
    <3> QED
      BY <2>4, <3>1, <3>2
  <2>9. n + 1 \in 0 .. N
    BY <2>1
  <2> QED
    BY <2>7, <2>8, <2>9
<1> HIDE DEF Right
<1>5. 0 .. N \subseteq Right
  BY <1>2, <1>3, <1>4, IntervalInduction
<1>6. Covered(N) /\ Observed(N)
  <2>1. N \in Right
    BY <1>2, <1>5
  <2> HIDE DEF Covered, Observed
  <2> QED
    BY <2>1 DEF Right
<1> QED
  BY <1>1, <1>2, <1>6

-----------------------------------------------------------------------------
(***************************************************************************)
(* The steps of the system are steps of the runner, or leave it alone, or  *)
(* replace it by a new one.                                                *)
(***************************************************************************)
LEMMA SystemStepsOfRunner ==
    ASSUME [SystemNext]_systemVars, ~Restart
    PROVE  [Next]_vars
<1>1. CASE TakeMessage \/ MessageDelivered \/ OffsetsCommitted \/ CommitRefused
  BY <1>1 DEF TakeMessage, MessageDelivered, OffsetsCommitted, CommitRefused, Next
<1>2. CASE RunnerSteps
  BY <1>2 DEF RunnerSteps, Next
<1>3. CASE WaitingSteps
  BY <1>3 DEF WaitingSteps, Next
<1>4. CASE Group \/ SystemOver \/ UNCHANGED systemVars
  BY <1>4 DEF Group, SystemOver, systemVars
<1> QED
  BY <1>1, <1>2, <1>3, <1>4 DEF SystemNext

LEMMA RestartIsInit ==
    ASSUME Restart
    PROVE  Init'
  BY RestartAssumption DEF Restart, NewRun, Init, CommitInit, DeliveryInit

-----------------------------------------------------------------------------
(***************************************************************************)
(* The inductive invariant of the group.  What a member has passed over,   *)
(* in its stream or with its cursor, has been delivered or is a message of *)
(* the stream that is not acknowledged yet; so a commit, which names       *)
(* acknowledged messages only, leaves nothing undelivered behind it.       *)
(***************************************************************************)
Named(p, o) == [partition |-> p, offset |-> o]

\* Delivered, or among the first n messages of this run.
HandedOver(p, o, n) ==
    \/ Named(p, o) \in delivered
    \/ \E i \in 1 .. n : message[i] = Named(p, o)

\* Nothing that the checkpoint covers is undelivered.
Safe(checkpoint) ==
    \A p \in DOMAIN checkpoint : \A o \in 0 .. checkpoint[p] : Named(p, o) \in delivered

AckedIsDelivered == \A i \in 1 .. acked : message[i] \in delivered

StreamSkipsNothing ==
    \A i \in 1 .. tracked : \A o \in 0 .. message[i].offset - 1 :
        HandedOver(message[i].partition, o, i - 1)

CursorSkipsNothing ==
    \A p \in Partitions : \A o \in 0 .. cursor[p] - 1 :
        HandedOver(p, o, IF p \in owned THEN tracked ELSE 0)

StraysAreSafe == \A checkpoint \in stray : ~Exhausted(checkpoint) /\ Safe(checkpoint)

GroupInv ==
    /\ KafkaTypeOK
    /\ Len(message) = tracked
    /\ AckedIsDelivered
    /\ StreamSkipsNothing
    /\ CursorSkipsNothing
    /\ NothingSkipped
    /\ StraysAreSafe

SystemInv ==
    /\ BacklogInv
    /\ GroupInv

\* A message is its partition and its offset.
LEMMA MessageNamed ==
    ASSUME NEW m \in Message
    PROVE  /\ m = Named(m.partition, m.offset)
           /\ m.partition \in Partitions /\ m.offset \in Nat /\ m.offset <= OffsetMax
  BY KafkaAssumption DEF Message, Named, Offset

\* The types of what the lemmas count with.
LEMMA GroupTypes ==
    ASSUME SystemInv
    PROVE  /\ IInv /\ CommitInv /\ CommitTypeOK
           /\ tracked \in Nat /\ acked \in Nat
           /\ message \in Seq(Message) /\ Len(message) = tracked
           /\ pc # "failed" => acked <= tracked
           /\ OffsetMax \in Nat
           /\ \A p \in Partitions : groupOffset[p] \in Nat /\ cursor[p] \in Nat
           /\ pc \in PCs
  BY KafkaAssumption
     DEF SystemInv, BacklogInv, IInv, TypeOK, CommitInv, CommitTypeOK, GroupInv,
         KafkaTypeOK, Control, PCs, Offset

\* The epoch being committed names acknowledged messages, all delivered with
\* everything before them.
LEMMA CommittingIsSafe ==
    ASSUME SystemInv, committing # << >>, pc # "failed"
    PROVE  /\ committing[1] \in Seq(1 .. Len(message))
           /\ \A k \in 1 .. Len(committing[1]) : committing[1][k] \in 1 .. acked
           /\ Checkpoint(committing[1]) \in KafkaCheckpoint
           /\ Safe(Checkpoint(committing[1]))
<1> DEFINE epoch == committing[1]
           checkpoint == Checkpoint(epoch)
<1>1. /\ CommitInv /\ committed \in Seq(Epoch) /\ committing \in Seq(Epoch)
      /\ acked \in Nat /\ acked <= tracked /\ tracked \in Nat
      /\ message \in Seq(Message) /\ Len(message) = tracked
  BY GroupTypes DEF CommitTypeOK
<1>2. epoch \in Seq(Position) /\ \A k \in 1 .. Len(epoch) : epoch[k] \in 1 .. acked
  <2> DEFINE handed == committed \o committing
             last == Len(committed) + 1
  <2>1. /\ Len(committed) \in Nat /\ Len(committing) \in Nat /\ Len(committing) >= 1
        /\ 1 \in 1 .. Len(committing)
    BY <1>1
  <2>2. handed[last] = epoch /\ last \in DOMAIN handed
    BY <1>1, <2>1
  <2>3. \A j \in DOMAIN handed[last] : handed[last][j] \in 1 .. acked
    BY <1>1, <2>2, HandedAcknowledged
  <2>4. epoch \in Epoch
    BY <1>1, <2>1, ElementOfSeq
  <2>5. epoch \in Seq(Position) /\ DOMAIN epoch = 1 .. Len(epoch)
    BY <2>4 DEF Epoch
  <2> QED
    BY <2>2, <2>3, <2>5
<1>3. epoch \in Seq(1 .. Len(message))
  <2>1. Len(epoch) \in Nat /\ epoch = [k \in 1 .. Len(epoch) |-> epoch[k]]
    BY <1>2
  <2>2. \A k \in 1 .. Len(epoch) : epoch[k] \in 1 .. Len(message)
    BY <1>1, <1>2
  <2> QED
    BY <2>1, <2>2, IsASeq
<1> HIDE DEF epoch
<1>4. /\ checkpoint \in KafkaCheckpoint
      /\ \A p \in DOMAIN checkpoint : \E k \in 1 .. Len(epoch) :
            /\ message[epoch[k]].partition = p
            /\ message[epoch[k]].offset = checkpoint[p]
  BY <1>1, <1>3, CheckpointLargest
<1> HIDE DEF checkpoint
<1>5. ASSUME NEW p \in DOMAIN checkpoint, NEW o \in 0 .. checkpoint[p]
      PROVE  Named(p, o) \in delivered
  <2>1. PICK k \in 1 .. Len(epoch) : /\ message[epoch[k]].partition = p
                                     /\ message[epoch[k]].offset = checkpoint[p]
    BY <1>4
  <2> DEFINE i == epoch[k]
  <2>2. i \in 1 .. acked /\ i \in 1 .. tracked /\ i \in Nat
    BY <1>1, <1>2
  <2>3. /\ message[i] = Named(p, checkpoint[p]) /\ checkpoint[p] \in Nat
        /\ message[i] \in delivered
    <3>1. message[i] \in Message
      BY <1>1, <2>2
    <3>2. message[i] \in delivered
      BY <2>2 DEF SystemInv, GroupInv, AckedIsDelivered
    <3> QED
      BY <2>1, <3>1, <3>2, MessageNamed
  <2> HIDE DEF i
  <2>4. CASE o = checkpoint[p]
    BY <2>3, <2>4
  <2>5. CASE o # checkpoint[p]
    <3>1. o \in 0 .. message[i].offset - 1 /\ message[i].partition = p
      BY <2>1, <2>3, <2>5 DEF i
    <3>2. HandedOver(p, o, i - 1)
      BY <2>2, <3>1 DEF SystemInv, GroupInv, StreamSkipsNothing
    <3>3. ASSUME NEW j \in 1 .. i - 1, message[j] = Named(p, o)
          PROVE  Named(p, o) \in delivered
      <4>1. j \in 1 .. acked
        BY <1>1, <2>2
      <4> QED
        BY <3>3, <4>1 DEF SystemInv, GroupInv, AckedIsDelivered
    <3> QED
      BY <3>2, <3>3 DEF HandedOver
  <2> QED
    BY <2>4, <2>5
<1> QED
  BY <1>2, <1>3, <1>4, <1>5 DEF Safe, epoch, checkpoint

-----------------------------------------------------------------------------
(***************************************************************************)
(* The steps, as far as the group is concerned.                            *)
(***************************************************************************)

\* What is handed over stays so while messages are delivered and fetched.
LEMMA HandedOverStays ==
    ASSUME NEW n \in Nat, NEW m \in Nat, n <= m,
           delivered \subseteq delivered',
           \A i \in 1 .. n : message'[i] = message[i],
           NEW p, NEW o, HandedOver(p, o, n)
    PROVE  \/ Named(p, o) \in delivered'
           \/ \E i \in 1 .. m : message'[i] = Named(p, o)
<1>1. CASE Named(p, o) \in delivered
  BY <1>1
<1>2. CASE \E i \in 1 .. n : message[i] = Named(p, o)
  <2>1. PICK i \in 1 .. n : message[i] = Named(p, o)
    BY <1>2
  <2>2. i \in 1 .. m /\ message'[i] = Named(p, o)
    BY <2>1
  <2> QED
    BY <2>2
<1> QED
  BY <1>1, <1>2 DEF HandedOver

\* A step of the runner that the source does not notice.
LEMMA QuietGroup ==
    ASSUME GroupInv, UNCHANGED <<kafkaVars, tracked, acked>>
    PROVE  GroupInv'
  BY DEF GroupInv, kafkaVars, KafkaTypeOK, AckedIsDelivered, StreamSkipsNothing,
         CursorSkipsNothing, NothingSkipped, StraysAreSafe, HandedOver, Safe, Named, Exhausted

\* A message is fetched: the cursor has skipped nothing, so the stream does not.
LEMMA TakeMessageGroup ==
    ASSUME SystemInv, TakeMessage
    PROVE  GroupInv'
<1>1. /\ pc = "next" /\ tracked' = tracked + 1
      /\ UNCHANGED <<acked, groupOffset, owned, stray, delivered, rebalances>>
  BY DEF TakeMessage, NextRecord, Track, Fetch, AutoCommit
<1>2. PICK p \in Partitions :
          /\ p \in owned /\ cursor[p] < LogEnd[p]
          /\ message' = Append(message, Named(p, cursor[p]))
          /\ cursor' = [cursor EXCEPT ![p] = @ + 1]
  BY DEF TakeMessage, Fetch, Named
<1>3. /\ tracked \in Nat /\ acked \in Nat /\ acked <= tracked
      /\ message \in Seq(Message) /\ Len(message) = tracked
      /\ cursor \in [Partitions -> 0 .. OffsetMax + 1] /\ OffsetMax \in Nat
      /\ KafkaTypeOK
  BY <1>1, GroupTypes DEF SystemInv, GroupInv, KafkaTypeOK
<1>4. cursor[p] \in 0 .. OffsetMax /\ cursor[p] + 1 \in 0 .. OffsetMax + 1
  BY <1>2, <1>3, KafkaAssumption
<1>5. Named(p, cursor[p]) \in Message
  BY <1>4 DEF Named, Message, Offset
<1>6. /\ message' \in Seq(Message) /\ Len(message') = tracked'
      /\ \A i \in 1 .. tracked : message'[i] = message[i]
      /\ message'[tracked + 1] = Named(p, cursor[p])
  BY <1>1, <1>2, <1>3, <1>5
<1>7. KafkaTypeOK'
  BY <1>1, <1>2, <1>3, <1>4, <1>6 DEF KafkaTypeOK
<1>8. AckedIsDelivered'
  BY <1>1, <1>3, <1>6 DEF AckedIsDelivered, SystemInv, GroupInv
<1>9. StreamSkipsNothing'
  <2> SUFFICES ASSUME NEW i \in 1 .. tracked + 1,
                      NEW q, q = message'[i].partition,
                      NEW o \in 0 .. message'[i].offset - 1
               PROVE  \/ Named(q, o) \in delivered'
                      \/ \E j \in 1 .. i - 1 : message'[j] = Named(q, o)
    BY <1>1 DEF StreamSkipsNothing, HandedOver, Named
  <2>1. /\ i - 1 \in Nat /\ i - 1 <= i - 1
        /\ \A j \in 1 .. i - 1 : message'[j] = message[j]
    BY <1>3, <1>6
  <2>2. HandedOver(q, o, i - 1)
    <3>1. CASE i = tracked + 1
      <4>1. q = p /\ o \in 0 .. cursor[p] - 1 /\ i - 1 = tracked
        BY <1>3, <1>6, <3>1 DEF Named
      <4> QED
        BY <1>2, <4>1 DEF SystemInv, GroupInv, CursorSkipsNothing
    <3>2. CASE i \in 1 .. tracked
      <4>1. message'[i] = message[i]
        BY <1>6, <3>2
      <4> QED
        BY <3>2, <4>1 DEF SystemInv, GroupInv, StreamSkipsNothing
    <3> QED
      BY <1>3, <3>1, <3>2
  <2> QED
    BY <1>1, <2>1, <2>2, HandedOverStays
<1>10. CursorSkipsNothing'
  <2> SUFFICES ASSUME NEW t \in Partitions, NEW o \in 0 .. cursor'[t] - 1,
                      NEW m, m = IF t \in owned THEN tracked + 1 ELSE 0
               PROVE  \/ Named(t, o) \in delivered'
                      \/ \E i \in 1 .. m : message'[i] = Named(t, o)
    BY <1>1 DEF CursorSkipsNothing, HandedOver, Named
  <2>1. CASE t # p \/ o # cursor[p]
    <3>1. o \in 0 .. cursor[t] - 1
      BY <1>2, <1>3, <1>4, <2>1
    <3> DEFINE n == IF t \in owned THEN tracked ELSE 0
    <3>2. HandedOver(t, o, n)
      BY <3>1 DEF SystemInv, GroupInv, CursorSkipsNothing
    <3>3. /\ n \in Nat /\ m \in Nat /\ n <= m
          /\ \A i \in 1 .. n : message'[i] = message[i]
      BY <1>3, <1>6
    <3> HIDE DEF n
    <3> QED
      BY <1>1, <3>2, <3>3, HandedOverStays
  <2>2. CASE t = p /\ o = cursor[p]
    <3>1. message'[tracked + 1] = Named(t, o) /\ tracked + 1 \in 1 .. m
      BY <1>2, <1>3, <1>6, <2>2
    <3> QED
      BY <3>1
  <2> QED
    BY <2>1, <2>2
<1>11. NothingSkipped' /\ StraysAreSafe'
  BY <1>1 DEF SystemInv, GroupInv, NothingSkipped, StraysAreSafe, Safe, Named, Exhausted
<1> QED
  BY <1>6, <1>7, <1>8, <1>9, <1>10, <1>11 DEF GroupInv

\* All sinks have accepted the message that was tracked last.
LEMMA MessageDeliveredGroup ==
    ASSUME SystemInv, MessageDelivered
    PROVE  GroupInv'
<1>1. /\ pc = "deliver" /\ acked' = acked + 1 /\ tracked' = tracked
      /\ unit = {tracked} /\ tracked = acked + 1
      /\ UNCHANGED <<groupOffset, owned, cursor, message, stray, rebalances>>
      /\ delivered' = delivered \cup {message[i] : i \in unit}
  BY GroupTypes DEF MessageDelivered, DeliverySucceeds, AcknowledgeDelivery, IInv, Control
<1>2. /\ tracked \in Nat /\ acked \in Nat /\ tracked \in 1 .. tracked
      /\ message \in Seq(Message) /\ Len(message) = tracked
  BY <1>1, GroupTypes
<1>3. /\ delivered \subseteq delivered' /\ message[tracked] \in delivered'
      /\ delivered' \subseteq delivered \cup {message[tracked]}
      /\ message[tracked] \in Message
  BY <1>1, <1>2
<1>4. KafkaTypeOK'
  BY <1>1, <1>3 DEF SystemInv, GroupInv, KafkaTypeOK
<1>5. AckedIsDelivered'
  <2> SUFFICES ASSUME NEW i \in 1 .. acked + 1 PROVE message[i] \in delivered'
    BY <1>1 DEF AckedIsDelivered
  <2>1. i = tracked \/ i \in 1 .. acked
    BY <1>1, <1>2
  <2> QED
    BY <1>3, <2>1 DEF SystemInv, GroupInv, AckedIsDelivered
<1>6. StreamSkipsNothing' /\ CursorSkipsNothing'
  BY <1>1, <1>3 DEF SystemInv, GroupInv, StreamSkipsNothing, CursorSkipsNothing,
                    HandedOver, Named
<1>7. NothingSkipped' /\ StraysAreSafe'
  BY <1>1, <1>3 DEF SystemInv, GroupInv, NothingSkipped, StraysAreSafe, Safe, Named, Exhausted
<1> QED
  BY <1>1, <1>4, <1>5, <1>6, <1>7 DEF SystemInv, GroupInv

\* Some partitions of a safe checkpoint have been committed.
LEMMA OffsetsMoveGroup ==
    ASSUME SystemInv,
           NEW checkpoint \in KafkaCheckpoint, Safe(checkpoint), ~Exhausted(checkpoint),
           NEW taken \in SUBSET DOMAIN checkpoint,
           groupOffset' = [p \in Partitions |-> IF p \in taken THEN NextOffset(checkpoint[p])
                                                               ELSE groupOffset[p]],
           stray' \subseteq stray,
           UNCHANGED <<owned, cursor, message, delivered, rebalances, tracked, acked>>
    PROVE  GroupInv'
<1>1. /\ KafkaTypeOK /\ OffsetMax \in Nat
      /\ \A p \in taken : checkpoint[p] \in Offset /\ checkpoint[p] # OffsetMax
  BY KafkaAssumption DEF SystemInv, GroupInv, KafkaCheckpoint, Exhausted
<1>2. \A p \in taken : NextOffset(checkpoint[p]) \in Offset
  BY <1>1 DEF NextOffset, Offset
<1>3. KafkaTypeOK'
  BY <1>1, <1>2 DEF KafkaTypeOK
<1>4. NothingSkipped'
  <2> SUFFICES ASSUME NEW p \in Partitions, NEW o \in 0 .. groupOffset'[p] - 1
               PROVE  Named(p, o) \in delivered
    BY DEF NothingSkipped, Named
  <2>1. CASE p \in taken
    <3>1. o \in 0 .. checkpoint[p] /\ p \in DOMAIN checkpoint
      BY <1>1, <2>1 DEF NextOffset, Offset
    <3> QED
      BY <3>1 DEF Safe
  <2>2. CASE p \notin taken
    BY <2>2 DEF SystemInv, GroupInv, NothingSkipped, Named
  <2> QED
    BY <2>1, <2>2
<1>5. AckedIsDelivered' /\ StreamSkipsNothing' /\ CursorSkipsNothing'
  BY DEF SystemInv, GroupInv, AckedIsDelivered, StreamSkipsNothing, CursorSkipsNothing,
         HandedOver, Named
<1>6. StraysAreSafe'
  BY DEF SystemInv, GroupInv, StraysAreSafe, Safe, Named, Exhausted
<1> QED
  BY <1>3, <1>4, <1>5, <1>6 DEF SystemInv, GroupInv

\* The group takes a partition away or gives it back, another member delivers
\* or commits, a commit of a dropped run arrives.
LEMMA GroupGroup ==
    ASSUME SystemInv, Group
    PROVE  GroupInv'
<1>1. /\ KafkaTypeOK /\ OffsetMax \in Nat /\ UNCHANGED <<tracked, acked>>
      /\ \A p \in Partitions : groupOffset[p] \in Offset /\ cursor[p] \in 0 .. OffsetMax + 1
  BY KafkaAssumption DEF SystemInv, GroupInv, KafkaTypeOK, Group, vars, commitVars
<1>2. CASE \E p \in Partitions : Revoke(p) \/ Assign(p)
  <2>1. PICK p \in Partitions :
            /\ cursor' = [cursor EXCEPT ![p] = groupOffset[p]]
            /\ owned' \in SUBSET Partitions /\ rebalances' \in Nat
            /\ \A t \in Partitions \ {p} : t \in owned' <=> t \in owned
            /\ UNCHANGED <<groupOffset, message, stray, delivered>>
    BY <1>1, <1>2 DEF Revoke, Assign, KafkaTypeOK
  <2>2. KafkaTypeOK'
    BY <1>1, <2>1 DEF KafkaTypeOK, Offset
  <2>3. CursorSkipsNothing'
    <3> SUFFICES ASSUME NEW t \in Partitions, NEW o \in 0 .. cursor'[t] - 1,
                        NEW m, m = IF t \in owned' THEN tracked ELSE 0
                 PROVE  \/ Named(t, o) \in delivered
                        \/ \E i \in 1 .. m : message[i] = Named(t, o)
      BY <1>1, <2>1 DEF CursorSkipsNothing, HandedOver, Named
    <3>1. CASE t = p
      <4>1. o \in 0 .. groupOffset[p] - 1
        BY <1>1, <2>1, <3>1 DEF KafkaTypeOK
      <4> QED
        BY <3>1, <4>1 DEF SystemInv, GroupInv, NothingSkipped, Named
    <3>2. CASE t # p
      <4>1. o \in 0 .. cursor[t] - 1 /\ m = IF t \in owned THEN tracked ELSE 0
        BY <1>1, <2>1, <3>2 DEF KafkaTypeOK
      <4> QED
        BY <4>1 DEF SystemInv, GroupInv, CursorSkipsNothing, HandedOver
    <3> QED
      BY <3>1, <3>2
  <2>4. AckedIsDelivered' /\ StreamSkipsNothing' /\ NothingSkipped' /\ StraysAreSafe'
    BY <1>1, <2>1 DEF SystemInv, GroupInv, AckedIsDelivered, StreamSkipsNothing, NothingSkipped,
                      StraysAreSafe, Safe, HandedOver, Named, Exhausted
  <2> QED
    BY <1>1, <2>1, <2>2, <2>3, <2>4 DEF SystemInv, GroupInv
<1>3. CASE \E p \in Partitions : OtherDelivers(p)
  <2>1. PICK p \in Partitions :
            /\ p \notin owned /\ cursor[p] < LogEnd[p]
            /\ delivered' = delivered \cup {Named(p, cursor[p])}
            /\ cursor' = [cursor EXCEPT ![p] = @ + 1]
            /\ UNCHANGED <<groupOffset, owned, message, stray, rebalances>>
    BY <1>3 DEF OtherDelivers, Named
  <2>2. cursor[p] \in 0 .. OffsetMax /\ cursor[p] + 1 \in 0 .. OffsetMax + 1
    BY <1>1, <2>1, KafkaAssumption
  <2>3. Named(p, cursor[p]) \in Message
    BY <2>2 DEF Named, Message, Offset
  <2>4. KafkaTypeOK'
    BY <1>1, <2>1, <2>2, <2>3 DEF KafkaTypeOK
  <2>5. CursorSkipsNothing'
    <3> SUFFICES ASSUME NEW t \in Partitions, NEW o \in 0 .. cursor'[t] - 1,
                        NEW m, m = IF t \in owned THEN tracked ELSE 0
                 PROVE  \/ Named(t, o) \in delivered'
                        \/ \E i \in 1 .. m : message[i] = Named(t, o)
      BY <1>1, <2>1 DEF CursorSkipsNothing, HandedOver, Named
    <3>1. CASE t = p /\ o = cursor[p]
      BY <2>1, <3>1
    <3>2. CASE t # p \/ o # cursor[p]
      <4>1. o \in 0 .. cursor[t] - 1
        BY <1>1, <2>1, <2>2, <3>2 DEF KafkaTypeOK
      <4> QED
        BY <2>1, <4>1 DEF SystemInv, GroupInv, CursorSkipsNothing, HandedOver
    <3> QED
      BY <3>1, <3>2
  <2>6. AckedIsDelivered' /\ StreamSkipsNothing' /\ NothingSkipped' /\ StraysAreSafe'
    BY <1>1, <2>1 DEF SystemInv, GroupInv, AckedIsDelivered, StreamSkipsNothing, NothingSkipped,
                      StraysAreSafe, Safe, HandedOver, Named, Exhausted
  <2> QED
    BY <1>1, <2>1, <2>4, <2>5, <2>6 DEF SystemInv, GroupInv
<1>4. CASE \E p \in Partitions : OtherCommits(p)
  <2>1. PICK p \in Partitions :
            /\ p \notin owned /\ cursor[p] <= OffsetMax
            /\ groupOffset' = [groupOffset EXCEPT ![p] = cursor[p]]
            /\ UNCHANGED <<owned, cursor, message, stray, delivered, rebalances>>
    BY <1>4 DEF OtherCommits
  <2>2. KafkaTypeOK'
    BY <1>1, <2>1 DEF KafkaTypeOK, Offset
  <2>3. NothingSkipped'
    <3> SUFFICES ASSUME NEW t \in Partitions, NEW o \in 0 .. groupOffset'[t] - 1
                 PROVE  Named(t, o) \in delivered
      BY <2>1 DEF NothingSkipped, Named
    <3>1. CASE t = p
      <4>1. o \in 0 .. cursor[p] - 1
        BY <1>1, <2>1, <3>1 DEF KafkaTypeOK
      <4>2. HandedOver(p, o, 0)
        BY <2>1, <4>1 DEF SystemInv, GroupInv, CursorSkipsNothing
      <4> QED
        BY <3>1, <4>2 DEF HandedOver
    <3>2. CASE t # p
      <4>1. o \in 0 .. groupOffset[t] - 1
        BY <1>1, <2>1, <3>2 DEF KafkaTypeOK
      <4> QED
        BY <4>1 DEF SystemInv, GroupInv, NothingSkipped, Named
    <3> QED
      BY <3>1, <3>2
  <2>4. AckedIsDelivered' /\ StreamSkipsNothing' /\ CursorSkipsNothing' /\ StraysAreSafe'
    BY <1>1, <2>1 DEF SystemInv, GroupInv, AckedIsDelivered, StreamSkipsNothing,
                      CursorSkipsNothing, StraysAreSafe, Safe, HandedOver, Named, Exhausted
  <2> QED
    BY <1>1, <2>1, <2>2, <2>3, <2>4 DEF SystemInv, GroupInv
<1>5. CASE \E checkpoint \in stray : StrayCommit(checkpoint)
  <2>1. PICK checkpoint \in stray : StrayCommit(checkpoint)
    BY <1>5
  <2>2. checkpoint \in KafkaCheckpoint /\ Safe(checkpoint) /\ ~Exhausted(checkpoint)
    BY <1>1 DEF KafkaTypeOK, SystemInv, GroupInv, StraysAreSafe
  <2>3. \E taken \in SUBSET DOMAIN checkpoint :
            groupOffset' = [p \in Partitions |-> IF p \in taken THEN NextOffset(checkpoint[p])
                                                                ELSE groupOffset[p]]
    <3>1. CASE groupOffset' = OffsetsAfter(checkpoint)
      BY <3>1 DEF OffsetsAfter
    <3>2. CASE groupOffset' = groupOffset
      <4>1. groupOffset' = [p \in Partitions |-> IF p \in {} THEN NextOffset(checkpoint[p])
                                                             ELSE groupOffset[p]]
        BY <1>1, <3>2 DEF KafkaTypeOK
      <4>2. {} \in SUBSET DOMAIN checkpoint
        OBVIOUS
      <4> QED
        BY <4>1, <4>2
    <3> QED
      BY <2>1, <3>1, <3>2 DEF StrayCommit
  <2>4. stray' \subseteq stray /\ UNCHANGED <<owned, cursor, message, delivered, rebalances>>
    BY <2>1 DEF StrayCommit
  <2> QED
    BY <1>1, <2>2, <2>3, <2>4, OffsetsMoveGroup
<1> QED
  BY <1>2, <1>3, <1>4, <1>5 DEF Group

\* The source commits, or fails to commit all of it.
LEMMA CommitGroup ==
    ASSUME SystemInv, OffsetsCommitted \/ CommitRefused
    PROVE  GroupInv'
<1> DEFINE checkpoint == Checkpoint(committing[1])
<1>1. /\ committing # << >> /\ pc # "failed" /\ UNCHANGED <<tracked, acked>>
      /\ UNCHANGED <<owned, cursor, message, stray, delivered, rebalances>>
      /\ groupOffset \in [Partitions -> Offset]
  BY DEF OffsetsCommitted, CommitRefused, CommitOk, CommitErr, CommitSucceeds, CommitFails,
         commitVars, SourceCommits, SourceFailsToCommit, SystemInv, GroupInv, KafkaTypeOK
<1>2. checkpoint \in KafkaCheckpoint /\ Safe(checkpoint)
  BY <1>1, CommittingIsSafe
<1> HIDE DEF checkpoint
<1>3. CASE Exhausted(checkpoint)
  <2>1. UNCHANGED groupOffset
    BY <1>3 DEF OffsetsCommitted, CommitRefused, SourceCommits, SourceFailsToCommit, checkpoint
  <2> QED
    BY <1>1, <2>1, QuietGroup DEF SystemInv, kafkaVars
<1>4. CASE ~Exhausted(checkpoint)
  <2>1. \E taken \in SUBSET DOMAIN checkpoint :
            groupOffset' = [p \in Partitions |-> IF p \in taken THEN NextOffset(checkpoint[p])
                                                                ELSE groupOffset[p]]
    <3>1. CASE OffsetsCommitted
      BY <3>1 DEF OffsetsCommitted, SourceCommits, OffsetsAfter, checkpoint
    <3>2. CASE CommitRefused
      BY <1>4, <3>2 DEF CommitRefused, SourceFailsToCommit, checkpoint
    <3> QED
      BY <3>1, <3>2
  <2> QED
    BY <1>1, <1>2, <1>4, <2>1, OffsetsMoveGroup
<1> QED
  BY <1>3, <1>4

\* A run is lost, or has returned: the group keeps its offsets, and a commit
\* that was under way is safe whenever it arrives.
LEMMA RestartGroup ==
    ASSUME SystemInv, Restart
    PROVE  GroupInv'
<1>1. /\ message' = << >> /\ tracked' = 0 /\ acked' = 0
      /\ owned' = Partitions /\ cursor' = groupOffset
      /\ UNCHANGED <<groupOffset, delivered, rebalances>>
  BY DEF Restart, NewRun
<1>2. KafkaTypeOK /\ OffsetMax \in Nat
  BY KafkaAssumption DEF SystemInv, GroupInv
<1>3. \A checkpoint \in stray' :
          /\ checkpoint \in KafkaCheckpoint
          /\ ~Exhausted(checkpoint) /\ Safe(checkpoint)
  <2>1. CASE UNCHANGED stray
    BY <1>2, <2>1 DEF KafkaTypeOK, SystemInv, GroupInv, StraysAreSafe
  <2>2. CASE /\ committing # << >> /\ pc # "failed"
             /\ ~Exhausted(Checkpoint(committing[1]))
             /\ stray' = stray \cup {Checkpoint(committing[1])}
    <3>1. /\ Checkpoint(committing[1]) \in KafkaCheckpoint
          /\ Safe(Checkpoint(committing[1]))
      BY <2>2, CommittingIsSafe
    <3> QED
      BY <1>2, <2>2, <3>1 DEF KafkaTypeOK, SystemInv, GroupInv, StraysAreSafe
  <2> QED
    BY <2>1, <2>2 DEF Restart
<1>4. KafkaTypeOK'
  <2>1. << >> \in Seq(Message)
    OBVIOUS
  <2>2. groupOffset \in [Partitions -> 0 .. OffsetMax + 1]
    BY <1>2 DEF KafkaTypeOK, Offset
  <2> QED
    BY <1>1, <1>2, <1>3, <2>1, <2>2 DEF KafkaTypeOK
<1>5. StraysAreSafe'
  BY <1>1, <1>3 DEF StraysAreSafe, Safe, Exhausted, Named
<1>6. NothingSkipped' /\ CursorSkipsNothing'
  BY <1>1 DEF SystemInv, GroupInv, NothingSkipped, CursorSkipsNothing, HandedOver, Named
<1>7. AckedIsDelivered' /\ StreamSkipsNothing' /\ Len(message') = tracked'
  BY <1>1 DEF AckedIsDelivered, StreamSkipsNothing
<1> QED
  BY <1>4, <1>5, <1>6, <1>7 DEF GroupInv

-----------------------------------------------------------------------------
(***************************************************************************)
(* The invariant of the system.                                            *)
(***************************************************************************)
LEMMA SystemInitInv ==
    ASSUME SystemInit
    PROVE  SystemInv
<1>1. BacklogInv
  BY BacklogInit DEF SystemInit
<1>2. /\ tracked = 0 /\ acked = 0 /\ message = << >> /\ stray = {}
      /\ groupOffset = [p \in Partitions |-> 0] /\ cursor = [p \in Partitions |-> 0]
      /\ owned = Partitions /\ delivered = {} /\ rebalances = 0
  BY DEF SystemInit, Init, CommitInit, KafkaInit
<1>3. KafkaTypeOK /\ Len(message) = tracked
  BY <1>2, KafkaAssumption DEF KafkaTypeOK, Offset
<1>4. AckedIsDelivered /\ StreamSkipsNothing /\ CursorSkipsNothing /\ NothingSkipped /\ StraysAreSafe
  BY <1>2 DEF AckedIsDelivered, StreamSkipsNothing, CursorSkipsNothing, NothingSkipped, StraysAreSafe
<1> QED
  BY <1>1, <1>3, <1>4 DEF SystemInv, GroupInv

LEMMA SystemStepInv ==
    ASSUME SystemInv, [SystemNext]_systemVars
    PROVE  SystemInv'
<1>1. BacklogInv'
  <2>1. (Init => BacklogInv)'
    BY BacklogInit, PTL
  <2>2. CASE Restart
    BY <2>1, <2>2, RestartIsInit
  <2>3. CASE ~Restart
    BY <2>3, SystemStepsOfRunner, BacklogStep DEF SystemInv
  <2> QED
    BY <2>2, <2>3
<1>2. GroupInv'
  <2>1. CASE TakeMessage
    BY <2>1, TakeMessageGroup
  <2>2. CASE MessageDelivered
    BY <2>2, MessageDeliveredGroup
  <2>3. CASE OffsetsCommitted \/ CommitRefused
    BY <2>3, CommitGroup
  <2>4. CASE Restart
    BY <2>4, RestartGroup
  <2>5. CASE Group
    BY <2>5, GroupGroup
  <2>6. CASE RunnerSteps \/ WaitingSteps \/ SystemOver \/ UNCHANGED systemVars
    <3>1. UNCHANGED <<kafkaVars, tracked, acked>>
      BY <2>6 DEF RunnerSteps, WaitingSteps, SystemOver, systemVars, vars, commitVars, Deliver,
                  DeliveryFails, CommitNext, PopEligible, CommitDone, NextFails, NextEnds,
                  Finish, CommitTimer, HandleTimeout, Tick, DeadlinePasses
    <3> QED
      BY <3>1, QuietGroup DEF SystemInv
  <2> QED
    BY <2>1, <2>2, <2>3, <2>4, <2>5, <2>6 DEF SystemNext
<1> QED
  BY <1>1, <1>2 DEF SystemInv

\* The inductive invariant holds through every rebalance, failure and restart.
THEOREM SystemInvariant == SystemSpec => []SystemInv
  BY SystemInitInv, SystemStepInv, PTL DEF SystemSpec

\* The restarts are counted up to the bound.
RestartsCounted == restarts \in 0 .. MaxRestarts

LEMMA RestartsBounded == SystemSpec => []RestartsCounted
<1>1. SystemInit => RestartsCounted
  BY RestartAssumption DEF SystemInit, RestartsCounted
<1>2. RestartsCounted /\ [SystemNext]_systemVars => RestartsCounted'
  BY RestartAssumption
     DEF RestartsCounted, SystemNext, systemVars, TakeMessage, MessageDelivered, OffsetsCommitted, CommitRefused,
         RunnerSteps, WaitingSteps, Restart, Group, SystemOver
<1> QED
  BY <1>1, <1>2, PTL DEF SystemSpec

\* The types of every variable, through all runs of the pipeline.
THEOREM SystemTypeCorrect == SystemSpec => []SystemTypeOK
<1>1. SystemInv /\ RestartsCounted => SystemTypeOK
  BY DEF RestartsCounted, SystemInv, BacklogInv, IInv, GroupInv, SystemTypeOK
<1> QED
  BY <1>1, RestartsBounded, SystemInvariant, PTL

\* End-to-end at-least-once: whatever is below the group's offset has been
\* delivered, whichever member delivered it, and however late a commit came.
THEOREM NothingIsSkipped == SystemSpec => []NothingSkipped
<1>1. SystemInv => NothingSkipped
  BY DEF SystemInv, GroupInv
<1> QED
  BY <1>1, SystemInvariant, PTL

\* Every run over the group keeps the promises of the runner, although the
\* group takes its partitions away, rewinds them and restarts it.
THEOREM RunsOverGroup ==
    SystemSpec => [](/\ CommittedIsDurable
                     /\ CommitsInSourceOrder
                     /\ CleanStopCommitsAll
                     /\ ReturnsDrained)
<1>1. ASSUME IInv
      PROVE  CommittedIsDurable
  <2>1. \A i \in DOMAIN Handed : \A j \in DOMAIN Handed[i] : Handed[i][j] \in 1 .. acked
    BY <1>1, HandedAcknowledged DEF IInv, Handed
  <2> QED
    BY <1>1, <2>1 DEF IInv, AckedIsAccepted, CommittedIsDurable
<1>2. IInv => CommitsInSourceOrder
  BY HandedAcknowledged DEF IInv, Handed, CommitsInSourceOrder
<1>3. IInv => CleanStopCommitsAll
  BY NothingLeft DEF IInv, Control, CleanStopCommitsAll
<1>4. IInv => ReturnsDrained
  BY DEF IInv, Control, ReturnsDrained
<1>5. SystemInv => IInv
  BY GroupTypes
<1> QED
  BY <1>1, <1>2, <1>3, <1>4, <1>5, SystemInvariant, PTL

\* Every run of the pipeline over the group keeps its backlog bounded.
THEOREM BacklogOverGroup == SystemSpec => []BacklogBounded
<1>1. SystemInv => BacklogBounded
  BY BacklogWithinThreshold DEF SystemInv
<1> QED
  BY <1>1, SystemInvariant, PTL

-----------------------------------------------------------------------------
(***************************************************************************)
(* What a commit does to the group's offsets.                              *)
(***************************************************************************)

\* A commit that returned Ok moves every partition of its epoch past the
\* largest offset the epoch observed in it, and no other partition.
THEOREM CommitCovers == SystemSpec => CommitCoversEpoch
<1> DEFINE Covered ==
        committed' # committed /\ committed' # << >> =>
          LET epoch == committed'[Len(committed')]
          IN  /\ \A i \in DOMAIN epoch :
                     groupOffset'[message[epoch[i]].partition] > message[epoch[i]].offset
              /\ \A p \in Partitions :
                     (\A i \in DOMAIN epoch : message[epoch[i]].partition # p)
                         => groupOffset'[p] = groupOffset[p]
<1>1. ASSUME SystemInv, [SystemNext]_systemVars
      PROVE  Covered
  <2>1. CASE UNCHANGED committed \/ committed' = << >>
    BY <2>1
  <2>2. CASE OffsetsCommitted
    <3> DEFINE epoch == committing[1]
               checkpoint == Checkpoint(epoch)
    <3>1. /\ committing # << >> /\ pc # "failed" /\ committed' = committed \o committing
          /\ groupOffset' = OffsetsAfter(checkpoint)
      BY <2>2 DEF OffsetsCommitted, CommitOk, CommitSucceeds, SourceCommits
    <3>2. /\ committed \in Seq(Epoch) /\ committing \in Seq(Epoch) /\ Len(committing) <= 1
          /\ message \in Seq(Message)
      BY <1>1, GroupTypes DEF CommitInv, CommitTypeOK
    <3>3. committed'[Len(committed')] = epoch
      <4>1. PICK e \in Epoch : committing = <<e>>
        BY <3>1, <3>2, SingletonSeq
      <4>2. committed' = Append(committed, e) /\ epoch = e
        BY <3>1, <3>2, <4>1, AppendIsConcat
      <4> QED
        BY <3>2, <4>2, AppendProperties
    <3>4. epoch \in Seq(1 .. Len(message))
      BY <1>1, <3>1, CommittingIsSafe
    <3> HIDE DEF epoch
    <3>5. /\ checkpoint \in KafkaCheckpoint
          /\ \A k \in 1 .. Len(epoch) :
                /\ message[epoch[k]].partition \in DOMAIN checkpoint
                /\ message[epoch[k]].offset <= checkpoint[message[epoch[k]].partition]
          /\ \A p \in DOMAIN checkpoint : \E k \in 1 .. Len(epoch) :
                message[epoch[k]].partition = p
      BY <3>2, <3>4, CheckpointLargest
    <3>6. DOMAIN epoch = 1 .. Len(epoch)
      BY <3>4
    <3> HIDE DEF checkpoint
    <3>7. ASSUME NEW i \in DOMAIN epoch
          PROVE  groupOffset'[message[epoch[i]].partition] > message[epoch[i]].offset
      <4> DEFINE p == message[epoch[i]].partition
                 o == message[epoch[i]].offset
      <4>1. message[epoch[i]] \in Message
        BY <3>2, <3>4, <3>6
      <4>2. /\ p \in Partitions /\ o \in Nat
            /\ p \in DOMAIN checkpoint /\ o <= checkpoint[p]
        BY <3>5, <3>6, <4>1, MessageNamed
      <4>3. checkpoint[p] \in Nat
        <5>1. \A t \in DOMAIN checkpoint : checkpoint[t] \in Offset
          BY <3>5 DEF KafkaCheckpoint
        <5> QED
          BY <4>2, <5>1, KafkaAssumption DEF Offset
      <4> HIDE DEF p, o
      <4>4. groupOffset'[p] = checkpoint[p] + 1
        BY <3>1, <4>2 DEF OffsetsAfter, NextOffset
      <4>5. groupOffset'[p] > o
        BY <4>2, <4>3, <4>4
      <4> QED
        BY <4>5 DEF p, o
    <3>8. ASSUME NEW p \in Partitions, \A i \in DOMAIN epoch : message[epoch[i]].partition # p
          PROVE  groupOffset'[p] = groupOffset[p]
      BY <3>1, <3>5, <3>6, <3>8 DEF OffsetsAfter
    <3> QED
      BY <3>3, <3>7, <3>8
  <2> QED
    BY <1>1, <2>1, <2>2
       DEF SystemNext, systemVars, vars, commitVars, TakeMessage, NextRecord, Track,
           MessageDelivered, DeliverySucceeds, AcknowledgeDelivery, CommitRefused, CommitErr,
           CommitFails, RunnerSteps, Deliver, DeliveryFails, CommitNext, PopEligible,
           CommitDone, WaitingSteps, NextFails, NextEnds, Finish, CommitTimer, HandleTimeout,
           Tick, DeadlinePasses, Restart, NewRun, Group, SystemOver
<1>2. SystemInv /\ [SystemNext]_systemVars => [Covered]_systemVars
  BY <1>1
<1> QED
  BY <1>2, SystemInvariant, PTL DEF SystemSpec, CommitCoversEpoch

\* An epoch with an exhausted offset: no step but a refused commit takes it
\* out of the runner's hands, and that leaves all offsets as they are.
THEOREM ExhaustionIsWhole == SystemSpec => ExhaustedCommitsNothing
<1> DEFINE Refused ==
        (/\ committing # << >> /\ restarts' = restarts
         /\ committing' = << >> \/ failure' # failure
         /\ \E i \in DOMAIN committing[1] : message[committing[1][i]].offset = OffsetMax)
          => failure' = "Commit" /\ groupOffset' = groupOffset
<1>1. ASSUME SystemInv, RestartsCounted, [SystemNext]_systemVars,
             committing # << >>, restarts' = restarts, committing' = << >> \/ failure' # failure,
             \E i \in DOMAIN committing[1] : message[committing[1][i]].offset = OffsetMax
      PROVE  failure' = "Commit" /\ groupOffset' = groupOffset
  <2> DEFINE epoch == committing[1]
             checkpoint == Checkpoint(epoch)
  <2>1. ~Restart
    BY <1>1 DEF Restart, RestartsCounted
  <2>2. pc \notin {"next", "deliver"}
    BY <1>1, GroupTypes DEF IInv, Control, NothingEligible
  <2>3. ASSUME pc # "failed"
        PROVE  Exhausted(checkpoint)
    <3>1. epoch \in Seq(1 .. Len(message)) /\ message \in Seq(Message)
      BY <1>1, <2>3, CommittingIsSafe, GroupTypes
    <3> HIDE DEF epoch
    <3>2. PICK k \in 1 .. Len(epoch) : message[epoch[k]].offset = OffsetMax
      <4>1. DOMAIN epoch = 1 .. Len(epoch)
        BY <3>1
      <4>2. \E k \in DOMAIN epoch : message[epoch[k]].offset = OffsetMax
        BY <1>1 DEF epoch
      <4> QED
        BY <4>1, <4>2
    <3> DEFINE p == message[epoch[k]].partition
    <3>3. /\ checkpoint \in KafkaCheckpoint
          /\ p \in DOMAIN checkpoint /\ OffsetMax <= checkpoint[p]
      BY <3>1, <3>2, CheckpointLargest
    <3> HIDE DEF p, checkpoint
    <3>4. checkpoint[p] \in 0 .. OffsetMax /\ OffsetMax \in Nat
      BY <3>3, KafkaAssumption DEF KafkaCheckpoint, Offset
    <3> QED
      BY <3>3, <3>4 DEF Exhausted
  <2> HIDE DEF checkpoint, epoch
  <2>4. CASE OffsetsCommitted
    BY <2>3, <2>4 DEF OffsetsCommitted, CommitOk, SourceCommits, checkpoint, epoch
  <2>5. CASE CommitRefused
    <3>1. Exhausted(checkpoint)
      BY <2>3, <2>5 DEF CommitRefused, CommitErr
    <3> QED
      BY <2>5, <3>1 DEF CommitRefused, CommitErr, Fail, SourceFailsToCommit, checkpoint, epoch
  <2>6. CASE UNCHANGED <<committing, failure>> \/ committing = << >>
    BY <1>1, <2>6
  <2> QED
    BY <1>1, <2>1, <2>2, <2>4, <2>5, <2>6
       DEF SystemNext, systemVars, vars, commitVars, TakeMessage, NextRecord,
           MessageDelivered, DeliverySucceeds, RunnerSteps, Deliver, DeliveryFails, CommitNext,
           PopEligible, CommitDone, Goto, WaitingSteps, NextFails, NextEnds, CommitTimer,
           Tick, DeadlinePasses, Group, SystemOver
<1>2. SystemInv /\ RestartsCounted /\ [SystemNext]_systemVars => [Refused]_systemVars
  BY <1>1
<1> QED
  BY <1>2, RestartsBounded, SystemInvariant, PTL DEF SystemSpec, ExhaustedCommitsNothing

-----------------------------------------------------------------------------
(***************************************************************************)
(* The one member of a group, in its first run: the messages of a          *)
(* partition come in the order of their offsets, the cursor follows the    *)
(* last that was fetched, and the group's offset the last whose position   *)
(* is committed.                                                           *)
(***************************************************************************)

\* The offset is the one after the last message of p among the first n.
ResumesAfter(offset, p, n) ==
    /\ \A i \in 1 .. n : message[i].partition = p => message[i].offset < offset
    /\ offset # 0 => \E i \in 1 .. n : message[i] = Named(p, offset - 1)

MessagesAscend ==
    \A i, j \in 1 .. tracked :
        i < j /\ message[i].partition = message[j].partition
            => message[i].offset < message[j].offset

Sole ==
    /\ owned = Partitions /\ stray = {}
    /\ MessagesAscend
    /\ \A p \in Partitions : ResumesAfter(cursor[p], p, tracked)
    /\ pc # "failed" =>
          \A p \in Partitions : ResumesAfter(groupOffset[p], p, CommittedThrough)

SoleInv == (rebalances = 0 /\ restarts = 0) => Sole

\* Committed positions are acknowledged.
LEMMA CommittedIsAcked ==
    ASSUME CommitInv
    PROVE  CommittedThrough \in Nat /\ CommittedThrough <= acked
<1>1. /\ committed \in Seq(Epoch) /\ committing \in Seq(Epoch) /\ eligibleEpochs \in Seq(Epoch)
      /\ acked \in Nat /\ CommittedThrough \in Nat
  BY CommittedType DEF CommitInv, CommitTypeOK
<1>2. CASE Len(committed) = 0
  BY <1>1, <1>2 DEF CommittedThrough, ThroughOf
<1>3. CASE Len(committed) # 0
  <2> DEFINE handed == committed \o committing
             n == Len(committed)
  <2>1. /\ handed \in Seq(Epoch) /\ n \in 1 .. Len(handed) /\ handed[n] = committed[n]
    BY <1>1, <1>3, ConcatPrefix
  <2>2. /\ Acknowledged \in Seq(Epoch) /\ n \in 1 .. Len(Acknowledged)
        /\ Acknowledged[n] = committed[n]
    <3>1. Acknowledged = handed \o eligibleEpochs
      BY DEF Acknowledged
    <3> HIDE DEF handed, n
    <3> QED
      BY <1>1, <2>1, <3>1, ConcatPrefix
  <2>3. LastOf(Acknowledged[n]) <= acked
    BY <2>2 DEF CommitInv, AcknowledgedOnly
  <2> QED
    BY <1>1, <1>3, <2>2, <2>3 DEF CommittedThrough, ThroughOf
<1> QED
  BY <1>2, <1>3

\* The epoch being committed begins no later than where the committed ones
\* end, and has all positions from there on to its last.
LEMMA CommittingContinues ==
    ASSUME CommitInv, committing # << >>
    PROVE  LET epoch == committing[1]
           IN  /\ epoch \in Epoch /\ committing = <<epoch>>
               /\ IsRun(epoch)
               /\ FirstOf(epoch) <= CommittedThrough + 1
               /\ CommittedThrough < LastOf(epoch)
<1> DEFINE epoch == committing[1]
           handed == committed \o committing
           n == Len(committed)
<1>1. committed \in Seq(Epoch) /\ committing \in Seq(Epoch) /\ Len(committing) <= 1
  BY DEF CommitInv, CommitTypeOK
<1>2. epoch \in Epoch /\ committing = <<epoch>>
  <2>1. PICK e \in Epoch : committing = <<e>>
    BY <1>1, SingletonSeq
  <2> QED
    BY <2>1
<1>3. handed = Append(committed, epoch) /\ n \in Nat
  BY <1>1, <1>2, AppendIsConcat, LenProperties
<1>4. /\ Len(handed) = n + 1 /\ handed[n + 1] = epoch
      /\ \A i \in 1 .. n : handed[i] = committed[i]
  BY <1>1, <1>2, <1>3, AppendProperties
<1>5. InOrder(handed)
  BY HandedAcknowledged
<1>6. ThroughOf(handed, n) = CommittedThrough
  BY <1>3, <1>4 DEF ThroughOf, CommittedThrough
<1> HIDE DEF handed, epoch
<1>7. IsRun(epoch) /\ Continues(CommittedThrough, epoch)
  <2>1. n + 1 \in 1 .. Len(handed) /\ n + 1 - 1 = n
    BY <1>3, <1>4
  <2>2. IsRun(handed[n + 1]) /\ Continues(ThroughOf(handed, n + 1 - 1), handed[n + 1])
    BY <1>5, <2>1 DEF InOrder
  <2> QED
    BY <1>4, <1>6, <2>1, <2>2
<1>8. CommittedThrough \in Nat /\ FirstOf(epoch) \in Nat
  BY <1>2, CommittedIsAcked, EpochEnds DEF Position
<1> QED
  BY <1>2, <1>7, <1>8 DEF Continues, epoch

\* A fetched message comes after those of its partition.
LEMMA SoleTakes ==
    ASSUME SystemInv, Sole, TakeMessage
    PROVE  Sole'
<1>1. /\ pc = "next" /\ tracked' = tracked + 1
      /\ UNCHANGED <<acked, committed, groupOffset, owned, stray>>
  BY DEF TakeMessage, NextRecord, Track, Fetch, AutoCommit
<1>2. PICK p \in Partitions :
          /\ p \in owned /\ cursor[p] < LogEnd[p]
          /\ message' = Append(message, Named(p, cursor[p]))
          /\ cursor' = [cursor EXCEPT ![p] = @ + 1]
  BY DEF TakeMessage, Fetch, Named
<1>3. /\ tracked \in Nat /\ acked \in Nat /\ acked <= tracked
      /\ message \in Seq(Message) /\ Len(message) = tracked
      /\ cursor \in [Partitions -> 0 .. OffsetMax + 1] /\ OffsetMax \in Nat
      /\ CommitInv
  BY <1>1, GroupTypes DEF SystemInv, GroupInv, KafkaTypeOK
<1>4. cursor[p] \in Nat /\ Named(p, cursor[p]) \in Message
  BY <1>2, <1>3, KafkaAssumption DEF Named, Message, Offset
<1>5. /\ \A i \in 1 .. tracked : message'[i] = message[i]
      /\ message'[tracked + 1] = Named(p, cursor[p])
      /\ \A i \in 1 .. tracked : message[i].offset \in Nat
  <2>1. \A i \in 1 .. tracked : message[i] \in Message
    BY <1>3
  <2> QED
    BY <1>2, <1>3, <1>4, <2>1, MessageNamed
<1>6. CommittedThrough' = CommittedThrough /\ CommittedThrough \in 0 .. tracked
  BY <1>1, <1>3, CommittedKept, CommittedIsAcked
<1>7. MessagesAscend'
  <2> SUFFICES ASSUME NEW i \in 1 .. tracked + 1, NEW j \in 1 .. tracked + 1,
                      i < j, message'[i].partition = message'[j].partition
               PROVE  message'[i].offset < message'[j].offset
    BY <1>1 DEF MessagesAscend
  <2>1. CASE j \in 1 .. tracked
    <3>1. i \in 1 .. tracked
      BY <1>3, <2>1
    <3> QED
      BY <1>5, <2>1, <3>1 DEF Sole, MessagesAscend
  <2>2. CASE j = tracked + 1
    <3>1. i \in 1 .. tracked
      BY <1>3, <2>2
    <3>2. message[i].partition = p /\ message'[i] = message[i]
          /\ message'[j].offset = cursor[p]
      BY <1>5, <2>2, <3>1 DEF Named
    <3> QED
      BY <3>1, <3>2 DEF Sole, ResumesAfter
  <2> QED
    BY <1>3, <2>1, <2>2
<1>8. ASSUME NEW t \in Partitions
      PROVE  ResumesAfter(cursor[t], t, tracked)'
  <2> SUFFICES /\ \A i \in 1 .. tracked + 1 :
                      message'[i].partition = t => message'[i].offset < cursor'[t]
               /\ cursor'[t] # 0 =>
                      \E i \in 1 .. tracked + 1 : message'[i] = Named(t, cursor'[t] - 1)
    BY <1>1 DEF ResumesAfter, Named
  <2>1. ResumesAfter(cursor[t], t, tracked) /\ cursor[t] \in Nat
    BY <1>3 DEF Sole
  <2>2. CASE t = p
    <3>1. cursor'[t] = cursor[p] + 1
      BY <1>2, <1>3, <2>2
    <3>2. ASSUME NEW i \in 1 .. tracked + 1, message'[i].partition = t
          PROVE  message'[i].offset < cursor'[t]
      <4>1. CASE i \in 1 .. tracked
        <5>1. message[i].offset < cursor[p] /\ message[i].offset \in Nat
          BY <1>5, <2>1, <2>2, <3>2, <4>1 DEF ResumesAfter
        <5> QED
          BY <1>4, <1>5, <3>1, <4>1, <5>1
      <4>2. CASE i = tracked + 1
        BY <1>4, <1>5, <3>1, <4>2 DEF Named
      <4> QED
        BY <1>3, <4>1, <4>2
    <3>3. message'[tracked + 1] = Named(t, cursor'[t] - 1) /\ tracked + 1 \in 1 .. tracked + 1
      BY <1>3, <1>4, <1>5, <2>2, <3>1
    <3> QED
      BY <3>2, <3>3
  <2>3. CASE t # p
    <3>1. cursor'[t] = cursor[t]
      BY <1>2, <1>3, <2>3
    <3>2. \A i \in 1 .. tracked + 1 : message'[i].partition = t => i \in 1 .. tracked
      <4>1. message'[tracked + 1].partition # t
        BY <1>5, <2>3 DEF Named
      <4> QED
        BY <1>3, <4>1
    <3>3. \A i \in 1 .. tracked : i \in 1 .. tracked + 1
      BY <1>3
    <3> QED
      BY <1>5, <2>1, <3>1, <3>2, <3>3 DEF ResumesAfter
  <2> QED
    BY <2>2, <2>3
<1>9. ASSUME NEW t \in Partitions
      PROVE  ResumesAfter(groupOffset[t], t, CommittedThrough)'
  <2> SUFFICES /\ \A i \in 1 .. CommittedThrough :
                      message'[i].partition = t => message'[i].offset < groupOffset[t]
               /\ groupOffset[t] # 0 =>
                      \E i \in 1 .. CommittedThrough : message'[i] = Named(t, groupOffset[t] - 1)
    BY <1>1, <1>6 DEF ResumesAfter, Named
  <2>1. ResumesAfter(groupOffset[t], t, CommittedThrough)
    BY <1>1 DEF Sole
  <2>2. \A i \in 1 .. CommittedThrough : message'[i] = message[i]
    BY <1>3, <1>5, <1>6
  <2> QED
    BY <2>1, <2>2 DEF ResumesAfter
<1> QED
  BY <1>1, <1>7, <1>8, <1>9 DEF Sole

\* The checkpoint being committed names, of each partition it observed, the
\* last message up to where its epoch ends; what it did not observe there is
\* committed already.
LEMMA CheckpointReaches ==
    ASSUME SystemInv, MessagesAscend, committing # << >>, pc # "failed"
    PROVE  LET epoch == committing[1]
               checkpoint == Checkpoint(epoch)
               reached == 1 .. LastOf(epoch)
           IN  /\ CommittedThrough \in Nat /\ CommittedThrough < LastOf(epoch)
               /\ LastOf(epoch) \in Nat
               /\ \A p \in DOMAIN checkpoint :
                     /\ checkpoint[p] \in Nat
                     /\ \E i \in reached : message[i] = Named(p, checkpoint[p])
                     /\ \A i \in reached :
                           message[i].partition = p => message[i].offset <= checkpoint[p]
               /\ \A i \in reached :
                     message[i].partition \notin DOMAIN checkpoint => i <= CommittedThrough
               /\ \A i \in reached : message[i].offset \in Nat
<1> DEFINE epoch == committing[1]
           checkpoint == Checkpoint(epoch)
           N == Len(epoch)
<1>1. /\ CommitInv /\ message \in Seq(Message)
      /\ tracked \in Nat /\ Len(message) = tracked
  BY GroupTypes
<1>2. /\ epoch \in Epoch /\ IsRun(epoch)
      /\ FirstOf(epoch) <= CommittedThrough + 1 /\ CommittedThrough < LastOf(epoch)
  BY <1>1, CommittingContinues
<1>3. epoch \in Seq(1 .. Len(message))
  BY CommittingIsSafe
<1> HIDE DEF epoch
<1>4. /\ checkpoint \in KafkaCheckpoint
      /\ \A k \in 1 .. N :
            /\ message[epoch[k]].partition \in DOMAIN checkpoint
            /\ message[epoch[k]].offset <= checkpoint[message[epoch[k]].partition]
      /\ \A p \in DOMAIN checkpoint : \E k \in 1 .. N :
            /\ message[epoch[k]].partition = p
            /\ message[epoch[k]].offset = checkpoint[p]
  BY <1>1, <1>3, CheckpointLargest
<1> HIDE DEF checkpoint
<1>5. /\ N \in Nat \ {0} /\ CommittedThrough \in Nat
      /\ FirstOf(epoch) \in Nat /\ LastOf(epoch) \in 1 .. tracked
      /\ LastOf(epoch) = FirstOf(epoch) + (N - 1)
      /\ \A k \in 1 .. N : /\ epoch[k] \in 1 .. tracked /\ message[epoch[k]] \in Message
                           /\ epoch[k] = FirstOf(epoch) + (k - 1)
  <2>1. N \in Nat \ {0} /\ CommittedThrough \in Nat /\ FirstOf(epoch) \in Nat
    BY <1>1, <1>2, EpochEnds, CommittedIsAcked DEF Position
  <2>2. \A k \in 1 .. N : /\ epoch[k] \in 1 .. tracked /\ message[epoch[k]] \in Message
                          /\ epoch[k] = FirstOf(epoch) + (k - 1)
    BY <1>1, <1>2, <1>3 DEF IsRun
  <2>3. N \in 1 .. N
    BY <2>1
  <2> QED
    BY <2>1, <2>2, <2>3 DEF LastOf
<1>6. ASSUME NEW i \in 1 .. LastOf(epoch)
      PROVE  \/ i <= CommittedThrough /\ i < FirstOf(epoch)
             \/ \E k \in 1 .. N : epoch[k] = i
  <2>1. CASE i < FirstOf(epoch)
    BY <1>2, <1>5, <2>1
  <2>2. CASE i >= FirstOf(epoch)
    <3>1. i - FirstOf(epoch) + 1 \in 1 .. N
      BY <1>5, <2>2
    <3>2. epoch[i - FirstOf(epoch) + 1] = i
      BY <1>5, <3>1
    <3> QED
      BY <3>1, <3>2
  <2> QED
    BY <1>5, <2>1, <2>2
<1>7. ASSUME NEW i \in 1 .. LastOf(epoch)
      PROVE  i \in 1 .. tracked /\ message[i].offset \in Nat
  <2>1. i \in 1 .. tracked /\ message[i] \in Message
    BY <1>1, <1>5
  <2> QED
    BY <2>1, MessageNamed
<1>8. ASSUME NEW p \in DOMAIN checkpoint
      PROVE  /\ checkpoint[p] \in Nat
             /\ \E i \in 1 .. LastOf(epoch) : message[i] = Named(p, checkpoint[p])
             /\ \A i \in 1 .. LastOf(epoch) :
                   message[i].partition = p => message[i].offset <= checkpoint[p]
  <2>1. PICK k \in 1 .. N : /\ message[epoch[k]].partition = p
                            /\ message[epoch[k]].offset = checkpoint[p]
    BY <1>4
  <2>2. message[epoch[k]] = Named(p, checkpoint[p]) /\ checkpoint[p] \in Nat
    BY <1>5, <2>1, MessageNamed
  <2>3. epoch[k] \in 1 .. LastOf(epoch)
    <3>1. epoch[k] <= LastOf(epoch) /\ epoch[k] \in Nat \ {0} /\ LastOf(epoch) \in Nat
      BY <1>5
    <3> QED
      BY <3>1
  <2>4. ASSUME NEW i \in 1 .. LastOf(epoch), message[i].partition = p
        PROVE  message[i].offset <= checkpoint[p]
    <3>1. CASE i < FirstOf(epoch)
      <4>1. i < epoch[k] /\ epoch[k] \in 1 .. tracked
        BY <1>5, <3>1
      <4>2. message[i].offset < checkpoint[p]
        BY <1>7, <2>1, <2>4, <4>1 DEF MessagesAscend
      <4> QED
        BY <1>7, <2>2, <4>2
    <3>2. CASE \E l \in 1 .. N : epoch[l] = i
      BY <1>4, <2>4, <3>2
    <3> QED
      BY <1>6, <3>1, <3>2
  <2> QED
    BY <2>2, <2>3, <2>4
<1>9. ASSUME NEW i \in 1 .. LastOf(epoch), message[i].partition \notin DOMAIN checkpoint
      PROVE  i <= CommittedThrough
  BY <1>4, <1>6, <1>9
<1>10. CommittedThrough \in Nat /\ CommittedThrough < LastOf(epoch) /\ LastOf(epoch) \in Nat
  BY <1>2, <1>5
<1> QED
  BY <1>7, <1>8, <1>9, <1>10 DEF epoch, checkpoint

\* A commit moves the group's offsets to the last positions of its epoch.
LEMMA SoleCommits ==
    ASSUME SystemInv, Sole, OffsetsCommitted
    PROVE  Sole'
<1> DEFINE epoch == committing[1]
           checkpoint == Checkpoint(epoch)
<1>1. /\ committing # << >> /\ pc # "failed" /\ committed' = committed \o committing
      /\ groupOffset' = OffsetsAfter(checkpoint)
      /\ UNCHANGED <<owned, stray, cursor, message, tracked, pc>>
  BY DEF OffsetsCommitted, CommitOk, CommitSucceeds, SourceCommits
<1>2. CommitInv /\ committed \in Seq(Epoch)
  BY GroupTypes DEF CommitTypeOK
<1>3. epoch \in Epoch /\ committing = <<epoch>>
  BY <1>1, <1>2, CommittingContinues
<1>4. /\ CommittedThrough \in Nat /\ CommittedThrough < LastOf(epoch)
      /\ LastOf(epoch) \in Nat
      /\ \A p \in DOMAIN checkpoint :
            /\ checkpoint[p] \in Nat
            /\ \E i \in 1 .. LastOf(epoch) : message[i] = Named(p, checkpoint[p])
            /\ \A i \in 1 .. LastOf(epoch) :
                  message[i].partition = p => message[i].offset <= checkpoint[p]
      /\ \A i \in 1 .. LastOf(epoch) :
            message[i].partition \notin DOMAIN checkpoint => i <= CommittedThrough
      /\ \A i \in 1 .. LastOf(epoch) : message[i].offset \in Nat
  BY <1>1, CheckpointReaches DEF Sole
<1> HIDE DEF epoch, checkpoint
<1>5. CommittedThrough' = LastOf(epoch)
  <2>1. committed' = Append(committed, epoch)
    BY <1>1, <1>2, <1>3, AppendIsConcat
  <2>2. Len(committed') = Len(committed) + 1 /\ Len(committed) \in Nat
        /\ committed'[Len(committed) + 1] = epoch
    BY <1>2, <1>3, <2>1, AppendProperties, LenProperties
  <2> QED
    BY <2>2 DEF CommittedThrough, ThroughOf, LastOf
<1>6. ASSUME NEW p \in Partitions
      PROVE  ResumesAfter(groupOffset[p], p, CommittedThrough)'
  <2> SUFFICES /\ \A i \in 1 .. LastOf(epoch) :
                      message[i].partition = p => message[i].offset < groupOffset'[p]
               /\ groupOffset'[p] # 0 =>
                      \E i \in 1 .. LastOf(epoch) : message[i] = Named(p, groupOffset'[p] - 1)
    BY <1>1, <1>5 DEF ResumesAfter, Named
  <2>1. CASE p \in DOMAIN checkpoint
    <3>1. groupOffset'[p] = checkpoint[p] + 1 /\ checkpoint[p] \in Nat
      BY <1>1, <1>4, <2>1 DEF OffsetsAfter, NextOffset
    <3>2. groupOffset'[p] - 1 = checkpoint[p]
      BY <3>1
    <3>3. ASSUME NEW i \in 1 .. LastOf(epoch), message[i].partition = p
          PROVE  message[i].offset < groupOffset'[p]
      <4>1. message[i].offset <= checkpoint[p] /\ message[i].offset \in Nat
        BY <1>4, <2>1, <3>3
      <4> QED
        BY <3>1, <4>1
    <3> QED
      BY <1>4, <2>1, <3>2, <3>3
  <2>2. CASE p \notin DOMAIN checkpoint
    <3>1. groupOffset'[p] = groupOffset[p]
      BY <1>1, <2>2 DEF OffsetsAfter
    <3>2. \A i \in 1 .. LastOf(epoch) : message[i].partition = p => i \in 1 .. CommittedThrough
      BY <1>4, <2>2
    <3>3. 1 .. CommittedThrough \subseteq 1 .. LastOf(epoch)
      BY <1>4
    <3>4. ResumesAfter(groupOffset[p], p, CommittedThrough)
      BY <1>1 DEF Sole
    <3> QED
      BY <3>1, <3>2, <3>3, <3>4 DEF ResumesAfter
  <2> QED
    BY <2>1, <2>2
<1>7. MessagesAscend' /\ \A p \in Partitions : ResumesAfter(cursor[p], p, tracked)'
  BY <1>1 DEF Sole, MessagesAscend, ResumesAfter, Named
<1> QED
  BY <1>1, <1>6, <1>7 DEF Sole

\* What neither fetches nor commits; a run that has failed commits no more.
LEMMA SoleKept ==
    ASSUME Sole, UNCHANGED <<owned, stray, message, cursor, tracked>>,
           pc' # "failed" => pc # "failed" /\ UNCHANGED <<groupOffset, committed>>
    PROVE  Sole'
<1>1. MessagesAscend' /\ \A p \in Partitions : ResumesAfter(cursor[p], p, tracked)'
  BY DEF Sole, MessagesAscend, ResumesAfter, Named
<1>2. ASSUME pc' # "failed", NEW p \in Partitions
      PROVE  ResumesAfter(groupOffset[p], p, CommittedThrough)'
  <2>1. CommittedThrough' = CommittedThrough
    BY <1>2, CommittedKept
  <2> QED
    BY <1>2, <2>1 DEF Sole, ResumesAfter, Named
<1> QED
  BY <1>1, <1>2 DEF Sole

LEMMA SoleStep ==
    ASSUME SystemInv, RestartsCounted, SoleInv, [SystemNext]_systemVars
    PROVE  SoleInv'
<1> SUFFICES ASSUME rebalances' = 0, restarts' = 0 PROVE Sole'
  BY DEF SoleInv
<1>1. rebalances \in Nat /\ restarts \in Nat
  BY RestartAssumption DEF SystemInv, GroupInv, KafkaTypeOK, RestartsCounted
<1>2. ~Restart
  BY <1>1 DEF Restart
<1>3. CASE Group
  <2>1. CASE UNCHANGED rebalances
    <3>1. Sole /\ restarts = 0
      BY <1>3, <2>1 DEF SoleInv, Group
    <3> QED
      BY <1>3, <2>1, <3>1, <1>1
         DEF Group, Sole, Revoke, Assign, OtherDelivers, OtherCommits, StrayCommit
  <2>2. CASE rebalances' = rebalances + 1
    BY <1>1, <2>2
  <2> QED
    BY <1>3, <2>1, <2>2 DEF Group, Revoke, Assign, OtherDelivers, OtherCommits, StrayCommit
<1>4. CASE ~Group
  <2>1. UNCHANGED <<rebalances, restarts>>
    BY <1>2, <1>4
       DEF SystemNext, systemVars, kafkaVars, TakeMessage, Fetch, MessageDelivered,
           OffsetsCommitted, SourceCommits, CommitRefused, SourceFailsToCommit, RunnerSteps,
           WaitingSteps, SystemOver
  <2>2. Sole
    BY <2>1 DEF SoleInv
  <2>3. CASE TakeMessage
    BY <2>2, <2>3, SoleTakes
  <2>4. CASE OffsetsCommitted
    BY <2>2, <2>4, SoleCommits
  <2>5. CASE CommitRefused
    BY <2>2, <2>5, SoleKept
       DEF CommitRefused, CommitErr, CommitFails, commitVars, Fail, SourceFailsToCommit
  <2>6. CASE MessageDelivered
    BY <2>2, <2>6, SoleKept
       DEF MessageDelivered, DeliverySucceeds, AcknowledgeDelivery, Goto
  <2>7. CASE RunnerSteps
    BY <2>2, <2>7, SoleKept
       DEF RunnerSteps, kafkaVars, Deliver, DeliveryFails, Fail, CommitNext, PopEligible,
           CommitDone, Goto, commitVars
  <2>8. CASE WaitingSteps
    BY <2>2, <2>8, SoleKept
       DEF WaitingSteps, kafkaVars, NextFails, Fail, NextEnds, Finish, CommitTimer,
           HandleTimeout, Goto, Tick, DeadlinePasses, commitVars
  <2>9. CASE SystemOver \/ UNCHANGED systemVars
    BY <2>2, <2>9, SoleKept DEF SystemOver, systemVars, vars, commitVars, kafkaVars
  <2> QED
    BY <1>2, <1>4, <2>3, <2>4, <2>5, <2>6, <2>7, <2>8, <2>9 DEF SystemNext
<1> QED
  BY <1>3, <1>4

\* Before the first rebalance and the first restart the one member knows where
\* the group would resume.
THEOREM SoleInvariant == SystemSpec => []SoleInv
<1>1. ASSUME SystemInit
      PROVE  SoleInv
  <2>1. /\ tracked = 0 /\ stray = {} /\ owned = Partitions /\ committed = << >>
        /\ groupOffset = [p \in Partitions |-> 0] /\ cursor = [p \in Partitions |-> 0]
    BY <1>1 DEF SystemInit, Init, CommitInit, KafkaInit
  <2>2. CommittedThrough = 0
    BY <2>1 DEF CommittedThrough, ThroughOf
  <2> QED
    BY <2>1, <2>2 DEF SoleInv, Sole, MessagesAscend, ResumesAfter
<1>2. SystemInv /\ RestartsCounted /\ SoleInv /\ [SystemNext]_systemVars => SoleInv'
  BY SoleStep
<1> QED
  BY <1>1, <1>2, RestartsBounded, SystemInvariant, PTL DEF SystemSpec

\* After a clean stop of the one member the group resumes at the very next
\* message: nothing is lost, and nothing is delivered again.
THEOREM ResumesNext == SystemSpec => []CleanStopResumesNext
<1>1. ASSUME SystemInv, SoleInv, pc = "done", rebalances = 0, restarts = 0
      PROVE  groupOffset = cursor
  <2>1. CommittedThrough = tracked
    BY <1>1, GroupTypes, NothingLeft DEF IInv, Control
  <2>2. ASSUME NEW p \in Partitions
        PROVE  groupOffset[p] = cursor[p]
    <3>1. /\ ResumesAfter(cursor[p], p, tracked)
          /\ ResumesAfter(groupOffset[p], p, tracked)
          /\ cursor[p] \in Nat /\ groupOffset[p] \in Nat
      BY <1>1, <2>1, GroupTypes DEF SoleInv, Sole
    <3>2. ASSUME NEW a \in Nat, NEW b \in Nat,
                 ResumesAfter(a, p, tracked), ResumesAfter(b, p, tracked)
          PROVE  b <= a
      <4>1. CASE b = 0
        BY <4>1
      <4>2. CASE b # 0
        <5>1. PICK i \in 1 .. tracked : message[i] = Named(p, b - 1)
          BY <3>2, <4>2 DEF ResumesAfter
        <5>2. b - 1 < a
          BY <3>2, <5>1 DEF ResumesAfter, Named
        <5> QED
          BY <5>2
      <4> QED
        BY <4>1, <4>2
    <3>3. cursor[p] <= groupOffset[p] /\ groupOffset[p] <= cursor[p]
      BY <3>1, <3>2
    <3> QED
      BY <3>1, <3>3
  <2>3. groupOffset \in [Partitions -> Offset] /\ cursor \in [Partitions -> 0 .. OffsetMax + 1]
    BY <1>1 DEF SystemInv, GroupInv, KafkaTypeOK
  <2> QED
    BY <2>2, <2>3
<1>2. SystemInv /\ SoleInv => CleanStopResumesNext
  BY <1>1 DEF CleanStopResumesNext
<1> QED
  BY <1>2, SoleInvariant, SystemInvariant, PTL

\* What a commit under way will write is not behind what is there.
LEMMA CommitAdvances ==
    ASSUME SystemInv, Sole, committing # << >>, pc # "failed",
           NEW p \in Partitions, p \in DOMAIN Checkpoint(committing[1])
    PROVE  groupOffset[p] <= NextOffset(Checkpoint(committing[1])[p])
<1> DEFINE epoch == committing[1]
           checkpoint == Checkpoint(epoch)
<1>1. /\ CommittedThrough \in Nat /\ CommittedThrough < LastOf(epoch)
      /\ LastOf(epoch) \in Nat /\ checkpoint[p] \in Nat
      /\ \A i \in 1 .. LastOf(epoch) :
            message[i].partition = p => message[i].offset <= checkpoint[p]
  BY CheckpointReaches DEF Sole
<1>2. ResumesAfter(groupOffset[p], p, CommittedThrough) /\ groupOffset[p] \in Nat
  BY GroupTypes DEF Sole
<1> HIDE DEF epoch, checkpoint
<1>3. groupOffset[p] <= checkpoint[p] + 1
  <2>1. CASE groupOffset[p] = 0
    BY <1>1, <2>1
  <2>2. CASE groupOffset[p] # 0
    <3>1. PICK i \in 1 .. CommittedThrough : message[i] = Named(p, groupOffset[p] - 1)
      BY <1>2, <2>2 DEF ResumesAfter
    <3>2. i \in 1 .. LastOf(epoch)
      BY <1>1
    <3>3. groupOffset[p] - 1 <= checkpoint[p]
      BY <1>1, <3>1, <3>2 DEF Named
    <3> QED
      BY <1>1, <1>2, <3>3
  <2> QED
    BY <2>1, <2>2
<1> QED
  BY <1>3 DEF NextOffset, epoch, checkpoint

\* Before the first rebalance and the first restart no offset of the group ever
\* goes back, not even where a commit fails halfway, carries its frontier, or
\* is followed by another epoch of the same partition.
OffsetsAdvance ==
    [][rebalances' = 0 /\ restarts' = 0 =>
         \A p \in Partitions : groupOffset'[p] >= groupOffset[p]]_systemVars

THEOREM OffsetsOnlyAdvance == SystemSpec => OffsetsAdvance
<1>1. ASSUME SystemInv, RestartsCounted, SoleInv, [SystemNext]_systemVars,
             rebalances' = 0, restarts' = 0, NEW p \in Partitions
      PROVE  groupOffset'[p] >= groupOffset[p]
  <2>1. groupOffset[p] \in Nat /\ rebalances \in Nat /\ restarts \in Nat
    BY <1>1, GroupTypes, RestartAssumption
       DEF SystemInv, GroupInv, KafkaTypeOK, RestartsCounted
  <2>2. CASE UNCHANGED groupOffset
    BY <2>1, <2>2
  <2>3. CASE OffsetsCommitted \/ CommitRefused
    <3> DEFINE checkpoint == Checkpoint(committing[1])
    <3>1. /\ committing # << >> /\ pc # "failed" /\ UNCHANGED <<rebalances, restarts>>
          /\ \/ groupOffset'[p] = groupOffset[p]
             \/ p \in DOMAIN checkpoint /\ groupOffset'[p] = NextOffset(checkpoint[p])
      BY <2>3 DEF OffsetsCommitted, CommitRefused, CommitOk, CommitErr, CommitSucceeds,
                  CommitFails, SourceCommits, SourceFailsToCommit, OffsetsAfter
    <3>2. Sole
      BY <1>1, <3>1 DEF SoleInv
    <3>3. CASE p \in DOMAIN checkpoint /\ groupOffset'[p] = NextOffset(checkpoint[p])
      <4>1. groupOffset[p] <= groupOffset'[p]
        BY <1>1, <3>1, <3>2, <3>3, CommitAdvances
      <4>2. groupOffset'[p] \in Nat
        <5>1. checkpoint[p] \in Nat
          BY <1>1, <3>1, <3>2, <3>3, CheckpointReaches DEF Sole
        <5> HIDE DEF checkpoint
        <5> QED
          BY <3>3, <5>1 DEF NextOffset
      <4> QED
        BY <2>1, <4>1, <4>2
    <3> QED
      BY <2>1, <3>1, <3>3
  <2>4. CASE Group /\ ~UNCHANGED groupOffset
    <3>1. Sole
      BY <1>1, <2>4 DEF SoleInv, Group, Revoke, Assign, OtherDelivers, OtherCommits, StrayCommit
    <3> QED
      BY <2>4, <3>1
         DEF Sole, Group, Revoke, Assign, OtherDelivers, OtherCommits, StrayCommit
  <2> QED
    BY <1>1, <2>2, <2>3, <2>4
       DEF SystemNext, systemVars, kafkaVars, TakeMessage, Fetch, AutoCommit, MessageDelivered,
           RunnerSteps, WaitingSteps, Restart, SystemOver
<1>2. SystemInv /\ RestartsCounted /\ SoleInv /\ [SystemNext]_systemVars
        => [rebalances' = 0 /\ restarts' = 0 =>
              \A p \in Partitions : groupOffset'[p] >= groupOffset[p]]_systemVars
  BY <1>1
<1> QED
  BY <1>2, RestartsBounded, SoleInvariant, SystemInvariant, PTL DEF SystemSpec, OffsetsAdvance

==============================================================================
