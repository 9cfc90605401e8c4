----------------------------- MODULE KafkaSource -----------------------------
(***************************************************************************)
(* KafkaSource: one member of a consumer group, its checkpoints, and what  *)
(* its commits do to the group's offsets at the broker.                    *)
(*                                                                         *)
(* The broker, librdkafka and the other members are external.  A rebalance *)
(* may take a partition away and give it back at any time; whoever is      *)
(* given a partition starts at the group's offset.  A commit names its     *)
(* partitions and their next offsets; the broker takes it from any member, *)
(* whether or not the partition is still its own.                          *)
(***************************************************************************)
EXTENDS Integers, Sequences

CONSTANTS
    Partitions,      \* topic and partition
    LogEnd,          \* partition -> messages in it, at the offsets 0, 1, ...
    OffsetMax,       \* i64::MAX
    MaxRebalances    \* bound: partitions taken away

ASSUME KafkaAssumption ==
    /\ OffsetMax \in Nat
    /\ LogEnd \in [Partitions -> 0 .. OffsetMax + 1]
    /\ MaxRebalances \in Nat

VARIABLES
    groupOffset,   \* partition -> the group's offset at the broker
    owned,         \* the partitions assigned to this member
    cursor,        \* partition -> the next offset its owner will be given
    message,       \* place in this run's stream -> the message's partition and offset
    stray,         \* commits of dropped runs, still on a blocking thread
    delivered,     \* history: messages that some member's sinks have all accepted
    rebalances     \* how many partitions were taken away

kafkaVars == <<groupOffset, owned, cursor, message, stray, delivered, rebalances>>

Offset == 0 .. OffsetMax

Message == [partition : Partitions, offset : Offset]

\* The checkpoints: the largest offset of each partition an epoch observed.
KafkaCheckpoint == UNION {[P -> Offset] : P \in SUBSET Partitions}

KafkaTypeOK ==
    /\ groupOffset \in [Partitions -> Offset]
    /\ owned \subseteq Partitions
    /\ cursor \in [Partitions -> 0 .. OffsetMax + 1]
    /\ message \in Seq(Message)
    /\ stray \subseteq KafkaCheckpoint
    /\ delivered \subseteq Message
    /\ rebalances \in Nat

KafkaInit ==
    /\ groupOffset = [p \in Partitions |-> 0]
    /\ owned = Partitions
    /\ cursor = [p \in Partitions |-> 0]
    /\ message = << >>
    /\ stray = {}
    /\ delivered = {}
    /\ rebalances = 0

-----------------------------------------------------------------------------
(***************************************************************************)
(* KafkaCheckpoint                                                         *)
(***************************************************************************)
NewCheckpoint == << >>

\* Mutant: the last offset seen, not the largest.
IncludeLast(checkpoint, m) ==
    [p \in DOMAIN checkpoint \cup {m.partition} |->
        IF p = m.partition THEN m.offset ELSE checkpoint[p]]

Include(checkpoint, m) ==
    [p \in DOMAIN checkpoint \cup {m.partition} |->
        IF p = m.partition
          THEN IF p \in DOMAIN checkpoint /\ checkpoint[p] > m.offset THEN checkpoint[p]
                                                                      ELSE m.offset
          ELSE checkpoint[p]]

\* start_epoch and include_position over the places of an epoch.
Checkpoint(epoch) ==
    LET upTo[n \in 0 .. Len(epoch)] ==
            IF n = 0 THEN NewCheckpoint ELSE Include(upTo[n - 1], message[epoch[n]])
    IN  upTo[Len(epoch)]

\* checked_add fails for a partition, and with it the whole translation.
Exhausted(checkpoint) == \E p \in DOMAIN checkpoint : checkpoint[p] = OffsetMax

\* Mutant: the last delivered offset is committed as it is.
SameOffset(offset) == offset

\* Mutant: the translation is applied twice.
NextNextOffset(offset) == IF offset + 2 > OffsetMax THEN OffsetMax ELSE offset + 2

\* Kafka's convention: the group's offset is the next one to be delivered.
NextOffset(offset) == offset + 1

\* What the broker holds after a commit: partitions left out stay.
OffsetsAfter(checkpoint) ==
    [p \in Partitions |-> IF p \in DOMAIN checkpoint THEN NextOffset(checkpoint[p])
                                                     ELSE groupOffset[p]]

-----------------------------------------------------------------------------
(***************************************************************************)
(* stream                                                                  *)
(***************************************************************************)
\* Mutant: librdkafka's own offset store and automatic commits stay enabled.
AutoCommitStays == TRUE

\* from_config disables enable.auto.commit and enable.auto.offset.store.
AutoCommit == FALSE

\* The consumer yields the next message of one of its partitions; whether its
\* key and payload can be decoded is carried in the record.
Fetch(p) ==
    /\ p \in owned
    /\ cursor[p] < LogEnd[p]
    /\ message' = Append(message, [partition |-> p, offset |-> cursor[p]])
    /\ cursor' = [cursor EXCEPT ![p] = @ + 1]
    /\ groupOffset' = IF AutoCommit THEN [groupOffset EXCEPT ![p] = cursor[p] + 1]
                                    ELSE groupOffset
    /\ UNCHANGED <<owned, stray, delivered, rebalances>>

(***************************************************************************)
(* commit, with the default BrokerCommitter: a blocking task translates    *)
(* the checkpoint and commits it synchronously.  (NoCommitter answers Ok   *)
(* and does nothing.)                                                      *)
(***************************************************************************)
SourceCommits(checkpoint) ==
    /\ ~Exhausted(checkpoint)
    /\ groupOffset' = OffsetsAfter(checkpoint)
    /\ UNCHANGED <<owned, cursor, message, stray, delivered, rebalances>>

\* Mutant: one commit per partition, until the translation fails.
SourceFailsHalfway(checkpoint) ==
    /\ \E taken \in SUBSET {p \in DOMAIN checkpoint : checkpoint[p] < OffsetMax} :
          groupOffset' = [p \in Partitions |-> IF p \in taken THEN NextOffset(checkpoint[p])
                                                             ELSE groupOffset[p]]
    /\ UNCHANGED <<owned, cursor, message, stray, delivered, rebalances>>

\* The offset is exhausted, in which case nothing is sent; or the broker has
\* refused some partitions, or its answer was lost.
SourceFailsToCommit(checkpoint) ==
    /\ IF Exhausted(checkpoint)
         THEN UNCHANGED groupOffset
         ELSE \E taken \in SUBSET DOMAIN checkpoint :
                 groupOffset' = [p \in Partitions |-> IF p \in taken THEN NextOffset(checkpoint[p])
                                                                     ELSE groupOffset[p]]
    /\ UNCHANGED <<owned, cursor, message, stray, delivered, rebalances>>

\* The commit of a run that was dropped goes on without it, and may come late.
StrayCommit(checkpoint) ==
    /\ checkpoint \in stray
    /\ stray' = stray \ {checkpoint}
    /\ groupOffset' \in {groupOffset, OffsetsAfter(checkpoint)}
    /\ UNCHANGED <<owned, cursor, message, delivered, rebalances>>

-----------------------------------------------------------------------------
(***************************************************************************)
(* The group (external).                                                   *)
(***************************************************************************)
Revoke(p) ==
    /\ p \in owned
    /\ rebalances < MaxRebalances
    /\ rebalances' = rebalances + 1
    /\ owned' = owned \ {p}
    /\ cursor' = [cursor EXCEPT ![p] = groupOffset[p]]
    /\ UNCHANGED <<groupOffset, message, stray, delivered>>

Assign(p) ==
    /\ p \notin owned
    /\ owned' = owned \cup {p}
    /\ cursor' = [cursor EXCEPT ![p] = groupOffset[p]]
    /\ UNCHANGED <<groupOffset, message, stray, delivered, rebalances>>

\* Another member delivers the next message of a partition it was given.
OtherDelivers(p) ==
    /\ p \notin owned
    /\ cursor[p] < LogEnd[p]
    /\ delivered' = delivered \cup {[partition |-> p, offset |-> cursor[p]]}
    /\ cursor' = [cursor EXCEPT ![p] = @ + 1]
    /\ UNCHANGED <<groupOffset, owned, message, stray, rebalances>>

\* It commits what it has delivered.
OtherCommits(p) ==
    /\ p \notin owned
    /\ cursor[p] <= OffsetMax
    /\ groupOffset' = [groupOffset EXCEPT ![p] = cursor[p]]
    /\ UNCHANGED <<owned, cursor, message, stray, delivered, rebalances>>
===============================================================================
