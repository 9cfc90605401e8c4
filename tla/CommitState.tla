----------------------------- MODULE CommitState -----------------------------
(***************************************************************************)
(* CommitState of policy.rs: the checkpoint epochs a runner keeps between  *)
(* the moment a position enters a delivery attempt and the moment the      *)
(* source has persisted it.                                                *)
(*                                                                         *)
(*   track        position -> open epoch (or close it and open the next)   *)
(*   acknowledge  staged epochs -> eligible, and the open epoch too when   *)
(*                the policy asks for a commit                             *)
(*   commit       eligible epochs -> Source::commit, oldest first          *)
(*                                                                         *)
(* A position is the place of a record in the source's stream: 1, 2, ...   *)
(* A checkpoint is opaque to the runner, so an epoch is kept as the        *)
(* sequence of the positions folded into it, in the order they were folded.*)
(* That tells every checkpoint type apart from every other: it is what     *)
(* start_epoch, include_position and start_next_epoch were called with.    *)
(***************************************************************************)
EXTENDS CommitPolicy, Sequences

CONSTANT CarryFrontier   \* start_next_epoch is overridden to keep a complete frontier

ASSUME CheckpointAssumption == CarryFrontier \in BOOLEAN

VARIABLES
    policy,                    \* the policy's own state
    currentEpoch,              \* the open epoch; << >> is None
    stagedEpochs,              \* closed in the delivery unit under way
    eligibleEpochs,            \* acknowledged, waiting to be committed
    currentEpochAcknowledged,  \* does the open epoch hold acknowledged progress only?
    committing,                \* the epoch handed to Source::commit, as << >> or <<epoch>>
    committed,                 \* history: the epochs Source::commit answered Ok for
    tracked,                   \* history: positions tracked
    acked                      \* history: records acknowledged

commitVars == <<policy, currentEpoch, stagedEpochs, eligibleEpochs,
                currentEpochAcknowledged, committing, committed, tracked, acked>>

Position == Nat \ {0}

Epoch == Seq(Position) \ {<< >>}

FirstOf(epoch) == epoch[1]

LastOf(epoch) == epoch[Len(epoch)]

CommitTypeOK ==
    /\ policy \in Policy
    /\ currentEpoch \in Epoch \cup {<< >>}
    /\ stagedEpochs \in Seq(Epoch)
    /\ eligibleEpochs \in Seq(Epoch)
    /\ currentEpochAcknowledged \in BOOLEAN
    /\ committing \in Seq(Epoch)
    /\ committed \in Seq(Epoch)
    /\ tracked \in Nat
    /\ acked \in Nat

CommitInit ==
    /\ policy = NewPolicy
    /\ currentEpoch = << >>
    /\ stagedEpochs = << >>
    /\ eligibleEpochs = << >>
    /\ currentEpochAcknowledged = FALSE
    /\ committing = << >>
    /\ committed = << >>
    /\ tracked = 0
    /\ acked = 0

-----------------------------------------------------------------------------
(***************************************************************************)
(* The trait Checkpoint.                                                   *)
(***************************************************************************)
StartEpoch(position) == <<position>>

IncludePosition(epoch, position) == Append(epoch, position)

StartNextEpoch(epoch, position) ==
    [completed |-> epoch,
     next      |-> IF CarryFrontier THEN IncludePosition(epoch, position)
                                    ELSE StartEpoch(position)]

-----------------------------------------------------------------------------
(***************************************************************************)
(* track: the position always joins the open epoch after a possible        *)
(* boundary, and the open epoch stops being safe to commit.                *)
(***************************************************************************)
FoldPosition(position) ==
    /\ currentEpoch' = IF currentEpoch = << >> THEN StartEpoch(position)
                       ELSE IncludePosition(currentEpoch, position)
    /\ UNCHANGED stagedEpochs

CrossBoundary(position) ==
    IF currentEpoch = << >>
      THEN /\ currentEpoch' = StartEpoch(position)
           /\ UNCHANGED stagedEpochs
      ELSE LET transition == StartNextEpoch(currentEpoch, position)
           IN  /\ stagedEpochs' = Append(stagedEpochs, transition.completed)
               /\ currentEpoch' = transition.next

Track(position) ==
    /\ \E action \in OnPosition :
          \/ action = "Continue"      /\ FoldPosition(position)
          \/ action = "StartNewEpoch" /\ CrossBoundary(position)
    /\ currentEpochAcknowledged' = FALSE
    /\ tracked' = position
    /\ UNCHANGED <<policy, eligibleEpochs, committing, committed, acked>>

(***************************************************************************)
(* queue_latest, or its absence: what becomes of the open epoch once the   *)
(* policy has spoken.                                                      *)
(***************************************************************************)
QueueLatest(queue) ==
    /\ eligibleEpochs' = IF currentEpoch = << >> THEN queue
                         ELSE Append(queue, currentEpoch)
    /\ currentEpoch' = << >>
    /\ currentEpochAcknowledged' = FALSE

KeepOpen(queue, acknowledged) ==
    /\ eligibleEpochs' = queue
    /\ currentEpochAcknowledged' = acknowledged
    /\ UNCHANGED currentEpoch

(***************************************************************************)
(* acknowledge_delivery.  The policy counts the unit first; only when it   *)
(* answers Continue is a deadline that has already passed applied.         *)
(***************************************************************************)
\* Mutant: a deadline that passed during the delivery is not applied.
AcknowledgeOutcomesByCount(records) == OnAcknowledged(policy, records)

AcknowledgeOutcomes(records) ==
    LET counted == OnAcknowledged(policy, records)
        late    == {o \in counted : o.action = "Continue" /\ o.policy.deadline = "passed"}
    IN  (counted \ late) \cup UNION {OnTimeout(o.policy) : o \in late}

AcknowledgeDelivery(records) ==
    /\ stagedEpochs' = << >>
    /\ \E outcome \in AcknowledgeOutcomes(records) :
          /\ policy' = outcome.policy
          /\ IF outcome.action = "CommitLatest"
               THEN QueueLatest(eligibleEpochs \o stagedEpochs)
               ELSE KeepOpen(eligibleEpochs \o stagedEpochs, currentEpoch # << >>)
    /\ acked' = acked + records
    /\ UNCHANGED <<committing, committed, tracked>>

(***************************************************************************)
(* deadline and handle_timeout: the runner's timer between two units.      *)
(***************************************************************************)
\* Mutant: the guard is inverted, the deadline shows during a delivery only.
DeadlineInverted == IF currentEpochAcknowledged THEN "none" ELSE policy.deadline

Deadline == IF currentEpochAcknowledged THEN policy.deadline ELSE "none"

HandleTimeout ==
    /\ \E outcome \in OnTimeout(policy) :
          /\ policy' = outcome.policy
          /\ IF outcome.action = "CommitLatest"
               THEN QueueLatest(eligibleEpochs)
               ELSE KeepOpen(eligibleEpochs, currentEpochAcknowledged)
    /\ UNCHANGED <<stagedEpochs, committing, committed, tracked, acked>>

\* Time reaches the deadline of the policy, whatever the runner is doing.
DeadlinePasses ==
    /\ policy.deadline = "armed"
    /\ policy' = [policy EXCEPT !.deadline = "passed"]
    /\ UNCHANGED <<currentEpoch, stagedEpochs, eligibleEpochs, currentEpochAcknowledged,
                   committing, committed, tracked, acked>>

(***************************************************************************)
(* finish: a clean end of the stream makes everything eligible.            *)
(***************************************************************************)
\* Mutant: only the epochs already closed are committed at the end.
FinishKeepsOpen ==
    /\ stagedEpochs' = << >>
    /\ KeepOpen(eligibleEpochs \o stagedEpochs, FALSE)
    /\ UNCHANGED <<policy, committing, committed, tracked, acked>>

Finish ==
    /\ stagedEpochs' = << >>
    /\ QueueLatest(eligibleEpochs \o stagedEpochs)
    /\ UNCHANGED <<policy, committing, committed, tracked, acked>>

-----------------------------------------------------------------------------
(***************************************************************************)
(* commit_eligible: pop the oldest epoch, await Source::commit, tell the   *)
(* policy, and go on until none is left.  An error leaves the loop: the    *)
(* epoch that failed is gone from the queue and no later one is tried.     *)
(***************************************************************************)
\* Mutant: the queue is used as a stack.
PopNewest ==
    /\ committing = << >>
    /\ eligibleEpochs # << >>
    /\ committing' = <<LastOf(eligibleEpochs)>>
    /\ eligibleEpochs' = SubSeq(eligibleEpochs, 1, Len(eligibleEpochs) - 1)
    /\ UNCHANGED <<policy, currentEpoch, stagedEpochs, currentEpochAcknowledged,
                   committed, tracked, acked>>

PopEligible ==
    /\ committing = << >>
    /\ eligibleEpochs # << >>
    /\ committing' = <<Head(eligibleEpochs)>>
    /\ eligibleEpochs' = Tail(eligibleEpochs)
    /\ UNCHANGED <<policy, currentEpoch, stagedEpochs, currentEpochAcknowledged,
                   committed, tracked, acked>>

CommitSucceeds ==
    /\ committing # << >>
    /\ committed' = committed \o committing
    /\ committing' = << >>
    /\ policy' \in OnCommitted(policy)
    /\ UNCHANGED <<currentEpoch, stagedEpochs, eligibleEpochs, currentEpochAcknowledged,
                   tracked, acked>>

CommitFails ==
    /\ committing # << >>
    /\ UNCHANGED commitVars

NothingEligible == committing = << >> /\ eligibleEpochs = << >>

-----------------------------------------------------------------------------
(***************************************************************************)
(* Order: every epoch is a run of consecutive positions, and begins just   *)
(* after the one before it (no later than that, if it carries a frontier). *)
(***************************************************************************)
IsRun(epoch) == \A i \in 1 .. Len(epoch) : epoch[i] = FirstOf(epoch) + (i - 1)

Continues(through, epoch) ==
    /\ IF CarryFrontier THEN FirstOf(epoch) <= through + 1
                        ELSE FirstOf(epoch) = through + 1
    /\ through < LastOf(epoch)

\* The position that the first i epochs of a list reach.
ThroughOf(epochs, i) == IF i = 0 THEN 0 ELSE LastOf(epochs[i])

InOrder(epochs) ==
    \A i \in 1 .. Len(epochs) :
        IsRun(epochs[i]) /\ Continues(ThroughOf(epochs, i - 1), epochs[i])

Covers(epochs, position) ==
    /\ InOrder(epochs)
    /\ ThroughOf(epochs, Len(epochs)) = position
    /\ \A i \in 1 .. Len(epochs) : LastOf(epochs[i]) <= position

\* The position up to which the source has persisted progress.
CommittedThrough == ThroughOf(committed, Len(committed))

(***************************************************************************)
(* The invariant every runner keeps.  The epochs, from the committed ones  *)
(* to the open one, form one list in source order that covers exactly the  *)
(* tracked positions: every operation but track only moves the marks       *)
(* between its parts.  What has left the staged part is acknowledged.      *)
(***************************************************************************)
Acknowledged == committed \o committing \o eligibleEpochs

Closed == Acknowledged \o stagedEpochs

AllEpochs == IF currentEpoch = << >> THEN Closed ELSE Append(Closed, currentEpoch)

AcknowledgedOnly ==
    \A i \in 1 .. Len(Acknowledged) : LastOf(Acknowledged[i]) <= acked

CommitInv ==
    /\ CommitTypeOK
    /\ Covers(AllEpochs, tracked)
    /\ AcknowledgedOnly
    /\ Len(committing) <= 1
=============================================================================
