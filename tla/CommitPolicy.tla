---------------------------- MODULE CommitPolicy ----------------------------
(***************************************************************************)
(* The commit policies of policy.rs: when the acknowledged progress of a   *)
(* pipeline is persisted, and where a checkpoint epoch is closed.          *)
(*                                                                         *)
(* A policy is a record: the records acknowledged since the last commit,   *)
(* and the deadline of its timer.  Time is abstracted to what the runners  *)
(* can observe of a deadline: there is "none", it is "armed", or it has    *)
(* "passed" (deadline <= Instant::now()).                                  *)
(*                                                                         *)
(* The callbacks of the trait CommitPolicy are sets of outcomes: the       *)
(* policy afterwards and the action it asks for.  The sets have several    *)
(* members where time decides, and for a "Custom" policy, which may be     *)
(* any implementation of the trait a user writes.                          *)
(***************************************************************************)
EXTENDS Naturals

CONSTANTS
    Kind,             \* the policy the pipeline was built with
    Threshold,        \* records: NonZeroUsize of the counting policies
    UsizeMax,         \* usize::MAX, where acknowledged saturates
    EpochBoundaries   \* may on_position answer StartNewEpoch?

PolicyKinds == {"CommitEach", "AfterRecords", "AfterRecordsOrTimeout", "Custom"}

ASSUME PolicyAssumption ==
    /\ Kind \in PolicyKinds
    /\ UsizeMax \in Nat
    /\ Threshold \in 1 .. UsizeMax
    /\ EpochBoundaries \in BOOLEAN

Deadlines == {"none", "armed", "passed"}

Policy == [acknowledged : 0 .. UsizeMax, deadline : Deadlines]

CommitAction == {"Continue", "CommitLatest"}

PositionAction == {"Continue", "StartNewEpoch"}

NewPolicy == [acknowledged |-> 0, deadline |-> "none"]

(***************************************************************************)
(* on_position.  The policies of the library keep the trait's default; a   *)
(* user's policy, or one that wraps a library policy and delegates the     *)
(* rest to it, may close the open epoch before any position.               *)
(***************************************************************************)
OnPosition == IF EpochBoundaries THEN PositionAction ELSE {"Continue"}

(***************************************************************************)
(* on_acknowledged.                                                        *)
(***************************************************************************)
\* Mutant: the sum wraps around.
WrappingAdd(count, records) == (count + records) % (UsizeMax + 1)

SaturatingAdd(count, records) ==
    IF count + records > UsizeMax THEN UsizeMax ELSE count + records

\* Mutant: one record too late.
CountActionAbove(count) == IF count > Threshold THEN "CommitLatest" ELSE "Continue"

CountAction(count) == IF count >= Threshold THEN "CommitLatest" ELSE "Continue"

CommitEachOnAcknowledged(policy) ==
    {[policy |-> policy, action |-> "CommitLatest"]}

AfterRecordsOnAcknowledged(policy, records) ==
    LET count == SaturatingAdd(policy.acknowledged, records)
    IN  {[policy |-> [policy EXCEPT !.acknowledged = count],
          action |-> CountAction(count)]}

\* Mutant: every acknowledgement restarts the timer.
AfterRecordsOrTimeoutRestarts(policy, records) ==
    LET count == SaturatingAdd(policy.acknowledged, records)
    IN  {[policy |-> [acknowledged |-> count, deadline |-> "armed"],
          action |-> CountAction(count)]}

\* The first acknowledgement after a commit arms the timer; a short timeout
\* may already have passed when the runner looks at it.
AfterRecordsOrTimeoutOnAcknowledged(policy, records) ==
    LET count == SaturatingAdd(policy.acknowledged, records)
    IN  {[policy |-> [acknowledged |-> count, deadline |-> deadline],
          action |-> CountAction(count)] :
            deadline \in IF policy.deadline = "none"
                           THEN {"armed", "passed"} ELSE {policy.deadline}}

CustomOnAcknowledged(policy) ==
    {[policy |-> [policy EXCEPT !.deadline = deadline], action |-> action] :
        deadline \in Deadlines, action \in CommitAction}

OnAcknowledged(policy, records) ==
    CASE Kind = "CommitEach"            -> CommitEachOnAcknowledged(policy)
      [] Kind = "AfterRecords"          -> AfterRecordsOnAcknowledged(policy, records)
      [] Kind = "AfterRecordsOrTimeout" -> AfterRecordsOrTimeoutOnAcknowledged(policy, records)
      [] Kind = "Custom"                -> CustomOnAcknowledged(policy)

(***************************************************************************)
(* on_timeout.  The default commits; a user's policy that answers Continue *)
(* must clear or advance its deadline, as the trait's comment demands.     *)
(***************************************************************************)
CustomOnTimeout(policy) ==
    {[policy |-> [policy EXCEPT !.deadline = deadline], action |-> "CommitLatest"] :
        deadline \in Deadlines}
      \cup
    {[policy |-> [policy EXCEPT !.deadline = deadline], action |-> "Continue"] :
        deadline \in Deadlines \ {"passed"}}

OnTimeout(policy) ==
    IF Kind = "Custom" THEN CustomOnTimeout(policy)
                       ELSE {[policy |-> policy, action |-> "CommitLatest"]}

(***************************************************************************)
(* on_committed, called once for every persisted epoch.                    *)
(***************************************************************************)
\* Mutant: the commit stops the timer but does not reset the count.
OnCommittedKeepsCount(policy) == {[policy EXCEPT !.deadline = "none"]}

OnCommitted(policy) ==
    CASE Kind = "CommitEach"            -> {policy}
      [] Kind = "AfterRecords"          -> {[policy EXCEPT !.acknowledged = 0]}
      [] Kind = "AfterRecordsOrTimeout" -> {NewPolicy}
      [] Kind = "Custom"                -> {[policy EXCEPT !.deadline = deadline] :
                                                deadline \in Deadlines}
=============================================================================
