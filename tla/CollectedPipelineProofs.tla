----------------------- MODULE CollectedPipelineProofs -----------------------
(***************************************************************************)
(* For every set of collectors, policy, threshold, size of a collection    *)
(* and length of the stream: the sessions of a unit hold the same records, *)
(* and with that the runner keeps the promise of AckedProgress.            *)
(***************************************************************************)
EXTENDS CollectedPipeline, CommitStateProofs

-----------------------------------------------------------------------------
(***************************************************************************)
(* The inductive invariant.                                                *)
(***************************************************************************)

\* The records of the collection under way.
Members == (acked + 1) .. tracked

\* Between two units the sessions of the last one are gone.
Idle == {"next", "committing", "finishing", "done"}

\* What each control point knows of one session.
SessionOK(s) ==
    /\ pc \in Idle => session[s] = "none"
    /\ pc \in Idle \cup {"beginning"} => pushed[s] = {}
    /\ pc = "beginning" => session[s] \in {"beginning", "open", "failed"}
    /\ pc = "pushing" =>
          /\ session[s] \in {"pushing", "open", "failed"}
          /\ session[s] = "pushing" => pushed[s] = (acked + 1) .. (tracked - 1)
          /\ session[s] = "open" => pushed[s] = Members
    /\ pc = "gathering" => session[s] = "open"
    /\ pc = "finish" => session[s] \in {"finishing", "finished", "failed", "panicked"}
    /\ pc \in {"gathering", "finish"} => pushed[s] = Members
    /\ session[s] \in {"finishing", "finished"} => pushed[s] = Members /\ acked < tracked
    /\ session[s] = "finished" => pushed[s] \subseteq accepted[s]
    /\ 1 .. acked \subseteq accepted[s]

\* What it knows of the unit.
Control ==
    /\ pc \in Idle \cup {"beginning"} => tracked = acked /\ stagedEpochs = << >>
    /\ pc = "pushing" => count < CollectSize /\ tracked = acked + count + 1
    /\ pc = "gathering" => count \in 1 .. (CollectSize - 1)
    /\ pc = "finish" => count > 0
    /\ pc \in {"gathering", "finish"} => tracked = acked + count
    /\ pc = "done" => NothingEligible
    /\ pc \in {"finishing", "done"} => currentEpoch = << >>

CollectedInv ==
    /\ TypeOK
    /\ CommitInv
    /\ Control
    /\ \A s \in Sinks : SessionOK(s)

-----------------------------------------------------------------------------
(***************************************************************************)
(* The parts of the invariant that a step leaves alone.                    *)
(***************************************************************************)

\* A step that leaves the epochs alone.
LEMMA EpochsKept ==
    ASSUME CollectedInv, UNCHANGED commitVars
    PROVE  CommitInv' /\ CommitTypeOK'
<1>1. CommitInv'
  BY SameEpochsInv DEF CollectedInv, CommitInv, CommitTypeOK, commitVars
<1> QED
  BY <1>1 DEF CommitInv

\* A step of the commit loop or between two units: the sessions, and what is
\* tracked and acknowledged, stay.
LEMMA IdleSessions ==
    ASSUME CollectedInv, UNCHANGED <<collectionVars, tracked, acked>>,
           pc \in Idle, pc' \in Idle \cup {"failed"}
    PROVE  /\ CollectionsTypeOK'
           /\ \A s \in Sinks : SessionOK(s)'
<1>1. CollectionsTypeOK'
  BY DEF CollectedInv, TypeOK, CollectionsTypeOK, collectionVars
<1>2. ASSUME NEW s \in Sinks
      PROVE  SessionOK(s)'
  <2>1. /\ session[s] = "none" /\ pushed[s] = {}
        /\ 1 .. acked \subseteq accepted[s]
    BY DEF CollectedInv, SessionOK
  <2> QED
    BY <2>1 DEF SessionOK, Idle, collectionVars
<1> QED
  BY <1>1, <1>2

\* A step that returns an error and leaves the sessions as they are, or drops
\* them.
LEMMA FailedSessionsInv ==
    ASSUME CollectedInv, pc' = "failed", UNCHANGED <<tracked, acked>>,
           UNCHANGED collectionVars \/ DropSessions
    PROVE  /\ CollectionsTypeOK'
           /\ \A s \in Sinks : SessionOK(s)'
<1>1. CollectionsTypeOK'
  BY DEF CollectedInv, TypeOK, CollectionsTypeOK, collectionVars, DropSessions, SessionStates
<1>2. ASSUME NEW s \in Sinks
      PROVE  SessionOK(s)'
  <2>1. SessionOK(s)
    BY DEF CollectedInv
  <2>2. CASE UNCHANGED collectionVars
    BY <2>1, <2>2 DEF SessionOK, Members, Idle, collectionVars
  <2>3. CASE DropSessions
    BY <2>1, <2>3 DEF SessionOK, Idle, DropSessions
  <2> QED
    BY <2>2, <2>3
<1> QED
  BY <1>1, <1>2

\* When every session has answered, and none has failed, the pushes of a
\* record have reached them all.
LEMMA AllOpen ==
    ASSUME CollectedInv, AllAnswered, FailedSessions = {}, pc \in {"beginning", "pushing"}
    PROVE  \A s \in Sinks : session[s] = "open"
  BY DEF CollectedInv, SessionOK, AllAnswered, FailedSessions, Calls

-----------------------------------------------------------------------------
\* The run begins in the invariant.
LEMMA CollectedInitInv == Init => CollectedInv
<1> SUFFICES ASSUME Init PROVE CollectedInv
  OBVIOUS
<1>1. CommitInv /\ CommitTypeOK
  BY CommitInitInv DEF Init, CommitInv
<1>2. CollectionsTypeOK
  BY DEF Init, CollectionsInit, CollectionsTypeOK, SessionStates
<1>3. TypeOK
  <2>1. first \in Items /\ collectTimer \in Deadlines /\ ended \in BOOLEAN
    BY DEF Init, Items, Deadlines
  <2>2. count \in 0 .. CollectSize
    BY CollectedAssumption, PolicyAssumption DEF Init
  <2>3. pc \in PCs /\ failure \in Errors
    BY DEF Init, PCs, Errors
  <2> QED
    BY <1>1, <1>2, <2>1, <2>2, <2>3 DEF TypeOK
<1>4. Control
  BY DEF Init, CommitInit, Control, NothingEligible, Idle
<1>5. \A s \in Sinks : SessionOK(s)
  BY DEF Init, CommitInit, CollectionsInit, SessionOK, Idle
<1> QED
  BY <1>1, <1>3, <1>4, <1>5 DEF CollectedInv

-----------------------------------------------------------------------------
(***************************************************************************)
(* Opening a collection and filling it.                                    *)
(***************************************************************************)

\* FirstItem: the collectors begin.
LEMMA FirstItemInv ==
    ASSUME CollectedInv, FirstItem
    PROVE  CollectedInv'
<1>1. /\ pc = "next" /\ pc' = "beginning" /\ failure' = failure
      /\ first' \in Items
      /\ session' = [s \in Sinks |-> "beginning"] /\ UNCHANGED <<pushed, accepted>>
      /\ UNCHANGED <<commitVars, count, collectTimer, ended>>
  BY DEF FirstItem, BeginCollections, CallAll, Goto, Items
<1>2. CommitInv' /\ CommitTypeOK'
  BY <1>1, EpochsKept
<1>3. TypeOK'
  BY <1>1, <1>2 DEF CollectedInv, TypeOK, CollectionsTypeOK, SessionStates, Calls, PCs
<1>4. Control'
  BY <1>1 DEF CollectedInv, Control, Idle, commitVars
<1>5. \A s \in Sinks : SessionOK(s)'
  BY <1>1 DEF CollectedInv, SessionOK, Idle, commitVars
<1> QED
  BY <1>2, <1>3, <1>4, <1>5 DEF CollectedInv

\* PushFirst and PushFurther: the next position is tracked, and its record goes
\* to every session.
LEMMA PushNextInv ==
    ASSUME CollectedInv, PushNext, AllAnswered, FailedSessions = {},
           \/ pc = "beginning" /\ count' = 0
           \/ pc = "gathering" /\ count' = count,
           first' \in Items, collectTimer' \in Deadlines, ended' \in BOOLEAN
    PROVE  CollectedInv'
<1>1. /\ Track(tracked + 1)
      /\ tracked' = tracked + 1 /\ acked' = acked
      /\ session' = [s \in Sinks |-> "pushing"] /\ UNCHANGED <<pushed, accepted>>
      /\ pc' = "pushing" /\ failure' = failure
  BY DEF PushNext, Track, PushAll, CallAll, Goto
<1>2. CommitInv' /\ CommitTypeOK'
  BY <1>1, TrackInv DEF CollectedInv, CommitInv
<1>3. /\ tracked \in Nat /\ acked \in Nat
      /\ CollectSize \in Nat \ {0} /\ count \in Nat
  BY CollectedAssumption, PolicyAssumption DEF CollectedInv, TypeOK, CommitTypeOK
<1>4. /\ tracked = acked + count'
      /\ count' \in Nat /\ count' < CollectSize
  BY <1>3 DEF CollectedInv, Control
<1>5. TypeOK'
  BY <1>1, <1>2, <1>3, <1>4
     DEF CollectedInv, TypeOK, CollectionsTypeOK, SessionStates, Calls, PCs
<1>6. Control'
  BY <1>1, <1>3, <1>4 DEF Control, Idle
<1>7. ASSUME NEW s \in Sinks
      PROVE  SessionOK(s)'
  <2>1. 1 .. acked \subseteq accepted[s]
    BY DEF CollectedInv, SessionOK
  <2>2. pushed[s] = (acked + 1) .. tracked
    <3>1. CASE pc = "beginning"
      <4>1. pushed[s] = {} /\ tracked = acked
        BY <3>1 DEF CollectedInv, SessionOK, Control
      <4> QED
        BY <1>3, <4>1
    <3>2. CASE pc = "gathering"
      BY <3>2 DEF CollectedInv, SessionOK, Members
    <3> QED
      BY <3>1, <3>2
  <2>3. tracked' - 1 = tracked
    BY <1>1, <1>3
  <2> QED
    BY <1>1, <2>1, <2>2, <2>3 DEF SessionOK, Idle
<1> QED
  BY <1>2, <1>5, <1>6, <1>7 DEF CollectedInv

LEMMA PushFirstInv ==
    ASSUME CollectedInv, PushFirst
    PROVE  CollectedInv'
  BY PushNextInv DEF PushFirst, CollectedInv, TypeOK, Items, Deadlines

LEMMA PushFurtherInv ==
    ASSUME CollectedInv, PushFurther
    PROVE  CollectedInv'
<1>1. AllAnswered /\ FailedSessions = {}
  BY DEF PushFurther, CollectedInv, SessionOK, AllAnswered, FailedSessions, Calls
<1> QED
  BY <1>1, PushNextInv DEF PushFurther, CollectedInv, TypeOK, collectVars

\* Begin, Push and FinishSession: one collector answers.
LEMMA SessionInv ==
    ASSUME CollectedInv, NEW s \in Sinks, Begin(s) \/ Push(s) \/ FinishSession(s)
    PROVE  CollectedInv'
<1>1. UNCHANGED <<commitVars, collectVars, pc, failure>>
  BY DEF Begin, Push, FinishSession
<1>2. CommitInv' /\ CommitTypeOK'
  BY <1>1, EpochsKept
<1>3. /\ tracked \in Nat /\ acked \in Nat /\ CollectionsTypeOK
      /\ \A t \in Sinks : SessionOK(t)
  BY DEF CollectedInv, TypeOK, CommitTypeOK
<1>4. /\ \E answer \in SessionStates : session' = [session EXCEPT ![s] = answer]
      /\ pushed' = pushed \/ pushed' = [pushed EXCEPT ![s] = @ \cup {tracked}]
      /\ accepted' = accepted \/ accepted' = [accepted EXCEPT ![s] = @ \cup pushed[s]]
  BY DEF Begin, Push, FinishSession, Begun, Pushed, Finished, Refused, Panicked, Answered,
         SessionStates, Calls
<1>5. CollectionsTypeOK'
  BY <1>3, <1>4 DEF CollectionsTypeOK
<1>6. TypeOK'
  BY <1>1, <1>2, <1>5 DEF CollectedInv, TypeOK, collectVars
<1>7. Control'
  BY <1>1 DEF CollectedInv, Control, NothingEligible, Idle, commitVars, collectVars
<1>8. ASSUME NEW t \in Sinks
      PROVE  SessionOK(t)'
  <2>1. /\ SessionOK(t)
        /\ UNCHANGED <<tracked, acked, pc>>
    BY <1>1, <1>3 DEF commitVars
  <2>2. CASE t # s
    <3>1. session'[t] = session[t] /\ pushed'[t] = pushed[t] /\ accepted'[t] = accepted[t]
      BY <1>3, <1>4, <2>2 DEF CollectionsTypeOK
    <3> QED
      BY <2>1, <3>1 DEF SessionOK, Members
  <2>3. CASE t = s /\ Begin(s)
    <3>1. /\ pc = "beginning" /\ session'[s] \in {"open", "failed"}
          /\ UNCHANGED <<pushed, accepted>>
      BY <1>3, <2>3 DEF Begin, Begun, Refused, Answered, CollectionsTypeOK
    <3> QED
      BY <2>1, <2>3, <3>1 DEF SessionOK, Idle
  <2>4. CASE t = s /\ Push(s)
    <3>1. /\ pc = "pushing" /\ accepted' = accepted
          /\ \/ /\ session[s] = "pushing" /\ session'[s] = "open"
                /\ pushed'[s] = pushed[s] \cup {tracked}
             \/ session'[s] = "failed" /\ pushed' = pushed
      BY <1>3, <2>4 DEF Push, Pushed, Refused, Answered, CollectionsTypeOK
    <3>2. tracked > acked
      BY <1>3, <3>1, CollectedAssumption, PolicyAssumption
         DEF CollectedInv, Control, TypeOK
    <3>3. session'[s] = "open" => pushed'[s] = (acked + 1) .. tracked
      <4> SUFFICES ASSUME session'[s] = "open"
                   PROVE  pushed'[s] = (acked + 1) .. tracked
        OBVIOUS
      <4>1. pushed'[s] = ((acked + 1) .. (tracked - 1)) \cup {tracked}
        BY <2>1, <2>4, <3>1 DEF SessionOK
      <4> QED
        BY <1>3, <3>2, <4>1
    <3> QED
      BY <2>1, <2>4, <3>1, <3>3 DEF SessionOK, Members, Idle
  <2>5. CASE t = s /\ FinishSession(s)
    <3>1. /\ pc = "finish" /\ pushed' = pushed
          /\ \/ /\ session[s] = "finishing" /\ session'[s] = "finished"
                /\ accepted'[s] = accepted[s] \cup pushed[s]
             \/ session'[s] \in {"failed", "panicked"} /\ accepted' = accepted
      BY <1>3, <2>5
         DEF FinishSession, Finished, Refused, Panicked, Answered, CollectionsTypeOK
    <3> QED
      BY <2>1, <2>5, <3>1 DEF SessionOK, Members, Idle
  <2> QED
    BY <2>2, <2>3, <2>4, <2>5
<1> QED
  BY <1>2, <1>6, <1>7, <1>8 DEF CollectedInv

\* finish() is called on every session: they all hold the unit.
LEMMA FinishCallsInv ==
    ASSUME CollectedInv, FinishCollections, Goto("finish"),
           UNCHANGED <<commitVars, first>>,
           collectTimer' \in Deadlines, ended' \in BOOLEAN,
           count' \in 1 .. CollectSize, tracked = acked + count', acked < tracked,
           \A s \in Sinks : pushed[s] = Members
    PROVE  CollectedInv'
<1>1. /\ session' = [s \in Sinks |-> "finishing"] /\ UNCHANGED <<pushed, accepted>>
      /\ pc' = "finish" /\ failure' = failure
  BY DEF FinishCollections, CallAll, Goto
<1>2. CommitInv' /\ CommitTypeOK'
  BY EpochsKept
<1>3. /\ tracked' = tracked /\ acked' = acked /\ acked \in Nat
      /\ CollectSize \in Nat \ {0}
  BY CollectedAssumption, PolicyAssumption DEF commitVars, CollectedInv, TypeOK, CommitTypeOK
<1>4. TypeOK'
  BY <1>1, <1>2, <1>3 DEF CollectedInv, TypeOK, CollectionsTypeOK, SessionStates, Calls, PCs
<1>5. Control'
  BY <1>1, <1>3 DEF Control, Idle
<1>6. \A s \in Sinks : SessionOK(s)'
  BY <1>1, <1>3 DEF CollectedInv, SessionOK, Members, Idle
<1> QED
  BY <1>2, <1>4, <1>5, <1>6 DEF CollectedInv

\* PushDone: every session has the record.
LEMMA PushDoneInv ==
    ASSUME CollectedInv, PushDone
    PROVE  CollectedInv'
<1>1. /\ pc = "pushing" /\ AllAnswered /\ FailedSessions = {}
      /\ count' = count + 1
      /\ UNCHANGED <<commitVars, first, collectTimer, ended>>
  BY DEF PushDone
<1>2. /\ count < CollectSize /\ tracked = acked + count + 1
      /\ count \in Nat /\ CollectSize \in Nat \ {0} /\ acked \in Nat
  BY <1>1, CollectedAssumption, PolicyAssumption
     DEF CollectedInv, Control, TypeOK, CommitTypeOK
<1>3. \A s \in Sinks : session[s] = "open" /\ pushed[s] = Members
  <2>1. \A s \in Sinks : session[s] = "open"
    BY <1>1, AllOpen
  <2> QED
    BY <1>1, <2>1 DEF CollectedInv, SessionOK
<1>4. CASE count' = CollectSize
  <2>1. FinishCollections /\ Goto("finish")
    BY <1>4 DEF PushDone
  <2>2. count' \in 1 .. CollectSize /\ tracked = acked + count' /\ acked < tracked
    BY <1>1, <1>2
  <2>3. collectTimer' \in Deadlines /\ ended' \in BOOLEAN
    BY <1>1 DEF CollectedInv, TypeOK
  <2> QED
    BY <1>1, <1>3, <2>1, <2>2, <2>3, FinishCallsInv
<1>5. CASE count' # CollectSize
  <2>1. UNCHANGED <<collectionVars, failure>> /\ pc' = "gathering"
    BY <1>5 DEF PushDone, Goto
  <2>2. CommitInv' /\ CommitTypeOK'
    BY <1>1, EpochsKept
  <2>3. count' \in 1 .. (CollectSize - 1) /\ tracked = acked + count'
    BY <1>1, <1>2, <1>5
  <2>4. TypeOK'
    BY <1>1, <1>2, <2>1, <2>2, <2>3
       DEF CollectedInv, TypeOK, CollectionsTypeOK, collectionVars, PCs
  <2>5. Control'
    BY <1>1, <2>1, <2>3 DEF Control, Idle, commitVars
  <2>6. \A s \in Sinks : SessionOK(s)'
    BY <1>1, <1>3, <2>1 DEF CollectedInv, SessionOK, Members, Idle, commitVars, collectionVars
  <2> QED
    BY <2>2, <2>4, <2>5, <2>6 DEF CollectedInv
<1> QED
  BY <1>4, <1>5

\* GatherEnds: the collection is finished before it is full.
LEMMA GatherEndsInv ==
    ASSUME CollectedInv, GatherEnds
    PROVE  CollectedInv'
<1>1. /\ pc = "gathering"
      /\ FinishCollections /\ Goto("finish")
      /\ UNCHANGED <<commitVars, first, count, collectTimer>>
      /\ ended' \in BOOLEAN
  BY DEF GatherEnds, CollectedInv, TypeOK
<1>2. count' \in 1 .. CollectSize /\ tracked = acked + count' /\ acked < tracked
  BY <1>1, CollectedAssumption, PolicyAssumption
     DEF CollectedInv, Control, TypeOK, CommitTypeOK
<1>3. \A s \in Sinks : pushed[s] = Members
  BY <1>1 DEF CollectedInv, SessionOK
<1>4. collectTimer' \in Deadlines
  BY <1>1 DEF CollectedInv, TypeOK
<1> QED
  BY <1>1, <1>2, <1>3, <1>4, FinishCallsInv

\* The run returns an error: a collector failed, the stream did, or a commit.
LEMMA RunFailsInv ==
    ASSUME CollectedInv,
           BeginFails \/ FirstFails \/ PushFails \/ GatherFails \/ FinishFails \/ CommitErr
    PROVE  CollectedInv'
<1>1. /\ UNCHANGED <<commitVars, collectVars>>
      /\ UNCHANGED collectionVars \/ DropSessions
      /\ pc' = "failed" /\ failure' \in {"Source", "Transform", "Sinks", "Commit"}
  BY DEF BeginFails, FirstFails, PushFails, GatherFails, FinishFails, CommitErr, CommitFails,
         StreamFails, Fail
<1>2. CommitInv' /\ CommitTypeOK'
  BY <1>1, EpochsKept
<1>3. CollectionsTypeOK' /\ \A s \in Sinks : SessionOK(s)'
  BY <1>1, FailedSessionsInv DEF commitVars
<1>4. TypeOK'
  BY <1>1, <1>2, <1>3 DEF CollectedInv, TypeOK, collectVars, PCs, Errors
<1>5. Control'
  BY <1>1 DEF Control, Idle
<1> QED
  BY <1>2, <1>3, <1>4, <1>5 DEF CollectedInv

-----------------------------------------------------------------------------
(***************************************************************************)
(* Finishing it, committing, and time.                                     *)
(***************************************************************************)

\* CollectionFinished: every collector has finished, the unit is acknowledged.
LEMMA CollectionFinishedInv ==
    ASSUME CollectedInv, CollectionFinished
    PROVE  CollectedInv'
<1>1. /\ AcknowledgeDelivery(count)
      /\ pc = "finish" /\ pc' = "committing" /\ failure' = failure
      /\ AllAnswered /\ FailedSessions = {}
      /\ session' = [s \in Sinks |-> "none"] /\ pushed' = [s \in Sinks |-> {}]
      /\ accepted' = accepted
      /\ collectTimer' = "none"
      /\ acked' = acked + count /\ tracked' = tracked /\ stagedEpochs' = << >>
      /\ UNCHANGED <<first, count, ended>>
  BY DEF CollectionFinished, Goto, DropSessions, AcknowledgeDelivery
<1>2. /\ tracked = acked + count /\ acked \in Nat /\ count \in Nat /\ tracked \in Nat
  BY <1>1, CollectedAssumption, PolicyAssumption
     DEF CollectedInv, Control, TypeOK, CommitTypeOK
<1>3. CommitInv' /\ CommitTypeOK'
  BY <1>1, <1>2, AcknowledgeInv DEF CollectedInv, CommitInv
<1>4. TypeOK'
  BY <1>1, <1>3
     DEF CollectedInv, TypeOK, CollectionsTypeOK, SessionStates, PCs, Deadlines
<1>5. Control'
  BY <1>1, <1>2 DEF Control, Idle
<1>6. ASSUME NEW s \in Sinks
      PROVE  SessionOK(s)'
  <2>1. session[s] = "finished"
    BY <1>1 DEF CollectedInv, SessionOK, AllAnswered, FailedSessions, Calls
  <2>2. (acked + 1) .. tracked \subseteq accepted[s] /\ 1 .. acked \subseteq accepted[s]
    BY <2>1 DEF CollectedInv, SessionOK, Members
  <2>3. 1 .. acked' \subseteq accepted[s]
    BY <1>1, <1>2, <2>2
  <2> QED
    BY <1>1, <2>3 DEF SessionOK, Idle
<1> QED
  BY <1>3, <1>4, <1>5, <1>6 DEF CollectedInv

\* NextEnds and CommitTimer: the end of the stream, or the commit deadline,
\* between two units.
LEMMA BetweenUnitsInv ==
    ASSUME CollectedInv, NextEnds \/ CommitTimer
    PROVE  CollectedInv'
<1>1. /\ UNCHANGED <<collectionVars, collectVars, failure, tracked, acked>>
      /\ pc = "next" /\ stagedEpochs' = << >>
      /\ tracked = acked /\ stagedEpochs = << >>
      /\ \/ Finish /\ pc' = "finishing"
         \/ HandleTimeout /\ pc' = "committing"
  BY DEF NextEnds, CommitTimer, Goto, Finish, HandleTimeout, CollectedInv, Control, Idle
<1>2. /\ CommitInv' /\ CommitTypeOK'
      /\ pc' = "finishing" => currentEpoch' = << >>
  BY <1>1, FinishInv, HandleTimeoutInv DEF CollectedInv, CommitInv
<1>3. CollectionsTypeOK' /\ \A s \in Sinks : SessionOK(s)'
  BY <1>1, IdleSessions DEF Idle
<1>4. TypeOK'
  BY <1>1, <1>2, <1>3 DEF CollectedInv, TypeOK, collectVars, PCs
<1>5. Control'
  BY <1>1, <1>2 DEF Control, Idle
<1> QED
  BY <1>2, <1>3, <1>4, <1>5 DEF CollectedInv

\* CommitNext and CommitOk: an epoch goes to Source::commit, and is persisted.
LEMMA CommitStepInv ==
    ASSUME CollectedInv, CommitNext \/ CommitOk
    PROVE  CollectedInv'
<1>1. /\ PopEligible \/ CommitSucceeds
      /\ UNCHANGED <<collectionVars, collectVars, pc, failure>>
      /\ UNCHANGED <<tracked, acked, stagedEpochs, currentEpoch>>
      /\ pc \in {"committing", "finishing"}
  BY DEF CommitNext, PopEligible, CommitOk, CommitSucceeds
<1>2. CommitInv' /\ CommitTypeOK'
  BY <1>1, PopEligibleInv, CommitSucceedsInv DEF CollectedInv, CommitInv
<1>3. CollectionsTypeOK' /\ \A s \in Sinks : SessionOK(s)'
  BY <1>1, IdleSessions DEF Idle
<1>4. TypeOK'
  BY <1>1, <1>2, <1>3 DEF CollectedInv, TypeOK, collectVars
<1>5. Control'
  BY <1>1 DEF CollectedInv, Control, Idle
<1> QED
  BY <1>2, <1>3, <1>4, <1>5 DEF CollectedInv

\* CommitDone: nothing is left to commit; a stream that ended inside the
\* collection is finished.
LEMMA CommitDoneInv ==
    ASSUME CollectedInv, CommitDone
    PROVE  CollectedInv'
<1>1. /\ UNCHANGED <<collectionVars, collectVars, failure, tracked, acked>>
      /\ NothingEligible
      /\ \/ pc = "committing" /\ pc' = "finishing" /\ Finish
         \/ pc = "committing" /\ pc' = "next" /\ UNCHANGED commitVars
         \/ pc = "finishing" /\ pc' = "done" /\ UNCHANGED commitVars
  BY DEF CommitDone, Goto, Finish, commitVars
<1>2. tracked = acked /\ stagedEpochs = << >>
  BY <1>1 DEF CollectedInv, Control, Idle
<1>3. /\ CommitInv' /\ CommitTypeOK'
      /\ stagedEpochs' = << >>
      /\ pc' = "finishing" => currentEpoch' = << >>
  <2>1. CASE Finish
    BY <1>2, <2>1, FinishInv DEF CollectedInv, CommitInv, Finish
  <2>2. CASE pc' # "finishing" /\ UNCHANGED commitVars
    BY <1>2, <2>2, EpochsKept DEF commitVars
  <2> QED
    BY <1>1, <2>1, <2>2
<1>4. CollectionsTypeOK' /\ \A s \in Sinks : SessionOK(s)'
  BY <1>1, IdleSessions DEF Idle
<1>5. TypeOK'
  BY <1>1, <1>3, <1>4 DEF CollectedInv, TypeOK, collectVars, PCs
<1>6. Control'
  <2>1. pc' = "done" => NothingEligible' /\ currentEpoch' = << >>
    BY <1>1 DEF CollectedInv, Control, NothingEligible, commitVars
  <2> QED
    BY <1>1, <1>2, <1>3, <2>1 DEF Control, Idle
<1> QED
  BY <1>3, <1>4, <1>5, <1>6 DEF CollectedInv

\* Tick: the policy's deadline passes.
LEMMA TickInv ==
    ASSUME CollectedInv, Tick
    PROVE  CollectedInv'
<1>1. /\ UNCHANGED <<collectionVars, collectVars, pc, failure>>
      /\ UNCHANGED <<currentEpoch, stagedEpochs, eligibleEpochs, currentEpochAcknowledged,
                     committing, committed, tracked, acked>>
      /\ policy' = [policy EXCEPT !.deadline = "passed"]
  BY DEF Tick, DeadlinePasses
<1>2. policy' \in Policy
  BY <1>1 DEF CollectedInv, CommitInv, CommitTypeOK, Policy, Deadlines
<1>3. CommitInv' /\ CommitTypeOK'
  BY <1>1, <1>2, SameEpochsInv DEF CollectedInv, CommitInv
<1>4. TypeOK'
  BY <1>1, <1>3 DEF CollectedInv, TypeOK, CollectionsTypeOK, collectionVars, collectVars
<1>5. Control'
  BY <1>1 DEF CollectedInv, Control, NothingEligible, Idle, collectVars
<1>6. \A s \in Sinks : SessionOK(s)'
  BY <1>1 DEF CollectedInv, SessionOK, Members, Idle, collectionVars
<1> QED
  BY <1>3, <1>4, <1>5, <1>6 DEF CollectedInv

\* CollectTick, a step after the run has returned, and a stuttering step: at
\* most the collection's timer moves.
LEMMA StillInv ==
    ASSUME CollectedInv, CollectTick \/ Terminated \/ UNCHANGED vars
    PROVE  CollectedInv'
<1>1. /\ UNCHANGED <<commitVars, collectionVars, first, count, ended, pc, failure>>
      /\ collectTimer' \in Deadlines
  BY DEF CollectTick, Terminated, vars, collectVars, CollectedInv, TypeOK, Deadlines
<1>2. CommitInv' /\ CommitTypeOK'
  BY <1>1, EpochsKept
<1>3. TypeOK'
  BY <1>1, <1>2 DEF CollectedInv, TypeOK, CollectionsTypeOK, collectionVars
<1>4. Control'
  BY <1>1 DEF CollectedInv, Control, NothingEligible, Idle, commitVars
<1>5. \A s \in Sinks : SessionOK(s)'
  BY <1>1 DEF CollectedInv, SessionOK, Members, Idle, collectionVars, commitVars
<1> QED
  BY <1>2, <1>3, <1>4, <1>5 DEF CollectedInv

-----------------------------------------------------------------------------
\* Every step keeps the invariant.
LEMMA CollectedStepInv == CollectedInv /\ [Next]_vars => CollectedInv'
<1> SUFFICES ASSUME CollectedInv, [Next]_vars PROVE CollectedInv'
  OBVIOUS
<1>1. CASE FirstItem
  BY <1>1, FirstItemInv
<1>2. CASE NextEnds \/ CommitTimer
  BY <1>2, BetweenUnitsInv
<1>3. CASE \E s \in Sinks : Begin(s) \/ Push(s) \/ FinishSession(s)
  BY <1>3, SessionInv
<1>4. CASE BeginFails \/ FirstFails \/ PushFails \/ GatherFails \/ FinishFails \/ CommitErr
  BY <1>4, RunFailsInv
<1>5. CASE PushFirst
  BY <1>5, PushFirstInv
<1>6. CASE PushDone
  BY <1>6, PushDoneInv
<1>7. CASE PushFurther
  BY <1>7, PushFurtherInv
<1>8. CASE GatherEnds
  BY <1>8, GatherEndsInv
<1>9. CASE CollectionFinished
  BY <1>9, CollectionFinishedInv
<1>10. CASE CommitNext \/ CommitOk
  BY <1>10, CommitStepInv
<1>11. CASE CommitDone
  BY <1>11, CommitDoneInv
<1>12. CASE Tick
  BY <1>12, TickInv
<1>13. CASE CollectTick \/ Terminated \/ UNCHANGED vars
  BY <1>13, StillInv
<1> QED
  BY <1>1, <1>2, <1>3, <1>4, <1>5, <1>6, <1>7, <1>8, <1>9, <1>10, <1>11, <1>12, <1>13 DEF Next

\* The inductive invariant holds in every reachable state: each control point
\* knows what every session holds.
THEOREM CollectedInvariant == Spec => []CollectedInv
<1>1. Init => CollectedInv
  BY CollectedInitInv
<1>2. CollectedInv /\ [Next]_vars => CollectedInv'
  BY CollectedStepInv
<1> QED
  BY <1>1, <1>2, PTL DEF Spec

-----------------------------------------------------------------------------
(***************************************************************************)
(* What follows from it.                                                   *)
(***************************************************************************)

\* Type correctness, whatever the policy and the size of a collection.
THEOREM CollectedTypes == Spec => []TypeOK
<1>1. CollectedInv => TypeOK
  BY DEF CollectedInv
<1> QED
  BY <1>1, CollectedInvariant, PTL

\* No position reaches Source::commit before every collector has finished a
\* collection that holds its record.
THEOREM CollectionsAtLeastOnce == Spec => []CommittedIsDurable
<1>1. ASSUME CollectedInv
      PROVE  CommittedIsDurable
  <2>1. \A i \in DOMAIN Handed : \A j \in DOMAIN Handed[i] : Handed[i][j] \in 1 .. acked
    BY <1>1, HandedAcknowledged DEF CollectedInv, Handed
  <2>2. \A s \in Sinks : 1 .. acked \subseteq accepted[s]
    BY <1>1 DEF CollectedInv, SessionOK
  <2> QED
    BY <2>1, <2>2 DEF CommittedIsDurable
<1> QED
  BY <1>1, CollectedInvariant, PTL

\* finish() is called on whole collections only: every session then holds the
\* records tracked since the last acknowledgement, and there is one at least.
THEOREM WholeCollections == Spec => []WholeCollectionsFinish
<1>1. ASSUME CollectedInv
      PROVE  WholeCollectionsFinish
  <2>1. tracked \in Nat /\ acked \in Nat
    BY <1>1 DEF CollectedInv, TypeOK, CommitTypeOK
  <2>2. ASSUME NEW s \in Sinks, session[s] \in {"finishing", "finished"}
        PROVE  pushed[s] = (acked + 1) .. tracked /\ pushed[s] # {}
    <3>1. pushed[s] = (acked + 1) .. tracked /\ acked < tracked
      BY <1>1, <2>2 DEF CollectedInv, SessionOK, Members
    <3>2. tracked \in (acked + 1) .. tracked
      BY <2>1, <3>1
    <3> QED
      BY <3>1, <3>2
  <2> QED
    BY <2>2 DEF WholeCollectionsFinish
<1> QED
  BY <1>1, CollectedInvariant, PTL

\* A deadline that passed while a collection was under way closes the open
\* epoch with it, whatever the count says.
THEOREM DeadlineClosesUnit == Spec => PassedDeadlineIncludesUnit
<1> DEFINE Includes == Kind = "AfterRecordsOrTimeout" /\ policy.deadline = "passed"
                         /\ acked' > acked => currentEpoch' = << >>
<1>1. ASSUME CollectedInv, [Next]_vars
      PROVE  Includes
  <2>1. acked \in Nat
    BY <1>1 DEF CollectedInv, TypeOK, CommitTypeOK
  <2>2. CASE CollectionFinished
    <3> SUFFICES ASSUME Kind = "AfterRecordsOrTimeout", policy.deadline = "passed"
                 PROVE  currentEpoch' = << >>
      OBVIOUS
    <3>1. \A o \in OnAcknowledged(policy, count) : o.policy.deadline = "passed"
      BY DEF OnAcknowledged, AfterRecordsOrTimeoutOnAcknowledged
    <3>2. \A o \in OnAcknowledged(policy, count) :
            o.action # "Continue" => o.action = "CommitLatest"
      BY DEF OnAcknowledged, AfterRecordsOrTimeoutOnAcknowledged, CountAction
    <3>3. \A o \in OnAcknowledged(policy, count) :
            \A t \in OnTimeout(o.policy) : t.action = "CommitLatest"
      BY DEF OnTimeout
    <3>4. \A o \in AcknowledgeOutcomes(count) : o.action = "CommitLatest"
      BY <3>1, <3>2, <3>3 DEF AcknowledgeOutcomes
    <3> QED
      BY <2>2, <3>4 DEF CollectionFinished, AcknowledgeDelivery, QueueLatest
  <2>3. CASE acked' = acked
    BY <2>1, <2>3
  <2> QED
    BY <1>1, <2>2, <2>3
       DEF Next, vars, commitVars, FirstItem, NextEnds, CommitTimer, Finish, HandleTimeout,
           Begin, Push, FinishSession, BeginFails, FirstFails, PushFirst, PushNext, Track,
           PushFails, PushDone, PushFurther, GatherFails, GatherEnds, FinishFails, CommitNext,
           PopEligible, CommitOk, CommitSucceeds, CommitErr, CommitFails, CommitDone, Tick,
           DeadlinePasses, CollectTick, Terminated
<1>2. CollectedInv /\ [Next]_vars => [Includes]_vars
  BY <1>1
<1> QED
  BY <1>2, CollectedInvariant, PTL DEF Spec, PassedDeadlineIncludesUnit

-----------------------------------------------------------------------------
(***************************************************************************)
(* The runner implements AckedProgress.                                    *)
(***************************************************************************)

Outcome == CASE pc = "done"   -> "ok"
             [] pc = "failed" -> "error"
             [] OTHER         -> "running"

\* A step that changes neither the acknowledged nor the committed progress,
\* nor whether the run has returned, is a stutter.
LEMMA PromiseStutter ==
    ASSUME UNCHANGED <<acked, committed>>, Outcome' = Outcome
    PROVE  UNCHANGED Promise!vars
<1>1. CommittedThrough' = CommittedThrough
  BY DEF CommittedThrough, ThroughOf, LastOf
<1> QED
  BY <1>1 DEF Promise!vars, Outcome

\* A run that returns an error fails in the abstract too.
LEMMA PromiseFails ==
    ASSUME UNCHANGED <<acked, committed>>, pc \notin {"done", "failed"}, pc' = "failed"
    PROVE  Promise!Next
<1>1. CommittedThrough' = CommittedThrough
  BY DEF CommittedThrough, ThroughOf, LastOf
<1> QED
  BY <1>1 DEF Promise!Next, Promise!Fail

\* Init and every step of the runner are allowed by AckedProgress, through the
\* mapping acked -> delivered, CommittedThrough -> persisted: a collection
\* moves the delivered progress by all its records at once.
THEOREM CollectedRefinement == Spec => ImplementsPromise
<1>1. Init => Promise!Init
  BY DEF Init, CommitInit, Promise!Init, CommittedThrough, ThroughOf
<1>2. ASSUME CollectedInv, [Next]_vars
      PROVE  [Promise!Next]_(Promise!vars)
  <2>1. CASE \/ FirstItem
             \/ \E s \in Sinks : Begin(s) \/ Push(s) \/ FinishSession(s)
             \/ CollectTick
             \/ Tick
    BY <2>1, PromiseStutter
       DEF FirstItem, Begin, Push, FinishSession, CollectTick, Tick, DeadlinePasses, Goto,
           commitVars, Outcome
  <2>2. CASE NextEnds \/ CommitTimer
    BY <2>2, PromiseStutter
       DEF NextEnds, CommitTimer, Finish, HandleTimeout, Goto, Outcome
  <2>3. CASE PushFirst \/ PushFurther
    BY <2>3, PromiseStutter DEF PushFirst, PushFurther, PushNext, Track, Goto, Outcome
  <2>4. CASE PushDone \/ GatherEnds
    BY <2>4, PromiseStutter DEF PushDone, GatherEnds, Goto, commitVars, Outcome
  <2>5. CASE BeginFails \/ FirstFails \/ PushFails \/ GatherFails \/ FinishFails \/ CommitErr
    BY <2>5, PromiseFails
       DEF BeginFails, FirstFails, PushFails, GatherFails, FinishFails, CommitErr, CommitFails,
           StreamFails, Fail, commitVars
  <2>6. CASE CollectionFinished
    <3>1. /\ acked' = acked + count /\ committed' = committed
          /\ pc = "finish" /\ pc' = "committing"
      BY <2>6 DEF CollectionFinished, AcknowledgeDelivery, Goto
    <3>2. acked \in Nat /\ count \in Nat /\ count > 0
      BY <1>2, <3>1, CollectedAssumption, PolicyAssumption
         DEF CollectedInv, TypeOK, CommitTypeOK, Control
    <3>3. CommittedThrough' = CommittedThrough
      BY <3>1 DEF CommittedThrough, ThroughOf, LastOf
    <3> QED
      BY <3>1, <3>2, <3>3 DEF Promise!Next, Promise!Deliver
  <2>7. CASE CommitNext
    BY <2>7, PromiseStutter DEF CommitNext, PopEligible, Outcome
  <2>8. CASE CommitOk
    <3>1. CommittedThrough' \in (CommittedThrough + 1) .. acked
      BY <1>2, <2>8, CommitSucceedsInv DEF CollectedInv, CommitOk
    <3>2. /\ acked' = acked /\ pc' = pc
          /\ pc \in {"committing", "finishing"}
      BY <2>8 DEF CommitOk, CommitSucceeds
    <3> QED
      BY <3>1, <3>2 DEF Promise!Next, Promise!Persist
  <2>9. CASE CommitDone
    <3>1. CASE pc = "committing"
      BY <2>9, <3>1, PromiseStutter DEF CommitDone, Finish, Goto, commitVars, Outcome
    <3>2. CASE pc = "finishing"
      <4>1. /\ UNCHANGED commitVars /\ pc' = "done"
            /\ NothingEligible
        BY <2>9, <3>2 DEF CommitDone, Goto
      <4>2. CommittedThrough = acked
        BY <1>2, <3>2, <4>1, NothingLeft DEF CollectedInv, Control, Idle
      <4>3. CommittedThrough' = CommittedThrough /\ acked' = acked
        BY <4>1 DEF commitVars, CommittedThrough, ThroughOf, LastOf
      <4> QED
        BY <3>2, <4>1, <4>2, <4>3 DEF Promise!Next, Promise!Complete
    <3> QED
      BY <2>9, <3>1, <3>2 DEF CommitDone
  <2>10. CASE Terminated \/ UNCHANGED vars
    BY <2>10, PromiseStutter DEF Terminated, vars, commitVars, Outcome
  <2> QED
    BY <1>2, <2>1, <2>2, <2>3, <2>4, <2>5, <2>6, <2>7, <2>8, <2>9, <2>10 DEF Next
<1> QED
  BY <1>1, <1>2, CollectedInvariant, PTL DEF Spec, ImplementsPromise, Promise!Spec
==============================================================================
