------------------------ MODULE ChildBarrierProofs ------------------------
(***************************************************************************)
(* The safety properties of ChildBarrier, for any number of children and   *)
(* any continuation cap, and of Scheduler, for any number of fires and     *)
(* requests and any length of the streak that switches a task off: what    *)
(* the saved rows hold is a window on the outcomes, and tells their streak. *)
(***************************************************************************)
EXTENDS ChildBarrier, Scheduler, FiniteSetTheorems, WellFoundedInduction, TLAPS

\* The group is marked exactly when onFinalize has been called.
OnceOnly == finalizeCalls = IF finalized THEN 1 ELSE 0

\* A completion number is never ahead of the counter.
Numbered == \A c \in Children : child[c].status \in EndStatus => child[c].seq <= completionSeq

\* A result that was handed over is one of the consumed ones.
HandedAreConsumed ==
    \A c \in Children :
        handed[c] = 0 \/ (handed[c] = 1 /\ child[c].status \in EndStatus /\ child[c].seq <= consumedSeq)

\* A consumed result was handed over, unless the run carries an error.
ConsumedAreHanded ==
    \A c \in Children :
        child[c].status \in EndStatus /\ child[c].seq <= consumedSeq /\ ~noted => handed[c] = 1

\* Only the watchdog fails a run without noting an error of its own.
FailureShows == failed /\ ~noted => finalized /\ outcome.errors

\* Nothing runs behind the back of a run that was reported as a success.
Quiet == finalized /\ ~outcome.errors => RunningChildren = {}

-----------------------------------------------------------------------------
\* The groups of children whose number the code may count are finite.
LEMMA RunningFinite ==
    Cardinality(RunningChildren) \in Nat /\ (RunningChildren # {} => Cardinality(RunningChildren) >= 1)
<1>1. IsFiniteSet(RunningChildren)
  BY ChildrenAssumption, FS_Subset DEF RunningChildren
<1>2. QED
  BY <1>1, FS_CardinalityType, FS_EmptySet

\* finalizeGroup marks the group, once.
LEMMA Finalizes ==
  ASSUME TypeOK, NEW errors \in BOOLEAN, NEW timedOut \in BOOLEAN, Finalize(errors, timedOut)
  PROVE  /\ outcome' \in [final : BOOLEAN, errors : BOOLEAN, timedOut : BOOLEAN]
         /\ finalizeCalls' \in Nat /\ watchdog' \in BOOLEAN
         /\ finalized'
         /\ OnceOnly => OnceOnly'
         /\ ~finalized => outcome'.errors = errors /\ outcome'.timedOut = timedOut
         /\ finalized => outcome' = outcome
<1>1. CASE finalized
  BY <1>1 DEF Finalize, TypeOK, finalized, OnceOnly
<1>2. CASE ~finalized
  <2>1. /\ outcome' = [final |-> TRUE, errors |-> errors, timedOut |-> timedOut]
        /\ finalizeCalls' = finalizeCalls + 1
        /\ watchdog' = FALSE
    BY <1>2 DEF Finalize
  <2>2. finalized' /\ outcome'.errors = errors /\ outcome'.timedOut = timedOut
    BY <2>1 DEF finalized
  <2>3. outcome' \in [final : BOOLEAN, errors : BOOLEAN, timedOut : BOOLEAN]
    BY <2>1
  <2>4. finalizeCalls' \in Nat /\ (OnceOnly => OnceOnly')
    BY <1>2, <2>1, <2>2 DEF OnceOnly, TypeOK
  <2>5. QED
    BY <1>2, <2>1, <2>2, <2>3, <2>4
<1>3. QED
  BY <1>1, <1>2

\* No step leaves the types.
LEMMA TypeStep == TypeOK /\ [Next]_vars => TypeOK'
<1> SUFFICES ASSUME TypeOK, [Next]_vars PROVE TypeOK'
  OBVIOUS
<1> USE CapAssumption DEF TypeOK, EndStatus, counters, flags
<1>1. ASSUME NEW c \in Children, RegisterChild(c) PROVE TypeOK'
  BY <1>1 DEF RegisterChild
<1>2. ASSUME NEW c \in Children, NEW s \in EndStatus, CompleteChild(c, s) PROVE TypeOK'
  BY <1>2 DEF CompleteChild, Result, Scheduled, RunningChildren, finalized
<1>3. ASSUME NEW s \in EndStatus, CompleteMain(s) PROVE TypeOK'
  BY <1>3 DEF CompleteMain, Armed, Scheduled, finalized
<1>4. CASE DrainNothing
  BY <1>4 DEF DrainNothing, Microtask
<1>5. CASE StartReaction
  <2>1. rounds' \in 0..Cap
    BY <1>5 DEF StartReaction
  <2>2. consumedSeq' \in 0..completionSeq'
    BY <1>5 DEF StartReaction, Claimed
  <2>3. handed' \in [Children -> Nat]
    BY <1>5 DEF StartReaction
  <2>4. QED
    BY <1>5, <2>1, <2>2, <2>3 DEF StartReaction, Microtask, NotFinal
<1>6. CASE CapReached
  <2>1. Finalize(TRUE, FALSE)
    BY <1>6 DEF CapReached
  <2>2. QED
    <3>1. consumedSeq' \in 0..completionSeq'
      BY <1>6 DEF CapReached
    <3>2. QED
      BY <1>6, <2>1, <3>1, Finalizes DEF CapReached, Microtask
<1>7. CASE DrainDone
  <2>1. Finalize(~errorCountIsZero, FALSE)
    BY <1>7 DEF DrainDone
  <2>2. QED
    <3>1. (~errorCountIsZero) \in BOOLEAN
      OBVIOUS
    <3>2. QED
      BY <1>7, <2>1, <3>1, Finalizes DEF DrainDone, Microtask
<1>8. ASSUME NEW ok \in BOOLEAN, EndReaction(ok) PROVE TypeOK'
  <2>1. failed' \in BOOLEAN /\ noted' \in BOOLEAN
    BY <1>8 DEF EndReaction, ReactionError
  <2>2. /\ outcome' \in [final : BOOLEAN, errors : BOOLEAN, timedOut : BOOLEAN]
        /\ finalizeCalls' \in Nat /\ watchdog' \in BOOLEAN /\ drainScheduled' \in BOOLEAN
    <3>1. CASE NotFinal /\ (drainScheduled' = Scheduled \/ UNCHANGED drainScheduled)
      BY <3>1 DEF NotFinal, Scheduled, finalized
    <3>2. CASE Finalize(noted' \/ ~errorCountIsZero, FALSE) /\ UNCHANGED drainScheduled
      <4>1. (noted' \/ ~errorCountIsZero) \in BOOLEAN
        OBVIOUS
      <4>2. QED
        BY <3>2, <4>1, Finalizes
    <3>3. QED
      BY <1>8, <3>1, <3>2 DEF EndReaction
  <2>3. QED
    BY <1>8, <2>1, <2>2 DEF EndReaction
<1>9. CASE WatchdogFires
  BY <1>9 DEF WatchdogFires
<1>10. CASE EndGrace
  <2>1. Finalize(TRUE, TRUE)
    BY <1>10 DEF EndGrace
  <2>2. child' \in [Children -> [status : EndStatus \cup {"none", "running", "untracked"}, seq : Nat]]
    BY <1>10 DEF EndGrace
  <2>3. completionSeq' \in Nat /\ consumedSeq' \in 0..completionSeq'
    BY <1>10, RunningFinite DEF EndGrace
  <2>4. noted' \in BOOLEAN
    BY <1>10 DEF EndGrace
  <2>5. QED
    BY <1>10, <2>1, <2>2, <2>3, <2>4, Finalizes DEF EndGrace
<1>11. CASE UNCHANGED vars
  BY <1>11 DEF vars
<1>12. QED
  BY <1>1, <1>2, <1>3, <1>4, <1>5, <1>6, <1>7, <1>8, <1>9, <1>10, <1>11 DEF Next, Drain

-----------------------------------------------------------------------------
\* The parts of IInv that speak of results.
Results == Numbered /\ HandedAreConsumed /\ ConsumedAreHanded

LEMMA ResultsStep ==
  ASSUME TypeOK, TypeOK', Results, [Next]_vars
  PROVE  Results'
<1> USE DEF Results, Numbered, HandedAreConsumed, ConsumedAreHanded, TypeOK, EndStatus, counters, flags
<1>1. ASSUME NEW c \in Children, RegisterChild(c) PROVE Results'
  BY <1>1 DEF RegisterChild
<1>2. ASSUME NEW c \in Children, NEW s \in EndStatus, CompleteChild(c, s) PROVE Results'
  BY <1>2 DEF CompleteChild, Result, RunningChildren
<1>3. ASSUME NEW s \in EndStatus, CompleteMain(s) PROVE Results'
  BY <1>3 DEF CompleteMain
<1>4. CASE DrainNothing
  BY <1>4 DEF DrainNothing
<1>5. CASE StartReaction
  BY <1>5 DEF StartReaction, Claimed, NewResults
<1>6. CASE CapReached
  BY <1>6 DEF CapReached
<1>7. CASE DrainDone
  BY <1>7 DEF DrainDone
<1>8. ASSUME NEW ok \in BOOLEAN, EndReaction(ok) PROVE Results'
  BY <1>8 DEF EndReaction, ReactionError
<1>9. CASE WatchdogFires
  BY <1>9 DEF WatchdogFires
<1>10. CASE EndGrace
  <2>1. consumedSeq' = consumedSeq /\ handed' = handed /\ completionSeq' >= completionSeq
    BY <1>10, RunningFinite DEF EndGrace
  <2> SUFFICES ASSUME NEW c \in Children
               PROVE  /\ child'[c].status \in EndStatus => child'[c].seq <= completionSeq'
                      /\ \/ handed'[c] = 0
                         \/ handed'[c] = 1 /\ child'[c].status \in EndStatus /\ child'[c].seq <= consumedSeq'
                      /\ child'[c].status \in EndStatus /\ child'[c].seq <= consumedSeq' /\ ~noted'
                            => handed'[c] = 1
    OBVIOUS
  <2>2. CASE c \in RunningChildren
    <3>1. child'[c].seq = completionSeq + 1 /\ completionSeq' >= completionSeq + 1
      BY <1>10, <2>2, RunningFinite DEF EndGrace
    <3>2. handed[c] = 0
      BY <2>2 DEF RunningChildren
    <3>3. QED
      BY <2>1, <3>1, <3>2
  <2>3. CASE c \notin RunningChildren
    <3>1. child'[c] = child[c] /\ (noted => noted')
      BY <1>10, <2>3 DEF EndGrace
    <3>2. QED
      BY <2>1, <3>1
  <2>4. QED
    BY <2>2, <2>3
<1>11. CASE UNCHANGED vars
  BY <1>11 DEF vars
<1>12. QED
  BY <1>1, <1>2, <1>3, <1>4, <1>5, <1>6, <1>7, <1>8, <1>9, <1>10, <1>11 DEF Next, Drain

-----------------------------------------------------------------------------
\* The parts of IInv that speak of the end of the run.
Endings == OnceOnly /\ FailureShows /\ Quiet /\ NoLostDrain /\ SuccessIsEarned

\* A step that leaves the group open, or closes it with errors, owes nothing to
\* Quiet and SuccessIsEarned.
LEMMA OpenOrFailed ==
  ASSUME ~finalized' \/ outcome'.errors
  PROVE  Quiet' /\ SuccessIsEarned'
BY DEF Quiet, SuccessIsEarned

\* A drain that finds nothing left closes the group: the run is a success only
\* if everything it ran was done and handed over.
LEMMA DrainEarns ==
  ASSUME TypeOK, TypeOK', Results, Results', FailureShows, ~finalized,
         ~pendingChildren, HadBg /\ completionSeq > consumedSeq => failed,
         UNCHANGED <<main, child, completionSeq, consumedSeq, handed>>,
         ~outcome'.timedOut, noted => noted',
         ~outcome'.errors => errorCountIsZero /\ ~noted'
  PROVE  Quiet' /\ SuccessIsEarned'
<1> SUFFICES ASSUME ~outcome'.errors
             PROVE  Quiet' /\ SuccessIsEarned'
  BY OpenOrFailed
<1>1. ~noted /\ ~failed /\ main = "done"
  BY DEF FailureShows, errorCountIsZero, pendingChildren, TypeOK, EndStatus
<1>2. RunningChildren' = {}
  BY DEF pendingChildren, RunningChildren
<1>3. ASSUME NEW c \in Children
      PROVE  child[c].status # "error" /\ (child[c].status = "done" => handed[c] = 1)
  <2>1. child[c].status # "error"
    BY DEF errorCountIsZero
  <2>2. ASSUME child[c].status = "done" PROVE handed[c] = 1
    <3>1. completionSeq <= consumedSeq
      BY <1>1, <2>2 DEF HadBg, EndStatus, TypeOK
    <3>2. QED
      BY <1>1, <2>2, <3>1 DEF Results, Numbered, ConsumedAreHanded, EndStatus, TypeOK
  <2>3. QED
    BY <2>1, <2>2
<1>4. QED
  BY <1>1, <1>2, <1>3 DEF Quiet, SuccessIsEarned

LEMMA EndingsStep ==
  ASSUME TypeOK, TypeOK', Results, Results', Endings, [Next]_vars
  PROVE  Endings'
<1> USE DEF Endings
<1>1. ASSUME NEW c \in Children, RegisterChild(c) PROVE Endings'
  <2>1. Quiet' /\ SuccessIsEarned'
    BY <1>1 DEF RegisterChild, Quiet, SuccessIsEarned, RunningChildren, finalized, TypeOK
  <2>2. NoLostDrain'
    BY <1>1 DEF RegisterChild, NoLostDrain, pendingChildren, RunningChildren, finalized, TypeOK
  <2>3. QED
    BY <1>1, <2>1, <2>2 DEF RegisterChild, OnceOnly, FailureShows, finalized, flags
<1>2. ASSUME NEW c \in Children, NEW s \in EndStatus, CompleteChild(c, s) PROVE Endings'
  <2>1. Quiet' /\ SuccessIsEarned'
    BY <1>2 DEF CompleteChild, Quiet, SuccessIsEarned, finalized
  <2>2. NoLostDrain'
    BY <1>2 DEF CompleteChild, NoLostDrain, Scheduled, finalized
  <2>3. QED
    BY <1>2, <2>1, <2>2 DEF CompleteChild, OnceOnly, FailureShows, finalized, flags
<1>3. ASSUME NEW s \in EndStatus, CompleteMain(s) PROVE Endings'
  <2>1. Quiet' /\ SuccessIsEarned'
    BY <1>3 DEF CompleteMain, Quiet, SuccessIsEarned, finalized, RunningChildren
  <2>2. NoLostDrain'
    BY <1>3 DEF CompleteMain, NoLostDrain, Scheduled, finalized
  <2>3. QED
    BY <1>3, <2>1, <2>2 DEF CompleteMain, OnceOnly, FailureShows, finalized, flags
<1>4. CASE DrainNothing
  BY <1>4 DEF DrainNothing, MayDrain, OnceOnly, FailureShows, Quiet, NoLostDrain,
     SuccessIsEarned, finalized, RunningChildren, pendingChildren, flags
<1>5. CASE StartReaction
  <2>1. ~finalized /\ outcome' = outcome /\ finalizeCalls' = finalizeCalls /\ draining'
    BY <1>5 DEF StartReaction, MayDrain, NotFinal
  <2>2. ~finalized'
    BY <2>1 DEF finalized
  <2>3. QED
    BY <1>5, <2>1, <2>2, OpenOrFailed DEF StartReaction, OnceOnly, FailureShows, NoLostDrain, flags
<1>6. CASE CapReached
  <2>1. Finalize(TRUE, FALSE) /\ ~finalized /\ noted'
    BY <1>6 DEF CapReached, MayDrain
  <2>2. QED
    BY <2>1, Finalizes, OpenOrFailed DEF FailureShows, NoLostDrain
<1>7. CASE DrainDone
  <2>1. Finalize(~errorCountIsZero, FALSE) /\ ~finalized /\ (~errorCountIsZero) \in BOOLEAN
    BY <1>7 DEF DrainDone, MayDrain
  <2>2. /\ finalized' /\ OnceOnly' /\ outcome'.errors = ~errorCountIsZero
        /\ outcome'.timedOut = FALSE
    BY <2>1, Finalizes
  <2>3. /\ ~pendingChildren /\ (HadBg /\ completionSeq > consumedSeq => failed)
        /\ UNCHANGED <<main, child, completionSeq, consumedSeq, handed, noted, failed>>
    BY <1>7 DEF DrainDone, MayDrain, Unconsumed, counters, flags
  <2>4. Quiet' /\ SuccessIsEarned'
    BY <2>1, <2>2, <2>3, DrainEarns DEF errorCountIsZero
  <2>5. FailureShows'
    BY <2>1, <2>2, <2>3 DEF FailureShows
  <2>6. QED
    BY <2>2, <2>4, <2>5 DEF NoLostDrain
<1>8. ASSUME NEW ok \in BOOLEAN, EndReaction(ok) PROVE Endings'
  <2> DEFINE errors == noted' \/ ~errorCountIsZero
  <2>1. /\ (noted => noted') /\ (failed' => failed \/ noted')
        /\ UNCHANGED <<main, child, completionSeq, consumedSeq, handed, timingOut>>
    BY <1>8 DEF EndReaction, ReactionError, counters
  <2>2. CASE finalized
    <3>1. UNCHANGED <<outcome, finalizeCalls, drainScheduled>>
      BY <1>8, <2>2 DEF EndReaction, NotFinal
    <3>2. QED
      BY <2>1, <2>2, <3>1 DEF OnceOnly, FailureShows, Quiet, NoLostDrain, SuccessIsEarned, finalized, RunningChildren
  <2>3. CASE ~finalized /\ (pendingChildren \/ completionSeq > consumedSeq)
    <3>1. UNCHANGED <<outcome, finalizeCalls>> /\ drainScheduled' = Scheduled
      BY <1>8, <2>3 DEF EndReaction, NotFinal
    <3>2. ~finalized'
      BY <2>3, <3>1 DEF finalized
    <3>3. NoLostDrain'
      BY <2>1, <2>3, <3>1 DEF NoLostDrain, Scheduled
    <3>4. QED
      BY <2>1, <2>3, <3>1, <3>2, <3>3, OpenOrFailed DEF OnceOnly, FailureShows
  <2>4. CASE ~finalized /\ ~pendingChildren /\ ~(completionSeq > consumedSeq)
    <3>1. Finalize(errors, FALSE) /\ errors \in BOOLEAN
      BY <1>8, <2>4 DEF EndReaction
    <3>2. /\ finalized' /\ OnceOnly' /\ outcome'.errors = errors /\ outcome'.timedOut = FALSE
      BY <2>4, <3>1, Finalizes
    <3>3. Quiet' /\ SuccessIsEarned'
      BY <2>1, <2>4, <3>2, DrainEarns
    <3>4. FailureShows'
      BY <2>1, <2>4, <3>2 DEF FailureShows
    <3>5. QED
      BY <3>2, <3>3, <3>4 DEF NoLostDrain
  <2>5. QED
    BY <2>2, <2>3, <2>4
<1>9. CASE WatchdogFires
  BY <1>9 DEF WatchdogFires, OnceOnly, FailureShows, Quiet, NoLostDrain,
     SuccessIsEarned, finalized, flags
<1>10. CASE EndGrace
  <2>1. Finalize(TRUE, TRUE) /\ ~finalized
    BY <1>10 DEF EndGrace
  <2>2. QED
    BY <2>1, Finalizes, OpenOrFailed DEF FailureShows, NoLostDrain
<1>11. CASE UNCHANGED vars
  BY <1>11 DEF vars, OnceOnly, FailureShows, Quiet, NoLostDrain, SuccessIsEarned,
     finalized, RunningChildren, pendingChildren, counters, flags
<1>12. QED
  BY <1>1, <1>2, <1>3, <1>4, <1>5, <1>6, <1>7, <1>8, <1>9, <1>10, <1>11 DEF Next, Drain

-----------------------------------------------------------------------------
\* The inductive invariant.
IInv == TypeOK /\ Results /\ Endings

\* In every reachable state the whole invariant holds: the books of one fire
\* (who ran, whose result was consumed, what was reported) agree.
THEOREM Invariance == Spec => []IInv
<1>1. Init => IInv
  <2> SUFFICES ASSUME Init PROVE IInv
    OBVIOUS
  <2>1. TypeOK
    <3>1. child \in [Children -> [status : EndStatus \cup {"none", "running", "untracked"}, seq : Nat]]
      BY DEF Init
    <3>2. outcome \in [final : BOOLEAN, errors : BOOLEAN, timedOut : BOOLEAN]
      BY DEF Init, Unstamped
    <3>3. rounds \in 0..Cap /\ consumedSeq \in 0..completionSeq
      BY CapAssumption DEF Init
    <3>4. QED
      BY <3>1, <3>2, <3>3 DEF Init, TypeOK, EndStatus
  <2>2. ~finalized /\ outcome.errors = FALSE
    BY DEF Init, Unstamped, finalized
  <2>3. Results
    BY DEF Init, Results, Numbered, HandedAreConsumed, ConsumedAreHanded, EndStatus
  <2>4. Endings
    BY <2>2 DEF Init, Endings, OnceOnly, FailureShows, Quiet, NoLostDrain,
       SuccessIsEarned, pendingChildren
  <2>5. QED
    BY <2>1, <2>3, <2>4 DEF IInv
<1>2. IInv /\ [Next]_vars => IInv'
  <2>1. IInv /\ [Next]_vars => TypeOK'
    BY TypeStep DEF IInv
  <2>2. IInv /\ [Next]_vars => Results'
    BY <2>1, ResultsStep DEF IInv
  <2>3. IInv /\ [Next]_vars => Endings'
    BY <2>1, <2>2, EndingsStep DEF IInv
  <2>4. QED
    BY <2>1, <2>2, <2>3 DEF IInv
<1>3. QED
  BY <1>1, <1>2, PTL DEF Spec

\* completeScheduledMain, completeScheduledChild, maybeDrain and the watchdog
\* keep every variable in its range; consumedSeq never overtakes completionSeq.
THEOREM TypeCorrect == Spec => []TypeOK
BY Invariance, PTL DEF IInv

\* onFinalize is called at most once, whoever wins the race to finalizeGroup.
THEOREM FinalizedOnceAlways == Spec => []FinalizedOnce
<1>1. IInv => FinalizedOnce
  BY DEF IInv, Endings, OnceOnly, FinalizedOnce
<1>2. QED
  BY <1>1, Invariance, PTL

\* maybeDrain hands no child's result to two reactions.
THEOREM HandedOnceAlways == Spec => []HandedOnce
<1>1. IInv => HandedOnce
  BY DEF IInv, Results, HandedAreConsumed, HandedOnce
<1>2. QED
  BY <1>1, Invariance, PTL

\* A run that finalizeGroup reports without errors ended well, every result of
\* it seen by a reaction.
THEOREM SuccessIsEarnedAlways == Spec => []SuccessIsEarned
BY Invariance, PTL DEF IInv, Endings

\* scheduleDrain is always called when it has to be.
THEOREM NoLostDrainAlways == Spec => []NoLostDrain
BY Invariance, PTL DEF IInv, Endings

\* maybeDrain finalizes only a group in which nothing runs.
THEOREM NothingCutShortEver == Spec => NothingCutShort
<1> DEFINE Closes == ~finalized /\ finalized' /\ ~outcome'.timedOut
           NothingRuns == main # "running" /\ RunningChildren = {} /\ ~draining'
<1>1. IInv /\ IInv' /\ [Next]_vars => (Closes => NothingRuns)
  <2> SUFFICES ASSUME IInv, [Next]_vars, Closes PROVE NothingRuns
    OBVIOUS
  <2> USE DEF finalized
  <2>1. ASSUME NEW c \in Children, RegisterChild(c) PROVE FALSE
    BY <2>1 DEF RegisterChild
  <2>2. ASSUME NEW c \in Children, NEW s \in EndStatus, CompleteChild(c, s) PROVE FALSE
    BY <2>2 DEF CompleteChild
  <2>3. ASSUME NEW s \in EndStatus, CompleteMain(s) PROVE FALSE
    BY <2>3 DEF CompleteMain
  <2>4. CASE Drain
    <3>1. MayDrain /\ draining' = draining
      BY <2>4 DEF Drain, DrainNothing, StartReaction, NotFinal, CapReached, DrainDone
    <3>2. QED
      BY <3>1 DEF MayDrain, pendingChildren
  <2>5. ASSUME NEW ok \in BOOLEAN, EndReaction(ok) PROVE NothingRuns
    BY <2>5 DEF EndReaction, NotFinal, pendingChildren
  <2>6. CASE WatchdogFires
    BY <2>6 DEF WatchdogFires
  <2>7. CASE EndGrace
    <3>1. Finalize(TRUE, TRUE) /\ TypeOK
      BY <2>7 DEF EndGrace, IInv
    <3>2. QED
      BY <3>1, Finalizes
  <2>8. CASE UNCHANGED vars
    BY <2>8 DEF vars
  <2>9. QED
    BY <2>1, <2>2, <2>3, <2>4, <2>5, <2>6, <2>7, <2>8 DEF Next
<1>2. QED
  BY <1>1, Invariance, PTL DEF Spec, NothingCutShort

\* Once watchdogTimeout has claimed the group, maybeDrain starts no reaction.
THEOREM TimeoutOwnsGroupAlways == Spec => TimeoutOwnsGroup
<1>1. [Next]_vars => (timingOut => rounds' = rounds)
  BY DEF Next, vars, counters, RegisterChild, CompleteChild, CompleteMain, Drain,
     DrainNothing, StartReaction, MayDrain, CapReached, DrainDone, EndReaction,
     WatchdogFires, EndGrace
<1>2. QED
  BY <1>1, PTL DEF Spec, TimeoutOwnsGroup

-----------------------------------------------------------------------------
(* The scheduler: what is switched off stays off, what is on is armed.     *)

\* The shape of what is saved and of what is in progress.
TaskShaped ==
    /\ DOMAIN task = {"enabled", "failures", "reason", "state", "last"}
    /\ task.enabled \in BOOLEAN
    /\ task.state = Fresh \/ (/\ DOMAIN task.state = {"baseline", "recent", "disabled"}
                              /\ task.state.disabled \in BOOLEAN)
RunsShaped ==
    /\ running \in BOOLEAN /\ timer \in BOOLEAN
    /\ DOMAIN run = 1..Fires
    /\ \A r \in 1..Fires : DOMAIN run[r] = {"pc", "at", "kept"} /\ run[r].kept \in BOOLEAN
    /\ patch \in {Idle} \cup [enable : BOOLEAN, clears : BOOLEAN, phase : {"read", "written"}]

\* What was switched off is not marked as switched off by its failures, so that
\* no success switches it on.
OffForGood == off => ~task.enabled /\ (task.state = Fresh \/ ~task.state.disabled)

SchedulerInv == TaskShaped /\ RunsShaped /\ OffForGood /\ AlwaysArmed

\* What an outcome does to the task: it does not switch on what was switched off,
\* and what it switches on has a timer.
LEMMA RecordKeeps ==
  ASSUME SchedulerInv, running, NEW row, RecordOutcome(row)
  PROVE  /\ TaskShaped' /\ timer' \in BOOLEAN /\ OffForGood'
         /\ timer => timer'
         /\ task'.enabled => task.enabled \/ timer'
<1>1. CASE Refused(row)
  BY <1>1 DEF RecordOutcome, SchedulerInv, TaskShaped, RunsShaped, OffForGood
<1>2. CASE ~Refused(row)
  <2> DEFINE kept == Trimmed(State.baseline, InOrder(State.recent, row))
             failures == Streak(kept.baseline, kept.recent)
             broken == failures >= MaxFailures
             reenable == ~broken /\ State.disabled
             disabled == IF broken THEN State.disabled \/ task.enabled
                         ELSE State.disabled /\ ~reenable
             enabled == reenable \/ (task.enabled /\ ~broken)
             reason == broken \/ (task.reason /\ ~reenable)
             last == Last(kept.recent).run
  <2>1. /\ task' = [enabled |-> enabled, failures |-> failures, reason |-> reason,
                    state |-> [baseline |-> kept.baseline, recent |-> kept.recent,
                               disabled |-> disabled],
                    last |-> last]
        /\ timer' = ArmedAgain(reenable)
        /\ off' = off
    BY <1>2 DEF RecordOutcome
  <2>2. State.disabled \in BOOLEAN /\ (off => ~State.disabled)
    BY DEF State, SchedulerInv, TaskShaped, OffForGood
  <2>3. broken \in BOOLEAN
    OBVIOUS
  <2> HIDE DEF kept, failures, broken, last, reason
  <2>4. enabled \in BOOLEAN /\ disabled \in BOOLEAN
    BY <2>2, <2>3 DEF SchedulerInv, TaskShaped
  <2>5. off => ~enabled /\ ~disabled
    BY <2>2, <2>3 DEF SchedulerInv, OffForGood
  <2>6. enabled => task.enabled \/ ArmedAgain(reenable)
    BY DEF ArmedAgain
  <2>7. ArmedAgain(reenable) \in BOOLEAN /\ (timer => ArmedAgain(reenable))
    BY <2>2, <2>3 DEF ArmedAgain, SchedulerInv, RunsShaped
  <2> HIDE DEF enabled, disabled, reenable
  <2> QED BY <2>1, <2>4, <2>5, <2>6, <2>7 DEF TaskShaped, OffForGood
<1> QED BY <1>1, <1>2

\* The steps of a fire.
LEMMA FireStep ==
  ASSUME SchedulerInv, NEW r \in 1..Fires,
         \/ Fire(r) \/ StartWork(r) \/ HandOver(r) \/ EndCallback(r)
         \/ PauseForBudget(r) \/ Forget(r)
  PROVE  SchedulerInv'
<1> USE DEF SchedulerInv, TaskShaped, RunsShaped, OffForGood, AlwaysArmed, InCallback, Rearmed
<1>1. CASE Fire(r)
  BY <1>1 DEF Fire
<1>2. CASE StartWork(r)
  BY <1>2 DEF StartWork
<1>3. CASE HandOver(r)
  BY <1>3 DEF HandOver
<1>4. CASE EndCallback(r)
  BY <1>4 DEF EndCallback
<1>5. CASE PauseForBudget(r)
  BY <1>5 DEF PauseForBudget
<1>6. CASE Forget(r)
  BY <1>6 DEF Forget
<1> QED BY <1>1, <1>2, <1>3, <1>4, <1>5, <1>6

\* The steps that record an outcome.
LEMMA OutcomeStep ==
  ASSUME SchedulerInv, NEW r \in 1..Fires,
         \/ \E ok \in BOOLEAN : RecordDirectly(r, ok) \/ FinalizeRun(r, ok)
         \/ Recover(r)
  PROVE  SchedulerInv'
<1>1. CASE Recover(r) /\ task.last = r
  BY <1>1 DEF Recover, SchedulerInv, TaskShaped, RunsShaped, OffForGood, AlwaysArmed, InCallback
<1>2. CASE ~(Recover(r) /\ task.last = r)
  <2>1. \E row : RecordOutcome(row)
    BY <1>2 DEF RecordDirectly, FinalizeRun, Recover
  <2>2. running /\ running' = running /\ patch' = patch
    BY DEF RecordDirectly, FinalizeRun, Recover
  <2>3. \E pc : /\ run' = [run EXCEPT ![r].pc = pc]
                /\ run[r].pc \in {"main", "threw", "ending"} => pc \in {"main", "threw", "ending"}
    BY DEF RecordDirectly, FinalizeRun, Recover
  <2>4. RunsShaped'
    BY <2>1, <2>2, <2>3, RecordKeeps DEF SchedulerInv, RunsShaped
  <2>5. AlwaysArmed'
    <3>1. task'.enabled => task.enabled \/ timer'
      BY <2>1, <2>2, RecordKeeps
    <3>2. InCallback # {} => InCallback' # {}
      BY <2>3 DEF InCallback, SchedulerInv, RunsShaped
    <3>3. timer => timer'
      BY <2>1, <2>2, RecordKeeps
    <3> QED BY <3>1, <3>2, <3>3, <2>2 DEF AlwaysArmed, SchedulerInv
  <2> QED BY <2>1, <2>2, <2>4, <2>5, RecordKeeps DEF SchedulerInv
<1> QED BY <1>1, <1>2

\* What updateTask leaves of a task it switches off.
LEMMA SwitchedOffShape ==
  ASSUME TaskShaped
  PROVE  /\ DOMAIN SwitchedOff = {"enabled", "failures", "reason", "state", "last"}
         /\ SwitchedOff.enabled = FALSE
         /\ \/ SwitchedOff.state = Fresh
            \/ /\ DOMAIN SwitchedOff.state = {"baseline", "recent", "disabled"}
               /\ SwitchedOff.state.disabled = FALSE
BY DEF SwitchedOff, TaskShaped

\* The steps that switch the task off, and those of the user and the server.
LEMMA SwitchStep ==
  ASSUME SchedulerInv,
         \/ \E r \in 1..Fires, why \in BOOLEAN, after \in {"threw", "ending", "over"} :
               GiveUp(r, why, after)
         \/ FireDisabled \/ FinalizeManual
         \/ \E enable \in BOOLEAN : OpenPatch(enable)
         \/ WritePatch \/ Reschedule \/ SchedulePatch
         \/ ServerCrash \/ Boot
  PROVE  SchedulerInv'
<1> USE SchedulerAssumption DEF SchedulerInv, TaskShaped, RunsShaped, OffForGood, AlwaysArmed
<1>1. CASE \E r \in 1..Fires, why \in BOOLEAN, after \in {"threw", "ending", "over"} :
              GiveUp(r, why, after)
  <2> PICK r \in 1..Fires, why \in BOOLEAN, after \in {"threw", "ending", "over"} :
             GiveUp(r, why, after)
    BY <1>1
  <2>1. task' = [SwitchedOff EXCEPT !.reason = @ \/ why]
    BY DEF GiveUp
  <2>2. TaskShaped' /\ task'.enabled = FALSE /\ (task'.state = Fresh \/ ~task'.state.disabled)
    BY <2>1, SwitchedOffShape
  <2>3. RunsShaped'
    BY DEF GiveUp
  <2> QED BY <2>2, <2>3
<1>2. CASE FireDisabled \/ FinalizeManual
  <2>1. CASE FireDisabled
    BY <2>1 DEF FireDisabled
  <2>2. CASE FinalizeManual
    BY <2>2 DEF FinalizeManual, InCallback
  <2> QED BY <1>2, <2>1, <2>2
<1>3. CASE \E enable \in BOOLEAN : OpenPatch(enable)
  BY <1>3 DEF OpenPatch, InCallback
<1>4. CASE WritePatch
  <2>1. patch' \in [enable : BOOLEAN, clears : BOOLEAN, phase : {"read", "written"}]
        /\ patch'.phase = "written" /\ UNCHANGED <<running, timer, run>>
    BY <1>4 DEF WritePatch
  <2>2. RunsShaped'
    BY <2>1
  <2>3. AlwaysArmed'
    BY <2>1
  <2>4. CASE patch.enable
    <3>1. task' = SwitchedOn(patch.clears) /\ off' = FALSE
      BY <1>4, <2>4 DEF WritePatch, SwitchOn
    <3>2. TaskShaped'
      BY <3>1 DEF SwitchedOn
    <3> QED BY <2>2, <2>3, <3>1, <3>2
  <2>5. CASE ~patch.enable
    <3>1. task' = SwitchedOff
      BY <1>4, <2>5 DEF WritePatch
    <3>2. TaskShaped' /\ OffForGood'
      BY <3>1, SwitchedOffShape
    <3> QED BY <2>2, <2>3, <3>2
  <2> QED BY <2>4, <2>5
<1>5. CASE Reschedule
  <2>1. patch' \in [enable : BOOLEAN, clears : BOOLEAN, phase : {"read", "written"}]
        /\ patch'.phase = "written" /\ UNCHANGED <<running, timer, run>>
    BY <1>5 DEF Reschedule
  <2>2. RunsShaped' /\ AlwaysArmed'
    BY <2>1
  <2>3. task' = SwitchedOn(FALSE) /\ off' = FALSE
    BY <1>5 DEF Reschedule, SwitchOn
  <2>4. TaskShaped'
    BY <2>3 DEF SwitchedOn
  <2> QED BY <2>2, <2>3, <2>4
<1>6. CASE SchedulePatch
  BY <1>6 DEF SchedulePatch, Rearmed
<1>7. CASE ServerCrash
  BY <1>7 DEF ServerCrash
<1>8. CASE Boot
  BY <1>8 DEF Boot
<1> QED BY <1>1, <1>2, <1>3, <1>4, <1>5, <1>6, <1>7, <1>8

\* Every step of the scheduler keeps the invariant.
LEMMA SchedulerStep == SchedulerInv /\ [SchedulerNext]_schedulerVars => SchedulerInv'
<1>1. SchedulerInv /\ UNCHANGED schedulerVars => SchedulerInv'
  BY DEF schedulerVars, SchedulerInv, TaskShaped, RunsShaped, OffForGood, AlwaysArmed, InCallback
<1>2. SchedulerInv /\ SchedulerNext => SchedulerInv'
  BY FireStep, OutcomeStep, SwitchStep DEF SchedulerNext
<1> QED BY <1>1, <1>2

\* The invariant holds at the start.
LEMMA SchedulerInitInv == SchedulerInit => SchedulerInv
<1> SUFFICES ASSUME SchedulerInit PROVE SchedulerInv
  OBVIOUS
<1>1. TaskShaped
  BY DEF SchedulerInit, TaskShaped
<1>2. RunsShaped
  BY DEF SchedulerInit, RunsShaped
<1> QED BY <1>1, <1>2 DEF SchedulerInit, SchedulerInv, OffForGood, AlwaysArmed

\* A task that the user or a configuration error switched off (updateTask with
\* enabled: false, scheduler.mjs) is switched on by no late outcome of an earlier
\* fire: only by a later request.
THEOREM SwitchedOffHolds == SchedulerSpec => []SwitchedOffStaysOff
<1>1. SchedulerInv => SwitchedOffStaysOff
  BY DEF SchedulerInv, OffForGood, SwitchedOffStaysOff
<1> QED BY <1>1, SchedulerInitInv, SchedulerStep, PTL DEF SchedulerSpec

\* While the scheduler runs, an enabled task has a timer, a fire whose callback
\* arms it again, or a request that has yet to schedule it: however fires overlap,
\* outcomes arrive and requests interleave, it does not stop firing silently.
THEOREM AlwaysArmedHolds == SchedulerSpec => []AlwaysArmed
<1>1. SchedulerInv => AlwaysArmed
  BY DEF SchedulerInv
<1> QED BY <1>1, SchedulerInitInv, SchedulerStep, PTL DEF SchedulerSpec
-----------------------------------------------------------------------------
(* The streak of a sequence of outcomes                                    *)

\* Of sets within a finite one, some is minimal.
LEMMA MinimalSet ==
  ASSUME NEW S, IsFiniteSet(S), NEW T, T \subseteq SUBSET S, T # {}
  PROVE  \E s \in T : \A t \in T : t \subseteq s => t = s
<1>1. IsWellFoundedOn(StrictSubsetOrdering(S), SUBSET S)
  BY FS_StrictSubsetOrderingWellFounded, FS_FiniteSubsetsOfFinite
<1>2. PICK s \in T : \A t \in T : ~(<<t, s>> \in StrictSubsetOrdering(S))
  BY <1>1, WFMin
<1>3. QED
  BY <1>2 DEF StrictSubsetOrdering

\* A set of positions has a last one.
LEMMA LastPosition ==
  ASSUME NEW n \in Nat, NEW K, K \subseteq 1..n, K # {}
  PROVE  Max(K) \in K /\ \A i \in K : i <= Max(K)
<1> DEFINE R == OpToRel(<, Nat)
<1>1. R = {pair \in Nat \X Nat : pair[1] < pair[2]}
  BY Zenon DEF OpToRel
<1>2. IsWellFoundedOn(R, Nat)
  BY NatLessThanWellFounded DEF R
<1> HIDE DEF R
<1> DEFINE T == {n - k : k \in K}
<1>3. T \subseteq Nat /\ T # {}
  <2>1. \A k \in K : k \in Nat /\ k <= n
    OBVIOUS
  <2>2. ASSUME NEW k \in K PROVE n - k \in Nat
    BY <2>1
  <2>3. QED
    BY <2>2
<1>4. \E x \in T : \A y \in T : ~(<<y, x>> \in R)
  <2> HIDE DEF T
  <2>1. QED
    BY <1>2, <1>3, WFMin
<1>5. PICK j \in K : \A i \in K : ~(<<n - i, n - j>> \in R)
  BY <1>4
<1>6. ASSUME NEW i \in K PROVE i <= j
  <2>1. i \in Nat /\ i <= n /\ j \in Nat /\ j <= n
    OBVIOUS
  <2>2. n - i \in Nat /\ n - j \in Nat
    BY <2>1
  <2>3. ~(n - i < n - j)
    BY <1>1, <1>5, <2>2
  <2>4. QED
    BY <2>1, <2>3
<1>7. \E x \in K : \A y \in K : x >= y
  BY <1>6
<1>8. Max(K) \in K /\ \A y \in K : Max(K) >= y
  BY <1>7 DEF Max
<1>9. QED
  BY <1>8

Sorted(seq) == \A i, j \in DOMAIN seq : i < j => Before(seq[i], seq[j])

\* The failures at positions in S that no success at one of them follows, and
\* the streak they make.
TailOf(seq, S) == {seq[i] : i \in {i \in S : \A j \in S : seq[j].ok => j < i}}
SomeOk(seq, S) == \E i \in S : seq[i].ok
StreakOf(n, seq, S) == Cardinality(TailOf(seq, S)) + IF SomeOk(seq, S) THEN 0 ELSE n

LEMMA StreakStep ==
  ASSUME NEW n \in Nat, NEW seq \in Seq(Rows), Sorted(seq), NEW O, IsFiniteSet(O),
         \A i \in DOMAIN seq : seq[i] \in O, NEW S \in SUBSET DOMAIN seq
  PROVE  /\ S = {} => StreakOf(n, seq, S) = n
         /\ S # {} => /\ Max(S) \in S
                      /\ StreakOf(n, seq, S) = IF seq[Max(S)].ok THEN 0
                                               ELSE StreakOf(n, seq, S \ {Max(S)}) + 1
<1>1. Len(seq) \in Nat /\ DOMAIN seq = 1..Len(seq)
  OBVIOUS
<1>2. ASSUME S = {} PROVE StreakOf(n, seq, S) = n
  <2>1. TailOf(seq, S) = {} /\ ~SomeOk(seq, S)
    BY <1>2 DEF TailOf, SomeOk
  <2>2. QED
    BY <2>1, FS_EmptySet DEF StreakOf
<1>3. ASSUME S # {}
      PROVE  /\ Max(S) \in S
             /\ StreakOf(n, seq, S) = IF seq[Max(S)].ok THEN 0
                                      ELSE StreakOf(n, seq, S \ {Max(S)}) + 1
  <2>1. Max(S) \in S /\ \A i \in S : i <= Max(S)
    BY <1>1, <1>3, LastPosition
  <2>2. PICK x \in S : x = Max(S)
    BY <2>1
  <2>3. \A i \in S : i \in Nat /\ i <= x
    BY <1>1, <2>1, <2>2
  <2>4. CASE seq[x].ok
    <3>1. TailOf(seq, S) = {} /\ SomeOk(seq, S)
      BY <2>3, <2>4 DEF TailOf, SomeOk
    <3>2. QED
      BY <2>2, <2>4, <3>1, FS_EmptySet DEF StreakOf
  <2>5. CASE ~seq[x].ok
    <3> DEFINE R == S \ {x}
    <3>1. SomeOk(seq, S) <=> SomeOk(seq, R)
      BY <2>5 DEF SomeOk
    <3>2. \A i \in R : i < x
      BY <2>3
    <3>3. TailOf(seq, S) = TailOf(seq, R) \cup {seq[x]}
      <4>1. {i \in S : \A j \in S : seq[j].ok => j < i}
              = {i \in R : \A j \in R : seq[j].ok => j < i} \cup {x}
        BY <2>3, <2>5, <3>2
      <4>2. QED
        BY <4>1 DEF TailOf
    <3>4. seq[x] \notin TailOf(seq, R)
      <4>1. ASSUME NEW i \in R PROVE seq[i] # seq[x]
        <5>1. Before(seq[i], seq[x])
          BY <3>2 DEF Sorted
        <5>2. seq[x] \in Rows /\ seq[i] \in Rows
          BY <1>1
        <5>3. QED
          BY <5>1, <5>2 DEF Before, Rows
      <4>2. QED
        BY <4>1 DEF TailOf
    <3>5. IsFiniteSet(TailOf(seq, R))
      <4>1. TailOf(seq, R) \in SUBSET O
        BY DEF TailOf
      <4>2. QED
        BY <4>1, FS_Subset
    <3>6. /\ Cardinality(TailOf(seq, S)) = Cardinality(TailOf(seq, R)) + 1
          /\ Cardinality(TailOf(seq, R)) \in Nat
      BY <3>3, <3>4, <3>5, FS_AddElement, FS_CardinalityType
    <3>7. StreakOf(n, seq, S) = StreakOf(n, seq, R) + 1
      BY <3>1, <3>6 DEF StreakOf
    <3>8. QED
      BY <2>2, <2>5, <3>7
  <2>6. QED
    BY <2>2, <2>4, <2>5
<1>4. QED
  BY <1>2, <1>3

\* What the loop over the kept outcomes computes.
LEMMA FoldedStreak ==
  ASSUME NEW n \in Nat, NEW seq \in Seq(Rows), Sorted(seq), NEW O, IsFiniteSet(O),
         \A i \in DOMAIN seq : seq[i] \in O
  PROVE  FoldLeft(LAMBDA k, o : IF o.ok THEN 0 ELSE k + 1, n, seq) = StreakOf(n, seq, DOMAIN seq)
<1> DEFINE D == DOMAIN seq
           IsFold(g) == g = [S \in SUBSET D |-> IF S = {} THEN n
                                                ELSE IF seq[Max(S)].ok THEN 0 ELSE g[S \ {Max(S)}] + 1]
           h == CHOOSE g : IsFold(g)
           v == [S \in SUBSET D |-> StreakOf(n, seq, S)]
<1>1. FoldLeft(LAMBDA k, o : IF o.ok THEN 0 ELSE k + 1, n, seq) = h[D]
  BY DEF FoldLeft, MapThenFoldSet
<1>2. \A S \in SUBSET D :
         /\ S = {} => StreakOf(n, seq, S) = n
         /\ S # {} => /\ Max(S) \in S
                      /\ StreakOf(n, seq, S) = IF seq[Max(S)].ok THEN 0
                                               ELSE StreakOf(n, seq, S \ {Max(S)}) + 1
  BY StreakStep
<1>3. IsFold(v)
  <2>1. ASSUME NEW S \in SUBSET D
        PROVE  StreakOf(n, seq, S) = IF S = {} THEN n
                                     ELSE IF seq[Max(S)].ok THEN 0 ELSE v[S \ {Max(S)}] + 1
    <3>1. S \ {Max(S)} \in SUBSET D
      OBVIOUS
    <3>2. v[S \ {Max(S)}] = StreakOf(n, seq, S \ {Max(S)})
      BY <3>1
    <3> HIDE DEF v
    <3>3. QED
      BY <1>2, <3>2
  <2>2. QED
    BY <2>1
<1>4. IsFold(h)
  <2> HIDE DEF IsFold, v
  <2>1. QED
    BY <1>3
<1>5. \A S \in SUBSET D : h[S] = IF S = {} THEN n
                                ELSE IF seq[Max(S)].ok THEN 0 ELSE h[S \ {Max(S)}] + 1
  <2> HIDE DEF h
  <2>1. QED
    BY <1>4
<1> HIDE DEF h, IsFold, v
<1> DEFINE T == {S \in SUBSET D : h[S] # StreakOf(n, seq, S)}
<1>6. T = {}
  <2>1. SUFFICES ASSUME T # {} PROVE FALSE
    OBVIOUS
  <2>2. IsFiniteSet(D)
    <3>1. D = 1..Len(seq) /\ Len(seq) \in Nat
      OBVIOUS
    <3>2. QED
      BY <3>1, FS_Interval
  <2>3. PICK S \in T : \A R \in T : R \subseteq S => R = S
    <3>1. T \subseteq SUBSET D
      OBVIOUS
    <3> HIDE DEF T, D
    <3>2. QED
      BY <2>1, <2>2, <3>1, MinimalSet
  <2>4. S \in SUBSET D /\ h[S] # StreakOf(n, seq, S)
    BY <2>3
  <2> HIDE DEF D
  <2>5. S # {} /\ Max(S) \in S
    BY <1>2, <1>5, <2>4
  <2>6. S \ {Max(S)} \notin T /\ S \ {Max(S)} \in SUBSET D
    BY <2>3, <2>4, <2>5
  <2>7. h[S \ {Max(S)}] = StreakOf(n, seq, S \ {Max(S)})
    BY <2>6
  <2>8. QED
    BY <1>2, <1>5, <2>4, <2>5, <2>7
<1>7. D \in SUBSET D
  OBVIOUS
<1>8. QED
  BY <1>1, <1>6, <1>7

-----------------------------------------------------------------------------
\* What insertion at a place of a sequence leaves where.
LEMMA Inserted ==
  ASSUME NEW S, NEW s \in Seq(S), NEW e \in S, NEW k \in 0..Len(s)
  PROVE  /\ InsertAt(s, k + 1, e) \in Seq(S)
         /\ Len(InsertAt(s, k + 1, e)) = Len(s) + 1
         /\ \A i \in 1..k : InsertAt(s, k + 1, e)[i] = s[i]
         /\ InsertAt(s, k + 1, e)[k + 1] = e
         /\ \A i \in (k + 2)..(Len(s) + 1) : InsertAt(s, k + 1, e)[i] = s[i - 1]
<1> DEFINE a == SubSeq(s, 1, k)
           b == SubSeq(s, k + 1, Len(s))
           c == a \o <<e>>
<1>1. Len(s) \in Nat /\ k \in Nat /\ k <= Len(s)
  OBVIOUS
<1>2. InsertAt(s, k + 1, e) = c \o b
  <2>1. (k + 1) - 1 = k
    BY <1>1
  <2>2. QED
    BY <2>1 DEF InsertAt
<1>3. a \in Seq(S) /\ Len(a) = k /\ \A i \in 1..k : a[i] = s[i]
  BY <1>1
<1>4. b \in Seq(S) /\ Len(b) = Len(s) - k /\ \A i \in 1..(Len(s) - k) : b[i] = s[k + i]
  BY <1>1
<1> HIDE DEF a, b
<1>5. c \in Seq(S) /\ Len(c) = k + 1 /\ (\A i \in 1..k : c[i] = s[i]) /\ c[k + 1] = e
  BY <1>1, <1>3
<1> HIDE DEF c
<1>6. c \o b \in Seq(S) /\ Len(c \o b) = Len(s) + 1
  <2>1. c \o b \in Seq(S)
    BY <1>4, <1>5
  <2>2. \A u, v \in Seq(S) : Len(u \o v) = Len(u) + Len(v)
    OBVIOUS
  <2>3. c \in Seq(S) /\ b \in Seq(S)
    BY <1>4, <1>5
  <2>4. Len(c \o b) = Len(c) + Len(b)
    BY <2>2, <2>3
  <2>5. QED
    BY <1>1, <1>4, <1>5, <2>1, <2>4
<1>7. \A i \in 1..(k + 1) : (c \o b)[i] = c[i]
  BY <1>1, <1>4, <1>5
<1>8. ASSUME NEW i \in (k + 2)..(Len(s) + 1) PROVE (c \o b)[i] = s[i - 1]
  <2>1. i \in Int /\ i - (k + 1) \in 1..(Len(s) - k) /\ k + (i - (k + 1)) = i - 1
    BY <1>1
  <2>2. (c \o b)[i] = b[i - (k + 1)]
    BY <1>1, <1>4, <1>5, <2>1
  <2>3. QED
    BY <1>4, <2>1, <2>2
<1>9. \A i \in 1..k : (c \o b)[i] = s[i]
  BY <1>1, <1>5, <1>7
<1>10. (c \o b)[k + 1] = e
  BY <1>1, <1>5, <1>7
<1>11. QED
  BY <1>2, <1>6, <1>8, <1>9, <1>10

\* What InOrder does to a sorted sequence: the row goes between those before it
\* and those after it.
LEMMA Ordered ==
  ASSUME NEW seq \in Seq(Rows), Sorted(seq), NEW row \in Rows,
         \A i \in DOMAIN seq : seq[i].at # row.at
  PROVE  \E k \in 0..Len(seq) :
            /\ InOrder(seq, row) = InsertAt(seq, k + 1, row)
            /\ \A i \in 1..k : Before(seq[i], row)
            /\ \A i \in (k + 1)..Len(seq) : Before(row, seq[i])
<1> DEFINE earlier == {i \in DOMAIN seq : Before(seq[i], row)}
<1>1. Len(seq) \in Nat /\ DOMAIN seq = 1..Len(seq)
  OBVIOUS
<1>2. \A i \in DOMAIN seq : seq[i] \in Rows /\ seq[i].at \in Nat
  <2>1. \A i \in DOMAIN seq : seq[i] \in Rows
    OBVIOUS
  <2>2. \A r \in Rows : r.at \in Nat
    BY DEF Rows
  <2>3. QED
    BY <2>1, <2>2
<1>3. row.at \in Nat
  BY DEF Rows
<1>4. \A i, j \in DOMAIN seq : i < j /\ j \in earlier => i \in earlier
  BY <1>2, <1>3 DEF Sorted, Before
<1>5. PICK k \in 0..Len(seq) : earlier = 1..k
  <2>1. CASE earlier = {}
    BY <1>1, <2>1
  <2>2. CASE earlier # {}
    <3>1. earlier \subseteq 1..Len(seq)
      BY <1>1
    <3> HIDE DEF earlier
    <3>2. Max(earlier) \in earlier /\ \A i \in earlier : i <= Max(earlier)
      BY <1>1, <2>2, <3>1, LastPosition
    <3>3. PICK m \in 1..Len(seq) : m \in earlier /\ \A i \in earlier : i <= m
      BY <3>1, <3>2
    <3>4. \A i \in earlier : i \in 1..m
      BY <1>1, <3>1, <3>3
    <3>5. \A i \in 1..m : i \in earlier
      <4>1. \A i \in 1..m : i \in DOMAIN seq /\ m \in DOMAIN seq /\ (i < m \/ i = m)
        BY <1>1, <3>3
      <4>2. QED
        BY <1>4, <3>3, <4>1
    <3>6. earlier = 1..m
      BY <3>4, <3>5
    <3>7. QED
      BY <1>1, <3>6
  <2>3. QED
    BY <2>1, <2>2
<1>6. Cardinality(earlier) = k
  <2>1. k \in Nat
    BY <1>1
  <2>2. Cardinality(1..k) = k
    BY <2>1, FS_Interval
  <2> HIDE DEF earlier
  <2>3. QED
    BY <1>5, <2>2
<1>7. InOrder(seq, row) = InsertAt(seq, k + 1, row)
  BY <1>6 DEF InOrder
<1>8. \A i \in 1..k : Before(seq[i], row)
  BY <1>5
<1>9. \A i \in (k + 1)..Len(seq) : Before(row, seq[i])
  <2>1. ASSUME NEW i \in (k + 1)..Len(seq) PROVE Before(row, seq[i])
    <3>1. i \in DOMAIN seq /\ i \notin 1..k
      BY <1>1
    <3>2. ~Before(seq[i], row)
      BY <1>5, <3>1
    <3>3. QED
      BY <1>2, <1>3, <3>1, <3>2 DEF Before
  <2>2. QED
    BY <2>1
<1>10. QED
  BY <1>7, <1>8, <1>9

\* The sequence stays sorted, and keeps what it held, with the row.
LEMMA OrderedIn ==
  ASSUME NEW seq \in Seq(Rows), Sorted(seq), NEW row \in Rows,
         \A i \in DOMAIN seq : seq[i].at # row.at,
         NEW new, new = InOrder(seq, row)
  PROVE  /\ new \in Seq(Rows) /\ Len(new) = Len(seq) + 1 /\ Sorted(new)
         /\ \A i \in DOMAIN new : new[i] = row \/ \E j \in DOMAIN seq : new[i] = seq[j]
         /\ \E i \in DOMAIN new : new[i] = row
         /\ \A j \in DOMAIN seq : \E i \in DOMAIN new : new[i] = seq[j]
         /\ seq # <<>> /\ ~Before(row, seq[1]) => new[1] = seq[1]
<1>1. Len(seq) \in Nat /\ DOMAIN seq = 1..Len(seq)
  OBVIOUS
<1>2. PICK k \in 0..Len(seq) :
            /\ InOrder(seq, row) = InsertAt(seq, k + 1, row)
            /\ \A i \in 1..k : Before(seq[i], row)
            /\ \A i \in (k + 1)..Len(seq) : Before(row, seq[i])
  BY Ordered
<1>3. /\ new \in Seq(Rows) /\ Len(new) = Len(seq) + 1
      /\ \A i \in 1..k : new[i] = seq[i]
      /\ new[k + 1] = row
      /\ \A i \in (k + 2)..(Len(seq) + 1) : new[i] = seq[i - 1]
  <2>1. /\ InsertAt(seq, k + 1, row) \in Seq(Rows)
        /\ Len(InsertAt(seq, k + 1, row)) = Len(seq) + 1
        /\ \A i \in 1..k : InsertAt(seq, k + 1, row)[i] = seq[i]
        /\ InsertAt(seq, k + 1, row)[k + 1] = row
        /\ \A i \in (k + 2)..(Len(seq) + 1) : InsertAt(seq, k + 1, row)[i] = seq[i - 1]
    BY Inserted
  <2>2. new = InsertAt(seq, k + 1, row)
    BY <1>2
  <2>3. QED
    BY <2>1, <2>2
<1>4. k \in Nat /\ k <= Len(seq) /\ DOMAIN new = 1..(Len(seq) + 1)
  BY <1>1, <1>3
<1>5. \A i \in DOMAIN new : \/ i \in 1..k /\ i \in DOMAIN seq
                            \/ i = k + 1
                            \/ i \in (k + 2)..(Len(seq) + 1) /\ i - 1 \in (k + 1)..Len(seq) /\ i - 1 \in DOMAIN seq
  BY <1>1, <1>4
<1>6. Sorted(new)
  <2>1. ASSUME NEW i \in DOMAIN new, NEW j \in DOMAIN new, i < j
        PROVE  Before(new[i], new[j])
    <3>1. CASE j \in 1..k
      <4>1. i \in 1..k /\ i \in DOMAIN seq /\ j \in DOMAIN seq
        BY <1>1, <1>4, <2>1, <3>1
      <4>2. QED
        BY <1>3, <2>1, <3>1, <4>1 DEF Sorted
    <3>2. CASE j = k + 1
      <4>1. i \in 1..k
        BY <1>1, <1>4, <2>1, <3>2
      <4>2. QED
        BY <1>2, <1>3, <3>2, <4>1
    <3>3. CASE j \in (k + 2)..(Len(seq) + 1)
      <4>1. j - 1 \in DOMAIN seq /\ new[j] = seq[j - 1] /\ j - 1 \in (k + 1)..Len(seq)
        BY <1>1, <1>3, <1>4, <3>3
      <4>2. CASE i \in 1..k
        <5>1. i \in DOMAIN seq /\ i < j - 1 /\ new[i] = seq[i]
          BY <1>1, <1>3, <1>4, <3>3, <4>2
        <5>2. QED
          BY <4>1, <5>1 DEF Sorted
      <4>3. CASE i = k + 1
        BY <1>2, <1>3, <4>1, <4>3
      <4>4. CASE i \in (k + 2)..(Len(seq) + 1)
        <5>1. i - 1 \in DOMAIN seq /\ i - 1 < j - 1 /\ new[i] = seq[i - 1]
          BY <1>1, <1>3, <1>4, <2>1, <3>3, <4>4
        <5>2. QED
          BY <4>1, <5>1 DEF Sorted
      <4>5. QED
        BY <1>5, <4>2, <4>3, <4>4
    <3>4. QED
      BY <1>5, <3>1, <3>2, <3>3
  <2>2. QED
    BY <2>1 DEF Sorted
<1>7. \A i \in DOMAIN new : new[i] = row \/ \E j \in DOMAIN seq : new[i] = seq[j]
  BY <1>3, <1>5
<1>8. \E i \in DOMAIN new : new[i] = row
  BY <1>1, <1>3, <1>4
<1>9. ASSUME NEW j \in DOMAIN seq PROVE \E i \in DOMAIN new : new[i] = seq[j]
  <2>1. CASE j <= k
    <3>1. j \in 1..k /\ j \in DOMAIN new
      BY <1>1, <1>4, <2>1
    <3>2. QED
      BY <1>3, <3>1
  <2>2. CASE j > k
    <3>1. j + 1 \in (k + 2)..(Len(seq) + 1) /\ j + 1 \in DOMAIN new /\ (j + 1) - 1 = j
      BY <1>1, <1>4, <2>2
    <3>2. QED
      BY <1>3, <3>1
  <2>3. QED
    BY <1>1, <1>4, <2>1, <2>2
<1>10. ASSUME seq # <<>>, ~Before(row, seq[1]) PROVE new[1] = seq[1]
  <2>1. 1 \in DOMAIN seq
    BY <1>10
  <2>2. 1 \notin (k + 1)..Len(seq)
    BY <1>2, <1>10
  <2>3. 1 \in 1..k
    BY <1>1, <1>4, <2>1, <2>2
  <2>4. QED
    BY <1>3, <2>3
<1>11. QED
  BY <1>3, <1>6, <1>7, <1>8, <1>9, <1>10

-----------------------------------------------------------------------------
\* What is kept of the outcomes O since the streak was set to b: the latest of
\* them, in order, and a baseline that is b until an outcome has been dropped.
Window(n, seq, O, b) ==
    /\ n \in 0..MaxFailures /\ seq \in Seq(Rows) /\ Len(seq) <= MaxFailures
    /\ Sorted(seq)
    /\ \A i \in DOMAIN seq : seq[i] \in O
    /\ Len(seq) < MaxFailures => n = b
    /\ \A o \in O : \/ \E i \in DOMAIN seq : seq[i] = o
                    \/ Len(seq) = MaxFailures /\ Before(o, seq[1])

\* The rows of a sorted sequence are as many as its places.
LEMMA AsManyRows ==
  ASSUME NEW seq \in Seq(Rows), Sorted(seq)
  PROVE  /\ IsFiniteSet({seq[i] : i \in DOMAIN seq})
         /\ Cardinality({seq[i] : i \in DOMAIN seq}) = Len(seq)
<1> DEFINE K == {seq[i] : i \in DOMAIN seq}
<1>1. Len(seq) \in Nat /\ DOMAIN seq = 1..Len(seq)
  OBVIOUS
<1>2. IsFiniteSet(1..Len(seq)) /\ Cardinality(1..Len(seq)) = Len(seq)
  BY <1>1, FS_Interval
<1>3. \A i, j \in DOMAIN seq : i # j => seq[i] # seq[j]
  <2>1. ASSUME NEW i \in DOMAIN seq, NEW j \in DOMAIN seq, i < j PROVE seq[i] # seq[j]
    <3>1. Before(seq[i], seq[j])
      BY <2>1 DEF Sorted
    <3>2. \A r \in Rows : r.at \in Nat
      BY DEF Rows
    <3>3. seq[i] \in Rows /\ seq[j] \in Rows
      OBVIOUS
    <3>4. QED
      BY <3>1, <3>2, <3>3 DEF Before
  <2>2. QED
    BY <1>1, <2>1
<1>4. ExistsBijection(1..Len(seq), K)
  <2> DEFINE f == [i \in 1..Len(seq) |-> seq[i]]
  <2>1. f \in [1..Len(seq) -> K]
    BY <1>1
  <2>2. \A i, j \in 1..Len(seq) : i # j => f[i] # f[j]
    BY <1>1, <1>3
  <2>3. \A x \in K : \E i \in 1..Len(seq) : f[i] = x
    BY <1>1
  <2> HIDE DEF f, K
  <2>4. f \in Bijection(1..Len(seq), K)
    BY <2>1, <2>2, <2>3 DEF Bijection, Injection, Surjection, IsInjective
  <2>5. QED
    BY <2>4 DEF ExistsBijection
<1> HIDE DEF K
<1>5. IsFiniteSet(K) /\ Cardinality(K) = Cardinality(1..Len(seq))
  BY <1>2, <1>4, FS_Bijection
<1>6. QED
  BY <1>2, <1>5 DEF K

\* The streak of what is kept is that of all outcomes: a kept success ends every
\* earlier failure, and without one the kept failures alone reach the limit as
\* soon as an outcome has been dropped.
LEMMA WindowIsExact ==
  ASSUME NEW n, NEW seq, NEW O \in SUBSET Rows, IsFiniteSet(O), NEW b \in 0..MaxFailures,
         Window(n, seq, O, b)
  PROVE  Streak(n, seq) = Capped(Cardinality({o \in O : ~o.ok /\ \A p \in O : p.ok => Before(p, o)})
                                 + IF \E o \in O : o.ok THEN 0 ELSE b)
<1> DEFINE D == DOMAIN seq
           F == {o \in O : ~o.ok /\ \A p \in O : p.ok => Before(p, o)}
           K == {seq[i] : i \in DOMAIN seq}
<1>1. /\ MaxFailures \in Nat \ {0} /\ n \in 0..MaxFailures /\ n \in Nat /\ b \in Nat
      /\ seq \in Seq(Rows) /\ Len(seq) \in Nat /\ Len(seq) <= MaxFailures /\ D = 1..Len(seq)
  BY SchedulerAssumption DEF Window
<1>2. Sorted(seq) /\ \A i \in D : seq[i] \in O
  BY DEF Window
<1>3. /\ \A o \in O : o \in Rows
      /\ \A r \in Rows : r.at \in Nat /\ r.ok \in BOOLEAN
  BY DEF Rows
<1>4. Streak(n, seq) = Capped(StreakOf(n, seq, D))
  BY <1>1, <1>2, FoldedStreak DEF Streak
<1>5. IsFiniteSet(F) /\ Cardinality(F) \in Nat
  BY FS_Subset, FS_CardinalityType
<1>6. IsFiniteSet(K) /\ Cardinality(K) = Len(seq)
  BY <1>1, <1>2, AsManyRows
<1>7. \A o \in O : o \notin K => Len(seq) = MaxFailures /\ \A i \in D : Before(o, seq[i])
  <2>1. ASSUME NEW o \in O, o \notin K
        PROVE  Len(seq) = MaxFailures /\ \A i \in D : Before(o, seq[i])
    <3>1. Len(seq) = MaxFailures /\ Before(o, seq[1])
      BY <2>1 DEF Window
    <3>2. 1 \in D
      BY <1>1, <3>1
    <3>3. ASSUME NEW i \in D PROVE Before(o, seq[i])
      <4>1. i = 1 \/ Before(seq[1], seq[i])
        BY <1>1, <1>2, <3>2 DEF Sorted
      <4>2. o.at \in Nat /\ seq[1].at \in Nat /\ seq[i].at \in Nat
        BY <1>2, <1>3, <3>2
      <4>3. QED
        BY <3>1, <4>1, <4>2 DEF Before
    <3>4. QED
      BY <3>1, <3>3
  <2>2. QED
    BY <2>1
<1>8. \A i, j \in D : Before(seq[j], seq[i]) <=> j < i
  <2>1. ASSUME NEW i \in D, NEW j \in D PROVE Before(seq[j], seq[i]) <=> j < i
    <3>1. i \in Nat /\ j \in Nat /\ seq[i].at \in Nat /\ seq[j].at \in Nat
      BY <1>1, <1>2, <1>3
    <3>2. /\ j < i => Before(seq[j], seq[i])
          /\ i < j => Before(seq[i], seq[j])
      BY <1>2 DEF Sorted
    <3>3. QED
      BY <3>1, <3>2 DEF Before
  <2>2. QED
    BY <2>1
<1>9. CASE \E i \in D : seq[i].ok
  <2>1. PICK s \in D : seq[s].ok
    BY <1>9
  <2>2. F = TailOf(seq, D)
    <3>1. ASSUME NEW o \in F PROVE o \in TailOf(seq, D)
      <4>1. o \in O /\ ~o.ok /\ (\A p \in O : p.ok => Before(p, o)) /\ Before(seq[s], o)
        BY <1>2, <2>1
      <4>2. o \in K
        <5>1. ASSUME o \notin K PROVE FALSE
          <6>1. Before(o, seq[s])
            BY <1>7, <4>1, <5>1, <2>1
          <6>2. o.at \in Nat /\ seq[s].at \in Nat
            BY <1>2, <1>3, <4>1, <2>1
          <6>3. QED
            BY <4>1, <6>1, <6>2 DEF Before
        <5>2. QED
          BY <5>1
      <4>3. PICK i \in D : o = seq[i]
        BY <4>2
      <4>4. \A j \in D : seq[j].ok => j < i
        BY <1>2, <1>8, <4>1, <4>3
      <4>5. QED
        BY <4>3, <4>4 DEF TailOf
    <3>2. ASSUME NEW o \in TailOf(seq, D) PROVE o \in F
      <4>1. PICK i \in D : o = seq[i] /\ \A j \in D : seq[j].ok => j < i
        BY DEF TailOf
      <4>2. o \in O /\ ~o.ok
        <5>1. o \in O
          BY <1>2, <4>1
        <5>2. ~(i < i)
          BY <1>1
        <5>3. ~seq[i].ok
          BY <4>1, <5>2
        <5>4. QED
          BY <4>1, <5>1, <5>3
      <4>3. ASSUME NEW p \in O, p.ok PROVE Before(p, o)
        <5>1. CASE p \in K
          <6>1. PICK j \in D : p = seq[j]
            BY <5>1
          <6>2. QED
            BY <1>8, <4>1, <4>3, <6>1
        <5>2. CASE p \notin K
          BY <1>7, <4>1, <5>2
        <5>3. QED
          BY <5>1, <5>2
      <4>4. QED
        BY <4>2, <4>3
    <3>3. QED
      BY <3>1, <3>2
  <2>3. SomeOk(seq, D) /\ \E o \in O : o.ok
    BY <1>2, <1>9 DEF SomeOk
  <2> HIDE DEF F
  <2>4. StreakOf(n, seq, D) = Cardinality(F) + 0
    BY <2>2, <2>3 DEF StreakOf
  <2>5. QED
    BY <1>4, <2>3, <2>4 DEF F
<1>10. CASE ~\E i \in D : seq[i].ok
  <2>1. TailOf(seq, D) = K /\ ~SomeOk(seq, D)
    BY <1>10 DEF TailOf, SomeOk
  <2>2. StreakOf(n, seq, D) = Len(seq) + n
    BY <1>6, <2>1 DEF StreakOf
  <2>3. CASE Len(seq) < MaxFailures
    <3>0. Len(seq) # MaxFailures
      <4>1. MaxFailures \in Nat /\ Len(seq) \in Nat
        BY <1>1
      <4>2. QED
        BY <2>3, <4>1
    <3>1. \A o \in O : o \in K
      BY <1>7, <3>0
    <3>2. \A o \in K : o \in O /\ ~o.ok
      BY <1>2, <1>10
    <3>3. (~\E o \in O : o.ok) /\ F = K
      BY <3>1, <3>2
    <3>4. n = b
      BY <2>3 DEF Window
    <3> HIDE DEF F, K
    <3>5. StreakOf(n, seq, D) = Cardinality(F) + b
      BY <1>6, <2>2, <3>3, <3>4
    <3>6. QED
      BY <1>4, <3>3, <3>5 DEF F
  <2>4. CASE Len(seq) = MaxFailures
    <3>1. \A o \in K : o \in F
      <4>1. ASSUME NEW i \in D PROVE seq[i] \in F
        <5>1. seq[i] \in O /\ ~seq[i].ok
          BY <1>2, <1>10
        <5>2. ASSUME NEW p \in O, p.ok PROVE Before(p, seq[i])
          <6>1. p \notin K
            BY <1>10, <5>2
          <6>2. QED
            BY <1>7, <6>1
        <5>3. QED
          BY <5>1, <5>2
      <4>2. QED
        BY <4>1
    <3> DEFINE rest == IF \E o \in O : o.ok THEN 0 ELSE b
    <3>2. rest \in Nat
      BY <1>1
    <3>3. F = {o \in O : ~o.ok /\ \A p \in O : p.ok => Before(p, o)}
      OBVIOUS
    <3> HIDE DEF F, K, rest
    <3>4. Cardinality(F) \in Nat /\ Cardinality(F) >= MaxFailures
      <4>1. K \in SUBSET F
        BY <3>1
      <4>2. Cardinality(K) <= Cardinality(F)
        BY <1>5, <4>1, FS_Subset
      <4>3. QED
        BY <1>1, <1>5, <1>6, <2>4, <4>2
    <3>5. Capped(Cardinality(F) + rest) = MaxFailures
      BY <1>1, <3>2, <3>4 DEF Capped
    <3>6. Capped(StreakOf(n, seq, D)) = MaxFailures
      BY <1>1, <2>2, <2>4 DEF Capped
    <3>7. QED
      BY <1>4, <3>3, <3>5, <3>6 DEF rest
  <2>5. Len(seq) < MaxFailures \/ Len(seq) = MaxFailures
    <3> HIDE DEF D, F, K
    <3>1. MaxFailures \in Nat
      BY <1>1
    <3>2. QED
      BY <1>1, <3>1
  <2>6. QED
    BY <2>3, <2>4, <2>5
<1>11. QED
  BY <1>9, <1>10

\* A late row older than all that a full window keeps need not be kept.
LEMMA WindowIgnores ==
  ASSUME NEW n, NEW seq, NEW O, NEW b, Window(n, seq, O, b), NEW row,
         Len(seq) >= MaxFailures, Before(row, seq[1])
  PROVE  Window(n, seq, O \cup {row}, b)
<1>1. Len(seq) = MaxFailures
  <2>1. MaxFailures \in Nat /\ Len(seq) \in Nat /\ Len(seq) <= MaxFailures
    BY SchedulerAssumption DEF Window
  <2>2. QED
    BY <2>1
<1>2. QED
  BY <1>1 DEF Window

\* A row that is kept: the oldest one goes into the baseline, as if the window
\* had begun after it.
LEMMA WindowTakes ==
  ASSUME NEW n, NEW seq, NEW O \in SUBSET Rows, NEW b, Window(n, seq, O, b),
         NEW row \in Rows, \A o \in O : o.at # row.at,
         ~(Len(seq) >= MaxFailures /\ Before(row, seq[1])),
         NEW kept, kept = Trimmed(n, InOrder(seq, row))
  PROVE  Window(kept.baseline, kept.recent, O \cup {row}, b)
<1>1. /\ MaxFailures \in Nat \ {0} /\ n \in 0..MaxFailures
      /\ seq \in Seq(Rows) /\ Len(seq) \in Nat /\ Len(seq) <= MaxFailures
      /\ DOMAIN seq = 1..Len(seq) /\ Sorted(seq) /\ \A i \in DOMAIN seq : seq[i] \in O
  BY SchedulerAssumption DEF Window
<1>2. PICK new : new = InOrder(seq, row)
  OBVIOUS
<1> \A i \in DOMAIN seq : seq[i].at # row.at
  BY <1>1
<1>3. /\ new \in Seq(Rows) /\ Len(new) = Len(seq) + 1 /\ Sorted(new)
      /\ \A i \in DOMAIN new : new[i] = row \/ \E j \in DOMAIN seq : new[i] = seq[j]
      /\ \E i \in DOMAIN new : new[i] = row
      /\ \A j \in DOMAIN seq : \E i \in DOMAIN new : new[i] = seq[j]
      /\ seq # <<>> /\ ~Before(row, seq[1]) => new[1] = seq[1]
  <2>1. seq \in Seq(Rows) /\ Sorted(seq)
    BY <1>1
  <2>2. QED
    BY <1>2, <2>1, OrderedIn
<1>4. \A i \in DOMAIN new : new[i] \in O \cup {row}
  BY <1>1, <1>3
<1>5. kept = Trimmed(n, new)
  BY <1>2
<1>6. CASE Len(seq) < MaxFailures
  <2>1. kept.baseline = n /\ kept.recent = new
    BY <1>1, <1>3, <1>5, <1>6 DEF Trimmed
  <2>2. n = b /\ \A o \in O : \E i \in DOMAIN seq : seq[i] = o
    BY <1>6 DEF Window
  <2>3. \A o \in O \cup {row} : \E i \in DOMAIN new : new[i] = o
    BY <1>3, <2>2
  <2>4. Len(new) <= MaxFailures
    BY <1>1, <1>3, <1>6
  <2>5. QED
    BY <1>1, <1>3, <1>4, <2>1, <2>2, <2>3, <2>4 DEF Window
<1>7. CASE Len(seq) = MaxFailures
  <2> DEFINE m == IF new[1].ok THEN 0 ELSE Capped(n + 1)
             late == Tail(new)
  <2>1. Len(new) = MaxFailures + 1 /\ DOMAIN new = 1..(MaxFailures + 1)
    BY <1>1, <1>3, <1>7
  <2>2. kept.baseline = m /\ kept.recent = late
    BY <1>1, <1>5, <2>1 DEF Trimmed
  <2>3. m \in 0..MaxFailures
    BY <1>1 DEF Capped
  <2>4. /\ late \in Seq(Rows) /\ Len(late) = MaxFailures /\ DOMAIN late = 1..MaxFailures
        /\ \A i \in 1..MaxFailures : late[i] = new[i + 1] /\ i + 1 \in DOMAIN new
    <3>1. new # <<>>
      BY <1>1, <2>1
    <3>2. late \in Seq(Rows) /\ Len(late) = MaxFailures
      BY <1>1, <1>3, <2>1, <3>1
    <3>3. \A i \in 1..MaxFailures : late[i] = new[i + 1]
      BY <1>1, <1>3, <2>1, <3>1
    <3>4. \A i \in 1..MaxFailures : i + 1 \in DOMAIN new
      BY <1>1, <2>1
    <3>5. QED
      BY <3>2, <3>3, <3>4
  <2> HIDE DEF m, late
  <2>5. Sorted(late)
    <3>1. ASSUME NEW i \in DOMAIN late, NEW j \in DOMAIN late, i < j
          PROVE  Before(late[i], late[j])
      <4>1. i + 1 \in DOMAIN new /\ j + 1 \in DOMAIN new /\ i + 1 < j + 1
        BY <1>1, <2>4, <3>1
      <4>2. QED
        BY <1>3, <2>4, <4>1 DEF Sorted
    <3>2. QED
      BY <3>1 DEF Sorted
  <2>6. seq # <<>> /\ ~Before(row, seq[1]) /\ 1 \in DOMAIN seq
    BY <1>1, <1>7
  <2>7. new[1] = seq[1]
    BY <1>3, <2>6
  <2>8. 1 \in DOMAIN late /\ Before(new[1], late[1])
    <3>1. 1 \in 1..MaxFailures /\ 1 \in DOMAIN new /\ 1 + 1 \in DOMAIN new /\ 1 < 1 + 1
      BY <1>1, <2>1
    <3>2. Before(new[1], new[1 + 1])
      BY <1>3, <3>1 DEF Sorted
    <3>3. QED
      BY <2>4, <3>1, <3>2
  <2>9. ASSUME NEW i \in DOMAIN new
        PROVE  (\E j \in DOMAIN late : late[j] = new[i]) \/ new[i] = new[1]
    <3>1. CASE i = 1
      BY <3>1
    <3>2. CASE i # 1
      <4>1. i - 1 \in 1..MaxFailures /\ (i - 1) + 1 = i
        BY <1>1, <2>1, <3>2
      <4>2. QED
        BY <2>4, <4>1
    <3>3. QED
      BY <3>1, <3>2
  <2>10. ASSUME NEW o \in O \cup {row}
         PROVE  (\E j \in DOMAIN late : late[j] = o) \/ Before(o, late[1])
    <3>1. CASE \E i \in DOMAIN new : new[i] = o
      BY <2>8, <2>9, <3>1
    <3>2. CASE ~\E i \in DOMAIN new : new[i] = o
      <4>1. o \in O /\ ~\E i \in DOMAIN seq : seq[i] = o
        BY <1>3, <3>2
      <4>2. Before(o, seq[1])
        BY <4>1 DEF Window
      <4>3. \A r \in Rows : r.at \in Nat
        BY DEF Rows
      <4>4. o \in Rows /\ new[1] \in Rows /\ late[1] \in Rows
        BY <1>3, <2>1, <1>1, <2>4, <2>8, <4>1
      <4>5. QED
        BY <2>7, <2>8, <4>2, <4>3, <4>4 DEF Before
    <3>3. QED
      BY <3>1, <3>2
  <2>11. \A i \in DOMAIN late : late[i] \in O \cup {row}
    BY <1>4, <2>4
  <2>12. ~(MaxFailures < MaxFailures) /\ MaxFailures <= MaxFailures
    BY <1>1
  <2>13. QED
    BY <2>2, <2>3, <2>4, <2>5, <2>10, <2>11, <2>12 DEF Window
<1>8. Len(seq) < MaxFailures \/ Len(seq) = MaxFailures
  <2>1. MaxFailures \in Nat /\ Len(seq) \in Nat /\ Len(seq) <= MaxFailures
    BY <1>1
  <2>2. QED
    BY <2>1
<1>9. QED
  BY <1>6, <1>7, <1>8

-----------------------------------------------------------------------------
(* The streak of the task is exact.                                        *)

\* A fire whose outcome is still to be recorded.
Awaited(r) == run[r].pc \in {"main", "threw", "barrier"}

\* Fires start at times of their own, and an outcome bears the time of a fire
\* whose outcome is no longer awaited.
Times ==
    /\ clock \in Nat
    /\ \A o \in outcomes : o.at \in 0..clock
    /\ \A r \in 1..Fires : run[r].at \in 0..clock
    /\ \A r \in 1..Fires : Awaited(r) => \A o \in outcomes : o.at # run[r].at
    /\ \A r, s \in 1..Fires : r # s /\ Awaited(r) /\ Awaited(s) => run[r].at # run[s].at

\* What is saved is a window on the outcomes, and the streak is the window's.
Streaks ==
    /\ base \in 0..MaxFailures /\ task.failures \in 0..MaxFailures
    /\ task.state \in {Fresh} \cup OutcomeStates
    /\ IsFiniteSet(outcomes) /\ outcomes \in SUBSET Rows
    /\ Window(State.baseline, State.recent, outcomes, base)
    /\ task.failures = Streak(State.baseline, State.recent)

\* Nothing has been recorded of a task that starts afresh.
LEMMA FreshStreak ==
  task.failures \in 0..MaxFailures /\ base = task.failures /\ outcomes = {} /\ task.state = Fresh
    => Streaks
<1> SUFFICES ASSUME task.failures \in 0..MaxFailures, base = task.failures, outcomes = {},
                    task.state = Fresh
             PROVE  Streaks
  OBVIOUS
<1>1. State.baseline = base /\ State.recent = <<>>
  BY DEF State
<1>2. MaxFailures \in Nat \ {0} /\ base \in Nat /\ base <= MaxFailures
  BY SchedulerAssumption
<1>3. <<>> \in Seq(Rows) /\ Len(<<>>) = 0 /\ DOMAIN <<>> = {}
  OBVIOUS
<1>4. Sorted(<<>>)
  BY <1>3 DEF Sorted
<1>5. IsFiniteSet(outcomes) /\ outcomes \in SUBSET Rows
  BY FS_EmptySet
<1>6. Window(base, <<>>, outcomes, base)
  BY <1>2, <1>3, <1>4 DEF Window
<1>7. Streak(base, <<>>) = base
  <2>1. StreakOf(base, <<>>, {}) = base
    BY <1>2, <1>3, <1>4, <1>5, StreakStep
  <2>2. \A i \in DOMAIN <<>> : <<>>[i] \in outcomes
    BY <1>3
  <2>3. FoldLeft(LAMBDA k, o : IF o.ok THEN 0 ELSE k + 1, base, <<>>) = StreakOf(base, <<>>, DOMAIN <<>>)
    BY <1>2, <1>3, <1>4, <1>5, <2>2, FoldedStreak
  <2>4. FoldLeft(LAMBDA k, o : IF o.ok THEN 0 ELSE k + 1, base, <<>>) = base
    BY <1>3, <2>1, <2>3
  <2>5. Streak(base, <<>>) = Capped(base)
    BY <2>4 DEF Streak
  <2>6. QED
    BY <1>2, <2>5 DEF Capped
<1>8. QED
  BY <1>1, <1>5, <1>6, <1>7 DEF Streaks

\* What leaves the streak and its window alone.
LEMMA SameStreak ==
  ASSUME Streaks, UNCHANGED <<outcomes, base>>, task'.failures = task.failures,
         \/ task'.state = task.state
         \/ task.state # Fresh /\ task'.state = [task.state EXCEPT !.disabled = FALSE]
  PROVE  Streaks'
<1>1. CASE task'.state = task.state
  <2>1. State'.baseline = State.baseline /\ State'.recent = State.recent
    BY <1>1 DEF State
  <2>2. QED
    BY <1>1, <2>1 DEF Streaks
<1>2. CASE task.state # Fresh /\ task'.state = [task.state EXCEPT !.disabled = FALSE]
  <2>1. task.state \in OutcomeStates
    BY <1>2 DEF Streaks
  <2>2. /\ task'.state \in OutcomeStates
        /\ task'.state.baseline = task.state.baseline /\ task'.state.recent = task.state.recent
    BY <1>2, <2>1 DEF OutcomeStates
  <2>3. task'.state # Fresh
    BY <2>2, SchedulerAssumption
  <2>4. State'.baseline = State.baseline /\ State'.recent = State.recent
    BY <1>2, <2>2, <2>3 DEF State
  <2>5. QED
    BY <2>2, <2>4 DEF Streaks
<1>3. QED
  BY <1>1, <1>2

\* An outcome, whenever it arrives, moves the window and the streak with it.
LEMMA RecordCounts ==
  ASSUME SchedulerInv, Streaks, NEW row \in Rows, \A o \in outcomes : o.at # row.at, RecordOutcome(row)
  PROVE  Streaks' /\ outcomes' \in SUBSET (outcomes \cup {row})
<1>1. base' = base /\ outcomes' = IF Known(row) THEN outcomes ELSE outcomes \cup {row}
  BY DEF RecordOutcome
<1>2. IsFiniteSet(outcomes') /\ outcomes' \in SUBSET Rows /\ outcomes' \in SUBSET (outcomes \cup {row})
  BY <1>1, FS_AddElement DEF Streaks
<1>3. State.disabled \in BOOLEAN
  BY DEF State, SchedulerInv, TaskShaped
<1>4. CASE Known(row)
  <2>1. UNCHANGED <<task, outcomes, base>>
    BY <1>1, <1>4 DEF RecordOutcome, Refused
  <2>2. QED
    BY <1>2, <2>1, SameStreak
<1>5. CASE ~Known(row) /\ Refused(row)
  <2>1. task' = task /\ outcomes' = outcomes \cup {row}
    BY <1>1, <1>5 DEF RecordOutcome
  <2>2. Window(State.baseline, State.recent, outcomes \cup {row}, base)
    <3>1. Len(State.recent) >= MaxFailures /\ Before(row, State.recent[1])
      BY <1>5 DEF Refused
    <3>2. Window(State.baseline, State.recent, outcomes, base)
      BY DEF Streaks
    <3>3. QED
      BY <3>1, <3>2, WindowIgnores
  <2>3. State' = State
    BY <2>1 DEF State
  <2>4. QED
    BY <1>1, <1>2, <2>1, <2>2, <2>3 DEF Streaks
<1>6. CASE ~Refused(row)
  <2>1. PICK kept : kept = Trimmed(State.baseline, InOrder(State.recent, row))
    OBVIOUS
  <2>2. Window(kept.baseline, kept.recent, outcomes \cup {row}, base)
    <3>1. ~(Len(State.recent) >= MaxFailures /\ Before(row, State.recent[1]))
      BY <1>6 DEF Refused
    <3>2. Window(State.baseline, State.recent, outcomes, base) /\ outcomes \in SUBSET Rows
      BY DEF Streaks
    <3>3. QED
      BY <2>1, <3>1, <3>2, WindowTakes
  <2>3. \E disabled \in BOOLEAN :
           /\ task'.failures = Streak(kept.baseline, kept.recent)
           /\ task'.state = [baseline |-> kept.baseline, recent |-> kept.recent,
                             disabled |-> disabled]
    <3> DEFINE failures == Streak(kept.baseline, kept.recent)
               broken == failures >= MaxFailures
               reenable == ~broken /\ State.disabled
               disabled == IF broken THEN State.disabled \/ task.enabled
                           ELSE State.disabled /\ ~reenable
               enabled == reenable \/ (task.enabled /\ ~broken)
               reason == broken \/ (task.reason /\ ~reenable)
               last == Last(kept.recent).run
    <3>1. task' = [enabled |-> enabled, failures |-> failures, reason |-> reason,
                   state |-> [baseline |-> kept.baseline, recent |-> kept.recent,
                              disabled |-> disabled],
                   last |-> last]
      BY <1>6, <2>1 DEF RecordOutcome
    <3>2. broken \in BOOLEAN
      OBVIOUS
    <3> HIDE DEF failures, broken, last, reason
    <3>3. disabled \in BOOLEAN
      BY <1>3, <3>2 DEF SchedulerInv, TaskShaped
    <3> HIDE DEF enabled, disabled, reenable
    <3>4. QED
      BY <3>1, <3>3 DEF failures
  <2>4. task'.state \in OutcomeStates
    BY <2>2, <2>3 DEF Window, OutcomeStates
  <2>5. State'.baseline = kept.baseline /\ State'.recent = kept.recent
    <3>1. task'.state # Fresh
      BY <2>4, SchedulerAssumption
    <3>2. QED
      BY <2>3, <3>1 DEF State
  <2>6. outcomes' = outcomes \cup {row}
    BY <1>1, <1>6 DEF Refused
  <2>7. task'.failures \in 0..MaxFailures
    <3>1. Sorted(kept.recent) /\ kept.recent \in Seq(Rows) /\ kept.baseline \in Nat
          /\ \A i \in DOMAIN kept.recent : kept.recent[i] \in outcomes'
      BY <2>2, <2>6, SchedulerAssumption DEF Window
    <3>2. Streak(kept.baseline, kept.recent)
            = Capped(StreakOf(kept.baseline, kept.recent, DOMAIN kept.recent))
      BY <1>2, <3>1, FoldedStreak DEF Streak
    <3>3. StreakOf(kept.baseline, kept.recent, DOMAIN kept.recent) \in Nat
      <4>1. TailOf(kept.recent, DOMAIN kept.recent) \in SUBSET outcomes'
        BY <3>1 DEF TailOf
      <4>2. Cardinality(TailOf(kept.recent, DOMAIN kept.recent)) \in Nat
        BY <1>2, <4>1, FS_Subset, FS_CardinalityType
      <4>3. QED
        BY <3>1, <4>2 DEF StreakOf
    <3>4. \A n \in Nat : Capped(n) \in 0..MaxFailures
      BY SchedulerAssumption DEF Capped
    <3>5. QED
      BY <2>3, <3>2, <3>3, <3>4
  <2>8. QED
    BY <1>1, <1>2, <2>2, <2>3, <2>4, <2>5, <2>6, <2>7 DEF Streaks
<1>7. QED
  BY <1>4, <1>5, <1>6

\* Times stay right while runs end and outcomes are recorded.
LEMMA TimesKept ==
  ASSUME Times, clock' \in {clock, clock + 1},
         \A r \in 1..Fires : run'[r].at = run[r].at /\ (Awaited(r)' => Awaited(r)),
         \A o \in outcomes' : \/ o \in outcomes
                              \/ /\ o.at \in 0..clock'
                                 /\ \A r \in 1..Fires : Awaited(r)' => o.at # run[r].at
  PROVE  Times'
<1>1. clock \in Nat /\ clock' \in Nat /\ clock <= clock'
  BY DEF Times
<1>2. \A o \in outcomes' : o.at \in 0..clock'
  <2>1. \A o \in outcomes : o.at \in 0..clock'
    BY <1>1 DEF Times
  <2>2. QED
    BY <2>1
<1>3. \A r \in 1..Fires : run'[r].at \in 0..clock'
  BY <1>1 DEF Times
<1>4. \A r \in 1..Fires : Awaited(r)' => \A o \in outcomes' : o.at # run'[r].at
  BY DEF Times
<1>5. \A r, s \in 1..Fires : r # s /\ Awaited(r)' /\ Awaited(s)' => run'[r].at # run'[s].at
  BY DEF Times
<1>6. QED
  BY <1>1, <1>2, <1>3, <1>4, <1>5 DEF Times

\* The steps of a fire, the server and the user that record nothing.
LEMMA StreakUntouched ==
  ASSUME SchedulerInv, Times, Streaks, UNCHANGED <<task, outcomes, base>>,
         clock' \in {clock, clock + 1},
         \A r \in 1..Fires : run'[r].at = run[r].at /\ (Awaited(r)' => Awaited(r))
  PROVE  Times' /\ Streaks'
BY SameStreak, TimesKept

\* A fire starts at a time of its own.
LEMMA FireStarts ==
  ASSUME SchedulerInv, Times, Streaks, NEW r \in 1..Fires, Fire(r)
  PROVE  Times' /\ Streaks'
<1>1. /\ UNCHANGED <<task, outcomes, base>>
      /\ clock' = clock + 1
      /\ run' = [run EXCEPT ![r] = [pc |-> "main", at |-> clock + 1, kept |-> FALSE]]
  BY DEF Fire
<1>2. Streaks'
  BY <1>1, SameStreak
<1>3. /\ run'[r].at = clock + 1
      /\ \A s \in 1..Fires : s # r => run'[s].at = run[s].at /\ (Awaited(s)' <=> Awaited(s))
  BY <1>1 DEF SchedulerInv, RunsShaped, Awaited
<1>4. clock \in Nat /\ clock' = clock + 1
  BY <1>1 DEF Times
<1>5. \A o \in outcomes' : o.at \in 0..clock' /\ o.at # clock + 1
  BY <1>1, <1>4 DEF Times
<1>6. \A s \in 1..Fires : run[s].at \in 0..clock /\ run[s].at # clock + 1
  BY <1>4 DEF Times
<1>7. \A s \in 1..Fires : run'[s].at \in 0..clock'
  <2>1. ASSUME NEW s \in 1..Fires PROVE run'[s].at \in 0..clock'
    <3>1. CASE s = r
      BY <1>3, <1>4, <3>1
    <3>2. CASE s # r
      <4>1. run'[s].at \in 0..clock
        BY <1>3, <1>6, <3>2
      <4>2. QED
        BY <1>4, <4>1
    <3>3. QED
      BY <3>1, <3>2
  <2>2. QED
    BY <2>1
<1>8. \A s \in 1..Fires : Awaited(s)' => \A o \in outcomes' : o.at # run'[s].at
  <2>1. ASSUME NEW s \in 1..Fires, Awaited(s)', NEW o \in outcomes' PROVE o.at # run'[s].at
    <3>1. CASE s = r
      BY <1>3, <1>5, <3>1
    <3>2. CASE s # r
      <4>1. Awaited(s) /\ o \in outcomes /\ run'[s].at = run[s].at
        BY <1>1, <1>3, <2>1, <3>2
      <4>2. QED
        BY <4>1 DEF Times
    <3>3. QED
      BY <3>1, <3>2
  <2>2. QED
    BY <2>1
<1>9. \A s, v \in 1..Fires : s # v /\ Awaited(s)' /\ Awaited(v)' => run'[s].at # run'[v].at
  <2>1. ASSUME NEW s \in 1..Fires, NEW v \in 1..Fires, s # v, Awaited(s)', Awaited(v)'
        PROVE  run'[s].at # run'[v].at
    <3>1. CASE s = r
      BY <1>3, <1>6, <2>1, <3>1
    <3>2. CASE v = r
      BY <1>3, <1>6, <2>1, <3>2
    <3>3. CASE s # r /\ v # r
      <4>1. Awaited(s) /\ Awaited(v) /\ run'[s].at = run[s].at /\ run'[v].at = run[v].at
        BY <1>3, <2>1, <3>3
      <4>2. QED
        BY <2>1, <4>1 DEF Times
    <3>4. QED
      BY <3>1, <3>2, <3>3
  <2>2. QED
    BY <2>1
<1>10. Times'
  BY <1>4, <1>5, <1>7, <1>8, <1>9 DEF Times
<1>11. QED
  BY <1>2, <1>10

\* The steps of a fire that record nothing.
LEMMA FireCounts ==
  ASSUME SchedulerInv, Times, Streaks, NEW r \in 1..Fires,
         \/ Fire(r) \/ StartWork(r) \/ HandOver(r) \/ EndCallback(r)
         \/ PauseForBudget(r) \/ Forget(r)
  PROVE  Times' /\ Streaks'
<1>1. CASE Fire(r)
  BY <1>1, FireStarts
<1>2. CASE StartWork(r) \/ HandOver(r) \/ EndCallback(r) \/ PauseForBudget(r) \/ Forget(r)
  <2>1. UNCHANGED <<task, outcomes, base, clock>>
    BY <1>2 DEF StartWork, HandOver, EndCallback, PauseForBudget, Forget
  <2>2. \A s \in 1..Fires : run'[s].at = run[s].at /\ (Awaited(s)' => Awaited(s))
    <3> USE DEF SchedulerInv, RunsShaped, Awaited
    <3>1. CASE StartWork(r)
      BY <3>1 DEF StartWork
    <3>2. CASE HandOver(r)
      BY <3>2 DEF HandOver
    <3>3. CASE EndCallback(r)
      BY <3>3 DEF EndCallback
    <3>4. CASE PauseForBudget(r)
      BY <3>4 DEF PauseForBudget
    <3>5. CASE Forget(r)
      BY <3>5 DEF Forget
    <3>6. QED
      BY <1>2, <3>1, <3>2, <3>3, <3>4, <3>5
  <2>3. QED
    BY <2>1, <2>2, StreakUntouched
<1>3. QED
  BY <1>1, <1>2

\* The steps that record an outcome: a fire's at the time of the fire, whose
\* outcome is then no longer awaited, and a recovered one's now.
LEMMA OutcomeCounts ==
  ASSUME SchedulerInv, Times, Streaks, NEW r \in 1..Fires,
         \/ \E ok \in BOOLEAN : RecordDirectly(r, ok) \/ FinalizeRun(r, ok)
         \/ Recover(r)
  PROVE  Times' /\ Streaks'
<1>1. CASE \E ok \in BOOLEAN : RecordDirectly(r, ok) \/ FinalizeRun(r, ok)
  <2>1. PICK ok \in BOOLEAN : RecordDirectly(r, ok) \/ FinalizeRun(r, ok)
    BY <1>1
  <2>2. PICK row : row = [run |-> r, at |-> run[r].at, ok |-> ok]
    OBVIOUS
  <2>3. RecordOutcome(row) /\ clock' = clock /\ Awaited(r)
    BY <2>1, <2>2 DEF RecordDirectly, FinalizeRun, Awaited
  <2>4. \E pc \in {"ending", "over"} : run' = [run EXCEPT ![r].pc = pc]
    BY <2>1 DEF RecordDirectly, FinalizeRun
  <2>5. /\ \A s \in 1..Fires : run'[s].at = run[s].at /\ (Awaited(s)' => Awaited(s))
        /\ ~Awaited(r)'
    BY <2>4 DEF SchedulerInv, RunsShaped, Awaited
  <2>6. clock \in Nat /\ run[r].at \in 0..clock /\ run[r].at \in Nat
    BY DEF Times
  <2>7. row \in Rows /\ row.at = run[r].at
    BY <2>2, <2>6 DEF Rows
  <2>8. \A o \in outcomes : o.at # row.at
    BY <2>3, <2>7 DEF Times
  <2>9. Streaks' /\ outcomes' \in SUBSET (outcomes \cup {row})
    BY <2>3, <2>7, <2>8, RecordCounts
  <2>10. \A s \in 1..Fires : Awaited(s)' => row.at # run[s].at
    BY <2>3, <2>5, <2>7 DEF Times
  <2>11. \A o \in outcomes' : \/ o \in outcomes
                              \/ /\ o.at \in 0..clock'
                                 /\ \A s \in 1..Fires : Awaited(s)' => o.at # run[s].at
    BY <2>3, <2>6, <2>7, <2>9, <2>10
  <2>12. QED
    BY <2>3, <2>5, <2>9, <2>11, TimesKept
<1>2. CASE Recover(r)
  <2>1. clock' = clock + 1 /\ run' = [run EXCEPT ![r].pc = "over"]
    BY <1>2 DEF Recover
  <2>2. \A s \in 1..Fires : run'[s].at = run[s].at /\ (Awaited(s)' => Awaited(s))
    BY <2>1 DEF SchedulerInv, RunsShaped, Awaited
  <2>3. CASE task.last = r
    <3>1. UNCHANGED <<task, outcomes, base>>
      BY <1>2, <2>3 DEF Recover
    <3>2. QED
      BY <2>1, <2>2, <3>1, StreakUntouched
  <2>4. CASE task.last # r
    <3>1. PICK row : row = [run |-> r, at |-> clock + 1, ok |-> FALSE]
      OBVIOUS
    <3>2. RecordOutcome(row)
      BY <1>2, <2>4, <3>1 DEF Recover
    <3>3. clock \in Nat /\ row \in Rows /\ row.at = clock + 1
      BY <3>1 DEF Times, Rows
    <3>4. \A o \in outcomes : o.at # row.at
      BY <3>3 DEF Times
    <3>5. Streaks' /\ outcomes' \in SUBSET (outcomes \cup {row})
      BY <3>2, <3>3, <3>4, RecordCounts
    <3>6. \A s \in 1..Fires : row.at # run[s].at
      BY <3>3 DEF Times
    <3>7. row.at \in 0..clock'
      BY <2>1, <3>3
    <3>8. \A o \in outcomes' : \/ o \in outcomes
                               \/ /\ o.at \in 0..clock'
                                  /\ \A s \in 1..Fires : Awaited(s)' => o.at # run[s].at
      BY <3>5, <3>6, <3>7
    <3>9. QED
      BY <2>1, <2>2, <3>5, <3>8, TimesKept
  <2>5. QED
    BY <2>3, <2>4
<1>3. QED
  BY <1>1, <1>2

\* The steps that switch the task off or on, and those of the server.
LEMMA SwitchCounts ==
  ASSUME SchedulerInv, Times, Streaks,
         \/ \E r \in 1..Fires, why \in BOOLEAN, after \in {"threw", "ending", "over"} :
               GiveUp(r, why, after)
         \/ FireDisabled \/ FinalizeManual
         \/ \E enable \in BOOLEAN : OpenPatch(enable)
         \/ WritePatch \/ Reschedule \/ SchedulePatch
         \/ ServerCrash \/ Boot
  PROVE  Times' /\ Streaks'
<1>1. \A s \in 1..Fires : run'[s].at = run[s].at /\ (Awaited(s)' => Awaited(s))
  <2> USE DEF SchedulerInv, RunsShaped, Awaited
  <2>1. CASE \E r \in 1..Fires, why \in BOOLEAN, after \in {"threw", "ending", "over"} :
                GiveUp(r, why, after)
    BY <2>1 DEF GiveUp
  <2>2. CASE FireDisabled \/ FinalizeManual \/ SchedulePatch \/ Boot
    BY <2>2 DEF FireDisabled, FinalizeManual, SchedulePatch, Boot
  <2>3. CASE (\E enable \in BOOLEAN : OpenPatch(enable)) \/ WritePatch \/ Reschedule
    BY <2>3 DEF OpenPatch, WritePatch, Reschedule
  <2>4. CASE ServerCrash
    <3>1. ASSUME NEW s \in 1..Fires
          PROVE  run'[s].at = run[s].at /\ (Awaited(s)' => Awaited(s))
      <4>1. run'[s] = [run[s] EXCEPT !.pc = IF run[s].kept THEN "journaled"
                                            ELSE IF @ \in {"none", "over"} THEN @ ELSE "lost"]
        BY <2>4 DEF ServerCrash
      <4>2. run'[s].at = run[s].at /\ run'[s].pc \in {"journaled", "none", "over", "lost"}
        BY <4>1
      <4>3. QED
        BY <4>2
    <3>2. QED
      BY <3>1
  <2>5. QED
    BY <2>1, <2>2, <2>3, <2>4
<1>2. clock' = clock
  BY DEF GiveUp, FireDisabled, FinalizeManual, OpenPatch, WritePatch, Reschedule, SchedulePatch,
     ServerCrash, Boot
<1>3. Streaks' /\ outcomes' \in SUBSET outcomes
  <2>1. CASE FireDisabled \/ (\E enable \in BOOLEAN : OpenPatch(enable)) \/ SchedulePatch
             \/ ServerCrash \/ Boot
    <3>1. UNCHANGED <<task, outcomes, base>>
      BY <2>1 DEF FireDisabled, OpenPatch, SchedulePatch, ServerCrash, Boot
    <3>2. QED
      BY <3>1, SameStreak
  <2>2. CASE FinalizeManual
    <3>1. UNCHANGED <<outcomes, base>> /\ task' = [task EXCEPT !.last = Manual]
      BY <2>2 DEF FinalizeManual
    <3>2. task'.failures = task.failures /\ task'.state = task.state
      BY <3>1
    <3>3. QED
      BY <3>1, <3>2, SameStreak
  <2>3. ASSUME UNCHANGED <<outcomes, base>>, task'.failures = SwitchedOff.failures,
               task'.state = SwitchedOff.state
        PROVE  Streaks' /\ outcomes' \in SUBSET outcomes
    <3>1. /\ SwitchedOff.failures = task.failures
          /\ SwitchedOff.state = IF task.state = Fresh THEN Fresh
                                 ELSE [task.state EXCEPT !.disabled = FALSE]
      BY DEF SwitchedOff, SchedulerInv, TaskShaped
    <3>2. QED
      BY <2>3, <3>1, SameStreak
  <2>4. CASE \E r \in 1..Fires, why \in BOOLEAN, after \in {"threw", "ending", "over"} :
                GiveUp(r, why, after)
    <3>1. UNCHANGED <<outcomes, base>> /\ \E why : task' = [SwitchedOff EXCEPT !.reason = @ \/ why]
      BY <2>4 DEF GiveUp
    <3>2. DOMAIN SwitchedOff = {"enabled", "failures", "reason", "state", "last"}
      BY SwitchedOffShape DEF SchedulerInv
    <3>3. task'.failures = SwitchedOff.failures /\ task'.state = SwitchedOff.state
      BY <3>1, <3>2
    <3>4. QED
      BY <2>3, <3>1, <3>3
  <2>5. ASSUME NEW clears, SwitchOn(clears) PROVE Streaks' /\ outcomes' \in SUBSET outcomes
    <3>1. /\ task'.failures = IF clears THEN 0 ELSE task.failures
          /\ task'.state = Fresh
      BY <2>5 DEF SwitchOn, SwitchedOn, SchedulerInv, TaskShaped
    <3>2. base' = task'.failures /\ outcomes' = {}
      BY <2>5 DEF SwitchOn
    <3>3. task'.failures \in 0..MaxFailures
      BY <3>1, SchedulerAssumption DEF Streaks
    <3>4. (task.failures \in 0..MaxFailures /\ base = task.failures /\ outcomes = {} /\ task.state = Fresh
             => Streaks)'
      BY FreshStreak, PTL
    <3>5. QED
      BY <3>1, <3>2, <3>3, <3>4
  <2>6. CASE WritePatch
    <3>1. SwitchOn(patch.clears) \/ (task' = SwitchedOff /\ UNCHANGED <<base, outcomes>>)
      BY <2>6 DEF WritePatch
    <3>2. QED
      BY <2>3, <2>5, <3>1
  <2>7. CASE Reschedule
    BY <2>5, <2>7 DEF Reschedule
  <2>8. QED
    BY <2>1, <2>2, <2>4, <2>6, <2>7
<1>4. Times'
  BY <1>1, <1>2, <1>3, TimesKept
<1>5. QED
  BY <1>3, <1>4

\* The three parts of the invariant hold in every reachable state.
LEMMA SchedulerAlways == SchedulerSpec => [](SchedulerInv /\ Times /\ Streaks)
<1>1. SchedulerInit => Times /\ Streaks
  <2>1. ASSUME SchedulerInit PROVE Times /\ Streaks
    <3>1. Times
      BY <2>1 DEF SchedulerInit, Times, Awaited
    <3>2. /\ task.failures = 0 /\ base = 0 /\ outcomes = {} /\ task.state = Fresh
          /\ 0 \in 0..MaxFailures
      BY <2>1, SchedulerAssumption DEF SchedulerInit
    <3>3. QED
      BY <3>1, <3>2, FreshStreak
  <2>2. QED
    BY <2>1
<1>2. SchedulerInv /\ Times /\ Streaks /\ [SchedulerNext]_schedulerVars => Times' /\ Streaks'
  <2>1. ASSUME SchedulerInv, Times, Streaks, SchedulerNext PROVE Times' /\ Streaks'
    BY <2>1, FireCounts, OutcomeCounts, SwitchCounts DEF SchedulerNext
  <2>2. ASSUME SchedulerInv, Times, Streaks, UNCHANGED schedulerVars PROVE Times' /\ Streaks'
    <3>1. UNCHANGED <<task, outcomes, base, clock, run>>
      BY <2>2 DEF schedulerVars
    <3>2. \A s \in 1..Fires : run'[s].at = run[s].at /\ (Awaited(s)' => Awaited(s))
      BY <3>1 DEF Awaited
    <3>3. QED
      BY <2>2, <3>1, <3>2, StreakUntouched
  <2>3. QED
    BY <2>1, <2>2
<1>3. QED
  BY <1>1, <1>2, SchedulerInitInv, SchedulerStep, PTL DEF SchedulerSpec

\* Every outcome stands in its place, and only a run that has fired has one.
Placed == \A o \in outcomes : InItsPlace(o) /\ run[o.run].pc # "none"

\* Outcomes keep their places while runs go on and at most one is recorded.
LEMMA PlacedKept ==
  ASSUME Placed, outcomes \in SUBSET Rows, NEW row,
         \A s \in 1..Fires : run'[s].at = run[s].at /\ (run'[s].pc = "none" => run[s].pc = "none"),
         \A o \in outcomes' : o \in outcomes \/ (o = row /\ InItsPlace(row)' /\ run'[row.run].pc # "none")
  PROVE  Placed'
<1>1. ASSUME NEW o \in outcomes', o \in outcomes PROVE InItsPlace(o)' /\ run'[o.run].pc # "none"
  <2>1. o.run \in 1..Fires
    BY <1>1 DEF Rows
  <2>2. run'[o.run].at = run[o.run].at /\ run'[o.run].pc # "none"
    BY <1>1, <2>1 DEF Placed
  <2>3. QED
    BY <1>1, <2>2 DEF Placed, InItsPlace
<1>2. ASSUME NEW o \in outcomes', o = row, InItsPlace(row)', run'[row.run].pc # "none"
      PROVE  InItsPlace(o)' /\ run'[o.run].pc # "none"
  BY <1>2 DEF InItsPlace
<1>3. QED
  BY <1>1, <1>2 DEF Placed

\* No run fires twice, so no outcome's fire moves.
LEMMA PlacedAtFire ==
  ASSUME SchedulerInv, Streaks, Placed, NEW r \in 1..Fires, Fire(r)
  PROVE  Placed'
<1>1. /\ outcomes' = outcomes /\ run[r].pc = "none"
      /\ run' = [run EXCEPT ![r] = [pc |-> "main", at |-> clock + 1, kept |-> FALSE]]
  BY DEF Fire
<1>2. ASSUME NEW o \in outcomes PROVE InItsPlace(o)' /\ run'[o.run].pc # "none"
  <2>1. o.run \in 1..Fires /\ o.run # r
    BY <1>1 DEF Placed, Streaks, Rows
  <2>2. run'[o.run] = run[o.run]
    BY <1>1, <2>1 DEF SchedulerInv, RunsShaped
  <2>3. QED
    BY <2>2 DEF Placed, InItsPlace
<1>3. QED
  BY <1>1, <1>2 DEF Placed

\* A recorded outcome is put at its fire, a recovered one after it.
LEMMA PlacedAtRecord ==
  ASSUME SchedulerInv, Times, Streaks, Placed, NEW r \in 1..Fires,
         \/ \E ok \in BOOLEAN : RecordDirectly(r, ok) \/ FinalizeRun(r, ok)
         \/ Recover(r)
  PROVE  Placed'
<1>1. PICK pc : pc \in {"ending", "over"} /\ run' = [run EXCEPT ![r].pc = pc]
  BY DEF RecordDirectly, FinalizeRun, Recover
<1>2. /\ \A s \in 1..Fires : run'[s].at = run[s].at /\ (run'[s].pc = "none" => run[s].pc = "none")
      /\ run'[r].pc # "none"
  BY <1>1 DEF SchedulerInv, RunsShaped
<1>3. ASSUME NEW row, row.run = r, outcomes' \in SUBSET (outcomes \cup {row}),
             row.at = run[r].at \/ (~row.ok /\ row.at > run[r].at)
      PROVE  Placed'
  <2>1. InItsPlace(row)' /\ run'[row.run].pc # "none"
    BY <1>2, <1>3 DEF InItsPlace
  <2>2. \A o \in outcomes' : o \in outcomes \/ (o = row /\ InItsPlace(row)' /\ run'[row.run].pc # "none")
    BY <1>3, <2>1
  <2>3. QED
    BY <1>2, <2>2, PlacedKept DEF Streaks
<1>4. CASE outcomes' = outcomes
  BY <1>2, <1>4, PlacedKept DEF Streaks
<1>5. CASE \E ok \in BOOLEAN : RecordDirectly(r, ok) \/ FinalizeRun(r, ok)
  <2>1. PICK ok \in BOOLEAN : RecordOutcome([run |-> r, at |-> run[r].at, ok |-> ok])
    BY <1>5 DEF RecordDirectly, FinalizeRun
  <2>2. PICK row : row = [run |-> r, at |-> run[r].at, ok |-> ok]
    OBVIOUS
  <2>3. outcomes' \in SUBSET (outcomes \cup {row})
    BY <2>1, <2>2 DEF RecordOutcome
  <2>4. QED
    BY <1>3, <2>2, <2>3
<1>6. CASE Recover(r) /\ outcomes' # outcomes
  <2>1. RecordOutcome([run |-> r, at |-> clock + 1, ok |-> FALSE])
    BY <1>6 DEF Recover
  <2>2. PICK row : row = [run |-> r, at |-> clock + 1, ok |-> FALSE]
    OBVIOUS
  <2>3. outcomes' \in SUBSET (outcomes \cup {row})
    BY <2>1, <2>2 DEF RecordOutcome
  <2>4. row.run = r /\ ~row.ok
    BY <2>2
  <2>5. row.at > run[r].at
    BY <2>2 DEF Times
  <2>6. QED
    BY <1>3, <2>3, <2>4, <2>5
<1>7. QED
  BY <1>4, <1>5, <1>6

\* The other steps record nothing and start no run.
LEMMA PlacedElsewhere ==
  ASSUME SchedulerInv, Streaks, Placed,
         \/ \E r \in 1..Fires :
               \/ StartWork(r) \/ HandOver(r) \/ EndCallback(r) \/ PauseForBudget(r) \/ Forget(r)
               \/ \E why \in BOOLEAN, after \in {"threw", "ending", "over"} : GiveUp(r, why, after)
         \/ FireDisabled \/ FinalizeManual
         \/ \E enable \in BOOLEAN : OpenPatch(enable)
         \/ WritePatch \/ Reschedule \/ SchedulePatch \/ ServerCrash \/ Boot
         \/ UNCHANGED schedulerVars
  PROVE  Placed'
<1>1. outcomes' \in {outcomes, {}}
  BY DEF StartWork, HandOver, EndCallback, PauseForBudget, Forget, GiveUp, FireDisabled, FinalizeManual,
         OpenPatch, WritePatch, SwitchOn, Reschedule, SchedulePatch, ServerCrash, Boot, schedulerVars
<1>2. \A s \in 1..Fires : run'[s].at = run[s].at /\ (run'[s].pc = "none" => run[s].pc = "none")
  <2> USE DEF SchedulerInv, RunsShaped
  <2>1. CASE \E r \in 1..Fires :
                StartWork(r) \/ HandOver(r) \/ EndCallback(r) \/ PauseForBudget(r) \/ Forget(r)
    <3>1. PICK r \in 1..Fires :
                StartWork(r) \/ HandOver(r) \/ EndCallback(r) \/ PauseForBudget(r) \/ Forget(r)
      BY <2>1
    <3>2. CASE StartWork(r)
      BY <3>2 DEF StartWork
    <3>3. CASE HandOver(r)
      BY <3>3 DEF HandOver
    <3>4. CASE EndCallback(r)
      BY <3>4 DEF EndCallback
    <3>5. CASE PauseForBudget(r)
      BY <3>5 DEF PauseForBudget
    <3>6. CASE Forget(r)
      BY <3>6 DEF Forget
    <3>7. QED
      BY <3>1, <3>2, <3>3, <3>4, <3>5, <3>6
  <2>2. CASE \E r \in 1..Fires, why \in BOOLEAN, after \in {"threw", "ending", "over"} : GiveUp(r, why, after)
    BY <2>2 DEF GiveUp
  <2>3. CASE \/ FireDisabled \/ FinalizeManual \/ (\E enable \in BOOLEAN : OpenPatch(enable))
             \/ WritePatch \/ Reschedule \/ SchedulePatch \/ Boot \/ UNCHANGED schedulerVars
    BY <2>3 DEF FireDisabled, FinalizeManual, OpenPatch, WritePatch, Reschedule, SchedulePatch, Boot,
                schedulerVars
  <2>4. CASE ServerCrash
    <3>1. ASSUME NEW s \in 1..Fires
          PROVE  run'[s].at = run[s].at /\ (run'[s].pc = "none" => run[s].pc = "none")
      <4>1. run'[s] = [run[s] EXCEPT !.pc = IF run[s].kept THEN "journaled"
                                            ELSE IF @ \in {"none", "over"} THEN @ ELSE "lost"]
        BY <2>4 DEF ServerCrash
      <4>2. QED
        BY <4>1
    <3>2. QED
      BY <3>1
  <2>5. QED
    BY <2>1, <2>2, <2>3, <2>4
<1>3. QED
  BY <1>1, <1>2, PlacedKept DEF Streaks

LEMMA PlacedAlways == SchedulerSpec => []Placed
<1>1. SchedulerInit => Placed
  BY DEF SchedulerInit, Placed
<1>2. SchedulerInv /\ Times /\ Streaks /\ Placed /\ [SchedulerNext]_schedulerVars => Placed'
  <2>1. ASSUME SchedulerInv, Times, Streaks, Placed, SchedulerNext \/ UNCHANGED schedulerVars
        PROVE  Placed'
    BY <2>1, PlacedAtFire, PlacedAtRecord, PlacedElsewhere DEF SchedulerNext
  <2>2. QED
    BY <2>1
<1>3. QED
  BY <1>1, <1>2, SchedulerAlways, PTL DEF SchedulerSpec

\* However fires overlap, crash and are recovered, and in whatever order their
\* outcomes are recorded (recordScheduledTaskOutcome, scheduler.mjs), the streak
\* that is saved is that of all outcomes recorded since it was last set, although
\* only the latest few are kept: in the order of their fires, except that the
\* failure of an interrupted run counts as of its recovery.
THEOREM StreakIsExactAlways == SchedulerSpec => []StreakIsExact
<1>1. Streaks /\ Placed => StreakIsExact
  <2>1. ASSUME Streaks, Placed PROVE StreakIsExact
    <3>1. /\ Window(State.baseline, State.recent, outcomes, base)
          /\ outcomes \in SUBSET Rows /\ IsFiniteSet(outcomes) /\ base \in 0..MaxFailures
          /\ task.failures = Streak(State.baseline, State.recent)
      BY <2>1 DEF Streaks
    <3>2. Streak(State.baseline, State.recent)
            = Capped(Cardinality({o \in outcomes : ~o.ok /\ \A p \in outcomes : p.ok => Before(p, o)})
                     + IF \E o \in outcomes : o.ok THEN 0 ELSE base)
      BY <3>1, WindowIsExact
    <3>3. QED
      BY <2>1, <3>1, <3>2 DEF StreakIsExact, TrailingFailures, Placed
  <2>2. QED
    BY <2>1
<1>2. QED
  BY <1>1, SchedulerAlways, PlacedAlways, PTL

-----------------------------------------------------------------------------
(* Types                                                                   *)

TaskRecords == [enabled : BOOLEAN, failures : 0..MaxFailures, reason : BOOLEAN,
                state : {Fresh} \cup OutcomeStates, last : 0..Manual]
FireRecords == [pc : {"none", "main", "threw", "ending", "barrier", "over", "journaled", "lost"},
                at : Nat, kept : BOOLEAN]
Recorded == task \in TaskRecords /\ run \in [1..Fires -> FireRecords] /\ off \in BOOLEAN

\* What an outcome makes of the task; the last run's name is that of a kept row.
LEMMA RecordTyped ==
  ASSUME SchedulerInv, Streaks, Recorded, NEW row \in Rows, \A o \in outcomes : o.at # row.at,
         RecordOutcome(row)
  PROVE  task' \in TaskRecords /\ off' = off
<1>1. off' = off
  BY DEF RecordOutcome
<1>2. CASE Refused(row)
  BY <1>1, <1>2 DEF RecordOutcome, Recorded
<1>3. CASE ~Refused(row)
  <2>1. PICK kept : kept = Trimmed(State.baseline, InOrder(State.recent, row))
    OBVIOUS
  <2>2. Window(kept.baseline, kept.recent, outcomes \cup {row}, base)
    <3>1. ~(Len(State.recent) >= MaxFailures /\ Before(row, State.recent[1]))
      BY <1>3 DEF Refused
    <3>2. Window(State.baseline, State.recent, outcomes, base) /\ outcomes \in SUBSET Rows
      BY DEF Streaks
    <3>3. QED
      BY <2>1, <3>1, <3>2, WindowTakes
  <2>3. Last(kept.recent).run \in 0..Manual
    <3>1. MaxFailures \in Nat \ {0} /\ Fires \in Nat /\ kept.recent \in Seq(Rows)
      BY <2>2, SchedulerAssumption DEF Window
    <3>2. Len(kept.recent) \in Nat /\ Len(kept.recent) # 0
      <4>1. (\E i \in DOMAIN kept.recent : kept.recent[i] = row) \/ Len(kept.recent) = MaxFailures
        BY <2>2 DEF Window
      <4>2. Len(kept.recent) \in Nat /\ DOMAIN kept.recent = 1..Len(kept.recent)
        BY <3>1
      <4>3. QED
        BY <3>1, <4>1, <4>2
    <3>3. kept.recent[Len(kept.recent)] \in Rows
      BY <3>1, <3>2
    <3>4. Last(kept.recent) \in Rows
      BY <3>3 DEF Last
    <3>5. QED
      BY <3>1, <3>4 DEF Rows, Manual
  <2> DEFINE failures == Streak(kept.baseline, kept.recent)
             broken == failures >= MaxFailures
             reenable == ~broken /\ State.disabled
             disabled == IF broken THEN State.disabled \/ task.enabled
                         ELSE State.disabled /\ ~reenable
             enabled == reenable \/ (task.enabled /\ ~broken)
             reason == broken \/ (task.reason /\ ~reenable)
             last == Last(kept.recent).run
  <2>4. task' = [enabled |-> enabled, failures |-> failures, reason |-> reason,
                 state |-> [baseline |-> kept.baseline, recent |-> kept.recent,
                            disabled |-> disabled],
                 last |-> last]
    BY <1>3, <2>1 DEF RecordOutcome
  <2>5. broken \in BOOLEAN /\ State.disabled \in BOOLEAN /\ last \in 0..Manual
    <3>1. broken \in BOOLEAN /\ last \in 0..Manual
      BY <2>3
    <3> HIDE DEF broken, last
    <3>2. State.disabled \in BOOLEAN
      BY DEF State, SchedulerInv, TaskShaped
    <3>3. QED
      BY <3>1, <3>2
  <2>6. task'.failures \in 0..MaxFailures /\ task'.state \in {Fresh} \cup OutcomeStates
    BY RecordCounts DEF Streaks
  <2> HIDE DEF failures, broken, last
  <2>7. enabled \in BOOLEAN /\ reason \in BOOLEAN
    BY <2>5 DEF SchedulerInv, TaskShaped, Recorded, TaskRecords
  <2> HIDE DEF enabled, reason, disabled, reenable
  <2>8. QED
    BY <1>1, <2>4, <2>5, <2>6, <2>7 DEF TaskRecords
<1>4. QED
  BY <1>2, <1>3

\* What the user and a fire that cannot work make of the task.
LEMMA SwitchTyped ==
  ASSUME task \in TaskRecords
  PROVE  /\ SwitchedOff \in TaskRecords
         /\ \A clears \in BOOLEAN : SwitchedOn(clears) \in TaskRecords
<1>1. 0 \in 0..MaxFailures
  BY SchedulerAssumption
<1>2. SwitchedOff \in TaskRecords
  <2>1. CASE task.state = Fresh
    BY <2>1 DEF SwitchedOff, TaskRecords
  <2>2. CASE task.state # Fresh
    <3>1. task.state \in OutcomeStates
      BY <2>2 DEF TaskRecords
    <3>2. [task.state EXCEPT !.disabled = FALSE] \in OutcomeStates
      BY <3>1 DEF OutcomeStates
    <3>3. SwitchedOff = [task EXCEPT !.enabled = FALSE,
                                     !.state = [task.state EXCEPT !.disabled = FALSE]]
      BY <2>2 DEF SwitchedOff, TaskRecords
    <3>4. QED
      BY <3>2, <3>3 DEF TaskRecords
  <2>3. QED
    BY <2>1, <2>2
<1>3. ASSUME NEW clears \in BOOLEAN PROVE SwitchedOn(clears) \in TaskRecords
  BY <1>1 DEF SwitchedOn, TaskRecords
<1>4. QED
  BY <1>2, <1>3

LEMMA TaskStaysTyped ==
  ASSUME SchedulerInv, Times, Streaks, Recorded, SchedulerNext
  PROVE  task' \in TaskRecords /\ off' \in BOOLEAN
<1>1. task \in TaskRecords /\ off \in BOOLEAN
  BY DEF Recorded
<1>2. CASE \E r \in 1..Fires, ok \in BOOLEAN : RecordDirectly(r, ok) \/ FinalizeRun(r, ok)
  <2>1. PICK r \in 1..Fires, ok \in BOOLEAN : RecordDirectly(r, ok) \/ FinalizeRun(r, ok)
    BY <1>2
  <2>2. PICK row : row = [run |-> r, at |-> run[r].at, ok |-> ok]
    OBVIOUS
  <2>3. RecordOutcome(row) /\ Awaited(r)
    BY <2>1, <2>2 DEF RecordDirectly, FinalizeRun, Awaited
  <2>4. row \in Rows /\ row.at = run[r].at
    BY <2>2 DEF Rows, Times
  <2>5. \A o \in outcomes : o.at # row.at
    BY <2>3, <2>4 DEF Times
  <2>6. QED
    BY <1>1, <2>3, <2>4, <2>5, RecordTyped
<1>3. CASE \E r \in 1..Fires : Recover(r)
  <2>1. PICK r \in 1..Fires : Recover(r)
    BY <1>3
  <2>2. CASE task.last = r
    BY <1>1, <2>1, <2>2 DEF Recover
  <2>3. CASE task.last # r
    <3>1. PICK row : row = [run |-> r, at |-> clock + 1, ok |-> FALSE]
      OBVIOUS
    <3>2. RecordOutcome(row)
      BY <2>1, <2>3, <3>1 DEF Recover
    <3>3. clock \in Nat /\ row \in Rows /\ row.at = clock + 1
      BY <3>1 DEF Times, Rows
    <3>4. \A o \in outcomes : o.at # row.at
      BY <3>3 DEF Times
    <3>5. QED
      BY <1>1, <3>2, <3>3, <3>4, RecordTyped
  <2>4. QED
    BY <2>2, <2>3
<1>4. CASE \E r \in 1..Fires, why \in BOOLEAN, after \in {"threw", "ending", "over"} :
              GiveUp(r, why, after)
  <2>1. PICK why \in BOOLEAN : task' = [SwitchedOff EXCEPT !.reason = @ \/ why]
    BY <1>4 DEF GiveUp
  <2>2. SwitchedOff \in TaskRecords
    BY <1>1, SwitchTyped
  <2>3. task' \in TaskRecords
    <3>1. PICK old : old = SwitchedOff
      OBVIOUS
    <3>2. task' = [old EXCEPT !.reason = old.reason \/ why] /\ old \in TaskRecords
      BY <2>1, <2>2, <3>1
    <3>3. (old.reason \/ why) \in BOOLEAN
      BY <3>2 DEF TaskRecords
    <3>4. QED
      BY <3>2, <3>3 DEF TaskRecords
  <2>4. off' = TRUE
    BY <1>4 DEF GiveUp
  <2>5. QED
    BY <2>3, <2>4
<1>5. CASE FinalizeManual
  <2>1. task' = [task EXCEPT !.last = Manual] /\ off' = off
    BY <1>5 DEF FinalizeManual
  <2>2. Manual \in 0..Manual
    BY SchedulerAssumption DEF Manual
  <2>3. QED
    BY <1>1, <2>1, <2>2 DEF TaskRecords
<1>6. CASE WritePatch \/ Reschedule
  <2>1. \/ \E clears \in BOOLEAN : task' = SwitchedOn(clears) /\ off' = FALSE
        \/ task' = SwitchedOff /\ off' = TRUE
    <3>1. patch \in [enable : BOOLEAN, clears : BOOLEAN, phase : {"read", "written"}] \/ ~WritePatch
      BY DEF SchedulerInv, RunsShaped, WritePatch
    <3>2. QED
      BY <1>6, <3>1 DEF WritePatch, Reschedule, SwitchOn
  <2>2. QED
    BY <1>1, <2>1, SwitchTyped
<1>7. CASE \/ \E r \in 1..Fires : \/ Fire(r) \/ StartWork(r) \/ HandOver(r) \/ EndCallback(r)
                                  \/ PauseForBudget(r) \/ Forget(r)
           \/ FireDisabled \/ SchedulePatch \/ ServerCrash \/ Boot
           \/ \E enable \in BOOLEAN : OpenPatch(enable)
  <2>1. task' = task /\ off' = off
    BY <1>7 DEF Fire, StartWork, HandOver, EndCallback, PauseForBudget, Forget, FireDisabled,
       SchedulePatch, ServerCrash, Boot, OpenPatch
  <2>2. QED
    BY <1>1, <2>1
<1>8. QED
  BY <1>2, <1>3, <1>4, <1>5, <1>6, <1>7 DEF SchedulerNext

LEMMA FiresStayTyped ==
  ASSUME Times, Recorded, SchedulerNext
  PROVE  run' \in [1..Fires -> FireRecords]
<1>1. run \in [1..Fires -> FireRecords]
  BY DEF Recorded
<1>2. ASSUME NEW r \in 1..Fires, NEW new \in FireRecords, run' = [run EXCEPT ![r] = new]
      PROVE  run' \in [1..Fires -> FireRecords]
  BY <1>1, <1>2
<1>3. ASSUME NEW r \in 1..Fires,
             NEW pc \in {"main", "threw", "ending", "barrier", "over", "journaled"},
             run' = [run EXCEPT ![r].pc = pc]
      PROVE  run' \in [1..Fires -> FireRecords]
  <2>1. [run[r] EXCEPT !.pc = pc] \in FireRecords
    BY <1>1 DEF FireRecords
  <2>2. QED
    BY <1>2, <1>3, <2>1
<1>4. ASSUME NEW r \in 1..Fires, NEW kept \in BOOLEAN, run' = [run EXCEPT ![r].kept = kept]
      PROVE  run' \in [1..Fires -> FireRecords]
  <2>1. [run[r] EXCEPT !.kept = kept] \in FireRecords
    BY <1>1 DEF FireRecords
  <2>2. QED
    BY <1>2, <1>4, <2>1
<1>5. CASE run' = run
  BY <1>1, <1>5
<1>6. CASE \E r \in 1..Fires : Fire(r)
  <2>1. PICK r \in 1..Fires : Fire(r)
    BY <1>6
  <2>2. [pc |-> "main", at |-> clock + 1, kept |-> FALSE] \in FireRecords
    BY DEF FireRecords, Times
  <2>3. QED
    BY <1>2, <2>1, <2>2 DEF Fire
<1>7. CASE \E r \in 1..Fires : StartWork(r) \/ Forget(r)
  BY <1>4, <1>7 DEF StartWork, Forget
<1>8. CASE \E r \in 1..Fires : \/ HandOver(r) \/ EndCallback(r) \/ PauseForBudget(r) \/ Recover(r)
                               \/ \E ok \in BOOLEAN : RecordDirectly(r, ok) \/ FinalizeRun(r, ok)
                               \/ \E why \in BOOLEAN, after \in {"threw", "ending", "over"} :
                                     GiveUp(r, why, after)
  <2>1. \E r \in 1..Fires : \E pc \in {"main", "threw", "ending", "barrier", "over", "journaled"} :
           run' = [run EXCEPT ![r].pc = pc]
    BY <1>8 DEF HandOver, EndCallback, PauseForBudget, Recover, RecordDirectly, FinalizeRun, GiveUp
  <2>2. QED
    BY <1>3, <2>1
<1>9. CASE ServerCrash
  <2>1. ASSUME NEW r \in 1..Fires PROVE run'[r] \in FireRecords
    <3>1. run'[r] = [run[r] EXCEPT !.pc = IF run[r].kept THEN "journaled"
                                          ELSE IF @ \in {"none", "over"} THEN @ ELSE "lost"]
      BY <1>9 DEF ServerCrash
    <3>2. QED
      BY <1>1, <3>1 DEF FireRecords
  <2>2. \E f : run' = [r \in 1..Fires |-> f[r]]
    <3>1. run' = [r \in 1..Fires |->
                    [run[r] EXCEPT !.pc = IF run[r].kept THEN "journaled"
                                          ELSE IF @ \in {"none", "over"} THEN @ ELSE "lost"]]
      BY <1>9 DEF ServerCrash
    <3>2. run' = [r \in 1..Fires |-> run'[r]]
      BY <3>1
    <3>3. QED
      BY <3>2
  <2>3. QED
    BY <2>1, <2>2
<1>10. CASE \/ FireDisabled \/ FinalizeManual \/ WritePatch \/ Reschedule \/ SchedulePatch \/ Boot
            \/ \E enable \in BOOLEAN : OpenPatch(enable)
  BY <1>5, <1>10 DEF FireDisabled, FinalizeManual, WritePatch, Reschedule, SchedulePatch, Boot, OpenPatch
<1>11. QED
  BY <1>6, <1>7, <1>8, <1>9, <1>10 DEF SchedulerNext

\* The scheduler's state and history have their types, for any number of fires.
THEOREM SchedulerTypeCorrect == SchedulerSpec => []SchedulerTypeOK
<1>1. SchedulerInit => Recorded
  <2>1. ASSUME SchedulerInit PROVE Recorded
    <3>1. 0 \in 0..MaxFailures /\ 0 \in 0..Manual /\ 0 \in Nat
      BY SchedulerAssumption DEF Manual
    <3>2. task = [enabled |-> TRUE, failures |-> 0, reason |-> FALSE, state |-> Fresh, last |-> 0]
      BY <2>1 DEF SchedulerInit
    <3>3. task \in TaskRecords
      BY <3>1, <3>2 DEF TaskRecords
    <3>4. run \in [1..Fires -> FireRecords] /\ off \in BOOLEAN
      BY <2>1, <3>1 DEF SchedulerInit, FireRecords
    <3>5. QED
      BY <3>3, <3>4 DEF Recorded
  <2>2. QED
    BY <2>1
<1>2. SchedulerInv /\ Times /\ Streaks /\ Recorded /\ [SchedulerNext]_schedulerVars => Recorded'
  <2>1. ASSUME SchedulerInv, Times, Streaks, Recorded, SchedulerNext PROVE Recorded'
    BY <2>1, TaskStaysTyped, FiresStayTyped DEF Recorded
  <2>2. ASSUME Recorded, UNCHANGED schedulerVars PROVE Recorded'
    BY <2>2 DEF schedulerVars, Recorded
  <2>3. QED
    BY <2>1, <2>2
<1>3. SchedulerInv /\ Streaks /\ Recorded => SchedulerTypeOK
  <2>1. ASSUME SchedulerInv, Streaks, Recorded PROVE SchedulerTypeOK
    <3>1. task.state # Fresh => Len(task.state.recent) <= MaxFailures
      BY <2>1 DEF Streaks, Window, State
    <3>2. QED
      BY <2>1, <3>1 DEF SchedulerTypeOK, SchedulerInv, RunsShaped, Recorded, TaskRecords, FireRecords,
         Streaks
  <2>2. QED
    BY <2>1
<1>4. QED
  BY <1>1, <1>2, <1>3, SchedulerAlways, PTL DEF SchedulerSpec
=============================================================================
