---------------------------- MODULE ChildBarrier ----------------------------
(***************************************************************************)
(* lib/scheduled-child-barrier.mjs: one fire of a scheduled task.  Its     *)
(* group counts the coordinator's main turn and every background child the *)
(* turn, a child or a reaction starts.  When none is running the results   *)
(* nobody has seen yet go to a reaction turn (onContinue), which may start *)
(* more children; in the end onFinalize stamps the task.  A watchdog ends  *)
(* a group that hangs.  Everything runs on one event loop: an action is a  *)
(* stretch of code without an await.                                       *)
(***************************************************************************)
EXTENDS Naturals, FiniteSets

CONSTANTS Children,     \* background children the run may start
          Cap           \* CONTINUATION_CAP

ASSUME CapAssumption == Cap \in Nat
ASSUME ChildrenAssumption == IsFiniteSet(Children)

VARIABLES main,         \* the '__main__' child
          child,        \* child[c]: its status and its completionSeq
          completionSeq, consumedSeq,
          rounds,       \* continueRounds
          failed,       \* continuationFailed
          noted,        \* continuationErrors is not empty
          drainScheduled, draining,
          watchdog,     \* the timer is armed
          timingOut,
          outcome,      \* what onFinalize was called with, or Unstamped
          finalizeCalls,\* calls of onFinalize (history)
          handed        \* handed[c]: reactions given c's result (history)

counters == <<completionSeq, consumedSeq, rounds>>
flags == <<failed, noted>>
vars == <<main, child, counters, flags, drainScheduled, draining, watchdog,
          timingOut, outcome, finalizeCalls, handed>>

Unstamped == [final |-> FALSE, errors |-> FALSE, timedOut |-> FALSE]
finalized == outcome.final

EndStatus == {"done", "error"}

\* registerScheduledMain has run: the scheduler calls it before the main turn.
Init ==
    /\ main = "running"
    /\ child = [c \in Children |-> [status |-> "none", seq |-> 0]]
    /\ completionSeq = 0 /\ consumedSeq = 0 /\ rounds = 0
    /\ failed = FALSE /\ noted = FALSE
    /\ drainScheduled = FALSE /\ draining = FALSE
    /\ watchdog = FALSE /\ timingOut = FALSE
    /\ outcome = Unstamped /\ finalizeCalls = 0
    /\ handed = [c \in Children |-> 0]

RunningChildren == {c \in Children : child[c].status = "running"}
HadBg == \E c \in Children : child[c].status \in EndStatus \cup {"running"}

pendingChildren == main = "running" \/ RunningChildren # {}

errorCountIsZero == main # "error" /\ (\A c \in Children : child[c].status # "error") /\ ~noted

\* scheduleDrain queues one microtask.  (Broken: not while a reaction runs.)
ScheduledUnlessDraining == drainScheduled \/ ~(finalized \/ timingOut \/ draining)
Scheduled == drainScheduled \/ ~(finalized \/ timingOut)

\* finalizeGroup, with the errors and the flag it reports.  (Broken: the group
\* is not marked.)
FinalizeUnmarked(errors, timedOut) ==
    /\ outcome' = [final |-> FALSE, errors |-> errors, timedOut |-> timedOut]
    /\ finalizeCalls' = finalizeCalls + 1
    /\ watchdog' = FALSE
Finalize(errors, timedOut) ==
    IF finalized THEN UNCHANGED <<outcome, finalizeCalls, watchdog>>
    ELSE /\ outcome' = [final |-> TRUE, errors |-> errors, timedOut |-> timedOut]
         /\ finalizeCalls' = finalizeCalls + 1
         /\ watchdog' = FALSE

NotFinal == UNCHANGED <<outcome, finalizeCalls, watchdog>>

-----------------------------------------------------------------------------
\* The main turn, a child (tracked or not) or a reaction starts a child.  Once
\* the watchdog owns the group, or it is finalized, the child is not tracked.
RegisterChild(c) ==
    /\ child[c].status = "none"
    /\ main = "running" \/ draining \/ \E d \in Children : child[d].status \in {"running", "untracked"}
    /\ child' = [child EXCEPT ![c].status =
                    IF finalized \/ timingOut THEN "untracked" ELSE "running"]
    /\ UNCHANGED <<main, counters, flags, drainScheduled, draining, watchdog,
                   timingOut, outcome, finalizeCalls, handed>>

\* completeScheduledChild.  (Broken: the result keeps the old sequence number.)
ResultUnnumbered(c, status) == [status |-> status, seq |-> completionSeq]
Result(c, status) == [status |-> status, seq |-> completionSeq + 1]

CompleteChild(c, status) ==
    /\ c \in RunningChildren
    /\ child' = [child EXCEPT ![c] = Result(c, status)]
    /\ completionSeq' = completionSeq + 1
    /\ drainScheduled' = Scheduled
    /\ UNCHANGED <<main, consumedSeq, rounds, flags, draining, watchdog,
                   timingOut, outcome, finalizeCalls, handed>>

\* completeScheduledMain installs the handlers and arms the watchdog.  (Broken:
\* only a later event of a child would arm it.)
LeftUnarmed == watchdog
Armed == TRUE

CompleteMain(status) ==
    /\ main = "running"
    /\ main' = status
    /\ watchdog' = Armed
    /\ drainScheduled' = Scheduled
    /\ UNCHANGED <<child, counters, flags, draining, timingOut, outcome,
                   finalizeCalls, handed>>

-----------------------------------------------------------------------------
(* maybeDrain                                                              *)

MayDrain == ~finalized /\ ~timingOut /\ ~draining /\ ~pendingChildren

Unconsumed == HadBg /\ completionSeq > consumedSeq /\ ~failed

\* The new results are claimed before the reaction is called.  (Broken: so is
\* the next one.)
ClaimedNext == completionSeq + 1
Claimed == completionSeq

\* (Broken: every result so far is handed to every reaction.)
AllResults == {c \in Children : child[c].status \in EndStatus}
NewResults == {c \in Children : child[c].status \in EndStatus /\ child[c].seq > consumedSeq}

Microtask == drainScheduled /\ drainScheduled' = FALSE

DrainNothing ==
    /\ Microtask /\ ~MayDrain
    /\ UNCHANGED <<main, child, counters, flags, draining, watchdog, timingOut,
                   outcome, finalizeCalls, handed>>

StartReaction ==
    /\ Microtask /\ MayDrain /\ Unconsumed /\ rounds < Cap
    /\ draining' = TRUE
    /\ rounds' = rounds + 1
    /\ consumedSeq' = Claimed
    /\ handed' = [c \in Children |-> handed[c] + IF c \in NewResults THEN 1 ELSE 0]
    /\ NotFinal
    /\ UNCHANGED <<main, child, completionSeq, flags, timingOut>>

\* A result is left that no reaction may see: the run has failed.
CapReached ==
    /\ Microtask /\ MayDrain /\ Unconsumed /\ rounds >= Cap
    /\ noted' = TRUE /\ failed' = TRUE
    /\ consumedSeq' = completionSeq
    /\ Finalize(TRUE, FALSE)
    /\ UNCHANGED <<main, child, completionSeq, rounds, draining, timingOut, handed>>

DrainDone ==
    /\ Microtask /\ MayDrain /\ ~Unconsumed
    /\ Finalize(~errorCountIsZero, FALSE)
    /\ UNCHANGED <<main, child, counters, flags, draining, timingOut, handed>>

\* onContinue returns or throws, possibly long after the watchdog finalized.
ReactionError(ok) == failed' = (failed \/ ~ok) /\ noted' = (noted \/ ~ok)

EndReaction(ok) ==
    /\ draining
    /\ draining' = FALSE
    /\ ReactionError(ok)
    /\ IF finalized
       THEN NotFinal /\ UNCHANGED drainScheduled
       ELSE IF pendingChildren \/ completionSeq > consumedSeq
       THEN NotFinal /\ drainScheduled' = Scheduled
       ELSE Finalize(noted' \/ ~errorCountIsZero, FALSE) /\ UNCHANGED drainScheduled
    /\ UNCHANGED <<main, child, counters, timingOut, handed>>

-----------------------------------------------------------------------------
(* The watchdog                                                            *)

\* The timer, re-armed by each event of the group, expires: watchdogTimeout
\* claims the group and cancels its running children.
WatchdogFires ==
    /\ watchdog /\ ~finalized /\ ~timingOut
    /\ timingOut' = TRUE
    /\ watchdog' = FALSE
    /\ UNCHANGED <<main, child, counters, flags, drainScheduled, draining,
                   outcome, finalizeCalls, handed>>

\* The cancelled children answered, or the grace period is over: whoever is
\* still running is an error.  (They are numbered in any order.)
EndGrace ==
    /\ timingOut /\ ~finalized
    /\ child' = [c \in Children |->
                   IF c \in RunningChildren THEN [status |-> "error", seq |-> completionSeq + 1]
                   ELSE child[c]]
    /\ completionSeq' = completionSeq + Cardinality(RunningChildren)
    /\ noted' = (noted \/ (errorCountIsZero /\ RunningChildren = {}))
    /\ failed' = TRUE
    /\ Finalize(TRUE, TRUE)
    /\ UNCHANGED <<main, consumedSeq, rounds, drainScheduled, draining, timingOut, handed>>

-----------------------------------------------------------------------------
Drain == DrainNothing \/ StartReaction \/ CapReached \/ DrainDone

Next ==
    \/ \E c \in Children : RegisterChild(c) \/ \E s \in EndStatus : CompleteChild(c, s)
    \/ \E s \in EndStatus : CompleteMain(s)
    \/ Drain
    \/ \E ok \in BOOLEAN : EndReaction(ok)
    \/ WatchdogFires \/ EndGrace

Spec == Init /\ [][Next]_vars

\* Microtasks and timers run.  Children and reactions may hang for ever.
BarrierFairness == WF_vars(Drain) /\ WF_vars(WatchdogFires) /\ WF_vars(EndGrace)
FairSpec == Spec /\ BarrierFairness

-----------------------------------------------------------------------------
(* Properties                                                              *)

TypeOK ==
    /\ main \in EndStatus \cup {"running"}
    /\ child \in [Children -> [status : EndStatus \cup {"none", "running", "untracked"},
                               seq : Nat]]
    /\ completionSeq \in Nat /\ consumedSeq \in 0..completionSeq /\ rounds \in 0..Cap
    /\ failed \in BOOLEAN /\ noted \in BOOLEAN /\ drainScheduled \in BOOLEAN
    /\ draining \in BOOLEAN /\ watchdog \in BOOLEAN /\ timingOut \in BOOLEAN
    /\ outcome \in [final : BOOLEAN, errors : BOOLEAN, timedOut : BOOLEAN]
    /\ finalizeCalls \in Nat
    /\ handed \in [Children -> Nat]

\* Drains, a returning reaction and the watchdog race to end the run: onFinalize
\* is called once.
FinalizedOnce == finalizeCalls <= 1

\* No child's result is given to two reactions, which would repeat its effects.
HandedOnce == \A c \in Children : handed[c] <= 1

\* A run reported without errors really ended well: the main turn and every
\* tracked child were done, and each child's result went to a reaction.
SuccessIsEarned ==
    finalized /\ ~outcome.errors =>
        /\ main = "done" /\ ~outcome.timedOut
        /\ \A c \in Children :
              /\ child[c].status # "error"
              /\ child[c].status = "done" => handed[c] = 1

\* Only the watchdog ends a run whose main turn, child or reaction still runs.
NothingCutShort ==
    [][~finalized /\ finalized' /\ ~outcome'.timedOut =>
          main # "running" /\ RunningChildren = {} /\ ~draining']_vars

\* No wake-up is lost: an idle group that is not finalized has its drain queued.
\* (Otherwise it would sit until the watchdog reports it as failed.)
NoLostDrain ==
    ~pendingChildren /\ ~draining /\ ~timingOut /\ ~finalized => drainScheduled

\* Once the watchdog has claimed the group no new reaction starts.
TimeoutOwnsGroup == [][timingOut => rounds' = rounds]_vars

\* However its children and reactions hang, a run whose main turn has ended is
\* stamped.
EventuallyFinalized == main # "running" ~> finalized
=============================================================================
