----------------------------- MODULE Scheduler -----------------------------
(***************************************************************************)
(* scheduler.mjs: one recurring task of one owner - its timer, its fires,   *)
(* which may overlap, the streak of failures that switches it off, and the  *)
(* user who switches it off and on.  A fire's outcome comes when its child  *)
(* barrier ends (ChildBarrier), or, if the server died first, from the      *)
(* recovery of the background work the fire left in the journal.            *)
(* Every change of tasks.json holds its lock: one action is one change, or  *)
(* what happens between two.                                                *)
(***************************************************************************)
EXTENDS Naturals, Sequences, FiniteSets, SequencesExt

CONSTANTS MaxFailures,              \* MAX_CONSECUTIVE_FAILURES
          Fires, MaxRequests,         \* bounds: fires, and requests and starts together
          Fresh,                    \* no scheduledOutcomeState
          Idle                      \* no request

Rows == [run : 1..Fires, at : Nat, ok : BOOLEAN]
OutcomeStates == [baseline : 0..MaxFailures, recent : Seq(Rows), disabled : BOOLEAN]

ASSUME SchedulerAssumption ==
    /\ MaxFailures \in Nat \ {0} /\ Fires \in Nat /\ MaxRequests \in Nat
    /\ Fresh \notin OutcomeStates
    /\ Idle \notin [enable : BOOLEAN, clears : BOOLEAN, phase : {"read", "written"}]

VARIABLES running,  \* _schedulerRunning: the server is up
          timer,    \* the task is in _timers
          task,     \* its entry in tasks.json
          run,      \* run[r]: the r-th fire
          patch,    \* the request of the user in progress
          clock,    \* Date.now(), as the number of readings that matter
          count,    \* bound: requests and starts so far
          base,     \* history: the streak when it was last set,
          outcomes, \*   the outcomes recorded since,
          off       \*   and whether the task was switched off since

schedulerVars == <<running, timer, task, run, patch, clock, count, base, outcomes, off>>

Manual == Fires + 1   \* stands for the name of any "Run now"

InCallback == {r \in 1..Fires : run[r].pc \in {"main", "threw", "ending"}}

SchedulerInit ==
    /\ running = TRUE /\ timer = TRUE
    /\ task = [enabled |-> TRUE, failures |-> 0, reason |-> FALSE,
               state |-> Fresh, last |-> 0]
    /\ run = [r \in 1..Fires |-> [pc |-> "none", at |-> 0, kept |-> FALSE]]
    /\ patch = Idle /\ clock = 0 /\ count = 0
    /\ base = 0 /\ outcomes = {} /\ off = FALSE

-----------------------------------------------------------------------------
(* recordScheduledTaskOutcome                                              *)

Capped(n) == IF n > MaxFailures THEN MaxFailures ELSE n
Before(a, b) == a.at < b.at

\* The row at its occurrence.  (Broken: at its completion.)
AtTheEnd(recent, row) == Append(recent, row)
InOrder(recent, row) ==
    LET earlier == {i \in DOMAIN recent : Before(recent[i], row)}
    IN  InsertAt(recent, Cardinality(earlier) + 1, row)

Streak(n, recent) == Capped(FoldLeft(LAMBDA k, o : IF o.ok THEN 0 ELSE k + 1, n, recent))

State == IF task.state = Fresh
         THEN [baseline |-> task.failures, recent |-> <<>>, disabled |-> FALSE]
         ELSE task.state

\* The run is among the latest: it was finalized, and then recovered.
Known(row) == \E i \in DOMAIN State.recent : State.recent[i].run = row.run
Refused(row) ==
    \/ Known(row)
    \/ Len(State.recent) >= MaxFailures /\ Before(row, State.recent[1])

\* A task that is switched on again is scheduled.  (Broken: at its next start.)
AtNextStart(reenable) == timer
ArmedAgain(reenable) == timer \/ (reenable /\ running)

\* The oldest row goes into the baseline.
Trimmed(n, recent) ==
    IF Len(recent) <= MaxFailures THEN [baseline |-> n, recent |-> recent]
    ELSE [baseline |-> IF recent[1].ok THEN 0 ELSE Capped(n + 1), recent |-> Tail(recent)]

RecordOutcome(row) ==
    /\ outcomes' = IF Known(row) THEN outcomes ELSE outcomes \cup {row}
    /\ UNCHANGED <<base, off>>
    /\ IF Refused(row) THEN UNCHANGED <<task, timer>>
       ELSE LET kept == Trimmed(State.baseline, InOrder(State.recent, row))
                failures == Streak(kept.baseline, kept.recent)
                broken == failures >= MaxFailures
                reenable == ~broken /\ State.disabled
            IN /\ task' = [enabled |-> reenable \/ (task.enabled /\ ~broken),
                           failures |-> failures,
                           reason |-> broken \/ (task.reason /\ ~reenable),
                           state |-> [baseline |-> kept.baseline, recent |-> kept.recent,
                                      disabled |-> IF broken THEN State.disabled \/ task.enabled
                                                   ELSE State.disabled /\ ~reenable],
                           last |-> Last(kept.recent).run]
               /\ timer' = ArmedAgain(reenable)

-----------------------------------------------------------------------------
(* Fires.  What skips a fire (the weekday, the hours the account is         *)
(* blocked, an early tick) only arms the timer again.                       *)

\* updateTask: what was switched off by hand is not for a late success to
\* switch on.  (Broken: the patch only.)
MayComeBack == [task EXCEPT !.enabled = FALSE]
SwitchedOff ==
    [task EXCEPT !.enabled = FALSE,
                 !.state = IF @ = Fresh THEN Fresh ELSE [@ EXCEPT !.disabled = FALSE]]

Fire(r) ==
    /\ running /\ timer /\ task.enabled
    /\ run[r].pc = "none" /\ \A s \in 1..(r - 1) : run[s].pc # "none"
    /\ timer' = FALSE
    /\ clock' = clock + 1
    /\ run' = [run EXCEPT ![r] = [pc |-> "main", at |-> clock + 1, kept |-> FALSE]]
    /\ UNCHANGED <<running, task, patch, count, base, outcomes, off>>

\* The timer of a task that has been switched off runs out.
FireDisabled ==
    /\ running /\ timer /\ ~task.enabled
    /\ timer' = FALSE
    /\ UNCHANGED <<running, task, run, patch, clock, count, base, outcomes, off>>

\* The turn, or a reaction, starts background work, which is journaled.
StartWork(r) ==
    /\ running /\ run[r].pc \in {"main", "barrier"} /\ ~run[r].kept
    /\ run' = [run EXCEPT ![r].kept = TRUE]
    /\ UNCHANGED <<running, timer, task, patch, clock, count, base, outcomes, off>>

\* The callback's finally reads the task again.
Rearmed == timer \/ task.enabled

\* The turn is over and its end is left to the barrier.
HandOver(r) ==
    /\ running /\ run[r].pc = "main"
    /\ run' = [run EXCEPT ![r].pc = "barrier"]
    /\ timer' = Rearmed
    /\ UNCHANGED <<running, task, patch, clock, count, base, outcomes, off>>

\* A builtin handler, or a run that threw before its turn, records its outcome
\* at once; its callback arms the timer some steps later.
RecordDirectly(r, ok) ==
    /\ running /\ ~run[r].kept
    /\ run[r].pc = "main" \/ (run[r].pc = "threw" /\ ~ok)
    /\ RecordOutcome([run |-> r, at |-> run[r].at, ok |-> ok])
    /\ run' = [run EXCEPT ![r].pc = "ending"]
    /\ UNCHANGED <<running, patch, clock, count>>

EndCallback(r) ==
    /\ running /\ run[r].pc = "ending"
    /\ run' = [run EXCEPT ![r].pc = "over"]
    /\ timer' = Rearmed
    /\ UNCHANGED <<running, task, patch, clock, count, base, outcomes, off>>

\* There is no such agent or handler, or the ledger cannot be written: the
\* task is switched off and no outcome recorded - unless the second write
\* succeeds, which says that the first threw.
GiveUp(r, explained, after) ==
    /\ running
    /\ \/ run[r].pc = "main" /\ ~run[r].kept /\ after \in {"threw", "ending"}
       \/ run[r].pc = "barrier" /\ after = "over"
    /\ task' = [SwitchedOff EXCEPT !.reason = @ \/ explained]
    /\ off' = TRUE
    /\ run' = [run EXCEPT ![r].pc = after]
    /\ UNCHANGED <<running, timer, patch, clock, count, base, outcomes>>

\* finalizeScheduledTask, called by the barrier.
FinalizeRun(r, ok) ==
    /\ running /\ run[r].pc = "barrier"
    /\ RecordOutcome([run |-> r, at |-> run[r].at, ok |-> ok])
    /\ run' = [run EXCEPT ![r].pc = "over"]
    /\ UNCHANGED <<running, patch, clock, count>>

\* A run that waits for a budget is neither a success nor a failure.
PauseForBudget(r) ==
    /\ running /\ run[r].pc = "barrier"
    /\ run' = [run EXCEPT ![r].pc = "over"]
    /\ UNCHANGED <<running, timer, task, patch, clock, count, base, outcomes, off>>

\* "Run now" leaves the streak and the schedule alone, but not the last run's
\* name.
FinalizeManual ==
    /\ running /\ task.last # Manual
    /\ task' = [task EXCEPT !.last = Manual]
    /\ UNCHANGED <<running, timer, run, patch, clock, count, base, outcomes, off>>

\* The job of the run leaves the journal: a delegate's with its report, a
\* worker's once the run is finalized.
Forget(r) ==
    /\ running /\ run[r].kept /\ run[r].pc \in {"main", "barrier", "over"}
    /\ run' = [run EXCEPT ![r].kept = FALSE]
    /\ UNCHANGED <<running, timer, task, patch, clock, count, base, outcomes, off>>
-----------------------------------------------------------------------------
(* The user.                                                               *)

\* PATCH reads the task, then the request's body.  A task that has failed, or
\* was switched off for a reason, starts afresh.
OpenPatch(enable) ==
    /\ running /\ patch = Idle /\ count < MaxRequests
    /\ patch' = [enable |-> enable, phase |-> "read",
                 clears |-> enable /\ (task.failures > 0 \/ task.reason)]
    /\ count' = count + 1
    /\ UNCHANGED <<running, timer, task, run, clock, base, outcomes, off>>

SwitchedOn(clears) ==
    [task EXCEPT !.enabled = TRUE, !.state = Fresh,
                 !.failures = IF clears THEN 0 ELSE @, !.reason = @ /\ ~clears]

SwitchOn(clears) ==
    /\ task' = SwitchedOn(clears)
    /\ base' = task'.failures /\ outcomes' = {} /\ off' = FALSE

\* updateTask, then the alarm of a voice device, which takes its time.
WritePatch ==
    /\ running /\ patch # Idle /\ patch.phase = "read"
    /\ patch' = [patch EXCEPT !.phase = "written"]
    /\ IF patch.enable THEN SwitchOn(patch.clears)
       ELSE task' = SwitchedOff /\ off' = TRUE /\ UNCHANGED <<base, outcomes>>
    /\ UNCHANGED <<running, timer, run, clock, count>>

\* The chat's "make it 9 instead" looks for an enabled task and writes at once.
Reschedule ==
    /\ running /\ patch = Idle /\ count < MaxRequests /\ task.enabled
    /\ patch' = [enable |-> TRUE, phase |-> "written", clears |-> FALSE]
    /\ count' = count + 1
    /\ SwitchOn(FALSE)
    /\ UNCHANGED <<running, timer, run, clock>>

\* scheduleNewTask with the task as it is now: a disabled one keeps its timer.
SchedulePatch ==
    /\ running /\ patch # Idle /\ patch.phase = "written"
    /\ patch' = Idle
    /\ timer' = Rearmed
    /\ UNCHANGED <<running, task, run, clock, count, base, outcomes, off>>

-----------------------------------------------------------------------------
(* Death, and the next start.                                              *)

ServerCrash ==
    /\ running
    /\ running' = FALSE /\ timer' = FALSE /\ patch' = Idle
    /\ run' = [r \in 1..Fires |->
                 [run[r] EXCEPT !.pc = IF run[r].kept THEN "journaled"
                                       ELSE IF @ \in {"none", "over"} THEN @ ELSE "lost"]]
    /\ UNCHANGED <<task, clock, count, base, outcomes, off>>

\* startScheduler
Boot ==
    /\ ~running /\ count < MaxRequests
    /\ running' = TRUE /\ timer' = task.enabled
    /\ count' = count + 1
    /\ UNCHANGED <<task, run, patch, clock, base, outcomes, off>>

\* recoverInterruptedScheduledBackground, for the run of a job left in the
\* journal: a failure, now, unless it was the last to be finalized.
Recover(r) ==
    /\ running /\ run[r].pc = "journaled"
    /\ run' = [run EXCEPT ![r].pc = "over"]
    /\ clock' = clock + 1
    /\ IF task.last = r THEN UNCHANGED <<timer, task, base, outcomes, off>>
       ELSE RecordOutcome([run |-> r, at |-> clock + 1, ok |-> FALSE])
    /\ UNCHANGED <<running, patch, count>>

-----------------------------------------------------------------------------
SchedulerNext ==
    \/ \E r \in 1..Fires :
          \/ Fire(r) \/ StartWork(r) \/ HandOver(r) \/ EndCallback(r)
          \/ PauseForBudget(r) \/ Forget(r) \/ Recover(r)
          \/ \E ok \in BOOLEAN : RecordDirectly(r, ok) \/ FinalizeRun(r, ok)
          \/ \E why \in BOOLEAN, after \in {"threw", "ending", "over"} : GiveUp(r, why, after)
    \/ FireDisabled \/ FinalizeManual
    \/ \E enable \in BOOLEAN : OpenPatch(enable)
    \/ WritePatch \/ Reschedule \/ SchedulePatch
    \/ ServerCrash \/ Boot

SchedulerSpec == SchedulerInit /\ [][SchedulerNext]_schedulerVars

-----------------------------------------------------------------------------
(* Properties                                                              *)

SchedulerTypeOK ==
    /\ running \in BOOLEAN /\ timer \in BOOLEAN
    /\ task \in [enabled : BOOLEAN, failures : 0..MaxFailures, reason : BOOLEAN,
                 state : {Fresh} \cup OutcomeStates,
                 last : 0..Manual]
    /\ task.state # Fresh => Len(task.state.recent) <= MaxFailures
    /\ run \in [1..Fires -> [pc : {"none", "main", "threw", "ending", "barrier", "over",
                                   "journaled", "lost"}, at : Nat, kept : BOOLEAN]]
    /\ patch \in {Idle} \cup [enable : BOOLEAN, clears : BOOLEAN, phase : {"read", "written"}]
    /\ outcomes \subseteq Rows /\ off \in BOOLEAN

\* The failures after the last success, and whether there was a success.
TrailingFailures == {o \in outcomes : ~o.ok /\ \A p \in outcomes : p.ok => Before(p, o)}

\* An outcome stands at the start of its fire; only the failure of an interrupted
\* run stands later, at its recovery: there the code does not keep what the comment
\* at scheduler.mjs:321 says ("Order automatic outcomes by their occurrence").
InItsPlace(o) == o.at = run[o.run].at \/ (~o.ok /\ o.at > run[o.run].at)

\* The streak is that of all outcomes since it was last set, whatever order they
\* came in and although only the latest few are kept.  They are counted in the
\* order of their fires, an interrupted run's failure as of its recovery.
StreakIsExact ==
    /\ task.failures = Capped(Cardinality(TrailingFailures)
                              + IF \E o \in outcomes : o.ok THEN 0 ELSE base)
    /\ \A o \in outcomes : InItsPlace(o)

\* What the user, or a run that could not work, has switched off stays off
\* until the user switches it on, whatever outcomes arrive late.
SwitchedOffStaysOff == off => ~task.enabled

\* No enabled task is forgotten: it has a timer, or a fire or a request in
\* progress that will give it one.
AlwaysArmed ==
    running /\ task.enabled => timer \/ InCallback # {} \/ (patch # Idle /\ patch.phase = "written")
=============================================================================
