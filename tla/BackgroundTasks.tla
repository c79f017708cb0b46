-------------------------- MODULE BackgroundTasks --------------------------
(***************************************************************************)
(* One background job from its dispatch to its report: the checkpoint that  *)
(* records each tool call before it runs, the user's Stop, the pauses, the  *)
(* resumption after a restart with the user's review, and the completion.   *)
(* The checkpoint lives in the restart journal, of which the job needs what *)
(* AtomicLog says; a failed write may or may not have taken effect.         *)
(* At most one server lives at a time; it may die between any two steps.    *)
(***************************************************************************)
EXTENDS Naturals, Sequences, FiniteSets

CONSTANTS Calls,        \* a tool with its arguments: the fingerprint
          Mutations,    \* those that change something
          TeamCalls,    \* those that start other agents
          Budgeted,     \* the job runs under a run budget
          MaxActions, MaxResumes,
          MaxLives, MaxFaults,  \* bounds: servers started, writes that fail,
          MaxAttempts,          \* attempts of the job, with those the user asks for
          Gone                  \* no entry, no record

Actions == Seq([call : Calls, status : {"started", "done", "retry_authorized"}, attempt : Nat])
EntryRecords == [status : {"running", "paused", "ready", "cancelled"}, resumes : Nat,
                 disabled : BOOLEAN, actions : Actions,
                 completion : {"none", "done", "error", "cancelled"}]
TaskRecords == [status : {"running", "paused", "cancelling"}, disabled : BOOLEAN,
                attempt : Nat, stop : BOOLEAN]
Closings == [status : {"done", "error", "cancelled"}, durable : BOOLEAN, reported : BOOLEAN]

ASSUME TasksAssumption ==
    /\ Gone \notin EntryRecords \cup TaskRecords \cup Closings
    /\ Mutations \subseteq Calls /\ TeamCalls \subseteq Mutations
    /\ Budgeted \in BOOLEAN
    /\ MaxActions \in Nat /\ MaxResumes \in Nat /\ MaxLives \in Nat \ {0}
    /\ MaxFaults \in Nat /\ MaxAttempts \in Nat

VARIABLES server,   \* [up, life, boot]: boot while the recovery is to come
          entry,    \* the job's entry in the journal, with its checkpoint
          rec,      \* its record in activeTasks
          turn,     \* its stream: "none", "starting" (resumeJob waits), "model"
          open,     \* ids of the recorded calls that are executing
          closing,  \* the completion in progress, after its claim
          report,   \* the report in the chat: its status, or "none"
          form,     \* the user's review: "none", "fresh" or "stale"
          faults,
          ran,      \* history: the calls that were executed
          stopped   \* history: Stop was confirmed, and no review came since

taskVars == <<server, entry, rec, turn, open, closing, report, form, faults, ran, stopped>>

Record(disabled, attempt) ==
    [status |-> "running", disabled |-> disabled, attempt |-> attempt, stop |-> FALSE]

TasksInit ==
    /\ server = [up |-> TRUE, life |-> 1, boot |-> FALSE]
    /\ entry = Gone /\ rec = Gone /\ turn = "none" /\ open = {}
    /\ closing = Gone /\ report = "none" /\ form = "none"
    /\ faults = 0 /\ ran = {} /\ stopped = FALSE

-----------------------------------------------------------------------------
(* The journal.                                                            *)

\* A mutation of the entry: it answers true and has happened, or it answers
\* false and may have happened.
Save(new, saved) ==
    /\ IF saved THEN entry' = new /\ UNCHANGED faults
       ELSE entry' \in {entry, new} /\ faults < MaxFaults /\ faults' = faults + 1
    /\ form' = IF form = "fresh" THEN "stale" ELSE form   \* the revision has changed

\* What showPaused and pauseBudgetTask make of the entry.  (Broken: the pause is
\* shown only.)
Unchanged == entry
Paused == [entry EXCEPT !.status = "paused"]

\* changeCheckpoint refuses an entry that is gone or complete.
Changeable == entry # Gone /\ entry.completion = "none"

-----------------------------------------------------------------------------
(* Dispatch.                                                               *)

\* A scheduled job, a hand-off, a member of a team and a verification start
\* with recovery disabled.
Dispatch(disabled, saved) ==
    /\ server.up /\ server.life = 1 /\ entry = Gone /\ report = "none" /\ faults = 0
    /\ Save([status |-> "running", resumes |-> 0, disabled |-> disabled,
             actions |-> <<>>, completion |-> "none"], saved)
    /\ IF saved THEN rec' = Record(disabled, 0) /\ turn' = "model"
       ELSE UNCHANGED <<rec, turn>>
    /\ UNCHANGED <<server, open, closing, report, ran, stopped>>

-----------------------------------------------------------------------------
(* Tool calls.  What is refused is told to the model, which goes on.       *)

Streaming == server.up /\ turn = "model" /\ rec # Gone /\ ~rec.stop
Executes(c, id) ==
    ran' = IF c \in Mutations THEN ran \cup {[call |-> c, id |-> id, attempt |-> rec.attempt]}
           ELSE ran

\* The last call with this fingerprint that nobody authorized to run again.
PriorIds(c) == {i \in DOMAIN entry.actions :
                  entry.actions[i].call = c /\ entry.actions[i].status # "retry_authorized"}
Prior(c) == IF PriorIds(c) = {} THEN "none"
            ELSE LET i == CHOOSE j \in PriorIds(c) : \A k \in PriorIds(c) : k <= j
                 IN IF entry.actions[i].status = "started" THEN "started"
                    ELSE IF entry.actions[i].attempt < entry.resumes THEN "earlier" ELSE "done"

\* A call whose result the checkpoint has from an earlier attempt is answered
\* with it.  (Broken: reserved as long as this attempt lasts.)
ReservedNow(c) == c \in Mutations /\ Prior(c) = "done"
Replayed(c) == c \in Mutations /\ Prior(c) = "earlier"

MayBegin(c) ==
    /\ Changeable /\ entry.status = "running"
    /\ Prior(c) # "started" /\ ~Replayed(c)
    /\ Len(entry.actions) < MaxActions

BeginCall(c, saved) ==
    /\ Streaming /\ ~rec.disabled /\ MayBegin(c)
    /\ LET id == Len(entry.actions) + 1
           new == [entry EXCEPT !.disabled = @ \/ c \in TeamCalls,
                                !.actions = Append(@, [call |-> c, status |-> "started",
                                                       attempt |-> entry.resumes])]
       IN /\ Save(new, saved)
          /\ IF saved THEN open' = open \cup {id} /\ Executes(c, id)
             ELSE UNCHANGED <<open, ran>>
          \* the record is changed before the checkpoint is saved
          /\ rec' = [rec EXCEPT !.disabled = @ \/ c \in TeamCalls]
    /\ UNCHANGED <<server, turn, closing, report, stopped>>

\* Without recovery there is no record of the call.
RunUnrecorded(c) ==
    /\ Streaming /\ rec.disabled
    /\ Executes(c, 0)
    /\ UNCHANGED <<server, entry, rec, turn, open, closing, report, form, faults, stopped>>

\* The result: a call whose result cannot be saved stays "started".
FinishCall(id, saved) ==
    /\ server.up /\ id \in open
    /\ open' = open \ {id}
    /\ IF Changeable THEN Save([entry EXCEPT !.actions[id].status = "done"], saved)
       ELSE saved /\ UNCHANGED <<entry, form, faults>>
    /\ UNCHANGED <<server, rec, turn, closing, report, ran, stopped>>

\* A provider's own tool, or a tool that hands the turn to another job
\* ("hidden": only the checkpoint learns of that).
DisableRecovery(hidden, saved) ==
    /\ Streaming /\ Changeable
    /\ Save([entry EXCEPT !.disabled = TRUE], saved)
    /\ rec' = IF saved /\ ~hidden THEN [rec EXCEPT !.disabled = TRUE] ELSE rec
    /\ UNCHANGED <<server, turn, open, closing, report, ran, stopped>>

-----------------------------------------------------------------------------
(* The end of a job.                                                       *)

\* _onComplete up to its first await: the record is claimed and given up and
\* the completion marked.  If it could not be marked the report is still
\* delivered, but the entry stays.
Closing(status, durable) == [status |-> status, durable |-> durable, reported |-> FALSE]
Complete(status, saved) ==
    /\ Save([entry EXCEPT !.completion = status], saved)
    /\ closing' = Closing(status, saved)
    /\ rec' = Gone
    /\ turn' = IF turn = "model" THEN "none" ELSE turn
    /\ UNCHANGED <<server, open, report, ran, stopped>>

\* The stream ends by itself.
EndTurn(status, saved) == Streaming /\ open = {} /\ Complete(status, saved)

\* The stream has met the limit of its run budget.
BudgetPause(saved) ==
    /\ Budgeted /\ Streaming /\ open = {} /\ Changeable
    /\ Save(Paused, saved)
    /\ rec' = IF saved THEN [rec EXCEPT !.status = "paused"] ELSE rec
    /\ turn' = "none"
    /\ UNCHANGED <<server, open, closing, report, ran, stopped>>

\* cancelTask: the cancellation is saved before the job is interrupted.
Stop(saved) ==
    /\ server.up /\ rec # Gone /\ rec.status # "cancelling"
    /\ Save([entry EXCEPT !.status = "cancelled"], saved)
    /\ IF saved
       THEN rec' = [rec EXCEPT !.status = "cancelling", !.stop = TRUE] /\ stopped' = TRUE
       ELSE UNCHANGED <<rec, stopped>>
    /\ UNCHANGED <<server, turn, open, closing, report, ran>>

\* The interrupted stream, or the abort of a paused job, completes it.
StopCompletes(saved) ==
    server.up /\ rec # Gone /\ rec.stop /\ Complete("cancelled", saved)

\* reapStaleTasks: a job that has run for a day
Reap(saved) ==
    server.up /\ rec # Gone /\ rec.status # "paused"
    /\ Complete(IF rec.status = "cancelling" THEN "cancelled" ELSE "error", saved)

\* The report is appended unless the chat has it.
AppendReport(stored) ==
    /\ server.up /\ closing # Gone /\ ~closing.reported
    /\ report' = IF stored /\ report = "none" THEN closing.status ELSE report
    /\ closing' = [closing EXCEPT !.reported = TRUE, !.durable = @ /\ stored]
    /\ stored \/ faults < MaxFaults
    /\ faults' = IF stored THEN faults ELSE faults + 1
    /\ UNCHANGED <<server, entry, rec, turn, open, form, ran, stopped>>

\* The entry goes once all of the completion is durable.
Remove(saved) ==
    /\ server.up /\ closing # Gone /\ closing.reported
    /\ IF closing.durable THEN Save(Gone, saved) ELSE saved /\ UNCHANGED <<entry, form, faults>>
    /\ closing' = Gone
    /\ UNCHANGED <<server, rec, turn, open, report, ran, stopped>>

-----------------------------------------------------------------------------
(* Restart and recovery.                                                   *)

\* What the process held is lost.
Crash ==
    /\ server.up /\ server.life < MaxLives
    /\ server' = [server EXCEPT !.up = FALSE, !.boot = FALSE]
    /\ rec' = Gone /\ turn' = "none" /\ open' = {} /\ closing' = Gone
    /\ UNCHANGED <<entry, report, form, faults, ran, stopped>>

Restart ==
    /\ ~server.up
    /\ server' = [up |-> TRUE, life |-> server.life + 1, boot |-> entry # Gone]
    /\ UNCHANGED <<entry, rec, turn, open, closing, report, form, faults, ran, stopped>>

\* recoverCheckpointedTask resumes what it can.
Recoverable == Changeable /\ ~entry.disabled /\ entry.status # "cancelled"

\* The rest is reported as it ended, or as interrupted.  (Broken: as it ended.)
AsMarked == entry.completion
Outcome == IF entry.completion = "none" THEN "cancelled" ELSE entry.completion
ReportInterrupted ==
    /\ server.up /\ server.boot /\ ~Recoverable
    /\ server' = [server EXCEPT !.boot = FALSE]
    /\ closing' = Closing(Outcome, TRUE)
    /\ UNCHANGED <<entry, rec, turn, open, report, form, faults, ran, stopped>>

\* The calls whose outcome is unknown; a read may simply be repeated.
Uncertain == {i \in DOMAIN entry.actions :
                entry.actions[i].status = "started" /\ entry.actions[i].call \in Mutations}
NeedsReview == entry.status = "paused" \/ Uncertain # {} \/ entry.resumes >= MaxResumes

\* The claim, then showPaused or the first half of startResumedJob, with no
\* await between them.
Recover(claimed, saved) ==
    /\ server.up /\ server.boot /\ Recoverable
    /\ server' = [server EXCEPT !.boot = FALSE]
    /\ rec' = IF claimed THEN [Record(FALSE, entry.resumes) EXCEPT !.status = "paused"] ELSE rec
    /\ IF claimed /\ NeedsReview
       THEN Save(Paused, saved) /\ UNCHANGED turn
       ELSE Save(entry, claimed) /\ turn' = IF claimed THEN "starting" ELSE turn
    /\ UNCHANGED <<open, closing, report, ran, stopped>>

\* The second half of startResumedJob.
Resumed == [entry EXCEPT !.status = "running", !.resumes = @ + 1,
             !.actions = [i \in DOMAIN @ |->
                 IF @[i].status = "started" /\ @[i].call \notin Mutations
                 THEN [@[i] EXCEPT !.status = "retry_authorized"] ELSE @[i]]]
MayStart == rec # Gone /\ rec.status = "paused" /\ Changeable /\ entry.status # "cancelled"
StartResumed ==
    /\ server.up /\ turn = "starting" /\ MayStart
    /\ Save(Resumed, TRUE)
    /\ rec' = Record(entry.disabled, Resumed.resumes)
    /\ turn' = "model"
    /\ UNCHANGED <<server, open, closing, report, ran, stopped>>

\* The save of the new attempt fails, though it may have taken effect; showPaused
\* follows at once, and may be saved or not.
StartUnsaved(shown) ==
    /\ server.up /\ turn = "starting" /\ MayStart
    /\ faults < MaxFaults /\ faults' = faults + 1
    /\ \E tried \in {entry, Resumed} :
          LET paused == [tried EXCEPT !.status = "paused"] IN
          entry' \in IF shown THEN {paused} ELSE {tried, paused}
    /\ form' = IF form = "fresh" THEN "stale" ELSE form
    /\ turn' = "none"
    /\ UNCHANGED <<server, rec, open, closing, report, ran, stopped>>

\* It fails before that: the access hours, the agent or its tools, too many results, or
\* a record or checkpoint that was stopped meanwhile.  showPaused follows, even
\* over a cancellation that is not complete yet.
StartFails(saved) ==
    /\ server.up /\ turn = "starting"
    /\ turn' = "none"
    /\ IF Changeable THEN Save(Paused, saved)
       ELSE saved /\ UNCHANGED <<entry, form, faults>>
    /\ rec' = IF rec # Gone /\ saved THEN [rec EXCEPT !.status = "paused"] ELSE rec
    /\ UNCHANGED <<server, open, closing, report, ran, stopped>>

\* The user opens the recovery details,
OpenForm ==
    /\ server.up /\ entry # Gone /\ form # "fresh"
    /\ form' = "fresh"
    /\ UNCHANGED <<server, entry, rec, turn, open, closing, report, faults, ran, stopped>>

\* and says of every uncertain call that it is done, or to run it again.  An
\* abort that is under way completes before another request is handled.
\* (Broken: any form will do.)
AnyForm == form # "none"
FormIsCurrent == form = "fresh"
Review(retry, saved) ==
    /\ server.up /\ rec # Gone /\ rec.status = "paused" /\ ~rec.stop
    /\ Changeable /\ entry.status = "paused" /\ ~entry.disabled
    /\ FormIsCurrent /\ retry \subseteq Uncertain /\ entry.resumes < MaxAttempts
    /\ Save([entry EXCEPT !.status = "ready",
              !.actions = [i \in DOMAIN @ |->
                  IF i \notin Uncertain THEN @[i]
                  ELSE [@[i] EXCEPT !.status = IF i \in retry THEN "retry_authorized" ELSE "done"]]],
            saved)
    /\ turn' = IF saved THEN "starting" ELSE turn
    /\ stopped' = (stopped /\ form # "fresh")
    /\ UNCHANGED <<server, rec, open, closing, report, ran>>

TasksNext ==
    \/ \E saved \in BOOLEAN :
        \/ \E disabled \in BOOLEAN : Dispatch(disabled, saved)
        \/ \E c \in Calls : BeginCall(c, saved)
        \/ \E id \in open : FinishCall(id, saved)
        \/ \E hidden \in BOOLEAN : DisableRecovery(hidden, saved)
        \/ \E status \in {"done", "error"} : EndTurn(status, saved)
        \/ BudgetPause(saved) \/ Stop(saved) \/ StopCompletes(saved) \/ Reap(saved)
        \/ AppendReport(saved) \/ Remove(saved) \/ StartFails(saved) \/ StartUnsaved(saved)
        \/ \E claimed \in BOOLEAN : Recover(claimed, saved)
        \/ \E retry \in SUBSET (1..MaxActions) : Review(retry, saved)
    \/ \E c \in Calls : RunUnrecorded(c)
    \/ Crash \/ Restart \/ ReportInterrupted \/ StartResumed \/ OpenForm

\* systemd starts the server again, the boot runs the recovery, the sweep
\* finds every job that has run for a day, and what was begun goes on.
TasksFairness ==
    /\ WF_taskVars(Restart)
    /\ WF_taskVars(ReportInterrupted \/ \E claimed, saved \in BOOLEAN : Recover(claimed, saved))
    /\ WF_taskVars(StartResumed \/ \E saved \in BOOLEAN : StartFails(saved) \/ StartUnsaved(saved))
    /\ WF_taskVars(\E saved \in BOOLEAN : Reap(saved) \/ StopCompletes(saved))
    /\ WF_taskVars(\E stored \in BOOLEAN : AppendReport(stored))

TasksSpec == TasksInit /\ [][TasksNext]_taskVars /\ TasksFairness

-----------------------------------------------------------------------------
(* Properties                                                              *)

TasksTypeOK ==
    /\ server \in [up : BOOLEAN, life : Nat, boot : BOOLEAN]
    /\ entry \in EntryRecords \cup {Gone} /\ rec \in TaskRecords \cup {Gone}
    /\ turn \in {"none", "starting", "model"} /\ open \subseteq Nat
    /\ closing \in Closings \cup {Gone}
    /\ report \in {"none", "done", "error", "cancelled"}
    /\ form \in {"none", "fresh", "stale"} /\ faults \in Nat
    /\ ran \subseteq [call : Calls, id : Nat, attempt : Nat] /\ stopped \in BOOLEAN

\* Of the calls the checkpoint records, a mutation is executed again by a
\* later attempt of the job only if the user reviewed every earlier execution
\* and authorized it to run again, whatever crashes, pauses, reviews and failed
\* writes there are.  A job without recovery keeps no record of its calls: no
\* later attempt follows on them, unless a write failed.
Repeats(y) == {x \in ran : x.call = y.call /\ x.id # 0 /\ x.attempt < y.attempt}
Authorized(x) == entry.actions[x.id].status = "retry_authorized"
ReviewedRepeats == [][\A y \in ran' \ ran :
    /\ y.id # 0 => \A x \in Repeats(y) : Authorized(x)
    /\ faults = 0 => \A x \in ran : x.id = 0 => x.attempt >= y.attempt]_taskVars

\* A job whose Stop was confirmed never gets a stream, starts a recorded call or
\* is reported as done, across crashes and restarts, unless the user
\* has opened its details and resumed it since.
StopHolds == [][stopped /\ stopped' =>
    /\ turn' = "model" => turn = "model"
    /\ report' = "done" => report = "done"
    /\ \A y \in ran' \ ran : FALSE]_taskVars

\* A job that was taken on is finally reported, or waits for the user with a
\* record the user can see; only failed writes excuse it.
Settled == \/ report # "none" \/ faults > 0
           \/ entry # Gone /\ entry.status = "paused" /\ rec # Gone /\ rec.status = "paused"
JobSettled == entry # Gone ~> Settled
=============================================================================
