----------------------------- MODULE RunBudgets -----------------------------
(***************************************************************************)
(* Metered runs: lib/run-budgets.mjs, in the order in which                *)
(* chat/run-budgets.mjs and lib/run-budget-continuation.mjs call it.  A    *)
(* run is a turn with its delegates; each of these works in a span, and    *)
(* reserves an allowance before every request to a model provider.  The    *)
(* runs of one project share the project's allowance.  Every operation     *)
(* rewrites the ledger file under a file lock: it is one step, and happens *)
(* or not.  Spans run in processes that may die at any step.               *)
(***************************************************************************)
EXTENDS Integers, FiniteSets, FiniteSetsExt, Sequences

CONSTANTS Runs, Procs,
          NSpans,        \* spans, numbered as they start
          NRequests,     \* requests to providers, numbered as reserved
          MaxEstimate,   \* bound on the estimate of a request
          Excess,        \* by how much usage may exceed its estimate
          Limits,        \* allowances a user may set
          MaxLimit,      \* bound on an allowance
          MaxSpans,      \* spans of one run, 128 in the code
          MaxGeneration, \* bound on the continuations of a span
          MaxActions,    \* MaxActions[s]: bound on the tool calls of span s
          None           \* no limit; no run, process or request

Spans == 1..NSpans
Requests == 1..NRequests

ASSUME BoundsAssumption ==
    /\ {NSpans, NRequests, MaxEstimate, Excess, MaxLimit, MaxSpans, MaxGeneration} \subseteq Nat
    /\ MaxActions \in [Spans -> Nat]
ASSUME NoneAssumption  == None \notin Nat \cup Runs \cup Procs
ASSUME LimitAssumption == Limits \subseteq Nat \cup {None}

VARIABLES run,        \* run[r]: status, limits, usage
          project,    \* limits and usage of the project of these runs
          span,       \* span[s]: run, status, generation, owner, actions
          request,    \* request[q]: its reservation in the ledger
          stream,     \* stream[s]: what the process of s does (in memory)
          alive,
          worth       \* what each request must be counted as (history)

ledger == <<run, project, span, request>>
vars == <<ledger, stream, alive, worth>>

Final == {"done", "error", "cancelled"}
RunStatuses == Final \cup {"none", "running", "paused", "ready"}

Off == [pc |-> "off", bounded |-> FALSE, request |-> None, exit |-> "done"]

Init ==
    /\ run = [r \in Runs |-> [status |-> "none", limit |-> None, used |-> 0]]
    /\ project \in [limit : Limits, used : {0}]
    /\ span = [s \in Spans |-> [run |-> None, status |-> "none", gen |-> 0,
                                owner |-> None, actions |-> <<>>]]
    /\ request = [q \in Requests |-> [span |-> None, estimate |-> 0, status |-> "none"]]
    /\ stream = [s \in Spans |-> Off]
    /\ alive = Procs
    /\ worth = [q \in Requests |-> 0]

-----------------------------------------------------------------------------
(* Reading the ledger                                                      *)

SpansOf(r) == {s \in Spans : span[s].run = r}
RunOf(s) == span[s].run
Owned(s) == span[s].owner \in alive

Reserved == {q \in Requests : request[q].status \in {"reserved", "uncertain"}}
ReservedBy(r) == {q \in Reserved : RunOf(request[q].span) = r}

\* A reservation's process is its span's: a span gets another one only after its
\* reservations were reconciled.
Active(q) == request[q].status = "reserved" /\ Owned(request[q].span)
Abandoned(q) == ~Owned(request[q].span)

Estimates(qs) == MapThenSumSet(LAMBDA q : request[q].estimate, qs)

Limited(limit) == limit # None
Exceeds(limit, amount) == Limited(limit) /\ amount > limit

\* What counts against the project's allowance.  (Broken: other runs' requests
\* do not.)
OwnReserved(r) == ReservedBy(r)
ProjectReserved(r) == Reserved

Fits(r, estimate) ==
    /\ ~Exceeds(run[r].limit, run[r].used + Estimates(ReservedBy(r)) + estimate)
    /\ ~Exceeds(project.limit, project.used + Estimates(ProjectReserved(r)) + estimate)

Pause(r) == run' = [run EXCEPT ![r].status = "paused"]

-----------------------------------------------------------------------------
(* A turn starts: openBudgetRun, then budgetSpan                           *)

\* (Broken: a stopped run takes new work.)
AnyRun(r) == TRUE
TakesWork(r) == run[r].status # "cancelled"

NextSpan(s) == span[s].run = None /\ \A t \in 1..(s - 1) : span[t].run # None

\* The limit of a recorded run, or of a new one: without any it is not recorded.
Opened(r, limit) ==
    IF run[r].status = "none" THEN limit \in Limits /\ (Limited(limit) \/ Limited(project.limit))
    ELSE limit = run[r].limit

Begin(s, r, p, limit) ==
    /\ NextSpan(s) /\ p \in alive
    /\ Opened(r, limit) /\ TakesWork(r)
    /\ Cardinality(SpansOf(r)) < MaxSpans
    /\ run' = [run EXCEPT ![r].limit = limit,
                          ![r].status = IF @ = "paused" THEN @ ELSE "running"]
    /\ span' = [span EXCEPT ![s].run = r, ![s].status = "running", ![s].owner = p]
    /\ stream' = [stream EXCEPT ![s].pc = "on",
                     ![s].bounded = Limited(limit) \/ Limited(project.limit)]
    /\ UNCHANGED <<project, request, alive, worth>>

\* The run has as many spans as are saved.
SpanLimit(r) ==
    /\ run[r].status \notin {"none", "cancelled"}
    /\ Cardinality(SpansOf(r)) >= MaxSpans
    /\ Pause(r)
    /\ UNCHANGED <<project, span, request, stream, alive, worth>>

-----------------------------------------------------------------------------
(* Requests                                                                *)

On(s) == stream[s].pc = "on" /\ Owned(s)

\* The turn ends with this outcome, after what is left of it was cleaned up.
Leave(s, exit) == [stream EXCEPT ![s].pc = "closing", ![s].exit = exit]
LeaveWithout(s, exit) ==
    [stream EXCEPT ![s].pc = "closing", ![s].exit = exit, ![s].request = None]

\* assertBudgetRunning, and every other look at the run's status.
Stopped(s) ==
    /\ On(s) /\ run[RunOf(s)].status \in {"paused", "cancelled"}
    /\ stream' = Leave(s, "paused")
    /\ UNCHANGED <<ledger, alive, worth>>

NextRequest(q) == request[q].status = "none" /\ \A p \in 1..(q - 1) : request[p].status # "none"

Reserve(s, q, estimate) ==
    /\ On(s) /\ stream[s].bounded /\ stream[s].request = None
    /\ NextRequest(q)
    /\ run[RunOf(s)].status \notin {"paused", "cancelled"}
    /\ \A other \in ReservedBy(RunOf(s)) : ~Abandoned(other)
    /\ Fits(RunOf(s), estimate)
    /\ request' = [request EXCEPT ![q] = [span |-> s, estimate |-> estimate, status |-> "reserved"]]
    /\ run' = [run EXCEPT ![RunOf(s)].status = "running"]
    /\ stream' = [stream EXCEPT ![s].request = q]
    /\ worth' = [worth EXCEPT ![q] = estimate]
    /\ UNCHANGED <<project, span, alive>>

\* The request is not admitted (too large, an abandoned one before it, no
\* estimate, price or enforceable bound), it is repeated on the wire, or a tool
\* call is one too many.
Refused(s) ==
    /\ On(s)
    /\ Pause(RunOf(s))
    /\ stream' = Leave(s, "paused")
    /\ UNCHANGED <<project, span, request, alive, worth>>

\* What a reported usage adds to the run's and the project's.
Charged(q, amount) == amount

ProjectCharged(amount) == [project EXCEPT !.used = @ + amount]

\* The provider's usage report arrives.
Settle(s, amount) ==
    /\ On(s) /\ stream[s].request # None
    /\ amount <= request[stream[s].request].estimate + Excess
    /\ LET q == stream[s].request
           r == RunOf(s)
           over == \/ Exceeds(run[r].limit, run[r].used + amount)
                   \/ Exceeds(project.limit, project.used + amount)
       IN  /\ run' = [run EXCEPT ![r].used = @ + Charged(q, amount),
                                 ![r].status = IF over THEN "paused" ELSE @]
           /\ project' = ProjectCharged(Charged(q, amount))
           /\ request' = [request EXCEPT ![q].status = "settled"]
           /\ worth' = [worth EXCEPT ![q] = amount]
           /\ stream' = IF over THEN LeaveWithout(s, "paused")
                        ELSE [stream EXCEPT ![s].request = None]
    /\ UNCHANGED <<span, alive>>

\* A settlement without complete usage.
Uncertain(s) ==
    /\ request' = [request EXCEPT ![stream[s].request].status = "uncertain"]
    /\ Pause(RunOf(s))

\* The report is incomplete, or the next request starts without one.
SettleUnknown(s) ==
    /\ On(s) /\ stream[s].request # None
    /\ Uncertain(s)
    /\ stream' = LeaveWithout(s, "paused")
    /\ UNCHANGED <<project, span, alive, worth>>

\* The ledger cannot be locked or written; the reservation is not tried again.
SettleFails(s) ==
    /\ On(s) /\ stream[s].request # None
    /\ \E exit \in {"paused", "error"} : stream' = LeaveWithout(s, exit)
    /\ UNCHANGED <<ledger, alive, worth>>

-----------------------------------------------------------------------------
(* Tool calls that change something, all with the same arguments           *)

Calls(s) == span[s].actions

\* The last receipt whose repetition was not authorized, if any.
Prior(s) ==
    LET kept == {i \in DOMAIN Calls(s) : Calls(s)[i].status # "retry_authorized"}
    IN  {Calls(s)[i] : i \in {i \in kept : \A j \in kept : j <= i}}

\* (Broken: a finished call of an earlier generation is not replayed.)
NotUncertain(s) == \A prior \in Prior(s) : prior.status # "started"
MayExecute(s) ==
    \A prior \in Prior(s) : prior.status = "done" /\ prior.gen = span[s].gen

\* beginBudgetAction executes the call; otherwise it replays the receipt, or
\* pauses the run for a review (Refused).
BeginAction(s) ==
    /\ On(s) /\ run[RunOf(s)].status \notin {"paused", "cancelled"}
    /\ MayExecute(s)
    /\ Len(Calls(s)) < MaxActions[s]
    /\ span' = [span EXCEPT ![s].actions = Append(@, [gen |-> span[s].gen, status |-> "started"])]
    /\ UNCHANGED <<run, project, request, stream, alive, worth>>

\* Its result is recorded.  (A call that throws leaves it "started".)
FinishAction(s) ==
    /\ On(s)
    /\ LET i == Len(Calls(s))
       IN  /\ i > 0 /\ Calls(s)[i] = [gen |-> span[s].gen, status |-> "started"]
           /\ span' = [span EXCEPT ![s].actions[i].status = "done"]
    /\ UNCHANGED <<run, project, request, stream, alive, worth>>

-----------------------------------------------------------------------------
(* A turn ends                                                             *)

\* It is over, fails or is aborted, or nobody reads it any more.
EndTurn(s, exit) ==
    /\ On(s) /\ exit \in Final
    /\ stream' = Leave(s, IF exit = "error" /\ stream[s].request # None THEN "paused" ELSE exit)
    /\ UNCHANGED <<ledger, alive, worth>>

\* The provider's stream settles what it reserved, or fails to.
CloseProvider(s) ==
    /\ stream[s].pc = "closing" /\ Owned(s)
    /\ IF stream[s].request # None
       THEN Uncertain(s) \/ UNCHANGED <<run, request>>
       ELSE UNCHANGED <<run, request>>
    /\ stream' = [stream EXCEPT ![s].pc = "finish", ![s].request = None]
    /\ UNCHANGED <<project, span, alive, worth>>

\* finishBudgetSpan: the span's status, then the run's.  (Broken: done is done.)
SpanOutcomeBlind(s, exit) == exit
SpanOutcome(s, exit) ==
    IF run[RunOf(s)].status = "paused" /\ exit = "done" THEN "paused" ELSE exit

FinishSpan(s, exit) ==
    /\ span' = [span EXCEPT ![s].status = SpanOutcome(s, exit)]
    /\ LET statuses == {span'[t].status : t \in SpansOf(RunOf(s))}
       IN  run' = [run EXCEPT ![RunOf(s)].status =
                     IF statuses \subseteq Final THEN exit
                     ELSE IF "paused" \in statuses /\ statuses \cap {"running", "ready"} = {}
                     THEN "paused" ELSE @]

\* Or the ledger cannot be written.
Finish(s) ==
    /\ stream[s].pc = "finish" /\ Owned(s)
    /\ FinishSpan(s, stream[s].exit) \/ UNCHANGED <<run, span>>
    /\ stream' = [stream EXCEPT ![s] = Off]
    /\ UNCHANGED <<project, request, alive, worth>>

\* A process dies; another serves its user from then on.
Crash(p) ==
    /\ p \in alive /\ alive # {p}
    /\ alive' = alive \ {p}
    /\ stream' = [s \in Spans |->
                    IF span[s].owner = p THEN Off ELSE stream[s]]
    /\ UNCHANGED <<ledger, worth>>

-----------------------------------------------------------------------------
(* Reviews                                                                 *)

Interrupted(s) == span[s].status \in {"running", "ready"} /\ ~Owned(s)

\* What a recovery leaves of an abandoned request.  (Broken: nothing.)
Dropped == "settled"
Retained == "uncertain"

\* recoverBudgetRuns, when a run is looked at.
Recover ==
    /\ \E s \in Spans : Interrupted(s)
    /\ LET touched == {RunOf(s) : s \in {s \in Spans : Interrupted(s)}}
       IN  /\ run' = [r \in Runs |-> IF r \in touched THEN [run[r] EXCEPT !.status = "paused"] ELSE run[r]]
           /\ request' = [q \in Requests |->
                IF q \in Reserved /\ Abandoned(q) /\ RunOf(request[q].span) \in touched
                THEN [request[q] EXCEPT !.status = Retained] ELSE request[q]]
    /\ span' = [s \in Spans |-> IF Interrupted(s) THEN [span[s] EXCEPT !.status = "paused"] ELSE span[s]]
    /\ UNCHANGED <<project, stream, alive, worth>>

\* reconcileUnknownUsage: the reserved estimates of a run are accepted as its
\* usage, if none of its requests is active.
Reconcilable(r) == \A q \in ReservedBy(r) : ~Active(q)
Reconcile(r) ==
    request' = [q \in Requests |->
                  IF q \in ReservedBy(r) THEN [request[q] EXCEPT !.status = "settled"] ELSE request[q]]
Accepted(r) == Estimates(ReservedBy(r))

AcceptUsage(r) ==
    /\ ReservedBy(r) # {} /\ Reconcilable(r)
    /\ Reconcile(r)
    /\ run' = [run EXCEPT ![r].used = @ + Accepted(r)]
    /\ project' = ProjectCharged(Accepted(r))
    /\ UNCHANGED <<span, stream, alive, worth>>

\* An increase of a limit; an unlimited one starts from what is used.
Raised(limit, used, extra) ==
    IF extra = 0 THEN limit ELSE extra + (IF Limited(limit) THEN limit ELSE used)

\* Every uncertain call of the span is resolved by the user: it had its effect,
\* or it may be repeated.  (Broken: unresolved calls may be repeated.)
Resolution(again) == IF again THEN "retry_authorized" ELSE "done"
Reviewed(actions, repeat) ==
    [i \in DOMAIN actions |->
        IF actions[i].status = "started"
        THEN [actions[i] EXCEPT !.status = Resolution(i \in repeat)] ELSE actions[i]]

\* What is saved of work that may continue in a process.
Continued(work, p, repeat) ==
    [work EXCEPT !.status = "ready", !.gen = @ + 1, !.owner = p, !.actions = Reviewed(@, repeat)]

\* authorizeBudgetContinuation for one span, called by continueBudgetRun, which
\* then starts its stream.
Authorize(s, p, extra, projectExtra, removeLimits) ==
    /\ span[s].status = "paused" /\ p \in alive /\ span[s].gen < MaxGeneration
    /\ run[RunOf(s)].status = "paused" /\ Reconcilable(RunOf(s))
    /\ removeLimits \/ extra > 0 \/ projectExtra > 0
    /\ LET r == RunOf(s)
           used == run[r].used + Accepted(r)
           charged == ProjectCharged(Accepted(r))
       IN  /\ Reconcile(r)
           /\ run' = [run EXCEPT ![r] = [status |-> "ready", used |-> used,
                        limit |-> IF removeLimits THEN None ELSE Raised(@.limit, used, extra)]]
           /\ project' = [charged EXCEPT !.limit = Raised(@, charged.used, projectExtra)]
           /\ {run'[r].limit, project'.limit} \subseteq 0..MaxLimit \cup {None}
    /\ \E repeat \in SUBSET DOMAIN Calls(s) : span' = [span EXCEPT ![s] = Continued(@, p, repeat)]
    /\ stream' = [stream EXCEPT ![s].pc = "authorized"]
    /\ UNCHANGED <<alive, worth>>

Awaited(s) == stream[s].pc = "authorized" /\ Owned(s)

\* budgetSpan resumes the span.
Resume(s) ==
    /\ Awaited(s)
    /\ run[RunOf(s)].status \notin {"cancelled", "paused"} /\ span[s].status = "ready"
    /\ run' = [run EXCEPT ![RunOf(s)].status = "running"]
    /\ span' = [span EXCEPT ![s].status = "running"]
    /\ stream' = [stream EXCEPT ![s].pc = "on",
                     ![s].bounded = Limited(run[RunOf(s)].limit) \/ Limited(project.limit)]
    /\ UNCHANGED <<project, request, alive, worth>>

\* The run was paused or stopped in the meantime: the stream ends with an error
\* and the span stays as it is.
ResumeRefused(s) ==
    /\ Awaited(s)
    /\ run[RunOf(s)].status \in {"cancelled", "paused"} \/ span[s].status # "ready"
    /\ stream' = [stream EXCEPT ![s] = Off]
    /\ UNCHANGED <<ledger, alive, worth>>

\* The continuation fails before its stream: pauseBudgetRun, finishBudgetSpan.
ContinuationFails(s) ==
    /\ Awaited(s)
    /\ Pause(RunOf(s))
    /\ span' = [span EXCEPT ![s].status = "paused"]
    /\ stream' = [stream EXCEPT ![s] = Off]
    /\ UNCHANGED <<project, request, alive, worth>>

\* The user stops work that is paused, or a job whose continuation was authorized
\* and has not begun, or was refused.
Stop(s) ==
    /\ \/ span[s].status = "paused"
       \/ span[s].status = "ready" /\ Owned(s)
    /\ FinishSpan(s, "cancelled")
    /\ UNCHANGED <<project, request, stream, alive, worth>>

SetRunBudget(r, limit) ==
    /\ run[r].status # "none"
    /\ run' = [run EXCEPT ![r].limit = limit]
    /\ UNCHANGED <<project, span, request, stream, alive, worth>>

SetProjectBudget(limit) ==
    /\ project' = [project EXCEPT !.limit = limit]
    /\ UNCHANGED <<run, span, request, stream, alive, worth>>

-----------------------------------------------------------------------------
Turn(s) ==
    \/ Stopped(s) \/ Refused(s)
    \/ \E q \in Requests, estimate \in 1..MaxEstimate : Reserve(s, q, estimate)
    \/ \E amount \in 1..(MaxEstimate + Excess) : Settle(s, amount)
    \/ SettleUnknown(s) \/ SettleFails(s)
    \/ BeginAction(s) \/ FinishAction(s)
    \/ \E exit \in Final : EndTurn(s, exit)
    \/ CloseProvider(s) \/ Finish(s)

Review(s) ==
    \/ \E p \in Procs, extra, projectExtra \in 0..1, removeLimits \in BOOLEAN :
          Authorize(s, p, extra, projectExtra, removeLimits)
    \/ Resume(s) \/ ResumeRefused(s) \/ ContinuationFails(s) \/ Stop(s)

Next ==
    \/ \E s \in Spans, r \in Runs, p \in Procs, limit \in {None} \cup 0..MaxLimit : Begin(s, r, p, limit)
    \/ \E s \in Spans : Turn(s) \/ Review(s)
    \/ \E r \in Runs : SpanLimit(r) \/ AcceptUsage(r)
    \/ \E r \in Runs, limit \in Limits : SetRunBudget(r, limit)
    \/ \E limit \in Limits : SetProjectBudget(limit)
    \/ \E p \in Procs : Crash(p)
    \/ Recover

Spec == Init /\ [][Next]_vars

-----------------------------------------------------------------------------
(* Properties                                                              *)

TypeOK ==
    /\ run \in [Runs -> [status : RunStatuses, limit : Nat \cup {None}, used : Nat]]
    /\ project \in [limit : Nat \cup {None}, used : Nat]
    /\ \A s \in Spans :
          /\ span[s].run \in Runs \cup {None} /\ span[s].owner \in Procs \cup {None}
          /\ span[s].status \in RunStatuses /\ span[s].gen \in Nat
          /\ \A i \in DOMAIN Calls(s) :
                Calls(s)[i] \in [gen : 0..span[s].gen,
                                 status : {"started", "done", "retry_authorized"}]
    /\ \A q \in Requests :
          /\ request[q].span \in Spans \cup {None} /\ request[q].estimate \in 0..MaxEstimate
          /\ request[q].status \in {"none", "reserved", "uncertain", "settled"}
    /\ stream \in [Spans -> [pc : {"off", "authorized", "on", "closing", "finish"},
                             bounded : BOOLEAN, request : Requests \cup {None},
                             exit : Final \cup {"paused"}]]
    /\ alive \subseteq Procs
    /\ worth \in [Requests -> Nat]

Worth(qs) == MapThenSumSet(LAMBDA q : worth[q], qs)
RequestsOf(r) == {q \in Requests : request[q].span # None /\ RunOf(request[q].span) = r}

\* Whatever dies, is reported twice or not at all, is reviewed or accepted: each
\* request counts exactly once against its run and its project, with the usage
\* reported or, until it is known, with its estimate.
Accounted ==
    /\ \A r \in Runs : run[r].used + Estimates(ReservedBy(r)) = Worth(RequestsOf(r))
    /\ project.used + Estimates(Reserved) = Worth(Requests)

Overdrawn(r) == Exceeds(run[r].limit, run[r].used + Estimates(ReservedBy(r)))
ProjectOverdrawn == Exceeds(project.limit, project.used + Estimates(Reserved))

\* Simultaneous requests of several runs, crashes and reviews never take what is
\* used and reserved beyond an allowance: only a changed allowance or a provider
\* that used more than the estimate does.
WithinAllowance ==
    [][\/ \E q \in Requests : worth[q] # 0 /\ worth'[q] > worth[q]
       \/ /\ \A r \in Runs : Overdrawn(r)' => Overdrawn(r) \/ run'[r].limit # run[r].limit
          /\ ProjectOverdrawn' => ProjectOverdrawn \/ project'.limit # project.limit]_vars

\* Nothing restarts a run that was stopped; at most a continuation that failed
\* puts it up for review.
StoppedStaysStopped ==
    [][\A r \in Runs : run[r].status = "cancelled" => run'[r].status \in {"cancelled", "paused"}]_vars

\* A pause holds: no request, new work or turn that ends well lifts it, but the
\* user's authorization, with every request of the run accounted for, or the end
\* of all its work in failures and stops.
PauseHolds ==
    [][\A r \in Runs : run[r].status = "paused" =>
          \/ run'[r].status = "paused"
          \/ run'[r].status = "ready" /\ ReservedBy(r)' = {}
          \/ /\ run'[r].status \in {"error", "cancelled"}
             /\ \A s \in SpansOf(r)' : span'[s].status \in Final]_vars

\* Continued work repeats a call only when the user allowed it: no call is
\* executed while an earlier one is uncertain or has finished in an earlier
\* generation of the span.
NoBlindRepeat ==
    [][\A s \in Spans : Len(span'[s].actions) > Len(span[s].actions) =>
          \A i \in DOMAIN Calls(s) :
             \/ Calls(s)[i].status = "retry_authorized"
             \/ Calls(s)[i].status = "done" /\ Calls(s)[i].gen = span[s].gen]_vars

\* Work that was authorized but did not start can be authorized again: unless
\* its continuation is under way or its process is dead, no span is "ready".
\* (The guide: "Review its usage, select the paused work".)
NothingStranded ==
    \A s \in Spans : span[s].status = "ready" /\ Owned(s) => stream[s].pc = "authorized"
=============================================================================
