---------------------------- MODULE WorkerSpawn ----------------------------
(***************************************************************************)
(* lib/worker-spawn-idempotency.mjs: spawn_worker calls of one logical     *)
(* message (the first attempt and its browser Retries) and the record that *)
(* keeps them from launching a job twice.  A call holds the user's         *)
(* admission lock (FileLock, here the variable holder) from its sweep to   *)
(* its last write.  The process may die between any two steps; the record  *)
(* survives it.                                                            *)
(***************************************************************************)
EXTENDS Naturals, Sequences, FiniteSets

CONSTANTS Calls,        \* calls of spawnWorkerIdempotently
          Asks,         \* what a call may ask for: [key, ordinal, print]
          NoKey,        \* the key of a call without an authorized outcome
          Direct,       \* a call outside a traced turn: nothing identifies it
          MaxWorkers,   \* MAX_WORKERS_PER_AGENT
          NoCall

ASSUME QuotaAssumption == MaxWorkers \in Nat
ASSUME NoCallAssumption == NoCall \notin Calls /\ Direct \notin Asks
ASSUME AsksAssumption ==
    \A a \in Asks : a = [key |-> a.key, ordinal |-> a.ordinal, print |-> a.print]

VARIABLES pc, ask,      \* of each call
          holder,       \* who holds the admission lock
          jobs,         \* the record's jobs, in order (<<>>: no record)
          old,          \* the record's mtime is more than RETENTION_MS ago
          live,         \* the workers running; a worker is named after its call
          launched,     \* the calls whose worker started, in the lifetime of
                        \* the record (history)
          told          \* the worker each call was answered with, or NoCall

vars == <<pc, ask, holder, jobs, old, live, launched, told>>

Labels == {"idle", "admit", "quota", "tombstone", "spawn", "started",
           "notStarted", "uncertain", "answered", "refused", "lost"}
Ended == {"answered", "refused", "lost"}

Init ==
    /\ pc = [c \in Calls |-> "idle"]
    /\ ask = [c \in Calls |-> Direct]
    /\ holder = NoCall
    /\ jobs = <<>> /\ old = FALSE
    /\ live = {} /\ launched = {}
    /\ told = [c \in Calls |-> NoCall]

Job(c) == [key |-> ask[c].key, ordinal |-> ask[c].ordinal, print |-> ask[c].print,
           status |-> "dispatching", task |-> NoCall]

Go(c, from, to) == pc[c] = from /\ pc' = [pc EXCEPT ![c] = to]
Return(c, from, to) == Go(c, from, to) /\ holder' = NoCall

-----------------------------------------------------------------------------
(* Which jobs of the record the call's ask may be                           *)

Indices == 1..Len(jobs)

First(A, B) == IF A # {} THEN A ELSE B

SameOrdinal(a) == {i \in Indices : jobs[i].ordinal = a.ordinal}
SamePrint(a) == {i \in Indices : jobs[i].print = a.print}
SameKey(a) == {i \in Indices : jobs[i].key = a.key}
OldOrdinal(a) == {i \in SameOrdinal(a) : jobs[i].key = NoKey}
OldPrint(a) == {i \in SamePrint(a) : jobs[i].key = NoKey}

\* (Broken: keyed asks fall back on any job of the same ordinal.)
MatchByOrdinal(a) ==
    IF a.key # NoKey THEN First(SameKey(a), SameOrdinal(a))
    ELSE First(SameOrdinal(a), SamePrint(a))
Existing(a) ==
    IF a.key # NoKey THEN First(SameKey(a), First(OldOrdinal(a), OldPrint(a)))
    ELSE First(SameOrdinal(a), SamePrint(a))

-----------------------------------------------------------------------------
\* The lock is taken and old records are deleted.  (Broken: the lock is not
\* waited for.)
NotWaiting(c) == TRUE
LockFree(c) == holder = NoCall

Enter(c, a) ==
    /\ LockFree(c)
    /\ Go(c, "idle", IF a = Direct THEN "quota" ELSE "admit")
    /\ ask' = [ask EXCEPT ![c] = a]
    /\ holder' = c
    /\ IF old THEN jobs' = <<>> /\ launched' = {} ELSE UNCHANGED <<jobs, launched>>
    /\ old' = FALSE
    /\ UNCHANGED <<live, told>>

\* The lock could not be had in LOCK_TIMEOUT_MS.
LockTimeout(c) ==
    /\ holder # NoCall
    /\ Go(c, "idle", "refused")
    /\ UNCHANGED <<ask, holder, jobs, old, live, launched, told>>

Answers(j) == j.status = "started"

\* record.jobs.find: the first of the jobs it may be decides.
Admit(c) ==
    /\ LET found == Existing(ask[c])
       IN  \/ found = {} /\ Go(c, "admit", "quota") /\ UNCHANGED <<holder, told>>
           \/ \E i \in found :
                /\ \A j \in found : i <= j
                /\ IF Answers(jobs[i])
                   THEN Return(c, "admit", "answered") /\ told' = [told EXCEPT ![c] = jobs[i].task]
                   ELSE Return(c, "admit", "refused") /\ UNCHANGED told
    /\ UNCHANGED <<ask, jobs, old, live, launched>>

\* beforeSpawn counts the live workers.
UnderQuota == Cardinality(live) < MaxWorkers

CheckQuota(c) ==
    /\ UnderQuota
    /\ Go(c, "quota", IF ask[c] = Direct THEN "spawn" ELSE "tombstone")
    /\ UNCHANGED <<ask, holder, jobs, old, live, launched, told>>

\* The quota is full, or a target is denied.  No record is written.
OverQuota(c) ==
    /\ Return(c, "quota", "refused")
    /\ UNCHANGED <<ask, jobs, old, live, launched, told>>

WriteTombstone(c) ==
    /\ Go(c, "tombstone", "spawn")
    /\ jobs' = Append(jobs, Job(c)) /\ old' = FALSE
    /\ UNCHANGED <<ask, holder, live, launched, told>>

TombstoneFails(c) ==
    /\ Return(c, "tombstone", "refused")
    /\ UNCHANGED <<ask, jobs, old, live, launched, told>>

-----------------------------------------------------------------------------
(* spawn() and the write of what is known of it                            *)

Launch(c) == live' = live \cup {c} /\ launched' = launched \cup {c}

Spawns(c) ==
    /\ IF ask[c] = Direct
       THEN Return(c, "spawn", "answered") /\ told' = [told EXCEPT ![c] = c]
       ELSE Go(c, "spawn", "started") /\ UNCHANGED <<holder, told>>
    /\ Launch(c)
    /\ UNCHANGED <<ask, jobs, old>>

\* spawn() throws: WORKER_NOT_STARTED, or an error that proves nothing (the
\* worker may run).
SpawnThrows(c) ==
    /\ \/ Go(c, "spawn", "notStarted") /\ ask[c] # Direct /\ UNCHANGED <<holder, live, launched>>
       \/ Go(c, "spawn", "uncertain") /\ ask[c] # Direct /\ UNCHANGED holder
          /\ (Launch(c) \/ UNCHANGED <<live, launched>>)
       \/ Return(c, "spawn", "refused") /\ ask[c] = Direct
          /\ (Launch(c) \/ UNCHANGED <<live, launched>>)
    /\ UNCHANGED <<ask, jobs, old, told>>

\* The lock's holder added the last job.
Mine == Len(jobs)
Stamp(status, task) == [jobs EXCEPT ![Mine].status = status, ![Mine].task = task]

StartedKept(c) == Stamp("started", c)

WriteStarted(c) ==
    /\ Return(c, "started", "answered")
    /\ jobs' = StartedKept(c) /\ old' = FALSE
    /\ told' = [told EXCEPT ![c] = c]
    /\ UNCHANGED <<ask, live, launched>>

\* The catch block takes over, although the worker runs.
WriteStartedFails(c) ==
    /\ Go(c, "started", "uncertain")
    /\ UNCHANGED <<ask, holder, jobs, old, live, launched, told>>

Without == SubSeq(jobs, 1, Mine - 1)

WriteNotStarted(c) ==
    /\ Return(c, "notStarted", "refused")
    /\ jobs' = Without /\ old' = FALSE
    /\ UNCHANGED <<ask, live, launched, told>>

\* The task id of an uncertain job is never read.  (Broken: the job is removed
\* after an error that proves nothing too.)
UncertainForgotten(c) == Without
UncertainKept(c) == Stamp("uncertain", NoCall)

WriteUncertain(c) ==
    /\ Return(c, "uncertain", "refused")
    /\ jobs' = UncertainKept(c) /\ old' = FALSE
    /\ UNCHANGED <<ask, live, launched, told>>

\* Either of the last two writes fails: the tombstone stays.
LastWriteFails(c) ==
    /\ Return(c, "notStarted", "refused") \/ Return(c, "uncertain", "refused")
    /\ UNCHANGED <<ask, jobs, old, live, launched, told>>

-----------------------------------------------------------------------------
WorkerEnds(w) ==
    /\ w \in live
    /\ live' = live \ {w}
    /\ UNCHANGED <<pc, ask, holder, jobs, old, launched, told>>

\* The process dies with its workers and is started again; a later call breaks
\* the dead holder's lock.
Crash ==
    /\ pc' = [c \in Calls |-> IF pc[c] \in Ended \cup {"idle"} THEN pc[c] ELSE "lost"]
    /\ holder' = NoCall
    /\ live' = {}
    /\ UNCHANGED <<ask, jobs, old, launched, told>>

\* RETENTION_MS pass without a write.
Age ==
    /\ holder = NoCall /\ jobs # <<>> /\ ~old
    /\ old' = TRUE
    /\ UNCHANGED <<pc, ask, holder, jobs, live, launched, told>>

Step(c) ==
    \/ \E a \in Asks \cup {Direct} : Enter(c, a)
    \/ LockTimeout(c)
    \/ Admit(c) \/ CheckQuota(c) \/ OverQuota(c)
    \/ WriteTombstone(c) \/ TombstoneFails(c)
    \/ Spawns(c) \/ SpawnThrows(c)
    \/ WriteStarted(c) \/ WriteStartedFails(c)
    \/ WriteNotStarted(c) \/ WriteUncertain(c) \/ LastWriteFails(c)

Next ==
    \/ \E c \in Calls : Step(c) \/ WorkerEnds(c)
    \/ Crash \/ Age

Spec == Init /\ [][Next]_vars

-----------------------------------------------------------------------------
(* Properties                                                              *)

\* The type invariant.  A job that answers Retries names a worker.
TypeOK ==
    /\ pc \in [Calls -> Labels]
    /\ ask \in [Calls -> Asks \cup {Direct}]
    /\ holder \in Calls \cup {NoCall}
    /\ \A i \in 1..Len(jobs) :
          /\ [key |-> jobs[i].key, ordinal |-> jobs[i].ordinal, print |-> jobs[i].print] \in Asks
          /\ jobs[i].status \in {"dispatching", "started", "uncertain"}
          /\ jobs[i].task \in IF jobs[i].status = "started" THEN Calls ELSE {NoCall}
    /\ old \in BOOLEAN
    /\ live \subseteq Calls /\ launched \subseteq Calls
    /\ told \in [Calls -> Calls \cup {NoCall}]

\* Two calls ask for the same job: the same authorized outcome, or, when one of
\* them has none, the same place in the message or the same label and task.
SameJob(a, b) ==
    /\ a # Direct /\ b # Direct
    /\ IF a.key # NoKey /\ b.key # NoKey THEN a.key = b.key
       ELSE a.ordinal = b.ordinal \/ a.print = b.print

\* However calls race, spawn fails, writes fail and the process dies, Retries
\* launch no job twice as long as the record is kept.
LaunchedOnce ==
    \A c, d \in launched : SameJob(ask[c], ask[d]) => c = d

\* A Retry is answered with a worker that did start, launched for the job it
\* asks for: one outcome is never answered with another outcome's worker.
RightWorker ==
    \A c \in Calls : pc[c] = "answered" =>
        \/ told[c] = c
        \/ told[c] # NoCall /\ pc[told[c]] = "answered" /\ SameJob(ask[c], ask[told[c]])

\* The user's workers never exceed the quota that beforeSpawn checks, though
\* the worker starts several steps after the check.
QuotaKept == Cardinality(live) <= MaxWorkers
=============================================================================
