------------------------------ MODULE FileLock ------------------------------
(***************************************************************************)
(* The cross-process lock of lib/file-lock.mjs, one file system call per   *)
(* step.  The lock and its breaker are directories: mkdir takes one, an    *)
(* owner.json written inside says who did, rm -r (unlink, then rmdir)      *)
(* gives it back.  A call that finds the lock taken takes the breaker,     *)
(* judges under it whether the lock's owner is dead, and if so removes the *)
(* lock and tries again.  A dead process's breaker is itself reaped, by a  *)
(* rename.  The synchronous and asynchronous versions take the same steps; *)
(* the asynchronous one lets one process make several calls at once.       *)
(***************************************************************************)
EXTENDS Naturals, FiniteSets

CONSTANTS Calls,      \* calls of withFileLock: each has its own nonce
          Procs,      \* process incarnations (pid + start ticks)
          Host,       \* Host[c]: the process that makes call c
          Windows,    \* the unlikely schedules the environment may produce
          NoCall

\* The timing windows, each a few file system calls wide.  Outside them the
\* environment keeps to the assumption named on the right.
\*   "slow"  a live process stays longer than staleMs (30 s) between mkdir and
\*           the owner write, or between unlink and rmdir
\*   "probe" a process gives the lock up and dies between another's read of its
\*           owner.json and the probe of its pid
\*   "reap"  two calls judge the same dead breaker at the same time
AllWindows == {"slow", "probe", "reap"}

ASSUME HostAssumption    == Host \in [Calls -> Procs]
ASSUME WindowsAssumption == Windows \subseteq AllWindows
ASSUME NoCallAssumption  == NoCall \notin Calls

VARIABLES pc,         \* pc[c]: the next file system call of c
          alive,      \* the processes still running
          lock,       \* the lock directory
          breaker,    \* the breaker directory
          seen        \* seen[c]: the owner c last read from an owner.json

vars == <<pc, alive, lock, breaker, seen>>

\* A directory: who made it (NoCall: it does not exist; the file system does
\* not record the maker, the properties do), the owner in its owner.json, and
\* whether its mtime is staleMs or more ago.
Absent == [maker |-> NoCall, owner |-> NoCall, old |-> FALSE]
Exists(dir) == dir.maker # NoCall
MadeBy(c) == [maker |-> c, owner |-> NoCall, old |-> FALSE]

Labels == {"idle", "mkLock", "writeOwner", "undoLock", "fn",
           "checkLock", "unlinkLock", "rmdirLock",
           "readBreaker", "probeBreaker", "renameBreaker", "mkBreaker",
           "writeBreaker", "undoBreaker", "readLock", "probeLock",
           "breakUnlink", "breakRmdir",
           "checkBreaker", "unlinkBreaker", "rmdirBreaker", "sleep",
           "finished", "failed", "lost"}

Ended == {"finished", "failed", "lost"}

\* The steps from the test of the breaker to its rename.
Reaping == {"probeBreaker", "renameBreaker"}

\* The steps taken by the owner of the breaker.
InBreaker == {"writeBreaker", "readLock", "probeLock", "breakUnlink",
              "breakRmdir", "checkBreaker", "unlinkBreaker", "rmdirBreaker"}

Init ==
    /\ pc = [c \in Calls |-> "idle"]
    /\ alive = Procs
    /\ lock = Absent
    /\ breaker = Absent
    /\ seen = [c \in Calls |-> NoCall]

Go(c, from, to) == pc[c] = from /\ pc' = [pc EXCEPT ![c] = to]

Dead(c) == Host[c] \notin alive

\* lockIsProvenStale: the owner read earlier is proven dead, or none was read
\* and the directory is old.  (Broken: a directory without an owner is stale at
\* once; only a dead owner's is.)
OwnerlessIsStale(owner, dir) == owner = NoCall \/ Dead(owner)
OwnerlessIsFresh(owner, dir) == owner # NoCall /\ Dead(owner)
ProvenStale(owner, dir) ==
    IF owner # NoCall THEN Dead(owner) ELSE Exists(dir) /\ dir.old

-----------------------------------------------------------------------------
(* Taking and leaving the lock                                             *)

Start(c) ==
    /\ Go(c, "idle", "mkLock")
    /\ UNCHANGED <<alive, lock, breaker, seen>>

MkLock(c) ==
    /\ IF Exists(lock)
       THEN Go(c, "mkLock", "readBreaker") /\ lock' = lock
       ELSE Go(c, "mkLock", "writeOwner")  /\ lock' = MadeBy(c)
    /\ UNCHANGED <<alive, breaker, seen>>

\* What owner.json says of its writer: its nonce and process.
OwnerRecord(c) == c

\* flag 'wx': the write fails when owner.json is there or the directory is not.
WriteOwner(c) ==
    /\ Exists(lock) /\ lock.owner = NoCall
    /\ Go(c, "writeOwner", "fn")
    /\ lock' = [lock EXCEPT !.owner = OwnerRecord(c), !.old = FALSE]
    /\ UNCHANGED <<alive, breaker, seen>>

\* The write fails for any reason, or the caller's signal was aborted.
WriteOwnerFails(c) ==
    /\ Go(c, "writeOwner", "undoLock")
    /\ UNCHANGED <<alive, lock, breaker, seen>>

UndoLock(c) ==
    /\ Go(c, "undoLock", "failed")
    /\ lock' = Absent
    /\ UNCHANGED <<alive, breaker, seen>>

\* fn returns or throws; finally runs releaseOwnedLock.
Leave(c) ==
    /\ Go(c, "fn", "checkLock")
    /\ UNCHANGED <<alive, lock, breaker, seen>>

CheckLock(c) ==
    /\ Go(c, "checkLock", IF lock.owner = c THEN "unlinkLock" ELSE "finished")
    /\ UNCHANGED <<alive, lock, breaker, seen>>

Unlinked(dir) == IF Exists(dir) THEN [dir EXCEPT !.owner = NoCall, !.old = FALSE] ELSE dir

UnlinkLock(c) ==
    /\ Go(c, "unlinkLock", "rmdirLock")
    /\ lock' = Unlinked(lock)
    /\ UNCHANGED <<alive, breaker, seen>>

RmdirLock(c) ==
    /\ Go(c, "rmdirLock", "finished")
    /\ lock' = Absent
    /\ UNCHANGED <<alive, breaker, seen>>

-----------------------------------------------------------------------------
(* breakStaleLock                                                          *)

ReadBreaker(c) ==
    /\ IF Exists(breaker)
       THEN /\ "reap" \in Windows \/ \A d \in Calls : pc[d] \notin Reaping
            /\ Go(c, "readBreaker", "probeBreaker")
            /\ seen' = [seen EXCEPT ![c] = breaker.owner]
       ELSE /\ Go(c, "readBreaker", "mkBreaker")
            /\ UNCHANGED seen
    /\ UNCHANGED <<alive, lock, breaker>>

ProbeBreaker(c) ==
    /\ Go(c, "probeBreaker",
          IF ProvenStale(seen[c], breaker) THEN "renameBreaker" ELSE "mkBreaker")
    /\ seen' = [seen EXCEPT ![c] = NoCall]
    /\ UNCHANGED <<alive, lock, breaker>>

\* The rename takes whatever is at the path; ENOENT is ignored.
RenameBreaker(c) ==
    /\ Go(c, "renameBreaker", "mkBreaker")
    /\ breaker' = Absent
    /\ UNCHANGED <<alive, lock, seen>>

MkBreaker(c) ==
    /\ IF Exists(breaker)
       THEN Go(c, "mkBreaker", "sleep")        /\ breaker' = breaker
       ELSE Go(c, "mkBreaker", "writeBreaker") /\ breaker' = MadeBy(c)
    /\ UNCHANGED <<alive, lock, seen>>

WriteBreaker(c) ==
    /\ Exists(breaker) /\ breaker.owner = NoCall
    /\ Go(c, "writeBreaker", "readLock")
    /\ breaker' = [breaker EXCEPT !.owner = OwnerRecord(c), !.old = FALSE]
    /\ UNCHANGED <<alive, lock, seen>>

WriteBreakerFails(c) ==
    /\ Go(c, "writeBreaker", "undoBreaker")
    /\ UNCHANGED <<alive, lock, breaker, seen>>

\* The error leaves withFileLock.
UndoBreaker(c) ==
    /\ Go(c, "undoBreaker", "failed")
    /\ breaker' = Absent
    /\ UNCHANGED <<alive, lock, seen>>

ReadLock(c) ==
    /\ Go(c, "readLock", IF Exists(lock) THEN "probeLock" ELSE "checkBreaker")
    /\ seen' = [seen EXCEPT ![c] = lock.owner]
    /\ UNCHANGED <<alive, lock, breaker>>

ProbeLock(c) ==
    /\ Go(c, "probeLock",
          IF ProvenStale(seen[c], lock) THEN "breakUnlink" ELSE "checkBreaker")
    /\ seen' = [seen EXCEPT ![c] = NoCall]
    /\ UNCHANGED <<alive, lock, breaker>>

BreakUnlink(c) ==
    /\ Go(c, "breakUnlink", "breakRmdir")
    /\ lock' = Unlinked(lock)
    /\ UNCHANGED <<alive, breaker, seen>>

BreakRmdir(c) ==
    /\ Go(c, "breakRmdir", "checkBreaker")
    /\ lock' = Absent
    /\ UNCHANGED <<alive, breaker, seen>>

CheckBreaker(c) ==
    /\ Go(c, "checkBreaker", IF breaker.owner = c THEN "unlinkBreaker" ELSE "sleep")
    /\ UNCHANGED <<alive, lock, breaker, seen>>

UnlinkBreaker(c) ==
    /\ Go(c, "unlinkBreaker", "rmdirBreaker")
    /\ breaker' = Unlinked(breaker)
    /\ UNCHANGED <<alive, lock, seen>>

RmdirBreaker(c) ==
    /\ Go(c, "rmdirBreaker", "sleep")
    /\ breaker' = Absent
    /\ UNCHANGED <<alive, lock, seen>>

\* The wait between two tries ends, before the deadline or at it.
Retry(c) ==
    /\ Go(c, "sleep", "mkLock")
    /\ UNCHANGED <<alive, lock, breaker, seen>>

TimeOut(c) ==
    /\ Go(c, "sleep", "failed")
    /\ UNCHANGED <<alive, lock, breaker, seen>>

-----------------------------------------------------------------------------
(* The environment                                                         *)

\* A process dies at any point of its calls.
Die(p) ==
    /\ p \in alive
    /\ \/ "probe" \in Windows
       \/ \A c \in Calls :
             (seen[c] # NoCall /\ Host[seen[c]] = p)
                => seen[c] = (IF pc[c] = "probeLock" THEN lock ELSE breaker).maker
    /\ alive' = alive \ {p}
    /\ pc' = [c \in Calls |->
                IF Host[c] = p /\ pc[c] \notin Ended THEN "lost" ELSE pc[c]]
    /\ seen' = [c \in Calls |-> IF Host[c] = p THEN NoCall ELSE seen[c]]
    /\ UNCHANGED <<lock, breaker>>

\* staleMs pass since a directory's last change.  Only an ownerless directory's
\* age is ever read.
MayAge(dir) ==
    /\ Exists(dir) /\ dir.owner = NoCall /\ ~dir.old
    /\ "slow" \in Windows \/ Dead(dir.maker)

AgeLock ==
    /\ MayAge(lock)
    /\ lock' = [lock EXCEPT !.old = TRUE]
    /\ UNCHANGED <<pc, alive, breaker, seen>>

AgeBreaker ==
    /\ MayAge(breaker)
    /\ breaker' = [breaker EXCEPT !.old = TRUE]
    /\ UNCHANGED <<pc, alive, lock, seen>>

-----------------------------------------------------------------------------
Acquire(c) == Start(c) \/ MkLock(c) \/ WriteOwner(c) \/ WriteOwnerFails(c) \/ UndoLock(c)

Release(c) == Leave(c) \/ CheckLock(c) \/ UnlinkLock(c) \/ RmdirLock(c)

Break(c) ==
    \/ ReadBreaker(c) \/ ProbeBreaker(c) \/ RenameBreaker(c) \/ MkBreaker(c)
    \/ WriteBreaker(c) \/ WriteBreakerFails(c) \/ UndoBreaker(c)
    \/ ReadLock(c) \/ ProbeLock(c) \/ BreakUnlink(c) \/ BreakRmdir(c)
    \/ CheckBreaker(c) \/ UnlinkBreaker(c) \/ RmdirBreaker(c)

Next ==
    \/ \E c \in Calls : Acquire(c) \/ Release(c) \/ Break(c) \/ Retry(c) \/ TimeOut(c)
    \/ \E p \in Procs : Die(p)
    \/ AgeLock \/ AgeBreaker

\* A live process keeps running its calls (fn returns), and time passes.  No
\* deadline has to expire and no process has to die.
Fairness ==
    /\ \A c \in Calls : WF_vars((Acquire(c) /\ ~Start(c)) \/ Release(c) \/ Break(c) \/ Retry(c))
    /\ WF_vars(AgeLock) /\ WF_vars(AgeBreaker)

Spec == Init /\ [][Next]_vars
FairSpec == Spec /\ Fairness

-----------------------------------------------------------------------------
(* Properties                                                              *)

Directories ==
    [maker : Calls \cup {NoCall}, owner : Calls \cup {NoCall}, old : BOOLEAN]

\* The type invariant.
TypeOK ==
    /\ pc \in [Calls -> Labels]
    /\ alive \subseteq Procs
    /\ lock \in Directories
    /\ breaker \in Directories
    /\ seen \in [Calls -> Calls \cup {NoCall}]

\* Of the calls that have entered breakStaleLock's critical section at most one
\* is still there: cleanup is serialized, also after a breaker's owner died.
BreakerExclusive ==
    \A c, d \in Calls : pc[c] \in InBreaker /\ pc[d] \in InBreaker => c = d

\* While fn runs, the lock directory on disk is the one its caller made, with
\* its owner.json: no clean-up ever removes or replaces a live holder's lock.
HolderOwnsPath ==
    \A c \in Calls : pc[c] = "fn" => lock.maker = c /\ lock.owner = c

\* Only a dead call's breaker is taken away by another call.
LiveBreakerNeverReaped ==
    [][breaker'.maker # breaker.maker /\ Exists(breaker) /\ ~Dead(breaker.maker)
          => pc[breaker.maker] \in {"rmdirBreaker", "undoBreaker"}]_vars

\* The promise of the comment at the rename, "reap that exact dead incarnation": what
\* it finds at the breaker's path is a dead call's breaker, or nothing.
ReapsTheDead ==
    [][\A c \in Calls : RenameBreaker(c) /\ Exists(breaker) => Dead(breaker.maker)]_vars

\* Whatever processes died, and wherever, a started call of a live process gets
\* an answer even if no deadline ever expires: no left-over lock or breaker
\* wedges the path.
NeverWedged ==
    \A c \in Calls : pc[c] = "mkLock" ~> pc[c] \in Ended

\* The caller's view of a call.
Phase(c) ==
    CASE pc[c] = "fn" -> "inside"
      [] pc[c] \in {"checkLock", "unlinkLock", "rmdirLock", "finished"} -> "finished"
      [] pc[c] \in {"undoLock", "undoBreaker", "failed"} -> "failed"
      [] pc[c] = "lost" -> "lost"
      [] OTHER -> "outside"

Abstract == INSTANCE Mutex WITH phase <- [c \in Calls |-> Phase(c)]

\* The protocol implements the abstract lock: callbacks run one at a time, and
\* each call runs its callback at most once.
ImplementsMutex == Abstract!Spec
=============================================================================
