--------------------------- MODULE FileLockProofs ---------------------------
(***************************************************************************)
(* The protocol of lib/file-lock.mjs implements Mutex, for any number of    *)
(* calls and processes, also when two calls judge the same dead breaker at  *)
(* once, as long as a rename takes only what the code's comment says it     *)
(* takes: a dead call's breaker.  It does when no two calls judge at once.  *)
(* The windows named "slow" and "probe" stay excluded.                      *)
(***************************************************************************)
EXTENDS FileLock, TLAPS

Making   == {"writeOwner", "undoLock"}
Holding  == {"fn", "checkLock", "unlinkLock"}
Owning   == Making \cup Holding \cup {"rmdirLock"}
Breaking == InBreaker \cup {"undoBreaker"}

\* A dead process makes no more calls.
Silent == \A c \in Calls : Dead(c) => pc[c] \in Ended

\* A directory's owner.json is its maker's, and only a dead maker's grows old.
Honest(dir) ==
    /\ dir.owner # NoCall => dir.owner = dir.maker
    /\ dir.old => Exists(dir) /\ Dead(dir.maker)

\* Who believes to have made a directory has made the one on disk.
Owns ==
    \A c \in Calls :
        /\ pc[c] \in Owning => lock.maker = c
        /\ pc[c] \in Holding => lock.owner = c
        /\ pc[c] \in Breaking => breaker.maker = c

\* An owner that was read and has died since is the maker of what is on disk.
Sighted ==
    \A c \in Calls :
        /\ pc[c] = "probeLock" /\ seen[c] # NoCall /\ Dead(seen[c]) => lock.maker = seen[c]
        /\ pc[c] \notin {"probeLock", "probeBreaker"} => seen[c] = NoCall

\* The lock that is about to be removed was a dead call's.
Justified ==
    \A c \in Calls : pc[c] \in {"breakUnlink", "breakRmdir"} => Exists(lock) /\ Dead(lock.maker)

LockInv ==
    TypeOK /\ Silent /\ Honest(lock) /\ Honest(breaker) /\ Owns /\ Sighted /\ Justified

\* A rename takes a dead call's breaker.
DeadRenamed == \A c \in Calls : RenameBreaker(c) /\ Exists(breaker) => Dead(breaker.maker)

\* One call at a time judges a breaker, and what it is about to rename is a dead
\* call's.
OneJudge ==
    \A c \in Calls :
        /\ pc[c] = "probeBreaker" /\ seen[c] # NoCall /\ Dead(seen[c]) => breaker.maker = seen[c]
        /\ pc[c] = "renameBreaker" => Exists(breaker) /\ Dead(breaker.maker)
        /\ pc[c] \in Reaping => \A d \in Calls : pc[d] \in Reaping => d = c

-----------------------------------------------------------------------------
LEMMA InitInv == Init => LockInv
BY HostAssumption, NoCallAssumption
DEF Init, LockInv, TypeOK, Directories, Labels, Absent, Silent, Dead, Honest, Owns, Sighted, Justified,
    Owning, Making, Holding, Breaking, InBreaker, Reaping


\* Taking the lock: a directory is made only where there is none.
LEMMA AcquireStep ==
  ASSUME LockInv, Windows \subseteq {"reap"}, NEW c \in Calls, Acquire(c)
  PROVE  LockInv'
<1> USE HostAssumption, NoCallAssumption
    DEF LockInv, TypeOK, Directories, Labels, Absent, MadeBy, Unlinked, Exists, Silent, Dead, Ended,
        Honest, Owns, Sighted, Justified, Owning, Making, Holding, Breaking, InBreaker, Reaping,
        ProvenStale, OwnerRecord, Go
<1>1. CASE Start(c)
  BY <1>1 DEF Start
<1>2. CASE MkLock(c)
  <2>1. TypeOK'
    <3>1. CASE Exists(lock)
      BY <1>2, <3>1 DEF MkLock
    <3>2. CASE ~Exists(lock)
      <4>1. pc' \in [Calls -> Labels]
        BY <1>2, <3>2 DEF MkLock
      <4>2. lock' = MadeBy(c)
        BY <1>2, <3>2 DEF MkLock
      <4>3. MadeBy(c) \in Directories
        BY DEF MadeBy, Directories
      <4>4. QED
        BY <1>2, <4>1, <4>2, <4>3 DEF MkLock
    <3>3. QED
      BY <3>1, <3>2
  <2>2. Silent'
    BY <1>2 DEF MkLock
  <2>3. Honest(lock)'
    BY <1>2 DEF MkLock
  <2>4. Honest(breaker)'
    BY <1>2 DEF MkLock
  <2>5. Owns'
    BY <1>2 DEF MkLock
  <2>6. Sighted'
    BY <1>2 DEF MkLock
  <2>7. Justified'
    BY <1>2 DEF MkLock
  <2>8. QED
    BY <2>1, <2>2, <2>3, <2>4, <2>5, <2>6, <2>7
<1>3. CASE WriteOwner(c)
  <2>1. TypeOK'
    BY <1>3 DEF WriteOwner
  <2>2. Silent'
    BY <1>3 DEF WriteOwner
  <2>3. Honest(lock)'
    BY <1>3 DEF WriteOwner
  <2>4. Honest(breaker)'
    BY <1>3 DEF WriteOwner
  <2>5. Owns'
    BY <1>3 DEF WriteOwner
  <2>6. Sighted'
    BY <1>3 DEF WriteOwner
  <2>7. Justified'
    BY <1>3 DEF WriteOwner
  <2>8. QED
    BY <2>1, <2>2, <2>3, <2>4, <2>5, <2>6, <2>7
<1>4. CASE WriteOwnerFails(c)
  BY <1>4 DEF WriteOwnerFails
<1>5. CASE UndoLock(c)
  BY <1>5 DEF UndoLock
<1>6. QED
  BY <1>1, <1>2, <1>3, <1>4, <1>5 DEF Acquire

\* Giving it back: what is removed is the caller's own.
LEMMA ReleaseStep ==
  ASSUME LockInv, Windows \subseteq {"reap"}, NEW c \in Calls, Release(c)
  PROVE  LockInv'
<1> USE HostAssumption, NoCallAssumption
    DEF LockInv, TypeOK, Directories, Labels, Absent, MadeBy, Unlinked, Exists, Silent, Dead, Ended,
        Honest, Owns, Sighted, Justified, Owning, Making, Holding, Breaking, InBreaker, Reaping,
        ProvenStale, OwnerRecord, Go
<1>1. CASE Leave(c)
  BY <1>1 DEF Leave
<1>2. CASE CheckLock(c)
  BY <1>2 DEF CheckLock
<1>3. CASE UnlinkLock(c)
  <2>1. TypeOK'
    BY <1>3 DEF UnlinkLock
  <2>2. Silent'
    BY <1>3 DEF UnlinkLock
  <2>3. Honest(lock)'
    BY <1>3 DEF UnlinkLock
  <2>4. Honest(breaker)'
    BY <1>3 DEF UnlinkLock
  <2>5. Owns'
    BY <1>3 DEF UnlinkLock
  <2>6. Sighted'
    BY <1>3 DEF UnlinkLock
  <2>7. Justified'
    BY <1>3 DEF UnlinkLock
  <2>8. QED
    BY <2>1, <2>2, <2>3, <2>4, <2>5, <2>6, <2>7
<1>4. CASE RmdirLock(c)
  BY <1>4 DEF RmdirLock
<1>5. QED
  BY <1>1, <1>2, <1>3, <1>4 DEF Release

\* Breaking: what is removed is a dead call's, or the breaker's own.
LEMMA BreakStep ==
  ASSUME LockInv, Windows \subseteq {"reap"}, DeadRenamed, NEW c \in Calls, Break(c)
  PROVE  LockInv'
<1> USE HostAssumption, NoCallAssumption
    DEF LockInv, TypeOK, Directories, Labels, Absent, MadeBy, Unlinked, Exists, Silent, Dead, Ended,
        Honest, Owns, Sighted, Justified, Owning, Making, Holding, Breaking, InBreaker, Reaping,
        ProvenStale, OwnerRecord, Go
<1>1. CASE ReadBreaker(c)
  BY <1>1 DEF ReadBreaker
<1>2. CASE ProbeBreaker(c)
  BY <1>2 DEF ProbeBreaker
<1>3. CASE RenameBreaker(c)
  BY <1>3 DEF RenameBreaker, DeadRenamed
<1>4. CASE MkBreaker(c)
  <2>1. TypeOK'
    <3>1. CASE Exists(breaker)
      BY <1>4, <3>1 DEF MkBreaker
    <3>2. CASE ~Exists(breaker)
      <4>1. pc' \in [Calls -> Labels]
        BY <1>4, <3>2 DEF MkBreaker
      <4>2. breaker' = MadeBy(c)
        BY <1>4, <3>2 DEF MkBreaker
      <4>3. MadeBy(c) \in Directories
        BY DEF MadeBy, Directories
      <4>4. QED
        BY <1>4, <4>1, <4>2, <4>3 DEF MkBreaker
    <3>3. QED
      BY <3>1, <3>2
  <2>2. Silent'
    BY <1>4 DEF MkBreaker
  <2>3. Honest(lock)'
    BY <1>4 DEF MkBreaker
  <2>4. Honest(breaker)'
    BY <1>4 DEF MkBreaker
  <2>5. Owns'
    BY <1>4 DEF MkBreaker
  <2>6. Sighted'
    BY <1>4 DEF MkBreaker
  <2>7. Justified'
    BY <1>4 DEF MkBreaker
  <2>8. QED
    BY <2>1, <2>2, <2>3, <2>4, <2>5, <2>6, <2>7
<1>5. CASE WriteBreaker(c)
  <2>1. TypeOK'
    BY <1>5 DEF WriteBreaker
  <2>2. Silent'
    BY <1>5 DEF WriteBreaker
  <2>3. Honest(lock)'
    BY <1>5 DEF WriteBreaker
  <2>4. Honest(breaker)'
    BY <1>5 DEF WriteBreaker
  <2>5. Owns'
    BY <1>5 DEF WriteBreaker
  <2>6. Sighted'
    BY <1>5 DEF WriteBreaker
  <2>7. Justified'
    BY <1>5 DEF WriteBreaker
  <2>8. QED
    BY <2>1, <2>2, <2>3, <2>4, <2>5, <2>6, <2>7
<1>6. CASE WriteBreakerFails(c)
  BY <1>6 DEF WriteBreakerFails
<1>7. CASE UndoBreaker(c)
  BY <1>7 DEF UndoBreaker
<1>8. CASE ReadLock(c)
  BY <1>8 DEF ReadLock
<1>9. CASE ProbeLock(c)
  BY <1>9 DEF ProbeLock
<1>10. CASE BreakUnlink(c)
  <2>1. TypeOK'
    BY <1>10 DEF BreakUnlink
  <2>2. Silent'
    BY <1>10 DEF BreakUnlink
  <2>3. Honest(lock)'
    BY <1>10 DEF BreakUnlink
  <2>4. Honest(breaker)'
    BY <1>10 DEF BreakUnlink
  <2>5. Owns'
    BY <1>10 DEF BreakUnlink
  <2>6. Sighted'
    BY <1>10 DEF BreakUnlink
  <2>7. Justified'
    BY <1>10 DEF BreakUnlink
  <2>8. QED
    BY <2>1, <2>2, <2>3, <2>4, <2>5, <2>6, <2>7
<1>11. CASE BreakRmdir(c)
  BY <1>11 DEF BreakRmdir
<1>12. CASE CheckBreaker(c)
  BY <1>12 DEF CheckBreaker
<1>13. CASE UnlinkBreaker(c)
  <2>1. TypeOK'
    BY <1>13 DEF UnlinkBreaker
  <2>2. Silent'
    BY <1>13 DEF UnlinkBreaker
  <2>3. Honest(lock)'
    BY <1>13 DEF UnlinkBreaker
  <2>4. Honest(breaker)'
    BY <1>13 DEF UnlinkBreaker
  <2>5. Owns'
    BY <1>13 DEF UnlinkBreaker
  <2>6. Sighted'
    BY <1>13 DEF UnlinkBreaker
  <2>7. Justified'
    BY <1>13 DEF UnlinkBreaker
  <2>8. QED
    BY <2>1, <2>2, <2>3, <2>4, <2>5, <2>6, <2>7
<1>14. CASE RmdirBreaker(c)
  BY <1>14 DEF RmdirBreaker
<1>15. QED
  BY <1>1, <1>2, <1>3, <1>4, <1>5, <1>6, <1>7, <1>8, <1>9, <1>10, <1>11, <1>12, <1>13, <1>14 DEF Break

\* Waiting changes no directory.
LEMMA WaitStep ==
  ASSUME LockInv, NEW c \in Calls, Retry(c) \/ TimeOut(c)
  PROVE  LockInv'
<1> USE HostAssumption, NoCallAssumption
    DEF LockInv, TypeOK, Labels, Silent, Dead, Ended, Honest, Exists, Owns, Sighted, Justified, Owning,
        Making, Holding, Breaking, InBreaker, Reaping, Go
<1>1. CASE Retry(c)
  BY <1>1 DEF Retry
<1>2. CASE TimeOut(c)
  BY <1>2 DEF TimeOut
<1>3. QED
  BY <1>1, <1>2

\* A death leaves the directories, and what was read of their owners, as they are.
LEMMA DieStep ==
  ASSUME LockInv, Windows \subseteq {"reap"}, NEW p \in Procs, Die(p)
  PROVE  LockInv'
<1> USE HostAssumption, NoCallAssumption
    DEF LockInv, TypeOK, Directories, Labels, Silent, Dead, Ended, Honest, Exists, Owns, Sighted, Justified,
        Owning, Making, Holding, Breaking, InBreaker, Reaping, Die
<1>1. TypeOK'
  OBVIOUS
<1>2. Silent' /\ Honest(lock)' /\ Honest(breaker)' /\ Owns'
  OBVIOUS
<1>3. Sighted'
  OBVIOUS
<1>4. Justified'
  OBVIOUS
<1>5. QED
  BY <1>1, <1>2, <1>3, <1>4

\* Only what a dead call has left behind grows old.
LEMMA AgeStep ==
  ASSUME LockInv, Windows \subseteq {"reap"}, AgeLock \/ AgeBreaker
  PROVE  LockInv'
<1> USE NoCallAssumption
    DEF LockInv, TypeOK, Directories, Silent, Dead, Honest, Exists, Owns, Sighted, Justified, MayAge
<1>1. CASE AgeLock
  BY <1>1 DEF AgeLock
<1>2. CASE AgeBreaker
  BY <1>2 DEF AgeBreaker
<1>3. QED
  BY <1>1, <1>2

LEMMA StepInv ==
  ASSUME LockInv, Windows \subseteq {"reap"}, [Next]_vars, [DeadRenamed]_vars
  PROVE  LockInv'
<1>1. CASE UNCHANGED vars
  BY <1>1 DEF vars, LockInv, TypeOK, Silent, Dead, Honest, Exists, Owns, Sighted, Justified
<1>2. CASE Next /\ DeadRenamed
  BY <1>2, AcquireStep, ReleaseStep, BreakStep, WaitStep, DieStep, AgeStep DEF Next
<1>3. QED
  BY <1>1, <1>2

\* The inductive invariant: every directory on disk is the one its caller believes
\* to hold, or a dead call's.
THEOREM Invariance ==
  ASSUME Windows \subseteq {"reap"}
  PROVE  Spec /\ ReapsTheDead => []LockInv
<1>1. LockInv /\ [Next]_vars /\ [DeadRenamed]_vars => LockInv'
  BY StepInv
<1>2. ReapsTheDead => [][DeadRenamed]_vars
  BY Zenon DEF ReapsTheDead, DeadRenamed
<1>3. QED
  BY InitInv, <1>1, <1>2, PTL DEF Spec

\* The type invariant, whatever the environment does.
THEOREM TypeCorrect == Spec => []TypeOK
<1> USE DEF TypeOK, Directories, Absent, MadeBy, Unlinked, Labels, Go
<1>1. Init => TypeOK
  BY DEF Init
<1>2. TypeOK /\ [Next]_vars => TypeOK'
  <2>1. ASSUME TypeOK, NEW c \in Calls, Acquire(c) \/ Release(c) \/ Retry(c) \/ TimeOut(c) PROVE TypeOK'
    <3>1. CASE MkLock(c)
      <4>1. lock' \in {lock, MadeBy(c)} /\ MadeBy(c) \in Directories
        BY <2>1, <3>1 DEF MkLock
      <4>2. UNCHANGED <<alive, breaker, seen>> /\ pc' \in [Calls -> Labels]
        BY <2>1, <3>1 DEF MkLock
      <4>3. QED
        BY <2>1, <4>1, <4>2
    <3>2. CASE WriteOwner(c)
      BY <2>1, <3>2 DEF WriteOwner, OwnerRecord
    <3>3. CASE Start(c) \/ WriteOwnerFails(c) \/ UndoLock(c) \/ Leave(c) \/ CheckLock(c) \/ RmdirLock(c)
               \/ Retry(c) \/ TimeOut(c)
      <4>1. \E l \in Labels : pc' = [pc EXCEPT ![c] = l]
        BY <3>3 DEF Start, WriteOwnerFails, UndoLock, Leave, CheckLock, RmdirLock, Retry, TimeOut
      <4>2. UNCHANGED <<alive, breaker, seen>> /\ lock' \in {lock, Absent}
        BY <3>3 DEF Start, WriteOwnerFails, UndoLock, Leave, CheckLock, RmdirLock, Retry, TimeOut
      <4>3. pc' \in [Calls -> Labels] /\ Absent \in Directories
        BY <2>1, <4>1
      <4>4. QED
        BY <2>1, <4>2, <4>3
    <3>4. CASE UnlinkLock(c)
      BY <2>1, <3>4 DEF UnlinkLock
    <3>5. QED
      BY <2>1, <3>1, <3>2, <3>3, <3>4 DEF Acquire, Release
  <2>2. ASSUME TypeOK, NEW c \in Calls, Break(c) PROVE TypeOK'
    <3>1. CASE MkBreaker(c)
      <4>1. breaker' \in {breaker, MadeBy(c)} /\ MadeBy(c) \in Directories
        BY <2>2, <3>1 DEF MkBreaker
      <4>2. UNCHANGED <<alive, lock, seen>> /\ pc' \in [Calls -> Labels]
        BY <2>2, <3>1 DEF MkBreaker
      <4>3. QED
        BY <2>2, <4>1, <4>2
    <3>2. CASE WriteBreaker(c)
      BY <2>2, <3>2 DEF WriteBreaker, OwnerRecord
    <3>3. CASE ReadBreaker(c) \/ ProbeBreaker(c) \/ ReadLock(c) \/ ProbeLock(c)
      BY <2>2, <3>3 DEF ReadBreaker, ProbeBreaker, ReadLock, ProbeLock
    <3>4. CASE RenameBreaker(c) \/ WriteBreakerFails(c) \/ UndoBreaker(c) \/ CheckBreaker(c) \/ RmdirBreaker(c)
      <4>1. \E l \in Labels : pc' = [pc EXCEPT ![c] = l]
        BY <3>4 DEF RenameBreaker, WriteBreakerFails, UndoBreaker, CheckBreaker, RmdirBreaker
      <4>2. UNCHANGED <<alive, lock, seen>> /\ breaker' \in {breaker, Absent}
        BY <3>4 DEF RenameBreaker, WriteBreakerFails, UndoBreaker, CheckBreaker, RmdirBreaker
      <4>3. pc' \in [Calls -> Labels] /\ Absent \in Directories
        BY <2>2, <4>1
      <4>4. QED
        BY <2>2, <4>2, <4>3
    <3>5. CASE BreakUnlink(c)
      BY <2>2, <3>5 DEF BreakUnlink
    <3>6. CASE UnlinkBreaker(c)
      BY <2>2, <3>6 DEF UnlinkBreaker
    <3>7. CASE BreakRmdir(c)
      BY <2>2, <3>7 DEF BreakRmdir
    <3>8. QED
      BY <2>2, <3>1, <3>2, <3>3, <3>4, <3>5, <3>6, <3>7 DEF Break
  <2>3. ASSUME TypeOK, (\E p \in Procs : Die(p)) \/ AgeLock \/ AgeBreaker \/ UNCHANGED vars PROVE TypeOK'
    BY <2>3 DEF Die, AgeLock, AgeBreaker, vars
  <2>4. QED
    BY <2>1, <2>2, <2>3 DEF Next
<1>3. QED
  BY <1>1, <1>2, PTL DEF Spec

\* While a callback runs, the lock on disk is its caller's: no clean-up removes or
\* replaces it, whoever died before.
THEOREM HolderOwns ==
  ASSUME Windows \subseteq {"reap"}
  PROVE  Spec /\ ReapsTheDead => []HolderOwnsPath
<1>1. LockInv => HolderOwnsPath
  BY DEF LockInv, Owns, Owning, Holding, HolderOwnsPath
<1>2. QED
  BY Invariance, <1>1, PTL

\* Clean-up is serialized, also after a breaker's owner died and when several calls
\* judge its breaker at once: only a rename that takes a live breaker, against the
\* comment at it, lets two calls behind the breaker.
THEOREM BreakersExclude ==
  ASSUME Windows \subseteq {"reap"}
  PROVE  Spec /\ ReapsTheDead => []BreakerExclusive
<1>1. LockInv => BreakerExclusive
  BY DEF LockInv, Owns, Breaking, BreakerExclusive
<1>2. QED
  BY Invariance, <1>1, PTL

-----------------------------------------------------------------------------
(* One judge at a time                                                     *)

\* While one call judges a breaker no other call removes or replaces it.
LEMMA JudgeStep ==
  ASSUME LockInv, OneJudge, Windows = {}, NEW c \in Calls,
         Acquire(c) \/ Release(c) \/ Break(c) \/ Retry(c) \/ TimeOut(c)
  PROVE  OneJudge'
<1> USE HostAssumption, NoCallAssumption
    DEF LockInv, TypeOK, Directories, Labels, Absent, MadeBy, Unlinked, Exists, Silent, Dead, Ended,
        Honest, Owns, Sighted, OneJudge, Breaking, InBreaker, Reaping, ProvenStale, OwnerRecord, Go
<1>1. CASE Acquire(c)
  BY <1>1 DEF Acquire, Start, MkLock, WriteOwner, WriteOwnerFails, UndoLock
<1>2. CASE Release(c)
  BY <1>2 DEF Release, Leave, CheckLock, UnlinkLock, RmdirLock
<1>3. CASE Retry(c) \/ TimeOut(c)
  BY <1>3 DEF Retry, TimeOut
<1>4. CASE ReadBreaker(c)
  BY <1>4 DEF ReadBreaker
<1>5. CASE ProbeBreaker(c)
  BY <1>5 DEF ProbeBreaker
<1>6. CASE RenameBreaker(c)
  BY <1>6 DEF RenameBreaker
<1>7. CASE MkBreaker(c)
  BY <1>7 DEF MkBreaker
<1>8. CASE WriteBreaker(c)
  BY <1>8 DEF WriteBreaker
<1>9. CASE WriteBreakerFails(c) \/ CheckBreaker(c)
  BY <1>9 DEF WriteBreakerFails, CheckBreaker
<1>10. CASE UndoBreaker(c)
  BY <1>10 DEF UndoBreaker
<1>11. CASE ReadLock(c) \/ ProbeLock(c) \/ BreakUnlink(c) \/ BreakRmdir(c)
  BY <1>11 DEF ReadLock, ProbeLock, BreakUnlink, BreakRmdir
<1>12. CASE UnlinkBreaker(c)
  BY <1>12 DEF UnlinkBreaker
<1>13. CASE RmdirBreaker(c)
  BY <1>13 DEF RmdirBreaker
<1>14. QED
  BY <1>1, <1>2, <1>3, <1>4, <1>5, <1>6, <1>7, <1>8, <1>9, <1>10, <1>11, <1>12, <1>13 DEF Break

\* Deaths and time touch no breaker's maker.
LEMMA JudgeElsewhere ==
  ASSUME LockInv, OneJudge, Windows = {},
         (\E p \in Procs : Die(p)) \/ AgeLock \/ AgeBreaker \/ UNCHANGED vars
  PROVE  OneJudge'
<1> USE HostAssumption, NoCallAssumption
    DEF LockInv, TypeOK, Directories, Silent, Dead, Ended, Exists, Sighted, OneJudge, Reaping
<1>1. CASE \E p \in Procs : Die(p)
  BY <1>1 DEF Die
<1>2. CASE AgeLock \/ AgeBreaker
  BY <1>2 DEF AgeLock, AgeBreaker, MayAge
<1>3. CASE UNCHANGED vars
  BY <1>3 DEF vars
<1>4. QED
  BY <1>1, <1>2, <1>3

\* When no two calls judge the same dead breaker at the same time, a rename takes a
\* dead call's breaker, as the comment at it says.
THEOREM RenamesTheDead ==
  ASSUME Windows = {}
  PROVE  Spec => ReapsTheDead
<1>1. LockInv /\ OneJudge => DeadRenamed
  BY DEF OneJudge, DeadRenamed, RenameBreaker, Go
<1>2. LockInv /\ OneJudge /\ [Next]_vars => LockInv' /\ OneJudge'
  <2>1. ASSUME LockInv, OneJudge, [Next]_vars PROVE LockInv' /\ OneJudge'
    BY <1>1, <2>1, StepInv, JudgeStep, JudgeElsewhere DEF Next
  <2>2. QED
    BY <2>1
<1>3. Init => LockInv /\ OneJudge
  BY InitInv DEF Init, OneJudge, Reaping
<1>4. LockInv /\ OneJudge /\ [Next]_vars => [DeadRenamed]_vars
  BY <1>1
<1>5. Spec => [][DeadRenamed]_vars
  BY <1>2, <1>3, <1>4, PTL DEF Spec
<1>6. QED
  BY <1>5, Zenon DEF ReapsTheDead, DeadRenamed

-----------------------------------------------------------------------------
\* Two callbacks never run at the same time.
THEOREM CallbacksExclude ==
  ASSUME Windows \subseteq {"reap"}
  PROVE  Spec /\ ReapsTheDead => []Abstract!MutualExclusion
<1>1. LockInv => Abstract!MutualExclusion
  BY NoCallAssumption
  DEF LockInv, Owns, Owning, Holding, Abstract!MutualExclusion, Abstract!Inside, Phase
<1>2. QED
  BY Invariance, <1>1, PTL

-----------------------------------------------------------------------------
(* The refinement.                                                         *)

Phased == [c \in Calls |-> Phase(c)]

\* A step that leaves the phases alone is a stutter, and every other one is the
\* abstract step of its caller.
LEMMA Refines ==
  ASSUME LockInv, [Next]_vars
  PROVE  Abstract!Next \/ UNCHANGED Phased
<1> USE DEF LockInv, TypeOK, Phased, Phase, Go
<1>1. CASE UNCHANGED vars
  BY <1>1 DEF vars
<1>2. ASSUME NEW c \in Calls, Acquire(c)
      PROVE  Abstract!Next \/ UNCHANGED Phased
  <2>1. CASE WriteOwner(c)
    <3>1. Abstract!Enter(c)
      BY <2>1 DEF WriteOwner, Abstract!Enter, Owns, Owning, Making, Holding
    <3>2. QED
      BY <3>1 DEF Abstract!Next
  <2>2. CASE WriteOwnerFails(c)
    <3>1. Abstract!Fail(c)
      BY <2>2 DEF WriteOwnerFails, Abstract!Fail
    <3>2. QED
      BY <3>1 DEF Abstract!Next
  <2>3. QED
    BY <1>2, <2>1, <2>2 DEF Acquire, Start, MkLock, UndoLock
<1>3. ASSUME NEW c \in Calls, Release(c)
      PROVE  Abstract!Next \/ UNCHANGED Phased
  <2>1. CASE Leave(c)
    <3>1. Abstract!Finish(c)
      BY <2>1 DEF Leave, Abstract!Finish
    <3>2. QED
      BY <3>1 DEF Abstract!Next
  <2>2. QED
    BY <1>3, <2>1 DEF Release, CheckLock, UnlinkLock, RmdirLock
<1>4. ASSUME NEW c \in Calls, Break(c)
      PROVE  Abstract!Next \/ UNCHANGED Phased
  <2>1. CASE WriteBreakerFails(c)
    <3>1. Abstract!Fail(c)
      BY <2>1 DEF WriteBreakerFails, Abstract!Fail
    <3>2. QED
      BY <3>1 DEF Abstract!Next
  <2>2. QED
    BY <1>4, <2>1 DEF Break, ReadBreaker, ProbeBreaker, RenameBreaker, MkBreaker, WriteBreaker, UndoBreaker,
       ReadLock, ProbeLock, BreakUnlink, BreakRmdir, CheckBreaker, UnlinkBreaker, RmdirBreaker
<1>5. ASSUME NEW c \in Calls, Retry(c) \/ TimeOut(c)
      PROVE  Abstract!Next \/ UNCHANGED Phased
  <2>1. CASE TimeOut(c)
    <3>1. Abstract!Fail(c)
      BY <2>1 DEF TimeOut, Abstract!Fail
    <3>2. QED
      BY <3>1 DEF Abstract!Next
  <2>2. QED
    BY <1>5, <2>1 DEF Retry
<1>6. ASSUME NEW p \in Procs, Die(p)
      PROVE  Abstract!Next \/ UNCHANGED Phased
  <2> DEFINE S == {c \in Calls : Host[c] = p /\ pc[c] \notin Ended}
  <2>1. S \in SUBSET Calls
    OBVIOUS
  <2>2. Phased' = [c \in Calls |-> IF c \in S THEN "lost" ELSE Phased[c]]
    BY <1>6 DEF Die, Ended
  <2> HIDE DEF S
  <2>3. \E T \in SUBSET Calls : Phased' = [c \in Calls |-> IF c \in T THEN "lost" ELSE Phased[c]]
    BY <2>1, <2>2, Zenon
  <2>4. QED
    BY <2>3 DEF Abstract!Next, Abstract!Lose
<1>7. CASE AgeLock \/ AgeBreaker
  BY <1>7 DEF AgeLock, AgeBreaker
<1>8. QED
  BY <1>1, <1>2, <1>3, <1>4, <1>5, <1>6, <1>7 DEF Next

\* The protocol implements the abstract lock: whatever processes die, callbacks
\* run one at a time and each call runs its callback at most once.
THEOREM Refinement ==
  ASSUME Windows \subseteq {"reap"}
  PROVE  Spec /\ ReapsTheDead => ImplementsMutex
<1>1. Init => Abstract!Init
  BY DEF Init, Abstract!Init, Phase
<1>2. LockInv /\ [Next]_vars => [Abstract!Next]_Phased
  BY Refines
<1>3. QED
  BY <1>1, <1>2, Invariance, PTL DEF Spec, ImplementsMutex, Abstract!Spec, Phased

\* Without any further hypothesis, when no two calls judge the same breaker at once.
COROLLARY RefinementApart ==
  ASSUME Windows = {}
  PROVE  Spec => ImplementsMutex
<1>1. Windows \subseteq {"reap"}
  OBVIOUS
<1>2. QED
  BY <1>1, RenamesTheDead, Refinement
=============================================================================
