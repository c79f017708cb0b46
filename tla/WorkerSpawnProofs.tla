------------------------- MODULE WorkerSpawnProofs -------------------------
(***************************************************************************)
(* Admission of workers: no job is launched twice, no Retry is answered     *)
(* with another job's worker, and the quota holds, for any number of calls  *)
(* and asks and any quota.                                                  *)
(***************************************************************************)
EXTENDS WorkerSpawn, SequenceTheorems, FiniteSetTheorems, TLAPS

\* A job of the record is about what a asks for.
Is(j, a) == j.key = a.key /\ j.ordinal = a.ordinal /\ j.print = a.print

Inside == {"admit", "quota", "tombstone", "spawn", "started", "notStarted", "uncertain"}

Statuses == {"dispatching", "started", "uncertain"}
JobSet == [key : {a.key : a \in Asks}, ordinal : {a.ordinal : a \in Asks},
           print : {a.print : a \in Asks}, status : Statuses, task : Calls \cup {NoCall}]

Typed ==
    /\ pc \in [Calls -> Labels]
    /\ ask \in [Calls -> Asks \cup {Direct}]
    /\ holder \in Calls \cup {NoCall}
    /\ jobs \in Seq(JobSet)
    /\ old \in BOOLEAN
    /\ live \subseteq Calls /\ launched \subseteq Calls
    /\ told \in [Calls -> Calls \cup {NoCall}]

\* Every job was asked for, and the record names the worker of a started one: its
\* call was answered.
Sound ==
    \A i \in 1..Len(jobs) :
        /\ \E a \in Asks : Is(jobs[i], a)
        /\ jobs[i].status # "started" => jobs[i].task = NoCall
        /\ jobs[i].status = "started" =>
              /\ jobs[i].task \in Calls /\ pc[jobs[i].task] = "answered"
              /\ ask[jobs[i].task] # Direct /\ Is(jobs[i], ask[jobs[i].task])

\* One call is between its sweep and its last write.
Alone == \A c \in Calls : pc[c] \in Inside => holder = c

\* Only a call that can be identified touches the record; its job is the last one.
Own ==
    \A c \in Calls :
        /\ pc[c] \in {"admit", "tombstone", "started", "notStarted", "uncertain"} => ask[c] # Direct
        /\ pc[c] \in {"spawn", "started", "notStarted", "uncertain"} /\ ask[c] # Direct =>
              Len(jobs) > 0 /\ Is(jobs[Len(jobs)], ask[c])

\* What was launched is in the record.
Kept ==
    /\ \A c \in Calls :
          pc[c] \in {"idle", "admit", "quota", "tombstone", "spawn", "notStarted"} => c \notin launched
    /\ \A d \in launched : ask[d] # Direct => \E i \in 1..Len(jobs) : Is(jobs[i], ask[d])

\* A call that was admitted is the only one of its job.
Admitted ==
    \A c \in Calls :
        pc[c] \in Inside \ {"admit"} => \A d \in launched : SameJob(ask[c], ask[d]) => d = c

\* Between the check and the launch there is room.
Room ==
    /\ IsFiniteSet(live) /\ QuotaKept
    /\ \A c \in Calls : pc[c] \in {"tombstone", "spawn"} => Cardinality(live) < MaxWorkers

SpawnInv == Typed /\ Sound /\ Alone /\ Own /\ Kept /\ Admitted /\ LaunchedOnce /\ RightWorker /\ Room

-----------------------------------------------------------------------------
LEMMA InitInv == Init => SpawnInv
<1> SUFFICES ASSUME Init PROVE SpawnInv
  OBVIOUS
<1>1. Typed
  BY EmptySeq DEF Init, Typed, Labels
<1>2. Room
  BY QuotaAssumption, FS_EmptySet DEF Init, Room, QuotaKept
<1>3. Len(jobs) = 0
  BY EmptySeq DEF Init
<1>4. QED
  BY <1>1, <1>2, <1>3 DEF Init, SpawnInv, Sound, Alone, Own, Kept, Admitted, Inside, LaunchedOnce, RightWorker

\* A job that an ask may be is of the same job,
LEMMA FoundIsSame ==
  ASSUME NEW a, NEW b, a # Direct, b # Direct, NEW i \in Existing(a), Is(jobs[i], b)
  PROVE  SameJob(a, b)
<1>1. CASE a.key # NoKey
  BY <1>1 DEF Existing, First, SameKey, OldOrdinal, OldPrint, SameOrdinal, SamePrint, SameJob, Is
<1>2. CASE a.key = NoKey
  BY <1>2 DEF Existing, First, SameOrdinal, SamePrint, SameJob, Is
<1>3. QED
  BY <1>1, <1>2

\* and every one of the same job is found.
LEMMA SameIsFound ==
  ASSUME NEW a, NEW b, SameJob(a, b), NEW i \in Indices, Is(jobs[i], b)
  PROVE  Existing(a) # {}
<1>1. CASE a.key # NoKey
  <2>1. i \in SameKey(a) \/ i \in OldOrdinal(a) \/ i \in OldPrint(a)
    BY <1>1 DEF SameKey, OldOrdinal, OldPrint, SameOrdinal, SamePrint, SameJob, Is
  <2>2. QED
    BY <1>1, <2>1 DEF Existing, First
<1>2. CASE a.key = NoKey
  <2>1. i \in SameOrdinal(a) \/ i \in SamePrint(a)
    BY <1>2 DEF SameOrdinal, SamePrint, SameJob, Is
  <2>2. QED
    BY <1>2, <2>1 DEF Existing, First
<1>3. QED
  BY <1>1, <1>2

LEMMA IndicesAreNumbers == Typed => Len(jobs) \in Nat
BY LenProperties DEF Typed

\* A stamp changes status and worker of the last job.
LEMMA Stamped ==
  ASSUME Typed, Len(jobs) > 0, NEW status \in Statuses, NEW task \in Calls \cup {NoCall}
  PROVE  LET new == Stamp(status, task) IN
         /\ new \in Seq(JobSet) /\ Len(new) = Len(jobs)
         /\ \A i \in 1..Len(jobs) : i # Len(jobs) => new[i] = jobs[i]
         /\ \A a : Is(jobs[Len(jobs)], a) <=> Is(new[Len(jobs)], a)
         /\ new[Len(jobs)].status = status /\ new[Len(jobs)].task = task
<1> DEFINE n == Len(jobs)
           job == [jobs[n] EXCEPT !.status = status, !.task = task]
<1>1. n \in 1..Len(jobs) /\ jobs[n] \in JobSet
  BY LenProperties, ElementOfSeq DEF Typed
<1>2. /\ job \in JobSet /\ job.status = status /\ job.task = task
      /\ job.key = jobs[n].key /\ job.ordinal = jobs[n].ordinal /\ job.print = jobs[n].print
  BY <1>1 DEF JobSet
<1>3. Stamp(status, task) = [jobs EXCEPT ![n] = job]
  BY <1>1, LenProperties DEF Stamp, Mine, Typed
<1> HIDE DEF job
<1>4. QED
  BY <1>1, <1>2, <1>3, ExceptSeq DEF Typed, Is

-----------------------------------------------------------------------------
\* A step of control: the record and the workers stay, and the call goes from one
\* label to another that asks for nothing it does not know.
LEMMA EnterStep ==
  ASSUME SpawnInv, NEW c \in Calls, NEW a \in Asks \cup {Direct}, Enter(c, a)
  PROVE  SpawnInv'
<1> USE DEF SpawnInv, Enter, Go
<1>1. pc[c] = "idle" /\ pc' = [pc EXCEPT ![c] = IF a = Direct THEN "quota" ELSE "admit"] /\ holder = NoCall
  BY DEF LockFree
<1>2. Typed'
  BY <1>1, EmptySeq DEF Typed, Labels
<1>3. \A d \in Calls : pc[d] \notin Inside
  BY <1>1, NoCallAssumption DEF Alone
<1>4. Alone'
  BY <1>1, <1>3 DEF Alone, Typed
<1>5. c \notin launched
  BY <1>1 DEF Kept
<1>6. \A d \in Calls : d # c => pc'[d] = pc[d] /\ ask'[d] = ask[d]
  BY <1>1 DEF Typed
<1>7. pc'[c] = (IF a = Direct THEN "quota" ELSE "admit") /\ ask'[c] = a
  BY <1>1 DEF Typed
<1>8. launched' \subseteq launched /\ UNCHANGED <<live, told>>
  OBVIOUS
<1>9. Own'
  BY <1>3, <1>6, <1>7 DEF Own, Inside
<1>10. Admitted'
  BY <1>3, <1>6, <1>7 DEF Admitted, Inside, SameJob
<1>11. LaunchedOnce'
  BY <1>5, <1>6, <1>8 DEF LaunchedOnce, Typed
<1>12. RightWorker'
  BY <1>1, <1>6, <1>7, <1>8 DEF RightWorker, Typed
<1>13. Room'
  BY <1>1, <1>6, <1>7 DEF Room, QuotaKept
<1>14. Kept' /\ Sound'
  <2>1. CASE old
    <3>1. jobs' = <<>> /\ launched' = {} /\ Len(jobs') = 0
      BY <2>1, EmptySeq
    <3>2. QED
      BY <3>1 DEF Kept, Sound
  <2>2. CASE ~old
    <3>1. jobs' = jobs /\ launched' = launched
      BY <2>2
    <3>2. Kept'
      BY <1>5, <1>6, <1>7, <3>1 DEF Kept, Typed
    <3>3. Sound'
      BY <1>1, <1>6, <3>1 DEF Sound
    <3>4. QED
      BY <3>2, <3>3
  <2>3. QED
    BY <2>1, <2>2
<1>15. QED
  BY <1>2, <1>4, <1>9, <1>10, <1>11, <1>12, <1>13, <1>14

\* The steps that change nothing but where a call is, and leave the lock at the end.
LEMMA ControlStep ==
  ASSUME SpawnInv, NEW c \in Calls, NEW from \in Labels, NEW to \in Labels,
         Go(c, from, to), holder' = holder \/ (holder' = NoCall /\ to = "refused" /\ pc[c] \in Inside),
         to \in {"refused"} \cup (IF from = "admit" THEN {"quota"} ELSE {}) \cup
               (IF from = "quota" THEN {"spawn", "tombstone"} ELSE {}) \cup
               (IF from = "started" THEN {"uncertain"} ELSE {}) \cup
               (IF from = "spawn" THEN {"notStarted", "uncertain"} ELSE {}),
         from = "admit" /\ to = "quota" => Existing(ask[c]) = {},
         from = "quota" /\ to \in {"spawn", "tombstone"} =>
             UnderQuota /\ (to = "spawn" <=> ask[c] = Direct),
         from = "spawn" /\ to \in {"notStarted", "uncertain"} => ask[c] # Direct,
         from \in Inside \/ to = "refused", from \notin Ended,
         UNCHANGED <<ask, jobs, old, live, launched, told>>
  PROVE  SpawnInv'
<1> USE DEF SpawnInv
<1>1. pc[c] = from /\ pc'[c] = to /\ \A d \in Calls : d # c => pc'[d] = pc[d]
  BY DEF Go, Typed
<1>2. Typed'
  BY DEF Go, Typed
<1>3. Sound'
  BY <1>1 DEF Sound, Ended
<1>4. Alone'
  BY <1>1, NoCallAssumption DEF Alone, Inside
<1>5. Own'
  BY <1>1 DEF Own, Inside
<1>6. Kept'
  BY <1>1 DEF Kept, Inside
<1>7. Admitted'
  <2>1. CASE from = "admit" /\ to = "quota"
    <3>1. ASSUME NEW d \in launched, SameJob(ask[c], ask[d]) PROVE FALSE
      <4>1. PICK i \in Indices : Is(jobs[i], ask[d])
        BY <3>1 DEF Kept, SameJob, Indices
      <4>2. QED
        BY <2>1, <3>1, <4>1, SameIsFound
    <3>2. QED
      BY <1>1, <2>1, <3>1 DEF Admitted
  <2>2. CASE ~(from = "admit" /\ to = "quota")
    BY <1>1, <2>2 DEF Admitted, Inside
  <2>3. QED
    BY <2>1, <2>2
<1>8. LaunchedOnce' /\ RightWorker'
  BY <1>1 DEF LaunchedOnce, RightWorker, Typed, Ended
<1>9. Room'
  BY <1>1 DEF Room, QuotaKept, UnderQuota
<1>10. QED
  BY <1>2, <1>3, <1>4, <1>5, <1>6, <1>7, <1>8, <1>9

LEMMA WaitStep ==
  ASSUME SpawnInv, NEW c \in Calls,
         LockTimeout(c) \/ CheckQuota(c) \/ OverQuota(c) \/ TombstoneFails(c) \/ WriteStartedFails(c)
           \/ LastWriteFails(c)
  PROVE  SpawnInv'
<1> USE DEF Labels, Inside, Ended
<1>1. CASE LockTimeout(c)
  BY <1>1, ControlStep DEF LockTimeout, Go
<1>2. CASE CheckQuota(c)
  BY <1>2, ControlStep DEF CheckQuota, Go
<1>3. CASE OverQuota(c)
  BY <1>3, ControlStep DEF OverQuota, Return, Go
<1>4. CASE TombstoneFails(c)
  BY <1>4, ControlStep DEF TombstoneFails, Return, Go
<1>5. CASE WriteStartedFails(c)
  BY <1>5, ControlStep DEF WriteStartedFails, Go
<1>6. CASE LastWriteFails(c)
  BY <1>6, ControlStep DEF LastWriteFails, Return, Go
<1>7. QED
  BY <1>1, <1>2, <1>3, <1>4, <1>5, <1>6

LEMMA AdmitStep ==
  ASSUME SpawnInv, NEW c \in Calls, Admit(c)
  PROVE  SpawnInv'
<1>1. CASE Existing(ask[c]) = {} /\ Go(c, "admit", "quota") /\ UNCHANGED <<holder, told>>
  BY <1>1, ControlStep DEF Admit, Labels, Inside, Ended, Go
<1>2. ASSUME NEW i \in Existing(ask[c]),
             IF Answers(jobs[i])
             THEN Return(c, "admit", "answered") /\ told' = [told EXCEPT ![c] = jobs[i].task]
             ELSE Return(c, "admit", "refused") /\ UNCHANGED told
      PROVE  SpawnInv'
  <2>1. CASE ~Answers(jobs[i])
    BY <1>2, <2>1, ControlStep DEF Admit, Return, Go, Labels, Inside, Ended
  <2>2. CASE Answers(jobs[i])
    <3> USE DEF SpawnInv
    <3>1. /\ pc[c] = "admit" /\ pc'[c] = "answered" /\ holder' = NoCall
          /\ \A d \in Calls : d # c => pc'[d] = pc[d] /\ told'[d] = told[d]
          /\ told'[c] = jobs[i].task /\ UNCHANGED <<ask, jobs, old, live, launched>>
      BY <1>2, <2>2 DEF Admit, Return, Go, Typed
    <3>2. i \in Indices
      BY DEF Existing, First, SameKey, OldOrdinal, OldPrint, SameOrdinal, SamePrint
    <3>3. /\ jobs[i].task \in Calls /\ pc[jobs[i].task] = "answered"
          /\ ask[jobs[i].task] # Direct /\ Is(jobs[i], ask[jobs[i].task])
      BY <2>2, <3>2 DEF Sound, Answers, Indices
    <3>4. SameJob(ask[c], ask[jobs[i].task])
      BY <3>1, <3>3, FoundIsSame DEF Own
    <3>5. RightWorker'
      <4>1. jobs[i].task # c /\ jobs[i].task # NoCall
        BY <3>1, <3>3, NoCallAssumption
      <4>2. \A d \in Calls : pc[d] = "answered" => told[d] # c \/ told[d] = d
        BY <3>1 DEF RightWorker
      <4>3. ASSUME NEW d \in Calls, pc'[d] = "answered"
            PROVE  \/ told'[d] = d
                   \/ told'[d] # NoCall /\ pc'[told'[d]] = "answered" /\ SameJob(ask'[d], ask'[told'[d]])
        <5>1. CASE d = c
          BY <3>1, <3>3, <3>4, <4>1, <5>1
        <5>2. CASE d # c
          BY <3>1, <4>2, <4>3, <5>2 DEF RightWorker, Typed
        <5>3. QED
          BY <5>1, <5>2
      <4>4. QED
        BY <4>3 DEF RightWorker
    <3>6. Typed'
      BY <1>2, <2>2, <3>1, <3>3 DEF Typed, Return, Go, Labels
    <3>7. Alone' /\ Own' /\ Kept' /\ Admitted'
      BY <3>1, NoCallAssumption DEF Alone, Own, Kept, Admitted, Inside
    <3>8. Sound' /\ LaunchedOnce' /\ Room'
      BY <3>1 DEF Sound, LaunchedOnce, Room, QuotaKept
    <3>9. QED
      BY <3>5, <3>6, <3>7, <3>8
  <2>3. QED
    BY <2>1, <2>2
<1>3. QED
  BY <1>1, <1>2 DEF Admit

LEMMA TombstoneStep ==
  ASSUME SpawnInv, NEW c \in Calls, WriteTombstone(c)
  PROVE  SpawnInv'
<1> USE DEF SpawnInv
<1>1. /\ pc[c] = "tombstone" /\ pc'[c] = "spawn" /\ \A d \in Calls : d # c => pc'[d] = pc[d]
      /\ jobs' = Append(jobs, Job(c)) /\ UNCHANGED <<ask, holder, live, launched, told>>
  BY DEF WriteTombstone, Go, Typed
<1>2. ask[c] \in Asks
  BY <1>1 DEF Own, Typed
<1>3. Job(c) \in JobSet /\ Is(Job(c), ask[c]) /\ Job(c).status = "dispatching" /\ Job(c).task = NoCall
  BY <1>2 DEF Job, JobSet, Statuses, Is
<1>4. /\ jobs' \in Seq(JobSet) /\ Len(jobs') = Len(jobs) + 1 /\ Len(jobs) \in Nat
      /\ jobs'[Len(jobs) + 1] = Job(c)
      /\ \A i \in 1..Len(jobs) : jobs'[i] = jobs[i]
  BY <1>1, <1>3, AppendProperties, LenProperties DEF Typed
<1>5. Typed'
  BY <1>1, <1>4 DEF WriteTombstone, Go, Typed, Labels
<1>6. Sound'
  <2>1. ASSUME NEW i \in 1..Len(jobs'), i # Len(jobs) + 1 PROVE i \in 1..Len(jobs) /\ jobs'[i] = jobs[i]
    BY <1>4, <2>1
  <2>2. QED
    BY <1>1, <1>2, <1>3, <1>4, <2>1 DEF Sound
<1>7. \A d \in Calls : pc[d] \in Inside => d = c
  BY <1>1 DEF Alone, Inside
<1>8. Own'
  BY <1>1, <1>3, <1>4, <1>7 DEF Own, Inside
<1>9. Kept'
  <2>1. \A d \in launched : ask[d] # Direct => \E i \in 1..Len(jobs') : Is(jobs'[i], ask[d])
    BY <1>4 DEF Kept
  <2>2. QED
    BY <1>1, <2>1 DEF Kept
<1>10. Alone' /\ Admitted' /\ LaunchedOnce'
  BY <1>1 DEF Alone, Admitted, Inside, LaunchedOnce
<1>11. RightWorker'
  BY <1>1 DEF RightWorker, Typed
<1>12. Room'
  BY <1>1 DEF Room, QuotaKept
<1>13. QED
  BY <1>5, <1>6, <1>8, <1>9, <1>10, <1>11, <1>12

\* The worker starts: its call was admitted and holds the lock, so it is the only
\* one of its job, and there is room for it.
LEMMA LaunchStep ==
  ASSUME SpawnInv, NEW c \in Calls, pc[c] = "spawn", Launch(c), UNCHANGED <<ask, jobs, old>>,
         NEW to \in {"started", "uncertain", "answered", "refused"}, Go(c, "spawn", to),
         holder' = holder \/ (holder' = NoCall /\ to \in Ended),
         to \in {"started", "uncertain"} => ask[c] # Direct,
         told' = IF to = "answered" THEN [told EXCEPT ![c] = c] ELSE told
  PROVE  SpawnInv'
<1> USE DEF SpawnInv
<1>1. /\ pc'[c] = to /\ \A d \in Calls : d # c => pc'[d] = pc[d]
      /\ live' = live \cup {c} /\ launched' = launched \cup {c}
  BY DEF Go, Typed, Launch
<1>2. \A d \in Calls : pc[d] \in Inside => d = c
  BY DEF Alone, Inside
<1>3. Typed'
  BY <1>1 DEF Go, Typed, Labels
<1>4. Sound' /\ Alone' /\ Own'
  BY <1>1, <1>2, NoCallAssumption DEF Sound, Alone, Own, Inside, Ended
<1>5. Kept'
  BY <1>1 DEF Kept, Own, Typed
<1>6. Admitted' /\ LaunchedOnce'
  <2>1. \A d \in launched : SameJob(ask[c], ask[d]) => d = c
    BY DEF Admitted, Inside
  <2>2. \A a, b : SameJob(a, b) => SameJob(b, a)
    BY DEF SameJob
  <2>3. LaunchedOnce'
    BY <1>1, <2>1, <2>2 DEF LaunchedOnce
  <2>4. Admitted'
    BY <1>1, <1>2, <2>1 DEF Admitted, Inside
  <2>5. QED
    BY <2>3, <2>4
<1>7. RightWorker'
  BY <1>1 DEF RightWorker, Typed
<1>8. Room'
  <2>1. IsFiniteSet(live) /\ Cardinality(live) < MaxWorkers
    BY DEF Room
  <2>2. IsFiniteSet(live') /\ Cardinality(live') <= Cardinality(live) + 1 /\ Cardinality(live) \in Nat
        /\ Cardinality(live') \in Nat
    <3>1. IsFiniteSet(live') /\ Cardinality(live) \in Nat /\ Cardinality(live') \in Nat
      BY <1>1, <2>1, FS_AddElement, FS_CardinalityType
    <3>2. Cardinality(live') = Cardinality(live) \/ Cardinality(live') = Cardinality(live) + 1
      BY <1>1, <2>1, FS_AddElement
    <3>3. QED
      BY <3>1, <3>2
  <2>3. QED
    BY <1>1, <1>2, <2>1, <2>2, QuotaAssumption DEF Room, QuotaKept, Inside
<1>9. QED
  BY <1>3, <1>4, <1>5, <1>6, <1>7, <1>8

LEMMA SpawnStep ==
  ASSUME SpawnInv, NEW c \in Calls, Spawns(c) \/ SpawnThrows(c)
  PROVE  SpawnInv'
<1> USE DEF Labels, Inside, Ended
<1>1. CASE Spawns(c)
  BY <1>1, LaunchStep DEF Spawns, Return, Go
<1>2. CASE SpawnThrows(c) /\ ~UNCHANGED <<live, launched>>
  BY <1>2, LaunchStep DEF SpawnThrows, Return, Go
<1>3. CASE SpawnThrows(c) /\ UNCHANGED <<live, launched>>
  BY <1>3, ControlStep DEF SpawnThrows, Return, Go
<1>4. QED
  BY <1>1, <1>2, <1>3

\* What is known of the launch is written.
LEMMA StampStep ==
  ASSUME SpawnInv, NEW c \in Calls, WriteStarted(c) \/ WriteUncertain(c)
  PROVE  SpawnInv'
<1> USE DEF SpawnInv
<1> DEFINE status == IF WriteStarted(c) THEN "started" ELSE "uncertain"
           task == IF WriteStarted(c) THEN c ELSE NoCall
           to == IF WriteStarted(c) THEN "answered" ELSE "refused"
<1>1. /\ pc[c] \in {"started", "uncertain"} /\ pc' = [pc EXCEPT ![c] = to] /\ holder' = NoCall
      /\ jobs' = Stamp(status, task) /\ old' = FALSE /\ UNCHANGED <<ask, live, launched>>
      /\ told' = IF WriteStarted(c) THEN [told EXCEPT ![c] = c] ELSE told
      /\ status \in Statuses /\ task \in Calls \cup {NoCall}
  BY DEF WriteStarted, WriteUncertain, Return, Go, StartedKept, UncertainKept, Statuses
<1>2. ask[c] # Direct /\ Len(jobs) > 0 /\ Is(jobs[Len(jobs)], ask[c])
  BY <1>1 DEF Own
<1>3. /\ jobs' \in Seq(JobSet) /\ Len(jobs') = Len(jobs) /\ Len(jobs) \in Nat
      /\ \A i \in 1..Len(jobs) : i # Len(jobs) => jobs'[i] = jobs[i]
      /\ \A a : Is(jobs[Len(jobs)], a) <=> Is(jobs'[Len(jobs)], a)
      /\ jobs'[Len(jobs)].status = status /\ jobs'[Len(jobs)].task = task
  BY <1>1, <1>2, Stamped, IndicesAreNumbers
<1>4. /\ pc'[c] = to /\ to \in {"answered", "refused"} /\ \A d \in Calls : d # c => pc'[d] = pc[d]
  BY <1>1 DEF Typed
<1>5. Typed'
  BY <1>1, <1>3 DEF Typed, Labels
<1>6. Sound'
  <2>1. ASSUME NEW i \in 1..Len(jobs'), i # Len(jobs) PROVE jobs'[i] = jobs[i]
    BY <1>3, <2>1
  <2>2. ask[c] \in Asks
    BY <1>2 DEF Typed
  <2>3. \A i \in 1..Len(jobs) : jobs[i].status = "started" => pc'[jobs[i].task] = "answered"
    BY <1>1, <1>4 DEF Sound
  <2>4. status = "started" => task = c /\ pc'[c] = "answered"
    BY <1>4
  <2>5. status # "started" => task = NoCall
    OBVIOUS
  <2> HIDE DEF status, task, to
  <2>6. QED
    BY <1>1, <1>2, <1>3, <2>1, <2>2, <2>3, <2>4, <2>5 DEF Sound
<1>7. Kept'
  <2>1. \A i \in 1..Len(jobs) : \A a : Is(jobs[i], a) => Is(jobs'[i], a)
    BY <1>3
  <2>2. QED
    BY <1>1, <1>3, <1>4, <2>1 DEF Kept
<1>8. \A d \in Calls : pc[d] \in Inside => d = c
  BY <1>1 DEF Alone, Inside
<1>9. Alone' /\ Own' /\ Admitted'
  BY <1>1, <1>4, <1>8 DEF Alone, Own, Admitted, Inside
<1>10. LaunchedOnce' /\ RightWorker' /\ Room'
  BY <1>1, <1>4 DEF LaunchedOnce, RightWorker, Typed, Room, QuotaKept
<1>11. QED
  BY <1>5, <1>6, <1>7, <1>9, <1>10

\* The job of a worker that did not start is removed: no launched one was like it.
LEMMA NotStartedStep ==
  ASSUME SpawnInv, NEW c \in Calls, WriteNotStarted(c)
  PROVE  SpawnInv'
<1> USE DEF SpawnInv
<1> DEFINE n == Len(jobs)
<1>1. /\ pc[c] = "notStarted" /\ pc'[c] = "refused" /\ holder' = NoCall
      /\ pc' = [pc EXCEPT ![c] = "refused"] /\ \A d \in Calls : d # c => pc'[d] = pc[d]
      /\ jobs' = SubSeq(jobs, 1, n - 1) /\ old' = FALSE /\ UNCHANGED <<ask, live, launched, told>>
  BY DEF WriteNotStarted, Return, Go, Typed, Without, Mine
<1>2. n \in Nat /\ n > 0 /\ Is(jobs[n], ask[c]) /\ ask[c] # Direct /\ c \notin launched
  BY <1>1, IndicesAreNumbers DEF Own, Kept
<1>3. jobs' \in Seq(JobSet) /\ Len(jobs') = n - 1 /\ \A i \in 1..(n - 1) : jobs'[i] = jobs[i]
  <2>1. \A i \in 1..(n - 1) : jobs[i] \in JobSet
    BY <1>2, ElementOfSeq DEF Typed
  <2>2. QED
    <3>1. n - 1 \in Int /\ 1 \in Int /\ (n - 1) - 1 + 1 = n - 1
      BY <1>2
    <3>2. Len(jobs') = n - 1 /\ jobs' \in Seq(JobSet)
      BY <1>1, <1>2, <2>1, <3>1, SubSeqProperties
    <3>3. ASSUME NEW i \in 1..(n - 1) PROVE jobs'[i] = jobs[i]
      <4>1. jobs'[i] = jobs[1 + i - 1] /\ 1 + i - 1 = i
        BY <1>1, <2>1, <3>1, SubSeqProperties
      <4>2. QED
        BY <4>1
    <3>4. QED
      BY <3>2, <3>3
<1>4. Typed'
  BY <1>1, <1>3 DEF Typed, Labels
<1>5. Sound'
  BY <1>1, <1>2, <1>3 DEF Sound
<1>6. Kept'
  <2>1. ASSUME NEW d \in launched, ask[d] # Direct PROVE \E i \in 1..(n - 1) : Is(jobs[i], ask[d])
    <3>1. PICK i \in 1..n : Is(jobs[i], ask[d])
      BY <2>1 DEF Kept
    <3>2. CASE i = n
      <4>1. SameJob(ask[c], ask[d])
        BY <1>2, <2>1, <3>1, <3>2 DEF Is, SameJob
      <4>2. QED
        BY <1>1, <1>2, <4>1 DEF Admitted, Inside
    <3>3. CASE i # n
      BY <1>2, <3>1, <3>3
    <3>4. QED
      BY <3>2, <3>3
  <2>2. QED
    BY <1>1, <1>3, <2>1 DEF Kept
<1>7. \A d \in Calls : pc[d] \in Inside => d = c
  BY <1>1 DEF Alone, Inside
<1>8. Alone' /\ Own' /\ Admitted'
  BY <1>1, <1>7 DEF Alone, Own, Admitted, Inside
<1>9. LaunchedOnce' /\ RightWorker' /\ Room'
  BY <1>1 DEF LaunchedOnce, RightWorker, Typed, Room, QuotaKept
<1>10. QED
  BY <1>4, <1>5, <1>6, <1>8, <1>9

LEMMA WorkerEndsStep ==
  ASSUME SpawnInv, NEW w \in Calls, WorkerEnds(w)
  PROVE  SpawnInv'
<1> USE DEF SpawnInv, WorkerEnds
<1>1. Typed' /\ Sound' /\ Alone' /\ Own' /\ Kept' /\ Admitted' /\ LaunchedOnce' /\ RightWorker'
  BY DEF Typed, Sound, Alone, Own, Kept, Admitted, LaunchedOnce, RightWorker
<1>2. IsFiniteSet(live') /\ Cardinality(live') = Cardinality(live) - 1 /\ Cardinality(live) \in Nat
  BY FS_RemoveElement, FS_CardinalityType DEF Room
<1>3. QED
  BY <1>1, <1>2, QuotaAssumption DEF Room, QuotaKept

LEMMA CrashStep == SpawnInv /\ Crash => SpawnInv'
<1> SUFFICES ASSUME SpawnInv, Crash PROVE SpawnInv'
  OBVIOUS
<1> USE DEF SpawnInv, Crash
<1>1. \A d \in Calls : /\ pc'[d] \in Ended \cup {"idle"}
                       /\ pc[d] \in Ended \cup {"idle"} => pc'[d] = pc[d]
                       /\ pc'[d] # pc[d] => pc'[d] = "lost"
  BY DEF Ended
<1>2. Typed'
  BY <1>1 DEF Typed, Labels, Ended
<1>3. Sound' /\ Alone' /\ Own' /\ Kept' /\ Admitted' /\ LaunchedOnce' /\ RightWorker'
  BY <1>1 DEF Typed, Sound, Alone, Own, Kept, Admitted, Inside, LaunchedOnce, RightWorker, Ended
<1>4. Room'
  BY <1>1, QuotaAssumption, FS_EmptySet DEF Room, QuotaKept, Ended
<1>5. QED
  BY <1>2, <1>3, <1>4

LEMMA InvStep == SpawnInv /\ [Next]_vars => SpawnInv'
<1> SUFFICES ASSUME SpawnInv, [Next]_vars PROVE SpawnInv'
  OBVIOUS
<1>1. ASSUME NEW c \in Calls, Step(c) PROVE SpawnInv'
  BY <1>1, EnterStep, WaitStep, AdmitStep, TombstoneStep, SpawnStep, StampStep, NotStartedStep DEF Step
<1>2. CASE Age
  BY <1>2 DEF Age, SpawnInv, Typed, Sound, Alone, Own, Kept, Admitted, LaunchedOnce, RightWorker,
              Room, QuotaKept
<1>3. CASE UNCHANGED vars
  BY <1>3 DEF vars, SpawnInv, Typed, Sound, Alone, Own, Kept, Admitted, LaunchedOnce, RightWorker,
              Room, QuotaKept
<1>4. QED
  BY <1>1, <1>2, <1>3, WorkerEndsStep, CrashStep DEF Next

LEMMA Invariant == Spec => []SpawnInv
BY InitInv, InvStep, PTL DEF Spec

-----------------------------------------------------------------------------
\* The type invariant, and every job that answers Retries names a worker.
THEOREM TypeCorrect == Spec => []TypeOK
<1>1. SpawnInv => TypeOK
  <2> SUFFICES ASSUME SpawnInv PROVE TypeOK
    OBVIOUS
  <2>1. ASSUME NEW i \in 1..Len(jobs)
        PROVE  /\ [key |-> jobs[i].key, ordinal |-> jobs[i].ordinal, print |-> jobs[i].print] \in Asks
               /\ jobs[i].status \in {"dispatching", "started", "uncertain"}
               /\ jobs[i].task \in IF jobs[i].status = "started" THEN Calls ELSE {NoCall}
    <3>1. PICK a \in Asks : Is(jobs[i], a)
      BY DEF SpawnInv, Sound
    <3>2. [key |-> jobs[i].key, ordinal |-> jobs[i].ordinal, print |-> jobs[i].print] = a
      BY <3>1, AsksAssumption DEF Is
    <3>3. jobs[i] \in JobSet
      BY ElementOfSeq DEF SpawnInv, Typed
    <3>4. QED
      BY <3>2, <3>3 DEF SpawnInv, Sound, JobSet, Statuses
  <2>2. QED
    BY <2>1 DEF SpawnInv, Typed, TypeOK
<1>2. QED
  BY <1>1, Invariant, PTL

\* Retries launch no job twice as long as the record is kept, however calls race,
\* spawn and its writes fail and the process dies (spawnWorkerIdempotently).
THEOREM NoSecondLaunch == Spec => []LaunchedOnce
<1>1. SpawnInv => LaunchedOnce
  BY DEF SpawnInv
<1>2. QED
  BY <1>1, Invariant, PTL

\* A Retry is answered with a worker that was started for the job it asks for.
THEOREM AnsweredRightly == Spec => []RightWorker
<1>1. SpawnInv => RightWorker
  BY DEF SpawnInv
<1>2. QED
  BY <1>1, Invariant, PTL

\* beforeSpawn's quota is never exceeded, although the check is steps before the launch.
THEOREM QuotaHolds == Spec => []QuotaKept
<1>1. SpawnInv => QuotaKept
  BY DEF SpawnInv, Room
<1>2. QED
  BY <1>1, Invariant, PTL
=============================================================================
