--------------------------- MODULE RecoveryProofs ---------------------------
(***************************************************************************)
(* What survives a restart, whatever fails or dies between two steps, for   *)
(* any sets of tasks, entries, files and calls and any bounds: the journal  *)
(* is an atomic log; a background job keeps to what was confirmed and does  *)
(* not run a call again that nobody has reviewed; no attempt of a turn that *)
(* goes on after a restart is started twice.                                *)
(***************************************************************************)
EXTENDS TaskJournal, BackgroundTasks, RestartContinuation, WellFoundedInduction, TLAPS

Pointed == [Tasks -> Files \cup {Nothing}]
Contents == [Tasks -> Entries \cup {Nothing}]

OpTypes == [pc : {"idle", "entries", "replace", "cleanup", "reclaim", "done"},
            answer : {"none", "working", "true", "false"}, full : BOOLEAN,
            new : Contents \cup {NoPointers}, todo : SUBSET Tasks, commits : BOOLEAN,
            pointers : Pointed, stale : SUBSET Files]

JournalTyped ==
    /\ \/ manifest \in [version : {1}, entries : Contents]
       \/ manifest \in [version : {2}, entries : Pointed]
    /\ file \in [Files -> Saved \cup {Nothing}]
    /\ op \in OpTypes

\* A pointer of the manifest leads to its task's entry.
Sound == manifest.version = 2 =>
    \A t \in Tasks : manifest.entries[t] # Nothing =>
        file[manifest.entries[t]] # Nothing /\ file[manifest.entries[t]].task = t

Answering == op.answer = "working" <=> op.pc # "idle"

\* What will be the manifest names what the mutation asked for, as far as it
\* was written; what it no longer names is superseded, and a task still to be
\* written has the pointer it had.
Writing == op.pc = "entries" =>
    /\ \A t \in Tasks \ op.todo :
          IF op.new[t] = Nothing THEN op.pointers[t] = Nothing
          ELSE /\ op.pointers[t] # Nothing
               /\ file[op.pointers[t]] = [task |-> t, entry |-> op.new[t]]
    /\ \A t \in op.todo :
          op.pointers[t] = IF manifest.version = 1 THEN Nothing ELSE manifest.entries[t]
    /\ \A t \in Tasks : op.pointers[t] \in Referenced(manifest) => op.pointers[t] = manifest.entries[t]
    /\ op.stale \subseteq Referenced(manifest)
    /\ \A t \in Tasks : op.pointers[t] \notin op.stale
    /\ ~op.commits => /\ manifest.version = 2 /\ op.todo = {} /\ op.stale = {}
                      /\ op.pointers = manifest.entries

\* The new entry of a job that stays in the journal.
Replacing == op.pc = "replace" =>
    /\ manifest.version = 2 /\ op.stale = {}
    /\ \E t \in Tasks, e \in Entries :
          op.todo = {t} /\ manifest.entries[t] # Nothing /\ op.new = [Snapshot EXCEPT ![t] = e]

\* Once it is committed a reader is given what was asked for.
Committed == op.pc \in {"cleanup", "reclaim", "done"} =>
    /\ manifest.version = 2 /\ Snapshot = op.new
    /\ op.stale \cap Referenced(manifest) = {}

JournalInv == JournalTyped /\ Sound /\ Answering /\ Writing /\ Replacing /\ Committed

-----------------------------------------------------------------------------
\* A reader of a sound journal is given entries.
SnapshotOK ==
    /\ Snapshot \in Contents
    /\ \A t \in Tasks : manifest.version = 2 =>
          Snapshot[t] = IF manifest.entries[t] = Nothing THEN Nothing
                        ELSE file[manifest.entries[t]].entry

LEMMA SnapshotTyped == JournalTyped /\ Sound => SnapshotOK
<1> SUFFICES ASSUME JournalTyped, Sound PROVE SnapshotOK
  OBVIOUS
<1>1. ASSUME NEW t \in Tasks
      PROVE  /\ ReadEntry(manifest, t) \in Entries \cup {Nothing}
             /\ manifest.version = 2 =>
                   ReadEntry(manifest, t) = IF manifest.entries[t] = Nothing THEN Nothing
                                            ELSE file[manifest.entries[t]].entry
  <2>1. CASE manifest.version = 1
    BY <2>1 DEF JournalTyped, ReadEntry, Contents
  <2>2. CASE manifest.version = 2
    <3>1. manifest.entries[t] \in Files \cup {Nothing}
      BY <2>2 DEF JournalTyped, Pointed
    <3>2. CASE manifest.entries[t] = Nothing
      BY <3>2 DEF ReadEntry
    <3>3. CASE manifest.entries[t] # Nothing
      <4>1. file[manifest.entries[t]] \in Saved
        BY <2>2, <3>1, <3>3 DEF JournalTyped, Sound
      <4>2. QED
        BY <2>2, <3>3, <4>1 DEF ReadEntry, Sound, Saved
    <3>4. QED
      BY <3>2, <3>3
  <2>3. QED
    BY <2>1, <2>2 DEF JournalTyped
<1>2. QED
  BY <1>1 DEF Snapshot, SnapshotOK, Contents

LEMMA SnapshotTypedNext == JournalTyped' /\ Sound' => SnapshotOK'
BY SnapshotTyped, PTL

\* A sound journal names every file for one task at most.
LEMMA OwnFile ==
  ASSUME Sound, manifest.version = 2, NEW t \in Tasks, NEW u \in Tasks,
         manifest.entries[t] # Nothing, manifest.entries[u] = manifest.entries[t]
  PROVE  u = t
BY DEF Sound

\* Nothing a reader follows changes when other files do.
LEMMA SameSnapshot ==
  ASSUME JournalTyped, Sound, manifest' = manifest,
         \A f \in Referenced(manifest) : file'[f] = file[f]
  PROVE  Sound' /\ Snapshot' = Snapshot
<1>1. \A t \in Tasks : manifest.version = 2 /\ manifest.entries[t] # Nothing =>
                          file'[manifest.entries[t]] = file[manifest.entries[t]]
  BY DEF Referenced
<1>2. Sound'
  BY <1>1 DEF Sound
<1>3. \A t \in Tasks : ReadEntry(manifest, t)' = ReadEntry(manifest, t)
  BY <1>1 DEF ReadEntry, JournalTyped
<1>4. QED
  BY <1>2, <1>3 DEF Snapshot

LEMMA IdleTyped ==
  ASSUME NEW a \in {"none", "working", "true", "false"}
  PROVE  Idle(a) \in OpTypes
BY DEF Idle, NoPointers, Pointed, OpTypes

-----------------------------------------------------------------------------
LEMMA JournalInitInv == JournalInit => JournalInv
<1> SUFFICES ASSUME JournalInit PROVE JournalInv
  OBVIOUS
<1>1. op \in OpTypes
  BY IdleTyped DEF JournalInit
<1>2. op.pc = "idle" /\ op.answer = "none"
  BY DEF JournalInit, Idle
<1>3. JournalTyped
  <2>1. file \in [Files -> Saved \cup {Nothing}]
    BY DEF JournalInit
  <2>2. NoPointers \in Pointed
    BY DEF NoPointers, Pointed
  <2>3. QED
    BY <1>1, <2>1, <2>2 DEF JournalTyped, JournalInit, Contents
<1>4. Sound
  BY DEF Sound, JournalInit, NoPointers
<1>5. QED
  BY <1>2, <1>3, <1>4 DEF JournalInv, Answering, Writing, Replacing, Committed

\* A commit that begins names what the manifest names.
LEMMA StartCommitStep ==
  ASSUME JournalInv, op.pc = "idle", NEW full \in BOOLEAN, NEW new \in Contents,
         NEW changed \in SUBSET Tasks, \A t \in Tasks \ changed : new[t] = Snapshot[t],
         StartCommit(full, new, changed), UNCHANGED <<manifest, file>>
  PROVE  JournalInv'
<1>1. op' \in OpTypes
  <2>1. (IF manifest.version = 1 THEN NoPointers ELSE manifest.entries) \in Pointed
    BY DEF JournalInv, JournalTyped, NoPointers, Pointed
  <2>2. Pending(changed) \in SUBSET Tasks
    BY DEF Pending
  <2>3. QED
    BY <2>1, <2>2 DEF StartCommit, OpTypes
<1>2. JournalTyped' /\ Sound'
  BY <1>1 DEF JournalInv, JournalTyped, Sound
<1>3. op'.pc = "entries" /\ op'.answer = "working"
  BY DEF StartCommit
<1>4. Writing'
  <2>1. /\ op'.new = new /\ op'.todo = Pending(changed) /\ op'.stale = {}
        /\ op'.commits = (~full \/ changed # {} \/ manifest.version = 1)
        /\ op'.pointers = IF manifest.version = 1 THEN NoPointers ELSE manifest.entries
    BY DEF StartCommit
  <2>2. CASE manifest.version = 1
    BY <2>1, <2>2 DEF Writing, Pending, NoPointers, Referenced
  <2>3. CASE manifest.version = 2
    <3>1. op'.pointers = manifest.entries /\ op'.todo = changed
      BY <2>1, <2>3 DEF Pending
    <3>2. \A t \in Tasks \ changed :
             IF new[t] = Nothing THEN manifest.entries[t] = Nothing
             ELSE /\ manifest.entries[t] # Nothing
                  /\ file[manifest.entries[t]] = [task |-> t, entry |-> new[t]]
      <4> TAKE t \in Tasks \ changed
      <4>1. new[t] = IF manifest.entries[t] = Nothing THEN Nothing
                     ELSE file[manifest.entries[t]].entry
        BY SnapshotTyped, <2>3 DEF JournalInv, SnapshotOK
      <4>2. CASE manifest.entries[t] = Nothing
        BY <4>1, <4>2
      <4>3. CASE manifest.entries[t] # Nothing
        <5>1. manifest.entries[t] \in Files
          BY <2>3, <4>3 DEF JournalInv, JournalTyped, Pointed
        <5>2. file[manifest.entries[t]] \in Saved /\ file[manifest.entries[t]].task = t
          BY <2>3, <4>3, <5>1 DEF JournalInv, JournalTyped, Sound
        <5>3. new[t] # Nothing
          BY <4>1, <4>3, <5>2, JournalAssumption DEF Saved
        <5>4. QED
          BY <4>1, <4>3, <5>2, <5>3 DEF Saved
      <4>4. QED
        BY <4>2, <4>3
    <3>3. \A t \in Tasks : op'.pointers[t] \in Referenced(manifest)' => op'.pointers[t] = manifest'.entries[t]
      BY <3>1
    <3>4. \A t \in Tasks \ op'.todo :
             IF op'.new[t] = Nothing THEN op'.pointers[t] = Nothing
             ELSE /\ op'.pointers[t] # Nothing
                  /\ file'[op'.pointers[t]] = [task |-> t, entry |-> op'.new[t]]
      BY <2>1, <3>1, <3>2
    <3>5. ~op'.commits => changed = {}
      BY <2>1
    <3>6. QED
      BY <2>1, <2>3, <3>1, <3>3, <3>4, <3>5 DEF Writing
  <2>4. QED
    BY <2>2, <2>3 DEF JournalInv, JournalTyped
<1>5. QED
  BY <1>2, <1>3, <1>4 DEF JournalInv, Answering, Replacing, Committed

LEMMA MutateEntryStep ==
  ASSUME JournalInv, NEW t \in Tasks, NEW e \in Entries \cup {Nothing}, MutateEntry(t, e)
  PROVE  JournalInv' /\ op.pc = "idle" /\ op'.new \in Contents /\ op'.pc \in {"replace", "entries"}
<1> DEFINE new == [Snapshot EXCEPT ![t] = e]
<1>1. new \in Contents /\ op.pc = "idle" /\ UNCHANGED <<manifest, file>>
  BY SnapshotTyped DEF JournalInv, SnapshotOK, Contents, MutateEntry
<1>2. CASE InPlace(t, e)
  <2>1. op' = [Idle("working") EXCEPT !.pc = "replace", !.new = new, !.todo = {t}]
    BY <1>2 DEF MutateEntry
  <2>2. /\ op'.pc = "replace" /\ op'.new = new /\ op'.todo = {t} /\ op'.answer = "working"
        /\ op'.stale = {}
        /\ op' \in OpTypes
    BY <1>1, <2>1, IdleTyped DEF Idle, OpTypes
  <2>3. JournalTyped' /\ Sound'
    BY <1>1, <2>2 DEF JournalInv, JournalTyped, Sound
  <2>4. Snapshot' = Snapshot
    BY <1>1 DEF Snapshot, ReadEntry
  <2>5. Replacing'
    BY <1>1, <1>2, <2>2, <2>4 DEF Replacing, InPlace
  <2>6. QED
    BY <1>1, <2>2, <2>3, <2>5 DEF JournalInv, Answering, Writing, Committed
<1>3. CASE ~InPlace(t, e)
  <2>1. StartCommit(FALSE, new, {t})
    BY <1>3 DEF MutateEntry
  <2>2. \A u \in Tasks \ {t} : new[u] = Snapshot[u]
    BY SnapshotTyped DEF JournalInv, SnapshotOK, Contents
  <2>3. JournalInv'
    BY <1>1, <2>1, <2>2, StartCommitStep
  <2>4. op'.new = new /\ op'.pc = "entries"
    BY <2>1 DEF StartCommit
  <2>5. QED
    BY <1>1, <2>3, <2>4
<1>4. QED
  BY <1>2, <1>3

LEMMA MutateAllStep ==
  ASSUME JournalInv, NEW new \in Contents, MutateAll(new)
  PROVE  JournalInv' /\ op.pc = "idle" /\ op'.new \in Contents /\ op'.pc \in {"replace", "entries"}
<1> DEFINE changed == {t \in Tasks : new[t] # Snapshot[t]}
<1>1. StartCommit(TRUE, new, changed) /\ op.pc = "idle" /\ UNCHANGED <<manifest, file>>
  BY DEF MutateAll
<1>2. \A t \in Tasks \ changed : new[t] = Snapshot[t]
  OBVIOUS
<1>3. JournalInv'
  BY <1>1, <1>2, StartCommitStep
<1>4. op'.new = new /\ op'.pc = "entries"
  BY <1>1 DEF StartCommit
<1>5. QED
  BY <1>1, <1>3, <1>4

\* The one file of the job is replaced at once.
LEMMA ReplaceStep ==
  ASSUME JournalInv, Replace
  PROVE  JournalInv' /\ Snapshot' = op.new /\ op'.new = op.new
<1>1. PICK t \in Tasks, e \in Entries :
         op.todo = {t} /\ manifest.entries[t] # Nothing /\ op.new = [Snapshot EXCEPT ![t] = e]
  BY DEF JournalInv, Replacing, Replace
<1>2. manifest.version = 2 /\ manifest' = manifest
  BY DEF JournalInv, Replacing, Replace
<1> DEFINE p == manifest.entries[t]
<1>3. p \in Files /\ Snapshot \in Contents
  BY <1>1, <1>2, SnapshotTyped DEF JournalInv, JournalTyped, SnapshotOK, Pointed
<1>4. file' = [file EXCEPT ![p] = [task |-> t, entry |-> e]]
  BY <1>1, <1>3 DEF Replace, Contents
<1>5. file'[p] = [task |-> t, entry |-> e] /\ \A f \in Files \ {p} : file'[f] = file[f]
  BY <1>3, <1>4 DEF JournalInv, JournalTyped
<1>6. file' \in [Files -> Saved \cup {Nothing}] /\ file'[p] # Nothing
  <2>1. [task |-> t, entry |-> e] \in Saved /\ Nothing \notin Saved
    BY JournalAssumption DEF Saved
  <2>2. QED
    BY <1>3, <1>4, <1>5, <2>1 DEF JournalInv, JournalTyped
<1>7. /\ op'.pc = "done" /\ op'.new = op.new /\ op'.answer = op.answer
      /\ op.pc = "replace" /\ op'.stale = op.stale
      /\ op' \in OpTypes
  BY DEF JournalInv, JournalTyped, Replace, OpTypes
<1>8. JournalTyped'
  BY <1>2, <1>6, <1>7 DEF JournalInv, JournalTyped
<1>9. \A u \in Tasks \ {t} : manifest.entries[u] # Nothing => file'[manifest.entries[u]] = file[manifest.entries[u]]
  <2> TAKE u \in Tasks \ {t}
  <2>1. CASE manifest.entries[u] # Nothing
    <3>1. manifest.entries[u] # p
      BY <1>1, <1>2, <2>1, OwnFile DEF JournalInv
    <3>2. manifest.entries[u] \in Files
      BY <1>2, <2>1 DEF JournalInv, JournalTyped, Pointed
    <3>3. QED
      BY <1>5, <3>1, <3>2
  <2>2. QED
    BY <2>1
<1>10. Sound'
  BY <1>1, <1>2, <1>5, <1>6, <1>9 DEF JournalInv, Sound
<1>11. Snapshot' = op.new
  <2>1. \A u \in Tasks : Snapshot'[u] = IF manifest.entries[u] = Nothing THEN Nothing
                                        ELSE file'[manifest.entries[u]].entry
    <3>1. \A u \in Tasks : (manifest.version = 2)' =>
               Snapshot'[u] = IF manifest'.entries[u] = Nothing THEN Nothing
                              ELSE file'[manifest'.entries[u]].entry
      BY <1>8, <1>10, SnapshotTypedNext DEF SnapshotOK
    <3>2. QED
      BY <1>2, <3>1
  <2>2. Snapshot' \in Contents
    BY <1>8, <1>10, SnapshotTypedNext DEF SnapshotOK, Contents
  <2>3. Snapshot'[t] = e
    BY <1>1, <1>5, <2>1
  <2>4. \A u \in Tasks \ {t} : Snapshot'[u] = Snapshot[u]
    BY <1>2, <1>9, <2>1, SnapshotTyped DEF JournalInv, SnapshotOK
  <2>5. QED
    BY <1>1, <1>3, <2>2, <2>3, <2>4 DEF Contents
<1>12. QED
  BY <1>2, <1>7, <1>8, <1>10, <1>11 DEF JournalInv, Answering, Writing, Replacing, Committed

\* A file that is not the manifest's is written, or a pointer given up.
LEMMA WriteEntryStep ==
  ASSUME JournalInv, NEW t \in Tasks, WriteEntry(t)
  PROVE  JournalInv' /\ Snapshot' = Snapshot /\ op'.pc = op.pc /\ op'.new = op.new
<1>1. op.pc = "entries" /\ t \in op.todo /\ manifest' = manifest /\ op \in OpTypes /\ Writing
  BY DEF WriteEntry, JournalInv, JournalTyped
<1>2. PICK p \in IF op.new[t] = Nothing THEN {Nothing} ELSE FreshFiles :
         /\ file' = IF p = Nothing THEN file
                    ELSE [file EXCEPT ![p] = [task |-> t, entry |-> op.new[t]]]
         /\ op' = [op EXCEPT !.todo = @ \ {t}, !.pointers[t] = p,
                             !.stale = (@ \cup {op.pointers[t]}) \ {Nothing}]
  BY DEF WriteEntry
<1>3. /\ p \in Files \cup {Nothing} /\ (p = Nothing <=> op.new[t] = Nothing)
      /\ p \notin Referenced(manifest)
      /\ p # Nothing => p \notin Present /\ \A u \in Tasks : op.pointers[u] # p
  <2>1. CASE op.new[t] = Nothing
    <3>1. p = Nothing /\ Nothing \notin Referenced(manifest)
      BY <1>2, <2>1 DEF Referenced
    <3>2. QED
      BY <2>1, <3>1
  <2>2. CASE op.new[t] # Nothing
    <3>1. p \in FreshFiles
      BY <1>2, <2>2
    <3>2. p # Nothing
      BY <3>1, JournalAssumption DEF FreshFiles
    <3>3. QED
      BY <2>2, <3>1, <3>2 DEF FreshFiles
  <2>3. QED
    BY <2>1, <2>2
<1> DEFINE q == op.pointers[t]
<1>4. q \in Files \cup {Nothing} /\ op.pointers \in Pointed
  BY <1>1 DEF OpTypes, Pointed
<1>5. /\ op'.pc = "entries" /\ op'.answer = op.answer /\ op'.new = op.new
      /\ op'.full = op.full /\ op'.commits = op.commits
      /\ op'.todo = op.todo \ {t} /\ op'.pointers = [op.pointers EXCEPT ![t] = p]
      /\ op'.stale = (op.stale \cup {q}) \ {Nothing}
      /\ op' = [pc |-> op.pc, answer |-> op.answer, full |-> op.full, new |-> op.new,
                todo |-> op'.todo, commits |-> op.commits, pointers |-> op'.pointers, stale |-> op'.stale]
  BY <1>1, <1>2 DEF OpTypes
<1>6. /\ op'.pointers[t] = p /\ \A u \in Tasks \ {t} : op'.pointers[u] = op.pointers[u]
      /\ op'.pointers \in Pointed
  BY <1>3, <1>4, <1>5 DEF Pointed
<1>7. op' \in OpTypes
  <2>1. op'.todo \in SUBSET Tasks /\ op'.stale \in SUBSET Files
    BY <1>1, <1>4, <1>5 DEF OpTypes
  <2>2. QED
    BY <1>1, <1>5, <1>6, <2>1 DEF OpTypes
<1>8. /\ file' \in [Files -> Saved \cup {Nothing}]
      /\ p # Nothing => file'[p] = [task |-> t, entry |-> op.new[t]]
      /\ \A f \in Files \ {p} : file'[f] = file[f]
  <2>1. CASE p = Nothing
    BY <1>2, <2>1 DEF JournalInv, JournalTyped
  <2>2. CASE p # Nothing
    <3>1. op.new[t] \in Entries
      BY <1>1, <1>3, <2>2 DEF OpTypes, Contents, NoPointers
    <3>2. [task |-> t, entry |-> op.new[t]] \in Saved
      BY <3>1 DEF Saved
    <3>3. QED
      BY <1>2, <1>3, <2>2, <3>2 DEF JournalInv, JournalTyped
  <2>3. QED
    BY <2>1, <2>2
<1>9. JournalTyped'
  BY <1>1, <1>7, <1>8 DEF JournalInv, JournalTyped
<1>10. \A u \in Tasks : manifest.version = 2 /\ manifest.entries[u] # Nothing => manifest.entries[u] \in Files
  BY DEF JournalInv, JournalTyped, Pointed
<1>11. Sound' /\ Snapshot' = Snapshot
  <2>1. \A f \in Referenced(manifest) : file'[f] = file[f]
    BY <1>3, <1>8, <1>10 DEF Referenced, JournalInv, JournalTyped
  <2>2. QED
    BY <1>1, <2>1, SameSnapshot DEF JournalInv
<1>12. Writing'
  <2>1. \A u \in Tasks \ op'.todo :
          IF op'.new[u] = Nothing THEN op'.pointers[u] = Nothing
          ELSE /\ op'.pointers[u] # Nothing
               /\ file'[op'.pointers[u]] = [task |-> u, entry |-> op'.new[u]]
    <3> TAKE u \in Tasks \ op'.todo
    <3>1. CASE u = t
      BY <1>3, <1>5, <1>6, <1>8, <3>1
    <3>2. CASE u # t
      <4>1. u \in Tasks \ op.todo /\ op'.pointers[u] = op.pointers[u]
        BY <1>5, <1>6, <3>2
      <4>2. op.pointers[u] # Nothing => op.pointers[u] \in Files \ {p}
        BY <1>3, <1>4 DEF Pointed
      <4>3. QED
        BY <1>1, <1>5, <1>8, <4>1, <4>2 DEF Writing
    <3>3. QED
      BY <3>1, <3>2
  <2>2. \A u \in op'.todo :
          op'.pointers[u] = IF manifest'.version = 1 THEN Nothing ELSE manifest'.entries[u]
    BY <1>1, <1>5, <1>6, <1>7 DEF Writing, OpTypes
  <2>3. \A u \in Tasks : op'.pointers[u] \in Referenced(manifest)' => op'.pointers[u] = manifest'.entries[u]
    BY <1>1, <1>3, <1>6 DEF Writing, Referenced
  <2>4. q # Nothing => manifest.version = 2 /\ q = manifest.entries[t] /\ q \in Referenced(manifest)
    BY <1>1 DEF Writing, Referenced, JournalInv, JournalTyped
  <2>5. op'.stale \subseteq Referenced(manifest)'
    BY <1>1, <1>5, <2>4 DEF Writing, Referenced
  <2>6. \A u \in Tasks : op'.pointers[u] \notin op'.stale
    <3> SUFFICES ASSUME NEW u \in Tasks, op'.pointers[u] \in op'.stale PROVE FALSE
      OBVIOUS
    <3>1. u # t
      <4>1. op'.stale \subseteq Referenced(manifest)
        BY <1>1, <1>5, <2>4 DEF Writing
      <4>2. QED
        BY <1>3, <1>6, <4>1
    <3>2. op.pointers[u] = q /\ q # Nothing
      BY <1>1, <1>5, <1>6, <3>1 DEF Writing
    <3>3. manifest.entries[u] = manifest.entries[t] /\ manifest.entries[t] # Nothing /\ manifest.version = 2
      BY <1>1, <2>4, <3>2 DEF Writing
    <3>4. QED
      BY <3>1, <3>3, OwnFile DEF JournalInv
  <2>7. op'.commits
    BY <1>1, <1>5 DEF Writing, OpTypes
  <2>8. QED
    BY <2>1, <2>2, <2>3, <2>5, <2>6, <2>7 DEF Writing
<1>13. QED
  BY <1>1, <1>5, <1>9, <1>11, <1>12 DEF JournalInv, Answering, Replacing, Committed

\* The commit point.
LEMMA WriteManifestStep ==
  ASSUME JournalInv, WriteManifest
  PROVE  JournalInv' /\ Snapshot' = op.new /\ op.pc = "entries" /\ op'.pc = "cleanup" /\ op'.new = op.new
<1>1. op.pc = "entries" /\ op.todo = {} /\ op \in OpTypes /\ Writing /\ file' = file
  BY DEF WriteManifest, JournalInv, JournalTyped
<1>2. manifest'.version = 2 /\ manifest'.entries = op.pointers /\ manifest' \in [version : {2}, entries : Pointed]
  BY <1>1 DEF WriteManifest, Writing, OpTypes, JournalInv, JournalTyped
<1>3. /\ op'.pc = "cleanup" /\ op'.new = op.new /\ op'.answer = op.answer /\ op'.stale = op.stale
      /\ op' \in OpTypes
  BY <1>1 DEF WriteManifest, OpTypes
<1>4. JournalTyped'
  BY <1>1, <1>2, <1>3 DEF JournalInv, JournalTyped
<1>5. \A t \in Tasks : IF op.new[t] = Nothing THEN op.pointers[t] = Nothing
                       ELSE /\ op.pointers[t] # Nothing
                            /\ file[op.pointers[t]] = [task |-> t, entry |-> op.new[t]]
  BY <1>1 DEF Writing
<1>6. Sound'
  <2> SUFFICES ASSUME NEW t \in Tasks, op.pointers[t] # Nothing
               PROVE  file[op.pointers[t]] # Nothing /\ file[op.pointers[t]].task = t
    BY <1>1, <1>2 DEF Sound
  <2>1. op.new[t] \in Entries
    BY <1>1, <1>5 DEF OpTypes, Contents, NoPointers
  <2>2. file[op.pointers[t]] = [task |-> t, entry |-> op.new[t]]
    BY <1>5
  <2>3. [task |-> t, entry |-> op.new[t]] \in Saved /\ Nothing \notin Saved
    BY <2>1, JournalAssumption DEF Saved
  <2>4. QED
    BY <2>2, <2>3
<1>7. Snapshot' = op.new
  <2>1. SnapshotOK'
    BY <1>4, <1>6, SnapshotTypedNext
  <2>2. \A t \in Tasks : Snapshot'[t] = op.new[t]
    <3> TAKE t \in Tasks
    <3>1. Snapshot'[t] = IF op.pointers[t] = Nothing THEN Nothing ELSE file[op.pointers[t]].entry
      BY <1>1, <1>2, <2>1 DEF SnapshotOK
    <3>2. CASE op.new[t] = Nothing
      BY <1>5, <3>1, <3>2
    <3>3. CASE op.new[t] # Nothing
      <4>1. op.pointers[t] # Nothing /\ file[op.pointers[t]] = [task |-> t, entry |-> op.new[t]]
        BY <1>5, <3>3
      <4>2. QED
        BY <3>1, <4>1
    <3>4. QED
      BY <3>2, <3>3
  <2>3. op.new \in Contents
    BY <1>1 DEF OpTypes, Contents, NoPointers
  <2>4. QED
    BY <2>1, <2>2, <2>3 DEF SnapshotOK, Contents
<1>8. op'.stale \cap Referenced(manifest)' = {}
  BY <1>1, <1>2, <1>3 DEF Writing, Referenced
<1>9. QED
  BY <1>1, <1>2, <1>3, <1>4, <1>6, <1>7, <1>8 DEF JournalInv, Answering, Writing, Replacing, Committed

\* Clean-up never touches what a reader follows.
LEMMA CleanupStep ==
  ASSUME JournalInv, (\E f \in Files : Unlink(f) \/ Reclaim(f)) \/ EndCleanup
  PROVE  JournalInv' /\ Snapshot' = Snapshot /\ op'.new = op.new /\ op'.answer = op.answer
         /\ {op.pc, op'.pc} \subseteq {"cleanup", "reclaim", "done"}
<1>1. /\ op.pc \in {"cleanup", "reclaim"} /\ op \in OpTypes /\ Committed /\ manifest' = manifest
      /\ op'.pc \in {"cleanup", "reclaim", "done"} /\ op'.new = op.new /\ op'.answer = op.answer
      /\ op'.stale \subseteq op.stale
  BY DEF Unlink, Reclaim, EndCleanup, JournalInv, JournalTyped, OpTypes
<1>2. op' \in OpTypes
  <2>1. CASE EndCleanup
    BY <1>1, <2>1 DEF EndCleanup, OpTypes
  <2>2. ASSUME NEW f \in Files, Unlink(f) PROVE op' \in OpTypes
    BY <1>1, <2>2 DEF Unlink, OpTypes
  <2>3. ASSUME NEW f \in Files, Reclaim(f) PROVE op' \in OpTypes
    BY <1>1, <2>3 DEF Reclaim
  <2>4. QED
    BY <2>1, <2>2, <2>3
<1>3. file' \in [Files -> Saved \cup {Nothing}] /\ \A f \in Referenced(manifest) : file'[f] = file[f]
  <2>1. CASE EndCleanup
    BY <2>1 DEF EndCleanup, JournalInv, JournalTyped
  <2>0. Referenced(manifest) \subseteq Files
    BY DEF Referenced, JournalInv, JournalTyped, Pointed
  <2>2. ASSUME NEW f \in Files, Unlink(f)
        PROVE  file' \in [Files -> Saved \cup {Nothing}] /\ \A g \in Referenced(manifest) : file'[g] = file[g]
    <3>1. f \notin Referenced(manifest) /\ file' \in {file, [file EXCEPT ![f] = Nothing]}
      BY <1>1, <2>2 DEF Unlink, Committed
    <3>2. QED
      BY <2>0, <3>1 DEF JournalInv, JournalTyped
  <2>3. ASSUME NEW f \in Files, Reclaim(f)
        PROVE  file' \in [Files -> Saved \cup {Nothing}] /\ \A g \in Referenced(manifest) : file'[g] = file[g]
    <3>1. f \notin Referenced(manifest) /\ file' = [file EXCEPT ![f] = Nothing]
      BY <2>3 DEF Reclaim, Orphans
    <3>2. QED
      BY <2>0, <3>1 DEF JournalInv, JournalTyped
  <2>4. QED
    BY <2>1, <2>2, <2>3
<1>4. Sound' /\ Snapshot' = Snapshot
  BY <1>1, <1>3, SameSnapshot DEF JournalInv
<1>5. JournalTyped'
  BY <1>1, <1>2, <1>3 DEF JournalInv, JournalTyped
<1>6. Committed'
  BY <1>1, <1>4 DEF Committed, Referenced
<1>7. QED
  BY <1>1, <1>4, <1>5, <1>6 DEF JournalInv, Answering, Writing, Replacing

\* An operation ends, or is cut short, and leaves the files as they are.
LEMMA EndOpStep ==
  ASSUME JournalInv, Return \/ Abort
  PROVE  /\ JournalInv' /\ Snapshot' = Snapshot /\ op.pc # "idle" /\ op'.pc = "idle"
         /\ Return => op'.answer = "true" /\ op.pc \in {"reclaim", "done"}
         /\ Abort => op'.answer = "false"
<1>1. op.pc # "idle" /\ UNCHANGED <<manifest, file>> /\ (op' = Idle("true") \/ op' = Idle("false"))
  BY DEF Return, Abort
<1>2. op' \in OpTypes
  BY <1>1, IdleTyped
<1>3. op'.pc = "idle" /\ op'.answer # "working"
  BY <1>1 DEF Idle
<1>4. Snapshot' = Snapshot
  BY <1>1 DEF Snapshot, ReadEntry
<1>5. JournalInv'
  BY <1>1, <1>2, <1>3 DEF JournalInv, JournalTyped, Sound, Answering, Writing, Replacing, Committed
<1>6. QED
  BY <1>1, <1>3, <1>4, <1>5 DEF Return, Abort, Idle

-----------------------------------------------------------------------------
\* Each step of the files is a step of the log or a stutter.
LogMaps == <<Snapshot, IF op.pc = "idle" THEN Snapshot ELSE op.new,
             op.pc \in {"cleanup", "reclaim", "done"}, op.answer>>

LEMMA JournalStep ==
  JournalInv /\ [JournalNext]_journalVars => JournalInv' /\ (Log!LogNext \/ UNCHANGED LogMaps)
<1> SUFFICES ASSUME JournalInv, [JournalNext]_journalVars
             PROVE  JournalInv' /\ (Log!LogNext \/ UNCHANGED LogMaps)
  OBVIOUS
<1>0. /\ op \in OpTypes /\ Answering
      /\ Log!Maps = Contents
  BY DEF JournalInv, JournalTyped, Log!Maps, Contents
<1>1. CASE (\E t \in Tasks, e \in Entries \cup {Nothing} : MutateEntry(t, e))
           \/ (\E new \in [Tasks -> Entries \cup {Nothing}] : MutateAll(new))
  <2>1. JournalInv' /\ op.pc = "idle" /\ op'.new \in Contents /\ op'.pc \in {"replace", "entries"}
    BY <1>1, MutateEntryStep, MutateAllStep DEF Contents
  <2>2. Snapshot' = Snapshot
    BY <1>1 DEF MutateEntry, MutateAll, Snapshot, ReadEntry
  <2>3. op'.answer = "working"
    BY <2>1 DEF JournalInv, Answering
  <2>4. Log!Ask
    BY <1>0, <2>1, <2>2, <2>3 DEF Log!Ask, Answering
  <2>5. QED
    BY <2>1, <2>4 DEF Log!LogNext
<1>2. CASE \E t \in Tasks : WriteEntry(t)
  <2>1. JournalInv' /\ Snapshot' = Snapshot /\ op'.pc = op.pc /\ op'.new = op.new
    BY <1>2, WriteEntryStep
  <2>2. op'.answer = op.answer
    BY <1>0, <1>2 DEF WriteEntry, OpTypes
  <2>3. QED
    BY <2>1, <2>2 DEF LogMaps
<1>3. CASE (\E f \in Files : Unlink(f) \/ Reclaim(f)) \/ EndCleanup
  BY <1>3, CleanupStep DEF LogMaps
<1>4. CASE Replace
  <2>1. JournalInv' /\ Snapshot' = op.new /\ op'.new = op.new
    BY <1>4, ReplaceStep
  <2>2. op.pc = "replace" /\ op'.pc = "done" /\ op'.answer = op.answer /\ op.answer = "working"
    BY <1>0, <1>4 DEF Replace, OpTypes, Answering
  <2>3. Log!Commit
    BY <2>1, <2>2 DEF Log!Commit
  <2>4. QED
    BY <2>1, <2>3 DEF Log!LogNext
<1>5. CASE WriteManifest
  <2>1. JournalInv' /\ Snapshot' = op.new /\ op.pc = "entries" /\ op'.pc = "cleanup" /\ op'.new = op.new
    BY <1>5, WriteManifestStep
  <2>2. op'.answer = op.answer /\ op.answer = "working"
    BY <1>0, <1>5, <2>1 DEF WriteManifest, OpTypes, Answering
  <2>3. Log!Commit
    BY <2>1, <2>2 DEF Log!Commit
  <2>4. QED
    BY <2>1, <2>3 DEF Log!LogNext
<1>6. CASE Return \/ Abort
  <2>1. JournalInv' /\ Snapshot' = Snapshot /\ op.pc # "idle" /\ op'.pc = "idle"
        /\ (Return => op'.answer = "true" /\ op.pc \in {"reclaim", "done"})
        /\ (Abort => op'.answer = "false")
    BY <1>6, EndOpStep
  <2>2. op.answer = "working"
    BY <1>0, <2>1 DEF Answering
  <2>3. Log!Confirm \/ Log!Abandon
    BY <1>6, <2>1, <2>2 DEF Log!Confirm, Log!Abandon
  <2>4. QED
    BY <2>1, <2>3 DEF Log!LogNext
<1>7. CASE UNCHANGED journalVars
  <2>1. manifest' = manifest /\ file' = file /\ op' = op /\ Snapshot' = Snapshot
    BY <1>7 DEF journalVars, Snapshot, ReadEntry
  <2>2. JournalTyped' /\ Sound' /\ Answering' /\ Writing' /\ Replacing'
    BY <2>1 DEF JournalInv, JournalTyped, Sound, Answering, Writing, Replacing, Referenced
  <2>3. Committed'
    BY <2>1 DEF JournalInv, Committed, Referenced
  <2>4. QED
    BY <2>1, <2>2, <2>3 DEF JournalInv, LogMaps
<1>8. QED
  BY <1>1, <1>2, <1>3, <1>4, <1>5, <1>6, <1>7 DEF JournalNext

\* A pointer of the manifest always leads to the entry of its task, so that no
\* reader meets a missing file, whatever fails or dies between the files.
THEOREM NothingDangles == JournalSpec => []Sound
<1>1. JournalInv => Sound
  BY DEF JournalInv
<1>2. QED
  BY <1>1, JournalInitInv, JournalStep, PTL DEF JournalSpec

\* The types of the journal, whatever its manifest's version: the lock's
\* holder and the file system keep theirs through every failure and death.
THEOREM JournalTypeCorrect == JournalSpec => []JournalTypeOK
<1>1. ASSUME JournalInv PROVE JournalTypeOK
  <2>1. manifest.version \in {1, 2} /\ DOMAIN manifest.entries = Tasks
    BY <1>1 DEF JournalInv, JournalTyped, Contents, Pointed
  <2>2. QED
    BY <1>1, <2>1 DEF JournalInv, JournalTyped, OpTypes, Pointed, JournalTypeOK
<1>2. QED
  BY <1>1, JournalInitInv, JournalStep, PTL DEF JournalSpec

\* The journal is an atomic log for any tasks, entries and files, whatever fails or
\* dies: a mutation happens at once or not at all, and one that answered true has.
THEOREM JournalRefinement == JournalSpec => ImplementsLog
<1>1. JournalInit => Log!LogInit
  <2> SUFFICES ASSUME JournalInit PROVE Log!LogInit
    OBVIOUS
  <2>1. Snapshot \in Contents
    BY JournalInitInv, SnapshotTyped DEF JournalInv, SnapshotOK
  <2>2. op.pc = "idle" /\ op.answer = "none"
    BY DEF JournalInit, Idle
  <2>3. QED
    BY <2>1, <2>2 DEF Log!LogInit, Log!Maps, Contents
<1>2. JournalInv /\ [JournalNext]_journalVars => [Log!LogNext]_(Log!logVars)
  BY JournalStep DEF Log!logVars, LogMaps
<1>3. QED
  BY <1>1, <1>2, JournalInitInv, JournalStep, PTL DEF JournalSpec, ImplementsLog, Log!LogSpec

-----------------------------------------------------------------------------
(* Background jobs.                                                        *)

\* A server that is down, or has not looked at the journal yet, holds nothing.
AtRest ==
    /\ ~server.up \/ server.boot => rec = Gone /\ turn = "none" /\ open = {} /\ closing = Gone
    /\ server.boot => server.up /\ entry # Gone

\* The record in memory is of an entry that is not complete yet, and a stream's of its
\* present attempt.
OneRecord ==
    /\ rec # Gone => /\ entry # Gone /\ entry.completion = "none" /\ closing = Gone
                     /\ turn = "model" => rec.attempt = entry.resumes
    /\ closing # Gone => entry # Gone /\ (closing.reported => report # "none" \/ faults > 0)

\* The job is taken on once.
TakenOnce == entry = Gone /\ report = "none" /\ faults = 0 =>
    ran = {} /\ ~stopped /\ open = {} /\ turn = "none"

\* A call that executes is recorded as started; none does while the job rests.
Executing ==
    /\ entry # Gone => \A id \in open : id \in DOMAIN entry.actions /\ entry.actions[id].status = "started"
    /\ turn = "starting" => open = {} /\ (entry # Gone => ~entry.disabled)
    /\ rec # Gone /\ rec.status = "paused" => open = {} /\ turn # "model"

\* The checkpoint knows of every call that was executed with its knowledge.
Checkpointed == entry # Gone =>
    /\ \A x \in ran : x.id # 0 => /\ x.id \in DOMAIN entry.actions
                                  /\ entry.actions[x.id].call = x.call
                                  /\ entry.actions[x.id].attempt = x.attempt
    /\ \A i \in DOMAIN entry.actions : entry.actions[i].attempt <= entry.resumes

\* A later attempt has recorded a call again only if that was authorized.
Ordered == entry # Gone =>
    \A i, j \in DOMAIN entry.actions :
        /\ i < j /\ entry.actions[i].attempt < entry.actions[j].attempt
        /\ entry.actions[i].call = entry.actions[j].call /\ entry.actions[i].call \in Mutations
        => entry.actions[i].status = "retry_authorized"

\* A job that ran without recovery has no further attempt, unless a write failed.
LastAttempt == faults = 0 /\ entry # Gone =>
    /\ rec # Gone /\ rec.disabled => entry.disabled
    /\ \A x \in ran : x.id = 0 => entry.disabled /\ x.attempt = entry.resumes

\* After a confirmed Stop the job is on its way to its end, or waits for the user.
Stopping == stopped =>
    /\ entry # Gone => /\ entry.completion # "done"
                       /\ entry.completion # "none" \/ entry.status \in {"cancelled", "paused"}
    /\ rec # Gone => \/ rec.stop /\ rec.status \in {"cancelling", "paused"}
                     \/ rec.status = "paused" /\ turn = "none"
    /\ turn = "starting" => rec = Gone \/ rec.status = "cancelling"
    /\ closing # Gone => closing.status # "done"

TasksInv == /\ TasksTypeOK /\ AtRest /\ OneRecord /\ TakenOnce /\ Executing /\ Checkpointed /\ Ordered
            /\ LastAttempt /\ Stopping

-----------------------------------------------------------------------------
\* What a write of the entry leaves, whether it is confirmed or not.
LEMMA SaveEffects ==
  ASSUME TasksTypeOK, NEW new \in EntryRecords \cup {Gone}, NEW saved \in BOOLEAN, Save(new, saved)
  PROVE  /\ entry' \in EntryRecords \cup {Gone} /\ entry' \in {entry, new}
         /\ faults' \in Nat /\ faults' >= faults
         /\ saved => entry' = new /\ faults' = faults
         /\ ~saved => faults' > 0
         /\ form' \in {"none", "fresh", "stale"}
BY DEF TasksTypeOK, Save

\* An entry that changes without its calls remembers them as before.
LEMMA SameCalls ==
  ASSUME Checkpointed, Ordered, ran' = ran,
         entry' # Gone => /\ entry # Gone /\ entry'.resumes = entry.resumes
                          /\ entry'.actions = entry.actions
  PROVE  Checkpointed' /\ Ordered'
<1>1. CASE entry' = Gone
  BY <1>1 DEF Checkpointed, Ordered
<1>2. CASE entry' # Gone
  BY <1>2 DEF Checkpointed, Ordered
<1>3. QED
  BY <1>1, <1>2

LEMMA TasksInitInv == TasksInit => TasksInv
<1> SUFFICES ASSUME TasksInit PROVE TasksInv
  OBVIOUS
<1>1. TasksTypeOK
  BY DEF TasksInit, TasksTypeOK
<1>2. AtRest /\ OneRecord /\ TakenOnce /\ Executing
  BY DEF TasksInit, AtRest, OneRecord, TakenOnce, Executing
<1>3. Checkpointed /\ Ordered /\ LastAttempt /\ Stopping
  BY DEF TasksInit, Checkpointed, Ordered, LastAttempt, Stopping
<1>4. QED
  BY <1>1, <1>2, <1>3 DEF TasksInv

\* The completion in progress is a record of its own.
LEMMA ClosingRecord ==
  ASSUME NEW status \in {"done", "error", "cancelled"}, NEW durable \in BOOLEAN
  PROVE  /\ Closing(status, durable) \in Closings /\ Closing(status, durable) # Gone
         /\ Closing(status, durable).status = status /\ ~Closing(status, durable).reported
<1>1. Closing(status, durable) \in Closings
  BY DEF Closing, Closings
<1>2. Closing(status, durable).status = status /\ ~Closing(status, durable).reported
  BY DEF Closing
<1>3. QED
  BY <1>1, <1>2, TasksAssumption

\* A call without a record is the last attempt's.
LEMMA RunUnrecordedStep ==
  ASSUME TasksInv, NEW c \in Calls, RunUnrecorded(c)
  PROVE  TasksInv'
<1> USE DEF TasksInv
<1>1. /\ turn = "model" /\ rec # Gone /\ ~rec.stop /\ rec.disabled
      /\ UNCHANGED <<server, entry, rec, turn, open, closing, report, form, faults, stopped>>
  BY DEF RunUnrecorded, Streaming
<1>2. ran' \in {ran, ran \cup {[call |-> c, id |-> 0, attempt |-> rec.attempt]}} /\ rec.attempt \in Nat
  BY <1>1 DEF RunUnrecorded, Executes, TasksTypeOK, TaskRecords
<1>3. ~stopped
  BY <1>1 DEF Stopping
<1>4. TasksTypeOK'
  BY <1>1, <1>2, <1>3 DEF TasksTypeOK
<1>5. AtRest'
  BY <1>1, <1>2, <1>3 DEF AtRest, TasksTypeOK
<1>6. OneRecord'
  BY <1>1, <1>2, <1>3 DEF OneRecord, TasksTypeOK
<1>7. TakenOnce'
  BY <1>1, <1>2, <1>3 DEF TakenOnce, TasksTypeOK
<1>8. Executing'
  BY <1>1, <1>2, <1>3 DEF Executing, TasksTypeOK
<1>9. Checkpointed'
  BY <1>1, <1>2, <1>3 DEF Checkpointed, TasksTypeOK
<1>10. Ordered'
  BY <1>1, <1>2, <1>3 DEF Ordered, TasksTypeOK
<1>11. LastAttempt'
  BY <1>1, <1>2, <1>3 DEF LastAttempt, TasksTypeOK, OneRecord
<1>12. Stopping'
  BY <1>1, <1>2, <1>3 DEF Stopping, TasksTypeOK
<1>13. QED
  BY <1>4, <1>5, <1>6, <1>7, <1>8, <1>9, <1>10, <1>11, <1>12 DEF TasksInv

\* The report is in the chat before the completion is called reported.
LEMMA AppendReportStep ==
  ASSUME TasksInv, NEW stored \in BOOLEAN, AppendReport(stored)
  PROVE  TasksInv'
<1> USE DEF TasksInv
<1>1. /\ closing # Gone /\ UNCHANGED <<server, entry, rec, turn, open, form, ran, stopped>>
      /\ report' = IF stored /\ report = "none" THEN closing.status ELSE report
      /\ closing' = [closing EXCEPT !.reported = TRUE, !.durable = @ /\ stored]
      /\ faults' = IF stored THEN faults ELSE faults + 1
  BY DEF AppendReport
<1>2. closing \in Closings /\ closing' \in Closings /\ closing'.status = closing.status /\ faults' \in Nat /\ faults' >= faults
  <2>1. closing \in [status : {"done", "error", "cancelled"}, durable : BOOLEAN, reported : BOOLEAN]
    BY <1>1 DEF TasksTypeOK, Closings
  <2>2. (closing.durable /\ stored) \in BOOLEAN
    OBVIOUS
  <2>3. closing' \in Closings /\ closing'.status = closing.status
    BY <1>1, <2>1, <2>2 DEF Closings
  <2>4. QED
    BY <1>1, <2>1, <2>3 DEF TasksTypeOK, Closings
<1>3. (report' # "none" \/ faults' > 0) /\ report' \in {"none", "done", "error", "cancelled"}
  BY <1>1, <1>2 DEF TasksTypeOK, Closings
<1>4. report # "none" => report' # "none"
  BY <1>1
<1>5. TasksTypeOK'
  BY <1>1, <1>2, <1>3, <1>4 DEF TasksTypeOK
<1>6. AtRest'
  BY <1>1, <1>2, <1>3, <1>4 DEF AtRest, TasksTypeOK
<1>7. OneRecord'
  BY <1>1, <1>2, <1>3, <1>4 DEF OneRecord, TasksTypeOK
<1>8. TakenOnce'
  BY <1>1, <1>2, <1>3, <1>4 DEF TakenOnce, TasksTypeOK
<1>9. Executing'
  BY <1>1, <1>2, <1>3, <1>4 DEF Executing, TasksTypeOK
<1>10. Checkpointed' /\ Ordered'
  BY <1>1, SameCalls
<1>11. LastAttempt'
  BY <1>1, <1>2, <1>3, <1>4 DEF LastAttempt, TasksTypeOK
<1>12. Stopping'
  BY <1>1, <1>2, <1>3, <1>4 DEF Stopping, TasksTypeOK
<1>13. QED
  BY <1>5, <1>6, <1>7, <1>8, <1>9, <1>10, <1>11, <1>12 DEF TasksInv

\* What the process held is lost.
LEMMA CrashStep ==
  ASSUME TasksInv, Crash
  PROVE  TasksInv'
<1> USE DEF TasksInv
<1>1. /\ server.up /\ server' = [server EXCEPT !.up = FALSE, !.boot = FALSE]
      /\ rec' = Gone /\ turn' = "none" /\ open' = {} /\ closing' = Gone
      /\ UNCHANGED <<entry, report, form, faults, ran, stopped>>
  BY DEF Crash
<1>2. server' \in [up : BOOLEAN, life : Nat, boot : BOOLEAN] /\ ~server'.up /\ ~server'.boot
  BY <1>1 DEF TasksTypeOK
<1>3. TasksTypeOK'
  BY <1>1, <1>2 DEF TasksTypeOK
<1>4. AtRest'
  BY <1>1, <1>2 DEF AtRest, TasksTypeOK
<1>5. OneRecord'
  BY <1>1, <1>2 DEF OneRecord, TasksTypeOK
<1>6. TakenOnce'
  BY <1>1, <1>2 DEF TakenOnce, TasksTypeOK
<1>7. Executing'
  BY <1>1, <1>2 DEF Executing, TasksTypeOK
<1>8. Checkpointed' /\ Ordered'
  BY <1>1, SameCalls
<1>9. LastAttempt'
  BY <1>1, <1>2 DEF LastAttempt, TasksTypeOK
<1>10. Stopping'
  BY <1>1, <1>2 DEF Stopping, TasksTypeOK
<1>11. QED
  BY <1>3, <1>4, <1>5, <1>6, <1>7, <1>8, <1>9, <1>10 DEF TasksInv

\* The next server has read nothing yet.
LEMMA RestartStep ==
  ASSUME TasksInv, Restart
  PROVE  TasksInv'
<1> USE DEF TasksInv
<1>1. /\ ~server.up /\ server' = [up |-> TRUE, life |-> server.life + 1, boot |-> entry # Gone]
      /\ UNCHANGED <<entry, rec, turn, open, closing, report, form, faults, ran, stopped>>
  BY DEF Restart
<1>2. server' \in [up : BOOLEAN, life : Nat, boot : BOOLEAN] /\ server'.up /\ server'.boot = (entry # Gone)
  BY <1>1 DEF TasksTypeOK
<1>3. TasksTypeOK'
  BY <1>1, <1>2 DEF TasksTypeOK
<1>4. AtRest'
  BY <1>1, <1>2 DEF AtRest, TasksTypeOK
<1>5. OneRecord'
  BY <1>1, <1>2 DEF OneRecord, TasksTypeOK
<1>6. TakenOnce'
  BY <1>1, <1>2 DEF TakenOnce, TasksTypeOK
<1>7. Executing'
  BY <1>1, <1>2 DEF Executing, TasksTypeOK
<1>8. Checkpointed' /\ Ordered'
  BY <1>1, SameCalls
<1>9. LastAttempt'
  BY <1>1, <1>2 DEF LastAttempt, TasksTypeOK
<1>10. Stopping'
  BY <1>1, <1>2 DEF Stopping, TasksTypeOK
<1>11. QED
  BY <1>3, <1>4, <1>5, <1>6, <1>7, <1>8, <1>9, <1>10 DEF TasksInv

\* The user looks at the entry.
LEMMA OpenFormStep ==
  ASSUME TasksInv, OpenForm
  PROVE  TasksInv'
<1> USE DEF TasksInv
<1>1. /\ form' = "fresh"
      /\ UNCHANGED <<server, entry, rec, turn, open, closing, report, faults, ran, stopped>>
  BY DEF OpenForm
<1>2. TasksTypeOK'
  BY <1>1 DEF TasksTypeOK
<1>3. AtRest'
  BY <1>1 DEF AtRest, TasksTypeOK
<1>4. OneRecord'
  BY <1>1 DEF OneRecord, TasksTypeOK
<1>5. TakenOnce'
  BY <1>1 DEF TakenOnce, TasksTypeOK
<1>6. Executing'
  BY <1>1 DEF Executing, TasksTypeOK
<1>7. Checkpointed' /\ Ordered'
  BY <1>1, SameCalls
<1>8. LastAttempt'
  BY <1>1 DEF LastAttempt, TasksTypeOK
<1>9. Stopping'
  BY <1>1 DEF Stopping, TasksTypeOK
<1>10. QED
  BY <1>2, <1>3, <1>4, <1>5, <1>6, <1>7, <1>8, <1>9 DEF TasksInv

\* A job that cannot go on is reported as it ended, or as interrupted.
LEMMA ReportInterruptedStep ==
  ASSUME TasksInv, ReportInterrupted
  PROVE  TasksInv'
<1> USE DEF TasksInv
<1>1. /\ server.up /\ server.boot /\ server' = [server EXCEPT !.boot = FALSE]
      /\ closing' = Closing(Outcome, TRUE)
      /\ UNCHANGED <<entry, rec, turn, open, report, form, faults, ran, stopped>>
  BY DEF ReportInterrupted
<1>2. /\ server' \in [up : BOOLEAN, life : Nat, boot : BOOLEAN] /\ server'.up /\ ~server'.boot
      /\ entry \in EntryRecords /\ entry # Gone /\ rec = Gone /\ turn = "none" /\ open = {}
  BY <1>1 DEF TasksTypeOK, AtRest
<1>3. /\ closing' \in Closings /\ closing' # Gone /\ ~closing'.reported
      /\ stopped => closing'.status # "done"
  <2>1. Outcome \in {"done", "error", "cancelled"} /\ (stopped => Outcome # "done")
    BY <1>1, <1>2 DEF Outcome, EntryRecords, Stopping
  <2>2. QED
    BY <1>1, <2>1, ClosingRecord
<1>4. TasksTypeOK'
  BY <1>1, <1>2, <1>3 DEF TasksTypeOK
<1>5. AtRest'
  BY <1>1, <1>2, <1>3 DEF AtRest, TasksTypeOK
<1>6. OneRecord'
  BY <1>1, <1>2, <1>3 DEF OneRecord, TasksTypeOK
<1>7. TakenOnce'
  BY <1>1, <1>2, <1>3 DEF TakenOnce, TasksTypeOK
<1>8. Executing'
  BY <1>1, <1>2, <1>3 DEF Executing, TasksTypeOK
<1>9. Checkpointed' /\ Ordered'
  BY <1>1, SameCalls
<1>10. LastAttempt'
  BY <1>1, <1>2, <1>3 DEF LastAttempt, TasksTypeOK
<1>11. Stopping'
  BY <1>1, <1>2, <1>3 DEF Stopping, TasksTypeOK
<1>12. QED
  BY <1>4, <1>5, <1>6, <1>7, <1>8, <1>9, <1>10, <1>11 DEF TasksInv

\* The job is taken on.
LEMMA DispatchStep ==
  ASSUME TasksInv, NEW disabled \in BOOLEAN, NEW saved \in BOOLEAN, Dispatch(disabled, saved)
  PROVE  TasksInv'
<1> USE DEF TasksInv
<1>1. /\ server.up /\ entry = Gone /\ report = "none" /\ faults = 0 /\ rec = Gone /\ closing = Gone
      /\ ran = {} /\ ~stopped /\ open = {} /\ turn = "none" /\ ~server.boot
      /\ UNCHANGED <<server, open, closing, report, ran, stopped>>
  BY DEF Dispatch, AtRest, OneRecord, TakenOnce
<1>2. [status |-> "running", resumes |-> 0, disabled |-> disabled, actions |-> <<>>, completion |-> "none"] \in EntryRecords
  BY DEF EntryRecords, Actions
<1>3. /\ entry' \in {entry, [status |-> "running", resumes |-> 0, disabled |-> disabled, actions |-> <<>>, completion |-> "none"]}
      /\ entry' \in EntryRecords \cup {Gone} /\ faults' \in Nat /\ form' \in {"none", "fresh", "stale"}
      /\ saved => entry' # Gone
      /\ ~saved => faults' > 0
  BY <1>2, SaveEffects, TasksAssumption DEF Dispatch
<1>4. /\ saved => rec' = Record(disabled, 0) /\ turn' = "model"
      /\ ~saved => rec' = Gone /\ turn' = turn
  BY <1>1 DEF Dispatch
<1>5. Record(disabled, 0) \in TaskRecords
  BY DEF Record, TaskRecords
<1>6. TasksTypeOK'
  BY <1>1, <1>2, <1>3, <1>4, <1>5 DEF TasksTypeOK, Record
<1>7. AtRest'
  BY <1>1, <1>2, <1>3, <1>4, <1>5 DEF AtRest, TasksTypeOK
<1>8. OneRecord'
  BY <1>1, <1>2, <1>3, <1>4, <1>5 DEF OneRecord, TasksTypeOK, Record
<1>9. TakenOnce'
  BY <1>1, <1>2, <1>3, <1>4, <1>5 DEF TakenOnce, TasksTypeOK
<1>10. Executing'
  BY <1>1, <1>2, <1>3, <1>4, <1>5 DEF Executing, TasksTypeOK, Record
<1>11. Checkpointed'
  BY <1>1, <1>2, <1>3, <1>4, <1>5 DEF Checkpointed, TasksTypeOK
<1>12. Ordered'
  BY <1>1, <1>2, <1>3, <1>4, <1>5 DEF Ordered, TasksTypeOK
<1>13. LastAttempt'
  BY <1>1, <1>2, <1>3, <1>4, <1>5 DEF LastAttempt, TasksTypeOK, Record
<1>14. Stopping'
  BY <1>1, <1>2, <1>3, <1>4, <1>5 DEF Stopping, TasksTypeOK
<1>15. QED
  BY <1>6, <1>7, <1>8, <1>9, <1>10, <1>11, <1>12, <1>13, <1>14 DEF TasksInv

\* Recovery is switched off.
LEMMA DisableRecoveryStep ==
  ASSUME TasksInv, NEW hidden \in BOOLEAN, NEW saved \in BOOLEAN, DisableRecovery(hidden, saved)
  PROVE  TasksInv'
<1> USE DEF TasksInv
<1>1. /\ entry \in EntryRecords /\ rec \in TaskRecords /\ rec # Gone /\ turn = "model" /\ ~stopped /\ rec.status # "paused"
      /\ UNCHANGED <<server, turn, open, closing, report, ran, stopped>>
  BY DEF DisableRecovery, Streaming, TasksTypeOK, OneRecord, Executing, Stopping
<1>2. [entry EXCEPT !.disabled = TRUE] \in EntryRecords
  BY <1>1 DEF EntryRecords
<1>3. /\ entry' \in EntryRecords /\ entry' # Gone /\ entry' \in {entry, [entry EXCEPT !.disabled = TRUE]}
      /\ faults' \in Nat /\ faults' >= faults /\ form' \in {"none", "fresh", "stale"}
      /\ saved => entry' = [entry EXCEPT !.disabled = TRUE]
      /\ ~saved => faults' > 0
  BY <1>1, <1>2, SaveEffects, TasksAssumption DEF DisableRecovery
<1>4. /\ entry'.resumes = entry.resumes /\ entry'.actions = entry.actions /\ entry'.completion = entry.completion
      /\ entry'.status = entry.status /\ (saved => entry'.disabled) /\ (entry.disabled => entry'.disabled)
      /\ entry # Gone /\ entry' # Gone /\ faults' \in Nat /\ faults' >= faults /\ (~saved => faults' > 0)
  BY <1>1, <1>3, TasksAssumption DEF EntryRecords
<1>5. /\ rec' \in TaskRecords /\ rec' # Gone /\ rec'.attempt = rec.attempt /\ rec'.status = rec.status /\ rec'.stop = rec.stop
      /\ rec'.disabled => rec.disabled \/ saved
  BY <1>1, TasksAssumption DEF DisableRecovery, TaskRecords
<1>6. TasksTypeOK'
  BY <1>1, <1>2, <1>3, <1>4, <1>5 DEF TasksTypeOK
<1>7. AtRest'
  BY <1>1, <1>4, <1>5 DEF AtRest
<1>8. OneRecord'
  BY <1>1, <1>4, <1>5 DEF OneRecord, TasksTypeOK
<1>9. TakenOnce'
  BY <1>1, <1>4, <1>5 DEF TakenOnce, TasksTypeOK
<1>10. Executing'
  BY <1>1, <1>4, <1>5 DEF Executing
<1>11. Checkpointed' /\ Ordered'
  BY <1>1, <1>4, <1>5, SameCalls
<1>12. LastAttempt'
  BY <1>1, <1>4, <1>5 DEF LastAttempt, TasksTypeOK
<1>13. Stopping'
  BY <1>1, <1>4, <1>5 DEF Stopping
<1>14. QED
  BY <1>6, <1>7, <1>8, <1>9, <1>10, <1>11, <1>12, <1>13 DEF TasksInv

\* The end of a job marks its entry and gives its record up.
LEMMA CompleteStep ==
  ASSUME TasksInv, NEW saved \in BOOLEAN, NEW status \in {"done", "error", "cancelled"},
         server.up, rec # Gone, stopped => status # "done", Complete(status, saved)
  PROVE  TasksInv'
<1> USE DEF TasksInv
<1>1. /\ entry \in EntryRecords /\ rec \in TaskRecords /\ rec # Gone /\ ~server.boot
      /\ closing' = Closing(status, saved) /\ rec' = Gone /\ turn' = IF turn = "model" THEN "none" ELSE turn
      /\ UNCHANGED <<server, open, report, ran, stopped>>
  BY DEF Complete, TasksTypeOK, OneRecord, AtRest
<1>2. [entry EXCEPT !.completion = status] \in EntryRecords
  BY <1>1 DEF EntryRecords
<1>3. /\ entry' \in EntryRecords /\ entry' # Gone /\ entry' \in {entry, [entry EXCEPT !.completion = status]}
      /\ faults' \in Nat /\ faults' >= faults /\ form' \in {"none", "fresh", "stale"}
  BY <1>1, <1>2, SaveEffects, TasksAssumption DEF Complete
<1>4. /\ entry'.resumes = entry.resumes /\ entry'.actions = entry.actions
      /\ entry'.completion \in {entry.completion, status}
      /\ entry'.status = entry.status /\ entry'.disabled = entry.disabled
      /\ entry # Gone /\ entry' # Gone /\ faults' \in Nat /\ faults' >= faults
  BY <1>1, <1>3, TasksAssumption DEF EntryRecords
<1>5. closing' \in Closings /\ closing' # Gone /\ closing'.status = status /\ ~closing'.reported
  BY <1>1, ClosingRecord
<1>6. TasksTypeOK'
  BY <1>1, <1>2, <1>3, <1>4, <1>5 DEF TasksTypeOK
<1>7. AtRest'
  BY <1>1, <1>4, <1>5 DEF AtRest
<1>8. OneRecord'
  BY <1>1, <1>4, <1>5 DEF OneRecord, TasksTypeOK
<1>9. TakenOnce'
  BY <1>1, <1>4, <1>5 DEF TakenOnce, TasksTypeOK
<1>10. Executing'
  BY <1>1, <1>4, <1>5 DEF Executing
<1>11. Checkpointed' /\ Ordered'
  BY <1>1, <1>4, <1>5, SameCalls
<1>12. LastAttempt'
  BY <1>1, <1>4, <1>5 DEF LastAttempt, TasksTypeOK
<1>13. Stopping'
  BY <1>1, <1>4, <1>5 DEF Stopping
<1>14. QED
  BY <1>6, <1>7, <1>8, <1>9, <1>10, <1>11, <1>12, <1>13 DEF TasksInv

LEMMA EndsStep ==
  ASSUME TasksInv, NEW saved \in BOOLEAN,
         (\E status \in {"done", "error"} : EndTurn(status, saved)) \/ StopCompletes(saved) \/ Reap(saved)
  PROVE  TasksInv'
<1>1. ASSUME NEW status \in {"done", "error"}, EndTurn(status, saved) PROVE TasksInv'
  <2>1. server.up /\ rec # Gone /\ ~stopped
    BY <1>1 DEF EndTurn, Streaming, TasksInv, Stopping
  <2>2. QED
    BY <1>1, <2>1, CompleteStep DEF EndTurn
<1>2. CASE StopCompletes(saved)
  BY <1>2, CompleteStep DEF StopCompletes
<1>3. CASE Reap(saved)
  <2>1. CASE rec.status = "cancelling"
    BY <1>3, <2>1, CompleteStep DEF Reap
  <2>2. CASE rec.status # "cancelling"
    BY <1>3, <2>2, CompleteStep DEF Reap
  <2>3. QED
    BY <2>1, <2>2
<1>4. QED
  BY <1>1, <1>2, <1>3

\* The job waits for the user.
LEMMA BudgetPauseStep ==
  ASSUME TasksInv, NEW saved \in BOOLEAN, BudgetPause(saved)
  PROVE  TasksInv'
<1> USE DEF TasksInv
<1>1. /\ entry \in EntryRecords /\ rec \in TaskRecords /\ rec # Gone /\ turn = "model" /\ turn' = "none" /\ ~stopped /\ open = {}
      /\ UNCHANGED <<server, open, closing, report, ran, stopped>>
  BY DEF BudgetPause, Streaming, TasksTypeOK, OneRecord, Stopping
<1>2. Paused \in EntryRecords
  BY <1>1 DEF EntryRecords, Paused
<1>3. /\ entry' \in EntryRecords /\ entry' # Gone /\ entry' \in {entry, Paused}
      /\ faults' \in Nat /\ faults' >= faults /\ form' \in {"none", "fresh", "stale"}
      /\ saved => entry' = Paused
      /\ ~saved => faults' > 0
  BY <1>1, <1>2, SaveEffects, TasksAssumption DEF BudgetPause
<1>4. /\ entry'.resumes = entry.resumes /\ entry'.actions = entry.actions /\ entry'.completion = entry.completion
      /\ entry'.disabled = entry.disabled
      /\ entry # Gone /\ entry' # Gone /\ faults' \in Nat /\ faults' >= faults
  BY <1>1, <1>3, TasksAssumption DEF EntryRecords, Paused
<1>5. /\ rec' \in TaskRecords /\ rec' # Gone /\ rec'.attempt = rec.attempt /\ rec'.disabled = rec.disabled
  BY <1>1, TasksAssumption DEF BudgetPause, TaskRecords
<1>6. TasksTypeOK'
  BY <1>1, <1>2, <1>3, <1>4, <1>5 DEF TasksTypeOK
<1>7. AtRest'
  BY <1>1, <1>4, <1>5 DEF AtRest
<1>8. OneRecord'
  BY <1>1, <1>4, <1>5 DEF OneRecord, TasksTypeOK
<1>9. TakenOnce'
  BY <1>1, <1>4, <1>5 DEF TakenOnce, TasksTypeOK
<1>10. Executing'
  BY <1>1, <1>4, <1>5 DEF Executing
<1>11. Checkpointed' /\ Ordered'
  BY <1>1, <1>4, <1>5, SameCalls
<1>12. LastAttempt'
  BY <1>1, <1>4, <1>5 DEF LastAttempt, TasksTypeOK
<1>13. Stopping'
  BY <1>1, <1>4, <1>5 DEF Stopping
<1>14. QED
  BY <1>6, <1>7, <1>8, <1>9, <1>10, <1>11, <1>12, <1>13 DEF TasksInv

\* The cancellation is saved, and only then the job is interrupted.
LEMMA StopStep ==
  ASSUME TasksInv, NEW saved \in BOOLEAN, Stop(saved)
  PROVE  TasksInv'
<1> USE DEF TasksInv
<1>1. /\ entry \in EntryRecords /\ rec \in TaskRecords /\ rec # Gone /\ entry.completion = "none" /\ closing = Gone /\ server.up
      /\ UNCHANGED <<server, turn, open, closing, report, ran>>
  BY DEF Stop, TasksTypeOK, OneRecord
<1>2. [entry EXCEPT !.status = "cancelled"] \in EntryRecords
  BY <1>1 DEF EntryRecords
<1>3. /\ entry' \in EntryRecords /\ entry' # Gone /\ entry' \in {entry, [entry EXCEPT !.status = "cancelled"]}
      /\ faults' \in Nat /\ faults' >= faults /\ form' \in {"none", "fresh", "stale"}
      /\ saved => entry' = [entry EXCEPT !.status = "cancelled"]
      /\ ~saved => faults' > 0
  BY <1>1, <1>2, SaveEffects, TasksAssumption DEF Stop
<1>4. /\ entry'.resumes = entry.resumes /\ entry'.actions = entry.actions /\ entry'.completion = entry.completion
      /\ entry'.disabled = entry.disabled /\ entry'.status \in {entry.status, "cancelled"}
      /\ (saved => entry'.status = "cancelled")
      /\ entry # Gone /\ entry' # Gone /\ faults' \in Nat /\ faults' >= faults
  BY <1>1, <1>3, TasksAssumption DEF EntryRecords
<1>5. /\ rec' \in TaskRecords /\ rec' # Gone /\ rec'.attempt = rec.attempt /\ rec'.disabled = rec.disabled
      /\ saved => rec'.status = "cancelling" /\ rec'.stop /\ stopped'
      /\ ~saved => rec' = rec /\ stopped' = stopped
  BY <1>1, TasksAssumption DEF Stop, TaskRecords
<1>6. TasksTypeOK'
  BY <1>1, <1>2, <1>3, <1>4, <1>5 DEF TasksTypeOK
<1>7. AtRest'
  BY <1>1, <1>4, <1>5 DEF AtRest
<1>8. OneRecord'
  BY <1>1, <1>4, <1>5 DEF OneRecord, TasksTypeOK
<1>9. TakenOnce'
  BY <1>1, <1>4, <1>5 DEF TakenOnce, TasksTypeOK
<1>10. Executing'
  BY <1>1, <1>4, <1>5 DEF Executing
<1>11. Checkpointed' /\ Ordered'
  BY <1>1, <1>4, <1>5, SameCalls
<1>12. LastAttempt'
  BY <1>1, <1>4, <1>5 DEF LastAttempt, TasksTypeOK
<1>13. Stopping'
  BY <1>1, <1>4, <1>5 DEF Stopping
<1>14. QED
  BY <1>6, <1>7, <1>8, <1>9, <1>10, <1>11, <1>12, <1>13 DEF TasksInv

\* A reported job leaves the journal.
LEMMA RemoveStep ==
  ASSUME TasksInv, NEW saved \in BOOLEAN, Remove(saved)
  PROVE  TasksInv'
<1> USE DEF TasksInv
<1>1. /\ closing # Gone /\ closing.reported /\ closing' = Gone /\ entry # Gone /\ rec = Gone
      /\ report # "none" \/ faults > 0
      /\ UNCHANGED <<server, rec, turn, open, report, ran, stopped>>
  BY DEF Remove, OneRecord
<1>2. /\ entry' \in EntryRecords \cup {Gone} /\ entry' \in {entry, Gone}
      /\ faults' \in Nat /\ faults' >= faults /\ form' \in {"none", "fresh", "stale"}
  BY SaveEffects DEF Remove, TasksTypeOK
<1>3. TasksTypeOK'
  BY <1>1, <1>2 DEF TasksTypeOK
<1>4. AtRest'
  BY <1>1, <1>2 DEF AtRest, TasksTypeOK
<1>5. OneRecord'
  BY <1>1, <1>2 DEF OneRecord, TasksTypeOK
<1>6. TakenOnce'
  BY <1>1, <1>2 DEF TakenOnce, TasksTypeOK
<1>7. Executing'
  BY <1>1, <1>2 DEF Executing, TasksTypeOK
<1>8. Checkpointed' /\ Ordered'
  BY <1>1, <1>2, SameCalls
<1>9. LastAttempt'
  BY <1>1, <1>2 DEF LastAttempt, TasksTypeOK
<1>10. Stopping'
  BY <1>1, <1>2 DEF Stopping, TasksTypeOK
<1>11. QED
  BY <1>3, <1>4, <1>5, <1>6, <1>7, <1>8, <1>9, <1>10 DEF TasksInv

\* The next server takes the job over, or shows it to the user.
LEMMA RecoverStep ==
  ASSUME TasksInv, NEW claimed \in BOOLEAN, NEW saved \in BOOLEAN, Recover(claimed, saved)
  PROVE  TasksInv'
<1> USE DEF TasksInv
<1>1. /\ server.up /\ server.boot /\ Recoverable /\ entry \in EntryRecords /\ entry # Gone /\ rec = Gone /\ turn = "none"
      /\ open = {} /\ closing = Gone
      /\ server' = [server EXCEPT !.boot = FALSE]
      /\ UNCHANGED <<open, closing, report, ran, stopped>>
  BY DEF Recover, Recoverable, TasksTypeOK, AtRest
<1>2. Paused \in EntryRecords
  BY <1>1 DEF EntryRecords, Paused
<1>3. /\ entry' \in EntryRecords /\ entry' # Gone /\ entry' \in {entry, Paused}
      /\ faults' \in Nat /\ faults' >= faults /\ form' \in {"none", "fresh", "stale"}
  <2>1. CASE claimed /\ NeedsReview
    BY <1>1, <1>2, <2>1, SaveEffects, TasksAssumption DEF Recover
  <2>2. CASE ~(claimed /\ NeedsReview)
    BY <1>1, <2>2, SaveEffects, TasksAssumption DEF Recover
  <2>3. QED
    BY <2>1, <2>2
<1>4. /\ entry'.resumes = entry.resumes /\ entry'.actions = entry.actions /\ entry'.completion = entry.completion
      /\ entry'.disabled = entry.disabled /\ entry'.status \in {entry.status, "paused"}
      /\ ~entry.disabled /\ entry.completion = "none" /\ entry.status # "cancelled"
      /\ entry # Gone /\ entry' # Gone /\ faults' \in Nat /\ faults' >= faults
  BY <1>1, <1>3, TasksAssumption DEF EntryRecords, Paused, Recoverable, Changeable
<1>5. /\ rec' \in TaskRecords \cup {Gone}
      /\ rec' # Gone => rec'.attempt = entry.resumes /\ rec'.status = "paused" /\ ~rec'.disabled
  BY <1>1 DEF Recover, Record, TaskRecords, EntryRecords
<1>6. /\ turn' \in {"none", "starting"}
      /\ turn' = "starting" => entry.status # "paused"
  BY <1>1 DEF Recover, NeedsReview
<1>7. server' \in [up : BOOLEAN, life : Nat, boot : BOOLEAN] /\ server'.up /\ ~server'.boot
  BY <1>1 DEF TasksTypeOK
<1>8. TasksTypeOK'
  BY <1>1, <1>2, <1>3, <1>4, <1>5, <1>6, <1>7 DEF TasksTypeOK
<1>9. AtRest'
  BY <1>1, <1>4, <1>5, <1>6, <1>7 DEF AtRest
<1>10. OneRecord'
  BY <1>1, <1>4, <1>5, <1>6, <1>7 DEF OneRecord, TasksTypeOK
<1>11. TakenOnce'
  BY <1>1, <1>4, <1>5, <1>6, <1>7 DEF TakenOnce, TasksTypeOK
<1>12. Executing'
  BY <1>1, <1>4, <1>5, <1>6, <1>7 DEF Executing
<1>13. Checkpointed' /\ Ordered'
  BY <1>1, <1>4, <1>5, <1>6, <1>7, SameCalls
<1>14. LastAttempt'
  BY <1>1, <1>4, <1>5, <1>6, <1>7 DEF LastAttempt, TasksTypeOK
<1>15. Stopping'
  BY <1>1, <1>4, <1>5, <1>6, <1>7 DEF Stopping
<1>16. QED
  BY <1>8, <1>9, <1>10, <1>11, <1>12, <1>13, <1>14, <1>15 DEF TasksInv

\* A job that could not be resumed is shown to the user.
LEMMA StartFailsStep ==
  ASSUME TasksInv, NEW saved \in BOOLEAN, StartFails(saved)
  PROVE  TasksInv'
<1> USE DEF TasksInv
<1>1. /\ server.up /\ turn = "starting" /\ turn' = "none" /\ open = {}
      /\ UNCHANGED <<server, open, closing, report, ran, stopped>>
  BY DEF StartFails, Executing
<1>2. /\ entry' \in EntryRecords \cup {Gone} /\ entry' \in {entry, Paused} /\ (entry' # Gone <=> entry # Gone)
      /\ faults' \in Nat /\ faults' >= faults /\ form' \in {"none", "fresh", "stale"}
  <2>1. CASE Changeable
    <3>1. entry \in EntryRecords /\ Paused \in EntryRecords
      BY <2>1 DEF Changeable, TasksTypeOK, EntryRecords, Paused
    <3>2. QED
      BY <2>1, <3>1, SaveEffects, TasksAssumption DEF StartFails, Changeable
  <2>2. CASE ~Changeable
    BY <2>2 DEF StartFails, TasksTypeOK
  <2>3. QED
    BY <2>1, <2>2
<1>3. entry # Gone => /\ entry \in EntryRecords /\ entry' \in EntryRecords
                       /\ entry'.resumes = entry.resumes /\ entry'.actions = entry.actions
                       /\ entry'.completion = entry.completion /\ entry'.disabled = entry.disabled
                       /\ entry'.status \in {entry.status, "paused"}
  BY <1>2, TasksAssumption DEF EntryRecords, Paused, TasksTypeOK
<1>4. (entry' # Gone <=> entry # Gone) /\ faults' \in Nat /\ faults' >= faults
  BY <1>2
<1>5. /\ rec' \in TaskRecords \cup {Gone} /\ (rec' # Gone <=> rec # Gone)
      /\ rec # Gone => rec'.attempt = rec.attempt /\ rec'.stop = rec.stop /\ rec'.disabled = rec.disabled
                       /\ rec'.status \in {rec.status, "paused"}
  BY TasksAssumption DEF StartFails, TaskRecords, TasksTypeOK
<1>6. TasksTypeOK'
  BY <1>1, <1>2, <1>3, <1>4, <1>5 DEF TasksTypeOK
<1>7. AtRest'
  BY <1>1, <1>3, <1>4, <1>5 DEF AtRest
<1>8. OneRecord'
  BY <1>1, <1>3, <1>4, <1>5 DEF OneRecord, TasksTypeOK
<1>9. TakenOnce'
  BY <1>1, <1>3, <1>4, <1>5 DEF TakenOnce, TasksTypeOK
<1>10. Executing'
  BY <1>1, <1>3, <1>4, <1>5 DEF Executing
<1>11. Checkpointed' /\ Ordered'
  BY <1>1, <1>3, <1>4, <1>5, SameCalls
<1>12. LastAttempt'
  BY <1>1, <1>3, <1>4, <1>5 DEF LastAttempt, TasksTypeOK
<1>13. Stopping'
  BY <1>1, <1>3, <1>4, <1>5 DEF Stopping
<1>14. QED
  BY <1>6, <1>7, <1>8, <1>9, <1>10, <1>11, <1>12, <1>13 DEF TasksInv

\* A non-empty set of positions of a sequence has a last one.
LEMMA LastPosition ==
  ASSUME NEW n \in Nat, NEW K, K \subseteq 1..n, K # {}
  PROVE  \E j \in K : \A i \in K : i <= j
<1> DEFINE R == OpToRel(<, Nat)
<1>1. R = {pair \in Nat \X Nat : pair[1] < pair[2]}
  BY Zenon DEF OpToRel
<1>2. IsWellFoundedOn(R, Nat)
  BY NatLessThanWellFounded DEF R
<1> HIDE DEF R
<1> DEFINE T == {n - k : k \in K}
<1>3. T \subseteq Nat /\ T # {}
  <2>1. \A k \in K : k \in Nat /\ k <= n
    OBVIOUS
  <2>2. ASSUME NEW k \in K PROVE n - k \in Nat
    BY <2>1
  <2>3. QED
    BY <2>2
<1>4. \E x \in T : \A y \in T : ~(<<y, x>> \in R)
  <2> HIDE DEF T
  <2>1. QED
    BY <1>2, <1>3, WFMin
<1>5. PICK j \in K : \A i \in K : ~(<<n - i, n - j>> \in R)
  BY <1>4
<1>6. ASSUME NEW i \in K PROVE i <= j
  <2>1. i \in Nat /\ i <= n /\ j \in Nat /\ j <= n
    OBVIOUS
  <2>2. n - i \in Nat /\ n - j \in Nat
    BY <2>1
  <2>3. ~(n - i < n - j)
    BY <1>1, <1>5, <2>2
  <2>4. QED
    BY <2>1, <2>3
<1>7. QED
  BY <1>6

LEMMA ActionsTyped ==
  ASSUME NEW a \in Actions
  PROVE  /\ Len(a) \in Nat /\ DOMAIN a = 1..Len(a)
         /\ \A k \in DOMAIN a : a[k].call \in Calls /\ a[k].attempt \in Nat
<1> DEFINE S == [call : Calls, status : {"started", "done", "retry_authorized"}, attempt : Nat]
<1>1. \A x \in S : x.call \in Calls /\ x.attempt \in Nat
  OBVIOUS
<1>2. a \in Seq(S)
  BY DEF Actions
<1> HIDE DEF S
<1>3. Len(a) \in Nat /\ DOMAIN a = 1..Len(a) /\ \A k \in 1..Len(a) : a[k] \in S
  BY <1>2
<1>4. QED
  BY <1>1, <1>3

\* A call may begin when every earlier attempt's call like it has been authorized.
LEMMA MayBeginAll ==
  ASSUME TasksInv, NEW c \in Mutations, MayBegin(c), NEW i \in DOMAIN entry.actions,
         entry.actions[i].call = c, entry.actions[i].attempt < entry.resumes
  PROVE  entry.actions[i].status = "retry_authorized"
<1> USE DEF TasksInv
<1>1. entry \in EntryRecords /\ entry # Gone
  BY DEF MayBegin, Changeable, TasksTypeOK
<1>2. entry.actions \in Actions /\ entry.resumes \in Nat
  BY <1>1 DEF EntryRecords
<1> DEFINE n == Len(entry.actions)
           K == PriorIds(c)
<1>3. n \in Nat /\ DOMAIN entry.actions = 1..n /\ K \subseteq 1..n
  BY <1>2, ActionsTyped DEF PriorIds
<1>4. \A k \in 1..n : entry.actions[k].attempt \in Nat
  BY <1>2, <1>3, ActionsTyped
<1>5. SUFFICES ASSUME i \in K PROVE FALSE
  BY DEF PriorIds
<1> HIDE DEF n
<1>6. \E j \in K : \A k \in K : k <= j
  <2> HIDE DEF K
  <2>1. QED
    BY <1>3, <1>5, LastPosition
<1> DEFINE last == CHOOSE j \in K : \A k \in K : k <= j
<1>7. last \in K /\ \A k \in K : k <= last
  BY <1>6
<1>8. Prior(c) = IF entry.actions[last].status = "started" THEN "started"
                 ELSE IF entry.actions[last].attempt < entry.resumes THEN "earlier" ELSE "done"
  BY <1>5 DEF Prior
<1> HIDE DEF last
<1>9. entry.actions[last].attempt >= entry.resumes
  <2>1. ~(entry.actions[last].attempt < entry.resumes)
    BY <1>8 DEF MayBegin, Replayed
  <2>2. entry.actions[last].attempt \in Nat /\ entry.resumes \in Nat
    BY <1>2, <1>4, <1>3, <1>5, <1>7
  <2>3. QED
    BY <2>1, <2>2
<1>10. i < last
  <2>1. i # last
    BY <1>2, <1>4, <1>3, <1>5, <1>7, <1>9
  <2>2. i \in 1..n /\ last \in 1..n /\ i <= last
    BY <1>3, <1>5, <1>7
  <2>3. QED
    BY <1>3, <2>1, <2>2
<1>11. entry.actions[i].attempt < entry.actions[last].attempt
  <2>1. /\ entry.actions[last].attempt \in Nat /\ entry.resumes \in Nat
        /\ entry.actions[i].attempt \in Nat
    BY <1>2, <1>4, <1>3, <1>5, <1>7
  <2>2. QED
    BY <2>1, <1>9
<1>12. entry.actions[last].call = c /\ last \in DOMAIN entry.actions
  BY <1>7 DEF PriorIds
<1>13. entry.actions[i].status = "retry_authorized"
  BY <1>1, <1>10, <1>11, <1>12 DEF Ordered
<1>14. QED
  BY <1>5, <1>13 DEF PriorIds

\* A record that is appended comes last, and the others stay.
LEMMA Appended ==
  ASSUME NEW a \in Actions,
         NEW x \in [call : Calls, status : {"started", "done", "retry_authorized"}, attempt : Nat]
  PROVE  /\ Append(a, x) \in Actions /\ DOMAIN Append(a, x) = DOMAIN a \cup {Len(a) + 1}
         /\ Len(a) + 1 \in Nat /\ Len(a) + 1 \notin DOMAIN a /\ Append(a, x)[Len(a) + 1] = x
         /\ \A k \in DOMAIN a : Append(a, x)[k] = a[k] /\ k < Len(a) + 1
<1> DEFINE S == [call : Calls, status : {"started", "done", "retry_authorized"}, attempt : Nat]
<1>1. a \in Seq(S) /\ x \in S /\ Actions = Seq(S)
  BY DEF Actions
<1> HIDE DEF S
<1>2. /\ Append(a, x) \in Seq(S) /\ Len(Append(a, x)) = Len(a) + 1 /\ Len(a) \in Nat
      /\ DOMAIN Append(a, x) = 1..(Len(a) + 1) /\ DOMAIN a = 1..Len(a)
      /\ \A k \in 1..Len(a) : Append(a, x)[k] = a[k]
      /\ Append(a, x)[Len(a) + 1] = x
  BY <1>1
<1>3. \A n \in Nat : 1..(n + 1) = 1..n \cup {n + 1} /\ n + 1 \in Nat /\ n + 1 \notin 1..n
                     /\ \A k \in 1..n : k < n + 1
  OBVIOUS
<1>4. QED
  BY <1>1, <1>2, <1>3

\* A call is recorded before it runs.
LEMMA BeginCallStep ==
  ASSUME TasksInv, NEW c \in Calls, NEW saved \in BOOLEAN, BeginCall(c, saved)
  PROVE  TasksInv'
<1> USE DEF TasksInv
<1> DEFINE id == Len(entry.actions) + 1
           x == [call |-> c, status |-> "started", attempt |-> entry.resumes]
           new == [entry EXCEPT !.disabled = @ \/ c \in TeamCalls, !.actions = Append(@, x)]
<1>1. /\ entry \in EntryRecords /\ entry # Gone /\ rec \in TaskRecords /\ rec # Gone
      /\ turn = "model" /\ ~rec.disabled /\ ~stopped /\ rec.attempt = entry.resumes
      /\ rec.status # "paused"
      /\ UNCHANGED <<server, turn, closing, report, stopped>>
  BY DEF BeginCall, Streaming, MayBegin, Changeable, TasksTypeOK, OneRecord, Executing, Stopping
<1>2. /\ entry.actions \in Actions /\ entry.resumes \in Nat /\ entry.disabled \in BOOLEAN
      /\ (entry.disabled \/ c \in TeamCalls) \in BOOLEAN
      /\ x \in [call : Calls, status : {"started", "done", "retry_authorized"}, attempt : Nat]
  BY <1>1 DEF EntryRecords
<1>3. /\ Append(entry.actions, x) \in Actions /\ DOMAIN Append(entry.actions, x) = DOMAIN entry.actions \cup {id}
      /\ id \in Nat /\ id \notin DOMAIN entry.actions /\ Append(entry.actions, x)[id] = x /\ id # 0
      /\ \A k \in DOMAIN entry.actions : Append(entry.actions, x)[k] = entry.actions[k] /\ k < id
      /\ DOMAIN entry.actions \subseteq Nat
  <2>1. Len(entry.actions) \in Nat /\ DOMAIN entry.actions = 1..Len(entry.actions)
    BY <1>2, ActionsTyped
  <2>2. id # 0 /\ DOMAIN entry.actions \subseteq Nat
    BY <2>1
  <2>3. QED
    BY <1>2, <2>2, Appended
<1>4. new \in EntryRecords
  BY <1>1, <1>2, <1>3 DEF EntryRecords
<1>5. /\ entry' \in {entry, new} /\ entry' \in EntryRecords /\ entry' # Gone
      /\ faults' \in Nat /\ faults' >= faults /\ form' \in {"none", "fresh", "stale"}
      /\ saved => entry' = new
      /\ ~saved => faults' > 0
  <2>1. Save(new, saved)
    BY DEF BeginCall
  <2> HIDE DEF new
  <2>2. new \in EntryRecords /\ new # Gone
    BY <1>4, TasksAssumption
  <2>3. QED
    BY <1>1, <2>1, <2>2, SaveEffects
<1>6. /\ rec' = [rec EXCEPT !.disabled = @ \/ c \in TeamCalls]
      /\ saved => /\ open' = open \cup {id}
                  /\ ran' \in {ran, ran \cup {[call |-> c, id |-> id, attempt |-> entry.resumes]}}
      /\ ~saved => open' = open /\ ran' = ran
  BY <1>1 DEF BeginCall, Executes
<1>7. /\ entry'.resumes = entry.resumes /\ entry'.completion = entry.completion
      /\ entry'.status = entry.status /\ entry' # Gone /\ entry # Gone
      /\ entry'.disabled \in {entry.disabled, entry.disabled \/ c \in TeamCalls}
      /\ saved => entry'.disabled = (entry.disabled \/ c \in TeamCalls)
      /\ entry'.actions \in {entry.actions, Append(entry.actions, x)}
      /\ saved => entry'.actions = Append(entry.actions, x)
  BY <1>1, <1>5 DEF EntryRecords
<1>8. /\ rec' \in TaskRecords /\ rec' # Gone /\ rec'.attempt = rec.attempt /\ rec'.stop = rec.stop
      /\ rec'.status = rec.status
      /\ rec'.disabled = (c \in TeamCalls)
  <2>1. (c \in TeamCalls) \in BOOLEAN /\ (rec.disabled \/ c \in TeamCalls) = (c \in TeamCalls)
    BY <1>1
  <2>2. rec' = [rec EXCEPT !.disabled = (c \in TeamCalls)]
    BY <1>6, <2>1
  <2>3. QED
    BY <1>1, <2>1, <2>2, TasksAssumption DEF TaskRecords
<1> HIDE DEF id, new
<1>9. TasksTypeOK'
  <2>1. open' \subseteq Nat
    BY <1>3, <1>6 DEF TasksTypeOK
  <2>2. ran' \subseteq [call : Calls, id : Nat, attempt : Nat]
    BY <1>2, <1>3, <1>6 DEF TasksTypeOK
  <2>3. QED
    BY <1>1, <1>5, <1>8, <2>1, <2>2 DEF TasksTypeOK
<1>10. AtRest'
  BY <1>1, <1>7 DEF AtRest
<1>11. OneRecord'
  BY <1>1, <1>5, <1>7, <1>8 DEF OneRecord, TasksTypeOK
<1>12. TakenOnce'
  BY <1>7 DEF TakenOnce
<1>13. Executing'
  <2>1. ASSUME NEW k \in open' PROVE k \in DOMAIN entry'.actions /\ entry'.actions[k].status = "started"
    BY <1>1, <1>3, <1>6, <1>7 DEF Executing
  <2>2. QED
    BY <1>1, <1>8, <2>1 DEF Executing
<1>14. Checkpointed'
  <2>1. ASSUME NEW y \in ran', y.id # 0
        PROVE  /\ y.id \in DOMAIN entry'.actions /\ entry'.actions[y.id].call = y.call
               /\ entry'.actions[y.id].attempt = y.attempt
    <3>1. CASE y \in ran
      BY <1>1, <1>3, <1>7, <2>1, <3>1 DEF Checkpointed
    <3>2. CASE y \notin ran
      BY <1>3, <1>6, <1>7, <2>1, <3>2
    <3>3. QED
      BY <3>1, <3>2
  <2>2. ASSUME NEW k \in DOMAIN entry'.actions PROVE entry'.actions[k].attempt <= entry'.resumes
    BY <1>1, <1>2, <1>3, <1>7 DEF Checkpointed
  <2>3. QED
    BY <2>1, <2>2 DEF Checkpointed
<1>15. Ordered'
  <2>1. SUFFICES ASSUME NEW i \in DOMAIN entry'.actions, NEW j \in DOMAIN entry'.actions, i < j,
                        entry'.actions[i].attempt < entry'.actions[j].attempt,
                        entry'.actions[i].call = entry'.actions[j].call, entry'.actions[i].call \in Mutations
                 PROVE  entry'.actions[i].status = "retry_authorized"
    BY DEF Ordered
  <2>2. CASE j \in DOMAIN entry.actions
    <3>1. i # id
      BY <1>3, <2>1, <2>2
    <3>2. i \in DOMAIN entry.actions /\ entry'.actions[i] = entry.actions[i] /\ entry'.actions[j] = entry.actions[j]
      BY <1>3, <1>7, <2>1, <2>2, <3>1
    <3>3. QED
      BY <1>1, <2>1, <2>2, <3>2 DEF Ordered
  <2>3. CASE j \notin DOMAIN entry.actions
    <3>1. j = id /\ entry'.actions = Append(entry.actions, x)
      BY <1>3, <1>7, <2>3
    <3>2. i \in DOMAIN entry.actions /\ entry'.actions[i] = entry.actions[i] /\ entry'.actions[j] = x
      BY <1>3, <2>1, <3>1
    <3>3. entry.actions[i].call = c /\ entry.actions[i].attempt < entry.resumes /\ c \in Mutations
      BY <2>1, <3>2
    <3>4. MayBegin(c)
      BY DEF BeginCall
    <3>5. QED
      BY <3>2, <3>3, <3>4, MayBeginAll
  <2>4. QED
    BY <2>2, <2>3
<1>16. LastAttempt'
  <2>1. ASSUME NEW y \in ran', y.id = 0 PROVE y \in ran
    BY <1>3, <1>6, <2>1
  <2>2. QED
    BY <1>1, <1>5, <1>7, <1>8, <2>1 DEF LastAttempt, TasksTypeOK
<1>17. Stopping'
  BY <1>1 DEF Stopping
<1>18. QED
  BY <1>9, <1>10, <1>11, <1>12, <1>13, <1>14, <1>15, <1>16, <1>17

\* Rewriting the records of the calls one by one leaves a sequence of records.
LEMMA ActionsRewritten ==
  ASSUME NEW a \in Actions, NEW b, b = [k \in DOMAIN a |-> b[k]],
         \A k \in DOMAIN a : b[k] \in [call : Calls, status : {"started", "done", "retry_authorized"}, attempt : Nat]
  PROVE  b \in Actions /\ DOMAIN b = DOMAIN a
<1> DEFINE S == [call : Calls, status : {"started", "done", "retry_authorized"}, attempt : Nat]
<1>1. a \in Seq(S) /\ Actions = Seq(S) /\ \A k \in DOMAIN a : b[k] \in S
  BY DEF Actions
<1> HIDE DEF S
<1>2. Len(a) \in Nat /\ DOMAIN a = 1..Len(a)
  BY <1>1
<1>3. b \in [1..Len(a) -> S]
  BY <1>1, <1>2
<1>4. QED
  BY <1>1, <1>2, <1>3

ActionTyped(k) == /\ entry.actions[k] \in [call : Calls, status : {"started", "done", "retry_authorized"}, attempt : Nat]
                  /\ entry.actions[k] = [call |-> entry.actions[k].call, status |-> entry.actions[k].status,
                                         attempt |-> entry.actions[k].attempt]
LEMMA EveryActionTyped ==
  ASSUME entry \in EntryRecords
  PROVE  /\ \A k \in DOMAIN entry.actions : ActionTyped(k)
         /\ entry.actions \in Actions /\ DOMAIN entry.actions \subseteq Nat
<1> DEFINE S == [call : Calls, status : {"started", "done", "retry_authorized"}, attempt : Nat]
<1>1. entry.actions \in Actions /\ Actions = Seq(S)
  BY DEF Actions, EntryRecords
<1>2. \A x \in S : x = [call |-> x.call, status |-> x.status, attempt |-> x.attempt]
  OBVIOUS
<1>3. \A k \in DOMAIN entry.actions : k \in Nat /\ entry.actions[k] \in S
  <2> HIDE DEF S
  <2>1. QED
    BY <1>1
<1>4. QED
  BY <1>1, <1>2, <1>3 DEF ActionTyped

\* An answer to a call is recorded, if it can be.
LEMMA FinishCallStep ==
  ASSUME TasksInv, NEW id \in open, NEW saved \in BOOLEAN, FinishCall(id, saved)
  PROVE  TasksInv'
<1> USE DEF TasksInv
<1> DEFINE new == [entry EXCEPT !.actions[id].status = "done"]
<1>1. /\ open' = open \ {id} /\ UNCHANGED <<server, rec, turn, closing, report, ran, stopped>>
      /\ turn # "starting" /\ ~(rec # Gone /\ rec.status = "paused") /\ open \subseteq Nat
      /\ entry \in EntryRecords \cup {Gone}
  BY DEF FinishCall, Executing, TasksTypeOK
<1>2. CASE ~Changeable
  <2>1. UNCHANGED <<entry, form, faults>>
    BY <1>2 DEF FinishCall
  <2>2. TasksTypeOK' /\ AtRest' /\ OneRecord' /\ TakenOnce'
    BY <1>1, <2>1 DEF TasksTypeOK, AtRest, OneRecord, TakenOnce
  <2>3. Executing' /\ LastAttempt' /\ Stopping'
    BY <1>1, <2>1 DEF Executing, LastAttempt, Stopping
  <2>4. Checkpointed' /\ Ordered'
    BY <1>1, <2>1, SameCalls
  <2>5. QED
    BY <2>2, <2>3, <2>4
<1>3. CASE Changeable
  <2>1. /\ entry \in EntryRecords /\ entry # Gone /\ entry.completion = "none"
        /\ id \in DOMAIN entry.actions /\ entry.actions[id].status = "started"
    BY <1>1, <1>3 DEF Changeable, Executing
  <2> DEFINE new_actions == [k \in DOMAIN entry.actions |->
                               IF k = id THEN [entry.actions[k] EXCEPT !.status = "done"] ELSE entry.actions[k]]
  <2>2. new = [entry EXCEPT !.actions = new_actions]
    BY <2>1 DEF EntryRecords
  <2>3. \A k \in DOMAIN entry.actions : ActionTyped(k)
    BY <2>1, EveryActionTyped
  <2>4. \A k \in DOMAIN entry.actions :
          /\ new_actions[k] \in [call : Calls, status : {"started", "done", "retry_authorized"}, attempt : Nat]
          /\ new_actions[k].call = entry.actions[k].call /\ new_actions[k].attempt = entry.actions[k].attempt
          /\ k # id => new_actions[k] = entry.actions[k]
    BY <2>3 DEF ActionTyped
  <2>5. new_actions \in Actions /\ DOMAIN new_actions = DOMAIN entry.actions
    <3>1. new_actions = [k \in DOMAIN entry.actions |-> new_actions[k]] /\ DOMAIN new_actions = DOMAIN entry.actions
      OBVIOUS
    <3>2. entry.actions \in Actions
      BY <2>1, EveryActionTyped
    <3> HIDE DEF new_actions
    <3>3. QED
      BY <2>4, <3>1, <3>2, ActionsRewritten
  <2> HIDE DEF new_actions
  <2>6. new \in EntryRecords
    BY <2>1, <2>2, <2>5 DEF EntryRecords
  <2>7. Save(new, saved)
    BY <1>3 DEF FinishCall
  <2>8. /\ entry' \in {entry, new} /\ entry' \in EntryRecords /\ entry' # Gone
        /\ faults' \in Nat /\ faults' >= faults /\ form' \in {"none", "fresh", "stale"}
    <3> HIDE DEF new
    <3>1. new # Gone
      BY <2>6, TasksAssumption
    <3>2. QED
      BY <2>1, <2>6, <2>7, <3>1, SaveEffects
  <2>9. /\ entry'.resumes = entry.resumes /\ entry'.completion = entry.completion /\ entry # Gone
        /\ entry'.status = entry.status /\ entry'.disabled = entry.disabled
        /\ DOMAIN entry'.actions = DOMAIN entry.actions
        /\ \A k \in DOMAIN entry.actions :
             /\ entry'.actions[k].call = entry.actions[k].call
             /\ entry'.actions[k].attempt = entry.actions[k].attempt
             /\ k # id => entry'.actions[k].status = entry.actions[k].status
    BY <2>1, <2>2, <2>4, <2>5, <2>8 DEF EntryRecords
  <2> HIDE DEF new
  <2>10. TasksTypeOK' /\ AtRest' /\ TakenOnce'
    BY <1>1, <2>8, <2>9 DEF TasksTypeOK, AtRest, TakenOnce
  <2>11. OneRecord' /\ Stopping'
    BY <1>1, <2>8, <2>9 DEF TasksTypeOK, OneRecord, Stopping
  <2>12. Executing'
    BY <1>1, <2>8, <2>9 DEF Executing
  <2>13. Checkpointed'
    BY <1>1, <2>9 DEF Checkpointed
  <2>14. Ordered'
    BY <2>1, <2>9 DEF Ordered
  <2>15. LastAttempt'
    BY <1>1, <2>8, <2>9 DEF LastAttempt, TasksTypeOK
  <2>16. QED
    BY <2>10, <2>11, <2>12, <2>13, <2>14, <2>15
<1>4. QED
  BY <1>2, <1>3

\* What the next attempt starts with: what the checkpoint knows.
LEMMA ResumedEntry ==
  ASSUME TasksInv, entry # Gone
  PROVE  /\ Resumed \in EntryRecords /\ Resumed # Gone
         /\ entry.resumes \in Nat /\ Resumed.resumes = entry.resumes + 1
         /\ Resumed.completion = entry.completion /\ Resumed.disabled = entry.disabled
         /\ DOMAIN Resumed.actions = DOMAIN entry.actions
         /\ \A k \in DOMAIN entry.actions :
              /\ Resumed.actions[k].call = entry.actions[k].call
              /\ Resumed.actions[k].attempt = entry.actions[k].attempt
              /\ entry.actions[k].call \in Mutations => Resumed.actions[k] = entry.actions[k]
              /\ entry.actions[k].attempt \in Nat /\ entry.actions[k].attempt <= entry.resumes
<1> USE DEF TasksInv
<1> DEFINE new_actions == [k \in DOMAIN entry.actions |->
                             IF entry.actions[k].status = "started" /\ entry.actions[k].call \notin Mutations
                             THEN [entry.actions[k] EXCEPT !.status = "retry_authorized"] ELSE entry.actions[k]]
<1>1. entry \in EntryRecords
  BY DEF TasksTypeOK
<1>2. Resumed = [entry EXCEPT !.status = "running", !.resumes = @ + 1, !.actions = new_actions]
  BY DEF Resumed
<1>3. \A k \in DOMAIN entry.actions : ActionTyped(k)
  BY <1>1, EveryActionTyped
<1>4. \A k \in DOMAIN entry.actions :
        /\ new_actions[k] \in [call : Calls, status : {"started", "done", "retry_authorized"}, attempt : Nat]
        /\ new_actions[k].call = entry.actions[k].call /\ new_actions[k].attempt = entry.actions[k].attempt
        /\ entry.actions[k].call \in Mutations => new_actions[k] = entry.actions[k]
  BY <1>3 DEF ActionTyped
<1>5. new_actions \in Actions /\ DOMAIN new_actions = DOMAIN entry.actions
  <2>1. new_actions = [k \in DOMAIN entry.actions |-> new_actions[k]] /\ DOMAIN new_actions = DOMAIN entry.actions
    OBVIOUS
  <2>2. entry.actions \in Actions
    BY <1>1, EveryActionTyped
  <2> HIDE DEF new_actions
  <2>3. QED
    BY <1>4, <2>1, <2>2, ActionsRewritten
<1> HIDE DEF new_actions
<1>6. /\ Resumed \in EntryRecords /\ Resumed.resumes = entry.resumes + 1 /\ Resumed.completion = entry.completion
      /\ Resumed.disabled = entry.disabled /\ Resumed.actions = new_actions
      /\ entry.resumes \in Nat /\ entry.disabled \in BOOLEAN
  <2>1. entry.resumes \in Nat /\ entry.disabled \in BOOLEAN /\ entry.resumes + 1 \in Nat
    BY <1>1 DEF EntryRecords
  <2>2. Resumed \in EntryRecords
    BY <1>1, <1>2, <1>5, <2>1 DEF EntryRecords
  <2>3. /\ Resumed.resumes = entry.resumes + 1 /\ Resumed.completion = entry.completion
        /\ Resumed.disabled = entry.disabled /\ Resumed.actions = new_actions
    BY <1>1, <1>2 DEF EntryRecords
  <2>4. QED
    BY <2>1, <2>2, <2>3
<1>7. \A k \in DOMAIN entry.actions : entry.actions[k].attempt \in Nat /\ entry.actions[k].attempt <= entry.resumes
  BY <1>1, <1>3 DEF Checkpointed, ActionTyped
<1>8. QED
  BY <1>1, <1>4, <1>5, <1>6, <1>7, TasksAssumption

\* The next attempt starts.
LEMMA StartResumedStep ==
  ASSUME TasksInv, StartResumed
  PROVE  TasksInv'
<1> USE DEF TasksInv
<1>1. /\ entry \in EntryRecords /\ entry # Gone /\ rec \in TaskRecords /\ rec # Gone /\ rec.status = "paused"
      /\ turn = "starting" /\ open = {} /\ ~entry.disabled /\ ~stopped
      /\ server.up /\ ~server.boot /\ entry.completion = "none" /\ closing = Gone
      /\ turn' = "model" /\ rec' = Record(entry.disabled, Resumed.resumes)
      /\ UNCHANGED <<server, open, closing, report, ran, stopped>>
  <2>1. rec # Gone /\ rec.status = "paused" /\ turn = "starting" /\ entry # Gone
    BY DEF StartResumed, MayStart, Changeable
  <2>2. rec.status # "cancelling"
    BY <2>1
  <2>3. open = {} /\ ~entry.disabled /\ ~stopped
    BY <2>1, <2>2 DEF Executing, Stopping
  <2>4. server.up /\ ~server.boot /\ entry.completion = "none" /\ closing = Gone
    BY <2>1 DEF AtRest, OneRecord
  <2>5. QED
    BY <2>1, <2>3, <2>4 DEF StartResumed, TasksTypeOK
<1>6. /\ Resumed \in EntryRecords /\ Resumed # Gone /\ Resumed.resumes = entry.resumes + 1
      /\ Resumed.completion = entry.completion /\ Resumed.disabled = entry.disabled
      /\ entry.resumes \in Nat /\ entry.disabled \in BOOLEAN
  BY <1>1, ResumedEntry DEF EntryRecords
<1>7. entry' = Resumed /\ faults' = faults /\ form' \in {"none", "fresh", "stale"} /\ entry' # Gone
  <2>1. Save(Resumed, TRUE)
    BY DEF StartResumed
  <2>2. Resumed \in EntryRecords /\ Resumed # Gone
    BY <1>6, TasksAssumption
  <2> HIDE DEF Resumed
  <2>3. QED
    BY <2>1, <2>2, SaveEffects
<1>8. rec' \in TaskRecords /\ rec' # Gone /\ rec'.attempt = entry.resumes + 1 /\ rec'.status = "running" /\ ~rec'.disabled
  <2>1. entry.disabled = FALSE /\ entry.resumes + 1 \in Nat
    BY <1>1, <1>6
  <2>2. rec' = [status |-> "running", disabled |-> FALSE, attempt |-> entry.resumes + 1, stop |-> FALSE]
    BY <1>1, <1>6, <2>1 DEF Record
  <2>3. rec' \in TaskRecords
    BY <2>1, <2>2 DEF TaskRecords
  <2>4. QED
    BY <2>2, <2>3, TasksAssumption
<1>9. /\ entry'.resumes = entry.resumes + 1 /\ entry'.completion = "none" /\ ~entry'.disabled
      /\ DOMAIN entry'.actions = DOMAIN entry.actions
      /\ \A k \in DOMAIN entry.actions :
           /\ entry'.actions[k].call = entry.actions[k].call /\ entry'.actions[k].attempt = entry.actions[k].attempt
           /\ entry.actions[k].call \in Mutations => entry'.actions[k] = entry.actions[k]
  BY <1>1, <1>6, <1>7, ResumedEntry
<1>10. TasksTypeOK'
  BY <1>1, <1>6, <1>7, <1>8 DEF TasksTypeOK
<1>11. AtRest' /\ OneRecord' /\ TakenOnce'
  BY <1>1, <1>7, <1>8, <1>9 DEF AtRest, OneRecord, TakenOnce
<1>12. Executing' /\ Stopping'
  BY <1>1, <1>8 DEF Executing, Stopping
<1>13. Checkpointed'
  <2>1. \A k \in DOMAIN entry.actions : entry.actions[k].attempt \in Nat /\ entry.actions[k].attempt <= entry.resumes
    BY <1>1, ResumedEntry
  <2>2. \A k \in DOMAIN entry.actions : entry.actions[k].attempt <= entry.resumes + 1
    BY <1>6, <2>1
  <2>3. QED
    BY <1>1, <1>9, <2>2 DEF Checkpointed
<1>14. Ordered'
  BY <1>1, <1>9 DEF Ordered
<1>15. LastAttempt'
  BY <1>1, <1>7, <1>8, <1>9 DEF LastAttempt
<1>16. QED
  BY <1>10, <1>11, <1>12, <1>13, <1>14, <1>15

\* It could not be saved, or was saved without the server knowing, and is shown.
LEMMA StartUnsavedStep ==
  ASSUME TasksInv, NEW shown \in BOOLEAN, StartUnsaved(shown)
  PROVE  TasksInv'
<1> USE DEF TasksInv
<1>1. /\ turn = "starting" /\ rec # Gone /\ rec.status = "paused" /\ entry # Gone /\ entry \in EntryRecords
      /\ turn' = "none" /\ faults' = faults + 1 /\ faults' \in Nat /\ faults' > 0
      /\ form' \in {"none", "fresh", "stale"}
      /\ UNCHANGED <<server, rec, open, closing, report, ran, stopped>>
  BY DEF StartUnsaved, MayStart, Changeable, TasksTypeOK
<1>2. open = {} /\ ~stopped /\ ~server.boot /\ server.up
  BY <1>1 DEF Executing, Stopping, AtRest
<1>3. PICK tried \in {entry, Resumed} : entry' \in {tried, [tried EXCEPT !.status = "paused"]}
  BY DEF StartUnsaved
<1>4. /\ tried \in EntryRecords /\ tried.completion = entry.completion
      /\ tried.resumes \in {entry.resumes, entry.resumes + 1} /\ entry.resumes \in Nat
      /\ DOMAIN tried.actions = DOMAIN entry.actions
      /\ \A k \in DOMAIN entry.actions :
           /\ tried.actions[k].call = entry.actions[k].call
           /\ tried.actions[k].attempt = entry.actions[k].attempt
           /\ entry.actions[k].call \in Mutations => tried.actions[k] = entry.actions[k]
           /\ entry.actions[k].attempt \in Nat /\ entry.actions[k].attempt <= entry.resumes
  BY <1>1, <1>3, ResumedEntry
<1>5. /\ entry' \in EntryRecords /\ entry'.completion = tried.completion /\ entry'.resumes = tried.resumes
      /\ entry'.actions = tried.actions
  <2> HIDE DEF Resumed
  <2>1. /\ [tried EXCEPT !.status = "paused"] \in EntryRecords
        /\ [tried EXCEPT !.status = "paused"].completion = tried.completion
        /\ [tried EXCEPT !.status = "paused"].resumes = tried.resumes
        /\ [tried EXCEPT !.status = "paused"].actions = tried.actions
    BY <1>4 DEF EntryRecords
  <2>2. QED
    BY <1>3, <1>4, <2>1
<1>6. entry' # Gone
  BY <1>5, TasksAssumption
<1>7. TasksTypeOK' /\ AtRest' /\ OneRecord' /\ TakenOnce'
  BY <1>1, <1>2, <1>4, <1>5, <1>6 DEF TasksTypeOK, AtRest, OneRecord, TakenOnce
<1>8. Executing' /\ LastAttempt' /\ Stopping'
  BY <1>1, <1>2, <1>6 DEF Executing, LastAttempt, Stopping
<1>9. Checkpointed' /\ Ordered'
  BY <1>1, <1>4, <1>5, <1>6 DEF Checkpointed, Ordered
<1>10. QED
  BY <1>7, <1>8, <1>9

\* The user has said what became of the calls nobody knows the outcome of.
LEMMA ReviewStep ==
  ASSUME TasksInv, NEW retry, NEW saved \in BOOLEAN, Review(retry, saved)
  PROVE  TasksInv'
<1> USE DEF TasksInv
<1> DEFINE new_actions == [k \in DOMAIN entry.actions |->
                             IF k \notin Uncertain THEN entry.actions[k]
                             ELSE [entry.actions[k] EXCEPT !.status = IF k \in retry THEN "retry_authorized" ELSE "done"]]
           new == [entry EXCEPT !.status = "ready", !.actions = new_actions]
<1>1. /\ entry \in EntryRecords /\ entry # Gone /\ rec \in TaskRecords /\ rec # Gone /\ rec.status = "paused"
      /\ entry.status = "paused" /\ turn # "model" /\ open = {} /\ ~entry.disabled
      /\ server.up /\ ~server.boot /\ entry.completion = "none" /\ closing = Gone
      /\ turn' = (IF saved THEN "starting" ELSE turn) /\ stopped' = FALSE
      /\ UNCHANGED <<server, rec, open, closing, report, ran>>
  <2>1. rec # Gone /\ rec.status = "paused" /\ entry # Gone /\ ~entry.disabled
    BY DEF Review, Changeable
  <2>2. open = {} /\ turn # "model"
    BY <2>1 DEF Executing
  <2>3. server.up /\ ~server.boot /\ entry.completion = "none" /\ closing = Gone
    BY <2>1 DEF AtRest, OneRecord
  <2>4. QED
    BY <2>1, <2>2, <2>3 DEF Review, FormIsCurrent, TasksTypeOK
<1>2. \A k \in DOMAIN entry.actions : ActionTyped(k)
  BY <1>1, EveryActionTyped
<1>3. \A k \in DOMAIN entry.actions :
        /\ new_actions[k] \in [call : Calls, status : {"started", "done", "retry_authorized"}, attempt : Nat]
        /\ new_actions[k].call = entry.actions[k].call /\ new_actions[k].attempt = entry.actions[k].attempt
        /\ entry.actions[k].status = "retry_authorized" => new_actions[k] = entry.actions[k]
  BY <1>2 DEF ActionTyped, Uncertain
<1>4. new_actions \in Actions /\ DOMAIN new_actions = DOMAIN entry.actions
  <2>1. new_actions = [k \in DOMAIN entry.actions |-> new_actions[k]] /\ DOMAIN new_actions = DOMAIN entry.actions
    OBVIOUS
  <2>2. entry.actions \in Actions
    BY <1>1, EveryActionTyped
  <2> HIDE DEF new_actions
  <2>3. QED
    BY <1>3, <2>1, <2>2, ActionsRewritten
<1>5. Save(new, saved)
  BY DEF Review
<1> HIDE DEF new_actions
<1>6. new \in EntryRecords
  BY <1>1, <1>4 DEF EntryRecords
<1>7. /\ entry' \in {entry, new} /\ entry' \in EntryRecords /\ entry' # Gone
      /\ faults' \in Nat /\ faults' >= faults /\ form' \in {"none", "fresh", "stale"}
  <2> HIDE DEF new
  <2>1. new # Gone
    BY <1>6, TasksAssumption
  <2>2. QED
    BY <1>1, <1>5, <1>6, <2>1, SaveEffects
<1>8. /\ entry'.resumes = entry.resumes /\ entry'.completion = "none" /\ entry'.disabled = entry.disabled
      /\ DOMAIN entry'.actions = DOMAIN entry.actions
      /\ \A k \in DOMAIN entry.actions :
           /\ entry'.actions[k].call = entry.actions[k].call /\ entry'.actions[k].attempt = entry.actions[k].attempt
           /\ entry.actions[k].status = "retry_authorized" => entry'.actions[k].status = "retry_authorized"
  BY <1>1, <1>3, <1>4, <1>7 DEF EntryRecords
<1> HIDE DEF new
<1>9. TasksTypeOK'
  BY <1>1, <1>7 DEF TasksTypeOK
<1>10. AtRest' /\ OneRecord' /\ TakenOnce'
  BY <1>1, <1>7, <1>8 DEF AtRest, OneRecord, TakenOnce
<1>11. Executing' /\ Stopping'
  BY <1>1, <1>8 DEF Executing, Stopping
<1>12. Checkpointed' /\ Ordered'
  <2>1. Checkpointed'
    BY <1>1, <1>8 DEF Checkpointed
  <2>2. Ordered'
    BY <1>1, <1>8 DEF Ordered
  <2>3. QED
    BY <2>1, <2>2
<1>13. LastAttempt'
  BY <1>1, <1>7, <1>8 DEF LastAttempt, TasksTypeOK
<1>14. QED
  BY <1>9, <1>10, <1>11, <1>12, <1>13

LEMMA TasksStep == TasksInv /\ [TasksNext]_taskVars => TasksInv'
<1> SUFFICES ASSUME TasksInv, [TasksNext]_taskVars PROVE TasksInv'
  OBVIOUS
<1>1. ASSUME NEW saved \in BOOLEAN, NEW disabled \in BOOLEAN, Dispatch(disabled, saved) PROVE TasksInv'
  BY <1>1, DispatchStep
<1>2. ASSUME NEW saved \in BOOLEAN, NEW c \in Calls, BeginCall(c, saved) PROVE TasksInv'
  BY <1>2, BeginCallStep
<1>3. ASSUME NEW saved \in BOOLEAN, NEW id \in open, FinishCall(id, saved) PROVE TasksInv'
  BY <1>3, FinishCallStep
<1>4. ASSUME NEW saved \in BOOLEAN, NEW hidden \in BOOLEAN, DisableRecovery(hidden, saved) PROVE TasksInv'
  BY <1>4, DisableRecoveryStep
<1>5. ASSUME NEW saved \in BOOLEAN,
             \/ \E status \in {"done", "error"} : EndTurn(status, saved)
             \/ StopCompletes(saved) \/ Reap(saved)
      PROVE  TasksInv'
  BY <1>5, EndsStep
<1>6. ASSUME NEW saved \in BOOLEAN, BudgetPause(saved) \/ Stop(saved) PROVE TasksInv'
  BY <1>6, BudgetPauseStep, StopStep
<1>7. ASSUME NEW saved \in BOOLEAN, AppendReport(saved) \/ Remove(saved) \/ StartFails(saved) \/ StartUnsaved(saved)
      PROVE  TasksInv'
  BY <1>7, AppendReportStep, RemoveStep, StartFailsStep, StartUnsavedStep
<1>8. ASSUME NEW saved \in BOOLEAN, NEW claimed \in BOOLEAN, Recover(claimed, saved) PROVE TasksInv'
  BY <1>8, RecoverStep
<1>9. ASSUME NEW saved \in BOOLEAN, NEW retry \in SUBSET (1..MaxActions), Review(retry, saved) PROVE TasksInv'
  BY <1>9, ReviewStep
<1>10. ASSUME NEW c \in Calls, RunUnrecorded(c) PROVE TasksInv'
  BY <1>10, RunUnrecordedStep
<1>11. CASE Crash \/ Restart \/ ReportInterrupted
  BY <1>11, CrashStep, RestartStep, ReportInterruptedStep
<1>12. CASE StartResumed \/ OpenForm
  BY <1>12, StartResumedStep, OpenFormStep
<1>13. CASE UNCHANGED taskVars
  <2>1. TasksTypeOK' /\ AtRest' /\ OneRecord' /\ TakenOnce' /\ Executing'
    BY <1>13 DEF taskVars, TasksInv, TasksTypeOK, AtRest, OneRecord, TakenOnce, Executing
  <2>2. Checkpointed' /\ Ordered' /\ LastAttempt' /\ Stopping'
    BY <1>13 DEF taskVars, TasksInv, Checkpointed, Ordered, LastAttempt, Stopping
  <2>3. QED
    BY <2>1, <2>2 DEF TasksInv
<1>14. QED
  BY <1>1, <1>2, <1>3, <1>4, <1>5, <1>6, <1>7, <1>8, <1>9, <1>10, <1>11, <1>12, <1>13 DEF TasksNext

LEMMA TasksInvariant == TasksSpec => []TasksInv
BY TasksInitInv, TasksStep, PTL DEF TasksSpec

\* What a job's record, its journal entry and its completion consist of.
THEOREM JobsTypeCorrect == TasksSpec => []TasksTypeOK
<1>1. TasksInv => TasksTypeOK
  BY DEF TasksInv
<1>2. QED
  BY <1>1, TasksInvariant, PTL

\* A step that executes no call, begins no stream but with the job or an attempt of
\* it, and changes no report but by appending one.
Quiet ==
    /\ ran' = ran
    /\ \/ turn' # "model" \/ turn' = turn \/ StartResumed
       \/ \E disabled, saved \in BOOLEAN : Dispatch(disabled, saved)
    /\ report' = report \/ \E stored \in BOOLEAN : AppendReport(stored)

LEMMA QuietSteps ==
  ASSUME [TasksNext]_taskVars
  PROVE  \/ \E c \in Calls, saved \in BOOLEAN : BeginCall(c, saved)
         \/ \E c \in Calls : RunUnrecorded(c)
         \/ Quiet
<1>1. ASSUME NEW saved \in BOOLEAN, NEW disabled \in BOOLEAN, Dispatch(disabled, saved) PROVE Quiet
  <2>1. ran' = ran /\ report' = report
    BY <1>1 DEF Dispatch
  <2>2. QED
    BY <1>1, <2>1 DEF Quiet
<1>2. ASSUME NEW saved \in BOOLEAN, NEW id \in open, FinishCall(id, saved) PROVE Quiet
  BY <1>2 DEF FinishCall, Quiet
<1>3. ASSUME NEW saved \in BOOLEAN, NEW hidden \in BOOLEAN, DisableRecovery(hidden, saved) PROVE Quiet
  BY <1>3 DEF DisableRecovery, Quiet
<1>4. ASSUME NEW saved \in BOOLEAN, NEW status, Complete(status, saved) PROVE Quiet
  BY <1>4 DEF Complete, Quiet
<1>5. ASSUME NEW saved \in BOOLEAN,
             \/ \E status \in {"done", "error"} : EndTurn(status, saved)
             \/ StopCompletes(saved) \/ Reap(saved)
      PROVE  Quiet
  BY <1>4, <1>5 DEF EndTurn, StopCompletes, Reap
<1>6. ASSUME NEW saved \in BOOLEAN, BudgetPause(saved) \/ Stop(saved) \/ Remove(saved) \/ StartFails(saved) \/ StartUnsaved(saved)
      PROVE  Quiet
  BY <1>6 DEF BudgetPause, Stop, Remove, StartFails, StartUnsaved, Quiet
<1>7. ASSUME NEW saved \in BOOLEAN, AppendReport(saved) PROVE Quiet
  <2>1. ran' = ran /\ turn' = turn
    BY <1>7 DEF AppendReport
  <2>2. QED
    BY <1>7, <2>1 DEF Quiet
<1>8. ASSUME NEW saved \in BOOLEAN, NEW claimed \in BOOLEAN, Recover(claimed, saved) PROVE Quiet
  <2>1. ran' = ran /\ report' = report
    BY <1>8 DEF Recover
  <2>2. turn' \in {turn, "starting"}
    BY <1>8 DEF Recover
  <2>3. QED
    BY <2>1, <2>2 DEF Quiet
<1>9. ASSUME NEW saved \in BOOLEAN, NEW retry \in SUBSET (1..MaxActions), Review(retry, saved) PROVE Quiet
  BY <1>9 DEF Review, Quiet
<1>10. CASE StartResumed
  <2>1. ran' = ran /\ report' = report
    BY <1>10 DEF StartResumed
  <2>2. QED
    BY <1>10, <2>1 DEF Quiet
<1>11. CASE Crash \/ Restart \/ ReportInterrupted \/ OpenForm \/ UNCHANGED taskVars
  BY <1>11 DEF Crash, Restart, ReportInterrupted, OpenForm, taskVars, Quiet
<1>12. QED
  BY <1>1, <1>2, <1>3, <1>5, <1>6, <1>7, <1>8, <1>9, <1>10, <1>11 DEF TasksNext

\* A job whose Stop was confirmed streams no more, executes nothing and is not
\* reported as done, however many servers, writes and calls there are.
THEOREM StopIsFinal == TasksSpec => StopHolds
<1> DEFINE Held == stopped /\ stopped' => /\ turn' = "model" => turn = "model"
                                          /\ report' = "done" => report = "done"
                                          /\ \A y \in ran' \ ran : FALSE
<1>1. TasksInv /\ [TasksNext]_taskVars => [Held]_taskVars
  <2> SUFFICES ASSUME TasksInv, [TasksNext]_taskVars, stopped PROVE Held
    OBVIOUS
  <2>1. ~Streaming
    BY DEF TasksInv, Stopping, Streaming
  <2>2. CASE (\E c \in Calls, saved \in BOOLEAN : BeginCall(c, saved)) \/ \E c \in Calls : RunUnrecorded(c)
    BY <2>1, <2>2 DEF BeginCall, RunUnrecorded
  <2>3. CASE Quiet
    <3>1. ~(\E disabled, saved \in BOOLEAN : Dispatch(disabled, saved))
      BY DEF Dispatch, TasksInv, TakenOnce
    <3>2. ~StartResumed
      BY DEF StartResumed, MayStart, TasksInv, Stopping
    <3>3. report' = "done" => report = "done"
      BY <2>3 DEF Quiet, AppendReport, TasksInv, Stopping
    <3>4. QED
      BY <2>3, <3>1, <3>2, <3>3 DEF Quiet
  <2>4. QED
    BY <2>2, <2>3, QuietSteps
<1>2. QED
  BY <1>1, TasksInvariant, PTL DEF TasksSpec, StopHolds

\* A mutation is executed again by a later attempt only where the user has
\* authorized every earlier execution of it to run again.
THEOREM RepeatsAreReviewed == TasksSpec => ReviewedRepeats
<1> DEFINE Reviewed == \A y \in ran' \ ran :
      /\ y.id # 0 => \A x \in Repeats(y) : Authorized(x)
      /\ faults = 0 => \A x \in ran : x.id = 0 => x.attempt >= y.attempt
<1>1. TasksInv /\ [TasksNext]_taskVars => [Reviewed]_taskVars
  <2> SUFFICES ASSUME TasksInv, [TasksNext]_taskVars, NEW y \in ran' \ ran
               PROVE  /\ y.id # 0 => \A x \in Repeats(y) : Authorized(x)
                      /\ faults = 0 => \A x \in ran : x.id = 0 => x.attempt >= y.attempt
    OBVIOUS
  <2>1. PICK c \in Calls, saved \in BOOLEAN : BeginCall(c, saved) \/ RunUnrecorded(c)
    BY QuietSteps DEF Quiet
  <2>2. /\ Streaming /\ c \in Mutations /\ y.call = c /\ y.attempt = rec.attempt
        /\ y.id # 0 => MayBegin(c)
    BY <2>1 DEF BeginCall, RunUnrecorded, Executes
  <2>3. entry \in EntryRecords /\ entry # Gone /\ rec.attempt = entry.resumes /\ entry.resumes \in Nat
    BY <2>2 DEF Streaming, TasksInv, OneRecord, TasksTypeOK, EntryRecords
  <2>4. ASSUME NEW x \in Repeats(y), y.id # 0 PROVE Authorized(x)
    <3>1. /\ x.id \in DOMAIN entry.actions /\ entry.actions[x.id].call = c
          /\ entry.actions[x.id].attempt < entry.resumes
      BY <2>2, <2>3, <2>4 DEF Repeats, TasksInv, Checkpointed
    <3>2. QED
      BY <2>2, <2>4, <3>1, MayBeginAll DEF Authorized
  <2>5. ASSUME faults = 0, NEW x \in ran, x.id = 0 PROVE x.attempt >= y.attempt
    BY <2>2, <2>3, <2>5 DEF TasksInv, LastAttempt
  <2>6. QED
    BY <2>4, <2>5
<1>2. QED
  BY <1>1, TasksInvariant, PTL DEF TasksSpec, ReviewedRepeats

-----------------------------------------------------------------------------
(* The restart of the server and the continuation after it.                *)

Names == Nat \X Nat
Streams == [pc : {"none", "running", "ended"}, name : Names, generation : Nat, readOnly : BOOLEAN,
            ending : {"none", "done", "error", "moved"}]
Resumers == [pc : {"none", "read", "check", "claim", "audit", "turn", "verify", "catch", "report",
                   "clear", "retry"},
             chat : {"home", "other"}, checkpoint : Checkpoints \cup {Empty}]

\* CheckpointTypeOK, of m checkpoints, b servers and g Clears.
Ranged(c, m, b, g) ==
    /\ c \in Checkpoints
    /\ c.id \in 1..m /\ c.boot \in 1..b
    /\ c.attempts \in 0..TotalAttempts /\ c.owner \in 0..b /\ c.generation \in 0..g

RestartTyped ==
    /\ process \in [up : BOOLEAN, boot : 1..MaxBoots, restart : {"none", "updating", "scheduled", "exiting"}]
    /\ sessionGeneration \in Nat /\ minted \in 0..MaxCheckpoints /\ failures \in 0..MaxFailures
    /\ slot = Empty \/ Ranged(slot, minted, process.boot, sessionGeneration)
    /\ stream \in Streams /\ stream.generation <= sessionGeneration
    /\ resumer \in Resumers
    /\ resumer.pc \in {"none", "read"} \/ Ranged(resumer.checkpoint, minted, process.boot, sessionGeneration)
    /\ started \subseteq Names /\ acted \subseteq Names

\* Turns are named by checkpoints that were written: no later one has the name.
Minted == \A x \in started \cup acted : x[1] \in 1..minted

\* The checkpoint knows of every attempt that was started, and of the tools.
Known == slot # Empty =>
    /\ \A x \in started : x[1] = slot.id => x[2] <= slot.attempts
    /\ \A x \in acted : x[1] = slot.id => slot.tools

\* From the claim to the end of the turn the resumer owns the slot, and its copy
\* says what the slot says, but for an attempt that has used tools.
Owning == resumer.pc \in {"audit", "turn"} /\ ~resumer.checkpoint.tools =>
    /\ slot # Empty /\ slot.id = resumer.checkpoint.id
    /\ slot.state = "running" /\ slot.attempts = resumer.checkpoint.attempts
    /\ \A x \in acted : x[1] # resumer.checkpoint.id

\* The attempt that was claimed is a new one.
NewAttempt == resumer.pc = "audit" /\ ~resumer.checkpoint.tools =>
    \A x \in started : x[1] = resumer.checkpoint.id => x[2] < resumer.checkpoint.attempts

\* A continuation's turn is the one the resumer waits for; no turn outlives its server.
OneTurn ==
    /\ stream.pc # "none" /\ stream.name[1] # 0 =>
          resumer.pc = "turn" /\ stream.name = <<resumer.checkpoint.id, resumer.checkpoint.attempts>>
    /\ ~process.up => stream.pc = "none" /\ process.boot < MaxBoots

RestartInv == RestartTyped /\ Minted /\ Known /\ Owning /\ NewAttempt /\ OneTurn

-----------------------------------------------------------------------------
\* The invariant contains the type invariant of the module.
LEMMA RestartTypeFromTyped == RestartTyped => RestartTypeOK
<1> SUFFICES ASSUME RestartTyped PROVE RestartTypeOK
  OBVIOUS
<1>1. /\ process.up \in BOOLEAN /\ process.boot \in 1..MaxBoots
      /\ process.restart \in {"none", "updating", "scheduled", "exiting"}
      /\ minted \in 0..MaxCheckpoints /\ failures \in 0..MaxFailures
  BY DEF RestartTyped
<1>2. /\ slot # Empty => CheckpointTypeOK(slot)
      /\ resumer.pc \notin {"none", "read"} => CheckpointTypeOK(resumer.checkpoint)
  BY DEF RestartTyped, Ranged, CheckpointTypeOK
<1>3. stream.pc \in {"none", "running", "ended"} /\ stream.generation \in 0..sessionGeneration
  BY DEF RestartTyped, Streams
<1>4. resumer.pc \in {"none", "read", "check", "claim", "audit", "turn", "verify", "catch", "report",
                      "clear", "retry"}
  BY DEF RestartTyped, Resumers
<1>5. QED
  BY <1>1, <1>2, <1>3, <1>4 DEF RestartTypeOK, Copy

\* A checkpoint stays within ranges that grow.
LEMMA RangedGrows ==
  ASSUME NEW c, NEW m \in Nat, NEW b \in Nat, NEW g \in Nat, Ranged(c, m, b, g),
         NEW m2 \in Nat, NEW b2 \in Nat, NEW g2 \in Nat, m <= m2, b <= b2, g <= g2
  PROVE  Ranged(c, m2, b2, g2)
BY DEF Ranged

LEMMA RangedIsRecord ==
  ASSUME NEW c, NEW m \in Nat, NEW b \in Nat, NEW g \in Nat, Ranged(c, m, b, g)
  PROVE  /\ c \in Checkpoints /\ c # Empty /\ c.id \in Nat \ {0} /\ c.id <= m /\ c.boot \in Nat
         /\ c.attempts \in Nat /\ c.tools \in BOOLEAN /\ c.sourceDone \in BOOLEAN /\ c.source \in Names
         /\ c.state \in {"prepared", "pending", "running"}
BY RestartAssumption DEF Ranged, Checkpoints, Names

LEMMA CountedEffects ==
  ASSUME RestartTyped, NEW saved \in BOOLEAN, Counted(saved)
  PROVE  failures' \in 0..MaxFailures
BY RestartAssumption DEF RestartTyped, Counted

\* The other parts of the invariant are about the slot, the resumer and the stream.
LEMMA StepKeeps ==
  ASSUME RestartInv, minted' \in Nat, minted' >= minted, started' = started, acted' = acted,
         slot' = Empty \/ slot' = slot \/ (/\ slot # Empty /\ slot'.id = slot.id /\ slot'.attempts \in Nat
                                             /\ slot'.attempts >= slot.attempts /\ (slot.tools => slot'.tools))
  PROVE  Minted' /\ Known'
<1>1. Minted'
  BY RestartAssumption DEF RestartInv, Minted, RestartTyped
<1>2. Known'
  <2>1. slot # Empty => slot.attempts \in Nat
    BY DEF RestartInv, RestartTyped, Ranged
  <2>2. \A x \in started : x[2] \in Nat
    BY DEF RestartInv, RestartTyped, Names
  <2>3. QED
    BY <2>1, <2>2 DEF RestartInv, Known
<1>3. QED
  BY <1>1, <1>2

\* Once the resumer's turn is over, or before it begins, nothing is owned.
LEMMA Unowned ==
  ASSUME resumer'.pc \notin {"audit", "turn"}, stream'.pc = "none" \/ stream'.name[1] = 0,
         ~process'.up => stream'.pc = "none" /\ process'.boot < MaxBoots
  PROVE  Owning' /\ NewAttempt' /\ OneTurn'
BY DEF Owning, NewAttempt, OneTurn

LEMMA RestartFacts ==
  ASSUME RestartTyped
  PROVE  /\ minted \in Nat /\ process.boot \in Nat /\ sessionGeneration \in Nat
         /\ process = [up |-> process.up, boot |-> process.boot, restart |-> process.restart]
         /\ stream.name \in Names /\ stream.pc \in {"none", "running", "ended"}
         /\ \A x \in started \cup acted : x \in Names
BY RestartAssumption DEF RestartTyped, Streams

\* A request writes a checkpoint of its own, and the resumer, if it owned the old
\* one, has recorded that its attempt used tools.
LEMMA RequestsStep ==
  ASSUME RestartInv, NEW kind \in {"restart", "update"}, NEW saved \in BOOLEAN,
         NEW source \in Streams, source.generation <= sessionGeneration,
         source = stream \/ source.name[1] = 0,
         Requests(kind, source, saved),
         resumer.pc \in {"audit", "turn"} => resumer.checkpoint.tools
  PROVE  RestartInv'
<1> USE DEF RestartInv
<1> DEFINE new == Checkpoint(kind, source)
<1>1. /\ process.up /\ minted < MaxCheckpoints /\ minted' = minted + 1 /\ stream' = source
      /\ slot' \in {slot, new}
      /\ process' = [process EXCEPT !.restart =
                       IF ~saved THEN @ ELSE IF kind = "restart" THEN "scheduled" ELSE "updating"]
      /\ Counted(saved) /\ UNCHANGED <<sessionGeneration, resumer, session, started, acted>>
  BY DEF Requests, Write
<1>2. minted \in Nat /\ process.boot \in 1..MaxBoots /\ process.boot \in Nat /\ sessionGeneration \in Nat
  BY RestartFacts DEF RestartTyped
<1>3. Ranged(new, minted + 1, process.boot, sessionGeneration) /\ new.id = minted + 1
  BY <1>2, RestartAssumption DEF Checkpoint, Ranged, Checkpoints, Streams, Names
<1>4. /\ process' \in [up : BOOLEAN, boot : 1..MaxBoots, restart : {"none", "updating", "scheduled", "exiting"}]
      /\ process'.boot = process.boot /\ process'.up
  BY <1>1 DEF RestartTyped
<1>5. minted + 1 \in 0..MaxCheckpoints /\ minted + 1 \in Nat
  BY <1>1, <1>2, RestartAssumption
<1>6. failures' \in 0..MaxFailures
  BY <1>1, CountedEffects
<1> HIDE DEF new
<1>7. slot' = Empty \/ Ranged(slot', minted', process'.boot, sessionGeneration')
  <2>1. CASE slot' = slot
    BY <1>1, <1>2, <1>4, <1>5, <2>1, RangedGrows DEF RestartTyped
  <2>2. CASE slot' = new
    BY <1>1, <1>3, <1>4, <2>2
  <2>3. QED
    BY <1>1, <2>1, <2>2
<1>8. resumer'.pc \in {"none", "read"} \/ Ranged(resumer'.checkpoint, minted', process'.boot, sessionGeneration')
  BY <1>1, <1>2, <1>4, <1>5, RangedGrows DEF RestartTyped
<1>9. RestartTyped'
  BY <1>1, <1>4, <1>5, <1>6, <1>7, <1>8 DEF RestartTyped
<1>10. Minted'
  BY <1>1, <1>2, <1>5 DEF Minted
<1>11. Known'
  <2>1. CASE slot' = slot
    BY <1>1, <2>1 DEF Known
  <2>2. CASE slot' = new
    <3>1. \A x \in started \cup acted : x[1] # minted + 1
      BY <1>2 DEF Minted
    <3>2. QED
      BY <1>1, <1>3, <2>2, <3>1 DEF Known
  <2>3. QED
    BY <1>1, <2>1, <2>2
<1>12. Owning' /\ NewAttempt'
  BY <1>1 DEF Owning, NewAttempt
<1>13. OneTurn'
  BY <1>1, <1>4 DEF OneTurn
<1>14. QED
  BY <1>9, <1>10, <1>11, <1>12, <1>13

LEMMA RequestSteps ==
  ASSUME RestartInv, NEW kind \in {"restart", "update"}, NEW saved \in BOOLEAN,
         RequestRestart(kind, saved) \/ RequestAnother(kind, saved)
  PROVE  RestartInv'
<1> USE DEF RestartInv
<1>1. minted \in Nat /\ sessionGeneration \in Nat
  BY RestartFacts
<1>2. CASE RequestRestart(kind, saved)
  <2> DEFINE source == [NoStream EXCEPT !.pc = "running", !.name = <<0, minted + 1>>,
                                        !.generation = sessionGeneration]
  <2>1. slot = Empty /\ Requests(kind, source, saved)
    BY <1>2 DEF RequestRestart
  <2>2. source \in Streams /\ source.generation <= sessionGeneration /\ source.name[1] = 0
    <3>1. NoStream \in Streams
      BY DEF NoStream, Streams, Names
    <3>2. <<0, minted + 1>> \in Names /\ <<0, minted + 1>>[1] = 0
      BY <1>1 DEF Names
    <3>3. /\ source \in Streams /\ source.generation = sessionGeneration
          /\ source.name = <<0, minted + 1>>
      <4> HIDE DEF NoStream
      <4>1. QED
        BY <1>1, <3>1, <3>2 DEF Streams
    <3> HIDE DEF source
    <3>4. QED
      BY <1>1, <3>2, <3>3
  <2>3. resumer.pc \in {"audit", "turn"} => resumer.checkpoint.tools
    BY <2>1 DEF Owning
  <2> HIDE DEF source
  <2>4. QED
    BY <1>1, <2>1, <2>2, <2>3, RequestsStep
<1>3. CASE RequestAnother(kind, saved)
  <2>1. /\ stream.pc = "running" /\ Requests(kind, stream, saved)
        /\ slot = Empty \/ OwnsSlot
        /\ stream.name[1] = 0 \/ stream.name \in acted
    BY <1>3 DEF RequestAnother
  <2>2. stream \in Streams /\ stream.generation <= sessionGeneration
    BY DEF RestartTyped
  <2>3. resumer.pc \in {"audit", "turn"} => resumer.checkpoint.tools
    <3>1. CASE slot = Empty
      BY <3>1 DEF Owning
    <3>2. CASE slot # Empty
      <4>1. stream.name \in acted \/ stream.name[1] = 0
        BY <2>1
      <4>2. slot # Empty /\ stream.name = <<slot.id, slot.attempts>>
        BY <2>1, <3>2 DEF OwnsSlot
      <4>3. Ranged(slot, minted, process.boot, sessionGeneration)
        BY <3>2 DEF RestartTyped
      <4>4. slot.id \in Nat \ {0}
        BY <1>1, <4>3, RestartFacts, RangedIsRecord
      <4>5. stream.name[1] # 0 /\ stream.name \in acted
        BY <4>1, <4>2, <4>4
      <4>6. resumer.pc = "turn" /\ stream.name[1] = resumer.checkpoint.id
        BY <2>1, <4>5 DEF OneTurn
      <4>7. QED
        BY <4>5, <4>6 DEF Owning
    <3>3. QED
      BY <3>1, <3>2
  <2>4. QED
    BY <2>1, <2>2, <2>3, RequestsStep
<1>4. QED
  BY <1>2, <1>3

\* The update is armed or given up; the process is told to restart.
LEMMA ArmSteps ==
  ASSUME RestartInv, NEW saved \in BOOLEAN, ArmUpdate(saved) \/ UpdateFails(saved) \/ RestartProcess(saved)
  PROVE  RestartInv'
<1> USE DEF RestartInv
<1>1. /\ process'.up = process.up /\ process'.boot = process.boot
      /\ process' \in [up : BOOLEAN, boot : 1..MaxBoots, restart : {"none", "updating", "scheduled", "exiting"}]
      /\ UNCHANGED <<sessionGeneration, minted, stream, resumer, session, started, acted>>
  BY DEF ArmUpdate, UpdateFails, RestartProcess, Prepared, RestartTyped
<1>2. failures' \in 0..MaxFailures
  BY CountedEffects DEF ArmUpdate, UpdateFails, RestartProcess, RestartTyped
<1>3. \/ slot' = slot
      \/ /\ slot # Empty /\ slot.state = "prepared"
         /\ slot' = Empty \/ slot' = [slot EXCEPT !.state = "pending"]
  BY DEF ArmUpdate, UpdateFails, RestartProcess, Prepared
<1>4. /\ slot' = Empty \/ Ranged(slot', minted, process.boot, sessionGeneration)
      /\ slot' = Empty \/ slot' = slot \/ (/\ slot # Empty /\ slot'.id = slot.id /\ slot'.attempts \in Nat
                                             /\ slot'.attempts >= slot.attempts /\ (slot.tools => slot'.tools))
  <2>1. CASE slot' \in {slot, Empty}
    BY <2>1 DEF RestartTyped
  <2>2. CASE slot # Empty /\ slot' = [slot EXCEPT !.state = "pending"]
    <3>1. Ranged(slot, minted, process.boot, sessionGeneration)
      BY <2>2 DEF RestartTyped
    <3>2. QED
      BY <2>2, <3>1 DEF Ranged, Checkpoints
  <2>3. QED
    BY <1>3, <2>1, <2>2
<1>5. RestartTyped'
  BY <1>1, <1>2, <1>4 DEF RestartTyped
<1>6. Minted' /\ Known'
  BY <1>1, <1>4, RestartFacts, StepKeeps
<1>7. Owning' /\ NewAttempt'
  BY <1>1, <1>3 DEF Owning, NewAttempt
<1>8. OneTurn'
  BY <1>1 DEF OneTurn
<1>9. QED
  BY <1>5, <1>6, <1>7, <1>8

\* What the server held is lost; the next one has read nothing.
LEMMA DownStep ==
  ASSUME RestartInv, Down
  PROVE  RestartInv'
<1> USE DEF RestartInv
<1>1. /\ process' = [process EXCEPT !.up = FALSE, !.restart = "none"]
      /\ stream' = NoStream /\ resumer' = Resting
      /\ UNCHANGED <<sessionGeneration, slot, minted, session, failures, started, acted>>
  BY DEF Down
<1>2. /\ process' \in [up : BOOLEAN, boot : 1..MaxBoots, restart : {"none", "updating", "scheduled", "exiting"}]
      /\ process'.boot = process.boot /\ process.boot < MaxBoots
  BY <1>1 DEF RestartTyped, Down
<1>3. NoStream \in Streams /\ NoStream.generation = 0 /\ NoStream.pc = "none"
  BY DEF NoStream, Streams, Names
<1>4. Resting \in Resumers /\ Resting.pc = "none"
  BY DEF Resting, Resumers
<1>5. RestartTyped'
  BY <1>1, <1>2, <1>3, <1>4 DEF RestartTyped
<1>6. Minted' /\ Known'
  BY <1>1, RestartFacts, StepKeeps
<1>7. Owning' /\ NewAttempt' /\ OneTurn'
  BY <1>1, <1>2, <1>3, <1>4, Unowned
<1>8. QED
  BY <1>5, <1>6, <1>7

LEMMA ProcessBootsStep ==
  ASSUME RestartInv, ProcessBoots
  PROVE  RestartInv'
<1> USE DEF RestartInv
<1>1. /\ ~process.up /\ process' = [up |-> TRUE, boot |-> process.boot + 1, restart |-> "none"]
      /\ resumer' = [Resting EXCEPT !.pc = "read"]
      /\ UNCHANGED <<sessionGeneration, slot, minted, stream, session, failures, started, acted>>
  BY DEF ProcessBoots
<1>2. /\ process.boot + 1 \in 1..MaxBoots /\ process.boot + 1 \in Nat /\ process.boot \in Nat
      /\ minted \in Nat /\ sessionGeneration \in Nat
  BY <1>1, RestartAssumption, RestartFacts DEF RestartTyped, OneTurn
<1>3. resumer' \in Resumers /\ resumer'.pc = "read"
  BY <1>1 DEF Resting, Resumers
<1>4. slot = Empty \/ Ranged(slot, minted, process.boot + 1, sessionGeneration)
  BY <1>2, RangedGrows DEF RestartTyped
<1>5. RestartTyped'
  BY <1>1, <1>2, <1>3, <1>4 DEF RestartTyped
<1>6. Minted' /\ Known'
  BY <1>1, RestartFacts, StepKeeps
<1>7. Owning' /\ NewAttempt' /\ OneTurn'
  BY <1>1, <1>3, Unowned DEF OneTurn
<1>8. QED
  BY <1>5, <1>6, <1>7

\* A step of the resumer that does not go on with the turn.
LEMMA RestsStep ==
  ASSUME RestartInv, process.up, UNCHANGED <<process, sessionGeneration, minted, started, acted>>,
         failures' \in 0..MaxFailures,
         slot' = slot \/ slot' = Empty \/ (slot # Empty /\ slot' = Unleased(slot)),
         resumer' \in Resumers, resumer'.pc \notin {"audit", "turn"},
         \/ resumer'.pc \in {"none", "read"}
         \/ Ranged(resumer'.checkpoint, minted, process.boot, sessionGeneration),
         (stream' = stream /\ resumer.pc # "turn") \/ stream' = NoStream
  PROVE  RestartInv'
<1> USE DEF RestartInv
<1>1. /\ slot' = Empty \/ Ranged(slot', minted, process.boot, sessionGeneration)
      /\ slot' = Empty \/ slot' = slot \/ (/\ slot # Empty /\ slot'.id = slot.id /\ slot'.attempts \in Nat
                                             /\ slot'.attempts >= slot.attempts /\ (slot.tools => slot'.tools))
  <2>1. CASE slot' \in {slot, Empty}
    BY <2>1 DEF RestartTyped
  <2>2. CASE slot # Empty /\ slot' = Unleased(slot)
    <3>1. Ranged(slot, minted, process.boot, sessionGeneration) /\ process.boot \in Nat
      BY <2>2, RestartFacts DEF RestartTyped
    <3>2. slot \in Checkpoints /\ slot.attempts \in Nat
      BY <3>1 DEF Ranged, Checkpoints
    <3>3. /\ slot' \in Checkpoints /\ slot'.id = slot.id /\ slot'.attempts = slot.attempts /\ slot'.tools = slot.tools
          /\ slot'.boot = slot.boot /\ slot'.generation = slot.generation
          /\ slot'.owner = 0
      BY <2>2, <3>2 DEF Checkpoints, Unleased
    <3>4. Ranged(slot', minted, process.boot, sessionGeneration)
      BY <3>1, <3>3 DEF Ranged
    <3>5. QED
      BY <2>2, <3>2, <3>3, <3>4
  <2>3. QED
    BY <2>1, <2>2
<1>2. NoStream \in Streams /\ NoStream.generation = 0 /\ NoStream.pc = "none"
  BY DEF NoStream, Streams, Names
<1>3. RestartTyped'
  BY <1>1, <1>2 DEF RestartTyped
<1>4. Minted' /\ Known'
  BY <1>1, RestartFacts, StepKeeps
<1>5. stream'.pc = "none" \/ stream'.name[1] = 0
  BY <1>2 DEF OneTurn
<1>6. Owning' /\ NewAttempt' /\ OneTurn'
  BY <1>5, Unowned
<1>7. QED
  BY <1>3, <1>4, <1>6

LEMMA ResumerFacts ==
  ASSUME RestartTyped
  PROVE  /\ resumer.chat \in {"home", "other"} /\ resumer.checkpoint \in Checkpoints \cup {Empty}
         /\ \A pc \in {"none", "read", "check", "claim", "audit", "turn", "verify", "catch", "report",
                       "clear", "retry"} :
              [resumer EXCEPT !.pc = pc] \in Resumers /\ [resumer EXCEPT !.pc = pc].pc = pc
              /\ [resumer EXCEPT !.pc = pc].checkpoint = resumer.checkpoint
         /\ Resting \in Resumers /\ Resting.pc = "none"
BY DEF RestartTyped, Resumers, Resting

\* The conversation is cleared.
LEMMA ClearConversationStep ==
  ASSUME RestartInv, ClearConversation
  PROVE  RestartInv'
<1> USE DEF RestartInv
<1>1. /\ sessionGeneration' = sessionGeneration + 1 /\ sessionGeneration \in Nat
      /\ sessionGeneration + 1 \in Nat /\ minted \in Nat /\ process.boot \in Nat
      /\ UNCHANGED <<process, slot, minted, stream, resumer, failures, started, acted>>
  BY RestartFacts DEF ClearConversation
<1>2. /\ slot = Empty \/ Ranged(slot, minted, process.boot, sessionGeneration + 1)
      /\ \/ resumer.pc \in {"none", "read"}
         \/ Ranged(resumer.checkpoint, minted, process.boot, sessionGeneration + 1)
  BY <1>1, RangedGrows DEF RestartTyped
<1>3. stream.generation <= sessionGeneration + 1
  BY <1>1 DEF RestartTyped, Streams
<1>4. RestartTyped'
  BY <1>1, <1>2, <1>3 DEF RestartTyped
<1>5. Minted' /\ Known'
  BY <1>1, StepKeeps
<1>6. Owning' /\ NewAttempt' /\ OneTurn'
  BY <1>1 DEF Owning, NewAttempt, OneTurn
<1>7. QED
  BY <1>4, <1>5, <1>6

\* The resumer reads the checkpoint, and looks for the source's reply.
LEMMA ReadSteps ==
  ASSUME RestartInv, (\E chat \in {"home", "other"} : ReadCheckpoint(chat)) \/ CheckSource \/ RetryLater
  PROVE  RestartInv'
<1> USE DEF RestartInv
<1>1. /\ process.up /\ resumer.pc \in {"read", "check", "retry"}
      /\ UNCHANGED <<process, sessionGeneration, slot, minted, stream, session, failures, started, acted>>
  BY DEF ReadCheckpoint, CheckSource, RetryLater, Resumes
<1>2. failures \in 0..MaxFailures
  BY DEF RestartTyped
<1>3. ASSUME NEW chat \in {"home", "other"}, ReadCheckpoint(chat) PROVE RestartInv'
  <2>1. CASE slot = Empty \/ slot.boot = process.boot
    <3>1. resumer' = Resting
      BY <1>3, <2>1 DEF ReadCheckpoint
    <3>2. QED
      BY <1>1, <1>2, <3>1, ResumerFacts, RestsStep
  <2>2. CASE ~(slot = Empty \/ slot.boot = process.boot)
    <3>1. resumer' = [pc |-> IF Uncleared(slot) THEN "check" ELSE "clear", chat |-> chat, checkpoint |-> slot]
      BY <1>3, <2>2 DEF ReadCheckpoint
    <3>2. Ranged(slot, minted, process.boot, sessionGeneration) /\ slot \in Checkpoints
      BY <2>2 DEF RestartTyped, Ranged
    <3>3. resumer' \in Resumers /\ resumer'.pc \notin {"audit", "turn"} /\ resumer'.checkpoint = slot
      BY <3>1, <3>2 DEF Resumers
    <3>4. QED
      BY <1>1, <1>2, <3>2, <3>3, RestsStep
  <2>3. QED
    BY <2>1, <2>2
<1>4. CASE CheckSource
  <2> DEFINE done == Copy.sourceDone \/ Copy.source \in session.done
             copy == [resumer.checkpoint EXCEPT !.sourceDone = done]
  <2>1. Ranged(resumer.checkpoint, minted, process.boot, sessionGeneration)
    BY <1>4 DEF CheckSource, Resumes, RestartTyped
  <2>2. resumer' = [[resumer EXCEPT !.pc = "claim"] EXCEPT !.checkpoint = copy]
    BY <1>4 DEF CheckSource, Copy, RestartTyped, Resumers
  <2>3. done \in BOOLEAN
    OBVIOUS
  <2> HIDE DEF done
  <2>4. Ranged(copy, minted, process.boot, sessionGeneration)
    BY <2>1, <2>3 DEF Ranged, Checkpoints
  <2>5. copy \in Checkpoints
    BY <2>4 DEF Ranged
  <2> HIDE DEF copy
  <2>6. resumer' \in Resumers /\ resumer'.pc = "claim" /\ resumer'.checkpoint = copy
    BY <2>2, <2>5 DEF RestartTyped, Resumers
  <2>7. QED
    BY <1>1, <1>2, <2>4, <2>6, RestsStep
<1>5. CASE RetryLater
  <2>1. resumer' = [resumer EXCEPT !.pc = "read"]
    BY <1>5 DEF RetryLater
  <2>2. QED
    BY <1>1, <1>2, <2>1, ResumerFacts, RestsStep
<1>6. QED
  BY <1>3, <1>4, <1>5

\* The claim counts a new attempt, unless the last may have acted or was the last allowed.
LEMMA ClaimedCheckpoint ==
  ASSUME RestartTyped, slot # Empty, resumer.checkpoint \in Checkpoints
  PROVE  /\ Ranged(Claimed, minted, process.boot, sessionGeneration) /\ Claimed \in Checkpoints
         /\ Claimed.id = slot.id /\ Claimed.tools = slot.tools /\ Claimed.state = "running"
         /\ Claimed.attempts = IF NoAttempt(slot) THEN slot.attempts ELSE slot.attempts + 1
         /\ slot.attempts \in Nat /\ Claimed.attempts \in Nat
<1>1. /\ Ranged(slot, minted, process.boot, sessionGeneration) /\ process.boot \in Nat /\ slot \in Checkpoints
  BY RestartFacts DEF RestartTyped, Ranged
<1> DEFINE n == IF NoAttempt(slot) THEN slot.attempts ELSE slot.attempts + 1
           done == slot.sourceDone \/ Copy.sourceDone
<1>2. n \in 0..TotalAttempts /\ n \in Nat /\ slot.attempts \in Nat /\ done \in BOOLEAN
  BY <1>1, RestartAssumption DEF Ranged, NoAttempt, Exhausted, Checkpoints
<1>3. Claimed = [slot EXCEPT !.state = "running", !.owner = process.boot, !.sourceDone = done, !.attempts = n]
  BY <1>1 DEF Claimed, Checkpoints
<1> HIDE DEF n, done
<1>4. /\ Claimed \in Checkpoints /\ Claimed.id = slot.id /\ Claimed.tools = slot.tools /\ Claimed.state = "running"
      /\ Claimed.attempts = n /\ Claimed.boot = slot.boot 
      /\ Claimed.generation = slot.generation /\ Claimed.owner = process.boot
  BY <1>1, <1>2, <1>3 DEF Checkpoints
<1>5. Ranged(Claimed, minted, process.boot, sessionGeneration)
  BY <1>1, <1>2, <1>4 DEF Ranged
<1>6. QED
  BY <1>2, <1>4, <1>5 DEF n

LEMMA ClaimStep ==
  ASSUME RestartInv, NEW saved \in BOOLEAN, ClaimCheckpoint(saved)
  PROVE  RestartInv'
<1> USE DEF RestartInv
<1>1. /\ process.up /\ resumer.pc = "claim" /\ failures' \in 0..MaxFailures
      /\ UNCHANGED <<process, sessionGeneration, minted, stream, session, started, acted>>
  BY CountedEffects DEF ClaimCheckpoint, Resumes, Write, RestartTyped
<1>2. Ranged(resumer.checkpoint, minted, process.boot, sessionGeneration) /\ resumer.checkpoint \in Checkpoints
  BY <1>1 DEF RestartTyped, Ranged
<1>3. CASE Reported(Copy, resumer.chat) \/ ~Holds(Copy.id) \/ Leased
  <2>1. slot' = slot /\ resumer' \in {[resumer EXCEPT !.pc = "clear"], [resumer EXCEPT !.pc = "retry"], Resting}
    BY <1>3 DEF ClaimCheckpoint
  <2>2. resumer' \in Resumers /\ (resumer' = Resting \/ resumer'.checkpoint = resumer.checkpoint)
    BY <2>1, ResumerFacts
  <2>3. resumer'.pc \in {"none", "clear", "retry"} /\ (resumer'.pc = "none" \/ resumer'.checkpoint = resumer.checkpoint)
    BY <2>1, ResumerFacts
  <2>4. QED
    BY <1>1, <1>2, <2>1, <2>2, <2>3, RestsStep
<1>4. CASE ~(Reported(Copy, resumer.chat) \/ ~Holds(Copy.id) \/ Leased)
  <2>1. slot # Empty /\ slot.id = resumer.checkpoint.id
    BY <1>4 DEF Holds, Copy
  <2>2. /\ Ranged(Claimed, minted, process.boot, sessionGeneration) /\ Claimed \in Checkpoints
        /\ Claimed.id = slot.id /\ Claimed.tools = slot.tools /\ Claimed.state = "running"
        /\ Claimed.attempts = IF NoAttempt(slot) THEN slot.attempts ELSE slot.attempts + 1
        /\ slot.attempts \in Nat /\ Claimed.attempts \in Nat
    BY <1>2, <2>1, ClaimedCheckpoint
  <2> DEFINE next == IF resumer.chat = "other" \/ slot.state = "prepared" \/ Exhausted(slot)
                     THEN "report" ELSE "audit"
  <2>3. /\ slot' \in {slot, Claimed} /\ (saved => slot' = Claimed)
        /\ resumer' = IF saved THEN [resumer EXCEPT !.checkpoint = Claimed, !.pc = next]
                      ELSE [resumer EXCEPT !.pc = "retry"]
    BY <1>4 DEF ClaimCheckpoint, Write
  <2>4. next \in {"report", "audit"} /\ (next = "audit" => ~Exhausted(slot) /\ slot.state # "prepared")
    OBVIOUS
  <2> HIDE DEF next, Claimed
  <2>5. /\ resumer' \in Resumers /\ resumer'.pc \in {"retry", "report", "audit"}
        /\ saved => resumer'.checkpoint = Claimed /\ resumer'.pc = next
        /\ ~saved => resumer'.checkpoint = resumer.checkpoint /\ resumer'.pc = "retry"
    BY <2>2, <2>3, <2>4 DEF RestartTyped, Resumers
  <2>6. slot' = Empty \/ Ranged(slot', minted, process.boot, sessionGeneration)
    BY <2>2, <2>3 DEF RestartTyped
  <2>7. Ranged(resumer'.checkpoint, minted, process.boot, sessionGeneration)
    BY <1>2, <2>2, <2>5
  <2>8. RestartTyped'
    BY <1>1, <2>5, <2>6, <2>7 DEF RestartTyped, Ranged
  <2>9. Minted' /\ Known'
    <3>1. slot' = slot \/ (slot # Empty /\ slot'.id = slot.id /\ slot'.attempts \in Nat
                           /\ slot'.attempts >= slot.attempts /\ (slot.tools => slot'.tools))
      BY <2>1, <2>2, <2>3
    <3>2. QED
      BY <1>1, <3>1, RestartFacts, StepKeeps
  <2>10. CASE resumer'.pc = "audit"
    <3>1. saved /\ next = "audit" /\ slot' = Claimed /\ resumer'.checkpoint = Claimed
      BY <2>3, <2>5, <2>10
    <3>2. Owning'
      <4>1. slot' # Empty
        BY <2>2, <3>1, RestartAssumption
      <4>2. ~slot.tools => \A x \in acted : x[1] # slot.id
        BY <2>1 DEF Known
      <4>3. QED
        BY <1>1, <2>2, <3>1, <4>1, <4>2 DEF Owning
    <3>3. NewAttempt'
      <4>1. ~slot.tools => Claimed.attempts = slot.attempts + 1
        BY <2>2, <2>4, <3>1 DEF NoAttempt
      <4>2. \A x \in started : x[1] = slot.id => x[2] <= slot.attempts /\ x[2] \in Nat
        BY <2>1 DEF Known, RestartTyped, Names
      <4>3. ~slot.tools => \A x \in started : x[1] = slot.id => x[2] < Claimed.attempts
        BY <2>2, <4>1, <4>2
      <4>4. QED
        BY <1>1, <2>2, <3>1, <4>3 DEF NewAttempt
    <3>4. OneTurn'
      BY <1>1 DEF OneTurn
    <3>5. QED
      BY <2>8, <2>9, <3>2, <3>3, <3>4
  <2>11. CASE resumer'.pc # "audit"
    <3>1. resumer'.pc \notin {"audit", "turn"} /\ (stream'.pc = "none" \/ stream'.name[1] = 0)
      BY <1>1, <2>5, <2>11 DEF OneTurn
    <3>2. Owning' /\ NewAttempt' /\ OneTurn'
      BY <1>1, <3>1, Unowned
    <3>3. QED
      BY <2>8, <2>9, <3>2
  <2>12. QED
    BY <2>10, <2>11
<1>5. QED
  BY <1>3, <1>4

\* The turn of the attempt begins, or the attempt is not repeated.
LEMMA VerifyAuditStep ==
  ASSUME RestartInv, NEW verified \in BOOLEAN, VerifyAudit(verified)
  PROVE  RestartInv'
<1> USE DEF RestartInv
<1>1. /\ process.up /\ resumer.pc = "audit"
      /\ UNCHANGED <<process, sessionGeneration, slot, minted, session, failures, acted>>
  BY DEF VerifyAudit, Resumes
<1>2. /\ Ranged(resumer.checkpoint, minted, process.boot, sessionGeneration)
      /\ minted \in Nat /\ process.boot \in Nat /\ sessionGeneration \in Nat
  BY <1>1, RestartFacts DEF RestartTyped
<1>3. CASE verified /\ ~Remembers(Copy) /\ Uncleared(Copy)
  <2> DEFINE name == <<resumer.checkpoint.id, resumer.checkpoint.attempts>>
             new == [pc |-> "running", name |-> name, generation |-> resumer.checkpoint.generation,
                     readOnly |-> resumer.checkpoint.sourceDone, ending |-> "none"]
  <2>1. /\ stream.pc = "none" /\ stream' = new /\ ~resumer.checkpoint.tools
        /\ resumer' = [resumer EXCEPT !.pc = "turn"] /\ started' = started \cup {stream'.name}
    BY <1>3 DEF VerifyAudit, Remembers, Copy
  <2>2. /\ resumer.checkpoint.id \in 1..minted /\ resumer.checkpoint.attempts \in Nat
        /\ resumer.checkpoint.generation \in Nat /\ resumer.checkpoint.generation <= sessionGeneration
        /\ resumer.checkpoint.sourceDone \in BOOLEAN
    BY <1>2, RestartAssumption DEF Ranged, Checkpoints
  <2>3. name \in Names /\ name[1] \in 1..minted /\ name[1] = resumer.checkpoint.id
        /\ name[2] = resumer.checkpoint.attempts
    BY <1>2, <2>2 DEF Names
  <2>4. stream'.name = name /\ started' = started \cup {name} /\ stream'.generation <= sessionGeneration
        /\ stream'.pc = "running"
    BY <2>1, <2>2
  <2> HIDE DEF name
  <2>5. new \in Streams
    BY <2>2, <2>3 DEF Streams
  <2> HIDE DEF new
  <2>6. resumer' \in Resumers /\ resumer'.pc = "turn" /\ resumer'.checkpoint = resumer.checkpoint
    BY <2>1, ResumerFacts
  <2>7. RestartTyped'
    BY <1>1, <1>2, <2>1, <2>3, <2>4, <2>5, <2>6 DEF RestartTyped
  <2>8. Minted'
    BY <1>1, <2>3, <2>4 DEF Minted
  <2>9. Known'
    <3>1. slot # Empty /\ slot.attempts = resumer.checkpoint.attempts
      BY <1>1, <2>1 DEF Owning
    <3>2. QED
      BY <1>1, <2>2, <2>3, <2>4, <3>1 DEF Known
  <2>10. Owning'
    BY <1>1, <2>6 DEF Owning
  <2>11. NewAttempt' /\ OneTurn'
    BY <1>1, <2>4, <2>6 DEF NewAttempt, OneTurn, name
  <2>12. QED
    BY <2>7, <2>8, <2>9, <2>10, <2>11
<1>4. CASE ~(verified /\ ~Remembers(Copy) /\ Uncleared(Copy))
  <2>1. /\ resumer' \in {[resumer EXCEPT !.pc = "report"], [resumer EXCEPT !.pc = "catch"]}
        /\ UNCHANGED <<stream, started>>
    BY <1>4 DEF VerifyAudit
  <2>2. /\ resumer' \in Resumers /\ resumer'.pc \in {"report", "catch"} /\ resumer'.checkpoint = resumer.checkpoint
    BY <2>1, ResumerFacts
  <2>3. failures' \in 0..MaxFailures
    BY <1>1 DEF RestartTyped
  <2>4. QED
    BY <1>1, <1>2, <2>1, <2>2, <2>3, RestsStep
<1>5. QED
  BY <1>3, <1>4

LEMMA ToolsMarked ==
  ASSUME RestartTyped, NEW c \in Checkpoints
  PROVE  /\ [c EXCEPT !.tools = TRUE] \in Checkpoints
         /\ [c EXCEPT !.tools = TRUE].tools /\ [c EXCEPT !.tools = TRUE].id = c.id
         /\ [c EXCEPT !.tools = TRUE].attempts = c.attempts
         /\ Ranged(c, minted, process.boot, sessionGeneration) =>
               Ranged([c EXCEPT !.tools = TRUE], minted, process.boot, sessionGeneration)
BY DEF Ranged, Checkpoints

\* The first call is recorded in the checkpoint before it is executed.
LEMMA ToolCallStep ==
  ASSUME RestartInv, NEW saved \in BOOLEAN, ToolCall(saved)
  PROVE  RestartInv'
<1> USE DEF RestartInv
<1> DEFINE copy == [resumer.checkpoint EXCEPT !.tools = TRUE]
           marked == [slot EXCEPT !.tools = TRUE]
<1>1. /\ process.up /\ resumer.pc = "turn" /\ stream.pc = "running" /\ ~resumer.checkpoint.tools
      /\ stream.name[1] = resumer.checkpoint.id /\ failures' \in 0..MaxFailures
      /\ slot' \in {slot, marked} /\ (saved => slot' = marked)
      /\ UNCHANGED <<process, sessionGeneration, minted, session, started>>
  BY CountedEffects DEF ToolCall, Resumes, Copy, Write
<1>2. /\ Ranged(resumer.checkpoint, minted, process.boot, sessionGeneration)
      /\ resumer.checkpoint \in Checkpoints /\ resumer.checkpoint.id \in 1..minted
  BY <1>1 DEF RestartTyped, Ranged
<1>3. /\ slot # Empty /\ slot.id = resumer.checkpoint.id
      /\ Ranged(slot, minted, process.boot, sessionGeneration) /\ slot \in Checkpoints /\ slot.attempts \in Nat
  BY <1>1 DEF Owning, RestartTyped, Ranged, Checkpoints
<1>4. /\ Ranged(copy, minted, process.boot, sessionGeneration) /\ copy \in Checkpoints
      /\ copy.tools /\ copy.id = resumer.checkpoint.id /\ copy.attempts = resumer.checkpoint.attempts
      /\ Ranged(marked, minted, process.boot, sessionGeneration)
      /\ marked.tools /\ marked.id = slot.id /\ marked.attempts = slot.attempts
  BY <1>2, <1>3, ToolsMarked
<1>5. resumer' = [resumer EXCEPT !.checkpoint = copy]
  BY DEF ToolCall, RestartTyped, Resumers
<1>6. /\ saved => acted' = acted \cup {stream.name} /\ stream' = stream
      /\ ~saved => acted' = acted /\ stream' = [stream EXCEPT !.pc = "ended", !.ending = "error"]
  BY DEF ToolCall
<1> HIDE DEF copy, marked
<1>7. resumer' \in Resumers /\ resumer'.pc = "turn" /\ resumer'.checkpoint = copy
  BY <1>1, <1>4, <1>5 DEF RestartTyped, Resumers
<1>8. /\ stream' \in Streams /\ stream'.name = stream.name /\ stream'.generation = stream.generation
      /\ acted' \in {acted, acted \cup {stream.name}} /\ stream.name \in Names
  BY <1>6 DEF RestartTyped, Streams
<1>9. RestartTyped'
  BY <1>1, <1>4, <1>7, <1>8 DEF RestartTyped
<1>10. Minted'
  BY <1>1, <1>2, <1>8 DEF Minted
<1>11. Known'
  <2>1. slot' # Empty => slot'.id = slot.id /\ slot'.attempts = slot.attempts /\ (slot.tools => slot'.tools)
    BY <1>1, <1>4
  <2>2. \A x \in started : x[1] = slot.id => x[2] <= slot.attempts
    BY <1>3 DEF Known
  <2>3. ASSUME NEW x \in acted', x[1] = slot.id, slot' # Empty PROVE slot'.tools
    <3>1. CASE saved
      BY <1>1, <1>4, <3>1
    <3>2. CASE ~saved
      BY <1>3, <1>6, <2>1, <2>3, <3>2 DEF Known
    <3>3. QED
      BY <3>1, <3>2
  <2>4. QED
    BY <1>1, <2>1, <2>2, <2>3 DEF Known
<1>12. Owning' /\ NewAttempt'
  BY <1>4, <1>7 DEF Owning, NewAttempt
<1>13. OneTurn'
  BY <1>1, <1>4, <1>7, <1>8 DEF OneTurn
<1>14. QED
  BY <1>9, <1>10, <1>11, <1>12, <1>13

LEMMA TurnEndsStep ==
  ASSUME RestartInv, NEW ending \in {"done", "error", "moved"}, TurnEnds(ending)
  PROVE  RestartInv'
<1> USE DEF RestartInv
<1>1. /\ process.up /\ stream.pc = "running" /\ stream' \in {NoStream, [stream EXCEPT !.pc = "ended", !.ending = ending]}
      /\ UNCHANGED <<process, sessionGeneration, slot, minted, resumer, failures, started, acted>>
  BY DEF TurnEnds
<1>2. NoStream \in Streams /\ NoStream.generation = 0 /\ NoStream.pc = "none"
  BY DEF NoStream, Streams, Names
<1>3. /\ stream' \in Streams /\ stream'.generation <= sessionGeneration
      /\ stream'.pc = "none" \/ stream'.name = stream.name
  <2>1. CASE stream' = NoStream
    BY <1>2, <2>1, RestartFacts
  <2>2. CASE stream' = [stream EXCEPT !.pc = "ended", !.ending = ending]
    BY <2>2 DEF RestartTyped, Streams
  <2>3. QED
    BY <1>1, <2>1, <2>2
<1>4. RestartTyped'
  BY <1>1, <1>3 DEF RestartTyped
<1>5. Minted' /\ Known'
  BY <1>1, RestartFacts, StepKeeps
<1>6. Owning' /\ NewAttempt' /\ OneTurn'
  BY <1>1, <1>3 DEF Owning, NewAttempt, OneTurn
<1>7. QED
  BY <1>4, <1>5, <1>6

\* What the resumer does when the turn is over.
LEMMA AfterTurnSteps ==
  ASSUME RestartInv, NEW saved \in BOOLEAN, JudgeTurn \/ VerifyReport(saved) \/ ClearCheckpoint(saved)
  PROVE  RestartInv'
<1> USE DEF RestartInv
<1>1. /\ process.up /\ resumer.pc \in {"turn", "verify", "clear"}
      /\ UNCHANGED <<process, sessionGeneration, minted, started, acted>>
  BY DEF JudgeTurn, VerifyReport, ClearCheckpoint, Resumes
<1>2. slot' = slot \/ slot' = Empty
  BY DEF JudgeTurn, VerifyReport, ClearCheckpoint, Without
<1>3. failures' \in 0..MaxFailures
  BY CountedEffects DEF JudgeTurn, VerifyReport, ClearCheckpoint, RestartTyped
<1>4. \/ resumer' \in {Resting, [resumer EXCEPT !.pc = "catch"], [resumer EXCEPT !.pc = "verify"],
                       [resumer EXCEPT !.pc = "retry"]}
      \/ \E chat \in {"home", "other"} : resumer' = [resumer EXCEPT !.pc = "report", !.chat = chat]
  <2>1. CASE JudgeTurn
    BY <2>1 DEF JudgeTurn
  <2>2. QED
    BY <2>1 DEF VerifyReport, ClearCheckpoint
<1>5. /\ resumer' \in Resumers /\ resumer'.pc \in {"none", "catch", "verify", "retry", "report"}
      /\ resumer'.pc = "none" \/ resumer'.checkpoint = resumer.checkpoint
  <2>1. ASSUME NEW chat \in {"home", "other"}
        PROVE  /\ [resumer EXCEPT !.pc = "report", !.chat = chat] \in Resumers
               /\ [resumer EXCEPT !.pc = "report", !.chat = chat].pc = "report"
               /\ [resumer EXCEPT !.pc = "report", !.chat = chat].checkpoint = resumer.checkpoint
    BY DEF RestartTyped, Resumers
  <2>2. ASSUME NEW chat \in {"home", "other"}, resumer' = [resumer EXCEPT !.pc = "report", !.chat = chat]
        PROVE  /\ resumer' \in Resumers /\ resumer'.pc = "report" /\ resumer'.checkpoint = resumer.checkpoint
    BY <2>1, <2>2
  <2>3. CASE resumer' \in {Resting, [resumer EXCEPT !.pc = "catch"], [resumer EXCEPT !.pc = "verify"],
                          [resumer EXCEPT !.pc = "retry"]}
    BY <2>3, ResumerFacts
  <2>4. QED
    BY <1>4, <2>2, <2>3
<1>6. Ranged(resumer.checkpoint, minted, process.boot, sessionGeneration)
  BY <1>1 DEF RestartTyped
<1>7. (stream' = stream /\ resumer.pc # "turn") \/ stream' = NoStream
  BY DEF JudgeTurn, VerifyReport, ClearCheckpoint, Resumes
<1>8. QED
  BY <1>1, <1>2, <1>3, <1>5, <1>6, <1>7, RestsStep

LEMMA FailureSteps ==
  ASSUME RestartInv, NEW saved \in BOOLEAN, CatchError(saved) \/ PersistFailure(saved)
  PROVE  RestartInv'
<1> USE DEF RestartInv
<1> DEFINE copy == [resumer.checkpoint EXCEPT !.tools = TRUE]
           caught == [[resumer EXCEPT !.pc = "report"] EXCEPT !.checkpoint = copy]
<1>1. /\ process.up /\ resumer.pc \in {"catch", "report"}
      /\ UNCHANGED <<process, sessionGeneration, minted, stream, started, acted>>
  BY DEF CatchError, PersistFailure, Resumes
<1>2. slot' = slot \/ (slot # Empty /\ slot' = Unleased(slot))
  BY DEF CatchError, PersistFailure, Write, Holds
<1>3. failures' \in 0..MaxFailures
  BY CountedEffects DEF CatchError, PersistFailure, Write, RestartTyped
<1>4. resumer' \in {Resting, [resumer EXCEPT !.pc = "clear"], [resumer EXCEPT !.pc = "retry"], caught}
  <2>1. CASE PersistFailure(saved)
    BY <2>1 DEF PersistFailure
  <2>2. CASE CatchError(saved)
    <3>1. resumer' \in {Resting, [resumer EXCEPT !.pc = "clear"], [resumer EXCEPT !.pc = "retry"],
                        [resumer EXCEPT !.pc = "report", !.checkpoint.tools = TRUE]}
      BY <2>2 DEF CatchError
    <3>2. [resumer EXCEPT !.pc = "report", !.checkpoint.tools = TRUE] = caught
      BY DEF RestartTyped, Resumers
    <3>3. QED
      BY <3>1, <3>2
  <2>3. QED
    BY <2>1, <2>2
<1>5. /\ Ranged(resumer.checkpoint, minted, process.boot, sessionGeneration)
      /\ resumer.checkpoint \in Checkpoints
  BY <1>1 DEF RestartTyped, Ranged
<1>6. copy \in Checkpoints /\ Ranged(copy, minted, process.boot, sessionGeneration)
  BY <1>5, ToolsMarked
<1> HIDE DEF copy
<1>7. caught \in Resumers /\ caught.pc = "report" /\ caught.checkpoint = copy
  BY <1>6 DEF RestartTyped, Resumers
<1> HIDE DEF caught
<1>8. /\ resumer' \in Resumers /\ resumer'.pc \in {"none", "clear", "retry", "report"}
      /\ resumer'.pc = "none" \/ resumer'.checkpoint = resumer.checkpoint \/ resumer'.checkpoint = copy
  BY <1>4, <1>7, ResumerFacts
<1>9. QED
  BY <1>1, <1>2, <1>3, <1>5, <1>6, <1>8, RestsStep

LEMMA ContinuationStep == RestartInv /\ [RestartNext]_restartVars => RestartInv'
<1> SUFFICES ASSUME RestartInv, [RestartNext]_restartVars PROVE RestartInv'
  OBVIOUS
<1>1. ASSUME NEW saved \in BOOLEAN, NEW kind \in {"restart", "update"},
             RequestRestart(kind, saved) \/ RequestAnother(kind, saved)
      PROVE  RestartInv'
  BY <1>1, RequestSteps
<1>2. ASSUME NEW saved \in BOOLEAN, ArmUpdate(saved) \/ RestartProcess(saved) \/ UpdateFails(saved) PROVE RestartInv'
  BY <1>2, ArmSteps
<1>3. ASSUME NEW saved \in BOOLEAN, ToolCall(saved) \/ ClaimCheckpoint(saved) PROVE RestartInv'
  BY <1>3, ToolCallStep, ClaimStep
<1>4. CASE ProcessExits \/ ProcessDies \/ ProcessBoots \/ ClearConversation
  BY <1>4, DownStep, ProcessBootsStep, ClearConversationStep DEF ProcessExits, ProcessDies
<1>5. ASSUME NEW ending \in {"done", "error", "moved"}, TurnEnds(ending) PROVE RestartInv'
  BY <1>5, TurnEndsStep
<1>6. CASE (\E chat \in {"home", "other"} : ReadCheckpoint(chat)) \/ CheckSource \/ RetryLater
  BY <1>6, ReadSteps
<1>7. ASSUME NEW verified \in BOOLEAN, VerifyAudit(verified) PROVE RestartInv'
  BY <1>7, VerifyAuditStep
<1>8. ASSUME NEW saved \in BOOLEAN, JudgeTurn \/ VerifyReport(saved) \/ ClearCheckpoint(saved) PROVE RestartInv'
  BY <1>8, AfterTurnSteps
<1>9. ASSUME NEW saved \in BOOLEAN, CatchError(saved) \/ PersistFailure(saved) PROVE RestartInv'
  BY <1>9, FailureSteps
<1>10. CASE UNCHANGED restartVars
  <2>1. RestartTyped' /\ Minted' /\ Known'
    BY <1>10 DEF restartVars, RestartInv, RestartTyped, Minted, Known
  <2>2. Owning' /\ NewAttempt' /\ OneTurn'
    BY <1>10 DEF restartVars, RestartInv, Owning, NewAttempt, OneTurn
  <2>3. QED
    BY <2>1, <2>2 DEF RestartInv
<1>11. QED
  BY <1>1, <1>2, <1>3, <1>4, <1>5, <1>6, <1>7, <1>8, <1>9, <1>10 DEF RestartNext, Resume

LEMMA RestartInitInv == RestartInit => RestartInv
<1> SUFFICES ASSUME RestartInit PROVE RestartInv
  OBVIOUS
<1>1. NoStream \in Streams /\ NoStream.generation = 0 /\ NoStream.pc = "none"
  BY DEF NoStream, Streams, Names
<1>2. Resting \in Resumers /\ Resting.pc = "none"
  BY DEF Resting, Resumers
<1>3. /\ process = [up |-> TRUE, boot |-> 1, restart |-> "none"] /\ 1 \in 1..MaxBoots
      /\ 0 \in 0..MaxCheckpoints /\ 0 \in 0..MaxFailures
  BY RestartAssumption DEF RestartInit
<1>4. RestartTyped
  BY <1>1, <1>2, <1>3 DEF RestartInit, RestartTyped
<1>5. Minted /\ Known /\ Owning /\ NewAttempt /\ OneTurn
  BY <1>1, <1>2, <1>3 DEF RestartInit, Minted, Known, Owning, NewAttempt, OneTurn
<1>6. QED
  BY <1>4, <1>5 DEF RestartInv

LEMMA RestartInvariant == RestartSpec => []RestartInv
BY RestartInitInv, ContinuationStep, PTL DEF RestartSpec

\* What the checkpoint, the resumer and the stream consist of, within the bounds.
THEOREM RestartTypeCorrect == RestartSpec => []RestartTypeOK
<1>1. RestartInv => RestartTypeOK
  BY RestartTypeFromTyped DEF RestartInv
<1>2. QED
  BY <1>1, RestartInvariant, PTL

\* No attempt of a continuation is started twice, none beyond the limit, and none
\* after one that may have executed a tool.
THEOREM NothingIsReplayed == RestartSpec => NoReplay
<1> DEFINE Fresh == stream'.pc = "running" /\ stream.pc # "running" /\ stream'.name[1] # 0 =>
      /\ stream'.name \notin started /\ stream'.name[2] <= TotalAttempts
      /\ \A x \in acted : x[1] # stream'.name[1]
<1>1. RestartInv /\ [RestartNext]_restartVars => [Fresh]_restartVars
  <2> SUFFICES ASSUME RestartInv, [RestartNext]_restartVars,
                      stream'.pc = "running", stream.pc # "running", stream'.name[1] # 0
               PROVE  /\ stream'.name \notin started /\ stream'.name[2] <= TotalAttempts
                      /\ \A x \in acted : x[1] # stream'.name[1]
    OBVIOUS
  <2>1. \E verified \in BOOLEAN : VerifyAudit(verified)
    <3>1. stream' # stream
      OBVIOUS
    <3>2. stream' # NoStream
      BY DEF NoStream
    <3>3. ASSUME NEW kind, NEW saved PROVE ~RequestRestart(kind, saved) /\ ~RequestAnother(kind, saved)
      <4>1. CASE RequestRestart(kind, saved)
        <5>1. stream' = [NoStream EXCEPT !.pc = "running", !.name = <<0, minted + 1>>,
                                         !.generation = sessionGeneration]
          BY <4>1 DEF RequestRestart, Requests
        <5>2. stream'.name = <<0, minted + 1>>
          BY <5>1 DEF NoStream
        <5>3. QED
          BY <5>2
      <4>2. CASE RequestAnother(kind, saved)
        BY <3>1, <4>2 DEF RequestAnother, Requests
      <4>3. QED
        BY <4>1, <4>2
    <3>4. ASSUME NEW saved
          PROVE  ~ArmUpdate(saved) /\ ~UpdateFails(saved) /\ ~RestartProcess(saved) /\ ~ToolCall(saved) /\ ~ClaimCheckpoint(saved)
                 /\ ~VerifyReport(saved) /\ ~CatchError(saved) /\ ~PersistFailure(saved) /\ ~ClearCheckpoint(saved)
      BY <3>1 DEF ArmUpdate, UpdateFails, RestartProcess, ToolCall, ClaimCheckpoint, VerifyReport, CatchError,
                  PersistFailure, ClearCheckpoint
    <3>5. ~ProcessExits /\ ~ProcessDies /\ ~ProcessBoots /\ ~ClearConversation
          /\ ~CheckSource /\ ~JudgeTurn /\ ~RetryLater
      BY <3>1, <3>2 DEF ProcessExits, ProcessDies, Down, ProcessBoots, ClearConversation,
                        CheckSource, JudgeTurn, RetryLater
    <3>6. ~(\E ending \in {"done", "error", "moved"} : TurnEnds(ending)) /\ ~(\E chat \in {"home", "other"} : ReadCheckpoint(chat))
      BY <3>1 DEF TurnEnds, ReadCheckpoint
    <3>7. RestartNext
      BY <3>1 DEF restartVars
    <3>8. QED
      BY <3>3, <3>4, <3>5, <3>6, <3>7 DEF RestartNext, Resume
  <2>2. /\ resumer.pc = "audit" /\ ~resumer.checkpoint.tools
        /\ stream'.name = <<resumer.checkpoint.id, resumer.checkpoint.attempts>>
    BY <2>1 DEF VerifyAudit, Resumes, Remembers, Copy
  <2>3. /\ resumer.checkpoint.attempts \in Nat /\ resumer.checkpoint.attempts <= TotalAttempts
        /\ stream'.name[1] = resumer.checkpoint.id /\ stream'.name[2] = resumer.checkpoint.attempts
    BY <2>2, RestartAssumption DEF RestartInv, RestartTyped, Ranged
  <2>4. stream'.name \notin started
    BY <2>2, <2>3 DEF RestartInv, NewAttempt
  <2>5. \A x \in acted : x[1] # stream'.name[1]
    BY <2>2, <2>3 DEF RestartInv, Owning
  <2>6. QED
    BY <2>3, <2>4, <2>5
<1>2. QED
  BY <1>1, RestartInvariant, PTL DEF RestartSpec, NoReplay
=============================================================================
