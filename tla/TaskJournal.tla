---------------------------- MODULE TaskJournal ----------------------------
(***************************************************************************)
(* The restart journal of background tasks, background-tasks/journal.mjs:  *)
(* a manifest that points to one file per task.  Every operation runs      *)
(* under the journal's lock, so one is in progress at a time; one step is  *)
(* one change of the file system, which may fail, and the process may die  *)
(* between any two.  A version 1 manifest holds the entries themselves and *)
(* is migrated by the first operation that commits.                        *)
(***************************************************************************)
EXTENDS Naturals, FiniteSets

CONSTANTS Tasks, Entries,
          Files,        \* names of entry files: bounds the orphans
          Nothing,      \* no entry, no pointer, no file
          Unreadable    \* what reading an entry that is not there gives

ASSUME JournalAssumption ==
    /\ Nothing \notin Entries \cup Files \cup [task : Tasks, entry : Entries]
    /\ Unreadable \notin Entries \cup {Nothing}
    /\ IsFiniteSet(Tasks) /\ IsFiniteSet(Files)

VARIABLES manifest,   \* [version, entries]: version 1 holds entries, 2 names files
          file,       \* file[f]: the task and entry saved in f, or Nothing
          op          \* the operation holding the lock

journalVars == <<manifest, file, op>>

Saved == [task : Tasks, entry : Entries]
NoPointers == [t \in Tasks |-> Nothing]

\* What readEntries returns for an index: for version 2 every pointer is
\* followed, and a file that is missing or another task's is an error.
ReadEntry(index, t) ==
    LET p == index.entries[t] IN
    IF p = Nothing \/ index.version = 1 THEN p
    ELSE IF file[p] # Nothing /\ file[p].task = t THEN file[p].entry
    ELSE Unreadable
Snapshot == [t \in Tasks |-> ReadEntry(manifest, t)]

Referenced(index) ==
    IF index.version = 1 THEN {} ELSE {index.entries[t] : t \in Tasks} \ {Nothing}
Present == {f \in Files : file[f] # Nothing}

\* A random name: nothing on disk has it, and no pointer.
FreshFiles == Files \ (Present \cup Referenced(manifest) \cup {op.pointers[t] : t \in Tasks})

\* No operation holds the lock; "answer" is what the last one returned.
Idle(answer) == [pc |-> "idle", answer |-> answer, full |-> FALSE, new |-> NoPointers,
                 todo |-> {}, commits |-> FALSE, pointers |-> NoPointers, stale |-> {}]

\* A missing manifest reads as an empty one of version 2; an old
\* installation has one of version 1.
JournalInit ==
    /\ \/ manifest = [version |-> 2, entries |-> NoPointers]
       \/ \E e \in [Tasks -> Entries \cup {Nothing}] : manifest = [version |-> 1, entries |-> e]
    /\ file = [f \in Files |-> Nothing]
    /\ op = Idle("none")

-----------------------------------------------------------------------------
(* Steps.                                                                  *)

\* What commitEntries has to write: the changes, and in a migration all that
\* the old manifest holds.  (Broken: a migration writes the changes only.)
ChangesOnly(changed) == changed
Pending(changed) == IF manifest.version = 1 THEN Tasks ELSE changed

\* commitEntries begins, if there is anything to commit.
StartCommit(full, new, changed) ==
    op' = [pc |-> "entries", answer |-> "working", full |-> full, new |-> new,
           todo |-> Pending(changed), stale |-> {},
           commits |-> ~full \/ changed # {} \/ manifest.version = 1,
           pointers |-> IF manifest.version = 1 THEN NoPointers ELSE manifest.entries]

\* A single job that is in the journal, and stays there, commits in its file.
InPlace(t, e) == manifest.version = 2 /\ manifest.entries[t] # Nothing /\ e # Nothing

\* _journalMutateEntry: only t changes.
MutateEntry(t, e) ==
    LET new == [Snapshot EXCEPT ![t] = e] IN
    /\ op.pc = "idle"
    /\ IF InPlace(t, e)
       THEN op' = [Idle("working") EXCEPT !.pc = "replace", !.new = new, !.todo = {t}]
       ELSE StartCommit(FALSE, new, {t})
    /\ UNCHANGED <<manifest, file>>

\* _journalMutate: any entries change, or none.
MutateAll(new) ==
    /\ op.pc = "idle"
    /\ StartCommit(TRUE, new, {t \in Tasks : new[t] # Snapshot[t]})
    /\ UNCHANGED <<manifest, file>>

Replace ==
    /\ op.pc = "replace"
    /\ \E t \in op.todo :
         file' = [file EXCEPT ![manifest.entries[t]] = [task |-> t, entry |-> op.new[t]]]
    /\ op' = [op EXCEPT !.pc = "done"]
    /\ UNCHANGED manifest

\* One turn of the loop in commitEntries: a deletion only forgets the pointer,
\* anything else gets a fresh file; the file it had is superseded.
WriteEntry(t) ==
    /\ op.pc = "entries" /\ t \in op.todo
    /\ \E p \in IF op.new[t] = Nothing THEN {Nothing} ELSE FreshFiles :
         /\ file' = IF p = Nothing THEN file
                    ELSE [file EXCEPT ![p] = [task |-> t, entry |-> op.new[t]]]
         /\ op' = [op EXCEPT !.todo = @ \ {t}, !.pointers[t] = p,
                             !.stale = (@ \cup {op.pointers[t]}) \ {Nothing}]
    /\ UNCHANGED manifest

\* The single commit point of new, deleted and several entries.
WriteManifest ==
    /\ op.pc = "entries" /\ op.todo = {}
    /\ manifest' = IF op.commits THEN [version |-> 2, entries |-> op.pointers] ELSE manifest
    /\ op' = [op EXCEPT !.pc = "cleanup"]
    /\ UNCHANGED file

\* The superseded files go one by one; a failed unlink is ignored.
Unlink(f) ==
    /\ op.pc = "cleanup" /\ f \in op.stale
    /\ op' = [op EXCEPT !.stale = @ \ {f}]
    /\ file' \in {file, [file EXCEPT ![f] = Nothing]}
    /\ UNCHANGED manifest

EndCleanup ==
    /\ op.pc = "cleanup" /\ op.stale = {}
    /\ op' = [op EXCEPT !.pc = IF op.full THEN "reclaim" ELSE "done"]
    /\ UNCHANGED <<manifest, file>>

\* reclaimOrphans reads the manifest again: a file it does not name goes, left
\* by whichever operation.
Orphans == Present \ Referenced(manifest)
Reclaim(f) ==
    /\ op.pc = "reclaim" /\ f \in Orphans
    /\ file' = [file EXCEPT ![f] = Nothing]
    /\ UNCHANGED <<manifest, op>>

\* The operation returns true; orphans whose unlink failed stay.
Return ==
    /\ op.pc \in {"reclaim", "done"}
    /\ op' = Idle("true")
    /\ UNCHANGED <<manifest, file>>

\* A write throws, before its rename or after it, or the process dies.  The
\* next operation finds what is on disk; temporary files are never looked at.
Abort ==
    /\ op.pc # "idle"
    /\ op' = Idle("false")
    /\ UNCHANGED <<manifest, file>>

JournalNext ==
    \/ \E t \in Tasks, e \in Entries \cup {Nothing} : MutateEntry(t, e)
    \/ \E new \in [Tasks -> Entries \cup {Nothing}] : MutateAll(new)
    \/ \E t \in Tasks : WriteEntry(t)
    \/ \E f \in Files : Unlink(f) \/ Reclaim(f)
    \/ Replace \/ WriteManifest \/ EndCleanup \/ Return \/ Abort

JournalSpec == JournalInit /\ [][JournalNext]_journalVars

-----------------------------------------------------------------------------
(* Properties                                                              *)

JournalTypeOK ==
    /\ manifest.version \in {1, 2} /\ DOMAIN manifest.entries = Tasks
    /\ file \in [Files -> Saved \cup {Nothing}]
    /\ op.pc \in {"idle", "entries", "replace", "cleanup", "reclaim", "done"}
    /\ op.answer \in {"none", "working", "true", "false"}
    /\ op.todo \subseteq Tasks /\ op.stale \subseteq Files
    /\ op.pointers \in [Tasks -> Files \cup {Nothing}]

\* Whatever dies or fails between the entry files, the manifest and the
\* clean-up, what a reader is given changes in one step from what it was to
\* what one mutation made of it; a mutation that answered true has happened,
\* migration of an old manifest and reclaimed orphans included.
Log == INSTANCE AtomicLog WITH
    LogTasks <- Tasks, LogEntries <- Entries, LogNothing <- Nothing,
    log <- Snapshot,
    asked <- IF op.pc = "idle" THEN Snapshot ELSE op.new,
    written <- op.pc \in {"cleanup", "reclaim", "done"},
    answer <- op.answer
ImplementsLog == Log!LogSpec
=============================================================================
