------------------------------- MODULE MCJobs -------------------------------
(* Instance for TLC: see Jobs.cfg.  The journal and the jobs above it share  *)
(* no variables - a job sees a write that happened or did not - and one run *)
(* checks the two levels side by side: one moves while the other is as it   *)
(* starts.                                                                  *)
EXTENDS TaskJournal, BackgroundTasks

vars == <<journalVars, taskVars>>

Init == JournalInit /\ TasksInit

Next ==
    \/ TasksInit /\ JournalNext /\ UNCHANGED taskVars
    \/ manifest.version = 2 /\ JournalInit /\ TasksNext /\ UNCHANGED journalVars

Spec == Init /\ [][Next]_vars /\ TasksFairness

\* The types of both levels: an invariant to add to the .cfg after a change of the modules.
TypesOK == JournalTypeOK /\ TasksTypeOK
=============================================================================
