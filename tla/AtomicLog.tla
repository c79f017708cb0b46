----------------------------- MODULE AtomicLog -----------------------------
(***************************************************************************)
(* What the users of the background task journal rely on: a map of tasks   *)
(* to entries that a mutation changes entirely or not at all, whatever dies *)
(* or fails meanwhile; a mutation that answers TRUE has taken effect.      *)
(***************************************************************************)
CONSTANTS LogTasks, LogEntries, LogNothing

VARIABLES log,      \* log[t]: the entry of task t, or LogNothing
          asked,    \* what the mutation in progress will make of the map
          written,  \* it has taken effect
          answer    \* "none", "working", "true" or "false"

logVars == <<log, asked, written, answer>>

Maps == [LogTasks -> LogEntries \cup {LogNothing}]

LogInit ==
    /\ log \in Maps /\ asked = log
    /\ written = FALSE /\ answer = "none"

\* A mutation starts: its mutator has computed the new map from the old one.
Ask ==
    /\ answer # "working"
    /\ asked' \in Maps
    /\ written' = FALSE /\ answer' = "working"
    /\ UNCHANGED log

\* The one step that changes the map.
Commit ==
    /\ answer = "working" /\ ~written
    /\ log' = asked
    /\ written' = TRUE
    /\ UNCHANGED <<asked, answer>>

Confirm ==
    /\ answer = "working" /\ written
    /\ answer' = "true"
    /\ asked' = log /\ written' = FALSE
    /\ UNCHANGED log

\* A refusal, a failed write or the death of the process: the map is either
\* the old or the new one, and the mutation is over.
Abandon ==
    /\ answer = "working"
    /\ answer' = "false"
    /\ asked' = log /\ written' = FALSE
    /\ UNCHANGED log

LogNext == Ask \/ Commit \/ Confirm \/ Abandon

LogSpec == LogInit /\ [][LogNext]_logVars
=============================================================================
