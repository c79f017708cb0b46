------------------------------- MODULE Mutex -------------------------------
(***************************************************************************)
(* What lib/file-lock.mjs promises to its callers, and nothing about how:  *)
(* each call of withFileLock / withFileLockSync either runs its callback   *)
(* alone and finishes, or ends without ever having run it (timeout, abort, *)
(* I/O error), or is lost with its process.                                *)
(***************************************************************************)
CONSTANT Calls        \* one element per call of withFileLock

VARIABLE phase        \* phase[c]: where the caller sees its call

Phases == {"outside", "inside", "finished", "failed", "lost"}

Init == phase = [c \in Calls |-> "outside"]

\* The callback fn starts, and only while no other callback is running.
Enter(c) ==
    /\ phase[c] = "outside"
    /\ \A d \in Calls : phase[d] # "inside"
    /\ phase' = [phase EXCEPT ![c] = "inside"]

Finish(c) ==
    /\ phase[c] = "inside"
    /\ phase' = [phase EXCEPT ![c] = "finished"]

\* The call throws before fn ran.
Fail(c) ==
    /\ phase[c] = "outside"
    /\ phase' = [phase EXCEPT ![c] = "failed"]

\* A process dies: every call it was making is lost, wherever it was.
Lose(S) == phase' = [c \in Calls |-> IF c \in S THEN "lost" ELSE phase[c]]

Next ==
    \/ \E c \in Calls : Enter(c) \/ Finish(c) \/ Fail(c)
    \/ \E S \in SUBSET Calls : Lose(S)

Spec == Init /\ [][Next]_phase

TypeOK == phase \in [Calls -> Phases]

Inside == {c \in Calls : phase[c] = "inside"}

\* Two callbacks never run at the same time.
MutualExclusion == \A c, d \in Inside : c = d
=============================================================================
