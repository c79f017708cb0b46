----------------------------- MODULE MCFileLock -----------------------------
(* Calls and processes for TLC.                                             *)
EXTENDS FileLock

CONSTANTS c1, c2, c3, c4, p1, p2, p3

\* The asynchronous version: p3 makes two calls at once.
SharedHosts == [c \in Calls |-> CASE c = c1 -> p1 [] c = c2 -> p2 [] OTHER -> p3]
=============================================================================
