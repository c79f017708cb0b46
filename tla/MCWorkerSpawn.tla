--------------------------- MODULE MCWorkerSpawn ---------------------------
(* Asks for TLC: two outcomes whose Retry may swap their places in the      *)
(* message, and asks without an outcome that share a place or a text.       *)
EXTENDS WorkerSpawn, TLC

CONSTANTS c1, c2, c3, c4, k1, k2

MCDirect == [key |-> NoKey, ordinal |-> 0, print |-> 0]
Ask(k, o, p) == [key |-> k, ordinal |-> o, print |-> p]
MCAsks == {Ask(k1, 1, 1), Ask(k2, 1, 2), Ask(k1, 2, 1), Ask(NoKey, 1, 1), Ask(NoKey, 2, 1)}
Symmetry == Permutations(Calls)
=============================================================================
