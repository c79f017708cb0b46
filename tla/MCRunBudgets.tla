---------------------------- MODULE MCRunBudgets ----------------------------
(* Instance for TLC: see the .cfg files. *)
EXTENDS RunBudgets, TLC

CONSTANTS r1, r2, p1, p2

ThreeCalls == [s \in Spans |-> 3]
NoCalls == [s \in Spans |-> 0]
Symmetry == Permutations(Runs) \cup Permutations(Procs)

\* Two questions in one run: the accounting of two runs whose spans make no tool
\* calls and are continued once, and the calls of a single span with a single
\* request, continued twice.
Metered == \A s \in Spans : Calls(s) = <<>> /\ span[s].gen <= 1
OneSpan ==
    /\ Cardinality({s \in Spans : span[s].run # None}) <= 1
    /\ Cardinality({q \in Requests : request[q].status # "none"}) <= 1
    /\ \A q \in Requests : request[q].estimate <= 1
OneAtATime == Metered \/ OneSpan
=============================================================================
