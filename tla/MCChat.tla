------------------------------- MODULE MCChat -------------------------------
(* Instance for TLC: see Chat.cfg.  The turns of a chat, the approvals that   *)
(* are staged and confirmed in it (with an epoch of their own), and the run  *)
(* of a schedule, whose results are handed to its reactions, share no       *)
(* variables; one run checks them side by side: one moves while the others   *)
(* are as they start.                                                       *)
EXTENDS ChatTurns, PendingApprovals, ChildBarrier

MCInit == ChatInit /\ ApprovalsInit /\ Init

MCNext ==
    \/ ApprovalsInit /\ Init /\ ChatNext /\ UNCHANGED <<approvalVars, vars>>
    \/ ChatInit /\ Init /\ ApprovalsNext /\ UNCHANGED <<chatVars, vars>>
    \/ ChatInit /\ ApprovalsInit /\ Next /\ UNCHANGED <<chatVars, approvalVars>>

\* At the start no fair step is due: fairness binds whichever moves.
MCSpec == MCInit /\ [][MCNext]_<<chatVars, approvalVars, vars>> /\ ChatFairness /\ BarrierFairness

\* The types of the three: an invariant to add to the .cfg after a change of the modules.
TypesOK == ChatTypeOK /\ ApprovalsTypeOK /\ TypeOK
=============================================================================
