-------------------------- MODULE MCEmailDelivery --------------------------
(* Instance for TLC: see EmailDelivery.cfg.  The two guards against doing an  *)
(* action again - an email after a Retry, a turn after a restart - share no  *)
(* variables; one run checks them side by side: one moves while the other is *)
(* as it starts.                                                            *)
EXTENDS EmailDelivery, RestartContinuation, TLC

CONSTANTS p1, p2

\* Of the emails' start states, one is enough to rest in.
EmailRests == Init /\ ~single /\ \A o \in Ops : rec[o] = "absent"

MCInit == Init /\ RestartInit

MCNext ==
    \/ RestartInit /\ Next /\ UNCHANGED restartVars
    \/ EmailRests /\ RestartNext /\ UNCHANGED vars

MCSpec == MCInit /\ [][MCNext]_<<vars, restartVars>> /\ EmailFairness /\ RestartFairness
=============================================================================
