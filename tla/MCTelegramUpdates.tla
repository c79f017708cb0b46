------------------------- MODULE MCTelegramUpdates -------------------------
(* Instance for TLC: see TelegramUpdates.cfg.  What comes from Telegram, what *)
(* goes to it, the watch that tells the user, and the scheduled task share no *)
(* state; one run checks the four, one moving while the others are as they   *)
(* start.                                                                   *)
EXTENDS TelegramUpdates, TelegramDelivery, FieldWatches, Scheduler

CONSTANTS c1, c2, c3, c4
ThreeCallsAndAnother ==
    [c \in {c1, c2, c3, c4} |-> IF c = c4 THEN "another text" ELSE "text"]

\* Of the start states of the others, one is enough to rest in.
DeliveryRests == DeliveryInit /\ source = "kept"
WatchRests == WatchInit /\ by = [executor |-> "server", channel |-> "email"]

MCInit == Init /\ DeliveryInit /\ WatchInit /\ SchedulerInit /\ (DeliveryRests \/ WatchRests)

MCNext ==
    \/ /\ SchedulerInit /\ UNCHANGED schedulerVars
       /\ \/ DeliveryRests /\ WatchRests /\ Next /\ UNCHANGED <<deliveryVars, watchVars>>
          \/ Init /\ WatchRests /\ DeliveryNext /\ UNCHANGED <<vars, watchVars>>
          \/ Init /\ DeliveryRests /\ WatchNext /\ UNCHANGED <<vars, deliveryVars>>
    \/ /\ Init /\ DeliveryRests /\ WatchRests /\ SchedulerNext
       /\ UNCHANGED <<vars, deliveryVars, watchVars>>

MCSpec == MCInit /\ [][MCNext]_<<vars, deliveryVars, watchVars, schedulerVars>>
=============================================================================
