------------------------------ MODULE Delivery ------------------------------
(***************************************************************************)
(* What lib/telegram-delivery-idempotency.mjs promises of one scope, a     *)
(* message of the user or an occurrence of a schedule: at most one of its  *)
(* calls is delivered, and who is told of success asked for that text.     *)
(***************************************************************************)
CONSTANTS Calls, Text       \* Text[c]: what call c wants to send

VARIABLES sent,             \* calls whose message Telegram accepted
          told              \* calls answered with ok

Init == sent = {} /\ told = {}

Deliver(c) == sent = {} /\ sent' = {c} /\ UNCHANGED told

Confirm(cs) ==
    /\ \A c \in cs : \E d \in sent : Text[c] = Text[d]
    /\ told' = told \cup cs
    /\ UNCHANGED sent

Next == (\E c \in Calls : Deliver(c)) \/ (\E cs \in SUBSET Calls : Confirm(cs))

Spec == Init /\ [][Next]_<<sent, told>>
=============================================================================
