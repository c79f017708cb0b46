-------------------------- MODULE PendingApprovals --------------------------
(***************************************************************************)
(* The store of staged operations, lib/pending-approvals.mjs, and the       *)
(* messages that confirm or cancel them, tryApprovalIntercept: one family   *)
(* of operations in one agent's chat.  Each operation of the store runs     *)
(* under its cross-process lock and is one step; confirmations of           *)
(* several devices and processes interleave with it.                        *)
(***************************************************************************)
EXTENDS Naturals

CONSTANTS MaxOps,           \* bounds: operations staged,
          NConfirms,        \* confirmations,
          MaxGenerations,   \* and generations of the conversation
          NoOp              \* nothing is staged; a phrase without an id

Ops == 1..MaxOps
Confirms == 1..NConfirms

ASSUME ApprovalsAssumption ==
    {MaxOps, NConfirms, MaxGenerations} \subseteq Nat \ {0} /\ NoOp \notin Ops

VARIABLES staged,       \* the entry of the store, or NoOp
          lastOp,       \* the last id that was minted
          generation,   \* the session's epoch
          allowed,      \* the skill and the tool are enabled for the user
          confirm,      \* confirm[c]: a confirmation in progress
          executed,     \* history: what was handed to the executor
          cancelled     \* history: operations the user was told are cancelled

approvalVars == <<staged, lastOp, generation, allowed, confirm, executed, cancelled>>

ApprovalsInit ==
    /\ staged = NoOp /\ lastOp = 0 /\ generation = 1 /\ allowed = TRUE
    /\ confirm = [c \in Confirms |-> [pc |-> "none", op |-> NoOp]]
    /\ executed = {} /\ cancelled = {}

\* What the expiry and the durable generation leave of the entry.
Live == IF staged # NoOp /\ ~staged.expired /\ staged.generation = generation THEN staged ELSE NoOp

\* A turn of the present generation stages an operation over the one there was.
Stage ==
    /\ lastOp < MaxOps
    /\ lastOp' = lastOp + 1
    /\ staged' = [op |-> lastOp', generation |-> generation, expired |-> FALSE]
    /\ UNCHANGED <<generation, allowed, confirm, executed, cancelled>>

Expire ==
    /\ staged # NoOp /\ staged' = [staged EXCEPT !.expired = TRUE]
    /\ UNCHANGED <<lastOp, generation, allowed, confirm, executed, cancelled>>

Cleared ==
    /\ generation < MaxGenerations /\ generation' = generation + 1
    /\ UNCHANGED <<staged, lastOp, allowed, confirm, executed, cancelled>>

\* The user's skill is disabled, or enabled again.
Permit ==
    /\ allowed' = ~allowed
    /\ UNCHANGED <<staged, lastOp, generation, confirm, executed, cancelled>>

-----------------------------------------------------------------------------
(* A phrase, with the id of a card or without                               *)

\* The card is stale, or nothing is staged.
Stale(card) == Live = NoOp \/ (card # NoOp /\ card # Live.op)

\* getPending: the confirmation is about the operation it has read.
Confirm(c, card) ==
    /\ confirm[c].pc = "none"
    /\ staged' = Live
    /\ confirm' = [confirm EXCEPT ![c] = IF Stale(card) THEN [pc |-> "done", op |-> NoOp]
                                         ELSE [pc |-> "checking", op |-> Live.op]]
    /\ UNCHANGED <<lastOp, generation, allowed, executed, cancelled>>

\* What a claim or a removal finds.  (Broken: whatever is staged.)
Whatever(op) == Live # NoOp
Expected(op) == Live # NoOp /\ Live.op = op

\* The permissions have been awaited: the operation is taken away if they are
\* gone,
Authorize(c) ==
    /\ confirm[c].pc = "checking"
    /\ confirm' = [confirm EXCEPT ![c].pc = IF allowed THEN "claiming" ELSE "done"]
    /\ IF allowed THEN UNCHANGED <<staged, cancelled>>
       ELSE /\ staged' = IF Expected(confirm[c].op) THEN NoOp ELSE Live
            /\ cancelled' = cancelled \cup (IF Expected(confirm[c].op) THEN {Live.op} ELSE {})
    /\ UNCHANGED <<lastOp, generation, allowed, executed>>

\* and otherwise claimed, and then executed; a crash in between loses it.
Take(c, survives) ==
    /\ confirm[c].pc = "claiming"
    /\ confirm' = [confirm EXCEPT ![c].pc = "done"]
    /\ staged' = IF Expected(confirm[c].op) THEN NoOp ELSE Live
    /\ executed' = IF Expected(confirm[c].op) /\ survives
                   THEN executed \cup {[op |-> Live.op, confirmed |-> confirm[c].op, by |-> c]}
                   ELSE executed
    /\ UNCHANGED <<lastOp, generation, allowed, cancelled>>

\* The card's Cancel, or any other message.
Cancel(op) ==
    /\ staged' = IF Expected(op) THEN NoOp ELSE Live
    /\ cancelled' = cancelled \cup (IF Expected(op) THEN {Live.op} ELSE {})
    /\ UNCHANGED <<lastOp, generation, allowed, confirm, executed>>

OtherMessage ==
    /\ staged' = NoOp
    /\ UNCHANGED <<lastOp, generation, allowed, confirm, executed, cancelled>>

ApprovalsNext ==
    \/ Stage \/ Expire \/ Cleared \/ Permit \/ OtherMessage
    \/ \E op \in 1..lastOp : Cancel(op)
    \/ \E c \in Confirms :
        \/ \E card \in 1..lastOp \cup {NoOp} : Confirm(c, card)
        \/ Authorize(c)
        \/ \E survives \in BOOLEAN : Take(c, survives)

ApprovalsSpec == ApprovalsInit /\ [][ApprovalsNext]_approvalVars

-----------------------------------------------------------------------------
(* Properties                                                              *)

ApprovalsTypeOK ==
    /\ staged # NoOp => staged.op \in Ops /\ staged.generation \in 1..MaxGenerations
    /\ lastOp \in 0..MaxOps /\ generation \in 1..MaxGenerations /\ allowed \in BOOLEAN
    /\ \A c \in Confirms : /\ confirm[c].pc \in {"none", "checking", "claiming", "done"}
                           /\ confirm[c].op \in Ops \cup {NoOp}
    /\ executed \subseteq [op : Ops, confirmed : Ops, by : Confirms]
    /\ cancelled \subseteq Ops

\* What is executed is what the confirmation was about when its permission was
\* checked, though the staged operation was replaced meanwhile; it is executed once,
\* whoever confirms it twice, and never when its cancellation was
\* acknowledged.
ExecutedAsConfirmed ==
    \A x \in executed :
        /\ x.op = x.confirmed /\ x.op \notin cancelled
        /\ \A y \in executed : y.op = x.op => y = x
=============================================================================
