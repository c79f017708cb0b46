----------------------------- MODULE ChatTurns -----------------------------
(***************************************************************************)
(* The turns of one chat: chat-dispatch.mjs with the slot registry, and the *)
(* rows, the stream buffer and the epoch that sessions.mjs keeps on disk.   *)
(* A turn is a user's attempt, a duplicate of one that finalizes it, the    *)
(* continuation of a background job, or another agent's delegation.  A      *)
(* session write runs under the session's lock and is one step; Clear holds *)
(* the lock for several.  The server may die between any two steps.         *)
(***************************************************************************)
EXTENDS Naturals, FiniteSets

CONSTANTS Attempts,     \* attempts of messages, each with its own turn id
          NTurns,       \* bounds: turns,
          CrashTurns,   \* turns in a behaviour with a crash,
          MaxHosts,     \* servers started,
          MaxEpochs,    \* and epochs
          NoTurn        \* no turn, attempt, row or buffer

Turns == 1..NTurns

\* What the session has of an attempt.
Rows == [status : {"running", "reply", "failed", "stopped", "partial"},
         final : {"none", "done", "error", "stopped"}, reply : BOOLEAN,
         owner : 1..MaxHosts, epoch : 1..MaxEpochs, runs : Nat]

ASSUME ChatAssumption ==
    /\ NTurns \in Nat \ {0} /\ CrashTurns \in Nat /\ MaxHosts \in Nat \ {0} /\ MaxEpochs \in Nat \ {0}
    /\ NoTurn \notin Turns \cup Attempts \cup Rows

VARIABLES host,     \* [up, life, boot]: the sweep of the boot is at the buffer, the rows, or done
          epoch,    \* the session's epoch
          rows,     \* rows[a]: what the session has of attempt a, or NoTurn
          buffer,   \* the .streaming file, or NoTurn
          clear,    \* how far the Clear is that holds the session's lock
          chat,     \* chat[h]: the turns in memory
          active,   \* the turn of abortControllers and activeStreams
          busy      \* the turn of the last slot in busyPromises

chatVars == <<host, epoch, rows, buffer, clear, chat, active, busy>>
disk == <<epoch, rows, buffer>>
memory == <<chat, active, busy>>

Absent == [kind |-> "none", attempt |-> NoTurn, epoch |-> 0, pc |-> "none",
           aborted |-> FALSE, behind |-> {}, held |-> "none"]
Ended == [Absent EXCEPT !.pc = "ended"]

ChatInit ==
    /\ host = [up |-> TRUE, life |-> 1, boot |-> "done"]
    /\ epoch = 1 /\ rows = [a \in Attempts |-> NoTurn] /\ buffer = NoTurn
    /\ clear = "none"
    /\ chat = [h \in Turns |-> Absent] /\ active = NoTurn /\ busy = NoTurn

Unlocked == host.up /\ clear = "none"

\* The turn is at pc.
At(h, pc) == host.up /\ chat[h].pc = pc
Own(h) == chat[h].attempt
Current(h) == chat[h].epoch = epoch

-----------------------------------------------------------------------------
(* Slots and registration.                                                 *)

\* markAgentBusy: the promise of a new slot waits for these slots.
Chain == IF busy = NoTurn THEN {} ELSE chat[busy].behind \cup {busy}

\* Give a slot back.  (Broken: the last slot stays.)
Released(h, turns) ==
    [g \in Turns |-> IF g = h THEN Ended ELSE [turns[g] EXCEPT !.behind = @ \ {h}]]
BusyKept(h) == busy
BusyWithout(h) == IF busy = h THEN NoTurn ELSE busy

\* openTurn: the turn registered before is aborted.
Aborted(g, turns) ==
    IF g = NoTurn THEN turns ELSE [turns EXCEPT ![g].aborted = TRUE]

\* A write of the stream buffer waits for the lock, and is dropped when the
\* epoch has changed.
Buffered(h, content) ==
    IF Unlocked /\ Current(h)
    THEN [attempt |-> Own(h), owner |-> host.life, epoch |-> epoch, content |-> content]
    ELSE buffer
BufferWithout(h) ==
    IF Unlocked /\ buffer # NoTurn /\ buffer.attempt = Own(h) THEN NoTurn ELSE buffer

-----------------------------------------------------------------------------
(* A message arrives and is accepted: appendUserTurnPending.               *)

NextTurn(h) ==
    /\ chat[h].pc = "none" /\ \A g \in 1..(h - 1) : chat[g].pc # "none"
    /\ h <= CrashTurns \/ host.life = 1

\* A browser may send an attempt again at any time.  The epoch is captured
\* before the first await.
Send(h, a) ==
    /\ host.up /\ NextTurn(h)
    /\ chat' = [chat EXCEPT ![h] = [kind |-> "user", attempt |-> a, epoch |-> epoch, pc |-> "accepting",
                                    aborted |-> FALSE, behind |-> {}, held |-> "none"]]
    /\ UNCHANGED <<host, disk, clear, active, busy>>

\* A continuation has no row of its own and joins the queue; a delegation takes
\* an idle agent, and otherwise waits outside for the end of the queue.
Internal(h, kind) ==
    /\ host.up /\ NextTurn(h)
    /\ LET joins == kind = "continuation" \/ busy = NoTurn IN
       /\ chat' = [chat EXCEPT ![h] = [Absent EXCEPT !.kind = kind, !.epoch = epoch, !.behind = Chain,
                                 !.pc = IF joins /\ kind = "delegation" THEN "running" ELSE "queued"]]
       /\ busy' = IF joins THEN h ELSE busy
    /\ UNCHANGED <<host, disk, clear, active>>

Dead(owner) == owner # host.life

\* The session was cleared since, the attempt is over, or a live turn has it.
\* (Broken: a late message is accepted in the new epoch.)
InAnyEpoch(h) == chat[h].epoch <= epoch
InItsEpoch(h) == Current(h)
TurnedAway(h, row) ==
    \/ ~InItsEpoch(h)
    \/ row # NoTurn /\ (row.final # "none" \/ row.status = "partial" \/ ~Dead(row.owner))

Refuse(h) ==
    /\ At(h, "accepting") /\ Unlocked /\ TurnedAway(h, rows[Own(h)])
    /\ chat' = [chat EXCEPT ![h] = Ended]
    /\ UNCHANGED <<host, disk, clear, active, busy>>

Row(status, e) == [status |-> status, final |-> "none", reply |-> FALSE, owner |-> host.life,
                   epoch |-> e, runs |-> 0]
Insert(h) ==
    /\ At(h, "accepting") /\ Unlocked /\ rows[Own(h)] = NoTurn /\ ~TurnedAway(h, NoTurn)
    /\ rows' = [rows EXCEPT ![Own(h)] = Row("running", chat[h].epoch)]
    /\ chat' = [chat EXCEPT ![h].pc = "accepted"]
    /\ UNCHANGED <<host, epoch, buffer, clear, active, busy>>

\* The row of a dead server is taken over: what was not answered has failed, and
\* all that is left is its end.  (Broken: it starts again.)
Again == "user"
FinalizerOnly == "finalizer"
Claim(h) ==
    /\ At(h, "accepting") /\ Unlocked
    /\ LET row == rows[Own(h)] IN
       /\ row # NoTurn /\ ~TurnedAway(h, row)
       /\ rows' = [rows EXCEPT ![Own(h)].owner = host.life,
                               ![Own(h)].status = IF @ = "running" THEN "failed" ELSE @]
       /\ chat' = [chat EXCEPT ![h].pc = "accepted", ![h].held = IF row.status = "reply" THEN "done" ELSE "error",
                               ![h].kind = FinalizerOnly]
    /\ UNCHANGED <<host, epoch, buffer, clear, active, busy>>

-----------------------------------------------------------------------------
(* The slot, the registration and the recheck.                             *)

Opened(h, turns) == [Aborted(active, turns) EXCEPT ![h].pc = "open"]

\* A user's turn waits for nobody,
Begin(h) ==
    /\ At(h, "accepted") /\ chat[h].kind = "user"
    /\ chat' = Opened(h, [chat EXCEPT ![h].behind = Chain])
    /\ busy' = h /\ active' = h /\ buffer' = Buffered(h, FALSE)
    /\ UNCHANGED <<host, epoch, rows, clear>>

\* a finalizer for its slot.
Queue(h) ==
    /\ At(h, "accepted") /\ chat[h].kind = "finalizer"
    /\ chat' = [chat EXCEPT ![h].behind = Chain, ![h].pc = "queued"]
    /\ busy' = h
    /\ UNCHANGED <<host, disk, clear, active>>

MyTurn(h) == At(h, "queued") /\ chat[h].behind = {}

\* A finalizer gives up when a turn is registered, a continuation when
\* the session was cleared.
OpenQueued(h) ==
    /\ MyTurn(h) /\ chat[h].kind # "delegation"
    /\ IF IF chat[h].kind = "finalizer" THEN active # NoTurn ELSE ~Current(h)
       THEN /\ chat' = Released(h, chat) /\ busy' = BusyWithout(h)
            /\ UNCHANGED <<active, buffer>>
       ELSE /\ chat' = [Opened(h, chat) EXCEPT
                          ![h].pc = IF chat[h].kind = "finalizer" THEN "finishing" ELSE "open"]
            /\ active' = h /\ buffer' = Buffered(h, FALSE)
            /\ UNCHANGED busy
    /\ UNCHANGED <<host, epoch, rows, clear>>

\* The idle agent is taken: nothing is looked at again.
StartDelegation(h) ==
    /\ MyTurn(h) /\ chat[h].kind = "delegation"
    /\ chat' = [chat EXCEPT ![h].behind = Chain, ![h].pc = "running"]
    /\ busy' = h
    /\ UNCHANGED <<host, disk, clear, active>>

\* The wait is over after 20 seconds, or the caller was stopped.
AbandonDelegation(h) ==
    /\ At(h, "queued") /\ chat[h].kind = "delegation"
    /\ chat' = [chat EXCEPT ![h] = Ended]
    /\ UNCHANGED <<host, disk, clear, active, busy>>

\* After the attachments were read: the interceptors and the model follow.
Recheck(h) ==
    /\ At(h, "open")
    /\ IF chat[h].aborted \/ ~Current(h)
       THEN /\ chat' = [chat EXCEPT ![h].pc = "finishing", ![h].held = "error"]
            /\ UNCHANGED rows
       ELSE /\ chat' = [chat EXCEPT ![h].pc = "running"]
            /\ rows' = IF chat[h].kind = "user" /\ rows[Own(h)] # NoTurn
                       THEN [rows EXCEPT ![Own(h)].runs = @ + 1] ELSE rows
    /\ UNCHANGED <<host, epoch, buffer, clear, active, busy>>

-----------------------------------------------------------------------------
(* The turn runs.                                                          *)

Running(h) == At(h, "running") /\ chat[h].kind # "delegation"

\* recordStreamEvent: what comes of another turn than the registered is dropped.
Stream(h) ==
    /\ Running(h) /\ active = h
    /\ buffer' = Buffered(h, TRUE)
    /\ UNCHANGED <<host, epoch, rows, clear, memory>>

\* appendToSession: the pending row becomes the user's row and the reply.
Pending(h) == rows[Own(h)] # NoTurn /\ rows[Own(h)].status = "running"
Reply(h) ==
    /\ Running(h) /\ Unlocked /\ chat[h].held = "none" /\ Current(h)
    /\ chat[h].kind = "user" => Pending(h)
    /\ rows' = IF chat[h].kind = "user"
               THEN [rows EXCEPT ![Own(h)].status = "reply", ![Own(h)].reply = TRUE] ELSE rows
    /\ chat' = [chat EXCEPT ![h].held = "done"]
    /\ UNCHANGED <<host, epoch, buffer, clear, active, busy>>

\* failPendingTurn: nothing in a new epoch, and the first failure stays.
Failed(h, status) ==
    IF Current(h) /\ rows[Own(h)] # NoTurn
       /\ rows[Own(h)].final = "none" /\ rows[Own(h)].status \in {"running", "reply"}
    THEN [rows EXCEPT ![Own(h)].status = status] ELSE rows

\* The provider or the write of the reply fails, before or after the reply.
Fail(h) ==
    /\ Running(h) /\ Unlocked
    /\ rows' = IF chat[h].kind = "user"
               THEN Failed(h, IF chat[h].aborted THEN "stopped" ELSE "failed") ELSE rows
    /\ chat' = [chat EXCEPT ![h].pc = "finishing", ![h].held = "error"]
    /\ UNCHANGED <<host, epoch, buffer, clear, active, busy>>

Done(h) ==
    /\ Running(h) /\ chat[h].held = "done"
    /\ chat' = [chat EXCEPT ![h].pc = "finishing"]
    /\ UNCHANGED <<host, disk, clear, active, busy>>

\* The delegation is over.
EndDelegation(h) ==
    /\ At(h, "running") /\ chat[h].kind = "delegation"
    /\ chat' = Released(h, chat) /\ busy' = BusyWithout(h)
    /\ UNCHANGED <<host, disk, clear, active>>

-----------------------------------------------------------------------------
(* The turn ends.                                                          *)

\* An aborted turn is stopped, unless Clear has aborted it.
Finish(h) ==
    /\ At(h, "finishing")
    /\ IF ~chat[h].aborted
       THEN chat' = [chat EXCEPT ![h].pc = "marking"] /\ UNCHANGED rows
       ELSE IF ~Current(h)
       THEN chat' = [chat EXCEPT ![h].pc = "closing"] /\ UNCHANGED rows
       ELSE /\ Unlocked
            /\ rows' = IF Own(h) \in Attempts THEN Failed(h, "stopped") ELSE rows
            /\ chat' = [chat EXCEPT ![h].pc = "marking", ![h].held = "stopped"]
    /\ UNCHANGED <<host, epoch, buffer, clear, active, busy>>

\* markTurnTerminal: the marker that is there stays, and the buffer goes.
Mark(h) ==
    /\ At(h, "marking") /\ Unlocked
    /\ IF Current(h) /\ Own(h) \in Attempts /\ rows[Own(h)] # NoTurn
       THEN /\ rows' = [rows EXCEPT ![Own(h)].final = IF @ = "none" THEN chat[h].held ELSE @]
            /\ buffer' = BufferWithout(h)
       ELSE UNCHANGED <<rows, buffer>>
    /\ chat' = [chat EXCEPT ![h].pc = "closing"]
    /\ UNCHANGED <<host, epoch, clear, active, busy>>

\* finalizeTurn: what another turn has registered stays.  (Broken: it goes.)
Anyone(h) == active # NoTurn
Owner(h) == active = h
Close(h) ==
    /\ At(h, "closing")
    /\ chat' = Released(h, chat) /\ busy' = BusyWithout(h)
    /\ IF Owner(h) THEN active' = NoTurn /\ buffer' = BufferWithout(h)
       ELSE UNCHANGED <<active, buffer>>
    /\ UNCHANGED <<host, epoch, rows, clear>>

-----------------------------------------------------------------------------
(* Stop and Clear.                                                         *)

\* Stop of the turn that is shown, if it still is the registered one.
Stop(h) ==
    /\ host.up /\ active = h
    /\ chat' = Aborted(h, chat) /\ active' = NoTurn
    /\ UNCHANGED <<host, disk, clear, busy>>

\* Under the lock: abort, empty the rows, publish the epoch, remove the buffer.
ClearAborts ==
    /\ Unlocked /\ epoch < MaxEpochs
    /\ clear' = "aborted"
    /\ chat' = Aborted(active, chat) /\ active' = NoTurn
    /\ UNCHANGED <<host, disk, busy>>

ClearRows ==
    /\ clear = "aborted" /\ clear' = "emptied"
    /\ rows' = [a \in Attempts |-> NoTurn]
    /\ UNCHANGED <<host, epoch, buffer, memory>>

ClearEpoch ==
    /\ clear = "emptied" /\ clear' = "rotated"
    /\ epoch' = epoch + 1
    /\ UNCHANGED <<host, rows, buffer, memory>>

ClearBuffer ==
    /\ clear = "rotated" /\ clear' = "none"
    /\ buffer' = NoTurn
    /\ UNCHANGED <<host, epoch, rows, memory>>

-----------------------------------------------------------------------------
(* Crash and boot: cleanStaleStreamBuffers, then reconcileDeadPreOpenTurns.  *)

\* The lock of the dead server is broken; its slots and controllers are gone.
HostCrash ==
    /\ host.up /\ host.life < MaxHosts /\ Cardinality({h \in Turns : chat[h].pc # "none"}) <= CrashTurns
    /\ host' = [host EXCEPT !.up = FALSE]
    /\ clear' = "none" /\ active' = NoTurn /\ busy' = NoTurn
    /\ chat' = [h \in Turns |-> IF chat[h].pc = "none" THEN Absent ELSE Ended]
    /\ UNCHANGED disk

HostRestart ==
    /\ ~host.up
    /\ host' = [up |-> TRUE, life |-> host.life + 1, boot |-> "buffer"]
    /\ UNCHANGED <<disk, clear, memory>>

\* A live turn's buffer is left alone.  The row fails that has no reply, but the
\* buffer stays until it is finalized.
SweepBuffer ==
    /\ Unlocked /\ host.boot = "buffer"
    /\ host' = [host EXCEPT !.boot = "rows"]
    /\ IF buffer = NoTurn \/ ~Dead(buffer.owner) THEN UNCHANGED <<rows, buffer>>
       ELSE IF buffer.epoch # epoch \/ buffer.attempt = NoTurn
       THEN buffer' = NoTurn /\ UNCHANGED rows
       ELSE LET a == buffer.attempt
                row == rows[a] IN
            CASE row = NoTurn ->
                   /\ rows' = IF buffer.content
                              THEN [rows EXCEPT ![a] = [Row("partial", epoch) EXCEPT !.reply = TRUE]]
                              ELSE rows
                   /\ buffer' = NoTurn
              [] row # NoTurn /\ row.status = "running" ->
                   rows' = [rows EXCEPT ![a].status = "failed"] /\ UNCHANGED buffer
              [] row # NoTurn /\ row.status # "running" /\ ~row.reply ->
                   /\ rows' = IF buffer.content THEN [rows EXCEPT ![a].reply = TRUE] ELSE rows
                   /\ buffer' = NoTurn
              [] OTHER ->
                   /\ buffer' = IF row.final = "none" /\ row.status # "partial" THEN buffer ELSE NoTurn
                   /\ UNCHANGED rows
    /\ UNCHANGED <<epoch, clear, memory>>

\* A row that never had a buffer.  (Broken: only the row of the buffer.)
Orphaned(a) == rows[a] # NoTurn /\ rows[a].status = "running" /\ Dead(rows[a].owner)
Buffers(a) == buffer # NoTurn /\ buffer.attempt = a
WithBuffer(a) == Orphaned(a) /\ Buffers(a)
PreOpen(a) == Orphaned(a) /\ ~Buffers(a)
SweepRows ==
    /\ Unlocked /\ host.boot = "rows"
    /\ host' = [host EXCEPT !.boot = "done"]
    /\ rows' = [a \in Attempts |-> IF PreOpen(a) THEN [rows[a] EXCEPT !.status = "failed"] ELSE rows[a]]
    /\ UNCHANGED <<epoch, buffer, clear, memory>>

-----------------------------------------------------------------------------
Step(h) ==
    \/ Refuse(h) \/ Insert(h) \/ Claim(h)
    \/ Begin(h) \/ Queue(h)
    \/ OpenQueued(h) \/ StartDelegation(h) \/ Recheck(h)
    \/ Fail(h) \/ Done(h) \/ EndDelegation(h)
    \/ Finish(h) \/ Mark(h) \/ Close(h)
Clearing == ClearRows \/ ClearEpoch \/ ClearBuffer
Boot == HostRestart \/ SweepBuffer \/ SweepRows

ChatNext ==
    \/ \E h \in Turns :
        \/ \E a \in Attempts : Send(h, a)
        \/ \E kind \in {"continuation", "delegation"} : Internal(h, kind)
        \/ Step(h) \/ AbandonDelegation(h) \/ Stream(h) \/ Reply(h) \/ Stop(h)
    \/ ClearAborts \/ Clearing \/ HostCrash \/ Boot

\* The server is started again and sweeps; its event loop takes the step of
\* some turn as long as one can be taken, and Clear runs on.  A model's stream ends,
\* with or without a reply.
ChatFairness == WF_chatVars((\E h \in Turns : Step(h)) \/ Clearing) /\ WF_chatVars(Boot)

ChatSpec == ChatInit /\ [][ChatNext]_chatVars /\ ChatFairness

-----------------------------------------------------------------------------
(* Properties                                                              *)

TurnRecords ==
    [kind : {"none", "user", "finalizer", "continuation", "delegation"},
     attempt : Attempts \cup {NoTurn}, epoch : 0..MaxEpochs,
     pc : {"none", "accepting", "accepted", "queued", "open", "running",
           "finishing", "marking", "closing", "ended"},
     aborted : BOOLEAN, behind : SUBSET Turns, held : {"none", "done", "error", "stopped"}]

Opening == {"open", "running", "finishing", "marking", "closing"}

Registered ==
    /\ active # NoTurn => active \in Turns /\ chat[active].pc \in Opening
    /\ busy # NoTurn => busy \in Turns /\ chat[busy].pc \in Opening \cup {"queued"}

\* The shape of the state; what is registered, and the last slot, belong to
\* turns that have not ended.
ChatTypeOK ==
    /\ host \in [up : BOOLEAN, life : 1..MaxHosts, boot : {"buffer", "rows", "done"}]
    /\ epoch \in 1..MaxEpochs /\ clear \in {"none", "aborted", "emptied", "rotated"}
    /\ rows \in [Attempts -> Rows \cup {NoTurn}] /\ chat \in [Turns -> TurnRecords]
    /\ buffer # NoTurn => buffer.attempt \in Attempts \cup {NoTurn} /\ buffer.epoch \in 1..epoch
    /\ Registered

\* Stop and Clear reach every turn that works on: one that was not aborted is the
\* registered one, whoever barges in, waits, gives up or ends meanwhile.
StopReaches ==
    \A h \in Turns : chat[h].pc \in Opening /\ chat[h].kind # "delegation" /\ ~chat[h].aborted
                        => active = h

\* In one transcript an attempt is executed at most once, however often it
\* is sent, before and after a crash.
RunOnce == \A a \in Attempts : rows[a] # NoTurn => rows[a].runs <= 1

\* What Clear has removed stays away: a turn from before it adds no row, and
\* answers none that was accepted since.
ClearedStaysCleared ==
    \A a \in Attempts : rows[a] # NoTurn =>
        rows[a].epoch = epoch /\ (rows[a].status = "reply" => rows[a].runs = 1)

\* The chat comes to rest whenever no more is sent: every accepted message is
\* answered, fails, is stopped or cleared, though the server dies, and every
\* turn ends, none waits for ever.
AtRest ==
    /\ \A a \in Attempts : rows[a] # NoTurn => rows[a].status # "running"
    /\ \A h \in Turns : chat[h].pc \in {"none", "ended"}
AllSettle == []<>AtRest

\* Turns that wait for the agent run one at a time.  The comment on the slots:
\* they exist "so ask_agent can queue behind an active run instead of
\* colliding with it".
Working(h) == chat[h].pc \in Opening /\ chat[h].kind \in {"continuation", "delegation"}
QueuedAlone == \A g, h \in Turns : Working(g) /\ Working(h) => g = h
=============================================================================
