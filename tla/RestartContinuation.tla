------------------------ MODULE RestartContinuation ------------------------
(***************************************************************************)
(* A turn that asks for a restart of the server, and the continuation that  *)
(* answers for it after the boot: lib/restart-continuation.mjs, with its    *)
(* callers in lib/update.mjs and skills/oe-admin.  One checkpoint file for   *)
(* the whole server; at most one server lives at a time.  Writes are        *)
(* atomic, but one that is reported as failed may have happened.            *)
(***************************************************************************)
EXTENDS Naturals

CONSTANTS MaxCheckpoints,   \* bounds: checkpoints written,
          MaxBoots,         \* servers started,
          MaxClears,        \* Clears of the conversation,
          MaxFailures,      \* writes that fail
          TotalAttempts,    \* DEFAULT_TOTAL_MAX_ATTEMPTS
          Empty             \* no checkpoint

Ids == 1..MaxCheckpoints
Checkpoints == [id : Nat, boot : Nat, generation : Nat,
                state : {"prepared", "pending", "running"}, attempts : Nat, owner : Nat,
                tools : BOOLEAN, source : Nat \X Nat, sourceDone : BOOLEAN]

ASSUME RestartAssumption ==
    /\ Empty \notin Checkpoints
    /\ MaxCheckpoints \in Nat /\ MaxBoots \in Nat \ {0} /\ MaxClears \in Nat
    /\ MaxFailures \in Nat /\ TotalAttempts \in Nat \ {0}

VARIABLES process,      \* [up, boot, restart]: restart is "none", "updating", "scheduled" or "exiting"
          sessionGeneration,   \* of the conversation
          slot,         \* the checkpoint file
          minted,       \* the last id
          stream,       \* the turn that runs: the one that asks, or a continuation
          resumer,      \* the boot's resumer, with its copy of the checkpoint
          session,      \* rows: done markers and failure reports
          failures,     \* writes that failed so far
          started,      \* history: the continuations whose model was called
          acted         \* history: those that executed a tool

restartVars == <<process, sessionGeneration, slot, minted, stream, resumer, session, failures, started, acted>>

\* A turn is named by the checkpoint it continues and its attempt; a user's by 0
\* and the checkpoint it writes.
NoStream == [pc |-> "none", name |-> <<0, 0>>, generation |-> 0, readOnly |-> FALSE, ending |-> "none"]
Resting == [pc |-> "none", chat |-> "home", checkpoint |-> Empty]

RestartInit ==
    /\ process = [up |-> TRUE, boot |-> 1, restart |-> "none"]
    /\ sessionGeneration = 0 /\ slot = Empty /\ minted = 0
    /\ stream = NoStream /\ resumer = Resting
    /\ session = [done |-> {}, reports |-> {}]
    /\ failures = 0 /\ started = {} /\ acted = {}

\* Nobody has cleared the conversation since x, a turn or a checkpoint, began.
Uncleared(x) == x.generation = sessionGeneration

Counted(saved) ==
    IF saved THEN UNCHANGED failures ELSE failures < MaxFailures /\ failures' = failures + 1
Write(new, saved) == Counted(saved) /\ slot' \in IF saved THEN {new} ELSE {slot, new}

\* updateCheckpoint and clearRestartContinuationCheckpoint: only the one meant.
Holds(id) == slot # Empty /\ slot.id = id
Without(id) == IF Holds(id) THEN Empty ELSE slot

-----------------------------------------------------------------------------
(* The request.                                                            *)

\* A restart may be scheduled at once; an update is prepared, and armed when the
\* new files are there.
Checkpoint(kind, source) ==
    [id |-> minted + 1, boot |-> process.boot, generation |-> source.generation,
     state |-> IF kind = "update" THEN "prepared" ELSE "pending", attempts |-> 0, owner |-> 0,
     tools |-> FALSE, source |-> source.name, sourceDone |-> FALSE]

Requests(kind, source, saved) ==
    /\ process.up /\ process.boot < MaxBoots /\ minted < MaxCheckpoints
    /\ Write(Checkpoint(kind, source), saved)
    /\ minted' = minted + 1 /\ stream' = source
    /\ process' = [process EXCEPT !.restart =
                     IF ~saved THEN @ ELSE IF kind = "restart" THEN "scheduled" ELSE "updating"]
    /\ UNCHANGED <<sessionGeneration, resumer, session, started, acted>>

\* A user's turn asks; an occupied slot refuses.
RequestRestart(kind, saved) ==
    /\ stream.pc = "none" /\ slot = Empty
    /\ Requests(kind, [NoStream EXCEPT !.pc = "running", !.name = <<0, minted + 1>>,
                                       !.generation = sessionGeneration], saved)

\* A turn's tool asks again: the slot is empty since its update has failed, or
\* holds the turn's own checkpoint, which, and no other, gives way to a child.
OwnsSlot == slot # Empty /\ slot.state = "running" /\ stream.name = <<slot.id, slot.attempts>>
RequestAnother(kind, saved) ==
    /\ stream.pc = "running" /\ Uncleared(stream)
    /\ stream.name[1] = 0 \/ stream.name \in acted
    /\ slot = Empty \/ OwnsSlot
    /\ Requests(kind, stream, saved)

\* The update runs, with its checkpoint prepared: nobody else writes or clears it.
Prepared == process.restart = "updating" /\ slot # Empty /\ slot.state = "prepared"

\* A checkpoint that cannot be armed is cleared, unless that fails too.
ArmUpdate(saved) ==
    /\ Prepared /\ Counted(saved)
    /\ LET armed == [slot EXCEPT !.state = "pending"] IN
       slot' \in IF saved THEN {armed} ELSE {Empty, slot, armed}
    /\ process' = [process EXCEPT !.restart = IF saved THEN "scheduled" ELSE "none"]
    /\ UNCHANGED <<sessionGeneration, minted, stream, resumer, session, started, acted>>

\* The turn goes on, and nothing is left of the checkpoint it may have had before.
UpdateFails(saved) ==
    /\ Prepared /\ Counted(saved)
    /\ slot' = IF saved THEN Empty ELSE slot
    /\ process' = [process EXCEPT !.restart = "none"]
    /\ UNCHANGED <<sessionGeneration, minted, stream, resumer, session, started, acted>>

\* restartProcess is called in a later turn of the event loop: it is refused
\* when the conversation was cleared, and may fail to start the successor.
RestartProcess(spawned) ==
    /\ process.up /\ process.restart = "scheduled" /\ Counted(spawned)
    /\ process' = [process EXCEPT !.restart =
                     IF spawned /\ slot # Empty /\ slot.boot = process.boot /\ Uncleared(slot)
                     THEN "exiting" ELSE "none"]
    /\ UNCHANGED <<sessionGeneration, slot, minted, stream, resumer, session, started, acted>>

Down ==
    /\ process.up /\ process.boot < MaxBoots
    /\ process' = [process EXCEPT !.up = FALSE, !.restart = "none"]
    /\ stream' = NoStream /\ resumer' = Resting
    /\ UNCHANGED <<sessionGeneration, slot, minted, session, failures, started, acted>>
ProcessExits == process.restart = "exiting" /\ Down
ProcessDies == process.restart # "exiting" /\ Down

ProcessBoots ==
    /\ ~process.up
    /\ process' = [up |-> TRUE, boot |-> process.boot + 1, restart |-> "none"]
    /\ resumer' = [Resting EXCEPT !.pc = "read"]
    /\ UNCHANGED <<sessionGeneration, slot, minted, stream, session, failures, started, acted>>

ClearConversation ==
    /\ process.up /\ sessionGeneration < MaxClears /\ sessionGeneration' = sessionGeneration + 1
    /\ session' = [done |-> {}, reports |-> {r \in session.reports : r[2] = "other"}]
    /\ UNCHANGED <<process, slot, minted, stream, resumer, failures, started, acted>>

-----------------------------------------------------------------------------
(* The resumer up to the model's turn.                                     *)

Resumes(pc) == process.up /\ resumer.pc = pc
Copy == resumer.checkpoint

\* The report goes to another chat when the agents have changed.
ReadCheckpoint(chat) ==
    /\ Resumes("read")
    /\ resumer' = IF slot = Empty \/ slot.boot = process.boot THEN Resting
                  ELSE [pc |-> IF Uncleared(slot) THEN "check" ELSE "clear",
                        chat |-> chat, checkpoint |-> slot]
    /\ UNCHANGED <<process, sessionGeneration, slot, minted, stream, session, failures, started, acted>>

CheckSource ==
    /\ Resumes("check")
    /\ resumer' = [resumer EXCEPT !.pc = "claim",
                                  !.checkpoint.sourceDone = @ \/ Copy.source \in session.done]
    /\ UNCHANGED <<process, sessionGeneration, slot, minted, stream, session, failures, started, acted>>

\* hasReport: a failure report, or the reply of the last attempt with its marker.
Reported(c, chat) ==
    \/ <<c.id, chat>> \in session.reports
    \/ chat = "home" /\ <<c.id, c.attempts>> \in session.done

Exhausted(c) == ~c.tools /\ c.attempts >= TotalAttempts
NoAttempt(c) == c.tools \/ Exhausted(c) \/ c.state = "prepared"
Claimed ==
    [slot EXCEPT !.state = "running", !.owner = process.boot,
                 !.sourceDone = @ \/ Copy.sourceDone,
                 !.attempts = IF NoAttempt(slot) THEN @ ELSE @ + 1]

\* A lease of this process is not proven dead: the resumer keeps polling.
Leased == slot.state = "running" /\ slot.owner = process.boot
ClaimCheckpoint(saved) ==
    /\ Resumes("claim")
    /\ IF Reported(Copy, resumer.chat) \/ ~Holds(Copy.id) \/ Leased
       THEN /\ saved /\ UNCHANGED <<slot, failures>>
            /\ resumer' = IF Reported(Copy, resumer.chat) THEN [resumer EXCEPT !.pc = "clear"]
                          ELSE IF Holds(Copy.id) THEN [resumer EXCEPT !.pc = "retry"] ELSE Resting
       ELSE /\ Write(Claimed, saved)
            /\ resumer' = IF ~saved THEN [resumer EXCEPT !.pc = "retry"]
                          ELSE [resumer EXCEPT !.checkpoint = Claimed,
                                  !.pc = IF \/ resumer.chat = "other" \/ slot.state = "prepared"
                                            \/ Exhausted(slot)
                                         THEN "report" ELSE "audit"]
    /\ UNCHANGED <<process, sessionGeneration, minted, stream, session, started, acted>>

\* The update is verified, which may fail; an attempt that used tools is not
\* repeated.  (Broken: it is.)
Forgets(c) == FALSE
Remembers(c) == c.tools
VerifyAudit(verified) ==
    /\ Resumes("audit")
    /\ IF verified /\ ~Remembers(Copy) /\ Uncleared(Copy)
       THEN /\ stream.pc = "none"
            /\ resumer' = [resumer EXCEPT !.pc = "turn"]
            /\ stream' = [pc |-> "running", name |-> <<Copy.id, Copy.attempts>>,
                          generation |-> Copy.generation, readOnly |-> Copy.sourceDone, ending |-> "none"]
            /\ started' = started \cup {stream'.name}
       ELSE /\ resumer' = [resumer EXCEPT !.pc = IF verified /\ Remembers(Copy) THEN "report" ELSE "catch"]
            /\ UNCHANGED <<stream, started>>
    /\ UNCHANGED <<process, sessionGeneration, slot, minted, session, failures, acted>>

-----------------------------------------------------------------------------
(* The turn.                                                               *)

\* The first call of a continuation is recorded before it is executed; if that
\* fails it is not executed, and the stream ends.
ToolCall(saved) ==
    /\ process.up /\ stream.pc = "running" /\ Resumes("turn")
    /\ stream.name[1] = Copy.id /\ ~stream.readOnly /\ Uncleared(stream) /\ ~Copy.tools
    /\ Write([slot EXCEPT !.tools = TRUE], saved)
    /\ resumer' = [resumer EXCEPT !.checkpoint.tools = TRUE]
    /\ IF saved THEN acted' = acted \cup {stream.name} /\ UNCHANGED stream
       ELSE stream' = [stream EXCEPT !.pc = "ended", !.ending = "error"] /\ UNCHANGED acted
    /\ UNCHANGED <<process, sessionGeneration, minted, session, started>>

\* A reply with its marker; or an error, a Stop, or the death of the stream; or
\* a continuation finds, before it does anything, that its agent is another now.
TurnEnds(ending) ==
    /\ process.up /\ stream.pc = "running"
    /\ ending = "done" => Uncleared(stream)
    /\ ending = "moved" => stream.name[1] # 0 /\ stream.name \notin acted
    /\ session' = IF ending = "done" THEN [session EXCEPT !.done = @ \cup {stream.name}] ELSE session
    /\ stream' = IF stream.name[1] = 0 THEN NoStream
                 ELSE [stream EXCEPT !.pc = "ended", !.ending = ending]
    /\ UNCHANGED <<process, sessionGeneration, slot, minted, resumer, failures, started, acted>>

JudgeTurn ==
    /\ Resumes("turn") /\ stream.pc = "ended"
    /\ stream' = NoStream
    /\ resumer' \in
         IF stream.ending = "moved"
         THEN {[resumer EXCEPT !.pc = "report", !.chat = chat] : chat \in {"home", "other"}}
         ELSE {IF stream.ending # "done" THEN [resumer EXCEPT !.pc = "catch"]
               ELSE IF slot # Empty /\ ~Holds(Copy.id) THEN Resting
               ELSE [resumer EXCEPT !.pc = "verify"]}
    /\ UNCHANGED <<process, sessionGeneration, slot, minted, session, failures, started, acted>>

-----------------------------------------------------------------------------
(* The resumer after it.                                                   *)

VerifyReport(saved) ==
    /\ Resumes("verify")
    /\ IF Reported(Copy, "home")
       THEN /\ Counted(saved)
            /\ slot' = IF saved THEN Without(Copy.id) ELSE slot
            /\ resumer' = IF saved THEN Resting ELSE [resumer EXCEPT !.pc = "catch"]
       ELSE saved /\ resumer' = [resumer EXCEPT !.pc = "catch"] /\ UNCHANGED <<slot, failures>>
    /\ UNCHANGED <<process, sessionGeneration, minted, stream, session, started, acted>>

Acted == Copy.tools \/ (Holds(Copy.id) /\ slot.tools)
Unleased(c) == [c EXCEPT !.state = "pending", !.owner = 0]
CatchError(saved) ==
    /\ Resumes("catch")
    /\ IF ~Uncleared(Copy) \/ (slot # Empty /\ ~Holds(Copy.id)) \/ Acted
       THEN /\ saved /\ UNCHANGED <<slot, failures>>
            /\ resumer' = IF ~Uncleared(Copy) THEN [resumer EXCEPT !.pc = "clear"]
                          ELSE IF slot # Empty /\ ~Holds(Copy.id) THEN Resting
                          ELSE [resumer EXCEPT !.pc = "report", !.checkpoint.tools = TRUE]
       ELSE /\ IF slot = Empty THEN saved /\ UNCHANGED <<slot, failures>>
               ELSE Write(Unleased(slot), saved)
            /\ resumer' = [resumer EXCEPT !.pc = "retry"]
    /\ UNCHANGED <<process, sessionGeneration, minted, stream, session, started, acted>>

\* persistVisibleFailure
PersistFailure(saved) ==
    /\ Resumes("report")
    /\ IF resumer.chat = "home" /\ ~Uncleared(Copy)
       THEN /\ saved /\ UNCHANGED <<slot, session, failures>>
            /\ resumer' = [resumer EXCEPT !.pc = "clear"]
       ELSE LET after == [session EXCEPT !.reports = @ \cup {<<Copy.id, resumer.chat>>}] IN
            /\ Counted(saved)
            /\ session' \in IF saved THEN {after} ELSE {session, after}
            /\ slot' \in IF ~saved /\ Holds(Copy.id) THEN {slot, Unleased(slot)} ELSE {slot}
            /\ resumer' = [resumer EXCEPT !.pc = IF saved THEN "clear" ELSE "retry"]
    /\ UNCHANGED <<process, sessionGeneration, minted, stream, started, acted>>

ClearCheckpoint(saved) ==
    /\ Resumes("clear") /\ Counted(saved)
    /\ slot' = IF saved THEN Without(Copy.id) ELSE slot
    /\ resumer' = IF saved THEN Resting ELSE [resumer EXCEPT !.pc = "retry"]
    /\ UNCHANGED <<process, sessionGeneration, minted, stream, session, started, acted>>

RetryLater ==
    /\ Resumes("retry") /\ resumer' = [resumer EXCEPT !.pc = "read"]
    /\ UNCHANGED <<process, sessionGeneration, slot, minted, stream, session, failures, started, acted>>

-----------------------------------------------------------------------------
Resume ==
    \/ \E chat \in {"home", "other"} : ReadCheckpoint(chat)
    \/ \E verified \in BOOLEAN : VerifyAudit(verified)
    \/ \E saved \in BOOLEAN : \/ ClaimCheckpoint(saved) \/ VerifyReport(saved) \/ CatchError(saved)
                              \/ PersistFailure(saved) \/ ClearCheckpoint(saved)
    \/ CheckSource \/ JudgeTurn \/ RetryLater

RestartNext ==
    \/ \E saved \in BOOLEAN :
        \/ \E kind \in {"restart", "update"} : RequestRestart(kind, saved) \/ RequestAnother(kind, saved)
        \/ ArmUpdate(saved) \/ UpdateFails(saved) \/ RestartProcess(saved) \/ ToolCall(saved)
    \/ ProcessExits \/ ProcessDies \/ ProcessBoots \/ ClearConversation
    \/ \E ending \in {"done", "error", "moved"} : TurnEnds(ending)
    \/ Resume

\* What was scheduled happens, the server is started again, turns end, and the
\* resumer goes on: its retries and its monitoring are timers.
RestartFairness ==
    /\ WF_restartVars(\E saved \in BOOLEAN : UpdateFails(saved) \/ ArmUpdate(saved))
    /\ WF_restartVars(\E saved \in BOOLEAN : RestartProcess(saved))
    /\ WF_restartVars(ProcessExits) /\ WF_restartVars(ProcessBoots)
    /\ WF_restartVars(\E ending \in {"done", "error", "moved"} : TurnEnds(ending))
    /\ WF_restartVars(Resume)

RestartSpec == RestartInit /\ [][RestartNext]_restartVars /\ RestartFairness

-----------------------------------------------------------------------------
(* Properties                                                              *)

CheckpointTypeOK(c) ==
    /\ c \in Checkpoints
    /\ c.id \in 1..minted /\ c.boot \in 1..process.boot
    /\ c.attempts \in 0..TotalAttempts /\ c.owner \in 0..process.boot
    /\ c.generation \in 0..sessionGeneration

RestartTypeOK ==
    /\ process.up \in BOOLEAN /\ process.boot \in 1..MaxBoots
    /\ process.restart \in {"none", "updating", "scheduled", "exiting"}
    /\ slot # Empty => CheckpointTypeOK(slot)
    /\ resumer.pc \in {"none", "read", "check", "claim", "audit", "turn", "verify", "catch", "report",
                       "clear", "retry"}
    /\ resumer.pc \notin {"none", "read"} => CheckpointTypeOK(Copy)
    /\ stream.pc \in {"none", "running", "ended"} /\ stream.generation \in 0..sessionGeneration
    /\ minted \in 0..MaxCheckpoints /\ failures \in 0..MaxFailures

\* The resume has the stable name of an attempt that was never started, within the
\* limit of attempts, and follows none that may have executed a tool: an action
\* that is possibly completed is not run again, whatever dies or fails.
NoReplay == [][
    stream'.pc = "running" /\ stream.pc # "running" /\ stream'.name[1] # 0 =>
        /\ stream'.name \notin started /\ stream'.name[2] <= TotalAttempts
        /\ \A x \in acted : x[1] # stream'.name[1]]_restartVars

\* The next boot goes on with this checkpoint: it is not that of an update that
\* still runs, which a failure of the update takes back.
Owed(id) == Holds(id) /\ (slot.state # "prepared" \/ slot.boot # process.boot)
Honoured(id) ==
    \/ \E n \in 1..TotalAttempts : <<id, n>> \in session.done
    \/ \E chat \in {"home", "other"} : <<id, chat>> \in session.reports
    \/ slot # Empty /\ slot.source[1] = id /\ Owed(slot.id)

\* The continuation has given its checkpoint away: to its own update, which still
\* runs, and for good when that has failed.
OwnUpdate(id) == slot # Empty /\ slot.source[1] = id /\ ~Owed(slot.id)
Unguarded(id) == slot = Empty /\ resumer.pc = "turn" /\ Copy.id = id


\* What update.mjs:808 says of a restart: it never strands the turn that requested
\* it.  A continuation that asks for an update is not left without a checkpoint,
\* a reply and a report.
NeverStranded ==
    \A id \in Ids : Owed(id) /\ slot.generation = MaxClears ~> Honoured(id) \/ failures > 0
=============================================================================
