-------------------------- MODULE TelegramDelivery --------------------------
(***************************************************************************)
(* sendTelegramIdempotently of lib/telegram-delivery-idempotency.mjs, the   *)
(* guard between replies, notifications and Telegram, for one scope: a      *)
(* message the user may retry, or an occurrence of a schedule.  The server  *)
(* may die at any step; it is alone, so the scope's lock is free or a dead  *)
(* server's, and a call that finds another under way joins it.              *)
(***************************************************************************)
EXTENDS FiniteSets, Naturals

CONSTANTS Calls, Text,  \* calls of the scope, and what each wants to send
          Nobody

ASSUME NobodyAssumption == Nobody \notin Calls

VARIABLES record,       \* the scope's file
          source,       \* what authorizes a call: a message, "kept" or "gone", or
                        \* an occurrence, "due" or "past"
          step,         \* step[c]
          inflight,     \* the call in _inflight
          wire,         \* requests Telegram may still accept
          accepted,     \* those it has accepted (history)
          result        \* result[c]: what the caller was told (history)

deliveryVars == <<record, source, step, inflight, wire, accepted, result>>

\* Ages of a file: young, over a day, over a week, over ninety days.
Young == 0
OverDay == 1
OverWeek == 2
OverQuarter == 3

NoFile == [status |-> "none", text |-> Nobody, age |-> Young]
File(c, status) == [status |-> status, text |-> Text[c], age |-> Young]

DeliveryInit ==
    /\ record = NoFile /\ source \in {"kept", "due"}
    /\ step = [c \in Calls |-> "idle"] /\ inflight = Nobody
    /\ wire = {} /\ accepted = {}
    /\ result = [c \in Calls |-> "none"]

\* replayResult
Replay(file, c) ==
    IF file.text # Text[c] THEN "mismatch"
    ELSE IF file.status = "completed" THEN "ok" ELSE "uncertain"

Begins(c) == step[c] = "idle" /\ source \in {"kept", "due"}

\* The call ends with an answer, or throws, and those who joined it are
\* answered from the file, if there is one.
End(c, answer) ==
    /\ inflight' = Nobody
    /\ step' = [d \in Calls |-> IF d = c \/ step[d] = "joined" THEN "over" ELSE step[d]]
    /\ result' = [d \in Calls |->
                   IF d = c THEN answer
                   ELSE IF step[d] # "joined" THEN result[d]
                   ELSE IF answer = "thrown" \/ record' = NoFile THEN answer
                   ELSE Replay(record', d)]

-----------------------------------------------------------------------------
Join(c) ==
    /\ Begins(c) /\ inflight # Nobody
    /\ step' = [step EXCEPT ![c] = "joined"]
    /\ UNCHANGED <<record, source, inflight, wire, accepted, result>>

AnswerAgain(c) ==
    /\ Begins(c) /\ inflight = Nobody
    /\ record.status \in {"dispatching", "uncertain", "completed"}
    /\ step' = [step EXCEPT ![c] = "over"]
    /\ result' = [result EXCEPT ![c] = Replay(record, c)]
    /\ UNCHANGED <<record, source, inflight, wire, accepted>>

\* No file, or one of a call that died before it sent anything.
Start(c) ==
    /\ Begins(c) /\ inflight = Nobody
    /\ record.status \in {"none", "preflight"}
    /\ record' = NoFile
    /\ inflight' = c
    /\ step' = [step EXCEPT ![c] = "admission"]
    /\ UNCHANGED <<source, wire, accepted, result>>

\* Under the admission lock: is there room, and the preflight file.
Admit(c) ==
    /\ step[c] = "admission"
    /\ record' = File(c, "preflight")
    /\ step' = [step EXCEPT ![c] = "preflight"]
    /\ UNCHANGED <<source, inflight, wire, accepted, result>>

TurnAway(c, answer) ==
    /\ step[c] = "admission" /\ answer \in {"full", "thrown"}
    /\ UNCHANGED record
    /\ End(c, answer)
    /\ UNCHANGED <<source, wire, accepted>>

\* The sender's first act is markDispatchStarted; then the request goes out.
Mark(c) ==
    /\ step[c] = "preflight"
    /\ record' = File(c, "dispatching")
    /\ step' = [step EXCEPT ![c] = "sending"]
    /\ wire' = wire \cup {c}
    /\ UNCHANGED <<source, inflight, accepted, result>>

\* The file could not be written: it is removed, and nothing was sent.
MarkFails(c) ==
    /\ step[c] = "preflight"
    /\ record' = NoFile
    /\ End(c, "thrown")
    /\ UNCHANGED <<source, wire, accepted>>

\* Telegram accepts a request, sooner or later.
Accept(c) ==
    /\ c \in wire
    /\ wire' = wire \ {c} /\ accepted' = accepted \cup {c}
    /\ UNCHANGED <<record, source, step, inflight, result>>

Delivered(c) ==
    /\ step[c] = "sending" /\ c \in accepted
    /\ record' = File(c, "completed")
    /\ End(c, "ok")
    /\ UNCHANGED <<source, wire, accepted>>

\* The request failed for all the server knows, or the completed file could
\* not be written; nor, perhaps, this one.
Undecided(c, saved) ==
    /\ step[c] = "sending"
    /\ record' = IF saved THEN File(c, "uncertain") ELSE record
    /\ End(c, "thrown")
    /\ UNCHANGED <<source, wire, accepted>>

-----------------------------------------------------------------------------
(* Death, time, Clear and retention.                                       *)

ServerDies ==
    /\ \E c \in Calls : step[c] \notin {"idle", "over", "lost"}
    /\ step' = [c \in Calls |-> IF step[c] \in {"idle", "over"} THEN step[c] ELSE "lost"]
    /\ inflight' = Nobody
    /\ UNCHANGED <<record, source, wire, accepted, result>>

\* Nobody sends for an occurrence that is ninety days old (assumption "due").
GrowOld ==
    /\ inflight = Nobody /\ record # NoFile /\ record.age < OverQuarter
    /\ record' = [record EXCEPT !.age = @ + 1]
    /\ source' = IF source = "due" /\ record'.age = OverQuarter THEN "past" ELSE source
    /\ UNCHANGED <<step, inflight, wire, accepted, result>>

\* The chat is cleared, or its old rows are pruned.
ForgetSource ==
    /\ source = "kept"
    /\ source' = "gone"
    /\ UNCHANGED <<record, step, inflight, wire, accepted, result>>

\* sweepDeliveryRecords, in the admission of another scope.  (Broken: what is
\* completed is deleted by its age alone.)
OldEnough ==
    \/ record.status = "completed" /\ record.age >= OverWeek
    \/ record.status = "preflight" /\ record.age >= OverDay
SafeToDelete ==
    \/ /\ record.status = "completed" /\ record.age >= OverWeek
       /\ source = "gone" \/ (source # "kept" /\ record.age >= OverQuarter)
    \/ record.status = "preflight" /\ record.age >= OverDay

SweepRecord ==
    /\ SafeToDelete
    /\ record' = NoFile
    /\ UNCHANGED <<source, step, inflight, wire, accepted, result>>

-----------------------------------------------------------------------------
DeliveryNext ==
    \/ \E c \in Calls :
          \/ Join(c) \/ AnswerAgain(c) \/ Start(c) \/ Admit(c) \/ Mark(c) \/ MarkFails(c)
          \/ Accept(c) \/ Delivered(c)
          \/ \E answer \in {"full", "thrown"} : TurnAway(c, answer)
          \/ \E saved \in BOOLEAN : Undecided(c, saved)
    \/ ServerDies \/ GrowOld \/ ForgetSource \/ SweepRecord

DeliverySpec == DeliveryInit /\ [][DeliveryNext]_deliveryVars

-----------------------------------------------------------------------------
(* Properties                                                              *)

DeliveryTypeOK ==
    /\ record.status \in {"none", "preflight", "dispatching", "uncertain", "completed"}
    /\ record.age \in Young..OverQuarter
    /\ source \in {"kept", "gone", "due", "past"}
    /\ step \in [Calls -> {"idle", "joined", "admission", "preflight", "sending", "over", "lost"}]
    /\ inflight \in Calls \cup {Nobody}
    /\ wire \cup accepted \subseteq Calls
    /\ result \in [Calls -> {"none", "ok", "uncertain", "mismatch", "full", "thrown"}]

\* Whatever dies, times out, is retried with the same or another text, or is
\* forgotten by retention: one message at most is delivered for the scope, and a
\* caller told of success is told of its own text.
Promise == INSTANCE Delivery WITH sent <- accepted, told <- {c \in Calls : result[c] = "ok"}
ImplementsDelivery == Promise!Spec
=============================================================================
