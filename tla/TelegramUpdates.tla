-------------------------- MODULE TelegramUpdates --------------------------
(***************************************************************************)
(* Admission of Telegram webhook updates, lib/telegram-update-ledger.mjs:  *)
(* one claim file per update and a checkpoint that stands for the prefix   *)
(* of ids whose files were deleted.  Claims of one user are serialized by  *)
(* a file lock, so one claim is in progress at a time; the process may die *)
(* at any of its writes.  Telegram is modelled by what the module relies   *)
(* on: ids grow, an unacknowledged update is sent again for at most        *)
(* MaxDelay, and after an idle RestartIdle the ids may start anywhere.     *)
(* Time is counted in ticks of a day or so.                                *)
(***************************************************************************)
EXTENDS Naturals, Integers, FiniteSets

CONSTANTS MaxId, MaxGen, MaxTime,   \* bounds of the instance
          Week,            \* RETENTION_MS = SEQUENCE_RESET_IDLE_MS
          MaxDelay,        \* Telegram repeats an update this long (24 h)
          RestartIdle,     \* Telegram restarts ids after more than this
          MaxRecords,      \* MAX_RECORDS
          FailingDeletes   \* where rmSync may fail: "retire", "reset"

ASSUME BoundsAssumption == {MaxId, MaxGen, MaxTime, Week, MaxDelay, RestartIdle} \subseteq Nat
ASSUME RecordsAssumption == MaxRecords \in Nat \ {0}
ASSUME TimesAssumption == MaxDelay <= Week /\ MaxDelay < RestartIdle

Ids == 0..MaxId
Updates == [gen : 0..MaxGen, id : Ids]
NoRecord == -1
NoTime == -1

VARIABLES now,
          gen,         \* Telegram's current id sequence
          born,        \* born[u]: when Telegram created u, or NoTime
          checkpoint,  \* checkpoint.json: retiredThrough, lastClaimedAt
          records,     \* records[i]: mtime of update-<i>.json, or NoRecord
          pc, update, watermark,   \* the claim holding the admission lock
          claimed,     \* updates whose claim file was written (history)
          refused,     \* updates answered with false though never claimed (history)
          runs         \* runs[u]: turns started for u (history)

telegram == <<now, gen, born>>
claim == <<pc, update, watermark>>
history == <<claimed, refused, runs>>
vars == <<telegram, checkpoint, records, claim, history>>

\* Time 0 is the epoch, which lastClaimedAt uses for "never".
Init ==
    /\ now = 1 /\ gen = 0
    /\ born = [u \in Updates |-> NoTime]
    /\ checkpoint = [retired |-> -1, last |-> 0]
    /\ records = [i \in Ids |-> NoRecord]
    /\ pc = "idle" /\ update = [gen |-> 0, id |-> 0] /\ watermark = -1
    /\ claimed = {} /\ refused = {}
    /\ runs = [u \in Updates |-> 0]

-----------------------------------------------------------------------------
(* Telegram                                                                *)

Born == {u \in Updates : born[u] # NoTime}
Current == {u \in Born : u.gen = gen}

Tick ==
    /\ now < MaxTime /\ pc = "idle"
    /\ now' = now + 1
    /\ UNCHANGED <<gen, born, checkpoint, records, claim, history>>

\* A new update, with a higher id than all before it in its sequence.
Create(i) ==
    /\ \A u \in Current : u.id < i
    /\ born' = [born EXCEPT ![[gen |-> gen, id |-> i]] = now]
    /\ UNCHANGED <<now, gen, checkpoint, records, claim, history>>

Restart ==
    /\ gen < MaxGen /\ Current # {}
    /\ \A u \in Born : now - born[u] > RestartIdle
    /\ gen' = gen + 1
    /\ UNCHANGED <<now, born, checkpoint, records, claim, history>>

\* The update reaches the webhook, for the first time or again.
Deliver(u) ==
    /\ pc = "idle"
    /\ u \in Born /\ now - born[u] <= MaxDelay
    /\ pc' = "sweep" /\ update' = u
    /\ UNCHANGED <<telegram, checkpoint, records, watermark, history>>

-----------------------------------------------------------------------------
(* claimTelegramUpdate                                                     *)

Recorded == {i \in Ids : records[i] # NoRecord}

IsMax(x, S) == x \in S /\ \A y \in S : y <= x

\* Installations without lastClaimedAt derive it from the claim files.
LastActivity ==
    IF checkpoint.last = 0 /\ Recorded # {}
    THEN LET times == {records[i] : i \in Recorded} IN CHOOSE t \in times : IsMax(t, times)
    ELSE checkpoint.last

\* An idle week went by.  (Broken: the sequence is never reset.)
NeverIdle == FALSE
IdleReset == LastActivity > 0 /\ now - LastActivity > Week

\* The watermark after retiring expired claims (looked for once an hour) ...
Expired(scan) ==
    IF scan THEN {i \in Recorded : now - records[i] > Week} ELSE {}
\* ... and, so that one more fits, the oldest of too many above it.
Overflow(aged) ==
    {i \in Recorded : i > aged /\ Cardinality({j \in Recorded : j > i}) >= MaxRecords - 1}

\* The first half of sweep: the checkpoint is written before any file goes.
Sweep ==
    /\ pc = "sweep" /\ ~IdleReset
    /\ \E scan \in BOOLEAN, aged \in Ids \cup {-1} :
         /\ IsMax(aged, {checkpoint.retired} \cup Expired(scan))
         /\ watermark' \in Ids \cup {-1}
         /\ IsMax(watermark', {aged} \cup Overflow(aged))
    /\ checkpoint' = IF watermark' > checkpoint.retired
                     THEN [retired |-> watermark', last |-> LastActivity]
                     ELSE checkpoint
    /\ pc' = "retire"
    /\ UNCHANGED <<telegram, records, update, history>>

\* An idle week: the old sequence's watermark is dropped.
ResetSequence ==
    /\ pc = "sweep" /\ IdleReset
    /\ watermark' = -1
    /\ checkpoint' = [retired |-> -1, last |-> 0]
    /\ pc' = "reset"
    /\ UNCHANGED <<telegram, records, update, history>>

\* The files go one by one; where rmSync may fail, any of them may stay.
Delete(where, doomed) ==
    /\ pc = where
    /\ \E gone \in SUBSET doomed :
         /\ gone = doomed \/ where \in FailingDeletes
         /\ records' = [i \in Ids |-> IF i \in gone THEN NoRecord ELSE records[i]]
    /\ pc' = "decide"
    /\ UNCHANGED <<telegram, checkpoint, update, watermark, history>>

Retired == {i \in Recorded : i <= watermark}
DeleteRetired == Delete("retire", Retired)
DeleteAll == Delete("reset", Recorded)

\* (Broken: only the watermark is consulted.)
SeenByWatermark(i) == i <= watermark
Seen(i) == i <= watermark \/ i \in Recorded

Refuse ==
    /\ pc = "decide" /\ Seen(update.id)
    /\ pc' = "idle"
    /\ refused' = refused \cup ({update} \ claimed)
    /\ UNCHANGED <<telegram, checkpoint, records, update, watermark, claimed, runs>>

\* Files that could not be deleted fill the ledger: the webhook fails.
AtCapacity ==
    /\ pc = "decide" /\ ~Seen(update.id)
    /\ Cardinality(Recorded) + 1 > MaxRecords
    /\ pc' = "idle"
    /\ UNCHANGED <<telegram, checkpoint, records, update, watermark, history>>

Touched == [retired |-> watermark, last |-> now]

Touch ==
    /\ pc = "decide" /\ ~Seen(update.id)
    /\ Cardinality(Recorded) + 1 <= MaxRecords
    /\ checkpoint' = Touched
    /\ pc' = "record"
    /\ UNCHANGED <<telegram, records, update, watermark, history>>

Record ==
    /\ pc = "record"
    /\ records' = [records EXCEPT ![update.id] = now]
    /\ claimed' = claimed \cup {update}
    /\ pc' = "run"
    /\ UNCHANGED <<telegram, checkpoint, update, watermark, refused, runs>>

\* The claim returned true: the webhook starts the turn.
Run ==
    /\ pc = "run"
    /\ runs' = [runs EXCEPT ![update] = @ + 1]
    /\ pc' = "idle"
    /\ UNCHANGED <<telegram, checkpoint, records, update, watermark, claimed, refused>>

\* The process dies, or a delete is interrupted by its death.
Crash ==
    /\ pc # "idle"
    /\ pc' = "idle"
    /\ \E gone \in SUBSET (IF pc = "retire" THEN Retired
                           ELSE IF pc = "reset" THEN Recorded ELSE {}) :
         records' = [i \in Ids |-> IF i \in gone THEN NoRecord ELSE records[i]]
    /\ UNCHANGED <<telegram, checkpoint, update, watermark, history>>

Next ==
    \/ Tick \/ Restart
    \/ \E i \in Ids : Create(i)
    \/ \E u \in Updates : Deliver(u)
    \/ Sweep \/ ResetSequence \/ DeleteRetired \/ DeleteAll
    \/ Refuse \/ AtCapacity \/ Touch \/ Record \/ Run \/ Crash

Spec == Init /\ [][Next]_vars

-----------------------------------------------------------------------------
(* Properties                                                              *)

TypeOK ==
    /\ now \in Nat /\ gen \in 0..MaxGen
    /\ born \in [Updates -> Nat \cup {NoTime}]
    /\ checkpoint \in [retired : Ids \cup {-1}, last : Nat]
    /\ records \in [Ids -> Nat \cup {NoRecord}]
    /\ pc \in {"idle", "sweep", "retire", "reset", "decide", "record", "run"}
    /\ update \in Updates /\ watermark \in Ids \cup {-1}
    /\ claimed \subseteq Updates /\ refused \subseteq Updates
    /\ runs \in [Updates -> Nat]

\* However often Telegram repeats an update, and wherever the process dies
\* (between the watermark, the deletes and the claim), it starts one turn.
AtMostOnce == \A u \in Updates : runs[u] <= 1

\* As long as Telegram may repeat a claimed update, its claim file exists or
\* the checkpoint on disk covers its id.
ClaimsRemembered ==
    \A u \in claimed :
       now - born[u] <= MaxDelay => u.id \in Recorded \/ u.id <= checkpoint.retired

\* Sequence g starts within MaxDelay of the end of Telegram's idle week.  The ledger
\* counts its week from its last claim, which may be of an update repeated so much
\* later: it does not know of the restart yet, although the comment at lines 10-11
\* has it keep the watermark "only until that documented idle reset".
Hasty(g) ==
    \E v, w \in Born : /\ v.gen < g /\ w.gen = g
                       /\ born[w] - born[v] <= Week + MaxDelay

\* A watermark or a claim file of one sequence never swallows another's updates,
\* however claims, resets and deaths interleave; only a sequence that starts in the
\* last repeats of the one before may lose some.
NoSequenceSwallowed ==
    [][\A u \in refused' \ refused :
         Hasty(u.gen) \/ \E v \in claimed : v.gen = u.gen /\ v.id > u.id]_vars

\* Claim files that could not be deleted suppress exactly the updates they name:
\* "failed cleanup remains fail-closed by exact filename".
FailClosedByFilename ==
    [][\A u \in refused' \ refused :
         \E v \in claimed : \/ v.gen = u.gen /\ v.id > u.id
                            \/ v.gen # u.gen /\ v.id = u.id]_vars
=============================================================================
