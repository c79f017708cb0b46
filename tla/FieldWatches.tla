---------------------------- MODULE FieldWatches ----------------------------
(***************************************************************************)
(* A field watch: lib/browser-field-watches.mjs inside the watcher          *)
(* supervisor, scheduler/watchers.mjs and scheduler/watchers/.  The watch   *)
(* is one item of the collection the server keeps for its user, in memory   *)
(* and in watchers.json.  A tick of the supervisor takes a copy of every    *)
(* item, awaits pages and deliveries, and puts the copies back; the user,   *)
(* the browser that reads the page and the server's death come in between.  *)
(* An email goes out under its event's scope, as EmailDelivery guards it.   *)
(***************************************************************************)
EXTENDS Naturals, FiniteSets

CONSTANTS Hits,         \* the values the predicate asks for
          MaxValue,     \* bound: the page shows 1, 2, ... and no value twice
          MaxEvents,    \* bound: events made
          MaxFaults     \* bound: failed writes and deaths of the server

Values == 1..MaxValue
Odd == MaxValue + 1     \* never on the page, and misread once
Nothing == 0

ASSUME WatchAssumption ==
    /\ MaxValue \in Nat \ {0} /\ MaxEvents \in Nat /\ MaxFaults \in Nat
    /\ Hits \subseteq Values \cup {Odd}

VARIABLES by,           \* who reads the page and how the user is told: never changes
          page,         \* the value the page shows
          watch,        \* the item in memory
          stored,       \* the item in watchers.json
          reading,      \* what the browser has read and not yet reported
          tick,         \* the supervisor's tick of the collection
          mail,         \* mail[e]: the ledger of the scope of event e
          issued,       \* events made
          misread, faults,
          life,         \* history: how the watch came and went,
          told,         \*   told[v]: times the user was told of v,
          quiet,        \*   values that became the baseline without an event,
          last,         \*   the event told last,
          lost          \*   deaths that took the record of a telling along

watchVars == <<by, page, watch, stored, reading, tick, mail, issued,
               misread, faults, life, told, quiet, last, lost>>

NoEvent == [id |-> Nothing, value |-> Nothing]
NoCandidate == [value |-> Nothing, seen |-> 0]
Item(status, base) == [status |-> status, base |-> base, cand |-> NoCandidate,
                       pend |-> NoEvent, notified |-> Nothing]
Absent == Item("absent", Nothing)

NoTick == [pc |-> "idle", spec |-> Absent, dead |-> FALSE]
Ticking == tick.pc # "idle"

WatchInit ==
    /\ by \in [executor : {"server", "browser"}, channel : {"notify", "email"}]
    /\ page = 1 /\ watch = Absent /\ stored = Absent
    /\ reading = Nothing /\ tick = NoTick
    /\ mail = [e \in 1..MaxEvents |-> "none"] /\ issued = 0
    /\ misread = FALSE /\ faults = 0
    /\ life = "unborn" /\ told = [v \in Values \cup {Odd} |-> 0]
    /\ quiet = {} /\ last = Nothing /\ lost = 0

-----------------------------------------------------------------------------
(* Writes of watchers.json, which hold every item                          *)

Stores(item) == stored' = item /\ UNCHANGED faults
Fails == faults < MaxFaults /\ faults' = faults + 1

\* The caller does not mind a write that fails.
Persists(item) ==
    \/ Stores(item)
    \/ Fails /\ UNCHANGED stored

\* requirePersist: a change that cannot be written is taken back, and is no
\* step.  (Broken: it is kept and reported.)
KeepsAnyway(item) == watch' = item /\ Persists(item)
Keeps(item) == watch' = item /\ Stores(item)

\* Any change of another watcher writes this one too.
SaveAll ==
    /\ stored # watch /\ Stores(watch)
    /\ UNCHANGED <<by, page, watch, reading, tick, mail, issued, misread, life, told, quiet, last, lost>>

-----------------------------------------------------------------------------
(* applyBrowserFieldObservation, applyBrowserFieldFailure                  *)

FIELD_WATCH_CONFIRMATIONS == 2

\* How often the value has been seen in a row.  (Broken: or any other change.)
TimesSeenAny(spec, v) == spec.cand.seen + 1
TimesSeen(spec, v) == IF spec.cand.value = v THEN spec.cand.seen + 1 ELSE 1

Confirms(spec, v) ==
    /\ spec.base \notin {Nothing, v}
    /\ TimesSeen(spec, v) >= FIELD_WATCH_CONFIRMATIONS

\* A change makes an event unless one awaits its delivery.
Makes(spec, v) == Confirms(spec, v) /\ spec.pend = NoEvent /\ v \in Hits

Observed(spec, v) ==
    IF spec.base = Nothing \/ Confirms(spec, v)
    THEN [spec EXCEPT !.base = v, !.cand = NoCandidate,
                      !.pend = IF Makes(spec, v) THEN [id |-> issued + 1, value |-> v] ELSE @]
    ELSE [spec EXCEPT !.cand = IF v = spec.base THEN NoCandidate
                               ELSE [value |-> v, seen |-> TimesSeen(spec, v)]]

Takes(spec, v) ==
    /\ Makes(spec, v) => issued < MaxEvents
    /\ issued' = IF Makes(spec, v) THEN issued + 1 ELSE issued
    /\ quiet' = IF Observed(spec, v).base # spec.base /\ ~Makes(spec, v)
                THEN quiet \cup {v} ELSE quiet

\* url_blocked, redirect_out_of_scope, locator_not_found twice, or less.
Failed(spec) == {spec, [spec EXCEPT !.status = "blocked"]}

\* A page is read: its value, or once another.
Reads(v) ==
    \/ v = page /\ UNCHANGED misread
    \/ v = Odd /\ ~misread /\ misread' = TRUE

-----------------------------------------------------------------------------
(* The user                                                                *)

\* createBrowserFieldWatch, with the value the user was shown or without.
CreateWatch ==
    /\ life = "unborn"
    /\ \E base \in {Nothing, page} :
         /\ Keeps(Item("active", base))
         /\ quiet' = quiet \cup ({base} \ {Nothing})
    /\ life' = "alive"
    /\ UNCHANGED <<by, page, reading, tick, mail, issued, misread, told, last, lost>>

\* How it ended: for good, or with the copy of a tick still about.
Ended == IF Ticking THEN "overlapped" ELSE "ended"

\* revokeBrowserFieldWatch
Revoke ==
    /\ watch.status \notin {"absent", "revoked"}
    /\ Keeps([watch EXCEPT !.status = "revoked", !.cand = NoCandidate, !.pend = NoEvent])
    /\ life' = Ended
    /\ UNCHANGED <<by, page, reading, tick, mail, issued, misread, told, quiet, last, lost>>

\* removeCollectionItem, of the tool remove_watch_item.
RemoveWatch ==
    /\ watch.status # "absent"
    /\ watch' = Absent /\ Persists(Absent)
    /\ life' = IF stored' = Absent THEN Ended ELSE "unsaved"
    /\ UNCHANGED <<by, page, reading, tick, mail, issued, misread, told, quiet, last, lost>>

\* unregisterWatcher: the collection goes, and a tick of it is left without.
Stop ==
    /\ watch.status # "absent"
    /\ watch' = Absent /\ Persists(Absent)
    /\ tick' = IF Ticking THEN [tick EXCEPT !.dead = TRUE] ELSE tick
    /\ life' = IF stored' = Absent THEN "ended" ELSE "unsaved"
    /\ UNCHANGED <<by, page, reading, mail, issued, misread, told, quiet, last, lost>>

-----------------------------------------------------------------------------
(* The browser, for a watch whose executor it is                           *)

\* claimDueBrowserFieldChecks, and the read: one at a time.
Check ==
    /\ by.executor = "browser" /\ watch.status = "active" /\ reading = Nothing
    /\ \E v \in {page, Odd} : Reads(v) /\ reading' = v
    /\ Keeps(watch)
    /\ UNCHANGED <<by, page, tick, mail, issued, life, told, quiet, last, lost>>

\* recordBrowserFieldObservation
Accepts == watch.status \notin {"absent", "revoked"}
Report ==
    /\ reading # Nothing /\ Accepts
    /\ Takes(watch, reading) /\ Keeps(Observed(watch, reading))
    /\ reading' = Nothing
    /\ UNCHANGED <<by, page, tick, mail, misread, life, told, last, lost>>

\* recordBrowserFieldFailure, or a report that is refused or lost.
ReportNothing ==
    /\ reading # Nothing /\ reading' = Nothing
    /\ \/ UNCHANGED <<watch, stored, faults>>
       \/ Accepts /\ \E spec \in Failed(watch) : Keeps(spec)
    /\ UNCHANGED <<by, page, tick, mail, issued, misread, life, told, quiet, last, lost>>

-----------------------------------------------------------------------------
(* A tick of the collection: tickOne and browserFieldWatchHandler          *)

At(pc) == tick.pc = pc
Moves(pc, spec) == tick' = [tick EXCEPT !.pc = pc, !.spec = spec]

\* The page is read in the tick when the server reads it and it is due.
MayRead(pc) == pc = "mapped" \/ (pc = "read" /\ by.executor = "server")

StartTick ==
    /\ ~Ticking
    /\ \/ watch.status # "active" /\ Moves("mapped", watch)
       \/ watch.status = "active" /\ watch.pend # NoEvent /\ Moves("retell", watch)
       \/ /\ watch.status = "active" /\ watch.pend = NoEvent
          /\ \E pc \in {"read", "mapped"} : MayRead(pc) /\ Moves(pc, watch)
    /\ UNCHANGED <<by, page, watch, stored, reading, mail, issued, misread, faults, life, told, quiet, last, lost>>

\* checkServerBrowserFieldWatch; an event, old or new, is delivered next.
ReadPage ==
    /\ At("read")
    /\ \/ \E v \in {page, Odd} :
            /\ Reads(v) /\ Takes(tick.spec, v)
            /\ LET spec == Observed(tick.spec, v)
               IN Moves(IF spec.pend = NoEvent THEN "mapped" ELSE "tell", spec)
       \/ /\ \E spec \in Failed(tick.spec) : Moves("mapped", spec)
          /\ UNCHANGED <<issued, misread, quiet>>
    /\ UNCHANGED <<by, page, watch, stored, reading, mail, faults, life, told, last, lost>>

\* deliverBrowserFieldWatchEvent: whether the user gets it, and whether the
\* caller learns so.
Gets(event) ==
    /\ told' = [told EXCEPT ![event.value] = @ + 1]
    /\ last' = event.id
GetsNot == UNCHANGED <<told, last>>

Notify(event, ok) ==
    /\ UNCHANGED mail
    /\ IF ok THEN Gets(event) ELSE GetsNot

\* sendEmailToUser, as EmailDelivery leaves it for one scope: a call that was
\* refused before the provider had it leaves nothing behind.
Email(event, ok) ==
    \/ /\ mail[event.id] = "none"
       /\ \/ ok /\ Gets(event) /\ mail' = [mail EXCEPT ![event.id] = "sent"]
          \/ ~ok /\ (Gets(event) \/ GetsNot) /\ mail' = [mail EXCEPT ![event.id] = "unsure"]
          \/ ~ok /\ GetsNot /\ UNCHANGED mail
    \/ /\ mail[event.id] # "none" /\ ok = (mail[event.id] = "sent")
       /\ GetsNot /\ UNCHANGED mail

\* Only an event that was delivered is cleared.  (Broken: that was tried.)
Acknowledged(spec) == [spec EXCEPT !.pend = NoEvent, !.notified = spec.pend.id]
ClearedAnyway(spec, ok) == Acknowledged(spec)
Cleared(spec, ok) == IF ok THEN Acknowledged(spec) ELSE spec
Tell ==
    /\ \/ At("retell") \/ At("tell")
    /\ \E ok \in BOOLEAN, pc \in {"read", "mapped"} :
         /\ MayRead(pc) /\ (At("tell") => pc = "mapped")
         /\ IF by.channel = "notify" THEN Notify(tick.spec.pend, ok) ELSE Email(tick.spec.pend, ok)
         /\ Moves(pc, Cleared(tick.spec, ok))
    /\ UNCHANGED <<by, page, watch, stored, reading, issued, misread, faults, life, quiet, lost>>

\* record.state = result.newState, if the collection is still there.
Commit ==
    /\ At("mapped")
    /\ tick' = NoTick
    /\ \/ tick.dead /\ UNCHANGED <<watch, stored, faults>>
       \/ ~tick.dead /\ watch' = tick.spec /\ Persists(tick.spec)
    /\ UNCHANGED <<by, page, reading, mail, issued, misread, life, told, quiet, last, lost>>

-----------------------------------------------------------------------------
PageChanges ==
    /\ page < MaxValue /\ page' = page + 1
    /\ UNCHANGED <<by, watch, stored, reading, tick, mail, issued, misread, faults, life, told, quiet, last, lost>>

\* The server dies and starts again: it reads watchers.json.
Die ==
    /\ Fails
    /\ watch' = stored /\ tick' = NoTick /\ reading' = Nothing
    /\ last' = stored.notified
    /\ lost' = lost + (IF last = stored.notified THEN 0 ELSE 1)
    /\ UNCHANGED <<by, page, stored, mail, issued, misread, life, told, quiet>>

WatchNext ==
    \/ CreateWatch \/ Revoke \/ RemoveWatch \/ Stop
    \/ Check \/ Report \/ ReportNothing
    \/ StartTick \/ ReadPage \/ Tell \/ Commit
    \/ SaveAll \/ PageChanges \/ Die

WatchSpec == WatchInit /\ [][WatchNext]_watchVars

-----------------------------------------------------------------------------
WatchTypeOK ==
    LET item == [status : {"absent", "active", "blocked", "revoked"},
                 base : 0..Odd, cand : [value : 0..Odd, seen : 0..1],
                 pend : [id : 0..MaxEvents, value : 0..Odd], notified : 0..MaxEvents]
    IN  /\ page \in Values /\ watch \in item /\ stored \in item /\ reading \in 0..Odd
        /\ tick \in [pc : {"idle", "retell", "read", "tell", "mapped"}, spec : item, dead : BOOLEAN]
        /\ mail \in [1..MaxEvents -> {"none", "sent", "unsure"}] /\ issued \in 0..MaxEvents
        /\ misread \in BOOLEAN /\ faults \in 0..MaxFaults
        /\ life \in {"unborn", "alive", "unsaved", "overlapped", "ended"}
        /\ told \in [Values \cup {Odd} -> Nat] /\ quiet \subseteq Values \cup {Odd}
        /\ last \in 0..MaxEvents /\ lost \in 0..MaxFaults

\* A watch that the user stopped, or revoked or removed while no tick was in
\* flight, does not come back, whatever dies: its end was written, or not
\* reported (RemoveWatch and Stop report it anyway: "unsaved").
StaysEnded ==
    life = "ended" =>
        /\ {watch.status, stored.status} \subseteq {"absent", "revoked"}
        /\ tick.spec.status \notin {"absent", "revoked"} => tick.dead

\* A change the browser found is emailed once at most, whatever dies; the user
\* is told again of another only if a death took the record of the first; and a
\* value that was misread once is never told.
ToldRightly ==
    /\ told[Odd] = 0
    /\ \A v \in Values : told[v] <= 1 + IF by = [executor |-> "browser", channel |-> "email"]
                                       THEN 0 ELSE lost

\* A change the user asked for enters the baseline with its event, which stays
\* until it is delivered, or while an older one waits.
NothingMissed ==
    /\ watch.status \in {"active", "blocked"} /\ watch.pend = NoEvent
    /\ watch.base \in Hits \ quiet
    => told[watch.base] > 0
=============================================================================
