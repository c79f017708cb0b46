----------------------- MODULE TelegramUpdatesProofs -----------------------
(***************************************************************************)
(* An update of Telegram starts at most one turn: for any ids, sequences,   *)
(* times and retention, as long as Telegram does not repeat an update for   *)
(* longer than the ledger remembers a claim.  And what the server sends is   *)
(* delivered at most once per scope: TelegramDelivery implements Delivery.   *)
(* No watermark of one id sequence swallows the updates of another, unless    *)
(* it starts in the last repeats of the one before.  And a field watch that  *)
(* the user ended stays ended, misses no change and tells of none that did   *)
(* not happen.                                                               *)
(***************************************************************************)
EXTENDS TelegramUpdates, TelegramDelivery, FieldWatches, WellFoundedInduction, TLAPS

\* The claims that Telegram may still ask about.
Recent == {u \in claimed : now - born[u] <= MaxDelay}

Typed ==
    /\ now \in Nat /\ now >= 1 /\ gen \in 0..MaxGen
    /\ born \in [Updates -> Nat \cup {NoTime}]
    /\ checkpoint.retired \in Ids \cup {-1} /\ watermark \in Ids \cup {-1}
    /\ records \in [Ids -> Nat \cup {NoRecord}]
    /\ pc \in {"idle", "sweep", "retire", "reset", "decide", "record", "run"}
    /\ update \in Updates /\ claimed \subseteq Updates
    /\ runs \in [Updates -> Nat]

\* A claim is remembered by its file or by the watermark, and the checkpoint knows
\* that the sequence was alive when it was made.
Remembered ==
    \A u \in Recent :
        /\ u.id \in Recorded \/ u.id <= checkpoint.retired
        /\ checkpoint.last \in Nat /\ checkpoint.last >= 1 /\ checkpoint.last >= born[u]

\* Only updates that exist are claimed, and a claim in progress is about one that
\* Telegram may still repeat.
Known ==
    /\ \A u \in Born : born[u] <= now
    /\ claimed \subseteq Born
    /\ pc # "idle" => update \in Born /\ now - born[update] <= MaxDelay

\* What the process holds in memory agrees with the checkpoint it has written.
InStep ==
    /\ pc \in {"retire", "reset", "decide", "record", "run"} => watermark = checkpoint.retired
    /\ pc = "reset" => Recent = {}
    /\ pc = "record" => update \notin claimed /\ checkpoint.last = now
    /\ pc = "run" => update \in claimed /\ runs[update] = 0

\* A turn was started for a claim.
OnePerClaim == \A u \in Updates : runs[u] = 0 \/ (runs[u] = 1 /\ u \in claimed)

LedgerInv == Typed /\ Remembered /\ Known /\ InStep /\ OnePerClaim

-----------------------------------------------------------------------------
LEMMA Bounds ==
  /\ MaxId \in Nat /\ MaxGen \in Nat /\ Week \in Nat /\ MaxDelay \in Nat
  /\ MaxDelay <= Week
  /\ Ids \subseteq Nat /\ \A i \in Ids \cup {-1} : i \in Int
  /\ \A u \in Updates : u.id \in Ids /\ u.gen \in 0..MaxGen
BY BoundsAssumption, TimesAssumption DEF Ids, Updates

LEMMA InitInv == Init => LedgerInv
<1> SUFFICES ASSUME Init PROVE LedgerInv
  OBVIOUS
<1> USE Bounds DEF Init, NoTime, NoRecord
<1>1. [gen |-> 0, id |-> 0] \in Updates
  BY BoundsAssumption DEF Updates, Ids
<1>2. Typed
  BY <1>1 DEF Typed
<1>3. QED
  BY <1>2 DEF LedgerInv, Remembered, Recent, Known, Born, InStep, OnePerClaim

\* What Telegram does while no claim is in progress: an old claim becomes older, a
\* new update was never claimed.
LEMMA TelegramStep ==
  ASSUME LedgerInv, Tick \/ Restart \/ \E i \in Ids : Create(i)
  PROVE  LedgerInv'
<1> USE Bounds DEF LedgerInv, claim, history
<1>1. CASE Tick
  <2>1. now' = now + 1 /\ pc' = "idle"
    BY <1>1 DEF Tick
  <2>2. Recent' \subseteq Recent
    BY <1>1, <2>1 DEF Tick, Recent, Known, Typed, Born, NoTime
  <2>3. Remembered'
    BY <1>1, <2>2 DEF Tick, Remembered, Recorded
  <2>4. Known'
    BY <1>1, <2>1 DEF Tick, Known, Typed, Born, NoTime
  <2>5. QED
    BY <1>1, <2>1, <2>3, <2>4 DEF Tick, Typed, InStep, OnePerClaim
<1>2. CASE Restart
  <2>1. gen' \in 0..MaxGen
    BY <1>2 DEF Restart, Typed
  <2>2. QED
    BY <1>2, <2>1 DEF Restart, Typed, Remembered, Recent, Recorded, Known, Born, InStep, OnePerClaim
<1>3. ASSUME NEW i \in Ids, Create(i) PROVE LedgerInv'
  <2> DEFINE new == [gen |-> gen, id |-> i]
  <2>1. new \in Updates
    BY DEF Updates, Typed
  <2>2. new \notin Born
    BY <1>3, <2>1 DEF Create, Current
  <2>3. born' = [born EXCEPT ![new] = now]
    BY <1>3 DEF Create
  <2>4. UNCHANGED <<now, gen, checkpoint, records, pc, update, watermark, claimed, refused, runs>>
    BY <1>3 DEF Create
  <2> HIDE DEF new
  <2>5. \A u \in Updates : u # new => born'[u] = born[u]
    BY <2>1, <2>3 DEF Typed
  <2>6. born'[new] = now /\ new \in Born'
    BY <2>1, <2>3 DEF Typed, Born, NoTime
  <2>7. \A u \in claimed : u # new
    BY <2>2 DEF Known
  <2>8. pc # "idle" => update # new
    BY <2>2 DEF Known
  <2>9. Recent' = Recent
    BY <2>4, <2>5, <2>7 DEF Recent, Typed
  <2>10. Known'
    BY <2>4, <2>5, <2>6, <2>7, <2>8 DEF Known, Born, Typed
  <2>11. Remembered'
    BY <2>4, <2>5, <2>7, <2>9 DEF Remembered, Recent, Recorded, Typed
  <2>12. Typed'
    BY <2>1, <2>3, <2>4 DEF Typed
  <2>13. QED
    BY <2>4, <2>9, <2>10, <2>11, <2>12 DEF InStep, OnePerClaim
<1>4. QED
  BY <1>1, <1>2, <1>3

LEMMA DeliverStep ==
  ASSUME LedgerInv, NEW u \in Updates, Deliver(u)
  PROVE  LedgerInv'
<1> USE Bounds DEF LedgerInv, Deliver, telegram, history
<1>1. Known'
  BY DEF Known, Born, Typed
<1>2. QED
  BY <1>1 DEF Typed, Remembered, Recent, Recorded, InStep, OnePerClaim

\* The checkpoint's watermark never falls in a sweep.
LEMMA SweepStep == LedgerInv /\ Sweep => LedgerInv'
<1> SUFFICES ASSUME LedgerInv, Sweep PROVE LedgerInv'
  OBVIOUS
<1> USE Bounds DEF LedgerInv, telegram, history
<1>1. PICK scan \in BOOLEAN, aged \in Ids \cup {-1} :
        /\ IsMax(aged, {checkpoint.retired} \cup Expired(scan))
        /\ watermark' \in Ids \cup {-1} /\ IsMax(watermark', {aged} \cup Overflow(aged))
  BY DEF Sweep
<1>2. checkpoint.retired <= watermark' /\ watermark' \in Int /\ checkpoint.retired \in Int
  <2>1. checkpoint.retired <= aged /\ aged <= watermark'
    BY <1>1 DEF IsMax
  <2>2. checkpoint.retired \in Int /\ aged \in Int /\ watermark' \in Int
    BY <1>1 DEF Typed
  <2>3. QED
    BY <2>1, <2>2
<1>3. checkpoint'.retired = watermark'
  BY <1>2 DEF Sweep
<1>4. Recent # {} => checkpoint'.last = checkpoint.last
  BY DEF Sweep, Remembered, LastActivity
<1>5. Remembered'
  <2>1. Recent' = Recent /\ Recorded' = Recorded
    BY DEF Sweep, Recent, Recorded
  <2>2. ASSUME NEW u \in Recent PROVE u.id <= checkpoint.retired => u.id <= checkpoint'.retired
    <3>1. u.id \in Int
      BY DEF Recent, Typed
    <3>2. QED
      BY <1>2, <1>3, <3>1
  <2>3. QED
    BY <1>4, <2>1, <2>2 DEF Sweep, Remembered, Recent
<1>6. QED
  BY <1>1, <1>3, <1>5 DEF Sweep, Typed, Known, Born, InStep, OnePerClaim

\* After an idle week there is no claim left that Telegram may ask about.
LEMMA ResetStep == LedgerInv /\ ResetSequence => LedgerInv'
<1> SUFFICES ASSUME LedgerInv, ResetSequence PROVE LedgerInv'
  OBVIOUS
<1> USE Bounds DEF LedgerInv, telegram, history
<1>1. Recent = {}
  <2> SUFFICES ASSUME NEW u \in Recent PROVE FALSE
    OBVIOUS
  <2>1. checkpoint.last \in Nat /\ checkpoint.last >= born[u] /\ LastActivity = checkpoint.last
    BY DEF Remembered, LastActivity
  <2>2. now - checkpoint.last > Week
    BY <2>1 DEF ResetSequence, IdleReset
  <2>3. now - born[u] <= MaxDelay /\ born[u] \in Int /\ now \in Nat
    BY DEF Recent, Typed, NoTime
  <2>4. QED
    BY <2>1, <2>2, <2>3
<1>2. Recent' = {}
  BY <1>1 DEF ResetSequence, Recent
<1>3. QED
  BY <1>2 DEF ResetSequence, Typed, Remembered, Known, Born, InStep, OnePerClaim

\* Files whose ids the checkpoint covers, or that nobody asks about, may go.
LEMMA DeletionStep ==
  ASSUME LedgerInv, NEW gone \in SUBSET Ids,
         (\A i \in gone : i <= checkpoint.retired) \/ Recent = {},
         records' = [i \in Ids |-> IF i \in gone THEN NoRecord ELSE records[i]],
         UNCHANGED <<telegram, checkpoint, update, watermark, history>>,
         pc' = "idle" \/ (pc' = "decide" /\ pc \in {"retire", "reset"})
  PROVE  LedgerInv'
<1> USE Bounds DEF LedgerInv, telegram, history
<1>1. Recent' = Recent
  BY DEF Recent
<1>2. \A i \in Recorded : i \in gone \/ i \in Recorded'
  BY DEF Recorded, Typed
<1>3. Remembered'
  BY <1>1, <1>2 DEF Remembered, Recent, Typed
<1>4. records' \in [Ids -> Nat \cup {NoRecord}]
  BY DEF Typed
<1>5. QED
  BY <1>1, <1>3, <1>4 DEF Typed, Known, Born, InStep, OnePerClaim

LEMMA DeleteStep == LedgerInv /\ (DeleteRetired \/ DeleteAll \/ Crash) => LedgerInv'
<1> SUFFICES ASSUME LedgerInv PROVE DeleteRetired \/ DeleteAll \/ Crash => LedgerInv'
  OBVIOUS
<1>1. Recorded \subseteq Ids /\ Retired \subseteq Ids
  BY DEF Recorded, Retired
<1>2. CASE DeleteRetired
  <2>1. PICK gone \in SUBSET Retired :
          records' = [i \in Ids |-> IF i \in gone THEN NoRecord ELSE records[i]]
    BY <1>2 DEF DeleteRetired, Delete
  <2>2. \A i \in gone : i <= checkpoint.retired
    BY <1>2 DEF DeleteRetired, Delete, Retired, LedgerInv, InStep
  <2>3. QED
    BY <1>1, <1>2, <2>1, <2>2, DeletionStep DEF DeleteRetired, Delete
<1>3. CASE DeleteAll
  <2>1. PICK gone \in SUBSET Recorded :
          records' = [i \in Ids |-> IF i \in gone THEN NoRecord ELSE records[i]]
    BY <1>3 DEF DeleteAll, Delete
  <2>2. Recent = {}
    BY <1>3 DEF DeleteAll, Delete, LedgerInv, InStep
  <2>3. QED
    BY <1>1, <1>3, <2>1, <2>2, DeletionStep DEF DeleteAll, Delete
<1>4. CASE Crash
  <2>1. PICK gone \in SUBSET (IF pc = "retire" THEN Retired ELSE IF pc = "reset" THEN Recorded ELSE {}) :
          records' = [i \in Ids |-> IF i \in gone THEN NoRecord ELSE records[i]]
    BY <1>4 DEF Crash
  <2>2. gone \in SUBSET Ids /\ ((\A i \in gone : i <= checkpoint.retired) \/ Recent = {})
    BY <1>1, <2>1 DEF Retired, LedgerInv, InStep
  <2>3. QED
    BY <1>4, <2>1, <2>2, DeletionStep DEF Crash
<1>5. QED
  BY <1>2, <1>3, <1>4

LEMMA RefusalStep == LedgerInv /\ (Refuse \/ AtCapacity) => LedgerInv'
<1> SUFFICES ASSUME LedgerInv, Refuse \/ AtCapacity PROVE LedgerInv'
  OBVIOUS
<1>1. UNCHANGED <<now, gen, born, checkpoint, records, update, watermark, claimed, runs>> /\ pc' = "idle"
  BY DEF Refuse, AtCapacity, telegram, history
<1>2. QED
  BY <1>1 DEF LedgerInv, Typed, Remembered, Recent, Recorded, Known, Born, InStep, OnePerClaim

\* An update that is not seen was not claimed.
LEMMA TouchStep == LedgerInv /\ Touch => LedgerInv'
<1> SUFFICES ASSUME LedgerInv, Touch PROVE LedgerInv'
  OBVIOUS
<1> USE Bounds DEF LedgerInv, Touch, Touched, telegram, history
<1>1. checkpoint'.retired = checkpoint.retired /\ checkpoint'.last = now
  BY DEF InStep
<1>2. update \notin claimed
  BY DEF Seen, InStep, Known, Remembered, Recent
<1>3. \A u \in Recent : born[u] <= now
  BY DEF Recent, Known
<1>4. Remembered'
  BY <1>1, <1>3 DEF Remembered, Recent, Recorded, Typed
<1>5. QED
  BY <1>1, <1>2, <1>4 DEF Typed, Known, Born, InStep, OnePerClaim

LEMMA RecordStep == LedgerInv /\ Record => LedgerInv'
<1> SUFFICES ASSUME LedgerInv, Record PROVE LedgerInv'
  OBVIOUS
<1> USE Bounds DEF LedgerInv, Record, telegram
<1>1. update.id \in Ids /\ update \in Updates
  BY DEF Typed
<1>2. records' \in [Ids -> Nat \cup {NoRecord}] /\ Recorded \subseteq Recorded' /\ update.id \in Recorded'
  BY <1>1 DEF Typed, Recorded, NoRecord
<1>3. Recent' \subseteq Recent \cup {update}
  BY DEF Recent
<1>4. Remembered'
  BY <1>2, <1>3 DEF Remembered, InStep, Known, Typed
<1>5. runs[update] = 0
  BY <1>1 DEF InStep, OnePerClaim
<1>6. QED
  BY <1>1, <1>2, <1>4, <1>5 DEF Typed, Known, Born, InStep, OnePerClaim

LEMMA RunStep == LedgerInv /\ Run => LedgerInv'
<1> SUFFICES ASSUME LedgerInv, Run PROVE LedgerInv'
  OBVIOUS
<1> USE Bounds DEF LedgerInv, Run, telegram
<1>1. runs' \in [Updates -> Nat] /\ OnePerClaim'
  BY DEF Typed, InStep, OnePerClaim
<1>2. QED
  BY <1>1 DEF Typed, Remembered, Recent, Recorded, Known, Born, InStep

LEMMA InvStep == LedgerInv /\ [Next]_vars => LedgerInv'
<1> SUFFICES ASSUME LedgerInv, [Next]_vars PROVE LedgerInv'
  OBVIOUS
<1>1. CASE UNCHANGED vars
  BY <1>1 DEF vars, telegram, claim, history, LedgerInv, Typed, Remembered, Recent, Recorded, Known,
              Born, InStep, OnePerClaim
<1>2. QED
  BY <1>1, TelegramStep, DeliverStep, SweepStep, ResetStep, DeleteStep, RefusalStep, TouchStep,
     RecordStep, RunStep DEF Next

-----------------------------------------------------------------------------
\* However often an update is delivered, and wherever the process dies, it starts
\* at most one turn (claimTelegramUpdate).
THEOREM OneTurn == Spec => []AtMostOnce
<1>1. LedgerInv => AtMostOnce
  BY DEF LedgerInv, OnePerClaim, AtMostOnce
<1>2. QED
  BY <1>1, InitInv, InvStep, PTL DEF Spec

\* As long as Telegram may repeat a claimed update, its claim file exists or the
\* checkpoint on disk covers its id (the order of the writes in sweep).
THEOREM NoClaimForgotten == Spec => []ClaimsRemembered
<1>1. LedgerInv => ClaimsRemembered
  BY DEF LedgerInv, Remembered, Recent, ClaimsRemembered
<1>2. QED
  BY <1>1, InitInv, InvStep, PTL DEF Spec

-----------------------------------------------------------------------------
(* Types.                                                                  *)

\* A non-empty set of times up to now has a latest one.
LEMMA Latest ==
  ASSUME NEW n \in Nat, NEW K, K \subseteq 0..n, K # {}
  PROVE  \E j \in K : IsMax(j, K)
<1> DEFINE R == OpToRel(<, Nat)
<1>1. R = {pair \in Nat \X Nat : pair[1] < pair[2]}
  BY Zenon DEF OpToRel
<1>2. IsWellFoundedOn(R, Nat)
  BY NatLessThanWellFounded DEF R
<1> HIDE DEF R
<1> DEFINE T == {n - k : k \in K}
<1>3. T \subseteq Nat /\ T # {}
  <2>1. ASSUME NEW k \in K PROVE n - k \in Nat
    OBVIOUS
  <2>2. QED
    BY <2>1
<1>4. \E x \in T : \A y \in T : ~(<<y, x>> \in R)
  <2> HIDE DEF T
  <2>1. QED
    BY <1>2, <1>3, WFMin
<1>5. PICK j \in K : \A i \in K : ~(<<n - i, n - j>> \in R)
  BY <1>4
<1>6. ASSUME NEW i \in K PROVE i <= j
  <2>1. i \in Nat /\ i <= n /\ j \in Nat /\ j <= n
    OBVIOUS
  <2>2. n - i \in Nat /\ n - j \in Nat
    BY <2>1
  <2>3. ~(n - i < n - j)
    BY <1>1, <1>5, <2>2
  <2>4. QED
    BY <2>1, <2>3
<1>7. QED
  BY <1>6 DEF IsMax

\* What the ledger keeps is dated, and not later than now.
Dated ==
    /\ checkpoint \in [retired : Ids \cup {-1}, last : Nat] /\ refused \subseteq Updates
    /\ \A i \in Recorded : records[i] \in 0..now

LEMMA LastActivityDated == LedgerInv /\ Dated => LastActivity \in Nat
<1> SUFFICES ASSUME LedgerInv, Dated PROVE LastActivity \in Nat
  OBVIOUS
<1> DEFINE times == {records[i] : i \in Recorded}
<1>1. CASE checkpoint.last = 0 /\ Recorded # {}
  <2>1. times \subseteq 0..now /\ times # {} /\ now \in Nat
    BY <1>1 DEF Dated, LedgerInv, Typed
  <2> HIDE DEF times
  <2>2. \E t \in times : IsMax(t, times)
    BY <2>1, Latest
  <2>3. (CHOOSE t \in times : IsMax(t, times)) \in times
    BY <2>2
  <2>4. LastActivity = CHOOSE t \in times : IsMax(t, times)
    BY <1>1 DEF LastActivity, times
  <2>5. LastActivity \in times
    BY <2>3, <2>4, Zenon
  <2> QED BY <2>1, <2>5
<1>2. CASE ~(checkpoint.last = 0 /\ Recorded # {})
  BY <1>2 DEF LastActivity, Dated
<1> QED BY <1>1, <1>2

LEMMA DatedStep == LedgerInv /\ Dated /\ [Next]_vars => Dated'
<1> SUFFICES ASSUME LedgerInv, Dated, [Next]_vars PROVE Dated'
  OBVIOUS
<1> USE Bounds DEF LedgerInv, Typed, telegram, claim, history
<1>1. CASE Tick
  BY <1>1 DEF Tick, Dated, Recorded
<1>2. CASE Restart \/ (\E i \in Ids : Create(i)) \/ (\E u \in Updates : Deliver(u))
           \/ AtCapacity \/ Run \/ UNCHANGED vars
  BY <1>2 DEF Restart, Create, Deliver, AtCapacity, Run, vars, Dated, Recorded
<1>3. CASE Sweep
  BY <1>3, LastActivityDated DEF Sweep, Dated, Recorded
<1>4. CASE ResetSequence
  BY <1>4 DEF ResetSequence, Dated, Recorded
<1>5. CASE DeleteRetired \/ DeleteAll \/ Crash
  BY <1>5 DEF DeleteRetired, DeleteAll, Delete, Crash, Dated, Recorded
<1>6. CASE Refuse
  BY <1>6 DEF Refuse, Dated, Recorded
<1>7. CASE Touch
  BY <1>7 DEF Touch, Touched, Dated, Recorded
<1>8. CASE Record
  BY <1>8 DEF Record, Dated, Recorded
<1> QED BY <1>1, <1>2, <1>3, <1>4, <1>5, <1>6, <1>7, <1>8 DEF Next

\* The types of the ledger, for any bounds.
THEOREM TypeCorrect == Spec => []TypeOK
<1>1. LedgerInv /\ Dated => TypeOK
  BY Bounds DEF LedgerInv, Typed, Dated, TypeOK
<1>2. Init => Dated
  BY Bounds DEF Init, Dated, Recorded, NoRecord
<1>3. QED
  BY <1>1, <1>2, InitInv, InvStep, DatedStep, PTL DEF Spec

-----------------------------------------------------------------------------
(* A watermark belongs to one sequence                                       *)

\* What the ledger holds was claimed in the current sequence.
OfGen(g) ==
    /\ \A i \in Recorded : [gen |-> g, id |-> i] \in claimed
    /\ checkpoint.retired # -1 => [gen |-> g, id |-> checkpoint.retired] \in claimed

\* It is so old that the next claim finds an idle week behind it.
Due ==
    /\ \A i \in Recorded : now - records[i] > Week
    /\ checkpoint.last = 0 \/ now - checkpoint.last > Week

\* Its times are those of claims, a delay after their updates at most.
Timely(t) == \E w \in Born : t <= born[w] + MaxDelay
Bounded ==
    /\ \A i \in Recorded : records[i] >= 1 /\ Timely(records[i])
    /\ IF checkpoint.last = 0 THEN checkpoint.retired = -1 ELSE Timely(checkpoint.last)

\* Telegram has one sequence at a time, and repeats nothing of an older one.
Sequential == \A u \in Born : u.gen <= gen /\ (u.gen < gen => now - born[u] > RestartIdle)

\* The current sequence has begun, and not in the last repeats of an older one.
Clean == Current # {} /\ ~Hasty(gen)

SeqInv ==
    /\ LedgerInv /\ Dated /\ Bounded /\ Sequential
    /\ Clean => OfGen(gen) \/ Due
    /\ Clean /\ pc \in {"retire", "decide", "record"} => OfGen(gen)
    /\ pc = "reset" => checkpoint.retired = -1 /\ checkpoint.last = 0

LEMMA SeqTypes ==
  ASSUME SeqInv
  PROVE  /\ now \in Nat /\ gen \in Nat /\ checkpoint.last \in Nat
         /\ \A i \in Recorded : records[i] \in Nat /\ records[i] <= now
         /\ \A u \in Born : born[u] \in Nat /\ u.gen \in Nat /\ u \in Updates
         /\ Week \in Nat /\ MaxDelay \in Nat /\ RestartIdle \in Nat
         /\ born \in [Updates -> Nat \cup {NoTime}]
<1>1. now \in Nat /\ gen \in Nat /\ born \in [Updates -> Nat \cup {NoTime}]
  BY Bounds DEF SeqInv, LedgerInv, Typed
<1>2. checkpoint.last \in Nat /\ \A i \in Recorded : records[i] \in Nat /\ records[i] <= now
  BY <1>1 DEF SeqInv, Dated
<1>3. ASSUME NEW u \in Born PROVE born[u] \in Nat /\ u.gen \in Nat /\ u \in Updates
  <2>1. u \in Updates /\ born[u] # NoTime
    BY DEF Born
  <2>2. u.gen \in Nat
    BY <2>1, Bounds DEF Updates
  <2>3. QED
    BY <1>1, <2>1, <2>2
<1>4. Week \in Nat /\ MaxDelay \in Nat /\ RestartIdle \in Nat
  BY BoundsAssumption
<1>5. QED
  BY <1>1, <1>2, <1>3, <1>4

\* Of recorded claims that are all over a week old, the activity is that old.
LEMMA DueIsIdle == SeqInv /\ Due /\ pc = "sweep" => IdleReset \/ (Recorded = {} /\ checkpoint.retired = -1)
<1> SUFFICES ASSUME SeqInv, Due PROVE IdleReset \/ (Recorded = {} /\ checkpoint.retired = -1)
  OBVIOUS
<1>0. now \in Nat /\ checkpoint.last \in Nat /\ Recorded \subseteq Ids
  BY DEF SeqInv, LedgerInv, Typed, Dated, Recorded
<1>1. CASE checkpoint.last # 0
  BY <1>0, <1>1 DEF Due, IdleReset, LastActivity
<1>2. CASE checkpoint.last = 0 /\ Recorded = {}
  BY <1>2 DEF SeqInv, Bounded
<1>3. CASE checkpoint.last = 0 /\ Recorded # {}
  <2>1. \E i \in Recorded : LastActivity = records[i]
    <3> DEFINE times == {records[i] : i \in Recorded}
    <3>1. times \subseteq 0..now /\ times # {} /\ now \in Nat
      BY <1>0, <1>3 DEF SeqInv, Dated
    <3> HIDE DEF times
    <3>2. \E t \in times : IsMax(t, times)
      BY <3>1, Latest
    <3>3. (CHOOSE t \in times : IsMax(t, times)) \in times
      BY <3>2
    <3>4. LastActivity = CHOOSE t \in times : IsMax(t, times)
      BY <1>3 DEF LastActivity, times
    <3>5. LastActivity \in times
      BY <3>3, <3>4, Zenon
    <3>6. QED
      BY <3>5 DEF times
  <2>2. PICK i \in Recorded : LastActivity = records[i]
    BY <2>1
  <2>3. records[i] \in Nat /\ records[i] >= 1 /\ now - records[i] > Week
    BY <1>0 DEF SeqInv, Dated, Bounded, Due
  <2>4. QED
    BY <2>2, <2>3 DEF IdleReset
<1>4. QED
  BY <1>1, <1>2, <1>3

\* A claim belongs to the current sequence while it is made.
LEMMA UpdateIsCurrent == SeqInv /\ pc # "idle" => update.gen = gen /\ update = [gen |-> gen, id |-> update.id]
<1> SUFFICES ASSUME SeqInv, pc # "idle" PROVE update.gen = gen /\ update = [gen |-> gen, id |-> update.id]
  OBVIOUS
<1>1. update \in Born /\ now - born[update] <= MaxDelay /\ update \in Updates
  BY DEF SeqInv, LedgerInv, Known, Typed
<1>2. born[update] \in Nat /\ now \in Nat /\ gen \in Nat /\ update.gen \in Nat
  BY <1>1, SeqTypes
<1>3. update.gen <= gen /\ (update.gen < gen => now - born[update] > RestartIdle)
  BY <1>1 DEF SeqInv, Sequential
<1>4. update.gen = gen
  BY <1>1, <1>2, <1>3, TimesAssumption, BoundsAssumption
<1>5. QED
  BY <1>1, <1>4 DEF Updates

LEMMA SeqTelegram ==
  ASSUME SeqInv, LedgerInv', Dated',
         Tick \/ Restart \/ \E i \in Ids : Create(i)
  PROVE  SeqInv'
<1>0. /\ now \in Nat /\ gen \in Nat /\ checkpoint.last \in Nat
      /\ \A i \in Recorded : records[i] \in Nat /\ records[i] <= now
      /\ \A u \in Born : born[u] \in Nat /\ u.gen \in Nat /\ u \in Updates
      /\ Week \in Nat /\ MaxDelay \in Nat /\ RestartIdle \in Nat
      /\ born \in [Updates -> Nat \cup {NoTime}]
  BY SeqTypes
<1>1. UNCHANGED <<checkpoint, records, pc, update, watermark, claimed, refused, runs>> /\ Recorded' = Recorded
  BY DEF Tick, Restart, Create, claim, history, Recorded
<1>2. \A w \in Born : w \in Born' /\ born'[w] = born[w]
  <2>1. CASE Tick \/ Restart
    BY <2>1 DEF Tick, Restart, Born
  <2>2. ASSUME NEW i \in Ids, Create(i) PROVE \A w \in Born : w \in Born' /\ born'[w] = born[w]
    <3>1. [gen |-> gen, id |-> i] \in Updates
      BY DEF SeqInv, LedgerInv, Typed, Updates
    <3>2. [gen |-> gen, id |-> i] \notin Born
      <4>1. ASSUME [gen |-> gen, id |-> i] \in Born PROVE FALSE
        <5>1. [gen |-> gen, id |-> i] \in Current
          BY <4>1 DEF Current
        <5>2. i < i /\ i \in Nat
          BY <2>2, <5>1, Bounds DEF Create
        <5>3. QED
          BY <5>2
      <4>2. QED
        BY <4>1
    <3>3. QED
      BY <1>0, <2>2, <3>1, <3>2 DEF Create, Born
  <2>3. QED
    BY <2>1, <2>2
<1>3. \A t : Timely(t) => Timely(t)'
  BY <1>2 DEF Timely
<1>4. Bounded'
  BY <1>1, <1>3 DEF SeqInv, Bounded
<1>5. CASE Tick
  <2>1. Sequential'
    BY <1>0, <1>5 DEF Tick, SeqInv, Sequential, Born
  <2>2. Due => Due'
    BY <1>0, <1>1, <1>5 DEF Tick, Due
  <2>3. OfGen(gen)' = OfGen(gen) /\ Clean' = Clean
    BY <1>1, <1>5 DEF Tick, OfGen, Clean, Current, Hasty, Born
  <2>4. QED
    BY <1>1, <1>4, <1>5, <2>1, <2>2, <2>3 DEF Tick, SeqInv
<1>6. CASE Restart
  <2>1. \A u \in Born : now - born[u] > RestartIdle
    BY <1>6 DEF Restart
  <2>2. ~Clean'
    <3>1. gen' = gen + 1 /\ Born' = Born
      BY <1>6 DEF Restart, Born
    <3>2. \A u \in Born : u.gen # gen'
      BY <1>0, <3>1 DEF SeqInv, Sequential
    <3>3. QED
      BY <3>1, <3>2 DEF Clean, Current
  <2>3. Sequential'
    BY <1>0, <1>6, <2>1 DEF Restart, SeqInv, Sequential, Born
  <2>4. pc = "idle"
    <3>1. update \in Born => ~(now - born[update] <= MaxDelay)
      BY <1>0, <2>1, TimesAssumption
    <3>2. QED
      BY <3>1 DEF SeqInv, LedgerInv, Known
  <2>5. QED
    BY <1>1, <1>4, <2>2, <2>3, <2>4 DEF SeqInv
<1>7. ASSUME NEW i \in Ids, Create(i) PROVE SeqInv'
  <2>1. UNCHANGED <<now, gen>> /\ born' = [born EXCEPT ![[gen |-> gen, id |-> i]] = now]
    BY <1>7 DEF Create
  <2>2. Sequential'
    BY <1>0, <2>1 DEF SeqInv, Sequential, Born
  <2>3. OfGen(gen)' = OfGen(gen) /\ Due' = Due
    BY <1>1, <2>1 DEF OfGen, Due
  <2>4. \A w \in Born : w \in Born' /\ born'[w] = born[w]
    BY <1>2
  <2>5. ASSUME Current # {}, Clean' PROVE Clean
    BY <2>1, <2>4, <2>5 DEF Clean, Hasty
  <2>6. ASSUME Current = {}, Clean' PROVE Due /\ pc = "idle"
    <3> DEFINE new == [gen |-> gen, id |-> i]
    <3>1. new \in Updates /\ new.gen = gen
      BY DEF SeqInv, LedgerInv, Typed, Updates
    <3>2. new \in Born' /\ born'[new] = now
      BY <1>0, <2>1, <3>1 DEF Born, NoTime
    <3>3. ASSUME NEW u \in Born PROVE now - born[u] > Week + MaxDelay
      <4>1. u.gen < gen
        BY <1>0, <2>6 DEF Current, SeqInv, Sequential
      <4>2. ~(born'[new] - born'[u] <= Week + MaxDelay)
        BY <2>1, <2>4, <2>6, <3>1, <3>2, <4>1 DEF Clean, Hasty
      <4>3. QED
        BY <1>0, <2>4, <3>2, <4>2
    <3> HIDE DEF new
    <3>4. ASSUME NEW t \in Nat, Timely(t) PROVE now - t > Week
      BY <1>0, <3>3, <3>4 DEF Timely
    <3>5. Due
      BY <1>0, <3>4 DEF SeqInv, Bounded, Due
    <3>6. pc = "idle"
      <4>1. update \in Born => ~(now - born[update] <= MaxDelay)
        BY <1>0, <3>3
      <4>2. QED
        BY <4>1 DEF SeqInv, LedgerInv, Known
    <3>7. QED
      BY <3>5, <3>6
  <2>7. QED
    BY <1>1, <1>4, <2>2, <2>3, <2>5, <2>6 DEF SeqInv
<1>8. QED
  BY <1>5, <1>6, <1>7

\* A sweep keeps what the ledger holds in one sequence.
LEMMA SeqSweep ==
  ASSUME SeqInv, LedgerInv', Dated', Sweep
  PROVE  SeqInv'
<1>0. UNCHANGED <<now, gen, born, records, update, claimed>> /\ pc' = "retire" /\ Recorded' = Recorded
  BY DEF Sweep, telegram, history, Recorded
<1>1. Clean => OfGen(gen)
  <2>1. Due => Recorded = {} /\ checkpoint.retired = -1
    BY DueIsIdle DEF Sweep
  <2>2. QED
    BY <2>1 DEF SeqInv, OfGen
<1>2. PICK scan \in BOOLEAN, aged \in Ids \cup {-1} :
        /\ IsMax(aged, {checkpoint.retired} \cup Expired(scan))
        /\ watermark' \in Ids \cup {-1} /\ IsMax(watermark', {aged} \cup Overflow(aged))
  BY DEF Sweep
<1>3. watermark' \in {checkpoint.retired} \cup Recorded
  BY <1>2 DEF IsMax, Expired, Overflow
<1>4. checkpoint' = IF watermark' > checkpoint.retired
                    THEN [retired |-> watermark', last |-> LastActivity] ELSE checkpoint
  BY DEF Sweep
<1>5. Clean => OfGen(gen)'
  BY <1>0, <1>1, <1>3, <1>4 DEF OfGen
<1>6. Bounded'
  <2>1. \A t : Timely(t)' = Timely(t)
    BY <1>0 DEF Timely, Born
  <2>2. CASE checkpoint' = checkpoint
    BY <1>0, <2>1, <2>2 DEF SeqInv, Bounded
  <2>3. CASE checkpoint' # checkpoint
    <3>1. checkpoint'.last = LastActivity /\ watermark' > checkpoint.retired
      BY <1>4, <2>3
    <3>2. Recorded # {} /\ \A i \in Recorded : records[i] >= 1 /\ Timely(records[i])
      <4>1. watermark' # checkpoint.retired
        BY <3>1, Bounds DEF SeqInv, LedgerInv, Typed
      <4>2. QED
        BY <1>3, <4>1 DEF SeqInv, Bounded
    <3>3. LastActivity # 0 /\ Timely(LastActivity)
      <4>1. CASE checkpoint.last # 0
        BY <4>1 DEF LastActivity, SeqInv, Bounded
      <4>2. CASE checkpoint.last = 0
        <5> DEFINE times == {records[i] : i \in Recorded}
        <5>1. times \subseteq 0..now /\ times # {} /\ now \in Nat
          BY <3>2, SeqTypes DEF SeqInv, Dated
        <5> HIDE DEF times
        <5>2. \E t \in times : IsMax(t, times)
          BY <5>1, Latest
        <5>3. (CHOOSE t \in times : IsMax(t, times)) \in times
          BY <5>2
        <5>4. LastActivity = CHOOSE t \in times : IsMax(t, times)
          BY <3>2, <4>2 DEF LastActivity, times
        <5>5. LastActivity \in times
          BY <5>3, <5>4, Zenon
        <5>6. PICK i \in Recorded : LastActivity = records[i]
          BY <5>5 DEF times
        <5>7. QED
          BY <3>2, <5>6
      <4>3. QED
        BY <4>1, <4>2
    <3>4. QED
      BY <1>0, <2>1, <3>1, <3>2, <3>3 DEF Bounded
  <2>4. QED
    BY <2>2, <2>3
<1>7. Sequential' /\ Clean' = Clean
  BY <1>0 DEF SeqInv, Sequential, Clean, Current, Hasty, Born
<1>8. QED
  BY <1>0, <1>5, <1>6, <1>7 DEF SeqInv

\* The steps that write no more than the claim being made.
LEMMA SeqClaim ==
  ASSUME SeqInv, LedgerInv', Dated',
         \/ \E u \in Updates : Deliver(u)
         \/ Refuse \/ AtCapacity \/ Touch \/ Record \/ Run
  PROVE  SeqInv'
<1>0. UNCHANGED <<now, gen, born>> /\ claimed \subseteq claimed'
  BY DEF Deliver, Refuse, AtCapacity, Touch, Record, Run, telegram, history
<1>1. Sequential' /\ Clean' = Clean /\ \A t : Timely(t)' = Timely(t)
  BY <1>0 DEF SeqInv, Sequential, Clean, Current, Hasty, Born, Timely
<1>2. CASE Touch
  <2>1. /\ pc = "decide" /\ pc' = "record" /\ UNCHANGED <<records, update, claimed>> /\ Recorded' = Recorded
        /\ checkpoint'.retired = checkpoint.retired /\ checkpoint'.last = now
    BY <1>2 DEF Touch, Touched, history, Recorded, SeqInv, LedgerInv, InStep
  <2>2. Clean => OfGen(gen)'
    BY <1>0, <2>1 DEF SeqInv, OfGen
  <2>3. Timely(now) /\ now # 0
    <3>1. update \in Born /\ now - born[update] <= MaxDelay /\ now >= 1
      BY <2>1 DEF SeqInv, LedgerInv, Known, Typed
    <3>2. now <= born[update] + MaxDelay
      BY <3>1, SeqTypes
    <3>3. now # 0
      BY <3>1, SeqTypes
    <3>4. QED
      BY <3>1, <3>2, <3>3 DEF Timely
  <2>4. Bounded'
    BY <1>1, <2>1, <2>3 DEF SeqInv, Bounded
  <2>5. QED
    BY <1>1, <2>1, <2>2, <2>4 DEF SeqInv
<1>3. CASE Record
  <2>1. /\ pc = "record" /\ pc' = "run" /\ UNCHANGED <<checkpoint, update>>
        /\ records' = [records EXCEPT ![update.id] = now] /\ claimed' = claimed \cup {update}
    BY <1>3 DEF Record
  <2>2. update = [gen |-> gen, id |-> update.id] /\ update.id \in Ids
    BY <2>1, UpdateIsCurrent DEF SeqInv, LedgerInv, Typed, Updates
  <2>3. Recorded' \subseteq Recorded \cup {update.id} /\ \A i \in Recorded : i # update.id => records'[i] = records[i]
    BY <2>1, <2>2 DEF Recorded, SeqInv, LedgerInv, Typed
  <2>4. Clean => OfGen(gen)'
    BY <1>0, <2>1, <2>2, <2>3 DEF SeqInv, OfGen
  <2>5. Timely(now) /\ now >= 1
    <3>1. update \in Born /\ now - born[update] <= MaxDelay /\ now >= 1
      BY <2>1 DEF SeqInv, LedgerInv, Known, Typed
    <3>2. now <= born[update] + MaxDelay
      BY <3>1, SeqTypes
    <3>3. QED
      BY <3>1, <3>2 DEF Timely
  <2>6. records'[update.id] = now
    BY <2>1, <2>2 DEF SeqInv, LedgerInv, Typed
  <2>7. Bounded'
    BY <1>1, <2>1, <2>3, <2>5, <2>6 DEF SeqInv, Bounded
  <2>8. QED
    BY <1>1, <2>1, <2>4, <2>7 DEF SeqInv
<1>4. CASE (\E u \in Updates : Deliver(u)) \/ Refuse \/ AtCapacity \/ Run
  <2>1. UNCHANGED <<checkpoint, records, claimed>> /\ pc' \in {"idle", "sweep"}
    BY <1>4 DEF Deliver, Refuse, AtCapacity, Run, history
  <2>2. OfGen(gen)' = OfGen(gen) /\ Due' = Due /\ Bounded'
    BY <1>0, <1>1, <2>1 DEF SeqInv, OfGen, Due, Bounded, Recorded
  <2>3. QED
    BY <1>1, <2>1, <2>2 DEF SeqInv
<1>5. QED
  BY <1>2, <1>3, <1>4

\* The idle reset, and the deletes: where none of the reset's fails, the new
\* sequence starts with nothing of the old one.
LEMMA SeqDelete ==
  ASSUME SeqInv, LedgerInv', Dated', "reset" \notin FailingDeletes,
         ResetSequence \/ DeleteRetired \/ DeleteAll \/ Crash
  PROVE  SeqInv'
<1>0. UNCHANGED <<now, gen, born, claimed>>
  BY DEF ResetSequence, DeleteRetired, DeleteAll, Delete, Crash, telegram, history
<1>1. Sequential' /\ Clean' = Clean /\ \A t : Timely(t)' = Timely(t)
  BY <1>0 DEF SeqInv, Sequential, Clean, Current, Hasty, Born, Timely
<1>2. Recorded' \subseteq Recorded /\ \A i \in Recorded' : records'[i] = records[i]
  <2>1. CASE ResetSequence
    BY <2>1 DEF ResetSequence, Recorded
  <2>2. CASE DeleteRetired \/ DeleteAll \/ Crash
    <3>1. PICK gone : records' = [i \in Ids |-> IF i \in gone THEN NoRecord ELSE records[i]]
      BY <2>2 DEF DeleteRetired, DeleteAll, Delete, Crash
    <3>2. QED
      BY <3>1 DEF Recorded
  <2>3. QED
    BY <2>1, <2>2
<1>3. CASE ResetSequence
  <2>1. checkpoint'.retired = -1 /\ checkpoint'.last = 0 /\ pc' = "reset"
    BY <1>3 DEF ResetSequence
  <2>2. OfGen(gen) => OfGen(gen)'
    BY <1>0, <1>2, <2>1 DEF OfGen
  <2>3. Due => Due'
    BY <1>0, <1>2, <2>1 DEF Due
  <2>4. Bounded'
    BY <1>1, <1>2, <2>1 DEF SeqInv, Bounded
  <2>5. QED
    BY <1>1, <2>1, <2>2, <2>3, <2>4 DEF SeqInv
<1>4. CASE DeleteRetired \/ DeleteAll \/ Crash
  <2>1. checkpoint' = checkpoint /\ (pc' = "idle" \/ (pc' = "decide" /\ pc \in {"retire", "reset"}))
    BY <1>4 DEF DeleteRetired, DeleteAll, Delete, Crash
  <2>2. OfGen(gen) => OfGen(gen)'
    BY <1>0, <1>2, <2>1 DEF OfGen
  <2>3. Due => Due'
    BY <1>0, <1>2, <2>1 DEF Due
  <2>4. Bounded'
    BY <1>1, <1>2, <2>1 DEF SeqInv, Bounded
  <2>5. Clean /\ pc' = "decide" => OfGen(gen)'
    <3>1. CASE DeleteRetired
      BY <2>2, <3>1 DEF DeleteRetired, Delete, SeqInv
    <3>2. CASE DeleteAll
      <4>1. records' = [i \in Ids |-> IF i \in Recorded THEN NoRecord ELSE records[i]] /\ pc = "reset"
        BY <3>2 DEF DeleteAll, Delete
      <4>2. Recorded' = {}
        BY <4>1 DEF Recorded
      <4>3. QED
        BY <2>1, <4>1, <4>2 DEF SeqInv, OfGen
    <3>3. CASE Crash
      BY <3>3 DEF Crash
    <3>4. QED
      BY <1>4, <3>1, <3>2, <3>3
  <2>6. QED
    BY <1>1, <2>1, <2>2, <2>3, <2>4, <2>5 DEF SeqInv
<1>5. QED
  BY <1>3, <1>4

\* No sequence's watermark or claim file swallows another's updates, for any ids,
\* times, ledger size and deaths, wherever after an idle week Telegram restarts its
\* ids, unless the sequence starts in the last repeats of an older one: if no file
\* survives the idle reset.
THEOREM SequencesApart ==
  ASSUME "reset" \notin FailingDeletes
  PROVE  Spec => NoSequenceSwallowed
<1> DEFINE Late == \A u \in refused' \ refused :
                     Hasty(u.gen) \/ \E v \in claimed : v.gen = u.gen /\ v.id > u.id
<1>1. Init => SeqInv
  <2> SUFFICES ASSUME Init PROVE SeqInv
    OBVIOUS
  <2>1. Recorded = {} /\ Born = {}
    BY DEF Init, Recorded, Born
  <2>2. Dated
    BY <2>1, Bounds DEF Init, Dated
  <2>3. QED
    BY <2>1, <2>2, InitInv DEF Init, SeqInv, Bounded, Sequential, OfGen, Clean, Current
<1>2. SeqInv /\ [Next]_vars => SeqInv'
  <2> SUFFICES ASSUME SeqInv, [Next]_vars PROVE SeqInv'
    OBVIOUS
  <2>1. LedgerInv' /\ Dated'
    BY InvStep, DatedStep DEF SeqInv
  <2>2. CASE UNCHANGED vars
    BY <2>1, <2>2 DEF vars, telegram, claim, history, SeqInv, Bounded, Timely, Sequential, OfGen, Due,
                      Clean, Current, Hasty, Recorded, Born
  <2>3. CASE Next
    BY <2>1, <2>3, SeqTelegram, SeqSweep, SeqClaim, SeqDelete DEF Next
  <2>4. QED
    BY <2>2, <2>3
<1>3. SeqInv /\ [Next]_vars => [Late]_vars
  <2> SUFFICES ASSUME SeqInv, Next, NEW u \in refused' \ refused
               PROVE  Hasty(u.gen) \/ \E v \in claimed : v.gen = u.gen /\ v.id > u.id
    BY DEF vars
  <2>1. Refuse /\ u = update /\ u \notin claimed
    <3>1. u \in refused' /\ u \notin refused
      OBVIOUS
    <3>2. CASE Tick \/ Restart \/ (\E i \in Ids : Create(i)) \/ (\E w \in Updates : Deliver(w))
      BY <3>1, <3>2 DEF Tick, Restart, Create, Deliver, history
    <3>3. CASE Sweep \/ ResetSequence \/ DeleteRetired \/ DeleteAll \/ Crash
      BY <3>1, <3>3 DEF Sweep, ResetSequence, DeleteRetired, DeleteAll, Delete, Crash, history
    <3>4. CASE AtCapacity \/ Touch \/ Record \/ Run
      BY <3>1, <3>4 DEF AtCapacity, Touch, Record, Run, history
    <3>5. CASE Refuse
      BY <3>1, <3>5 DEF Refuse
    <3>6. QED
      BY <3>2, <3>3, <3>4, <3>5 DEF Next
  <2>2. /\ pc = "decide" /\ watermark = checkpoint.retired
        /\ (update.id <= watermark \/ update.id \in Recorded)
    BY <2>1 DEF Refuse, Seen, SeqInv, LedgerInv, InStep
  <2>3. update = [gen |-> gen, id |-> update.id] /\ update.id \in Nat /\ update.gen = gen
    BY <2>2, UpdateIsCurrent, Bounds DEF SeqInv, LedgerInv, Typed
  <2>4. CASE Hasty(gen)
    BY <2>1, <2>3, <2>4
  <2>5. ASSUME ~Hasty(gen) PROVE OfGen(gen)
    <3>1. update \in Current
      BY <2>2, <2>3 DEF Current, SeqInv, LedgerInv, Known
    <3>2. QED
      BY <2>2, <2>5, <3>1 DEF SeqInv, Clean
  <2>6. CASE ~Hasty(gen) /\ update.id \in Recorded
    <3>1. [gen |-> gen, id |-> update.id] \in claimed
      BY <2>6, <2>5 DEF OfGen
    <3>2. QED
      BY <2>1, <2>3, <3>1
  <2>7. CASE ~Hasty(gen) /\ update.id <= watermark
    <3>1. checkpoint.retired # -1
      BY <2>2, <2>3, <2>7
    <3>2. [gen |-> gen, id |-> checkpoint.retired] \in claimed /\ checkpoint.retired \in Nat
      BY <2>7, <2>5, <3>1, Bounds DEF OfGen, SeqInv, LedgerInv, Typed
    <3>3. CASE update.id = checkpoint.retired
      BY <2>1, <2>3, <3>2, <3>3
    <3>4. CASE update.id < checkpoint.retired
      <4>1. PICK v : v = [gen |-> gen, id |-> checkpoint.retired]
        OBVIOUS
      <4>2. v \in claimed /\ v.gen = u.gen /\ v.id > u.id
        BY <2>1, <2>3, <3>2, <3>4, <4>1
      <4>3. QED
        BY <4>2
    <3>5. QED
      BY <2>2, <2>3, <2>7, <3>2, <3>3, <3>4
  <2>8. QED
    BY <2>2, <2>6, <2>7, <2>4
<1>4. Spec => [][Late]_vars
  <2> HIDE DEF Late
  <2> QED BY <1>1, <1>2, <1>3, PTL DEF Spec
<1>5. QED
  BY <1>4, Zenon DEF NoSequenceSwallowed

-----------------------------------------------------------------------------
(* Telegram delivery.                                                      *)

Steps == {"idle", "joined", "admission", "preflight", "sending", "over", "lost"}
Active == {"admission", "preflight", "sending"}
Answers == {"none", "ok", "uncertain", "mismatch", "full", "thrown"}

\* The file exists from the preflight on.
Shaped ==
    /\ step \in [Calls -> Steps]
    /\ inflight \in Calls \cup {Nobody}
    /\ result \in [Calls -> Answers]
    /\ \/ record = NoFile
       \/ \E c \in Calls, status \in {"preflight", "dispatching", "uncertain", "completed"},
             age \in Young..OverQuarter :
             record = [status |-> status, text |-> Text[c], age |-> age]
    /\ source \in {"kept", "gone", "due", "past"}
    /\ source = "due" => record.age < OverQuarter

\* One call works at a time, and the file tells how far it is.
Leading ==
    /\ \A c \in Calls : step[c] \in Active => inflight = c
    /\ \A c \in Calls : step[c] = "joined" => inflight # Nobody
    /\ \A c \in Calls : step[c] \in Active \cup {"idle", "joined", "lost"} => result[c] = "none"
    /\ \A c \in Calls : step[c] = "admission" => record = NoFile
    /\ \A c \in Calls : step[c] = "preflight" => record = File(c, "preflight")
    /\ \A c \in Calls : step[c] = "sending" => record = File(c, "dispatching")

Out == wire \cup accepted

\* What is on its way is one call's, and the file knows of it as long as anything
\* authorizes another.
Tracked ==
    /\ wire \subseteq Calls /\ accepted \subseteq Calls /\ wire \cap accepted = {}
    /\ \A c, d \in Out : c = d
    /\ \A c \in Out : step[c] \in {"sending", "over", "lost"}
    /\ \A c \in Calls : step[c] \in {"admission", "preflight"} => Out = {}
    /\ source \in {"kept", "due"} /\ record.status \in {"none", "preflight"} => Out = {}
    /\ record.status \in {"dispatching", "uncertain", "completed"} =>
          \A c \in Out : record.text = Text[c]
    /\ record.status = "completed" => accepted # {}

PromiseInv == Shaped /\ Leading /\ Tracked

\* The file, the calls and what is on its way agree at the start.
LEMMA DeliveryInitInv == DeliveryInit => PromiseInv
BY DEF DeliveryInit, PromiseInv, Shaped, Leading, Tracked, NoFile, Steps, Active, Out, Young, OverQuarter,
   Answers

\* However a call ends, what it leaves is what was sent.
LEMMA EndStep ==
  ASSUME PromiseInv, NEW c \in Calls, NEW answer \in Answers, step[c] \in Active,
         End(c, answer), UNCHANGED <<source, wire, accepted>>,
         \/ record' = NoFile /\ Out = {}
         \/ \E status \in {"dispatching", "uncertain", "completed"} :
               /\ record' = File(c, status) /\ step[c] = "sending"
               /\ status = "completed" => accepted # {}
  PROVE  PromiseInv'
<1>1. Shaped'
  BY DEF PromiseInv, Shaped, Leading, End, NoFile, File, Steps, Active, Young, OverQuarter,
         Replay, Answers
<1>2. Leading'
  BY DEF PromiseInv, Shaped, Leading, End, Steps, Active
<1>3. Tracked'
  BY DEF PromiseInv, Shaped, Leading, Tracked, End, NoFile, File, Steps, Active, Out
<1> QED BY <1>1, <1>2, <1>3 DEF PromiseInv

\* The steps of a call under way (sendTelegramIdempotently).
LEMMA CallStep ==
  ASSUME PromiseInv, NEW c \in Calls,
         \/ Join(c) \/ AnswerAgain(c) \/ Start(c) \/ Admit(c) \/ Mark(c) \/ Accept(c)
  PROVE  PromiseInv'
<1> USE NobodyAssumption DEF Begins
<1>1. CASE Join(c)
  BY <1>1 DEF Join, PromiseInv, Shaped, Leading, Tracked, Out, Steps, Active, NoFile, File
<1>2. CASE AnswerAgain(c)
  BY <1>2 DEF AnswerAgain, PromiseInv, Shaped, Leading, Tracked, Out, Steps, Active, NoFile, File,
          Replay, Answers
<1>3. CASE Start(c)
  BY <1>3 DEF Start, PromiseInv, Shaped, Leading, Tracked, Out, Steps, Active, NoFile, File,
          Young, OverQuarter
<1>4. CASE Admit(c)
  BY <1>4 DEF Admit, PromiseInv, Shaped, Leading, Tracked, Out, Steps, Active, NoFile, File, Young, OverQuarter
<1>5. CASE Mark(c)
  BY <1>5 DEF Mark, PromiseInv, Shaped, Leading, Tracked, Out, Steps, Active, NoFile, File, Young, OverQuarter
<1>6. CASE Accept(c)
  BY <1>6 DEF Accept, PromiseInv, Shaped, Leading, Tracked, Out, Steps, Active, NoFile, File
<1> QED BY <1>1, <1>2, <1>3, <1>4, <1>5, <1>6

\* The steps that end a call.
LEMMA EndingStep ==
  ASSUME PromiseInv, NEW c \in Calls,
         \/ \E answer \in {"full", "thrown"} : TurnAway(c, answer)
         \/ MarkFails(c) \/ Delivered(c)
         \/ \E saved \in BOOLEAN : Undecided(c, saved)
  PROVE  PromiseInv'
<1>1. CASE \E answer \in {"full", "thrown"} : TurnAway(c, answer)
  BY <1>1, EndStep DEF TurnAway, PromiseInv, Leading, Tracked, Active, Answers
<1>2. CASE MarkFails(c)
  BY <1>2, EndStep DEF MarkFails, PromiseInv, Leading, Tracked, Active, Answers
<1>3. CASE Delivered(c)
  BY <1>3, EndStep DEF Delivered, PromiseInv, Leading, Tracked, Active, Answers
<1>4. CASE \E saved \in BOOLEAN : Undecided(c, saved)
  BY <1>4, EndStep DEF Undecided, PromiseInv, Leading, Tracked, Active, Answers
<1> QED BY <1>1, <1>2, <1>3, <1>4

\* Death, age, Clear and retention.
LEMMA WorldStep == PromiseInv /\ (ServerDies \/ GrowOld \/ ForgetSource \/ SweepRecord) => PromiseInv'
<1> SUFFICES ASSUME PromiseInv, ServerDies \/ GrowOld \/ ForgetSource \/ SweepRecord
             PROVE  PromiseInv'
    OBVIOUS
<1> USE NobodyAssumption DEF Steps, Active, NoFile, File, Young, OverDay, OverWeek, OverQuarter
<1>1. CASE ServerDies
  BY <1>1 DEF ServerDies, PromiseInv, Shaped, Leading, Tracked, Out
<1>2. CASE GrowOld
  <2> PICK d \in Calls, status \in {"preflight", "dispatching", "uncertain", "completed"},
           age \in 0..3 : record = [status |-> status, text |-> Text[d], age |-> age]
    BY <1>2 DEF GrowOld, PromiseInv, Shaped
  <2>1. /\ age < 3 /\ inflight = Nobody
        /\ record' = [status |-> status, text |-> Text[d], age |-> age + 1]
        /\ source' = IF source = "due" /\ age + 1 = 3 THEN "past" ELSE source
        /\ UNCHANGED <<step, inflight, wire, accepted, result>>
    BY <1>2 DEF GrowOld
  <2>2. age + 1 \in 0..3 /\ (age + 1 < 3 \/ age + 1 = 3)
    BY <2>1
  <2>3. Shaped'
    <3>1. source' = "due" => record'.age < OverQuarter
      BY <2>1, <2>2
    <3>2. source' \in {"kept", "gone", "due", "past"}
      BY <2>1 DEF PromiseInv, Shaped
    <3>3. \E c \in Calls, s \in {"preflight", "dispatching", "uncertain", "completed"},
             a \in Young..OverQuarter : record' = [status |-> s, text |-> Text[c], age |-> a]
      BY <2>1, <2>2
    <3> QED BY <2>1, <3>1, <3>2, <3>3 DEF PromiseInv, Shaped
  <2>4. Leading'
    BY <2>1 DEF PromiseInv, Leading
  <2>5. Tracked'
    BY <2>1 DEF PromiseInv, Leading, Tracked, Out
  <2> QED BY <2>3, <2>4, <2>5 DEF PromiseInv
<1>3. CASE ForgetSource
  BY <1>3 DEF ForgetSource, PromiseInv, Shaped, Leading, Tracked, Out
<1>4. CASE SweepRecord
  <2>1. \A c \in Calls : step[c] \notin {"preflight", "sending"}
    BY <1>4 DEF SweepRecord, SafeToDelete, PromiseInv, Shaped, Leading
  <2>2. Shaped'
    BY <1>4 DEF SweepRecord, PromiseInv, Shaped
  <2>3. Leading'
    BY <1>4, <2>1 DEF SweepRecord, PromiseInv, Leading
  <2>4. source \in {"kept", "due"} => Out = {}
    BY <1>4 DEF SweepRecord, SafeToDelete, PromiseInv, Shaped, Tracked
  <2>5. Tracked'
    BY <1>4, <2>1, <2>4 DEF SweepRecord, PromiseInv, Tracked, Out
  <2> QED BY <2>2, <2>3, <2>5 DEF PromiseInv
<1> QED BY <1>1, <1>2, <1>3, <1>4

\* Every step keeps the invariant.
LEMMA PromiseStep == PromiseInv /\ [DeliveryNext]_deliveryVars => PromiseInv'
<1> SUFFICES ASSUME PromiseInv, [DeliveryNext]_deliveryVars PROVE PromiseInv'
    OBVIOUS
<1>1. CASE UNCHANGED deliveryVars
  BY <1>1 DEF deliveryVars, PromiseInv, Shaped, Leading, Tracked, Out, NoFile, File
<1>2. CASE DeliveryNext
  BY <1>2, CallStep, EndingStep, WorldStep DEF DeliveryNext
<1> QED BY <1>1, <1>2

\* While anything may authorize another call, the file knows of what was sent.
THEOREM PromiseInvariance == DeliverySpec => []PromiseInv
BY DeliveryInitInv, PromiseStep, PTL DEF DeliverySpec

\* Telegram accepts another request only if it has accepted none.
LEMMA AcceptDelivers ==
  ASSUME PromiseInv, NEW c \in Calls, Accept(c)
  PROVE  Promise!Deliver(c)
BY DEF Accept, Promise!Deliver, PromiseInv, Tracked, Out

\* What changes nothing at Telegram and tells nobody of success, or tells those
\* whose text was delivered, is a confirmation, or nothing at all.
LEMMA TellingConfirms ==
  ASSUME PromiseInv, NEW cs \in SUBSET Calls, UNCHANGED accepted,
         \A c \in cs : \E d \in accepted : Text[c] = Text[d],
         {c \in Calls : result'[c] = "ok"} = {c \in Calls : result[c] = "ok"} \cup cs
  PROVE  Promise!Confirm(cs)
BY DEF Promise!Confirm

\* A call that ends with success, and those who joined it with the same text,
\* are told of what was delivered; any other end tells nobody.
LEMMA EndTells ==
  ASSUME PromiseInv, NEW c \in Calls, NEW answer, step[c] \in Active, End(c, answer),
         UNCHANGED accepted,
         answer = "ok" => record' = File(c, "completed") /\ c \in accepted,
         record' = NoFile \/ record' = record \/ \E s \in {"uncertain"} : record' = File(c, s)
            \/ answer = "ok",
         answer # "ok" => answer = "thrown" \/ record' = NoFile
  PROVE  \E cs \in SUBSET Calls : Promise!Confirm(cs)
<1> DEFINE cs == IF answer = "ok"
                 THEN {d \in Calls : d = c \/ (step[d] = "joined" /\ Text[d] = Text[c])} ELSE {}
<1>1. \A d \in Calls : step[d] = "joined" => d # c /\ result[d] = "none"
  BY DEF PromiseInv, Leading, Active
<1>2. \A d \in Calls : result'[d] = "ok" <=> (result[d] = "ok" \/ d \in cs)
  <2>1. CASE answer = "ok"
    <3>1. record'.status = "completed" /\ record'.text = Text[c] /\ record' # NoFile
      BY <2>1 DEF File, NoFile
    <3>2. \A d \in Calls : Text[d] = Text[c] => Replay(record', d) = "ok"
      BY <3>1 DEF Replay
    <3>3. \A d \in Calls : Text[d] # Text[c] => Replay(record', d) = "mismatch"
      BY <3>1 DEF Replay
    <3> HIDE DEF cs
    <3>4. \A d \in Calls : d \in cs <=> (d = c \/ (step[d] = "joined" /\ Text[d] = Text[c]))
      BY <2>1 DEF cs
    <3> QED BY <2>1, <1>1, <3>1, <3>2, <3>3, <3>4 DEF End
  <2>2. CASE answer # "ok"
    BY <2>2, <1>1 DEF End, PromiseInv, Leading
  <2> QED BY <2>1, <2>2
<1>3. \A d \in cs : \E e \in accepted : Text[d] = Text[e]
  OBVIOUS
<1>4. {d \in Calls : result'[d] = "ok"} = {d \in Calls : result[d] = "ok"} \cup cs
  BY <1>2
<1> QED
  <2> HIDE DEF cs
  <2>1. cs \in SUBSET Calls BY DEF cs
  <2> QED BY <2>1, <1>3, <1>4, TellingConfirms


\* Every step of the guard is a step of the promise, or none.
LEMMA Simulates ==
  ASSUME PromiseInv, [DeliveryNext]_deliveryVars
  PROVE  [Promise!Next]_<<accepted, {c \in Calls : result[c] = "ok"}>>
<1> DEFINE stutters == UNCHANGED <<accepted, {c \in Calls : result[c] = "ok"}>>
<1>1. CASE UNCHANGED deliveryVars
  BY <1>1 DEF deliveryVars
<1>2. ASSUME NEW c \in Calls, Join(c) \/ Start(c) \/ Admit(c) \/ Mark(c)
      PROVE  stutters
  BY <1>2 DEF Join, Start, Admit, Mark
<1>3. CASE ServerDies \/ GrowOld \/ ForgetSource \/ SweepRecord
  BY <1>3 DEF ServerDies, GrowOld, ForgetSource, SweepRecord
<1>4. ASSUME NEW c \in Calls, Accept(c)
      PROVE  Promise!Next
  BY <1>4, AcceptDelivers DEF Promise!Next
<1>5. ASSUME NEW c \in Calls, AnswerAgain(c)
      PROVE  \E cs \in SUBSET Calls : Promise!Confirm(cs)
  <2> DEFINE cs == {d \in {c} : Replay(record, c) = "ok"}
  <2>1. \A d \in cs : \E e \in accepted : Text[d] = Text[e]
    BY <1>5 DEF AnswerAgain, Replay, PromiseInv, Tracked, Out
  <2>2. {d \in Calls : result'[d] = "ok"} = {d \in Calls : result[d] = "ok"} \cup cs
    <3>1. result[c] = "none" /\ DOMAIN result = Calls
      BY <1>5 DEF AnswerAgain, Begins, PromiseInv, Shaped, Leading
    <3>2. result' = [result EXCEPT ![c] = Replay(record, c)]
      BY <1>5 DEF AnswerAgain
    <3>3. \A d \in Calls : result'[d] = "ok" <=> (result[d] = "ok" \/ d \in cs)
      BY <3>1, <3>2
    <3> QED BY <3>3
  <2>3. UNCHANGED accepted
    BY <1>5 DEF AnswerAgain
  <2> HIDE DEF cs
  <2>4. cs \in SUBSET Calls
    BY DEF cs
  <2> QED BY <2>1, <2>2, <2>3, <2>4, TellingConfirms
<1>6. ASSUME NEW c \in Calls,
             \/ MarkFails(c) \/ Delivered(c)
             \/ \E answer \in {"full", "thrown"} : TurnAway(c, answer)
             \/ \E saved \in BOOLEAN : Undecided(c, saved)
      PROVE  \E cs \in SUBSET Calls : Promise!Confirm(cs)
  <2>1. CASE MarkFails(c)
    BY <2>1, EndTells DEF MarkFails, Active
  <2>2. CASE Delivered(c)
    BY <2>2, EndTells DEF Delivered, Active
  <2>3. CASE \E answer \in {"full", "thrown"} : TurnAway(c, answer)
    BY <2>3, EndTells DEF TurnAway, Active, PromiseInv, Leading
  <2>4. CASE \E saved \in BOOLEAN : Undecided(c, saved)
    BY <2>4, EndTells DEF Undecided, Active
  <2> QED BY <1>6, <2>1, <2>2, <2>3, <2>4
<1> QED BY <1>1, <1>2, <1>3, <1>4, <1>5, <1>6 DEF DeliveryNext, Promise!Next

\* For any calls and texts, whatever dies and is retried or swept: one message of
\* a scope is delivered at most, and success is told of its own text only.
THEOREM Refinement == DeliverySpec => ImplementsDelivery
<1>1. DeliveryInit => Promise!Init
  BY DEF DeliveryInit, Promise!Init
<1>2. PromiseInv /\ [DeliveryNext]_deliveryVars
        => [Promise!Next]_<<accepted, {c \in Calls : result[c] = "ok"}>>
  BY Simulates
<1> QED BY <1>1, <1>2, PromiseInvariance, PTL
        DEF DeliverySpec, ImplementsDelivery, Promise!Spec

\* The types of a delivery, for any calls and texts.
THEOREM DeliveryTypeCorrect == DeliverySpec => []DeliveryTypeOK
<1>1. PromiseInv => DeliveryTypeOK
  BY DEF PromiseInv, Shaped, Tracked, DeliveryTypeOK, NoFile, Steps, Answers, Young, OverQuarter
<1> QED BY <1>1, PromiseInvariance, PTL
-----------------------------------------------------------------------------
(* Field watches                                                            *)

WatchItems == [status : {"absent", "active", "blocked", "revoked"},
               base : 0..Odd, cand : [value : 0..Odd, seen : 0..1],
               pend : [id : 0..MaxEvents, value : 0..Odd], notified : 0..MaxEvents]

WatchTicks == [pc : {"idle", "retell", "read", "tell", "mapped"}, spec : WatchItems, dead : BOOLEAN]

\* A tick at rest holds no copy; while it reads and tells, it holds an active one.
Carries ==
    /\ tick.pc = "idle" => tick = NoTick
    /\ tick.pc \in {"retell", "read", "tell"} => tick.spec.status = "active"

WatchTypes ==
    /\ page \in Values /\ watch \in WatchItems /\ stored \in WatchItems /\ reading \in 0..Odd
    /\ tick \in WatchTicks
    /\ mail \in [1..MaxEvents -> {"none", "sent", "unsure"}] /\ issued \in 0..MaxEvents
    /\ misread \in BOOLEAN /\ faults \in 0..MaxFaults
    /\ life \in {"unborn", "alive", "unsaved", "overlapped", "ended"}
    /\ told \in [Values \cup {Odd} -> Nat] /\ quiet \subseteq Values \cup {Odd}
    /\ last \in 0..MaxEvents /\ lost \in Nat /\ lost <= faults

WatchInv == WatchTypes /\ Carries /\ StaysEnded

LEMMA WatchBounds ==
  /\ MaxValue \in Nat \ {0} /\ MaxEvents \in Nat /\ MaxFaults \in Nat
  /\ Values \cup {Odd} \subseteq 1..Odd /\ Values \subseteq 0..Odd
  /\ Odd \in Nat /\ Odd \in 0..Odd /\ 0 \in 0..Odd /\ 0 \in 0..MaxEvents /\ 1 \in Values
BY WatchAssumption DEF Values, Odd

LEMMA AbsentItem ==
  Absent \in WatchItems /\ Absent.status = "absent" /\ NoTick \in WatchTicks /\ NoTick.spec = Absent
BY WatchBounds DEF Absent, Item, NoCandidate, NoEvent, Nothing, WatchItems, NoTick, WatchTicks

LEMMA EmptyParts ==
  /\ NoCandidate \in [value : 0..Odd, seen : 0..1]
  /\ NoEvent \in [id : 0..MaxEvents, value : 0..Odd]
BY WatchBounds DEF NoCandidate, NoEvent, Nothing

\* An observation keeps the item's status and makes an item of it.
LEMMA ObservedItem ==
  ASSUME NEW spec \in WatchItems, NEW v \in 0..Odd, issued \in 0..MaxEvents,
         Makes(spec, v) => issued < MaxEvents
  PROVE  Observed(spec, v) \in WatchItems /\ Observed(spec, v).status = spec.status
<1> USE WatchBounds DEF Nothing, FIELD_WATCH_CONFIRMATIONS
<1>1. Makes(spec, v) => issued + 1 \in 0..MaxEvents
  OBVIOUS
<1>2. CASE spec.base = Nothing \/ Confirms(spec, v)
  <2> DEFINE pend == IF Makes(spec, v) THEN [id |-> issued + 1, value |-> v] ELSE spec.pend
  <2>1. Observed(spec, v) = [spec EXCEPT !.base = v, !.cand = NoCandidate, !.pend = pend]
    BY <1>2 DEF Observed, WatchItems
  <2>2. pend \in [id : 0..MaxEvents, value : 0..Odd]
    BY <1>1 DEF WatchItems
  <2>3. NoCandidate \in [value : 0..Odd, seen : 0..1]
    BY DEF NoCandidate
  <2> HIDE DEF pend
  <2>4. QED
    BY <2>1, <2>2, <2>3 DEF WatchItems
<1>3. CASE ~(spec.base = Nothing \/ Confirms(spec, v))
  <2> DEFINE cand == IF v = spec.base THEN NoCandidate
                     ELSE [value |-> v, seen |-> TimesSeen(spec, v)]
  <2>1. Observed(spec, v) = [spec EXCEPT !.cand = cand]
    BY <1>3 DEF Observed, WatchItems
  <2>2. v # spec.base => TimesSeen(spec, v) \in 0..1
    BY <1>3 DEF Confirms, TimesSeen, WatchItems
  <2>3. cand \in [value : 0..Odd, seen : 0..1]
    BY <2>2 DEF NoCandidate
  <2> HIDE DEF cand
  <2>4. QED
    BY <2>1, <2>3 DEF WatchItems
<1>4. QED
  BY <1>2, <1>3

\* What the other operations make of an item.
LEMMA OtherItems ==
  ASSUME NEW spec \in WatchItems
  PROVE  /\ Failed(spec) \subseteq WatchItems
         /\ \A ok : Cleared(spec, ok) \in WatchItems /\ Cleared(spec, ok).status = spec.status
BY WatchBounds DEF Failed, Cleared, Acknowledged, NoEvent, Nothing, WatchItems

LEMMA Written ==
  ASSUME WatchTypes, NEW item \in WatchItems, Persists(item)
  PROVE  /\ stored' \in WatchItems /\ stored' \in {item, stored}
         /\ faults' \in 0..MaxFaults /\ faults' >= faults
BY WatchBounds DEF WatchTypes, Persists, Stores, Fails

LEMMA WatchInitInv == WatchInit => WatchInv
<1> SUFFICES ASSUME WatchInit PROVE WatchInv
  OBVIOUS
<1>1. told \in [Values \cup {Odd} -> Nat] /\ mail \in [1..MaxEvents -> {"none", "sent", "unsure"}]
  BY DEF WatchInit
<1>2. faults \in 0..MaxFaults /\ lost \in Nat /\ lost <= faults
  BY WatchBounds DEF WatchInit
<1>3. page \in Values /\ reading \in 0..Odd /\ issued \in 0..MaxEvents /\ last \in 0..MaxEvents
  BY WatchBounds DEF WatchInit, Nothing
<1>4. WatchTypes
  BY <1>1, <1>2, <1>3, AbsentItem DEF WatchInit, WatchTypes
<1>5. QED
  BY <1>4 DEF WatchInit, WatchInv, Carries, NoTick, StaysEnded

\* What the user does.
LEMMA UserStep ==
  ASSUME WatchInv, CreateWatch \/ Revoke \/ RemoveWatch \/ Stop
  PROVE  WatchInv'
<1> USE WatchBounds, AbsentItem DEF WatchInv
<1>1. CASE CreateWatch
  <2>1. PICK base \in {Nothing, page} : Keeps(Item("active", base)) /\ quiet' = quiet \cup ({base} \ {Nothing})
    BY <1>1 DEF CreateWatch
  <2>2. Item("active", base) \in WatchItems
    BY EmptyParts DEF WatchTypes, WatchItems, Item, Nothing
  <2>3. WatchTypes'
    BY <1>1, <2>1, <2>2 DEF CreateWatch, Keeps, Stores, WatchTypes, Nothing
  <2>4. QED
    BY <1>1, <2>1, <2>3 DEF CreateWatch, Carries, StaysEnded
<1>2. CASE Revoke
  <2> DEFINE item == [watch EXCEPT !.status = "revoked", !.cand = NoCandidate, !.pend = NoEvent]
  <2>1. item \in WatchItems /\ item.status = "revoked"
    BY EmptyParts DEF WatchTypes, WatchItems
  <2>2. watch' = item /\ stored' = item
    BY <1>2 DEF Revoke, Keeps, Stores
  <2> HIDE DEF item
  <2>3. WatchTypes'
    BY <1>2, <2>1, <2>2 DEF Revoke, Keeps, Stores, WatchTypes, Ended
  <2>4. life' = "ended" => tick = NoTick
    BY <1>2 DEF Revoke, Ended, Ticking, Carries
  <2>5. QED
    BY <1>2, <2>1, <2>2, <2>3, <2>4 DEF Revoke, Carries, StaysEnded
<1>3. CASE RemoveWatch
  <2>1. WatchTypes'
    BY <1>3, Written DEF RemoveWatch, WatchTypes, Ended
  <2>2. life' = "ended" => tick = NoTick /\ stored' = Absent
    BY <1>3 DEF RemoveWatch, Ended, Ticking, Carries
  <2>3. QED
    BY <1>3, <2>1, <2>2 DEF RemoveWatch, Carries, StaysEnded
<1>4. CASE Stop
  <2>1. tick' \in WatchTicks /\ tick'.spec = tick.spec /\ tick'.pc = tick.pc
        /\ (Ticking => tick'.dead) /\ (~Ticking => tick' = tick)
    BY <1>4 DEF Stop, WatchTypes, WatchTicks
  <2>2. WatchTypes'
    BY <1>4, <2>1, Written DEF Stop, WatchTypes
  <2>3. Carries'
    BY <2>1 DEF Carries, Ticking
  <2>4. life' = "ended" => stored' = Absent
    BY <1>4 DEF Stop
  <2>5. StaysEnded'
    BY <1>4, <2>1, <2>4 DEF Stop, StaysEnded, Carries, Ticking
  <2>6. QED
    BY <2>2, <2>3, <2>5
<1>5. QED
  BY <1>1, <1>2, <1>3, <1>4

\* The browser's reports, the other writes, the page and the death of the server.
LEMMA BesideStep ==
  ASSUME WatchInv, Check \/ Report \/ ReportNothing \/ SaveAll \/ PageChanges \/ Die
  PROVE  WatchInv'
<1> USE WatchBounds, AbsentItem DEF WatchInv
<1>1. CASE Check
  BY <1>1 DEF Check, Reads, Keeps, Stores, WatchTypes, Carries, StaysEnded
<1>2. CASE Report
  <2>1. reading \in 0..Odd /\ (Makes(watch, reading) => issued < MaxEvents)
    BY <1>2 DEF Report, Takes, WatchTypes
  <2>2. Observed(watch, reading) \in WatchItems
    BY <2>1, ObservedItem DEF WatchTypes
  <2>3. issued' \in 0..MaxEvents /\ quiet' \subseteq Values \cup {Odd}
    BY <1>2, <2>1 DEF Report, Takes, WatchTypes, Values, Odd, Nothing
  <2>4. WatchTypes'
    BY <1>2, <2>2, <2>3 DEF Report, Keeps, Stores, WatchTypes, Nothing
  <2>5. life' # "ended"
    BY <1>2 DEF Report, Accepts, StaysEnded
  <2>6. QED
    BY <1>2, <2>4, <2>5 DEF Report, Carries, StaysEnded
<1>3. CASE ReportNothing
  <2>1. WatchTypes'
    BY <1>3, OtherItems DEF ReportNothing, Keeps, Stores, WatchTypes, Nothing
  <2>2. life = "ended" => UNCHANGED <<watch, stored>>
    BY <1>3 DEF ReportNothing, Accepts, StaysEnded
  <2>3. QED
    BY <1>3, <2>1, <2>2 DEF ReportNothing, Carries, StaysEnded
<1>4. CASE SaveAll
  BY <1>4 DEF SaveAll, Stores, WatchTypes, Carries, StaysEnded
<1>5. CASE PageChanges
  <2>1. page' \in Values
    BY <1>5 DEF PageChanges, WatchTypes, Values
  <2>2. QED
    BY <1>5, <2>1 DEF PageChanges, WatchTypes, Carries, StaysEnded
<1>6. CASE Die
  <2>1. faults' \in 0..MaxFaults /\ lost' \in Nat /\ lost' <= faults'
    BY <1>6 DEF Die, Fails, WatchTypes
  <2>2. last' \in 0..MaxEvents
    BY <1>6 DEF Die, WatchTypes, WatchItems
  <2>3. WatchTypes'
    BY <1>6, <2>1, <2>2 DEF Die, WatchTypes, Nothing
  <2>4. QED
    BY <1>6, <2>3 DEF Die, Carries, StaysEnded, NoTick
<1>7. QED
  BY <1>1, <1>2, <1>3, <1>4, <1>5, <1>6

\* The tick moves on with a copy that is an item: what the invariant asks of it.
LEMMA MovedTick ==
  ASSUME WatchInv, NEW stage \in {"retell", "read", "tell", "mapped"}, NEW spec \in WatchItems,
         Moves(stage, spec)
  PROVE  tick' \in WatchTicks /\ tick'.pc = stage /\ tick'.spec = spec /\ tick'.dead = tick.dead
BY DEF WatchInv, WatchTypes, WatchTicks, Moves

\* A tick of the supervisor.
LEMMA TickStep ==
  ASSUME WatchInv, StartTick \/ ReadPage \/ Tell \/ Commit
  PROVE  WatchInv'
<1> USE WatchBounds, AbsentItem DEF WatchInv
<1>1. CASE StartTick
  <2>1. PICK stage \in {"retell", "read", "mapped"} :
          Moves(stage, watch) /\ (stage # "mapped" => watch.status = "active")
    BY <1>1 DEF StartTick
  <2>2. tick' \in WatchTicks /\ tick'.pc = stage /\ tick'.spec = watch
    BY <2>1, MovedTick DEF WatchTypes
  <2>3. WatchTypes'
    BY <1>1, <2>2 DEF StartTick, WatchTypes
  <2>4. QED
    BY <1>1, <2>1, <2>2, <2>3 DEF StartTick, Carries, StaysEnded
<1>2. CASE ReadPage
  <2>1. tick.spec \in WatchItems /\ tick.spec.status = "active"
    BY <1>2 DEF ReadPage, At, WatchTypes, WatchTicks, Carries
  <2>2. PICK stage \in {"tell", "mapped"}, spec \in WatchItems :
          Moves(stage, spec) /\ (stage # "mapped" => spec.status = "active")
    <3>1. CASE \E v \in {page, Odd} : Takes(tick.spec, v)
               /\ LET spec == Observed(tick.spec, v)
                  IN Moves(IF spec.pend = NoEvent THEN "mapped" ELSE "tell", spec)
      <4>1. PICK v \in {page, Odd} : Takes(tick.spec, v)
               /\ LET spec == Observed(tick.spec, v)
                  IN Moves(IF spec.pend = NoEvent THEN "mapped" ELSE "tell", spec)
        BY <3>1
      <4>2. v \in 0..Odd /\ issued \in 0..MaxEvents
        BY DEF WatchTypes
      <4>3. Observed(tick.spec, v) \in WatchItems /\ Observed(tick.spec, v).status = "active"
        BY <2>1, <4>1, <4>2, ObservedItem DEF Takes
      <4>4. QED
        BY <4>1, <4>3
    <3>2. CASE \E spec \in Failed(tick.spec) : Moves("mapped", spec)
      BY <2>1, <3>2, OtherItems
    <3>3. QED
      BY <1>2, <3>1, <3>2 DEF ReadPage
  <2>3. tick' \in WatchTicks /\ tick'.pc = stage /\ tick'.spec = spec /\ tick'.dead = tick.dead
    BY <2>2, MovedTick
  <2>4. issued' \in 0..MaxEvents /\ quiet' \subseteq Values \cup {Odd} /\ misread' \in BOOLEAN
    <3>1. ASSUME NEW v \in {page, Odd}, Reads(v), Takes(tick.spec, v)
          PROVE  issued' \in 0..MaxEvents /\ quiet' \subseteq Values \cup {Odd} /\ misread' \in BOOLEAN
      <4>1. v \in Values \cup {Odd} /\ issued \in 0..MaxEvents /\ quiet \subseteq Values \cup {Odd}
        BY DEF WatchTypes
      <4>2. issued' \in 0..MaxEvents
        BY <3>1, <4>1 DEF Takes
      <4>3. quiet' \subseteq Values \cup {Odd}
        BY <3>1, <4>1 DEF Takes
      <4>4. QED
        BY <3>1, <4>2, <4>3 DEF Reads, WatchTypes
    <3>2. QED
      BY <1>2, <3>1 DEF ReadPage, WatchTypes
  <2>5. WatchTypes'
    BY <1>2, <2>3, <2>4 DEF ReadPage, WatchTypes
  <2>6. QED
    BY <1>2, <2>1, <2>2, <2>3, <2>5 DEF ReadPage, Carries, StaysEnded
<1>3. CASE Tell
  <2>1. tick.spec \in WatchItems /\ tick.spec.status = "active"
    BY <1>3 DEF Tell, At, WatchTypes, WatchTicks, Carries
  <2>2. PICK ok \in BOOLEAN, stage \in {"read", "mapped"} :
          /\ IF by.channel = "notify" THEN Notify(tick.spec.pend, ok) ELSE Email(tick.spec.pend, ok)
          /\ Moves(stage, Cleared(tick.spec, ok))
    BY <1>3 DEF Tell
  <2>3. Cleared(tick.spec, ok) \in WatchItems /\ Cleared(tick.spec, ok).status = "active"
    BY <2>1, OtherItems
  <2>4. /\ tick' \in WatchTicks /\ tick'.pc = stage /\ tick'.spec = Cleared(tick.spec, ok)
        /\ tick'.dead = tick.dead
    BY <2>2, <2>3, MovedTick
  <2>5. tick.spec.pend.id \in 0..MaxEvents
    BY <2>1 DEF WatchItems
  <2>6. told' \in [Values \cup {Odd} -> Nat] /\ last' \in 0..MaxEvents
    <3>1. told \in [Values \cup {Odd} -> Nat] /\ last \in 0..MaxEvents
      BY DEF WatchTypes
    <3>2. Gets(tick.spec.pend) \/ GetsNot
      BY <2>2 DEF Notify, Email
    <3>3. QED
      BY <2>5, <3>1, <3>2 DEF Gets, GetsNot
  <2>7. mail' \in [1..MaxEvents -> {"none", "sent", "unsure"}]
    BY <2>2 DEF Notify, Email, WatchTypes
  <2>8. WatchTypes'
    BY <1>3, <2>4, <2>6, <2>7 DEF Tell, WatchTypes
  <2>9. QED
    BY <1>3, <2>1, <2>3, <2>4, <2>8 DEF Tell, Carries, StaysEnded
<1>4. CASE Commit
  <2>1. tick.spec \in WatchItems
    BY DEF WatchTypes, WatchTicks
  <2>2. WatchTypes'
    BY <1>4, <2>1, Written DEF Commit, WatchTypes
  <2>3. StaysEnded'
    <3>1. CASE tick.dead
      BY <1>4, <3>1 DEF Commit, StaysEnded, NoTick
    <3>2. CASE ~tick.dead
      BY <1>4, <2>1, <3>2, Written DEF Commit, StaysEnded, NoTick
    <3>3. QED
      BY <3>1, <3>2
  <2>4. QED
    BY <1>4, <2>2, <2>3 DEF Commit, Carries, NoTick
<1>5. QED
  BY <1>1, <1>2, <1>3, <1>4

LEMMA WatchInvariance == WatchSpec => []WatchInv
<1>1. WatchInv /\ [WatchNext]_watchVars => WatchInv'
  <2> SUFFICES ASSUME WatchInv, [WatchNext]_watchVars PROVE WatchInv'
    OBVIOUS
  <2>1. CASE UNCHANGED watchVars
    BY <2>1 DEF watchVars, WatchInv, WatchTypes, Carries, StaysEnded, Values, Odd
  <2>2. CASE WatchNext
    BY <2>2, UserStep, BesideStep, TickStep DEF WatchNext
  <2>3. QED
    BY <2>1, <2>2
<1>2. QED
  BY <1>1, WatchInitInv, PTL DEF WatchSpec

\* The types of a watch, for any values, events and faults.
THEOREM WatchTypeCorrect == WatchSpec => []WatchTypeOK
<1>1. WatchInv => WatchTypeOK
  <2> SUFFICES ASSUME WatchInv PROVE WatchTypeOK
    OBVIOUS
  <2>1. lost \in 0..MaxFaults
    BY WatchBounds DEF WatchInv, WatchTypes
  <2> DEFINE item == WatchItems
  <2>2. tick \in [pc : {"idle", "retell", "read", "tell", "mapped"}, spec : item, dead : BOOLEAN]
    BY DEF WatchInv, WatchTypes, WatchTicks
  <2>3. QED
    BY <2>1, <2>2 DEF WatchInv, WatchTypes, WatchTypeOK, WatchItems
<1>2. QED
  BY <1>1, WatchInvariance, PTL

\* A watch that was ended with its end written and no tick in flight does not
\* come back, for any page, predicate, number of events, failed writes and
\* deaths: what a later tick puts back is the ended item, and a tick that still
\* holds an active copy has lost its collection.
THEOREM EndedForGood == WatchSpec => []StaysEnded
<1>1. WatchInv => StaysEnded
  BY DEF WatchInv
<1>2. QED
  BY <1>1, WatchInvariance, PTL
-----------------------------------------------------------------------------
(* No change is missed                                                      *)

Copies == {watch, stored, tick.spec}
Watched(x) == x.status \in {"active", "blocked"}

\* A copy knows of its baseline what happened to it: it came without an event, its
\* event waits, or the user was told.
Honest(x) ==
    /\ x.pend # NoEvent =>
         /\ x.pend.id \in 1..issued /\ x.pend.value \in Values \cup {Odd}
         /\ mail[x.pend.id] = "sent" => told[x.pend.value] > 0
    /\ Watched(x) /\ x.base \in Hits \ quiet =>
         IF x.pend = NoEvent THEN told[x.base] > 0 ELSE x.pend.value = x.base

\* An id is the id of one change, and an id not yet issued was never mailed.
Agree == \A x, y \in Copies :
    x.pend # NoEvent /\ y.pend # NoEvent /\ x.pend.id = y.pend.id => x.pend.value = y.pend.value
Unmailed == \A e \in 1..MaxEvents : e > issued => mail[e] = "none"

\* What is told is an event.
HasEvent == tick.pc \in {"retell", "tell"} => tick.spec.pend # NoEvent

MissInv == WatchInv /\ (\A x \in Copies : Honest(x)) /\ Agree /\ Unmailed /\ HasEvent

\* A copy that says what another said, or has nothing to say.
Derived(x) == \E y \in Copies : x.pend = y.pend /\ x.base = y.base /\ (Watched(x) => Watched(y))
Plain(x) == x.pend = NoEvent /\ ~(Watched(x) /\ x.base \in Hits \ quiet)

LEMMA CopiesTyped == ASSUME WatchInv PROVE Copies \subseteq WatchItems /\ tick \in WatchTicks
BY DEF WatchInv, WatchTypes, WatchTicks, Copies

LEMMA AbsentPlain == ~Watched(Absent) /\ Absent.pend = NoEvent
BY DEF Absent, Item, Watched

\* A step that tells nothing and makes no event.
LEMMA Silently ==
  ASSUME MissInv, WatchInv', HasEvent', UNCHANGED <<mail, told, issued>>, quiet \subseteq quiet',
         \A x \in Copies' : Derived(x) \/ Plain(x)'
  PROVE  MissInv'
<1>1. \A x \in Copies' : Honest(x)'
  <2> SUFFICES ASSUME NEW x \in Copies' PROVE Honest(x)'
    OBVIOUS
  <2>1. CASE Derived(x)
    <3>1. PICK y \in Copies : x.pend = y.pend /\ x.base = y.base /\ (Watched(x) => Watched(y))
      BY <2>1 DEF Derived
    <3>2. Honest(y)
      BY DEF MissInv
    <3>3. QED
      BY <3>1, <3>2 DEF Honest, Watched
  <2>2. CASE Plain(x)'
    BY <2>2 DEF Honest, Plain
  <2>3. QED
    BY <2>1, <2>2
<1>2. Agree'
  <2> SUFFICES ASSUME NEW x \in Copies', NEW y \in Copies', x.pend # NoEvent, y.pend # NoEvent,
                      x.pend.id = y.pend.id
               PROVE  x.pend.value = y.pend.value
    BY DEF Agree
  <2>1. Derived(x) /\ Derived(y)
    BY DEF Plain
  <2>2. PICK a \in Copies, b \in Copies : x.pend = a.pend /\ y.pend = b.pend
    BY <2>1 DEF Derived
  <2>3. QED
    BY <2>2 DEF MissInv, Agree
<1>3. Unmailed'
  BY DEF MissInv, Unmailed
<1>4. QED
  BY <1>1, <1>2, <1>3 DEF MissInv

\* A step that takes a reading of v into one of the copies.
LEMMA Taking ==
  ASSUME MissInv, WatchInv', HasEvent', UNCHANGED <<mail, told>>,
         NEW spec \in Copies, NEW v \in Values \cup {Odd}, Takes(spec, v),
         Copies' \subseteq Copies \cup {Observed(spec, v)}
  PROVE  MissInv'
<1>n. PICK new : new = Observed(spec, v)
  OBVIOUS
<1>0. /\ spec \in WatchItems /\ Copies \subseteq WatchItems /\ issued \in 0..MaxEvents
      /\ v \in 1..Odd /\ v # Nothing
  BY CopiesTyped, WatchBounds DEF MissInv, WatchInv, WatchTypes, Nothing
<1>1. quiet \subseteq quiet'
  BY DEF Takes
<1>2. CASE Makes(spec, v)
  <2>1. issued' = issued + 1 /\ issued' \in 1..MaxEvents
    BY <1>0, <1>2, WatchBounds DEF Takes
  <2>2. new.base = v /\ new.pend = [id |-> issued + 1, value |-> v]
    BY <1>0, <1>2, <1>n DEF Observed, Makes, WatchItems
  <2>3. new.pend # NoEvent /\ new.pend.id = issued + 1 /\ new.pend.value = v
    BY <1>0, <2>2 DEF NoEvent
  <2>4. mail[issued + 1] = "none"
    BY <1>0, <2>1 DEF MissInv, Unmailed
  <2>5. Honest(new)'
    BY <1>0, <2>1, <2>2, <2>3, <2>4 DEF Honest
  <2>6. \A x \in Copies : Honest(x)'
    BY <1>0, <1>1, <2>1 DEF MissInv, Honest, Watched
  <2>7. \A x \in Copies : x.pend # NoEvent => x.pend.id # issued + 1
    BY <1>0 DEF MissInv, Honest
  <2>8. Agree'
    BY <1>n, <2>3, <2>7 DEF MissInv, Agree
  <2>9. Unmailed'
    BY <1>0, <2>1 DEF MissInv, Unmailed
  <2>10. QED
    BY <1>n, <2>5, <2>6, <2>8, <2>9 DEF MissInv
<1>3. CASE ~Makes(spec, v)
  <2>1. issued' = issued
    BY <1>3 DEF Takes
  <2>2. new.pend = spec.pend /\ new.status = spec.status
    BY <1>0, <1>3, <1>n DEF Observed, WatchItems
  <2>3. new.base = spec.base \/ (new.base = v /\ v \in quiet')
    BY <1>0, <1>3, <1>n DEF Observed, Takes, WatchItems
  <2>4. Honest(new)'
    BY <1>1, <2>1, <2>2, <2>3 DEF MissInv, Honest, Watched
  <2>5. \A x \in Copies : Honest(x)'
    BY <1>1, <2>1 DEF MissInv, Honest, Watched
  <2>6. Agree'
    BY <1>n, <2>2 DEF MissInv, Agree
  <2>7. Unmailed'
    BY <2>1 DEF MissInv, Unmailed
  <2>8. QED
    BY <1>n, <2>4, <2>5, <2>6, <2>7 DEF MissInv
<1>4. QED
  BY <1>2, <1>3

\* A step that tells, or tries to.
LEMMA Telling ==
  ASSUME MissInv, WatchInv', HasEvent', Tell
  PROVE  MissInv'
<1>1. PICK ok \in BOOLEAN, stage \in {"read", "mapped"} :
        /\ IF by.channel = "notify" THEN Notify(tick.spec.pend, ok) ELSE Email(tick.spec.pend, ok)
        /\ Moves(stage, Cleared(tick.spec, ok))
  BY DEF Tell
<1>n. PICK new, event : event = tick.spec.pend /\ new = Cleared(tick.spec, ok)
  OBVIOUS
<1>2. /\ tick.spec \in Copies /\ tick.spec \in WatchItems /\ Copies \subseteq WatchItems
      /\ told \in [Values \cup {Odd} -> Nat] /\ mail \in [1..MaxEvents -> {"none", "sent", "unsure"}]
      /\ issued \in 0..MaxEvents
  BY CopiesTyped DEF MissInv, WatchInv, WatchTypes, WatchTicks, Copies
<1>3. event # NoEvent /\ event.id \in 1..issued /\ event.id \in 1..MaxEvents /\ event.value \in Values \cup {Odd}
  BY <1>n, <1>2, WatchBounds DEF Tell, At, MissInv, HasEvent, Honest
<1>4. UNCHANGED <<watch, stored, quiet, issued>> /\ tick'.spec = new
  BY <1>n, <1>1, <1>2 DEF Tell, Moves, MissInv, WatchInv, WatchTypes, WatchTicks
<1>5. new.status = tick.spec.status /\ new.base = tick.spec.base /\ new.pend = IF ok THEN NoEvent ELSE event
  BY <1>n, <1>1, <1>2 DEF Cleared, Acknowledged, WatchItems
<1>6. Copies' \subseteq Copies \cup {new}
  BY <1>4 DEF Copies
<1>7. \A u \in Values \cup {Odd} : told[u] > 0 => told'[u] > 0
  <2>1. told' = told \/ told' = [told EXCEPT ![event.value] = @ + 1]
    BY <1>n, <1>1 DEF Notify, Email, Gets, GetsNot
  <2>2. QED
    BY <1>2, <1>3, <2>1
<1>8. mail' = mail \/ (mail' = [mail EXCEPT ![event.id] = "sent"] /\ told'[event.value] > 0)
        \/ mail' = [mail EXCEPT ![event.id] = "unsure"]
  BY <1>n, <1>1, <1>2, <1>3 DEF Notify, Email, Gets, GetsNot
<1>9. ok => told'[event.value] > 0
  <2>1. mail[event.id] = "sent" => told[event.value] > 0
    BY <1>n, <1>2, <1>3 DEF MissInv, Honest
  <2>2. ok => told' = [told EXCEPT ![event.value] = @ + 1] \/ (mail[event.id] = "sent" /\ told' = told)
    BY <1>n, <1>1 DEF Notify, Email, Gets, GetsNot
  <2>3. QED
    BY <1>2, <1>3, <2>1, <2>2
<1>10. \A x \in Copies : Honest(x)'
  <2> SUFFICES ASSUME NEW x \in Copies PROVE Honest(x)'
    OBVIOUS
  <2>1. Honest(x) /\ x \in WatchItems
    BY <1>2 DEF MissInv
  <2>2. x.pend # NoEvent => x.pend.id \in 1..issued' /\ x.pend.value \in Values \cup {Odd}
    BY <1>4, <2>1 DEF Honest
  <2>3. x.pend # NoEvent /\ x.pend.id = event.id => x.pend.value = event.value
    BY <1>n, <1>2, <1>3 DEF MissInv, Agree
  <2>4. ASSUME x.pend # NoEvent, mail'[x.pend.id] = "sent" PROVE told'[x.pend.value] > 0
    <3>1. x.pend.id \in 1..MaxEvents /\ x.pend.value \in Values \cup {Odd}
      BY <1>2, <2>1, <2>4, WatchBounds DEF Honest
    <3>2. CASE x.pend.id = event.id /\ mail'[event.id] # mail[event.id]
      BY <1>2, <1>3, <1>8, <2>3, <2>4, <3>2
    <3>3. CASE ~(x.pend.id = event.id /\ mail'[event.id] # mail[event.id])
      <4>1. mail[x.pend.id] = "sent"
        BY <1>2, <1>3, <1>8, <2>4, <3>1, <3>3
      <4>2. QED
        BY <1>7, <2>1, <2>4, <3>1, <4>1 DEF Honest
    <3>4. QED
      BY <3>2, <3>3
  <2>5. Watched(x) /\ x.base \in Hits \ quiet' =>
          IF x.pend = NoEvent THEN told'[x.base] > 0 ELSE x.pend.value = x.base
    BY <1>4, <1>7, <2>1, WatchAssumption DEF Honest
  <2>6. QED
    BY <2>2, <2>4, <2>5 DEF Honest, Watched
<1>11. Honest(new)'
  <2>1. PICK old : old = tick.spec
    OBVIOUS
  <2>2. Honest(old) /\ Honest(old)'
    BY <1>2, <1>10, <2>1 DEF MissInv
  <2>3. CASE ok
    BY <1>n, <1>3, <1>4, <1>5, <1>9, <2>1, <2>2, <2>3 DEF Honest, Watched
  <2>4. CASE ~ok
    BY <1>n, <1>5, <2>1, <2>2, <2>4 DEF Honest, Watched
  <2>5. QED
    BY <2>3, <2>4
<1>12. Agree'
  <2>1. new.pend # NoEvent => new.pend = event
    BY <1>5
  <2>2. QED
    BY <1>n, <1>2, <1>6, <2>1 DEF MissInv, Agree
<1>13. Unmailed'
  <2> SUFFICES ASSUME NEW e \in 1..MaxEvents, e > issued PROVE mail'[e] = "none"
    BY <1>4 DEF Unmailed
  <2>1. mail[e] = "none" /\ e # event.id
    BY <1>2, <1>3 DEF MissInv, Unmailed
  <2>2. mail'[e] = mail[e]
    BY <1>2, <1>8, <2>1
  <2>3. QED
    BY <2>1, <2>2
<1>14. QED
  BY <1>6, <1>10, <1>11, <1>12, <1>13 DEF MissInv

LEMMA MissStep == MissInv /\ WatchInv' /\ [WatchNext]_watchVars => MissInv'
<1> SUFFICES ASSUME MissInv, WatchInv', [WatchNext]_watchVars PROVE MissInv'
  OBVIOUS
<1>0. WatchInv /\ HasEvent /\ Copies \subseteq WatchItems /\ watch \in Copies /\ stored \in Copies
      /\ tick.spec \in Copies /\ tick.spec \in WatchItems /\ tick \in WatchTicks
  BY CopiesTyped DEF MissInv, Copies
<1>a. \A x \in Copies : Derived(x)
  BY DEF Derived
<1>b. Plain(Absent)' /\ NoTick.spec = Absent /\ NoTick.pc = "idle"
  BY AbsentPlain DEF Plain, Watched, NoTick
<1> USE <1>0, <1>a, <1>b
<1>1. CASE UNCHANGED watchVars
  <2>1. HasEvent' /\ Copies' = Copies
    BY <1>1 DEF watchVars, HasEvent, Copies
  <2>2. QED
    BY <1>1, <2>1, Silently DEF watchVars
<1>2. CASE CreateWatch
  <2>1. PICK base \in {Nothing, page} :
          watch' = Item("active", base) /\ stored' = watch' /\ quiet' = quiet \cup ({base} \ {Nothing})
    BY <1>2 DEF CreateWatch, Keeps, Stores
  <2>0. PICK item : item = Item("active", base)
    OBVIOUS
  <2>2. item.base = base /\ item.pend = NoEvent
    BY <2>0 DEF Item
  <2>3. base \notin Hits \ quiet'
    BY <2>1, WatchAssumption DEF Values, Odd, Nothing
  <2>4. Plain(item)'
    BY <2>2, <2>3 DEF Plain
  <2>5. UNCHANGED <<tick, mail, told, issued>>
    BY <1>2 DEF CreateWatch
  <2>6. QED
    BY <2>0, <2>1, <2>4, <2>5, Silently DEF Copies, HasEvent
<1>3. CASE Revoke
  <2>0. PICK item : item = [watch EXCEPT !.status = "revoked", !.cand = NoCandidate, !.pend = NoEvent]
    OBVIOUS
  <2>1. item.status = "revoked" /\ item.pend = NoEvent
    BY <2>0 DEF WatchItems
  <2>2. watch' = item /\ stored' = item /\ UNCHANGED <<tick, mail, told, issued, quiet>>
    BY <1>3, <2>0 DEF Revoke, Keeps, Stores
  <2>3. Plain(item)'
    BY <2>1 DEF Plain, Watched
  <2>4. QED
    BY <2>2, <2>3, Silently DEF Copies, HasEvent
<1>4. CASE RemoveWatch
  <2>1. watch' = Absent /\ stored' \in {Absent, stored} /\ UNCHANGED <<tick, mail, told, issued, quiet>>
    BY <1>4 DEF RemoveWatch, Persists, Stores
  <2>2. QED
    BY <2>1, Silently DEF Copies, HasEvent
<1>5. CASE Stop
  <2>1. watch' = Absent /\ stored' \in {Absent, stored} /\ UNCHANGED <<mail, told, issued, quiet>>
    BY <1>5 DEF Stop, Persists, Stores
  <2>2. tick'.spec = tick.spec /\ tick'.pc = tick.pc
    BY <1>5 DEF Stop, WatchTicks
  <2>3. QED
    BY <2>1, <2>2, Silently DEF Copies, HasEvent
<1>6. CASE Check \/ SaveAll \/ PageChanges
  <2>1. UNCHANGED <<watch, tick, mail, told, issued, quiet>> /\ stored' \in {watch, stored}
    BY <1>6 DEF Check, Keeps, Stores, SaveAll, PageChanges
  <2>2. QED
    BY <2>1, Silently DEF Copies, HasEvent
<1>7. CASE Report
  <2>1. Takes(watch, reading) /\ watch' = Observed(watch, reading) /\ stored' = watch'
        /\ UNCHANGED <<tick, mail, told>>
    BY <1>7 DEF Report, Keeps, Stores
  <2>2. reading \in Values \cup {Odd}
    <3>1. reading \in 0..Odd /\ reading # 0
      BY <1>7 DEF Report, WatchInv, WatchTypes, Nothing
    <3>2. QED
      BY <3>1, WatchBounds DEF Values, Odd
  <2>3. Copies' \subseteq Copies \cup {Observed(watch, reading)} /\ HasEvent'
    BY <2>1 DEF Copies, HasEvent
  <2>4. QED
    BY <2>1, <2>2, <2>3, Taking
<1>8. CASE ReportNothing
  <2>1. UNCHANGED <<watch, stored>> \/ \E spec \in Failed(watch) : Accepts /\ watch' = spec /\ stored' = spec
    BY <1>8 DEF ReportNothing, Keeps, Stores
  <2>2. \A spec \in Failed(watch) : Accepts => Derived(spec)
    BY DEF Failed, Accepts, Derived, Watched, WatchItems
  <2>3. UNCHANGED <<tick, mail, told, issued, quiet>>
    BY <1>8 DEF ReportNothing
  <2>4. QED
    BY <2>1, <2>2, <2>3, Silently DEF Copies, HasEvent
<1>9. CASE StartTick
  <2>1. PICK stage \in {"retell", "read", "mapped"} :
          Moves(stage, watch) /\ (stage = "retell" => watch.pend # NoEvent)
    BY <1>9 DEF StartTick
  <2>2. tick'.pc = stage /\ tick'.spec = watch
    BY <2>1, MovedTick
  <2>3. UNCHANGED <<watch, stored, mail, told, issued, quiet>>
    BY <1>9 DEF StartTick
  <2>4. QED
    BY <2>1, <2>2, <2>3, Silently DEF Copies, HasEvent
<1>10. CASE ReadPage
  <2>1. UNCHANGED <<watch, stored, mail, told>> /\ tick.pc = "read" /\ tick.spec.status = "active"
    BY <1>10 DEF ReadPage, At, WatchInv, Carries
  <2>2. CASE \E v \in {page, Odd} : Takes(tick.spec, v)
             /\ LET spec == Observed(tick.spec, v)
                IN Moves(IF spec.pend = NoEvent THEN "mapped" ELSE "tell", spec)
    <3>1. PICK v \in {page, Odd} : Takes(tick.spec, v)
             /\ LET spec == Observed(tick.spec, v)
                IN Moves(IF spec.pend = NoEvent THEN "mapped" ELSE "tell", spec)
      BY <2>2
    <3> DEFINE spec == Observed(tick.spec, v)
    <3>2. v \in Values \cup {Odd} /\ v \in 0..Odd /\ issued \in 0..MaxEvents
      BY WatchBounds DEF WatchInv, WatchTypes
    <3>3. spec \in WatchItems
      BY <3>1, <3>2, ObservedItem DEF Takes
    <3>4. Moves(IF spec.pend = NoEvent THEN "mapped" ELSE "tell", spec)
      BY <3>1
    <3> HIDE DEF spec
    <3>5. tick'.spec = spec /\ (tick'.pc \in {"retell", "tell"} => spec.pend # NoEvent)
      BY <3>3, <3>4, MovedTick
    <3>6. HasEvent' /\ Copies' \subseteq Copies \cup {spec}
      BY <2>1, <3>5 DEF HasEvent, Copies
    <3>7. QED
      BY <2>1, <3>1, <3>2, <3>6, Taking DEF spec
  <2>3. CASE \E spec \in Failed(tick.spec) : Moves("mapped", spec) /\ UNCHANGED <<issued, quiet>>
    <3>1. PICK spec \in Failed(tick.spec) : Moves("mapped", spec) /\ UNCHANGED <<issued, quiet>>
      BY <2>3
    <3>2. spec \in WatchItems
      BY <3>1, OtherItems
    <3>3. Derived(spec)
      BY <2>1, <3>1 DEF Failed, Derived, Watched, WatchItems
    <3>4. tick'.spec = spec /\ tick'.pc = "mapped"
      BY <3>1, <3>2, MovedTick
    <3>5. QED
      BY <2>1, <3>1, <3>3, <3>4, Silently DEF Copies, HasEvent
  <2>4. QED
    BY <1>10, <2>2, <2>3 DEF ReadPage
<1>11. CASE Tell
  <2>1. HasEvent'
    <3>1. PICK ok \in BOOLEAN, stage \in {"read", "mapped"} : Moves(stage, Cleared(tick.spec, ok))
      BY <1>11 DEF Tell
    <3>2. tick'.pc = stage
      BY <3>1, OtherItems, MovedTick
    <3>3. QED
      BY <3>2 DEF HasEvent
  <2>2. QED
    BY <1>11, <2>1, Telling
<1>12. CASE Commit
  <2>1. watch' \in {watch, tick.spec} /\ stored' \in {stored, tick.spec} /\ tick' = NoTick
    BY <1>12 DEF Commit, Persists, Stores
  <2>2. UNCHANGED <<mail, told, issued, quiet>>
    BY <1>12 DEF Commit
  <2>3. QED
    BY <2>1, <2>2, Silently DEF Copies, HasEvent
<1>13. CASE Die
  <2>1. watch' = stored /\ stored' = stored /\ tick' = NoTick /\ UNCHANGED <<mail, told, issued, quiet>>
    BY <1>13 DEF Die
  <2>2. QED
    BY <2>1, Silently DEF Copies, HasEvent
<1>14. QED
  BY <1>1, <1>2, <1>3, <1>4, <1>5, <1>6, <1>7, <1>8, <1>9, <1>10, <1>11, <1>12, <1>13 DEF WatchNext

LEMMA MissInvariance == WatchSpec => []MissInv
<1>1. WatchInit => MissInv
  <2> SUFFICES ASSUME WatchInit PROVE MissInv
    OBVIOUS
  <2>1. Copies = {Absent} /\ tick.pc = "idle"
    BY AbsentItem DEF WatchInit, Copies, NoTick
  <2>2. Honest(Absent)
    BY AbsentPlain DEF Honest
  <2>3. QED
    BY <2>1, <2>2, WatchInitInv, AbsentPlain DEF WatchInit, MissInv, Agree, Unmailed, HasEvent
<1>2. QED
  BY <1>1, WatchInvariance, MissStep, PTL DEF WatchSpec

\* A change the predicate asks for enters the baseline with an event that stays
\* until the user was told, unless an older event waits, for any page, predicate,
\* failed writes, deaths and answers of the mail provider.
THEOREM NothingMissedEver == WatchSpec => []NothingMissed
<1>1. MissInv => NothingMissed
  BY DEF MissInv, Copies, Honest, Watched, NothingMissed
<1>2. QED
  BY <1>1, MissInvariance, PTL

-----------------------------------------------------------------------------
(* The user is told rightly                                                 *)

\* The copy that acts next: the tick's while there is one.
Acting == IF Ticking THEN tick.spec ELSE watch
Alive(x) == x.status \notin {"absent", "revoked"}

\* A value that is on the page, will be, or is on its way from the browser.
Readable(v) == v >= page \/ reading = v

\* A copy whose event the user may yet get, or that may yet make one of v.
Owes(x, v) ==
    /\ x.pend # NoEvent /\ x.pend.value = v
    /\ by.channel = "notify" \/ mail[x.pend.id] = "none"
MayTell(x, v) == Owes(x, v) \/ (Alive(x) /\ Readable(v) /\ x.base # v)

\* Before the watch is created there is nothing; who reads does not change.
Begun ==
    /\ life = "unborn" =>
         /\ watch = Absent /\ stored = Absent /\ tick.spec = Absent /\ reading = Nothing
         /\ \A v \in Values : told[v] = 0
    /\ tick.dead => watch = Absent /\ life # "unborn"
    /\ by \in [executor : {"server", "browser"}, channel : {"notify", "email"}]
    /\ by.executor = "server" => reading = Nothing
    /\ tick.pc = "read" => by.executor = "server"

\* The page is misread once: that reading is on its way or in one candidate's
\* history, so no second one confirms it.
MisreadOnce ==
    /\ told[Odd] = 0
    /\ reading = Odd => misread
    /\ \A x \in Copies :
         /\ x.cand.value = Odd => misread /\ reading # Odd
         /\ x.pend.value # Odd

\* A baseline is not ahead of the page nor of a reading on its way, and a change
\* whose event waits is the baseline unless it can no more be read.
Ascending ==
    /\ reading \in Values => reading <= page
    /\ \A x \in Copies :
         /\ x.base \in Values => x.base <= page /\ (reading \in Values => x.base <= reading)
         /\ x.pend # NoEvent => Alive(x) /\ (x.base = x.pend.value \/ ~Readable(x.pend.value))

\* What no copy was acknowledged yet is newer than what any was.
Numbered ==
    /\ \A x \in Copies : x.notified <= issued /\ (x.pend # NoEvent => x.notified < x.pend.id)
    /\ \A x \in {watch, stored} : Acting.pend # NoEvent => x.notified < Acting.pend.id

\* The copy that acts, and a copy that knows of the last telling, tells of no
\* change twice; what a death made another copy forget is counted.
Counted ==
    \A v \in Values :
      /\ told[v] <= 1 + lost
      /\ MayTell(Acting, v) => told[v] <= lost
      /\ \A x \in {watch, stored} : x.notified = last /\ MayTell(x, v) => told[v] <= lost

\* What the browser reports is written before it is emailed: a copy that has v as
\* its baseline is the stored one, or the stored one has it too, and the events of
\* one value are one event.
EmailedByBrowser == by = [executor |-> "browser", channel |-> "email"]
Kept(v) ==
    /\ \A x \in {watch, tick.spec} : Alive(x) /\ x.base = v /\ Alive(stored) => stored.base = v
    /\ Alive(tick.spec) /\ tick.spec.base = v /\ Alive(watch) => watch.base = v
OneEvent ==
    \A x, y \in Copies :
      x.pend # NoEvent /\ y.pend # NoEvent /\ x.pend.value = y.pend.value => x.pend.id = y.pend.id
EmailedOnce ==
    EmailedByBrowser =>
      /\ OneEvent
      /\ \A v \in Values :
           /\ told[v] <= 1
           /\ \A x \in Copies : MayTell(x, v) => told[v] = 0
           /\ Readable(v) => Kept(v)

TellInv == MissInv /\ Begun /\ MisreadOnce /\ Ascending /\ Numbered /\ Counted /\ EmailedOnce

\* A copy that says no more than another.
Echo(x, y) ==
    \/ x = Absent
    \/ /\ x.base = y.base /\ x.notified = y.notified /\ x.cand \in {y.cand, NoCandidate}
       /\ x.pend \in {y.pend, NoEvent} /\ (Alive(x) => Alive(y)) /\ (x.pend # NoEvent => Alive(x))

\* How the page moves on, and what is read of it.
Turns ==
    /\ page <= page' /\ (misread => misread')
    /\ \/ reading' \in {reading, Nothing}
       \/ reading' = page /\ page' = page
       \/ reading' = Odd /\ ~misread /\ misread'

\* A step that reports nothing to a copy and tells nothing: the item becomes what
\* it was or what the tick made of it, and all that is written is the item.
Quiet ==
    /\ UNCHANGED <<by, mail, issued, told, last, lost>> /\ Turns
    /\ \/ Echo(watch', watch)
       \/ Echo(watch', tick.spec) /\ Acting = tick.spec /\ tick' = NoTick
    /\ stored' \in {stored, watch'}
    /\ \/ Echo(tick'.spec, tick.spec)
       \/ tick'.spec = watch /\ UNCHANGED <<watch, stored>>
    /\ Echo(Acting', Acting)

LEMMA ReadableLess ==
  ASSUME Turns, WatchTypes, WatchTypes', NEW v \in Values
  PROVE  Readable(v)' => Readable(v)
BY WatchBounds DEF Turns, Readable, WatchTypes, Values, Nothing, Odd

\* An echo owes no more, and may tell of no more.
LEMMA EchoTellsLess ==
  ASSUME Turns, WatchTypes, WatchTypes', UNCHANGED <<by, mail>>, NEW x, NEW y, Echo(x, y), NEW v \in Values
  PROVE  MayTell(x, v)' => MayTell(y, v)
<1>1. Readable(v)' => Readable(v)
  BY ReadableLess
<1>2. CASE x = Absent
  BY <1>2, AbsentItem, AbsentPlain DEF MayTell, Owes, Alive
<1>3. CASE x # Absent
  BY <1>1, <1>3 DEF Echo, MayTell, Owes, Alive
<1>4. QED
  BY <1>2, <1>3

\* Of a quiet step, every copy is an echo of one.
LEMMA QuietEchoes ==
  ASSUME TellInv, Quiet
  PROVE  /\ \A x \in Copies : Echo(x, x)
         /\ \A x \in Copies' : \E y \in Copies : Echo(x, y)
         /\ \A x \in {watch', stored'} : \E y \in {watch, stored, Acting} : Echo(x, y)
<1>1. ASSUME NEW x \in Copies PROVE Echo(x, x)
  BY DEF TellInv, Ascending, Echo
<1>2. watch \in Copies /\ stored \in Copies /\ tick.spec \in Copies /\ Acting \in Copies
  BY DEF Copies, Acting
<1>3. \A x \in {watch', stored'} : \E y \in {watch, stored, Acting} : Echo(x, y)
  BY <1>1, <1>2 DEF Quiet
<1>4. \E y \in Copies : Echo(tick'.spec, y)
  BY <1>1, <1>2 DEF Quiet
<1>5. QED
  BY <1>1, <1>2, <1>3, <1>4 DEF Copies

LEMMA QuietMisread == ASSUME TellInv, Quiet PROVE MisreadOnce'
<1>1. told'[Odd] = 0
  BY DEF TellInv, MisreadOnce, Quiet
<1>2. reading' = Odd => misread'
  BY WatchBounds DEF TellInv, MisreadOnce, MissInv, WatchInv, WatchTypes, Quiet, Turns, Values, Odd, Nothing
<1>3. ASSUME NEW x \in Copies' PROVE (x.cand.value = Odd => misread' /\ reading' # Odd) /\ x.pend.value # Odd
  <2>1. PICK y \in Copies : Echo(x, y)
    BY <1>3, QuietEchoes
  <2>2. (y.cand.value = Odd => misread /\ reading # Odd) /\ y.pend.value # Odd
    BY DEF TellInv, MisreadOnce
  <2>3. NoCandidate.value # Odd /\ NoEvent.value # Odd /\ Absent.cand = NoCandidate /\ Absent.pend = NoEvent
    BY WatchBounds DEF NoCandidate, NoEvent, Nothing, Odd, Absent, Item
  <2>4. x.cand.value = Odd => y.cand.value = Odd
    BY <2>1, <2>3 DEF Echo
  <2>5. x.pend.value # Odd
    BY <2>1, <2>2, <2>3 DEF Echo
  <2>6. misread /\ reading # Odd => misread' /\ reading' # Odd
    BY WatchBounds DEF TellInv, MissInv, WatchInv, WatchTypes, Quiet, Turns, Values, Odd, Nothing
  <2>7. QED
    BY <2>2, <2>4, <2>5, <2>6
<1>4. QED
  BY <1>1, <1>2, <1>3 DEF MisreadOnce

LEMMA QuietAscending == ASSUME TellInv, WatchTypes', Quiet PROVE Ascending'
<1>1. WatchTypes /\ Turns
  BY DEF TellInv, MissInv, WatchInv, Quiet
<1>2. reading' \in Values => reading' <= page'
  BY <1>1, WatchBounds DEF TellInv, Ascending, WatchTypes, Turns, Values, Odd, Nothing
<1>3. ASSUME NEW x \in Copies'
      PROVE  /\ x.base \in Values => x.base <= page' /\ (reading' \in Values => x.base <= reading')
             /\ x.pend # NoEvent => Alive(x) /\ (x.base = x.pend.value \/ ~Readable(x.pend.value)')
  <2>1. PICK y \in Copies : Echo(x, y)
    BY <1>3, QuietEchoes
  <2>2. CASE x = Absent
    BY <2>2, WatchBounds DEF Absent, Item, Nothing, Values
  <2>3. CASE x # Absent
    <3>1. x.base = y.base /\ (x.pend # NoEvent => x.pend = y.pend /\ Alive(x))
      BY <2>1, <2>3 DEF Echo
    <3>2. x.base \in Values => x.base <= page' /\ (reading' \in Values => x.base <= reading')
      <4> SUFFICES ASSUME x.base \in Values
                   PROVE  x.base <= page' /\ (reading' \in Values => x.base <= reading')
        OBVIOUS
      <4>1. x.base <= page /\ (reading \in Values => x.base <= reading) /\ x.base \in Nat
        BY <3>1, WatchBounds DEF TellInv, Ascending, Values
      <4>2. page \in Nat /\ page' \in Nat /\ page <= page'
        BY <1>1, WatchBounds DEF WatchTypes, Turns, Values
      <4>3. Nothing \notin Values /\ Odd \notin Values
        BY WatchBounds DEF Nothing, Values, Odd
      <4>4. reading' \in Values => reading' = reading \/ reading' = page
        BY <1>1, <4>3 DEF Turns
      <4>5. QED
        BY <4>1, <4>2, <4>4
    <3>3. ASSUME x.pend # NoEvent PROVE x.base = x.pend.value \/ ~Readable(x.pend.value)'
      <4>1. y.pend.value \in Values \cup {Odd} /\ y.pend.value # Odd
        BY <3>1, <3>3 DEF TellInv, MissInv, Honest, MisreadOnce
      <4>2. y.base = y.pend.value \/ ~Readable(y.pend.value)
        BY <3>1, <3>3 DEF TellInv, Ascending
      <4>3. Readable(y.pend.value)' => Readable(y.pend.value)
        BY <1>1, <4>1, ReadableLess
      <4>4. QED
        BY <3>1, <3>3, <4>2, <4>3
    <3>4. QED
      BY <3>1, <3>2, <3>3
  <2>4. QED
    BY <2>2, <2>3
<1>4. QED
  BY <1>2, <1>3 DEF Ascending

LEMMA QuietNumbered == ASSUME TellInv, WatchTypes', Quiet PROVE Numbered'
<1>0. Absent.notified = 0 /\ Absent.pend = NoEvent /\ issued \in Nat /\ issued' = issued
      /\ Acting \in Copies /\ watch \in Copies /\ stored \in Copies /\ Copies \subseteq WatchItems
  BY WatchBounds, CopiesTyped DEF Absent, Item, Nothing, TellInv, MissInv, WatchInv, WatchTypes, Quiet, Copies, Acting
<1>1. ASSUME NEW x \in Copies' PROVE x.notified <= issued' /\ (x.pend # NoEvent => x.notified < x.pend.id)
  <2>1. PICK y \in Copies : Echo(x, y)
    BY <1>1, QuietEchoes
  <2>2. QED
    BY <1>0, <2>1 DEF TellInv, Numbered, Echo
<1>2. ASSUME NEW x \in {watch', stored'}, Acting'.pend # NoEvent PROVE x.notified < Acting'.pend.id
  <2>1. PICK y \in {watch, stored, Acting} : Echo(x, y)
    BY QuietEchoes
  <2>2. Acting.pend # NoEvent /\ Acting'.pend = Acting.pend
    BY <1>0, <1>2 DEF Quiet, Echo
  <2>3. y.notified < Acting.pend.id
    BY <1>0, <2>2 DEF TellInv, Numbered
  <2>4. Acting.pend.id \in 1..issued
    BY <1>0, <2>2 DEF TellInv, MissInv, Honest
  <2>5. CASE x = Absent
    BY <1>0, <2>2, <2>4, <2>5
  <2>6. CASE x # Absent
    BY <2>1, <2>2, <2>3, <2>6 DEF Echo
  <2>7. QED
    BY <2>5, <2>6
<1>3. QED
  BY <1>1, <1>2 DEF Numbered

LEMMA QuietCounted == ASSUME TellInv, WatchTypes', Quiet PROVE Counted'
<1>0. WatchTypes /\ Turns /\ UNCHANGED <<by, mail, told, last, lost>>
  BY DEF TellInv, MissInv, WatchInv, Quiet
<1> SUFFICES ASSUME NEW v \in Values
             PROVE  /\ told'[v] <= 1 + lost'
                    /\ MayTell(Acting, v)' => told'[v] <= lost'
                    /\ \A x \in {watch', stored'} : x.notified = last' /\ MayTell(x, v)' => told'[v] <= lost'
  BY DEF Counted
<1>1. told'[v] <= 1 + lost'
  BY <1>0 DEF TellInv, Counted
<1>2. MayTell(Acting, v)' => MayTell(Acting, v)
  <2>1. PICK x : x = Acting'
    OBVIOUS
  <2>2. MayTell(x, v)' => MayTell(Acting, v)
    BY <1>0, <2>1, EchoTellsLess DEF Quiet
  <2>3. QED
    BY <2>1, <2>2 DEF MayTell, Owes, Readable
<1>3. ASSUME NEW x \in {watch', stored'}, x.notified = last', MayTell(x, v)' PROVE told'[v] <= lost'
  <2>1. PICK y \in {watch, stored, Acting} : Echo(x, y)
    BY QuietEchoes
  <2>2. MayTell(y, v)
    BY <1>0, <1>3, <2>1, EchoTellsLess
  <2>3. x # Absent
    BY <1>3, AbsentPlain, AbsentItem DEF MayTell, Owes, Alive
  <2>4. y.notified = last
    BY <1>0, <1>3, <2>1, <2>3 DEF Echo
  <2>5. QED
    BY <1>0, <2>2, <2>4 DEF TellInv, Counted
<1>4. QED
  BY <1>0, <1>1, <1>2, <1>3 DEF TellInv, Counted

\* The events of echoes are events of the copies they echo.
LEMMA EchoedEvents ==
  ASSUME OneEvent, \A x \in Copies' : \E y \in Copies : Echo(x, y)
  PROVE  OneEvent'
<1> SUFFICES ASSUME NEW x \in Copies', NEW y \in Copies', x.pend # NoEvent, y.pend # NoEvent,
                    x.pend.value = y.pend.value
             PROVE  x.pend.id = y.pend.id
  BY DEF OneEvent
<1>1. PICK a \in Copies : Echo(x, a)
  OBVIOUS
<1>2. PICK b \in Copies : Echo(y, b)
  OBVIOUS
<1>3. x.pend = a.pend /\ y.pend = b.pend
  BY <1>1, <1>2, AbsentPlain DEF Echo
<1>4. QED
  BY <1>3 DEF OneEvent

LEMMA QuietEmailed == ASSUME TellInv, WatchTypes', Quiet PROVE EmailedOnce'
<1>0. WatchTypes /\ Turns /\ UNCHANGED <<by, mail, told>> /\ \A x \in Copies' : \E y \in Copies : Echo(x, y)
  BY QuietEchoes DEF TellInv, MissInv, WatchInv, Quiet
<1> SUFFICES ASSUME EmailedByBrowser
             PROVE  /\ OneEvent'
                    /\ \A v \in Values :
                         /\ told'[v] <= 1
                         /\ \A x \in Copies' : MayTell(x, v)' => told'[v] = 0
                         /\ Readable(v)' => Kept(v)'
  BY <1>0 DEF EmailedOnce, EmailedByBrowser
<1>1. /\ OneEvent
      /\ \A v \in Values :
           /\ told[v] <= 1
           /\ \A x \in Copies : MayTell(x, v) => told[v] = 0
           /\ Readable(v) => Kept(v)
  BY DEF TellInv, EmailedOnce
<1>2. OneEvent'
  BY <1>0, <1>1, EchoedEvents
<1>3. ASSUME NEW v \in Values, NEW x \in Copies', MayTell(x, v)' PROVE told'[v] = 0
  <2>1. PICK y \in Copies : Echo(x, y)
    BY <1>0
  <2>2. MayTell(y, v)
    BY <1>0, <1>3, <2>1, EchoTellsLess
  <2>3. told[v] = 0
    BY <1>1, <2>2, Zenon
  <2>4. QED
    BY <1>0, <2>3
<1>4. ASSUME NEW v \in Values, Readable(v)' PROVE Kept(v)'
  <2>0. Readable(v)
    BY <1>0, <1>4, ReadableLess
  <2>1. Kept(v)
    BY <1>1, <2>0, Zenon
  <2>n. PICK w, k, s : w = watch' /\ k = tick'.spec /\ s = stored'
    OBVIOUS
  <2>2. ~Alive(Absent)
    BY AbsentItem DEF Alive
  <2>3. Echo(w, watch) \/ (Echo(w, tick.spec) /\ k = Absent)
    BY <2>n, AbsentItem DEF Quiet
  <2>4. s = stored \/ s = w
    BY <2>n DEF Quiet
  <2>5. Echo(k, tick.spec) \/ (k = watch /\ w = watch /\ s = stored)
    BY <2>n DEF Quiet
  <2>6. Alive(w) /\ w.base = v /\ Alive(s) => s.base = v
    BY <2>1, <2>2, <2>3, <2>4 DEF Kept, Echo
  <2>7. Alive(k) /\ k.base = v /\ Alive(w) => w.base = v
    BY <2>1, <2>2, <2>3, <2>5 DEF Kept, Echo
  <2>8. Alive(k) /\ k.base = v /\ Alive(s) => s.base = v
    BY <2>1, <2>2, <2>3, <2>4, <2>5, <2>7 DEF Kept, Echo
  <2>9. QED
    BY <2>n, <2>6, <2>7, <2>8 DEF Kept, Alive
<1>5. QED
  BY <1>0, <1>1, <1>2, <1>3, <1>4

LEMMA QuietStep == ASSUME TellInv, MissInv', Begun', Quiet PROVE TellInv'
<1>1. WatchTypes'
  BY DEF MissInv, WatchInv
<1>2. QED
  BY <1>1, QuietMisread, QuietAscending, QuietNumbered, QuietCounted, QuietEmailed DEF TellInv

\* The server's death: the item is the stored one, and what it forgot is counted.
LEMMA DieTells == ASSUME TellInv, MissInv', Begun', Die PROVE TellInv'
<1>0. WatchTypes /\ WatchTypes' /\ stored \in WatchItems /\ stored \in Copies
  BY DEF TellInv, MissInv, WatchInv, WatchTypes, Copies
<1>1. /\ watch' = stored /\ stored' = stored /\ tick'.spec = Absent /\ Acting' = stored
      /\ UNCHANGED <<by, page, mail, issued, misread, told>> /\ reading' = Nothing
      /\ last' = stored.notified /\ lost' = lost + (IF last = stored.notified THEN 0 ELSE 1)
  BY DEF Die, NoTick, Acting, Ticking
<1>2. Copies' = {stored, Absent} /\ Turns
  BY <1>0, <1>1, WatchBounds DEF Copies, Turns, WatchTypes, Values
<1>3. Echo(stored, stored) /\ Echo(Absent, stored)
  BY <1>0 DEF TellInv, Ascending, Echo
<1>4. MisreadOnce'
  BY <1>0, <1>1, <1>2, WatchBounds DEF TellInv, MisreadOnce, Absent, Item, NoCandidate, NoEvent, Nothing, Odd
<1>5. Ascending'
  <2>1. Nothing \notin Values
    BY WatchBounds DEF Nothing, Values
  <2>2. Absent.base \notin Values /\ Absent.pend = NoEvent
    BY <2>1 DEF Absent, Item
  <2>3. stored.pend # NoEvent => stored.pend.value \in Values
    BY <1>0 DEF TellInv, MissInv, Honest, MisreadOnce
  <2>a. \A v \in Values : Readable(v)' => Readable(v)
    BY <1>0, <1>2, ReadableLess
  <2>b. stored.pend # NoEvent =>
          Alive(stored) /\ (stored.base = stored.pend.value \/ ~Readable(stored.pend.value))
    BY <1>0 DEF TellInv, Ascending
  <2>c. PICK value : value = stored.pend.value
    OBVIOUS
  <2>d. value \in Values => (Readable(value)' => Readable(value))
    BY <2>a
  <2>4. stored.pend # NoEvent => Alive(stored) /\ (stored.base = value \/ ~Readable(value)')
    BY <2>3, <2>b, <2>c, <2>d
  <2>5. stored.base \in Values => stored.base <= page'
    BY <1>0, <1>1 DEF TellInv, Ascending
  <2>6. QED
    BY <1>1, <1>2, <2>1, <2>2, <2>4, <2>5, <2>c DEF Ascending, Readable
<1>6. Numbered'
  <2>1. Absent.notified = 0 /\ Absent.pend = NoEvent /\ issued \in Nat
    BY <1>0, WatchBounds DEF Absent, Item, Nothing, WatchTypes
  <2>2. QED
    BY <1>0, <1>1, <1>2, <2>1 DEF TellInv, Numbered
<1>7. Counted'
  <2> SUFFICES ASSUME NEW v \in Values
               PROVE  told'[v] <= 1 + lost' /\ (MayTell(stored, v)' => told'[v] <= lost')
    BY <1>1 DEF Counted
  <2>1. told[v] <= 1 + lost /\ (stored.notified = last /\ MayTell(stored, v) => told[v] <= lost)
    BY DEF TellInv, Counted
  <2>2. told[v] \in Nat /\ lost \in Nat
    BY <1>0 DEF WatchTypes
  <2>3. MayTell(stored, v)' => MayTell(stored, v)
    <3>1. PICK x : x = stored
      OBVIOUS
    <3>2. MayTell(x, v)' => MayTell(x, v)
      BY <1>0, <1>1, <1>2, <1>3, <3>1, EchoTellsLess
    <3>3. QED
      BY <1>1, <3>1, <3>2 DEF MayTell, Owes, Readable
  <2>4. QED
    BY <1>1, <2>1, <2>2, <2>3
<1>8. EmailedOnce'
  <2> SUFFICES ASSUME EmailedByBrowser
               PROVE  /\ OneEvent'
                      /\ \A v \in Values :
                           /\ told'[v] <= 1
                           /\ \A x \in Copies' : MayTell(x, v)' => told'[v] = 0
                           /\ Readable(v)' => Kept(v)'
    BY <1>1 DEF EmailedOnce, EmailedByBrowser
  <2>1. /\ OneEvent
        /\ \A v \in Values : told[v] <= 1 /\ \A x \in Copies : MayTell(x, v) => told[v] = 0
    BY DEF TellInv, EmailedOnce
  <2>2. OneEvent'
    BY <1>0, <1>2, <1>3, <2>1, EchoedEvents
  <2>3. ASSUME NEW v \in Values, NEW x \in Copies', MayTell(x, v)' PROVE told'[v] = 0
    <3>1. Echo(x, stored)
      BY <1>2, <1>3
    <3>2. MayTell(stored, v)
      BY <1>0, <1>1, <1>2, <2>3, <3>1, EchoTellsLess
    <3>3. QED
      BY <1>0, <1>1, <2>1, <3>2
  <2>4. \A v \in Values : Kept(v)'
    BY <1>1, AbsentItem DEF Kept, Alive
  <2>5. QED
    BY <1>1, <2>1, <2>2, <2>3, <2>4
<1>9. QED
  BY <1>4, <1>5, <1>6, <1>7, <1>8 DEF TellInv

\* What an observation makes of an item: the value becomes the baseline, with an
\* event or without, or waits to be confirmed.  A misread value does not, unless
\* there was no baseline.
LEMMA Observation ==
  ASSUME NEW spec \in WatchItems, NEW v \in Values \cup {Odd}, v = Odd => spec.cand.value # Odd,
         NEW new, new = Observed(spec, v)
  PROVE  /\ new.status = spec.status /\ new.notified = spec.notified
         /\ new.cand.value \in {Nothing, v}
         /\ \/ new.base = spec.base /\ new.pend = spec.pend /\ ~Makes(spec, v)
            \/ new.base = v /\ spec.base = Nothing /\ new.pend = spec.pend /\ ~Makes(spec, v)
            \/ /\ new.base = v /\ v \in Values /\ spec.base \notin {Nothing, v}
               /\ new.pend = spec.pend /\ ~Makes(spec, v)
            \/ /\ new.base = v /\ v \in Values /\ spec.base \notin {Nothing, v} /\ spec.pend = NoEvent
               /\ new.pend = [id |-> issued + 1, value |-> v] /\ Makes(spec, v)
<1>1. Confirms(spec, v) => v # Odd /\ spec.base \notin {Nothing, v}
  BY DEF Confirms, TimesSeen, FIELD_WATCH_CONFIRMATIONS, WatchItems
<1>2. CASE spec.base = Nothing \/ Confirms(spec, v)
  <2> DEFINE pend == IF Makes(spec, v) THEN [id |-> issued + 1, value |-> v] ELSE spec.pend
  <2>1. new = [spec EXCEPT !.base = v, !.cand = NoCandidate, !.pend = pend]
    BY <1>2 DEF Observed, WatchItems
  <2> HIDE DEF pend
  <2>2. /\ new.status = spec.status /\ new.notified = spec.notified
        /\ new.cand = NoCandidate /\ new.base = v /\ new.pend = pend
    BY <2>1 DEF WatchItems
  <2>3. NoCandidate.value = Nothing
    BY DEF NoCandidate
  <2>4. QED
    BY <1>1, <1>2, <2>2, <2>3 DEF pend, Makes
<1>3. CASE ~(spec.base = Nothing \/ Confirms(spec, v))
  <2> DEFINE cand == IF v = spec.base THEN NoCandidate ELSE [value |-> v, seen |-> TimesSeen(spec, v)]
  <2>1. new = [spec EXCEPT !.cand = cand]
    BY <1>3 DEF Observed, WatchItems
  <2>2. cand.value \in {Nothing, v}
    BY DEF NoCandidate
  <2> HIDE DEF cand
  <2>3. /\ new.status = spec.status /\ new.notified = spec.notified
        /\ new.cand = cand /\ new.base = spec.base /\ new.pend = spec.pend
    BY <2>1 DEF WatchItems
  <2>4. QED
    BY <1>3, <2>2, <2>3 DEF Makes
<1>4. QED
  BY <1>2, <1>3

\* A step in which one copy takes a value that may be read.
Absorbs(spec, new, v) ==
    /\ spec \in Copies /\ v \in Values \cup {Odd} /\ new = Observed(spec, v)
    /\ Takes(spec, v) /\ Alive(spec) /\ UNCHANGED <<by, page, mail, told, last, lost>>
    /\ v = Odd => spec.cand.value # Odd /\ misread'
    /\ v \in Values => Readable(v) /\ v <= page /\ (spec.base \in Values => spec.base <= v)
    /\ reading' = Nothing /\ (misread => misread')

LEMMA AbsorbedCopy ==
  ASSUME TellInv, WatchTypes', NEW spec, NEW new, NEW v, Absorbs(spec, new, v)
  PROVE  /\ Turns /\ issued' \in Nat /\ issued <= issued' /\ Alive(new)
         /\ (new.cand.value = Odd => misread') /\ new.pend.value # Odd
         /\ new.base \in Values => new.base <= page'
         /\ new.pend # NoEvent => new.base = new.pend.value \/ ~Readable(new.pend.value)'
         /\ new.notified = spec.notified
         /\ \/ new.pend = spec.pend
            \/ /\ new.pend.id = issued + 1 /\ issued' = issued + 1 /\ new.pend.value = v
               /\ v \in Values /\ spec.base # v /\ Readable(v)
         /\ \A u \in Values : Readable(u)' /\ spec.base = u => new.base = u
<1>1. /\ spec \in WatchItems /\ issued \in Nat /\ issued' \in Nat
      /\ page \in Nat /\ page' = page /\ reading' = Nothing
  BY CopiesTyped DEF TellInv, MissInv, WatchInv, WatchTypes, Absorbs, Values
<1>2. /\ new.status = spec.status /\ new.notified = spec.notified
      /\ new.cand.value \in {Nothing, v}
      /\ \/ new.base = spec.base /\ new.pend = spec.pend /\ ~Makes(spec, v)
         \/ new.base = v /\ spec.base = Nothing /\ new.pend = spec.pend /\ ~Makes(spec, v)
         \/ /\ new.base = v /\ v \in Values /\ spec.base \notin {Nothing, v}
            /\ new.pend = spec.pend /\ ~Makes(spec, v)
         \/ /\ new.base = v /\ v \in Values /\ spec.base \notin {Nothing, v} /\ spec.pend = NoEvent
            /\ new.pend = [id |-> issued + 1, value |-> v] /\ Makes(spec, v)
  BY <1>1, Observation DEF Absorbs
<1>3. Turns /\ Alive(new)
  BY <1>1, <1>2 DEF Turns, Absorbs, Alive
<1>4. issued' = IF Makes(spec, v) THEN issued + 1 ELSE issued
  BY DEF Absorbs, Takes
<1>5. (new.cand.value = Odd => misread') /\ new.pend.value # Odd
  <2>1. Odd # Nothing /\ Odd \notin Values /\ spec.pend.value # Odd
    BY WatchBounds DEF Odd, Nothing, Values, TellInv, MisreadOnce, Absorbs
  <2>2. QED
    BY <1>2, <2>1 DEF Absorbs
<1>6. new.base \in Values => new.base <= page'
  BY <1>1, <1>2 DEF TellInv, Ascending, Absorbs
<1>7. ASSUME NEW u \in Values, Readable(u)', spec.base = u PROVE new.base = u
  <2>1. u \in Nat /\ u # Nothing /\ u >= page
    BY <1>1, <1>7, WatchBounds DEF Readable, Values, Nothing
  <2>2. CASE v \in Values
    <3>1. u <= v /\ v <= page /\ v \in Nat
      BY <1>7, <2>2 DEF Absorbs, Values
    <3>2. u = v
      BY <1>1, <2>1, <3>1
    <3>3. QED
      BY <1>2, <1>7, <3>2
  <2>3. CASE v \notin Values
    BY <1>2, <1>7, <2>1, <2>3
  <2>4. QED
    BY <2>2, <2>3
<1>8. ASSUME new.pend # NoEvent PROVE new.base = new.pend.value \/ ~Readable(new.pend.value)'
  <2>1. CASE new.pend = spec.pend
    <3>1. spec.pend.value \in Values
      BY <1>8, <2>1 DEF TellInv, MissInv, Honest, MisreadOnce, Absorbs
    <3>2. spec.base = spec.pend.value \/ ~Readable(spec.pend.value)
      BY <1>8, <2>1 DEF TellInv, Ascending, Absorbs
    <3>n. PICK u \in Values : u = spec.pend.value
      BY <3>1
    <3>3. Readable(u)' => Readable(u)
      BY <1>3, ReadableLess DEF TellInv, MissInv, WatchInv
    <3>4. Readable(u)' => new.base = u
      BY <1>7, <3>n, <3>2, <3>3
    <3>5. QED
      BY <2>1, <3>n, <3>4
  <2>2. CASE new.pend = [id |-> issued + 1, value |-> v] /\ new.base = v
    BY <2>2
  <2>3. QED
    BY <1>2, <2>1, <2>2
<1>9. \/ new.pend = spec.pend
      \/ /\ new.pend.id = issued + 1 /\ issued' = issued + 1 /\ new.pend.value = v
         /\ v \in Values /\ spec.base # v /\ Readable(v)
  BY <1>2, <1>4 DEF Absorbs
<1>10. QED
  BY <1>1, <1>2, <1>3, <1>4, <1>5, <1>6, <1>7, <1>8, <1>9

\* It may tell of no more than before.
LEMMA AbsorbedTellsLess ==
  ASSUME TellInv, WatchTypes', NEW spec, NEW new, NEW v, Absorbs(spec, new, v),
         NEW u \in Values, MayTell(new, u)'
  PROVE  MayTell(spec, u)
<1>0. UNCHANGED <<by, mail>> /\ Alive(spec)
  BY DEF Absorbs
<1>1. CASE Owes(new, u)' /\ new.pend = spec.pend
  BY <1>0, <1>1 DEF Owes, MayTell
<1>2. CASE Owes(new, u)' /\ new.pend # spec.pend
  <2>1. new.pend.value = v /\ spec.base # v /\ Readable(v)
    BY <1>2, AbsorbedCopy
  <2>2. QED
    BY <1>0, <1>2, <2>1 DEF Owes, MayTell
<1>3. CASE Readable(u)' /\ new.base # u
  <2>1. Readable(u)
    BY <1>3, AbsorbedCopy, ReadableLess DEF TellInv, MissInv, WatchInv
  <2>2. spec.base # u
    BY <1>3, AbsorbedCopy
  <2>3. QED
    BY <1>0, <2>1, <2>2 DEF MayTell
<1>4. QED
  BY <1>1, <1>2, <1>3 DEF MayTell

\* The item takes the browser's report, or the tick what the server reads.
Reported(new) ==
    /\ watch' = new /\ stored' = new /\ UNCHANGED tick
Fetched(new) ==
    /\ tick'.spec = new /\ Acting = tick.spec /\ Acting' = new /\ UNCHANGED <<watch, stored>>
    /\ by.executor = "server"

LEMMA AbsorbStep ==
  ASSUME TellInv, MissInv', Begun', NEW spec, NEW new, NEW v, Absorbs(spec, new, v),
         \/ spec = watch /\ Reported(new)
         \/ spec = tick.spec /\ Fetched(new)
  PROVE  TellInv'
<1>0. /\ WatchTypes /\ WatchTypes' /\ UNCHANGED <<by, page, mail, told, last, lost>>
      /\ watch \in Copies /\ stored \in Copies /\ tick.spec \in Copies /\ Acting \in Copies
      /\ spec \in Copies /\ Copies \subseteq WatchItems /\ reading' = Nothing /\ (misread => misread')
  BY CopiesTyped DEF TellInv, MissInv, WatchInv, Absorbs, Copies, Acting
<1>1. /\ Turns /\ issued' \in Nat /\ issued <= issued' /\ Alive(new)
      /\ (new.cand.value = Odd => misread') /\ new.pend.value # Odd
      /\ new.base \in Values => new.base <= page'
      /\ new.pend # NoEvent => new.base = new.pend.value \/ ~Readable(new.pend.value)'
      /\ new.notified = spec.notified
      /\ \/ new.pend = spec.pend
         \/ /\ new.pend.id = issued + 1 /\ issued' = issued + 1 /\ new.pend.value = v
            /\ v \in Values /\ spec.base # v /\ Readable(v)
      /\ \A u \in Values : Readable(u)' /\ spec.base = u => new.base = u
  BY <1>0, AbsorbedCopy
<1>2. Copies' \subseteq Copies \cup {new}
  BY DEF Copies, Reported, Fetched
<1>3. Acting' = Acting \/ (Acting' = new /\ Acting = spec)
  BY DEF Reported, Fetched, Acting, Ticking
<1>4. Nothing \notin Values /\ Nothing # Odd /\ Odd \notin Values /\ issued \in Nat
  BY <1>0, WatchBounds DEF Nothing, Values, Odd, WatchTypes
<1>5. MisreadOnce'
  BY <1>0, <1>1, <1>2, <1>4 DEF TellInv, MisreadOnce
<1>6. ASSUME NEW u \in Values PROVE Readable(u)' => Readable(u)
  BY <1>0, <1>1, ReadableLess
<1>7. Ascending'
  <2>1. ASSUME NEW x \in Copies
        PROVE  /\ x.base \in Values => x.base <= page'
               /\ x.pend # NoEvent => Alive(x) /\ (x.base = x.pend.value \/ ~Readable(x.pend.value)')
    <3>1. x.pend # NoEvent => x.pend.value \in Values
      BY DEF TellInv, MissInv, Honest, MisreadOnce
    <3>n. PICK u : u = x.pend.value
      OBVIOUS
    <3>2. u \in Values => (Readable(u)' => Readable(u))
      BY <1>6
    <3>3. x.pend # NoEvent => Alive(x) /\ (x.base = u \/ ~Readable(u))
      BY <3>n DEF TellInv, Ascending
    <3>4. QED
      BY <1>0, <3>1, <3>n, <3>2, <3>3 DEF TellInv, Ascending
  <2>2. QED
    BY <1>0, <1>1, <1>2, <1>4, <2>1 DEF Ascending, Alive
<1>8. Numbered'
  <2>1. \A x \in Copies : x.notified \in Nat /\ x.notified <= issued /\ (x.pend # NoEvent => x.notified < x.pend.id)
    BY <1>0 DEF TellInv, Numbered, WatchItems
  <2>2. new.notified <= issued' /\ (new.pend # NoEvent => new.notified < new.pend.id)
    BY <1>0, <1>1, <1>4, <2>1
  <2>3. \A x \in Copies' : x.notified <= issued' /\ (x.pend # NoEvent => x.notified < x.pend.id)
    BY <1>1, <1>2, <1>4, <2>1, <2>2
  <2>4. ASSUME NEW x \in {watch', stored'}, Acting'.pend # NoEvent PROVE x.notified < Acting'.pend.id
    <3>1. PICK y \in {watch, stored} : x.notified = y.notified
      BY <1>1 DEF Reported, Fetched
    <3>2. Acting.pend # NoEvent => y.notified < Acting.pend.id
      BY DEF TellInv, Numbered
    <3>3. y.notified <= issued /\ y.notified \in Nat
      BY <1>0, <2>1
    <3>4. CASE Acting'.pend = Acting.pend
      BY <2>4, <3>1, <3>2, <3>4
    <3>5. CASE Acting'.pend # Acting.pend
      <4>1. Acting' = new /\ Acting = spec
        BY <1>3, <3>5
      <4>2. new.pend.id = issued + 1
        BY <1>1, <3>5, <4>1
      <4>3. QED
        BY <1>4, <3>1, <3>3, <4>1, <4>2
    <3>6. QED
      BY <3>4, <3>5
  <2>5. QED
    BY <2>3, <2>4 DEF Numbered
<1>9. ASSUME NEW x \in Copies, NEW u \in Values, MayTell(x, u)' PROVE MayTell(x, u)
  BY <1>0, <1>6, <1>9 DEF MayTell, Owes
<1>10. ASSUME NEW u \in Values, MayTell(new, u)' PROVE MayTell(spec, u)
  BY <1>0, <1>10, AbsorbedTellsLess
<1>11. Counted'
  <2> SUFFICES ASSUME NEW u \in Values
               PROVE  /\ told'[u] <= 1 + lost'
                      /\ MayTell(Acting, u)' => told'[u] <= lost'
                      /\ \A x \in {watch', stored'} : x.notified = last' /\ MayTell(x, u)' => told'[u] <= lost'
    BY DEF Counted
  <2>1. /\ told[u] <= 1 + lost
        /\ MayTell(Acting, u) => told[u] <= lost
        /\ \A x \in {watch, stored} : x.notified = last /\ MayTell(x, u) => told[u] <= lost
    BY DEF TellInv, Counted
  <2>2. MayTell(Acting, u)' => MayTell(Acting, u)
    <3>1. PICK x : x = Acting'
      OBVIOUS
    <3>2. MayTell(Acting, u)' => MayTell(x, u)'
      BY <3>1 DEF MayTell, Owes, Readable
    <3>3. CASE x = Acting
      BY <1>0, <1>9, <3>2, <3>3
    <3>4. CASE x = new /\ Acting = spec
      BY <1>10, <3>2, <3>4
    <3>5. QED
      BY <1>3, <3>1, <3>3, <3>4
  <2>3. ASSUME NEW x \in {watch', stored'}, x.notified = last', MayTell(x, u)' PROVE told'[u] <= lost'
    <3>1. CASE Reported(new) /\ spec = watch
      <4>1. x = new /\ watch.notified = last /\ MayTell(watch, u)
        BY <1>0, <1>1, <1>10, <2>3, <3>1 DEF Reported
      <4>2. QED
        BY <1>0, <2>1, <4>1
    <3>2. CASE Fetched(new)
      <4>1. x \in {watch, stored} /\ MayTell(x, u) /\ x.notified = last
        BY <1>0, <1>9, <2>3, <3>2 DEF Fetched
      <4>2. QED
        BY <1>0, <2>1, <4>1
    <3>3. QED
      BY <3>1, <3>2
  <2>4. QED
    BY <1>0, <2>1, <2>2, <2>3
<1>12. EmailedOnce'
  <2> SUFFICES ASSUME EmailedByBrowser
               PROVE  /\ OneEvent'
                      /\ \A u \in Values :
                           /\ told'[u] <= 1
                           /\ \A x \in Copies' : MayTell(x, u)' => told'[u] = 0
                           /\ Readable(u)' => Kept(u)'
    BY <1>0 DEF EmailedOnce, EmailedByBrowser
  <2>1. OneEvent
    BY DEF TellInv, EmailedOnce
  <2>2. ASSUME NEW u \in Values
        PROVE  told[u] <= 1 /\ (\A x \in Copies : MayTell(x, u) => told[u] = 0) /\ (Readable(u) => Kept(u))
    BY DEF TellInv, EmailedOnce
  <2>3. spec = watch /\ watch' = new /\ stored' = new /\ tick' = tick /\ Alive(watch) /\ Copies' = {new, tick.spec}
    BY <1>0 DEF Reported, Fetched, EmailedByBrowser, Absorbs, Copies
  <2>n. PICK k : k = tick.spec
    OBVIOUS
  <2>4. ASSUME NEW u \in Values, Readable(u), Alive(k), k.base = u PROVE watch.base = u
    BY <2>2, <2>3, <2>n, <2>4 DEF Kept
  <2>5. ASSUME new.pend # NoEvent, k.pend # NoEvent, new.pend.value = k.pend.value
        PROVE  new.pend.id = k.pend.id
    <3>1. CASE new.pend = spec.pend
      BY <1>0, <2>1, <2>n, <2>5, <3>1 DEF OneEvent
    <3>2. CASE new.pend # spec.pend
      <4>1. new.pend.value = v /\ v \in Values /\ spec.base # v /\ Readable(v)
        BY <1>1, <3>2
      <4>2. k.pend.value = v /\ Alive(k) /\ (k.base = k.pend.value \/ ~Readable(k.pend.value))
        BY <1>0, <2>n, <2>5, <4>1 DEF TellInv, Ascending
      <4>3. k.base = v
        BY <4>1, <4>2
      <4>4. QED
        BY <2>3, <2>4, <4>1, <4>2, <4>3
    <3>3. QED
      BY <3>1, <3>2
  <2>6. OneEvent'
    BY <2>3, <2>5, <2>n DEF OneEvent
  <2>7. ASSUME NEW u \in Values, NEW x \in Copies', MayTell(x, u)' PROVE told'[u] = 0
    <3>1. \E y \in Copies : MayTell(y, u)
      BY <1>0, <1>2, <1>9, <1>10, <2>7
    <3>2. told[u] = 0
      BY <2>2, <3>1
    <3>3. QED
      BY <1>0, <3>2
  <2>8. ASSUME NEW u \in Values, Readable(u)' PROVE Kept(u)'
    <3>1. Readable(u)
      BY <1>6, <2>8
    <3>2. Alive(k) /\ k.base = u => new.base = u
      BY <1>1, <2>3, <2>4, <2>8, <3>1
    <3>3. QED
      BY <2>3, <2>n, <3>2 DEF Kept, Alive
  <2>9. QED
    BY <1>0, <2>2, <2>6, <2>7, <2>8
<1>13. QED
  BY <1>5, <1>7, <1>8, <1>11, <1>12 DEF TellInv

\* The tick tells of its event, or tries to: it owed the telling, and owes it no
\* more once the user may have been told.
LEMMA TellStep ==
  ASSUME TellInv, MissInv', Begun', Tell
  PROVE  TellInv'
<1>1. PICK ok \in BOOLEAN, stage \in {"read", "mapped"} :
        /\ IF by.channel = "notify" THEN Notify(tick.spec.pend, ok) ELSE Email(tick.spec.pend, ok)
        /\ Moves(stage, Cleared(tick.spec, ok))
  BY DEF Tell
<1>n. PICK old, new, event : old = tick.spec /\ event = old.pend /\ new = Cleared(tick.spec, ok)
  OBVIOUS
<1>0. /\ WatchTypes /\ WatchTypes' /\ old \in Copies /\ old \in WatchItems /\ Copies \subseteq WatchItems
      /\ Copies = {watch, stored, old} /\ issued \in Nat /\ mail \in [1..MaxEvents -> {"none", "sent", "unsure"}]
      /\ told \in [Values \cup {Odd} -> Nat] /\ lost \in Nat
  BY <1>n, CopiesTyped DEF TellInv, MissInv, WatchInv, WatchTypes, WatchTicks, Copies
<1>2. /\ event # NoEvent /\ event.id \in 1..issued /\ event.id \in 1..MaxEvents /\ event.value \in Values
      /\ Acting = old /\ Alive(old) /\ (old.base = event.value \/ ~Readable(event.value))
  <2>1. event # NoEvent /\ Acting = old
    BY <1>n DEF Tell, At, TellInv, MissInv, HasEvent, Acting, Ticking
  <2>2. event.id \in 1..issued /\ event.value \in Values
    BY <1>n, <1>0, <2>1 DEF TellInv, MissInv, Honest, MisreadOnce
  <2>3. Alive(old) /\ (old.base = event.value \/ ~Readable(event.value))
    BY <1>n, <1>0, <2>1 DEF TellInv, Ascending
  <2>4. event.id \in 1..MaxEvents
    BY <1>0, <2>2, WatchBounds DEF WatchTypes
  <2>5. QED
    BY <2>1, <2>2, <2>3, <2>4
<1>3. /\ UNCHANGED <<by, page, watch, stored, reading, issued, misread, lost>>
      /\ tick'.spec = new /\ tick'.pc = stage /\ Acting' = new /\ Copies' = {watch, stored, new}
  BY <1>n, <1>0, <1>1 DEF Tell, Moves, WatchTypes, WatchTicks, Acting, Ticking, Copies
<1>4. /\ new.status = old.status /\ new.base = old.base /\ new.cand = old.cand
      /\ new.pend = (IF ok THEN NoEvent ELSE event)
      /\ new.notified = IF ok THEN event.id ELSE old.notified
  BY <1>n, <1>0, <1>1 DEF Cleared, Acknowledged, WatchItems
<1>t. /\ GetsNot /\ (mail' = mail \/ mail' = [mail EXCEPT ![event.id] = "unsure"])
      \/ /\ Gets(event) /\ (by.channel = "notify" \/ mail[event.id] = "none")
         /\ \/ by.channel = "notify" /\ mail' = mail /\ ok
            \/ by.channel # "notify" /\ mail'[event.id] # "none" /\ \A e \in 1..MaxEvents : e # event.id => mail'[e] = mail[e]
  BY <1>n, <1>0, <1>1, <1>2 DEF Notify, Email
<1>5. MisreadOnce'
  <2>1. told'[Odd] = 0
    <3>1. event.value # Odd /\ told[Odd] = 0
      BY <1>2, WatchBounds DEF Values, Odd, TellInv, MisreadOnce
    <3>2. QED
      BY <1>0, <1>t, <3>1 DEF Gets, GetsNot
  <2>2. (old.cand.value = Odd => misread /\ reading # Odd) /\ event.value # Odd /\ NoEvent.value # Odd
    BY <1>0, <1>n, WatchBounds DEF TellInv, MisreadOnce, NoEvent, Nothing, Odd
  <2>3. QED
    BY <1>0, <1>3, <1>4, <2>1, <2>2 DEF TellInv, MisreadOnce
<1>6. \A u \in Values : Readable(u)' = Readable(u)
  BY <1>3 DEF Readable
<1>7. Ascending'
  <2>1. Alive(new) /\ (new.pend # NoEvent => new.base = new.pend.value \/ ~Readable(new.pend.value))
    BY <1>2, <1>4 DEF Alive
  <2>2. old.base \in Values => old.base <= page /\ (reading \in Values => old.base <= reading)
    BY <1>0 DEF TellInv, Ascending
  <2>3. QED
    BY <1>0, <1>3, <1>4, <2>1, <2>2 DEF TellInv, Ascending, Readable
<1>8. Numbered'
  BY <1>0, <1>2, <1>3, <1>4, <1>n DEF TellInv, Numbered
<1>9. ASSUME NEW x \in {watch, stored}, NEW u \in Values, MayTell(x, u)' PROVE MayTell(x, u)
  <2>1. ASSUME x.pend # NoEvent, mail'[x.pend.id] = "none" PROVE mail[x.pend.id] = "none"
    <3>1. x.pend.id \in 1..MaxEvents
      <4>1. x \in Copies /\ issued <= MaxEvents /\ MaxEvents \in Nat
        BY <1>0, WatchBounds DEF WatchTypes
      <4>2. x.pend.id \in 1..issued
        BY <2>1, <4>1 DEF TellInv, MissInv, Honest
      <4>3. QED
        BY <1>0, <4>1, <4>2
    <3>2. QED
      BY <1>0, <1>2, <1>t, <2>1, <3>1
  <2>2. QED
    BY <1>3, <1>9, <2>1 DEF MayTell, Owes, Readable
<1>10. ASSUME NEW u \in Values, MayTell(new, u)' PROVE MayTell(old, u)
  <2>1. mail'[event.id] = "none" => mail[event.id] = "none"
    BY <1>0, <1>2, <1>t
  <2>2. QED
    BY <1>3, <1>4, <1>n, <1>10, <2>1 DEF MayTell, Owes, Readable, Alive
<1>11. ASSUME NEW u \in Values, told'[u] # told[u]
       PROVE  /\ u = event.value /\ told'[u] = told[u] + 1 /\ last' = event.id
              /\ MayTell(old, u) /\ ~MayTell(new, u)'
              /\ by.channel # "notify" => mail'[event.id] # "none"
  <2>1. Gets(event) /\ u = event.value
    BY <1>0, <1>2, <1>t, <1>11 DEF Gets, GetsNot
  <2>2. told'[u] = told[u] + 1 /\ last' = event.id
    BY <1>0, <1>2, <2>1 DEF Gets
  <2>3. by.channel = "notify" \/ mail[event.id] = "none"
    BY <1>t, <1>11 DEF GetsNot
  <2>4. (by.channel = "notify" => ok) /\ (by.channel # "notify" => mail'[event.id] # "none")
    BY <1>t, <1>11 DEF GetsNot
  <2>5. MayTell(old, u)
    BY <1>2, <1>n, <2>1, <2>3 DEF MayTell, Owes
  <2>6. ~MayTell(new, u)'
    BY <1>2, <1>3, <1>4, <2>1, <2>4 DEF MayTell, Owes, Readable
  <2>7. QED
    BY <2>1, <2>2, <2>4, <2>5, <2>6
<1>12. Counted'
  <2> SUFFICES ASSUME NEW u \in Values
               PROVE  /\ told'[u] <= 1 + lost'
                      /\ MayTell(Acting, u)' => told'[u] <= lost'
                      /\ \A x \in {watch', stored'} : x.notified = last' /\ MayTell(x, u)' => told'[u] <= lost'
    BY DEF Counted
  <2>1. /\ told[u] <= 1 + lost
        /\ MayTell(old, u) => told[u] <= lost
        /\ \A x \in {watch, stored} : x.notified = last /\ MayTell(x, u) => told[u] <= lost
    BY <1>2 DEF TellInv, Counted
  <2>2. told[u] \in Nat /\ lost' = lost
    BY <1>0, <1>3
  <2>3. MayTell(Acting, u)' => MayTell(new, u)'
    BY <1>3 DEF MayTell, Owes, Readable
  <2>4. ASSUME NEW x \in {watch', stored'}, x.notified = last', MayTell(x, u)' PROVE told'[u] <= lost'
    <3>1. x \in {watch, stored} /\ MayTell(x, u)
      BY <1>3, <1>9, <2>4
    <3>2. x.notified < event.id /\ event.id \in Nat /\ x.notified \in Nat
      BY <1>0, <1>2, <1>n, <3>1 DEF TellInv, Numbered, WatchItems
    <3>3. last' = last
      BY <1>t, <2>4, <3>2 DEF Gets, GetsNot
    <3>4. told'[u] = told[u]
      BY <1>11, <2>4, <3>2
    <3>5. QED
      BY <2>1, <2>2, <2>4, <3>1, <3>3, <3>4
  <2>5. CASE told'[u] = told[u]
    BY <1>10, <2>1, <2>2, <2>3, <2>4, <2>5
  <2>6. CASE told'[u] # told[u]
    BY <1>0, <1>11, <2>1, <2>2, <2>3, <2>4, <2>6
  <2>7. QED
    BY <2>5, <2>6
<1>13. EmailedOnce'
  <2> SUFFICES ASSUME EmailedByBrowser
               PROVE  /\ OneEvent'
                      /\ \A u \in Values :
                           /\ told'[u] <= 1
                           /\ \A x \in Copies' : MayTell(x, u)' => told'[u] = 0
                           /\ Readable(u)' => Kept(u)'
    BY <1>3 DEF EmailedOnce, EmailedByBrowser
  <2>1. OneEvent
    BY DEF TellInv, EmailedOnce
  <2>2. ASSUME NEW u \in Values
        PROVE  told[u] <= 1 /\ (\A x \in Copies : MayTell(x, u) => told[u] = 0) /\ (Readable(u) => Kept(u))
    BY DEF TellInv, EmailedOnce
  <2>3. OneEvent'
    BY <1>0, <1>3, <1>4, <1>n, <2>1 DEF OneEvent
  <2>4. ASSUME NEW u \in Values, Readable(u)' PROVE Kept(u)'
    <3>1. Kept(u)
      BY <1>6, <2>2, <2>4
    <3>2. Alive(new) = Alive(old) /\ new.base = old.base
      BY <1>4 DEF Alive
    <3>3. QED
      BY <1>3, <1>n, <3>1, <3>2 DEF Kept, Alive
  <2>5. ASSUME NEW u \in Values, told'[u] # told[u], NEW x \in Copies' PROVE ~MayTell(x, u)'
    <3>1. u = event.value /\ ~MayTell(new, u)' /\ mail'[event.id] # "none" /\ by'.channel # "notify"
      BY <1>3, <1>11, <2>5 DEF EmailedByBrowser
    <3>2. CASE x = new
      BY <3>1, <3>2
    <3>3. CASE x \in {watch, stored}
      <4>1. x.pend # NoEvent /\ x.pend.value = u => x.pend.id = event.id
        BY <1>0, <1>2, <1>n, <2>1, <3>1, <3>3 DEF OneEvent
      <4>2. ~Owes(x, u)'
        BY <3>1, <4>1 DEF Owes
      <4>3. Readable(u) => old.base = u
        BY <1>2, <3>1
      <4>4. Alive(x) /\ Readable(u) => x.base = u
        BY <1>2, <1>n, <2>2, <3>3, <4>3 DEF Kept
      <4>5. QED
        BY <1>6, <4>2, <4>4 DEF MayTell
    <3>4. QED
      BY <1>3, <3>2, <3>3
  <2>6. ASSUME NEW u \in Values, NEW x \in Copies', MayTell(x, u)' PROVE told'[u] = 0
    <3>1. told'[u] = told[u]
      BY <2>5, <2>6
    <3>2. \E y \in Copies : MayTell(y, u)
      BY <1>0, <1>3, <1>9, <1>10, <2>6
    <3>3. QED
      BY <2>2, <3>1, <3>2
  <2>7. ASSUME NEW u \in Values PROVE told'[u] <= 1
    <3>1. CASE told'[u] = told[u]
      BY <2>2, <3>1
    <3>2. CASE told'[u] # told[u]
      BY <1>0, <1>11, <2>2, <3>2
    <3>3. QED
      BY <3>1, <3>2
  <2>8. QED
    BY <2>3, <2>4, <2>6, <2>7
<1>14. QED
  BY <1>5, <1>7, <1>8, <1>12, <1>13 DEF TellInv

LEMMA CreateTells == ASSUME TellInv, MissInv', Begun', CreateWatch PROVE TellInv'
<1>0. WatchTypes /\ WatchTypes' /\ tick.spec = Absent /\ reading = Nothing /\ \A v \in Values : told[v] = 0
  BY DEF TellInv, MissInv, WatchInv, Begun, CreateWatch
<1>1. PICK base \in {Nothing, page} : Keeps(Item("active", base))
  BY DEF CreateWatch
<1>n. PICK item : item = Item("active", base)
  OBVIOUS
<1>2. watch' = item /\ stored' = item /\ UNCHANGED <<by, page, reading, tick, mail, issued, misread, told, last, lost>>
  BY <1>1, <1>n DEF CreateWatch, Keeps, Stores
<1>3. Copies' = {item, Absent} /\ Acting' \in {item, Absent}
  BY <1>0, <1>2 DEF Copies, Acting
<1>4. /\ item.base = base /\ item.cand = NoCandidate /\ item.pend = NoEvent /\ item.notified = 0
      /\ Absent.base = Nothing /\ Absent.cand = NoCandidate /\ Absent.pend = NoEvent /\ Absent.notified = 0
  BY <1>n DEF Item, Absent, Nothing
<1>5. /\ Nothing \notin Values /\ Nothing # Odd /\ issued \in Nat /\ lost \in Nat /\ page \in Nat
      /\ NoCandidate.value = Nothing /\ NoEvent.value = Nothing
  BY <1>0, WatchBounds DEF Nothing, Values, Odd, WatchTypes, NoCandidate, NoEvent
<1>6. MisreadOnce'
  BY <1>2, <1>3, <1>4, <1>5 DEF TellInv, MisreadOnce
<1>7. Ascending'
  BY <1>0, <1>2, <1>3, <1>4, <1>5 DEF Ascending
<1>8. Numbered'
  BY <1>0, <1>2, <1>3, <1>4, <1>5 DEF Numbered
<1>9. Counted'
  BY <1>0, <1>2, <1>5 DEF Counted
<1>10. EmailedOnce'
  BY <1>0, <1>2, <1>3, <1>4, <1>5, AbsentItem DEF EmailedOnce, OneEvent, Kept, Alive
<1>11. QED
  BY <1>6, <1>7, <1>8, <1>9, <1>10 DEF TellInv

LEMMA BegunStep == ASSUME MissInv, Begun, [WatchNext]_watchVars PROVE Begun'
<1>0. WatchTypes /\ Carries /\ HasEvent /\ tick \in WatchTicks
  BY DEF MissInv, WatchInv, WatchTypes
<1> USE DEF Begun
<1>1. CASE UNCHANGED watchVars
  BY <1>1 DEF watchVars
<1>2. CASE CreateWatch
  BY <1>2 DEF CreateWatch, Absent, Item
<1>3. CASE Revoke \/ RemoveWatch
  BY <1>3, AbsentItem DEF Revoke, RemoveWatch, Keeps, Stores, Ended
<1>4. CASE Stop
  <2>1. tick'.spec = tick.spec /\ tick'.pc = tick.pc
    BY <1>0, <1>4 DEF Stop, WatchTicks
  <2>2. life' \in {"ended", "unsaved"} /\ watch' = Absent
    BY <1>4 DEF Stop
  <2>3. QED
    BY <1>4, <2>1, <2>2 DEF Stop
<1>5. CASE Check \/ Report \/ ReportNothing
  <2>1. watch.status \notin {"absent", "revoked"} \/ UNCHANGED <<watch, stored>>
    BY <1>5 DEF Check, Report, ReportNothing, Accepts
  <2>2. by.executor = "server" => reading' = Nothing
    BY <1>5 DEF Check, Report, ReportNothing
  <2>3. life = "unborn" \/ tick.dead => UNCHANGED <<watch, stored, reading>> \/ (UNCHANGED <<watch, stored>> /\ reading' = Nothing)
    BY <1>5, <2>1, AbsentItem DEF Check, Report, ReportNothing, Accepts
  <2>4. UNCHANGED <<by, tick, life, told>>
    BY <1>5 DEF Check, Report, ReportNothing
  <2>5. QED
    BY <2>2, <2>3, <2>4
<1>6. CASE StartTick
  <2>1. PICK stage \in {"retell", "read", "mapped"} :
          Moves(stage, watch) /\ (stage = "read" => by.executor = "server")
    BY <1>6 DEF StartTick, MayRead
  <2>2. tick'.pc = stage /\ tick'.spec = watch /\ tick'.dead = tick.dead
    BY <2>1, MovedTick DEF MissInv, WatchInv, WatchTypes
  <2>3. QED
    BY <1>6, <2>1, <2>2 DEF StartTick
<1>7. CASE ReadPage
  <2>1. tick.pc = "read" /\ tick.spec.status = "active"
    BY <1>0, <1>7 DEF ReadPage, At, Carries
  <2>2. life # "unborn"
    BY <2>1, AbsentItem
  <2>3. tick'.pc # "read" /\ tick'.dead = tick.dead
    BY <1>0, <1>7 DEF ReadPage, Moves, WatchTicks
  <2>4. QED
    BY <1>7, <2>2, <2>3 DEF ReadPage
<1>8. CASE Tell
  <2>1. tick.spec.status = "active"
    BY <1>0, <1>8 DEF Tell, At, Carries
  <2>2. life # "unborn"
    BY <2>1, AbsentItem
  <2>3. (tick'.pc = "read" => by.executor = "server") /\ tick'.dead = tick.dead
    BY <1>0, <1>8 DEF Tell, Moves, MayRead, WatchTicks
  <2>4. QED
    BY <1>8, <2>2, <2>3 DEF Tell
<1>9. CASE Commit
  BY <1>9 DEF Commit, Persists, Stores, NoTick
<1>10. CASE SaveAll \/ PageChanges
  BY <1>10 DEF SaveAll, Stores, PageChanges
<1>11. CASE Die
  BY <1>11 DEF Die, NoTick
<1>12. QED
  BY <1>1, <1>2, <1>3, <1>4, <1>5, <1>6, <1>7, <1>8, <1>9, <1>10, <1>11 DEF WatchNext

\* What leaves the copies to be echoes: the other steps of the user, a check, a
\* failure, the start of a tick and its end, and the writes of other watchers.
LEMMA QuietActions ==
  ASSUME TellInv, WatchTypes',
         \/ Revoke \/ RemoveWatch \/ Stop \/ Check \/ ReportNothing \/ StartTick \/ Commit
         \/ SaveAll \/ PageChanges \/ UNCHANGED watchVars
  PROVE  Quiet
<1>0. WatchTypes /\ tick \in WatchTicks /\ watch \in WatchItems /\ tick.spec \in WatchItems /\ page \in Nat /\ page <= page
  BY DEF TellInv, MissInv, WatchInv, WatchTypes, WatchTicks, Values
<1>1. Echo(watch, watch) /\ Echo(tick.spec, tick.spec) /\ Echo(Acting, Acting) /\ \A y : Echo(Absent, y)
  BY DEF TellInv, Ascending, Copies, Acting, Echo
<1> DEFINE Still == UNCHANGED <<by, mail, issued, told, last, lost>>
<1>2. ASSUME Still, UNCHANGED tick, Turns, Echo(watch', watch), stored' \in {stored, watch'} PROVE Quiet
  BY <1>1, <1>2 DEF Quiet, Acting, Ticking
<1>3. CASE UNCHANGED watchVars
  BY <1>0, <1>1, <1>2, <1>3 DEF watchVars, Turns
<1>4. CASE Revoke
  <2>1. PICK item : item = [watch EXCEPT !.status = "revoked", !.cand = NoCandidate, !.pend = NoEvent]
    OBVIOUS
  <2>2. /\ item.base = watch.base /\ item.cand = NoCandidate /\ item.pend = NoEvent
        /\ item.notified = watch.notified /\ item.status = "revoked"
    BY <1>0, <2>1 DEF WatchItems
  <2>3. Echo(item, watch)
    BY <2>2 DEF Echo, Alive
  <2>4. watch' = item /\ stored' = item /\ Still /\ UNCHANGED <<tick, page, reading, misread>>
    BY <1>4, <2>1 DEF Revoke, Keeps, Stores
  <2>5. QED
    BY <1>0, <1>2, <2>3, <2>4 DEF Turns
<1>5. CASE RemoveWatch
  BY <1>0, <1>1, <1>2, <1>5 DEF RemoveWatch, Persists, Stores, Turns
<1>6. CASE Stop
  <2>1. tick'.spec = tick.spec /\ tick'.pc = tick.pc
    BY <1>0, <1>6 DEF Stop, WatchTicks
  <2>2. watch' = Absent /\ stored' \in {stored, watch'} /\ Still /\ Turns
    BY <1>0, <1>6 DEF Stop, Persists, Stores, Turns
  <2>3. Acting' = IF Ticking THEN tick.spec ELSE Absent
    BY <2>1, <2>2 DEF Acting, Ticking
  <2>4. QED
    BY <1>1, <2>1, <2>2, <2>3 DEF Quiet, Acting
<1>7. CASE Check
  <2>1. Turns
    BY <1>0, <1>7 DEF Check, Reads, Turns
  <2>2. QED
    BY <1>1, <1>2, <1>7, <2>1 DEF Check, Keeps, Stores
<1>8. CASE ReportNothing
  <2>1. ASSUME NEW spec \in Failed(watch), Accepts PROVE Echo(spec, watch)
    BY <1>0, <1>1, <2>1 DEF Failed, Accepts, Echo, Alive, WatchItems
  <2>2. Still /\ UNCHANGED tick /\ Turns
    BY <1>0, <1>8 DEF ReportNothing, Turns
  <2>3. Echo(watch', watch) /\ stored' \in {stored, watch'}
    BY <1>1, <1>8, <2>1 DEF ReportNothing, Keeps, Stores
  <2>4. QED
    BY <1>2, <2>2, <2>3
<1>9. CASE StartTick
  <2>1. PICK stage \in {"retell", "read", "mapped"} : Moves(stage, watch)
    BY <1>9 DEF StartTick
  <2>2. tick'.pc = stage /\ tick'.spec = watch
    BY <1>0, <2>1, MovedTick DEF TellInv, MissInv
  <2>3. Acting' = watch /\ Acting = watch
    BY <1>9, <2>2 DEF StartTick, Acting, Ticking
  <2>4. Still /\ Turns /\ UNCHANGED <<watch, stored>>
    BY <1>0, <1>9 DEF StartTick, Turns
  <2>5. QED
    BY <1>1, <2>2, <2>3, <2>4 DEF Quiet
<1>10. CASE Commit
  <2>1. Acting = tick.spec /\ tick' = NoTick /\ tick'.spec = Absent /\ Acting' = watch'
    BY <1>10, AbsentItem DEF Commit, At, Acting, Ticking, NoTick
  <2>2. Still /\ Turns
    BY <1>0, <1>10 DEF Commit, Turns
  <2>3. CASE tick.dead
    <3>1. watch' = Absent /\ stored' = stored
      BY <1>10, <2>3 DEF Commit, TellInv, Begun
    <3>2. QED
      BY <1>1, <2>1, <2>2, <3>1 DEF Quiet
  <2>4. CASE ~tick.dead
    <3>1. watch' = tick.spec /\ stored' \in {stored, watch'}
      BY <1>10, <2>4 DEF Commit, Persists, Stores
    <3>2. QED
      BY <1>1, <2>1, <2>2, <3>1 DEF Quiet
  <2>5. QED
    BY <2>3, <2>4
<1>11. CASE SaveAll
  BY <1>0, <1>1, <1>2, <1>11 DEF SaveAll, Stores, Turns
<1>12. CASE PageChanges
  BY <1>0, <1>1, <1>2, <1>12 DEF PageChanges, Turns
<1>13. QED
  BY <1>3, <1>4, <1>5, <1>6, <1>7, <1>8, <1>9, <1>10, <1>11, <1>12

\* The browser's report of a value.
LEMMA ReportTells == ASSUME TellInv, MissInv', Begun', Report PROVE TellInv'
<1>0. WatchTypes /\ Nothing \notin Values
  BY WatchBounds DEF TellInv, MissInv, WatchInv, Nothing, Values
<1>1. /\ watch' = Observed(watch, reading) /\ stored' = watch' /\ UNCHANGED tick
      /\ Takes(watch, reading) /\ Alive(watch)
      /\ reading' = Nothing /\ UNCHANGED <<by, page, mail, misread, told, last, lost>>
  BY DEF Report, Keeps, Stores, Accepts, Alive
<1>n. PICK v, new : v = reading /\ new = Observed(watch, v)
  OBVIOUS
<1>2. v \in Values \cup {Odd}
  BY <1>0, <1>n, WatchBounds DEF Report, WatchTypes, Nothing, Values, Odd
<1>3. v = Odd => watch.cand.value # Odd /\ misread'
  BY <1>1, <1>n DEF TellInv, MisreadOnce, Copies
<1>4. v \in Values => Readable(v) /\ v <= page /\ (watch.base \in Values => watch.base <= v)
  BY <1>n DEF TellInv, Ascending, Copies, Readable
<1>5. Absorbs(watch, new, v)
  BY <1>1, <1>n, <1>2, <1>3, <1>4 DEF Absorbs, Copies
<1>6. Reported(new)
  BY <1>1, <1>n DEF Reported
<1>7. QED
  BY <1>5, <1>6, AbsorbStep

\* The server's reading of the page.
LEMMA ReadPageTells == ASSUME TellInv, MissInv', Begun', ReadPage PROVE TellInv'
<1>0. /\ WatchTypes /\ WatchTypes' /\ tick.spec \in WatchItems /\ tick.pc = "read" /\ tick.spec.status = "active"
      /\ by.executor = "server" /\ reading = Nothing /\ Acting = tick.spec
  BY DEF TellInv, MissInv, WatchInv, WatchTypes, WatchTicks, Carries, Begun, ReadPage, At, Acting, Ticking
<1>1. UNCHANGED <<by, page, watch, stored, reading, mail, told, last, lost>>
  BY DEF ReadPage
<1>2. CASE \E v \in {page, Odd} :
             /\ Reads(v) /\ Takes(tick.spec, v)
             /\ LET spec == Observed(tick.spec, v)
                IN Moves(IF spec.pend = NoEvent THEN "mapped" ELSE "tell", spec)
  <2>1. PICK v \in {page, Odd} :
             /\ Reads(v) /\ Takes(tick.spec, v)
             /\ LET spec == Observed(tick.spec, v)
                IN Moves(IF spec.pend = NoEvent THEN "mapped" ELSE "tell", spec)
    BY <1>2
  <2>n. PICK new : new = Observed(tick.spec, v)
    OBVIOUS
  <2>2. v \in Values \cup {Odd} /\ page \in Nat /\ Odd \notin Values
    BY <1>0, WatchBounds DEF WatchTypes, Values, Odd
  <2>3. (misread => misread') /\ (v = Odd => tick.spec.cand.value # Odd /\ misread')
    BY <2>1, <1>0, <2>2 DEF Reads, TellInv, MisreadOnce, Copies, WatchTypes
  <2>4. v \in Values => Readable(v) /\ v <= page /\ (tick.spec.base \in Values => tick.spec.base <= v)
    BY <2>2 DEF TellInv, Ascending, Copies, Readable
  <2>5. Absorbs(tick.spec, new, v)
    BY <1>0, <1>1, <2>1, <2>n, <2>2, <2>3, <2>4 DEF Absorbs, Copies, Alive
  <2>6. tick'.spec = new /\ tick'.pc \in {"mapped", "tell"}
    BY <1>0, <2>1, <2>n DEF Moves, WatchTypes, WatchTicks
  <2>7. Fetched(new)
    BY <1>0, <1>1, <2>6 DEF Fetched, Acting, Ticking
  <2>8. QED
    BY <2>5, <2>7, AbsorbStep
<1>3. CASE (\E spec \in Failed(tick.spec) : Moves("mapped", spec)) /\ UNCHANGED <<issued, misread, quiet>>
  <2>1. PICK spec \in Failed(tick.spec) : Moves("mapped", spec)
    BY <1>3
  <2>2. spec \in WatchItems /\ Echo(spec, tick.spec)
    BY <1>0, <2>1 DEF Failed, Echo, Alive, WatchItems
  <2>3. tick'.spec = spec /\ tick'.pc = "mapped"
    BY <2>1, <2>2, MovedTick DEF TellInv, MissInv
  <2>4. Acting' = spec /\ Turns
    BY <1>0, <1>1, <1>3, <2>3 DEF Acting, Ticking, Turns, WatchTypes, Values
  <2>5. Echo(watch, watch)
    BY DEF TellInv, Ascending, Copies, Echo
  <2>6. Quiet
    BY <1>0, <1>1, <1>3, <2>2, <2>3, <2>4, <2>5 DEF Quiet
  <2>7. QED
    BY <2>6, QuietStep
<1>4. QED
  BY <1>2, <1>3 DEF ReadPage

LEMMA TellInvariance == WatchSpec => []TellInv
<1>1. WatchInit => TellInv \/ ~MissInv
  <2> SUFFICES ASSUME WatchInit, MissInv PROVE TellInv
    OBVIOUS
  <2>1. /\ watch = Absent /\ stored = Absent /\ tick.spec = Absent /\ Acting = Absent /\ Copies = {Absent}
        /\ reading = Nothing /\ issued = 0 /\ lost = 0 /\ tick.pc = "idle" /\ ~tick.dead
    BY AbsentItem DEF WatchInit, Acting, Ticking, NoTick, Copies
  <2>2. /\ Absent.base = Nothing /\ Absent.cand = NoCandidate /\ Absent.pend = NoEvent /\ Absent.notified = 0
        /\ NoCandidate.value = Nothing /\ NoEvent.value = Nothing /\ ~Alive(Absent)
    BY AbsentItem DEF Item, Absent, NoCandidate, NoEvent, Nothing, Alive
  <2>3. Nothing # Odd /\ Nothing \notin Values /\ told[Odd] = 0 /\ \A v \in Values : told[v] = 0
    BY WatchBounds DEF WatchInit, Nothing, Odd, Values
  <2>4. Begun /\ MisreadOnce /\ Ascending /\ Numbered
    BY <2>1, <2>2, <2>3 DEF WatchInit, Begun, MisreadOnce, Ascending, Numbered
  <2>5. \A v \in Values : ~MayTell(Absent, v)
    BY <2>2 DEF MayTell, Owes
  <2>6. Counted /\ EmailedOnce
    BY <2>1, <2>2, <2>3 DEF Counted, EmailedOnce, OneEvent, Kept
  <2>7. QED
    BY <2>4, <2>6 DEF TellInv
<1>2. TellInv /\ MissInv' /\ [WatchNext]_watchVars => TellInv'
  <2> SUFFICES ASSUME TellInv, MissInv', [WatchNext]_watchVars PROVE TellInv'
    OBVIOUS
  <2>1. Begun' /\ WatchTypes'
    BY BegunStep DEF TellInv, MissInv, WatchInv
  <2>2. CASE CreateWatch
    BY <2>1, <2>2, CreateTells
  <2>3. CASE Report
    BY <2>1, <2>3, ReportTells
  <2>4. CASE ReadPage
    BY <2>1, <2>4, ReadPageTells
  <2>5. CASE Tell
    BY <2>1, <2>5, TellStep
  <2>6. CASE Die
    BY <2>1, <2>6, DieTells
  <2>7. CASE \/ Revoke \/ RemoveWatch \/ Stop \/ Check \/ ReportNothing \/ StartTick \/ Commit
             \/ SaveAll \/ PageChanges \/ UNCHANGED watchVars
    <3>1. Quiet
      BY <2>1, <2>7, QuietActions
    <3>2. QED
      BY <2>1, <3>1, QuietStep
  <2>8. QED
    BY <2>2, <2>3, <2>4, <2>5, <2>6, <2>7 DEF WatchNext
<1>3. TellInv => MissInv
  BY DEF TellInv
<1>4. QED
  BY <1>1, <1>2, <1>3, MissInvariance, PTL DEF WatchSpec

\* The user is told of a change once, and once more at most for every death that
\* took the record of a telling along; of what the browser found, an email goes out
\* once whatever dies; a value that was misread once is never told.  For any page,
\* predicate, number of events, failed writes and deaths.
THEOREM ToldAsItHappened == WatchSpec => []ToldRightly
<1>1. TellInv => ToldRightly
  <2> SUFFICES ASSUME TellInv PROVE ToldRightly
    OBVIOUS
  <2>1. told[Odd] = 0
    BY DEF TellInv, MisreadOnce
  <2>2. ASSUME NEW v \in Values
        PROVE  told[v] <= 1 + IF by = [executor |-> "browser", channel |-> "email"] THEN 0 ELSE lost
    <3>1. told[v] <= 1 + lost
      BY DEF TellInv, Counted
    <3>2. EmailedByBrowser => told[v] <= 1
      BY DEF TellInv, EmailedOnce
    <3>3. QED
      BY <3>1, <3>2 DEF EmailedByBrowser
  <2>3. QED
    BY <2>1, <2>2 DEF ToldRightly
<1>2. QED
  BY <1>1, TellInvariance, PTL
=============================================================================
