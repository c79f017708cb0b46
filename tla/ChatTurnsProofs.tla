-------------------------- MODULE ChatTurnsProofs --------------------------
(***************************************************************************)
(* The turns of a chat, for any numbers of attempts, turns, servers and     *)
(* epochs: Stop reaches the turn that works, an attempt runs once in a      *)
(* transcript, and what Clear has removed stays away.  Then the operations  *)
(* that are staged in the chat: they are executed once and as confirmed.    *)
(***************************************************************************)
EXTENDS ChatTurns, PendingApprovals, TLAPS

\* A turn belongs to an epoch that has begun, and a message to an attempt; neither
\* a dead server nor a Clear has reached its bound.
Situated ==
    /\ ~host.up => host.life < MaxHosts
    /\ clear \in {"aborted", "emptied"} => epoch < MaxEpochs
    /\ \A h \in Turns :
        /\ chat[h].epoch <= epoch
        /\ chat[h].pc = "queued" => chat[h].kind # "user"
        /\ chat[h].kind \in {"user", "finalizer"} => Own(h) \in Attempts
        /\ chat[h].pc = "accepting" => chat[h].kind = "user" /\ chat[h].epoch >= 1

\* A delegation is not registered, and has no slot while it waits outside.
Slotted ==
    /\ active # NoTurn => chat[active].kind # "delegation"
    /\ busy # NoTurn /\ chat[busy].kind = "delegation" => chat[busy].pc = "running"

\* An accepted message that has not ended, of the present transcript.
AtWork(h) == chat[h].kind = "user" /\ chat[h].pc \notin {"none", "accepting", "ended"} /\ Current(h)

\* It has the row, alone, until a Clear empties the transcript,
Rowed ==
    /\ clear = "emptied" => \A a \in Attempts : rows[a] = NoTurn
    /\ \A h \in Turns : AtWork(h) /\ clear # "emptied" => rows[Own(h)] # NoTurn
    /\ \A g, h \in Turns : AtWork(g) /\ AtWork(h) /\ Own(g) = Own(h) => g = h

\* and the row tells whether it was executed.
RunsTold ==
    \A h \in Turns : AtWork(h) /\ rows[Own(h)] # NoTurn =>
        /\ chat[h].pc \in {"accepted", "open"} => rows[Own(h)].runs = 0
        /\ chat[h].pc = "running" => rows[Own(h)].runs = 1

ChatInv ==
    /\ ChatTypeOK /\ StopReaches /\ RunOnce /\ ClearedStaysCleared
    /\ Situated /\ Slotted /\ Rowed /\ RunsTold

-----------------------------------------------------------------------------
(* Lemmas about the shape of the state.                                    *)

Pcs == {"none", "accepting", "accepted", "queued", "open", "running",
        "finishing", "marking", "closing", "ended"}
Outcomes == {"none", "done", "error", "stopped"}

LEMMA RestingTyped == Absent \in TurnRecords /\ Ended \in TurnRecords
<1>1. Absent \in TurnRecords
  BY ChatAssumption DEF Absent, TurnRecords
<1>2. QED
  BY <1>1 DEF Ended, TurnRecords

LEMMA MovedTyped ==
  ASSUME NEW h \in Turns, NEW turns \in [Turns -> TurnRecords], NEW pc \in Pcs, NEW held \in Outcomes
  PROVE  /\ [turns EXCEPT ![h].pc = pc] \in [Turns -> TurnRecords]
         /\ [turns EXCEPT ![h].pc = pc, ![h].held = held] \in [Turns -> TurnRecords]
<1> DEFINE moved == [turns EXCEPT ![h].pc = pc]
<1>1. moved \in [Turns -> TurnRecords]
  BY DEF TurnRecords, Pcs
<1> HIDE DEF moved
<1>2. [moved EXCEPT ![h].held = held] \in [Turns -> TurnRecords]
  BY <1>1 DEF TurnRecords, Outcomes
<1>3. QED
  BY <1>1, <1>2 DEF moved

LEMMA ReleasedTyped ==
  ASSUME NEW h \in Turns, NEW turns \in [Turns -> TurnRecords]
  PROVE  Released(h, turns) \in [Turns -> TurnRecords]
BY RestingTyped DEF Released, TurnRecords

LEMMA AbortedTyped ==
  ASSUME NEW g \in Turns \cup {NoTurn}, NEW turns \in [Turns -> TurnRecords]
  PROVE  Aborted(g, turns) \in [Turns -> TurnRecords]
BY DEF Aborted, TurnRecords

LEMMA ChainTyped ==
  ASSUME ChatTypeOK
  PROVE  Chain \subseteq Turns
BY DEF ChatTypeOK, Registered, Chain, TurnRecords

LEMMA SlotTyped ==
  ASSUME NEW turn \in TurnRecords, NEW slots \in SUBSET Turns, NEW pc \in Pcs
  PROVE  [turn EXCEPT !.behind = slots, !.pc = pc] \in TurnRecords
<1> DEFINE slotted == [turn EXCEPT !.behind = slots]
<1>1. slotted \in TurnRecords
  BY DEF TurnRecords
<1> HIDE DEF slotted
<1>2. [slotted EXCEPT !.pc = pc] \in TurnRecords
  BY <1>1 DEF TurnRecords, Pcs
<1>3. QED
  BY <1>1, <1>2 DEF slotted

LEMMA OpenedTyped ==
  ASSUME ChatTypeOK, NEW h \in Turns, NEW turns \in [Turns -> TurnRecords]
  PROVE  Opened(h, turns) \in [Turns -> TurnRecords]
<1>1. Aborted(active, turns) \in [Turns -> TurnRecords]
  BY AbortedTyped DEF ChatTypeOK, Registered
<1> DEFINE aborted == Aborted(active, turns)
<1> HIDE DEF aborted
<1>2. [aborted EXCEPT ![h].pc = "open"] \in [Turns -> TurnRecords]
  BY <1>1 DEF aborted, TurnRecords
<1>3. QED
  BY <1>2 DEF Opened, aborted

LEMMA RowTyped ==
  ASSUME ChatTypeOK, NEW status \in {"running", "reply", "failed", "stopped", "partial"}
  PROVE  /\ Row(status, epoch) \in Rows
         /\ Row(status, epoch).runs = 0 /\ Row(status, epoch).epoch = epoch
         /\ Row(status, epoch).status = status
<1>1. host.life \in 1..MaxHosts /\ epoch \in 1..MaxEpochs
  BY DEF ChatTypeOK
<1>2. QED
  BY <1>1 DEF Row, Rows

\* A write of rows that are there, and may only fail or be answered.
KeepsRows ==
    /\ rows' \in [Attempts -> Rows \cup {NoTurn}]
    /\ \A a \in Attempts :
        /\ rows[a] = NoTurn <=> rows'[a] = NoTurn
        /\ rows[a] # NoTurn =>
            /\ rows'[a].runs = rows[a].runs /\ rows'[a].epoch = rows[a].epoch
            /\ rows'[a].status = "reply" => rows[a].status = "reply" \/ rows[a].runs = 1

LEMMA RowChanged ==
  ASSUME ChatInv, NEW a \in Attempts, rows[a] # NoTurn, NEW row \in Rows,
         row.runs = rows[a].runs, row.epoch = rows[a].epoch,
         row.status = "reply" => rows[a].status = "reply" \/ rows[a].runs = 1,
         rows' = [rows EXCEPT ![a] = row]
  PROVE  KeepsRows
BY ChatAssumption DEF ChatInv, ChatTypeOK, KeepsRows

LEMMA RowsUnchanged ==
  ASSUME ChatInv, rows' = rows
  PROVE  KeepsRows
BY DEF ChatInv, ChatTypeOK, KeepsRows

LEMMA FailedKeeps ==
  ASSUME ChatInv, NEW h \in Turns, Own(h) \in Attempts, NEW status \in {"failed", "stopped"},
         rows' = Failed(h, status)
  PROVE  KeepsRows
<1>1. CASE rows' = rows
  BY <1>1, RowsUnchanged
<1>2. CASE rows' # rows
  <2> DEFINE row == [rows[Own(h)] EXCEPT !.status = status]
  <2>1. rows[Own(h)] # NoTurn /\ rows' = [rows EXCEPT ![Own(h)] = row]
    BY <1>2 DEF Failed
  <2>2. row \in Rows /\ row.runs = rows[Own(h)].runs /\ row.epoch = rows[Own(h)].epoch /\ row.status # "reply"
    BY <2>1 DEF ChatInv, ChatTypeOK, Rows
  <2> HIDE DEF row
  <2>3. QED
    BY <2>1, <2>2, RowChanged
<1>3. QED
  BY <1>1, <1>2

\* Nobody starts to work on a row.
NobodyStarts ==
    \A g \in Turns : AtWork(g)' =>
        /\ AtWork(g) /\ Own(g)' = Own(g)
        /\ \/ chat'[g].pc = chat[g].pc
           \/ chat[g].pc = "accepted" /\ chat'[g].pc = "open"
           \/ chat'[g].pc \notin {"accepted", "open", "running"}

LEMMA RowsKept ==
  ASSUME ChatInv, epoch' = epoch, clear' = "emptied" <=> clear = "emptied", KeepsRows, NobodyStarts,
         chat' \in [Turns -> TurnRecords], Situated'
  PROVE  (RunOnce /\ ClearedStaysCleared /\ Rowed /\ RunsTold)'
<1>1. (RunOnce /\ ClearedStaysCleared)'
  BY DEF ChatInv, RunOnce, ClearedStaysCleared, KeepsRows
<1>2. Rowed'
  BY DEF ChatInv, Rowed, KeepsRows, NobodyStarts, AtWork, Situated, Own, Situated
<1>3. RunsTold'
  BY DEF ChatInv, RunsTold, KeepsRows, NobodyStarts, AtWork, Situated, Own
<1>4. QED
  BY <1>1, <1>2, <1>3

-----------------------------------------------------------------------------
(* The steps.                                                              *)

LEMMA SendStep ==
  ASSUME ChatInv, NEW h \in Turns, NEW a \in Attempts, Send(h, a)
  PROVE  ChatInv'
<1>1. chat' \in [Turns -> TurnRecords]
  BY RestingTyped DEF ChatInv, ChatTypeOK, TurnRecords, disk, memory, Send, NextTurn
<1>2. KeepsRows
  BY RowsUnchanged DEF disk, memory, Send, NextTurn
<1>3. (Situated /\ Slotted /\ StopReaches)'
  BY <1>1, ChatAssumption DEF ChatInv, ChatTypeOK, Registered, Situated, Slotted, StopReaches, TurnRecords, Opening, At, Own, Current, Unlocked, Absent, Ended, Turns, disk, memory, Send, NextTurn
<1>4. NobodyStarts
  BY <1>1 DEF ChatInv, NobodyStarts, AtWork, Situated, disk, memory, At, Own, Current, Absent, Ended, TurnRecords, Unlocked, ChatTypeOK, Send, NextTurn
<1>5. Registered'
  BY <1>1, ChatAssumption DEF ChatInv, ChatTypeOK, Registered, Opening, TurnRecords, At, Absent, Ended, Turns, disk, memory, Slotted, Send, NextTurn
<1>6. ChatTypeOK'
  BY <1>1, <1>2, <1>5, ChatAssumption DEF ChatInv, ChatTypeOK, KeepsRows, TurnRecords, Own, Current, Unlocked, disk, memory, Send, NextTurn
<1>7. (RunOnce /\ ClearedStaysCleared /\ Rowed /\ RunsTold)'
  BY <1>1, <1>2, <1>3, <1>4, RowsKept DEF Unlocked, disk, memory, Send, NextTurn
<1>8. QED
  BY <1>3, <1>6, <1>7 DEF ChatInv

LEMMA InternalStep ==
  ASSUME ChatInv, NEW h \in Turns, NEW kind \in {"continuation", "delegation"}, Internal(h, kind)
  PROVE  ChatInv'
<1>1. chat' \in [Turns -> TurnRecords]
  <2> DEFINE new == [Absent EXCEPT !.kind = kind]
             base == [new EXCEPT !.epoch = epoch]
  <2>1. new \in TurnRecords
    BY RestingTyped DEF TurnRecords
  <2>2. epoch \in 0..MaxEpochs /\ Chain \in SUBSET Turns
    BY ChainTyped, ChatAssumption DEF ChatInv, ChatTypeOK
  <2> HIDE DEF new
  <2>3. base \in TurnRecords
    BY <2>1, <2>2 DEF TurnRecords
  <2>4. PICK pc \in {"running", "queued"} :
          chat' = [chat EXCEPT ![h] = [base EXCEPT !.behind = Chain, !.pc = pc]]
    BY DEF Internal, new
  <2> HIDE DEF base
  <2>5. [base EXCEPT !.behind = Chain, !.pc = pc] \in TurnRecords
    BY <2>2, <2>3, SlotTyped DEF Pcs
  <2>6. QED
    BY <2>4, <2>5 DEF ChatInv, ChatTypeOK
<1>2. KeepsRows
  BY RowsUnchanged DEF disk, memory, Internal, NextTurn, Chain
<1>3. (Situated /\ Slotted /\ StopReaches)'
  BY <1>1, ChatAssumption DEF ChatInv, ChatTypeOK, Registered, Situated, Slotted, StopReaches, TurnRecords, Opening, At, Own, Current, Unlocked, Absent, Ended, Turns, disk, memory, Internal, NextTurn, Chain
<1>4. NobodyStarts
  BY <1>1 DEF ChatInv, NobodyStarts, AtWork, Situated, disk, memory, At, Own, Current, Absent, Ended, TurnRecords, Unlocked, ChatTypeOK, Internal, NextTurn, Chain
<1>5. Registered'
  BY <1>1, ChatAssumption DEF ChatInv, ChatTypeOK, Registered, Opening, TurnRecords, At, Absent, Ended, Turns, disk, memory, Slotted, Internal, NextTurn, Chain
<1>6. ChatTypeOK'
  BY <1>1, <1>2, <1>5, ChatAssumption DEF ChatInv, ChatTypeOK, KeepsRows, TurnRecords, Own, Current, Unlocked, disk, memory, Internal, NextTurn, Chain
<1>7. (RunOnce /\ ClearedStaysCleared /\ Rowed /\ RunsTold)'
  BY <1>1, <1>2, <1>3, <1>4, RowsKept DEF Unlocked, disk, memory, Internal, NextTurn, Chain
<1>8. QED
  BY <1>3, <1>6, <1>7 DEF ChatInv

LEMMA RefuseStep ==
  ASSUME ChatInv, NEW h \in Turns, Refuse(h)
  PROVE  ChatInv'
<1>1. chat' \in [Turns -> TurnRecords]
  BY RestingTyped DEF ChatInv, ChatTypeOK, TurnRecords, disk, memory, Refuse
<1>2. KeepsRows
  BY RowsUnchanged DEF disk, memory, Refuse
<1>3. (Situated /\ Slotted /\ StopReaches)'
  BY <1>1, ChatAssumption DEF ChatInv, ChatTypeOK, Registered, Situated, Slotted, StopReaches, TurnRecords, Opening, At, Own, Current, Unlocked, Absent, Ended, Turns, disk, memory, Refuse
<1>4. NobodyStarts
  BY <1>1 DEF ChatInv, NobodyStarts, AtWork, Situated, disk, memory, At, Own, Current, Absent, Ended, TurnRecords, Unlocked, ChatTypeOK, Refuse
<1>5. Registered'
  BY <1>1, ChatAssumption DEF ChatInv, ChatTypeOK, Registered, Opening, TurnRecords, At, Absent, Ended, Turns, disk, memory, Slotted, Refuse
<1>6. ChatTypeOK'
  BY <1>1, <1>2, <1>5, ChatAssumption DEF ChatInv, ChatTypeOK, KeepsRows, TurnRecords, Own, Current, Unlocked, disk, memory, Refuse
<1>7. (RunOnce /\ ClearedStaysCleared /\ Rowed /\ RunsTold)'
  BY <1>1, <1>2, <1>3, <1>4, RowsKept DEF Unlocked, disk, memory, Refuse
<1>8. QED
  BY <1>3, <1>6, <1>7 DEF ChatInv

LEMMA ClaimStep ==
  ASSUME ChatInv, NEW h \in Turns, Claim(h)
  PROVE  ChatInv'
<1>1. chat' \in [Turns -> TurnRecords]
  <2>1. PICK held \in {"done", "error"} :
          chat' = [chat EXCEPT ![h].pc = "accepted", ![h].held = held, ![h].kind = "finalizer"]
    BY DEF Claim, FinalizerOnly
  <2> DEFINE moved == [chat EXCEPT ![h].pc = "accepted", ![h].held = held]
  <2>2. moved \in [Turns -> TurnRecords]
    BY MovedTyped DEF ChatInv, ChatTypeOK, Pcs, Outcomes
  <2>3. chat' = [moved EXCEPT ![h].kind = "finalizer"]
    BY <2>1
  <2> HIDE DEF moved
  <2>4. QED
    BY <2>2, <2>3 DEF TurnRecords
<1>2. KeepsRows
  <2> DEFINE old == rows[Own(h)]
             row == [old EXCEPT !.owner = host.life, !.status = IF @ = "running" THEN "failed" ELSE @]
  <2>1. Own(h) \in Attempts /\ old # NoTurn
    BY DEF ChatInv, Situated, Claim, At
  <2>2. rows' = [rows EXCEPT ![Own(h)] = row]
    BY DEF Claim
  <2>3. old \in Rows /\ host.life \in 1..MaxHosts
    BY <2>1 DEF ChatInv, ChatTypeOK
  <2>4. row \in Rows /\ row.runs = old.runs /\ row.epoch = old.epoch
        /\ (row.status = "reply" => old.status = "reply")
    BY <2>3 DEF Rows
  <2> HIDE DEF row
  <2>5. QED
    BY <2>1, <2>2, <2>4, RowChanged
<1>3. (Situated /\ Slotted /\ StopReaches)'
  <2>1. \A g \in Turns : g # h => chat'[g] = chat[g]
    BY DEF Claim, ChatInv, ChatTypeOK
  <2>2. chat'[h].kind = "finalizer" /\ chat'[h].pc = "accepted" /\ chat[h].pc = "accepting"
        /\ chat'[h].attempt = chat[h].attempt /\ chat'[h].epoch = chat[h].epoch
    BY DEF Claim, FinalizerOnly, At, ChatInv, ChatTypeOK, TurnRecords
  <2>3. chat[h].kind = "user" /\ UNCHANGED <<host, epoch, clear, active, busy>>
    BY <2>2 DEF ChatInv, Situated, Claim
  <2>4. QED
    BY <2>1, <2>2, <2>3 DEF ChatInv, ChatTypeOK, Registered, Situated, Slotted, StopReaches, Own, Opening
<1>4. NobodyStarts
  BY <1>1 DEF ChatInv, NobodyStarts, AtWork, Situated, disk, memory, At, Own, Current, Absent, Ended, TurnRecords, Unlocked, ChatTypeOK, Claim, FinalizerOnly, TurnedAway, InItsEpoch
<1>5. Registered'
  <2>1. chat[h].pc = "accepting" /\ \A g \in Turns : g # h => chat'[g] = chat[g]
    BY DEF Claim, At, ChatInv, ChatTypeOK
  <2>2. QED
    BY <2>1 DEF ChatInv, ChatTypeOK, Registered, Opening, Claim
<1>6. ChatTypeOK'
  BY <1>1, <1>2, <1>5, ChatAssumption DEF ChatInv, ChatTypeOK, KeepsRows, TurnRecords, Own, Current, Unlocked, disk, memory, Claim, FinalizerOnly, TurnedAway, InItsEpoch
<1>7. (RunOnce /\ ClearedStaysCleared /\ Rowed /\ RunsTold)'
  BY <1>1, <1>2, <1>3, <1>4, RowsKept DEF Unlocked, disk, memory, Claim, FinalizerOnly, TurnedAway, InItsEpoch
<1>8. QED
  BY <1>3, <1>6, <1>7 DEF ChatInv

LEMMA BeginStep ==
  ASSUME ChatInv, NEW h \in Turns, Begin(h)
  PROVE  ChatInv'
<1>1. chat' \in [Turns -> TurnRecords]
  <2>1. [chat EXCEPT ![h].behind = Chain] \in [Turns -> TurnRecords]
    BY ChainTyped DEF ChatInv, ChatTypeOK, TurnRecords
  <2>2. QED
    BY <2>1, OpenedTyped DEF ChatInv, Begin
<1>2. KeepsRows
  BY RowsUnchanged DEF disk, memory, Begin, Opened, Aborted, Chain, Buffered
<1>3. (Situated /\ Slotted /\ StopReaches)'
  <2> DEFINE slotted == [chat EXCEPT ![h].behind = Chain]
  <2>1. slotted \in [Turns -> TurnRecords]
        /\ \A g \in Turns : /\ slotted[g].epoch = chat[g].epoch /\ slotted[g].kind = chat[g].kind
                            /\ slotted[g].attempt = chat[g].attempt /\ slotted[g].pc = chat[g].pc
                            /\ slotted[g].aborted = chat[g].aborted
    BY ChainTyped DEF ChatInv, ChatTypeOK, TurnRecords
  <2>2. chat' = [Aborted(active, slotted) EXCEPT ![h].pc = "open"]
    BY DEF Begin, Opened
  <2> HIDE DEF slotted
  <2>3. \A g \in Turns : /\ chat'[g].epoch = slotted[g].epoch /\ chat'[g].kind = slotted[g].kind
                          /\ chat'[g].attempt = slotted[g].attempt
                          /\ chat'[g].pc = IF g = h THEN "open" ELSE slotted[g].pc
    BY <2>1, <2>2 DEF TurnRecords, Aborted
  <2>4. \A g \in Turns : g # h /\ ~chat'[g].aborted => ~slotted[g].aborted /\ g # active
    BY <2>1, <2>2, ChatAssumption DEF TurnRecords, Aborted
  <2>5. active' = h /\ busy' = h /\ chat[h].pc = "accepted" /\ chat[h].kind = "user"
        /\ UNCHANGED <<host, epoch, clear>>
    BY DEF Begin, At
  <2>6. StopReaches'
    BY <2>1, <2>3, <2>4, <2>5 DEF ChatInv, StopReaches
  <2>7. (Situated /\ Slotted)'
    BY <2>1, <2>3, <2>5 DEF ChatInv, Situated, Slotted, Own
  <2>8. QED
    BY <2>6, <2>7
<1>4. NobodyStarts
  BY <1>1 DEF ChatInv, NobodyStarts, AtWork, Situated, disk, memory, At, Own, Current, Absent, Ended, TurnRecords, Unlocked, ChatTypeOK, Begin, Opened, Aborted, Chain, Buffered
<1>5. Registered'
  BY <1>1, ChatAssumption DEF ChatInv, ChatTypeOK, Registered, Opening, TurnRecords, At, Absent, Ended, Turns, disk, memory, Slotted, Begin, Opened, Aborted, Chain, Buffered
<1>6. ChatTypeOK'
  <2>1. (buffer # NoTurn => buffer.attempt \in Attempts \cup {NoTurn} /\ buffer.epoch \in 1..epoch)'
    BY ChatAssumption DEF ChatInv, ChatTypeOK, TurnRecords, Begin, Buffered, Own
  <2>2. QED
    BY <1>1, <1>2, <1>5, <2>1 DEF ChatInv, ChatTypeOK, KeepsRows, Begin
<1>7. (RunOnce /\ ClearedStaysCleared /\ Rowed /\ RunsTold)'
  BY <1>1, <1>2, <1>3, <1>4, RowsKept DEF Unlocked, disk, memory, Begin, Opened, Aborted, Chain, Buffered
<1>8. QED
  BY <1>3, <1>6, <1>7 DEF ChatInv

LEMMA QueueStep ==
  ASSUME ChatInv, NEW h \in Turns, Queue(h)
  PROVE  ChatInv'
<1>1. chat' \in [Turns -> TurnRecords]
  <2>1. [chat[h] EXCEPT !.behind = Chain, !.pc = "queued"] \in TurnRecords
    BY ChainTyped, SlotTyped DEF ChatInv, ChatTypeOK, Pcs
  <2>2. QED
    BY <2>1 DEF ChatInv, ChatTypeOK, Queue
<1>2. KeepsRows
  BY RowsUnchanged DEF disk, memory, Queue, Chain
<1>3. (Situated /\ Slotted /\ StopReaches)'
  BY <1>1, ChatAssumption DEF ChatInv, ChatTypeOK, Registered, Situated, Slotted, StopReaches, TurnRecords, Opening, At, Own, Current, Unlocked, Absent, Ended, Turns, disk, memory, Queue, Chain
<1>4. NobodyStarts
  BY <1>1 DEF ChatInv, NobodyStarts, AtWork, Situated, disk, memory, At, Own, Current, Absent, Ended, TurnRecords, Unlocked, ChatTypeOK, Queue, Chain
<1>5. Registered'
  BY <1>1, ChatAssumption DEF ChatInv, ChatTypeOK, Registered, Opening, TurnRecords, At, Absent, Ended, Turns, disk, memory, Slotted, Queue, Chain
<1>6. ChatTypeOK'
  BY <1>1, <1>2, <1>5, ChatAssumption DEF ChatInv, ChatTypeOK, KeepsRows, TurnRecords, Own, Current, Unlocked, disk, memory, Queue, Chain
<1>7. (RunOnce /\ ClearedStaysCleared /\ Rowed /\ RunsTold)'
  BY <1>1, <1>2, <1>3, <1>4, RowsKept DEF Unlocked, disk, memory, Queue, Chain
<1>8. QED
  BY <1>3, <1>6, <1>7 DEF ChatInv

LEMMA StartDelegationStep ==
  ASSUME ChatInv, NEW h \in Turns, StartDelegation(h)
  PROVE  ChatInv'
<1>1. chat' \in [Turns -> TurnRecords]
  <2>1. [chat[h] EXCEPT !.behind = Chain, !.pc = "running"] \in TurnRecords
    BY ChainTyped, SlotTyped DEF ChatInv, ChatTypeOK, Pcs
  <2>2. QED
    BY <2>1 DEF ChatInv, ChatTypeOK, StartDelegation
<1>2. KeepsRows
  BY RowsUnchanged DEF disk, memory, StartDelegation, MyTurn, Chain
<1>3. (Situated /\ Slotted /\ StopReaches)'
  BY <1>1, ChatAssumption DEF ChatInv, ChatTypeOK, Registered, Situated, Slotted, StopReaches, TurnRecords, Opening, At, Own, Current, Unlocked, Absent, Ended, Turns, disk, memory, StartDelegation, MyTurn, Chain
<1>4. NobodyStarts
  BY <1>1 DEF ChatInv, NobodyStarts, AtWork, Situated, disk, memory, At, Own, Current, Absent, Ended, TurnRecords, Unlocked, ChatTypeOK, StartDelegation, MyTurn, Chain
<1>5. Registered'
  BY <1>1, ChatAssumption DEF ChatInv, ChatTypeOK, Registered, Opening, TurnRecords, At, Absent, Ended, Turns, disk, memory, Slotted, StartDelegation, MyTurn, Chain
<1>6. ChatTypeOK'
  BY <1>1, <1>2, <1>5, ChatAssumption DEF ChatInv, ChatTypeOK, KeepsRows, TurnRecords, Own, Current, Unlocked, disk, memory, StartDelegation, MyTurn, Chain
<1>7. (RunOnce /\ ClearedStaysCleared /\ Rowed /\ RunsTold)'
  BY <1>1, <1>2, <1>3, <1>4, RowsKept DEF Unlocked, disk, memory, StartDelegation, MyTurn, Chain
<1>8. QED
  BY <1>3, <1>6, <1>7 DEF ChatInv

LEMMA AbandonDelegationStep ==
  ASSUME ChatInv, NEW h \in Turns, AbandonDelegation(h)
  PROVE  ChatInv'
<1>1. chat' \in [Turns -> TurnRecords]
  BY RestingTyped DEF ChatInv, ChatTypeOK, TurnRecords, disk, memory, AbandonDelegation
<1>2. KeepsRows
  BY RowsUnchanged DEF disk, memory, AbandonDelegation
<1>3. (Situated /\ Slotted /\ StopReaches)'
  BY <1>1, ChatAssumption DEF ChatInv, ChatTypeOK, Registered, Situated, Slotted, StopReaches, TurnRecords, Opening, At, Own, Current, Unlocked, Absent, Ended, Turns, disk, memory, AbandonDelegation
<1>4. NobodyStarts
  BY <1>1 DEF ChatInv, NobodyStarts, AtWork, Situated, disk, memory, At, Own, Current, Absent, Ended, TurnRecords, Unlocked, ChatTypeOK, AbandonDelegation
<1>5. Registered'
  BY <1>1, ChatAssumption DEF ChatInv, ChatTypeOK, Registered, Opening, TurnRecords, At, Absent, Ended, Turns, disk, memory, Slotted, AbandonDelegation
<1>6. ChatTypeOK'
  BY <1>1, <1>2, <1>5, ChatAssumption DEF ChatInv, ChatTypeOK, KeepsRows, TurnRecords, Own, Current, Unlocked, disk, memory, AbandonDelegation
<1>7. (RunOnce /\ ClearedStaysCleared /\ Rowed /\ RunsTold)'
  BY <1>1, <1>2, <1>3, <1>4, RowsKept DEF Unlocked, disk, memory, AbandonDelegation
<1>8. QED
  BY <1>3, <1>6, <1>7 DEF ChatInv

LEMMA StreamStep ==
  ASSUME ChatInv, NEW h \in Turns, Stream(h)
  PROVE  ChatInv'
<1>1. chat' \in [Turns -> TurnRecords]
  BY RestingTyped DEF ChatInv, ChatTypeOK, TurnRecords, disk, memory, Stream, Running, Buffered
<1>2. KeepsRows
  BY RowsUnchanged DEF disk, memory, Stream, Running, Buffered
<1>3. (Situated /\ Slotted /\ StopReaches)'
  BY <1>1, ChatAssumption DEF ChatInv, ChatTypeOK, Registered, Situated, Slotted, StopReaches, TurnRecords, Opening, At, Own, Current, Unlocked, Absent, Ended, Turns, disk, memory, Stream, Running, Buffered
<1>4. NobodyStarts
  BY <1>1 DEF ChatInv, NobodyStarts, AtWork, Situated, disk, memory, At, Own, Current, Absent, Ended, TurnRecords, Unlocked, ChatTypeOK, Stream, Running, Buffered
<1>5. Registered'
  BY <1>1, ChatAssumption DEF ChatInv, ChatTypeOK, Registered, Opening, TurnRecords, At, Absent, Ended, Turns, disk, memory, Slotted, Stream, Running, Buffered
<1>6. ChatTypeOK'
  BY <1>1, <1>2, <1>5, ChatAssumption DEF ChatInv, ChatTypeOK, KeepsRows, TurnRecords, Own, Current, Unlocked, disk, memory, Stream, Running, Buffered
<1>7. (RunOnce /\ ClearedStaysCleared /\ Rowed /\ RunsTold)'
  BY <1>1, <1>2, <1>3, <1>4, RowsKept DEF Unlocked, disk, memory, Stream, Running, Buffered
<1>8. QED
  BY <1>3, <1>6, <1>7 DEF ChatInv

LEMMA ReplyStep ==
  ASSUME ChatInv, NEW h \in Turns, Reply(h)
  PROVE  ChatInv'
<1>1. chat' \in [Turns -> TurnRecords]
  BY RestingTyped DEF ChatInv, ChatTypeOK, TurnRecords, disk, memory, Reply, Running, Pending
<1>2. KeepsRows
  <2>1. CASE chat[h].kind # "user"
    BY <2>1, RowsUnchanged DEF Reply
  <2>2. CASE chat[h].kind = "user"
    <3> DEFINE old == rows[Own(h)]
               row == [old EXCEPT !.status = "reply", !.reply = TRUE]
    <3>1. Own(h) \in Attempts /\ old # NoTurn /\ rows' = [rows EXCEPT ![Own(h)] = row]
      BY <2>2 DEF ChatInv, Situated, Reply, Pending
    <3>2. old.runs = 1
      BY <2>2, <3>1 DEF ChatInv, RunsTold, AtWork, Reply, Running, At
    <3>3. row \in Rows /\ row.runs = old.runs /\ row.epoch = old.epoch
      BY <3>1 DEF ChatInv, ChatTypeOK, Rows
    <3> HIDE DEF row
    <3>4. QED
      BY <3>1, <3>2, <3>3, RowChanged
  <2>3. QED
    BY <2>1, <2>2
<1>3. (Situated /\ Slotted /\ StopReaches)'
  BY <1>1, ChatAssumption DEF ChatInv, ChatTypeOK, Registered, Situated, Slotted, StopReaches, TurnRecords, Opening, At, Own, Current, Unlocked, Absent, Ended, Turns, disk, memory, Reply, Running, Pending
<1>4. NobodyStarts
  BY <1>1 DEF ChatInv, NobodyStarts, AtWork, Situated, disk, memory, At, Own, Current, Absent, Ended, TurnRecords, Unlocked, ChatTypeOK, Reply, Running, Pending
<1>5. Registered'
  BY <1>1, ChatAssumption DEF ChatInv, ChatTypeOK, Registered, Opening, TurnRecords, At, Absent, Ended, Turns, disk, memory, Slotted, Reply, Running, Pending
<1>6. ChatTypeOK'
  BY <1>1, <1>2, <1>5, ChatAssumption DEF ChatInv, ChatTypeOK, KeepsRows, TurnRecords, Own, Current, Unlocked, disk, memory, Reply, Running, Pending
<1>7. (RunOnce /\ ClearedStaysCleared /\ Rowed /\ RunsTold)'
  BY <1>1, <1>2, <1>3, <1>4, RowsKept DEF Unlocked, disk, memory, Reply, Running, Pending
<1>8. QED
  BY <1>3, <1>6, <1>7 DEF ChatInv

LEMMA FailStep ==
  ASSUME ChatInv, NEW h \in Turns, Fail(h)
  PROVE  ChatInv'
<1>1. chat' \in [Turns -> TurnRecords]
  <2>1. chat \in [Turns -> TurnRecords]
    BY DEF ChatInv, ChatTypeOK
  <2>2. QED
    BY <2>1, MovedTyped DEF Pcs, Outcomes, Fail
<1>2. KeepsRows
  <2>1. CASE chat[h].kind # "user"
    BY <2>1, RowsUnchanged DEF Fail
  <2>2. CASE chat[h].kind = "user"
    BY <2>2, FailedKeeps DEF ChatInv, Situated, Fail
  <2>3. QED
    BY <2>1, <2>2
<1>3. (Situated /\ Slotted /\ StopReaches)'
  BY <1>1, ChatAssumption DEF ChatInv, ChatTypeOK, Registered, Situated, Slotted, StopReaches, TurnRecords, Opening, At, Own, Current, Unlocked, Absent, Ended, Turns, disk, memory, Fail, Running, Failed
<1>4. NobodyStarts
  BY <1>1 DEF ChatInv, NobodyStarts, AtWork, Situated, disk, memory, At, Own, Current, Absent, Ended, TurnRecords, Unlocked, ChatTypeOK, Fail, Running, Failed
<1>5. Registered'
  BY <1>1, ChatAssumption DEF ChatInv, ChatTypeOK, Registered, Opening, TurnRecords, At, Absent, Ended, Turns, disk, memory, Slotted, Fail, Running, Failed
<1>6. ChatTypeOK'
  BY <1>1, <1>2, <1>5, ChatAssumption DEF ChatInv, ChatTypeOK, KeepsRows, TurnRecords, Own, Current, Unlocked, disk, memory, Fail, Running, Failed
<1>7. (RunOnce /\ ClearedStaysCleared /\ Rowed /\ RunsTold)'
  BY <1>1, <1>2, <1>3, <1>4, RowsKept DEF Unlocked, disk, memory, Fail, Running, Failed
<1>8. QED
  BY <1>3, <1>6, <1>7 DEF ChatInv

LEMMA DoneStep ==
  ASSUME ChatInv, NEW h \in Turns, Done(h)
  PROVE  ChatInv'
<1>1. chat' \in [Turns -> TurnRecords]
  BY RestingTyped DEF ChatInv, ChatTypeOK, TurnRecords, disk, memory, Done, Running
<1>2. KeepsRows
  BY RowsUnchanged DEF disk, memory, Done, Running
<1>3. (Situated /\ Slotted /\ StopReaches)'
  BY <1>1, ChatAssumption DEF ChatInv, ChatTypeOK, Registered, Situated, Slotted, StopReaches, TurnRecords, Opening, At, Own, Current, Unlocked, Absent, Ended, Turns, disk, memory, Done, Running
<1>4. NobodyStarts
  BY <1>1 DEF ChatInv, NobodyStarts, AtWork, Situated, disk, memory, At, Own, Current, Absent, Ended, TurnRecords, Unlocked, ChatTypeOK, Done, Running
<1>5. Registered'
  BY <1>1, ChatAssumption DEF ChatInv, ChatTypeOK, Registered, Opening, TurnRecords, At, Absent, Ended, Turns, disk, memory, Slotted, Done, Running
<1>6. ChatTypeOK'
  BY <1>1, <1>2, <1>5, ChatAssumption DEF ChatInv, ChatTypeOK, KeepsRows, TurnRecords, Own, Current, Unlocked, disk, memory, Done, Running
<1>7. (RunOnce /\ ClearedStaysCleared /\ Rowed /\ RunsTold)'
  BY <1>1, <1>2, <1>3, <1>4, RowsKept DEF Unlocked, disk, memory, Done, Running
<1>8. QED
  BY <1>3, <1>6, <1>7 DEF ChatInv

LEMMA EndDelegationStep ==
  ASSUME ChatInv, NEW h \in Turns, EndDelegation(h)
  PROVE  ChatInv'
<1>1. chat' \in [Turns -> TurnRecords]
  BY RestingTyped DEF ChatInv, ChatTypeOK, TurnRecords, disk, memory, EndDelegation, Released, BusyWithout
<1>2. KeepsRows
  BY RowsUnchanged DEF disk, memory, EndDelegation, Released, BusyWithout
<1>3. (Situated /\ Slotted /\ StopReaches)'
  BY <1>1, ChatAssumption DEF ChatInv, ChatTypeOK, Registered, Situated, Slotted, StopReaches, TurnRecords, Opening, At, Own, Current, Unlocked, Absent, Ended, Turns, disk, memory, EndDelegation, Released, BusyWithout
<1>4. NobodyStarts
  BY <1>1 DEF ChatInv, NobodyStarts, AtWork, Situated, disk, memory, At, Own, Current, Absent, Ended, TurnRecords, Unlocked, ChatTypeOK, EndDelegation, Released, BusyWithout
<1>5. Registered'
  BY <1>1, ChatAssumption DEF ChatInv, ChatTypeOK, Registered, Opening, TurnRecords, At, Absent, Ended, Turns, disk, memory, Slotted, EndDelegation, Released, BusyWithout
<1>6. ChatTypeOK'
  BY <1>1, <1>2, <1>5, ChatAssumption DEF ChatInv, ChatTypeOK, KeepsRows, TurnRecords, Own, Current, Unlocked, disk, memory, EndDelegation, Released, BusyWithout
<1>7. (RunOnce /\ ClearedStaysCleared /\ Rowed /\ RunsTold)'
  BY <1>1, <1>2, <1>3, <1>4, RowsKept DEF Unlocked, disk, memory, EndDelegation, Released, BusyWithout
<1>8. QED
  BY <1>3, <1>6, <1>7 DEF ChatInv

LEMMA MarkStep ==
  ASSUME ChatInv, NEW h \in Turns, Mark(h)
  PROVE  ChatInv'
<1>1. chat' \in [Turns -> TurnRecords]
  BY RestingTyped DEF ChatInv, ChatTypeOK, TurnRecords, disk, memory, Mark, BufferWithout
<1>2. KeepsRows
  <2>1. CASE rows' = rows
    BY <2>1, RowsUnchanged
  <2>2. CASE rows' # rows
    <3> DEFINE old == rows[Own(h)]
               row == [old EXCEPT !.final = IF @ = "none" THEN chat[h].held ELSE @]
    <3>1. Own(h) \in Attempts /\ old # NoTurn /\ rows' = [rows EXCEPT ![Own(h)] = row]
      BY <2>2 DEF Mark
    <3>2. old \in Rows /\ chat[h].held \in Outcomes
      BY <3>1 DEF ChatInv, ChatTypeOK, TurnRecords, Outcomes
    <3>3. row \in Rows /\ row.runs = old.runs /\ row.epoch = old.epoch /\ row.status = old.status
      BY <3>2 DEF Rows, Outcomes
    <3> HIDE DEF row
    <3>4. QED
      BY <3>1, <3>3, RowChanged
  <2>3. QED
    BY <2>1, <2>2
<1>3. (Situated /\ Slotted /\ StopReaches)'
  BY <1>1, ChatAssumption DEF ChatInv, ChatTypeOK, Registered, Situated, Slotted, StopReaches, TurnRecords, Opening, At, Own, Current, Unlocked, Absent, Ended, Turns, disk, memory, Mark, BufferWithout
<1>4. NobodyStarts
  BY <1>1 DEF ChatInv, NobodyStarts, AtWork, Situated, disk, memory, At, Own, Current, Absent, Ended, TurnRecords, Unlocked, ChatTypeOK, Mark, BufferWithout
<1>5. Registered'
  BY <1>1, ChatAssumption DEF ChatInv, ChatTypeOK, Registered, Opening, TurnRecords, At, Absent, Ended, Turns, disk, memory, Slotted, Mark, BufferWithout
<1>6. ChatTypeOK'
  BY <1>1, <1>2, <1>5, ChatAssumption DEF ChatInv, ChatTypeOK, KeepsRows, TurnRecords, Own, Current, Unlocked, disk, memory, Mark, BufferWithout
<1>7. (RunOnce /\ ClearedStaysCleared /\ Rowed /\ RunsTold)'
  BY <1>1, <1>2, <1>3, <1>4, RowsKept DEF Unlocked, disk, memory, Mark, BufferWithout
<1>8. QED
  BY <1>3, <1>6, <1>7 DEF ChatInv

LEMMA CloseStep ==
  ASSUME ChatInv, NEW h \in Turns, Close(h)
  PROVE  ChatInv'
<1>1. chat' \in [Turns -> TurnRecords]
  BY RestingTyped DEF ChatInv, ChatTypeOK, TurnRecords, disk, memory, Close, Released, BusyWithout, Owner, BufferWithout
<1>2. KeepsRows
  BY RowsUnchanged DEF disk, memory, Close, Released, BusyWithout, Owner, BufferWithout
<1>3. (Situated /\ Slotted /\ StopReaches)'
  BY <1>1, ChatAssumption DEF ChatInv, ChatTypeOK, Registered, Situated, Slotted, StopReaches, TurnRecords, Opening, At, Own, Current, Unlocked, Absent, Ended, Turns, disk, memory, Close, Released, BusyWithout, Owner, BufferWithout
<1>4. NobodyStarts
  BY <1>1 DEF ChatInv, NobodyStarts, AtWork, Situated, disk, memory, At, Own, Current, Absent, Ended, TurnRecords, Unlocked, ChatTypeOK, Close, Released, BusyWithout, Owner, BufferWithout
<1>5. Registered'
  BY <1>1, ChatAssumption DEF ChatInv, ChatTypeOK, Registered, Opening, TurnRecords, At, Absent, Ended, Turns, disk, memory, Slotted, Close, Released, BusyWithout, Owner, BufferWithout
<1>6. ChatTypeOK'
  BY <1>1, <1>2, <1>5, ChatAssumption DEF ChatInv, ChatTypeOK, KeepsRows, TurnRecords, Own, Current, Unlocked, disk, memory, Close, Released, BusyWithout, Owner, BufferWithout
<1>7. (RunOnce /\ ClearedStaysCleared /\ Rowed /\ RunsTold)'
  BY <1>1, <1>2, <1>3, <1>4, RowsKept DEF Unlocked, disk, memory, Close, Released, BusyWithout, Owner, BufferWithout
<1>8. QED
  BY <1>3, <1>6, <1>7 DEF ChatInv

LEMMA StopStep ==
  ASSUME ChatInv, NEW h \in Turns, Stop(h)
  PROVE  ChatInv'
<1>1. chat' \in [Turns -> TurnRecords]
  BY AbortedTyped DEF ChatInv, ChatTypeOK, Stop
<1>2. KeepsRows
  BY RowsUnchanged DEF disk, memory, Stop, Aborted
<1>3. (Situated /\ Slotted /\ StopReaches)'
  BY <1>1, ChatAssumption DEF ChatInv, ChatTypeOK, Registered, Situated, Slotted, StopReaches, TurnRecords, Opening, At, Own, Current, Unlocked, Absent, Ended, Turns, disk, memory, Stop, Aborted
<1>4. NobodyStarts
  BY <1>1 DEF ChatInv, NobodyStarts, AtWork, Situated, disk, memory, At, Own, Current, Absent, Ended, TurnRecords, Unlocked, ChatTypeOK, Stop, Aborted
<1>5. Registered'
  BY <1>1, ChatAssumption DEF ChatInv, ChatTypeOK, Registered, Opening, TurnRecords, At, Absent, Ended, Turns, disk, memory, Slotted, Stop, Aborted
<1>6. ChatTypeOK'
  BY <1>1, <1>2, <1>5, ChatAssumption DEF ChatInv, ChatTypeOK, KeepsRows, TurnRecords, Own, Current, Unlocked, disk, memory, Stop, Aborted
<1>7. (RunOnce /\ ClearedStaysCleared /\ Rowed /\ RunsTold)'
  BY <1>1, <1>2, <1>3, <1>4, RowsKept DEF Unlocked, disk, memory, Stop, Aborted
<1>8. QED
  BY <1>3, <1>6, <1>7 DEF ChatInv

LEMMA ClearAbortsStep ==
  ASSUME ChatInv, ClearAborts
  PROVE  ChatInv'
<1>1. chat' \in [Turns -> TurnRecords]
  BY RestingTyped DEF ChatInv, ChatTypeOK, TurnRecords, disk, memory, ClearAborts, Aborted
<1>2. KeepsRows
  BY RowsUnchanged DEF disk, memory, ClearAborts, Aborted
<1>3. (Situated /\ Slotted /\ StopReaches)'
  BY <1>1, ChatAssumption DEF ChatInv, ChatTypeOK, Registered, Situated, Slotted, StopReaches, TurnRecords, Opening, At, Own, Current, Unlocked, Absent, Ended, Turns, disk, memory, ClearAborts, Aborted
<1>4. NobodyStarts
  BY <1>1 DEF ChatInv, NobodyStarts, AtWork, Situated, disk, memory, At, Own, Current, Absent, Ended, TurnRecords, Unlocked, ChatTypeOK, ClearAborts, Aborted
<1>5. Registered'
  BY <1>1, ChatAssumption DEF ChatInv, ChatTypeOK, Registered, Opening, TurnRecords, At, Absent, Ended, Turns, disk, memory, Slotted, ClearAborts, Aborted
<1>6. ChatTypeOK'
  BY <1>1, <1>2, <1>5, ChatAssumption DEF ChatInv, ChatTypeOK, KeepsRows, TurnRecords, Own, Current, Unlocked, disk, memory, ClearAborts, Aborted
<1>7. (RunOnce /\ ClearedStaysCleared /\ Rowed /\ RunsTold)'
  BY <1>1, <1>2, <1>3, <1>4, RowsKept DEF Unlocked, disk, memory, ClearAborts, Aborted
<1>8. QED
  BY <1>3, <1>6, <1>7 DEF ChatInv

LEMMA ClearBufferStep ==
  ASSUME ChatInv, ClearBuffer
  PROVE  ChatInv'
<1>1. chat' \in [Turns -> TurnRecords]
  BY RestingTyped DEF ChatInv, ChatTypeOK, TurnRecords, disk, memory, ClearBuffer
<1>2. KeepsRows
  BY RowsUnchanged DEF disk, memory, ClearBuffer
<1>3. (Situated /\ Slotted /\ StopReaches)'
  BY <1>1, ChatAssumption DEF ChatInv, ChatTypeOK, Registered, Situated, Slotted, StopReaches, TurnRecords, Opening, At, Own, Current, Unlocked, Absent, Ended, Turns, disk, memory, ClearBuffer
<1>4. NobodyStarts
  BY <1>1 DEF ChatInv, NobodyStarts, AtWork, Situated, disk, memory, At, Own, Current, Absent, Ended, TurnRecords, Unlocked, ChatTypeOK, ClearBuffer
<1>5. Registered'
  BY <1>1, ChatAssumption DEF ChatInv, ChatTypeOK, Registered, Opening, TurnRecords, At, Absent, Ended, Turns, disk, memory, Slotted, ClearBuffer
<1>6. ChatTypeOK'
  BY <1>1, <1>2, <1>5, ChatAssumption DEF ChatInv, ChatTypeOK, KeepsRows, TurnRecords, Own, Current, Unlocked, disk, memory, ClearBuffer
<1>7. (RunOnce /\ ClearedStaysCleared /\ Rowed /\ RunsTold)'
  BY <1>1, <1>2, <1>3, <1>4, RowsKept DEF Unlocked, disk, memory, ClearBuffer
<1>8. QED
  BY <1>3, <1>6, <1>7 DEF ChatInv

LEMMA HostRestartStep ==
  ASSUME ChatInv, HostRestart
  PROVE  ChatInv'
<1>1. chat' \in [Turns -> TurnRecords]
  BY RestingTyped DEF ChatInv, ChatTypeOK, TurnRecords, disk, memory, HostRestart
<1>2. KeepsRows
  BY RowsUnchanged DEF disk, memory, HostRestart
<1>3. (Situated /\ Slotted /\ StopReaches)'
  BY <1>1, ChatAssumption DEF ChatInv, ChatTypeOK, Registered, Situated, Slotted, StopReaches, TurnRecords, Opening, At, Own, Current, Unlocked, Absent, Ended, Turns, disk, memory, HostRestart
<1>4. NobodyStarts
  BY <1>1 DEF ChatInv, NobodyStarts, AtWork, Situated, disk, memory, At, Own, Current, Absent, Ended, TurnRecords, Unlocked, ChatTypeOK, HostRestart
<1>5. Registered'
  BY <1>1, ChatAssumption DEF ChatInv, ChatTypeOK, Registered, Opening, TurnRecords, At, Absent, Ended, Turns, disk, memory, Slotted, HostRestart
<1>6. ChatTypeOK'
  <2>1. host.life + 1 \in 1..MaxHosts
    BY ChatAssumption DEF ChatInv, ChatTypeOK, Situated, HostRestart
  <2>2. QED
    BY <1>1, <1>2, <1>5, <2>1 DEF ChatInv, ChatTypeOK, KeepsRows, HostRestart, disk, memory
<1>7. (RunOnce /\ ClearedStaysCleared /\ Rowed /\ RunsTold)'
  BY <1>1, <1>2, <1>3, <1>4, RowsKept DEF Unlocked, disk, memory, HostRestart
<1>8. QED
  BY <1>3, <1>6, <1>7 DEF ChatInv

LEMMA SweepRowsStep ==
  ASSUME ChatInv, SweepRows
  PROVE  ChatInv'
<1>1. chat' \in [Turns -> TurnRecords]
  BY RestingTyped DEF ChatInv, ChatTypeOK, TurnRecords, disk, memory, SweepRows, PreOpen, Orphaned, Buffers
<1>2. KeepsRows
  <2>1. \A a \in Attempts : PreOpen(a) =>
          /\ rows[a] \in Rows
          /\ [rows[a] EXCEPT !.status = "failed"] \in Rows
    BY DEF PreOpen, Orphaned, ChatInv, ChatTypeOK, Rows
  <2>2. rows' \in [Attempts -> Rows \cup {NoTurn}]
    BY <2>1 DEF SweepRows, ChatInv, ChatTypeOK
  <2>3. \A a \in Attempts : rows'[a] = IF PreOpen(a) THEN [rows[a] EXCEPT !.status = "failed"] ELSE rows[a]
    BY DEF SweepRows
  <2>4. \A a \in Attempts : PreOpen(a) => rows[a] # NoTurn /\ rows'[a] # NoTurn
    BY <2>1, <2>3, ChatAssumption DEF PreOpen, Orphaned
  <2>5. \A a \in Attempts : PreOpen(a) =>
          rows'[a].runs = rows[a].runs /\ rows'[a].epoch = rows[a].epoch /\ rows'[a].status = "failed"
    BY <2>1, <2>3 DEF Rows
  <2>6. QED
    BY <2>2, <2>3, <2>4, <2>5 DEF KeepsRows
<1>3. (Situated /\ Slotted /\ StopReaches)'
  BY <1>1, ChatAssumption DEF ChatInv, ChatTypeOK, Registered, Situated, Slotted, StopReaches, TurnRecords, Opening, At, Own, Current, Unlocked, Absent, Ended, Turns, disk, memory, SweepRows, PreOpen, Orphaned, Buffers
<1>4. NobodyStarts
  BY <1>1 DEF ChatInv, NobodyStarts, AtWork, Situated, disk, memory, At, Own, Current, Absent, Ended, TurnRecords, Unlocked, ChatTypeOK, SweepRows, PreOpen, Orphaned, Buffers
<1>5. Registered'
  BY <1>1, ChatAssumption DEF ChatInv, ChatTypeOK, Registered, Opening, TurnRecords, At, Absent, Ended, Turns, disk, memory, Slotted, SweepRows, PreOpen, Orphaned, Buffers
<1>6. ChatTypeOK'
  BY <1>1, <1>2, <1>5, ChatAssumption DEF ChatInv, ChatTypeOK, KeepsRows, TurnRecords, Own, Current, Unlocked, disk, memory, SweepRows, PreOpen, Orphaned, Buffers
<1>7. (RunOnce /\ ClearedStaysCleared /\ Rowed /\ RunsTold)'
  BY <1>1, <1>2, <1>3, <1>4, RowsKept DEF Unlocked, disk, memory, SweepRows, PreOpen, Orphaned, Buffers
<1>8. QED
  BY <1>3, <1>6, <1>7 DEF ChatInv

LEMMA GiveUpStep ==
  ASSUME ChatInv, NEW h \in Turns, MyTurn(h), chat[h].kind # "delegation",
         chat' = Released(h, chat), busy' = BusyWithout(h),
         UNCHANGED <<host, epoch, rows, buffer, clear, active>>
  PROVE  ChatInv'
<1>1. chat' \in [Turns -> TurnRecords]
  BY ReleasedTyped DEF ChatInv, ChatTypeOK
<1>2. KeepsRows
  BY RowsUnchanged
<1>3. (Situated /\ Slotted /\ StopReaches)'
  BY <1>1, ChatAssumption DEF ChatInv, ChatTypeOK, Registered, Situated, Slotted, StopReaches, TurnRecords,
     Opening, MyTurn, At, Own, Absent, Ended, Released, BusyWithout
<1>4. NobodyStarts
  BY <1>1 DEF NobodyStarts, AtWork, Own, Current, Released, Ended, Absent, TurnRecords, ChatInv, ChatTypeOK
<1>5. Registered'
  BY <1>1, ChatAssumption DEF ChatInv, ChatTypeOK, Registered, TurnRecords, Opening, MyTurn, At, Released,
     BusyWithout
<1>6. ChatTypeOK'
  BY <1>1, <1>2, <1>5 DEF ChatInv, ChatTypeOK, KeepsRows
<1>7. (RunOnce /\ ClearedStaysCleared /\ Rowed /\ RunsTold)'
  BY <1>1, <1>2, <1>3, <1>4, RowsKept
<1>8. QED
  BY <1>3, <1>6, <1>7 DEF ChatInv

LEMMA OpenStep ==
  ASSUME ChatInv, NEW h \in Turns, NEW pc \in {"finishing", "open"}, MyTurn(h), chat[h].kind # "delegation",
         chat' = [Opened(h, chat) EXCEPT ![h].pc = pc], active' = h, buffer' = Buffered(h, FALSE),
         UNCHANGED <<host, epoch, rows, clear, busy>>
  PROVE  ChatInv'
<1> DEFINE opened == Opened(h, chat)
<1>0. opened \in [Turns -> TurnRecords]
  BY OpenedTyped DEF ChatInv, ChatTypeOK
<1>1. chat' \in [Turns -> TurnRecords]
  <2> HIDE DEF opened
  <2>1. chat' = [opened EXCEPT ![h].pc = pc]
    BY DEF opened
  <2>2. QED
    <3>1. "none" \in Outcomes /\ pc \in Pcs
      BY DEF Outcomes, Pcs
    <3>2. [opened EXCEPT ![h].pc = pc] \in [Turns -> TurnRecords]
      BY <1>0, <3>1, MovedTyped
    <3>3. QED
      BY <2>1, <3>2
<1>2. KeepsRows
  BY RowsUnchanged
<1>a. \A g \in Turns : /\ chat'[g].epoch = chat[g].epoch /\ chat'[g].kind = chat[g].kind
                       /\ chat'[g].attempt = chat[g].attempt
                       /\ chat'[g].pc = IF g = h THEN pc ELSE chat[g].pc
                       /\ g # h /\ ~chat'[g].aborted => ~chat[g].aborted /\ g # active
  <2>1. CASE active = NoTurn
    BY <2>1, ChatAssumption DEF ChatInv, ChatTypeOK, TurnRecords, Opened, Aborted
  <2>2. CASE active # NoTurn
    BY <2>2 DEF ChatInv, ChatTypeOK, Registered, TurnRecords, Opened, Aborted
  <2>3. QED
    BY <2>1, <2>2
<1>b. chat[h].pc = "queued" /\ chat[h].kind # "user"
  BY DEF MyTurn, At, ChatInv, Situated
<1>3. (Situated /\ Slotted /\ StopReaches)'
  <2>1. StopReaches'
    BY <1>a DEF ChatInv, StopReaches
  <2>2. Situated'
    BY <1>a, <1>b DEF ChatInv, Situated, Own
  <2>3. Slotted'
    BY <1>a, <1>b DEF ChatInv, ChatTypeOK, Registered, Slotted
  <2>4. QED
    BY <2>1, <2>2, <2>3
<1>4. NobodyStarts
  BY <1>a, <1>b DEF NobodyStarts, AtWork, Own, Current
<1>5. Registered'
  BY <1>a, ChatAssumption DEF ChatInv, ChatTypeOK, Registered, Opening
<1>6. ChatTypeOK'
  <2>1. (buffer # NoTurn => buffer.attempt \in Attempts \cup {NoTurn} /\ buffer.epoch \in 1..epoch)'
    BY ChatAssumption DEF ChatInv, ChatTypeOK, TurnRecords, Buffered, Own
  <2>2. QED
    BY <1>1, <1>2, <1>5, <2>1 DEF ChatInv, ChatTypeOK, KeepsRows
<1>7. (RunOnce /\ ClearedStaysCleared /\ Rowed /\ RunsTold)'
  BY <1>1, <1>2, <1>3, <1>4, RowsKept
<1>8. QED
  BY <1>3, <1>6, <1>7 DEF ChatInv

LEMMA OpenQueuedStep ==
  ASSUME ChatInv, NEW h \in Turns, OpenQueued(h)
  PROVE  ChatInv'
BY GiveUpStep, OpenStep DEF OpenQueued

LEMMA FinishStep ==
  ASSUME ChatInv, NEW h \in Turns, Finish(h)
  PROVE  ChatInv'
<1>0. PICK pc \in {"marking", "closing"}, held \in Outcomes :
        chat' = [chat EXCEPT ![h].pc = pc] \/ chat' = [chat EXCEPT ![h].pc = pc, ![h].held = held]
  BY DEF Finish, Outcomes
<1>1. chat' \in [Turns -> TurnRecords]
  <2>1. pc \in Pcs
    BY DEF Pcs
  <2>2. [chat EXCEPT ![h].pc = pc] \in [Turns -> TurnRecords]
        /\ [chat EXCEPT ![h].pc = pc, ![h].held = held] \in [Turns -> TurnRecords]
    BY <2>1, MovedTyped DEF ChatInv, ChatTypeOK
  <2>3. QED
    BY <1>0, <2>2
<1>a. \A g \in Turns : /\ chat'[g].epoch = chat[g].epoch /\ chat'[g].kind = chat[g].kind
                       /\ chat'[g].attempt = chat[g].attempt /\ chat'[g].aborted = chat[g].aborted
                       /\ g # h => chat'[g].pc = chat[g].pc
  BY <1>0 DEF ChatInv, ChatTypeOK, TurnRecords
<1>b. chat[h].pc = "finishing" /\ chat'[h].pc \in {"marking", "closing"}
  BY <1>0 DEF Finish, At, ChatInv, ChatTypeOK, TurnRecords
<1>2. KeepsRows
  BY RowsUnchanged, FailedKeeps DEF Finish
<1>3. (Situated /\ Slotted /\ StopReaches)'
  <2>1. StopReaches'
    BY <1>a, <1>b DEF ChatInv, StopReaches, Opening, Finish
  <2>2. Situated'
    BY <1>a, <1>b DEF ChatInv, Situated, Own, Finish
  <2>3. Slotted'
    BY <1>a, <1>b DEF ChatInv, ChatTypeOK, Registered, Slotted, Finish
  <2>4. QED
    BY <2>1, <2>2, <2>3
<1>4. NobodyStarts
  BY <1>a, <1>b DEF NobodyStarts, AtWork, Own, Current, Finish
<1>5. Registered'
  BY <1>a, <1>b DEF ChatInv, ChatTypeOK, Registered, Opening, Finish
<1>6. ChatTypeOK'
  BY <1>1, <1>2, <1>5 DEF ChatInv, ChatTypeOK, KeepsRows, Finish
<1>7. (RunOnce /\ ClearedStaysCleared /\ Rowed /\ RunsTold)'
  BY <1>1, <1>2, <1>3, <1>4, RowsKept DEF Finish
<1>8. QED
  BY <1>3, <1>6, <1>7 DEF ChatInv

LEMMA RecheckStep ==
  ASSUME ChatInv, NEW h \in Turns, Recheck(h)
  PROVE  ChatInv'
<1>0. PICK pc \in {"finishing", "running"}, held \in Outcomes :
        chat' = [chat EXCEPT ![h].pc = pc] \/ chat' = [chat EXCEPT ![h].pc = pc, ![h].held = held]
  BY DEF Recheck, Outcomes
<1>1. chat' \in [Turns -> TurnRecords]
  <2>1. pc \in Pcs
    BY DEF Pcs
  <2>2. [chat EXCEPT ![h].pc = pc] \in [Turns -> TurnRecords]
        /\ [chat EXCEPT ![h].pc = pc, ![h].held = held] \in [Turns -> TurnRecords]
    BY <2>1, MovedTyped DEF ChatInv, ChatTypeOK
  <2>3. QED
    BY <1>0, <2>2
<1>a. \A g \in Turns : /\ chat'[g].epoch = chat[g].epoch /\ chat'[g].kind = chat[g].kind
                       /\ chat'[g].attempt = chat[g].attempt /\ chat'[g].aborted = chat[g].aborted
                       /\ g # h => chat'[g].pc = chat[g].pc
  BY <1>0 DEF ChatInv, ChatTypeOK, TurnRecords
<1>b. chat[h].pc = "open" /\ chat'[h].pc \in {"finishing", "running"}
  BY <1>0 DEF Recheck, At, ChatInv, ChatTypeOK, TurnRecords
<1>3. (Situated /\ Slotted /\ StopReaches)'
  <2>1. StopReaches'
    BY <1>a, <1>b DEF ChatInv, StopReaches, Opening, Recheck
  <2>2. Situated'
    BY <1>a, <1>b DEF ChatInv, Situated, Own, Recheck
  <2>3. Slotted'
    BY <1>a, <1>b DEF ChatInv, ChatTypeOK, Registered, Slotted, Recheck
  <2>4. QED
    BY <2>1, <2>2, <2>3
<1>5. Registered'
  BY <1>a, <1>b DEF ChatInv, ChatTypeOK, Registered, Opening, Recheck
<1>c. UNCHANGED <<host, epoch, buffer, clear>>
  BY DEF Recheck
<1>2. CASE rows' = rows /\ ~(AtWork(h) /\ rows[Own(h)] # NoTurn /\ chat'[h].pc = "running")
  <2>1. ChatTypeOK'
    BY <1>1, <1>2, <1>5, <1>c DEF ChatInv, ChatTypeOK
  <2>2. \A g \in Turns : AtWork(g)' <=> AtWork(g)
    BY <1>a, <1>b, <1>c DEF AtWork, Current
  <2>3. (RunOnce /\ ClearedStaysCleared /\ Rowed)'
    BY <1>2, <1>a, <1>c, <2>2 DEF ChatInv, RunOnce, ClearedStaysCleared, Rowed, Own
  <2>4. RunsTold'
    BY <1>2, <1>a, <1>b, <2>2 DEF ChatInv, RunsTold, Own
  <2>5. QED
    BY <1>3, <2>1, <2>3, <2>4 DEF ChatInv
<1>4. CASE /\ AtWork(h) /\ rows[Own(h)] # NoTurn /\ chat'[h].pc = "running"
           /\ rows' = [rows EXCEPT ![Own(h)].runs = @ + 1]
  <2> DEFINE row == [rows[Own(h)] EXCEPT !.runs = @ + 1]
  <2>1. Own(h) \in Attempts /\ rows[Own(h)] \in Rows /\ rows[Own(h)].runs = 0
    BY <1>4, <1>b DEF ChatInv, ChatTypeOK, Situated, RunsTold, AtWork
  <2>2. row \in Rows /\ row.runs = 1 /\ row.epoch = rows[Own(h)].epoch /\ row # NoTurn
    BY <2>1, ChatAssumption DEF Rows
  <2>3. rows' = [rows EXCEPT ![Own(h)] = row]
    BY <1>4
  <2> HIDE DEF row
  <2>4. rows' \in [Attempts -> Rows \cup {NoTurn}]
        /\ rows'[Own(h)] = row /\ \A a \in Attempts \ {Own(h)} : rows'[a] = rows[a]
    BY <2>1, <2>2, <2>3 DEF ChatInv, ChatTypeOK
  <2>5. ChatTypeOK'
    BY <1>1, <1>5, <1>c, <2>4 DEF ChatInv, ChatTypeOK
  <2>6. \A g \in Turns : AtWork(g)' <=> AtWork(g)
    BY <1>a, <1>b, <1>c DEF AtWork, Current
  <2>7. RunOnce'
    BY <2>2, <2>4 DEF ChatInv, RunOnce
  <2>8. ClearedStaysCleared'
    BY <1>4, <1>c, <2>2, <2>4 DEF ChatInv, ClearedStaysCleared
  <2>9. Rowed'
    BY <1>4, <1>a, <1>c, <2>1, <2>2, <2>4, <2>6 DEF ChatInv, Rowed, Own
  <2>10. RunsTold'
    BY <1>4, <1>a, <1>b, <2>1, <2>2, <2>4, <2>6 DEF ChatInv, RunsTold, Rowed, AtWork, Situated, Own
  <2>11. QED
    BY <1>3, <2>5, <2>7, <2>8, <2>9, <2>10 DEF ChatInv
<1>6. CASE chat[h].aborted \/ ~Current(h)
  <2>1. chat'[h].pc = "finishing" /\ rows' = rows
    BY <1>6 DEF Recheck, ChatInv, ChatTypeOK, TurnRecords
  <2>2. QED
    BY <1>2, <2>1
<1>7. CASE ~(chat[h].aborted \/ ~Current(h))
  <2>1. chat'[h].pc = "running"
    BY <1>7 DEF Recheck, ChatInv, ChatTypeOK, TurnRecords
  <2>2. AtWork(h) <=> chat[h].kind = "user"
    BY <1>7, <1>b DEF AtWork
  <2>3. rows' = IF chat[h].kind = "user" /\ rows[Own(h)] # NoTurn
                THEN [rows EXCEPT ![Own(h)].runs = @ + 1] ELSE rows
    BY <1>7 DEF Recheck
  <2>4. QED
    BY <1>2, <1>4, <2>1, <2>2, <2>3
<1>8. QED
  BY <1>6, <1>7

LEMMA InsertStep ==
  ASSUME ChatInv, NEW h \in Turns, Insert(h)
  PROVE  ChatInv'
<1> DEFINE row == Row("running", chat[h].epoch)
           a == Own(h)
<1>0. /\ chat[h].pc = "accepting" /\ chat[h].kind = "user" /\ a \in Attempts /\ rows[a] = NoTurn
      /\ chat[h].epoch = epoch /\ clear = "none" /\ rows' = [rows EXCEPT ![a] = row]
      /\ chat' = [chat EXCEPT ![h].pc = "accepted"] /\ UNCHANGED <<host, epoch, buffer, clear, active, busy>>
  BY DEF Insert, At, Unlocked, TurnedAway, InItsEpoch, Current, ChatInv, Situated
<1>a. row \in Rows /\ row.runs = 0 /\ row.epoch = epoch /\ row.status = "running" /\ row # NoTurn
  <2>1. row = Row("running", epoch)
    BY <1>0
  <2> HIDE DEF row
  <2>2. QED
    BY <2>1, RowTyped, ChatAssumption DEF ChatInv
<1> HIDE DEF row
<1>1. chat' \in [Turns -> TurnRecords]
  BY <1>0, MovedTyped DEF ChatInv, ChatTypeOK, Pcs, Outcomes
<1>b. \A g \in Turns : /\ chat'[g].epoch = chat[g].epoch /\ chat'[g].kind = chat[g].kind
                       /\ chat'[g].attempt = chat[g].attempt /\ chat'[g].aborted = chat[g].aborted
                       /\ chat'[g].pc = IF g = h THEN "accepted" ELSE chat[g].pc
  BY <1>0 DEF ChatInv, ChatTypeOK, TurnRecords
<1>c. rows' \in [Attempts -> Rows \cup {NoTurn}] /\ rows'[a] = row /\ \A b \in Attempts \ {a} : rows'[b] = rows[b]
  BY <1>0, <1>a DEF ChatInv, ChatTypeOK
<1> HIDE DEF a
<1>2. \A g \in Turns : AtWork(g)' => g = h \/ (AtWork(g) /\ Own(g) # a)
  BY <1>0, <1>b DEF ChatInv, Rowed, AtWork, Current
<1>3. (Situated /\ Slotted /\ StopReaches)'
  BY <1>0, <1>b DEF ChatInv, ChatTypeOK, Registered, Situated, Slotted, StopReaches, Own, Opening
<1>4. Registered'
  BY <1>0, <1>b DEF ChatInv, ChatTypeOK, Registered, Opening
<1>6. ChatTypeOK'
  BY <1>0, <1>1, <1>4, <1>c DEF ChatInv, ChatTypeOK
<1>5. (RunOnce /\ ClearedStaysCleared)'
  BY <1>0, <1>a, <1>c DEF ChatInv, RunOnce, ClearedStaysCleared
<1>9. Own(h)' = a /\ \A g \in Turns : Own(g)' = Own(g)
  BY <1>b DEF Own, a
<1>10. Rowed'
  BY <1>0, <1>a, <1>c, <1>2, <1>9 DEF ChatInv, Rowed, Situated, AtWork
<1>11. RunsTold'
  BY <1>0, <1>a, <1>b, <1>c, <1>2, <1>9 DEF ChatInv, RunsTold, Situated, AtWork
<1>12. QED
  BY <1>3, <1>5, <1>6, <1>10, <1>11 DEF ChatInv

LEMMA ClearRowsStep ==
  ASSUME ChatInv, ClearRows
  PROVE  ChatInv'
<1>1. \A a \in Attempts : rows'[a] = NoTurn
  BY DEF ClearRows
<1>2. ChatTypeOK' /\ (Situated /\ Slotted /\ StopReaches)'
  BY DEF ClearRows, memory, ChatInv, ChatTypeOK, Registered, Situated, Slotted, StopReaches, Own
<1>3. (RunOnce /\ ClearedStaysCleared)'
  BY <1>1 DEF RunOnce, ClearedStaysCleared
<1>4. (Rowed /\ RunsTold)'
  BY <1>1 DEF ClearRows, memory, ChatInv, ChatTypeOK, Situated, Rowed, RunsTold, AtWork, Own, Current
<1>5. QED
  BY <1>2, <1>3, <1>4 DEF ChatInv

LEMMA ClearEpochStep ==
  ASSUME ChatInv, ClearEpoch
  PROVE  ChatInv'
<1>1. /\ epoch' = epoch + 1 /\ epoch < MaxEpochs /\ \A a \in Attempts : rows'[a] = NoTurn
      /\ clear' = "rotated" /\ UNCHANGED <<host, rows, buffer, chat, active, busy>>
  BY DEF ClearEpoch, ChatInv, Situated, Rowed, memory
<1>2. ChatTypeOK'
  <2>1. epoch' \in 1..MaxEpochs /\ 1..epoch \subseteq 1..epoch'
    BY <1>1, ChatAssumption DEF ChatInv, ChatTypeOK
  <2>2. QED
    BY <1>1, <2>1 DEF ChatInv, ChatTypeOK, Registered
<1>3. (Situated /\ Slotted /\ StopReaches)'
  BY <1>1 DEF ChatInv, ChatTypeOK, TurnRecords, Situated, Slotted, StopReaches, Own
<1>4. \A h \in Turns : ~AtWork(h)'
  BY <1>1 DEF ChatInv, ChatTypeOK, TurnRecords, Situated, AtWork, Current
<1>5. (RunOnce /\ ClearedStaysCleared /\ Rowed /\ RunsTold)'
  BY <1>1, <1>4 DEF RunOnce, ClearedStaysCleared, Rowed, RunsTold
<1>6. QED
  BY <1>2, <1>3, <1>5 DEF ChatInv

LEMMA HostCrashStep ==
  ASSUME ChatInv, HostCrash
  PROVE  ChatInv'
<1>0. /\ host' = [host EXCEPT !.up = FALSE] /\ host.life < MaxHosts /\ UNCHANGED <<epoch, rows, buffer>>
      /\ clear' = "none" /\ active' = NoTurn /\ busy' = NoTurn
      /\ \A h \in Turns : chat'[h] \in {Absent, Ended}
      /\ chat' \in [Turns -> {Absent, Ended}]
  BY DEF HostCrash, disk
<1>1. chat' \in [Turns -> TurnRecords]
  BY <1>0, RestingTyped
<1>2. \A h \in Turns : chat'[h].pc \in {"none", "ended"} /\ chat'[h].kind = "none" /\ chat'[h].epoch = 0
  BY <1>0 DEF Absent, Ended
<1>3. \A h \in Turns : ~AtWork(h)'
  BY <1>2 DEF AtWork
<1>4. ChatTypeOK'
  BY <1>0, <1>1 DEF ChatInv, ChatTypeOK, Registered
<1>5. (Situated /\ Slotted /\ StopReaches)'
  BY <1>0, <1>2, ChatAssumption DEF ChatInv, ChatTypeOK, Situated, Slotted, StopReaches, Opening
<1>6. (RunOnce /\ ClearedStaysCleared /\ Rowed /\ RunsTold)'
  BY <1>0, <1>3 DEF ChatInv, RunOnce, ClearedStaysCleared, Rowed, RunsTold
<1>7. QED
  BY <1>4, <1>5, <1>6 DEF ChatInv

\* What the sweep does to a row that is there.
FailsOrAnswers(a) ==
    rows[a] # NoTurn /\ \/ rows' = [rows EXCEPT ![a].status = "failed"]
                        \/ rows' = [rows EXCEPT ![a].reply = TRUE]

LEMMA SweepBufferStep ==
  ASSUME ChatInv, SweepBuffer
  PROVE  ChatInv'
<1>0. /\ UNCHANGED <<epoch, clear, chat, active, busy>> /\ clear = "none"
      /\ host' = [host EXCEPT !.boot = "rows"]
      /\ buffer' = buffer \/ buffer' = NoTurn
  BY DEF SweepBuffer, memory, Unlocked
<1>1. (Situated /\ Slotted /\ StopReaches)'
  BY <1>0 DEF ChatInv, ChatTypeOK, Situated, Slotted, StopReaches, Own
<1>2. chat' \in [Turns -> TurnRecords] /\ NobodyStarts
  BY <1>0 DEF ChatInv, ChatTypeOK, NobodyStarts, AtWork, Own, Current
<1>3. ASSUME rows' \in [Attempts -> Rows \cup {NoTurn}]
      PROVE  ChatTypeOK'
  BY <1>0, <1>3 DEF ChatInv, ChatTypeOK, Registered
<1>4. CASE KeepsRows
  BY <1>0, <1>1, <1>2, <1>3, <1>4, RowsKept DEF ChatInv, KeepsRows
<1>5. CASE /\ buffer.attempt \in Attempts /\ rows[buffer.attempt] = NoTurn
           /\ rows' = [rows EXCEPT ![buffer.attempt] = [Row("partial", epoch) EXCEPT !.reply = TRUE]]
  <2> DEFINE row == [Row("partial", epoch) EXCEPT !.reply = TRUE]
             a == buffer.attempt
  <2>1. row \in Rows /\ row.runs = 0 /\ row.epoch = epoch /\ row.status = "partial" /\ row # NoTurn
    <3> DEFINE new == Row("partial", epoch)
    <3>1. new \in Rows /\ new.runs = 0 /\ new.epoch = epoch /\ new.status = "partial"
      BY RowTyped DEF ChatInv
    <3> HIDE DEF new
    <3>2. row = [new EXCEPT !.reply = TRUE]
      BY DEF new
    <3> HIDE DEF row
    <3>3. QED
      BY <3>1, <3>2, ChatAssumption DEF Rows
  <2>2. rows' = [rows EXCEPT ![a] = row] /\ a \in Attempts /\ rows[a] = NoTurn
    BY <1>5
  <2> HIDE DEF row, a
  <2>3. rows' \in [Attempts -> Rows \cup {NoTurn}] /\ rows'[a] = row /\ \A b \in Attempts \ {a} : rows'[b] = rows[b]
    BY <2>1, <2>2 DEF ChatInv, ChatTypeOK
  <2>4. \A g \in Turns : /\ AtWork(g)' <=> AtWork(g)
                         /\ AtWork(g) => Own(g) # a /\ Own(g) \in Attempts
                         /\ Own(g)' = Own(g)
    BY <1>0, <2>2 DEF ChatInv, Rowed, Situated, AtWork, Own, Current
  <2>5. (RunOnce /\ ClearedStaysCleared)'
    BY <1>0, <2>1, <2>3 DEF ChatInv, RunOnce, ClearedStaysCleared
  <2>6. (Rowed /\ RunsTold)'
    BY <1>0, <2>3, <2>4 DEF ChatInv, Rowed, RunsTold
  <2>7. QED
    BY <1>1, <1>3, <2>3, <2>5, <2>6 DEF ChatInv
<1>6. CASE \E a \in Attempts : FailsOrAnswers(a)
  <2>0. PICK a \in Attempts : FailsOrAnswers(a)
    BY <1>6
  <2>1. rows[a] # NoTurn /\ \/ rows' = [rows EXCEPT ![a].status = "failed"]
                             \/ rows' = [rows EXCEPT ![a].reply = TRUE]
    BY <2>0 DEF FailsOrAnswers
  <2>2. rows[a] \in Rows
    BY <2>1 DEF ChatInv, ChatTypeOK
  <2> DEFINE failed == [rows[a] EXCEPT !.status = "failed"]
             answered == [rows[a] EXCEPT !.reply = TRUE]
  <2>3. PICK row \in Rows : /\ row.runs = rows[a].runs /\ row.epoch = rows[a].epoch
                            /\ row.status = "reply" => rows[a].status = "reply"
                            /\ rows' = [rows EXCEPT ![a] = row]
    <3>1. failed \in Rows /\ failed.runs = rows[a].runs /\ failed.epoch = rows[a].epoch /\ failed.status = "failed"
      BY <2>2 DEF Rows
    <3>2. answered \in Rows /\ answered.runs = rows[a].runs /\ answered.epoch = rows[a].epoch
          /\ answered.status = rows[a].status
      BY <2>2 DEF Rows
    <3>3. rows' = [rows EXCEPT ![a] = failed] \/ rows' = [rows EXCEPT ![a] = answered]
      BY <2>1
    <3> HIDE DEF failed, answered
    <3>4. QED
      BY <3>1, <3>2, <3>3
  <2>4. KeepsRows
    BY <2>1, <2>3, RowChanged
  <2>5. QED
    BY <1>4, <2>4
<1>7. CASE rows' = rows
  BY <1>4, <1>7, RowsUnchanged
<1>8. QED
  BY <1>5, <1>6, <1>7 DEF SweepBuffer, FailsOrAnswers, ChatInv, ChatTypeOK

LEMMA InitInv == ChatInit => ChatInv
<1> SUFFICES ASSUME ChatInit PROVE ChatInv
  OBVIOUS
<1>1. ChatTypeOK
  BY RestingTyped, ChatAssumption DEF ChatInit, ChatTypeOK, Registered
<1>2. /\ StopReaches /\ RunOnce /\ ClearedStaysCleared
      /\ Situated /\ Slotted /\ Rowed /\ RunsTold
  BY ChatAssumption DEF ChatInit, Absent, StopReaches, RunOnce, ClearedStaysCleared, Situated, Slotted, Rowed,
     RunsTold, AtWork, Own, Current, Opening
<1>3. QED
  BY <1>1, <1>2 DEF ChatInv

LEMMA StepInv ==
  ASSUME ChatInv, [ChatNext]_chatVars
  PROVE  ChatInv'
<1>1. CASE UNCHANGED chatVars
  BY <1>1 DEF chatVars, ChatInv, ChatTypeOK, Registered, StopReaches, RunOnce, ClearedStaysCleared, Situated,
     Slotted, Rowed, RunsTold, AtWork, Own, Current
<1>2. ASSUME NEW h \in Turns, Step(h)
      PROVE  ChatInv'
  BY <1>2, RefuseStep, InsertStep, ClaimStep, BeginStep, QueueStep, OpenQueuedStep, StartDelegationStep,
     RecheckStep, FailStep, DoneStep, EndDelegationStep, FinishStep, MarkStep, CloseStep DEF Step
<1>3. CASE Clearing \/ ClearAborts
  BY <1>3, ClearAbortsStep, ClearRowsStep, ClearEpochStep, ClearBufferStep DEF Clearing
<1>4. CASE HostCrash \/ Boot
  BY <1>4, HostCrashStep, HostRestartStep, SweepBufferStep, SweepRowsStep DEF Boot
<1>5. QED
  BY <1>1, <1>2, <1>3, <1>4, SendStep, InternalStep, AbandonDelegationStep, StreamStep, ReplyStep, StopStep
  DEF ChatNext

-----------------------------------------------------------------------------
(* The theorems.                                                           *)

\* The inductive invariant: an accepted message of the present transcript has its
\* row alone, and the row tells whether it was executed.
THEOREM Invariance == ChatSpec => []ChatInv
<1>1. ChatInv /\ [ChatNext]_chatVars => ChatInv'
  BY StepInv
<1>2. QED
  BY InitInv, <1>1, PTL DEF ChatSpec

\* The types; what is registered, and the last slot, belong to turns in progress.
THEOREM TypeCorrect == ChatSpec => []ChatTypeOK
<1>1. ChatInv => ChatTypeOK
  BY DEF ChatInv
<1>2. QED
  BY Invariance, <1>1, PTL

\* Stop and Clear find every turn that works on.
THEOREM StopReachesAlways == ChatSpec => []StopReaches
<1>1. ChatInv => StopReaches
  BY DEF ChatInv
<1>2. QED
  BY Invariance, <1>1, PTL

\* However often an attempt is sent, it is executed once in a transcript.
THEOREM RunOnceAlways == ChatSpec => []RunOnce
<1>1. ChatInv => RunOnce
  BY DEF ChatInv
<1>2. QED
  BY Invariance, <1>1, PTL

\* No turn from before a Clear writes into the transcript after it.
THEOREM ClearHolds == ChatSpec => []ClearedStaysCleared
<1>1. ChatInv => ClearedStaysCleared
  BY DEF ChatInv
<1>2. QED
  BY Invariance, <1>1, PTL
-----------------------------------------------------------------------------
(* PendingApprovals: any number of operations, confirmations and            *)
(* generations of the conversation.                                         *)

Minted == 1..lastOp

\* What is staged was minted; it was neither executed nor cancelled.
StagedIsOpen ==
    staged # NoOp =>
        /\ staged.op \in Minted /\ staged.generation \in 1..generation
        /\ staged.op \notin cancelled
        /\ \A x \in executed : x.op # staged.op

\* A confirmation in progress is about a minted operation.
Confirming ==
    confirm \in [Confirms -> [pc : {"none", "checking", "claiming", "done"}, op : Minted \cup {NoOp}]]

\* What happened, happened to minted operations.
Happened ==
    /\ executed \subseteq [op : Minted, confirmed : Minted \cup {NoOp}, by : Confirms]
    /\ cancelled \subseteq Minted

Counting == lastOp \in 0..MaxOps /\ generation \in 1..MaxGenerations /\ allowed \in BOOLEAN

ApprovalsInv == Counting /\ StagedIsOpen /\ Confirming /\ Happened /\ ExecutedAsConfirmed

-----------------------------------------------------------------------------
\* What a removal leaves in the store.
LEMMA LiveIsStaged ==
  Live = NoOp \/ (staged # NoOp /\ Live = staged)
BY DEF Live

LEMMA ApprovalsInitInv == ApprovalsInit => ApprovalsInv
BY ApprovalsAssumption DEF ApprovalsInit, ApprovalsInv, Counting, StagedIsOpen, Confirming,
   Happened, ExecutedAsConfirmed, Minted, Ops

\* A staged operation gets an id that nothing before it had.
LEMMA StageStep == ApprovalsInv /\ Stage => ApprovalsInv'
<1> SUFFICES ASSUME ApprovalsInv, Stage PROVE ApprovalsInv'
  OBVIOUS
<1> USE ApprovalsAssumption DEF ApprovalsInv, Stage
<1>1. Counting'
  BY DEF Counting
<1>2. lastOp \in Nat /\ lastOp' = lastOp + 1 /\ Minted \subseteq Minted' /\ lastOp' \in Minted' \ Minted
  BY DEF Counting, Minted
<1>3. Confirming'
  BY <1>2 DEF Confirming
<1>4. Happened'
  BY <1>2 DEF Happened
<1>5. StagedIsOpen'
  <2>1. staged'.op = lastOp' /\ staged'.generation = generation'
    OBVIOUS
  <2>2. lastOp' \notin cancelled' /\ \A x \in executed' : x.op # lastOp'
    BY <1>2 DEF Happened
  <2>3. generation' \in 1..generation'
    BY DEF Counting
  <2>4. QED
    BY <1>2, <2>1, <2>2, <2>3 DEF StagedIsOpen
<1>6. ExecutedAsConfirmed'
  BY DEF ExecutedAsConfirmed
<1>7. QED
  BY <1>1, <1>3, <1>4, <1>5, <1>6

\* The clock, a Clear and a change of the skills touch nothing that is named.
LEMMA WorldStep == ApprovalsInv /\ (Expire \/ Cleared \/ Permit \/ OtherMessage) => ApprovalsInv'
<1> SUFFICES ASSUME ApprovalsInv PROVE (Expire \/ Cleared \/ Permit \/ OtherMessage) => ApprovalsInv'
  OBVIOUS
<1> USE ApprovalsAssumption DEF ApprovalsInv, Counting, Confirming, Happened, ExecutedAsConfirmed, Minted
<1>1. CASE Expire
  <2>1. staged'.op = staged.op /\ staged'.generation = staged.generation
    BY <1>1 DEF Expire, StagedIsOpen
  <2>2. QED
    BY <1>1, <2>1 DEF Expire, StagedIsOpen
<1>2. CASE Cleared
  BY <1>2 DEF Cleared, StagedIsOpen
<1>3. CASE Permit
  BY <1>3 DEF Permit, StagedIsOpen
<1>4. CASE OtherMessage
  BY <1>4 DEF OtherMessage, StagedIsOpen
<1>5. QED
  BY <1>1, <1>2, <1>3, <1>4

LEMMA ConfirmStep ==
  ASSUME ApprovalsInv, NEW c \in Confirms, NEW card, Confirm(c, card)
  PROVE  ApprovalsInv'
<1> USE DEF ApprovalsInv, Confirm
<1>1. Counting' /\ Happened' /\ ExecutedAsConfirmed'
  BY DEF Counting, Happened, ExecutedAsConfirmed, Minted
<1>2. StagedIsOpen'
  BY LiveIsStaged DEF StagedIsOpen, Minted
<1>3. ~Stale(card) => Live # NoOp /\ Live.op \in Minted
  BY LiveIsStaged DEF Stale, StagedIsOpen
<1>4. Confirming'
  BY <1>3 DEF Confirming, Minted
<1>5. QED
  BY <1>1, <1>2, <1>4

\* Taking the operation away, because the permission is gone or by Cancel.
LEMMA RemoveStep ==
  ASSUME ApprovalsInv, NEW op,
         staged' = IF Expected(op) THEN NoOp ELSE Live,
         cancelled' = cancelled \cup (IF Expected(op) THEN {Live.op} ELSE {}),
         UNCHANGED <<lastOp, generation, allowed, executed>>,
         Confirming'
  PROVE  ApprovalsInv'
<1> USE DEF ApprovalsInv
<1>1. CASE Expected(op)
  <2>1. Live = staged /\ staged # NoOp
    BY <1>1, LiveIsStaged DEF Expected
  <2>2. cancelled' = cancelled \cup {staged.op} /\ staged' = NoOp
    BY <1>1, <2>1
  <2>3. QED
    BY <2>1, <2>2 DEF Counting, StagedIsOpen, Happened, ExecutedAsConfirmed, Minted
<1>2. CASE ~Expected(op)
  BY <1>2, LiveIsStaged DEF Counting, StagedIsOpen, Happened, ExecutedAsConfirmed, Minted
<1>3. QED
  BY <1>1, <1>2

LEMMA AuthorizeStep ==
  ASSUME ApprovalsInv, NEW c \in Confirms, Authorize(c)
  PROVE  ApprovalsInv'
<1>1. Confirming'
  BY DEF Authorize, ApprovalsInv, Confirming, Minted
<1>2. CASE allowed
  <2>1. UNCHANGED <<staged, lastOp, generation, allowed, executed, cancelled>>
    BY <1>2 DEF Authorize
  <2>2. QED
    BY <1>1, <2>1 DEF ApprovalsInv, Counting, StagedIsOpen, Happened, ExecutedAsConfirmed, Minted
<1>3. CASE ~allowed
  BY <1>1, <1>3, RemoveStep DEF Authorize
<1>4. QED
  BY <1>2, <1>3

\* A claim takes the operation that is staged, if it is the confirmed one: it was
\* open, and is not staged again.
LEMMA TakeStep ==
  ASSUME ApprovalsInv, NEW c \in Confirms, NEW survives \in BOOLEAN, Take(c, survives)
  PROVE  ApprovalsInv'
<1> DEFINE op == confirm[c].op
<1>1. Confirming' /\ Counting'
  BY DEF Take, ApprovalsInv, Confirming, Counting, Minted
<1>2. CASE Expected(op)
  <2>1. Live = staged /\ staged # NoOp /\ staged.op = op
    BY <1>2, LiveIsStaged DEF Expected
  <2>2. staged' = NoOp /\ UNCHANGED <<lastOp, cancelled>>
    BY <1>2 DEF Take
  <2>3. op \in Minted /\ op \notin cancelled /\ \A x \in executed : x.op # op
    BY <2>1 DEF ApprovalsInv, StagedIsOpen
  <2> DEFINE new == [op |-> op, confirmed |-> op, by |-> c]
  <2>4. executed' = executed \/ executed' = executed \cup {new}
    BY <1>2, <2>1 DEF Take
  <2>5. new.op = op /\ new.confirmed = op /\ new \in [op : Minted, confirmed : Minted \cup {NoOp}, by : Confirms]
    BY <2>3
  <2> HIDE DEF new, op
  <2>6. Happened'
    BY <2>2, <2>4, <2>5 DEF ApprovalsInv, Happened, Minted
  <2>7. ExecutedAsConfirmed'
    BY <2>2, <2>3, <2>4, <2>5 DEF ApprovalsInv, ExecutedAsConfirmed
  <2>8. QED
    BY <1>1, <2>2, <2>6, <2>7 DEF ApprovalsInv, StagedIsOpen
<1>3. CASE ~Expected(op)
  <2>1. staged' = Live /\ UNCHANGED <<lastOp, generation, executed, cancelled>>
    BY <1>3 DEF Take
  <2>2. QED
    BY <1>1, <2>1, LiveIsStaged DEF ApprovalsInv, StagedIsOpen, Happened, ExecutedAsConfirmed, Minted
<1>4. QED
  BY <1>2, <1>3

LEMMA ApprovalsInvStep == ApprovalsInv /\ [ApprovalsNext]_approvalVars => ApprovalsInv'
<1> SUFFICES ASSUME ApprovalsInv, [ApprovalsNext]_approvalVars PROVE ApprovalsInv'
  OBVIOUS
<1>1. CASE Stage
  BY <1>1, StageStep
<1>2. CASE Expire \/ Cleared \/ Permit \/ OtherMessage
  BY <1>2, WorldStep
<1>3. ASSUME NEW op \in 1..lastOp, Cancel(op) PROVE ApprovalsInv'
  <2>1. Confirming'
    BY <1>3 DEF Cancel, ApprovalsInv, Confirming, Minted
  <2>2. QED
    BY <1>3, <2>1, RemoveStep DEF Cancel
<1>4. ASSUME NEW c \in Confirms, NEW card, Confirm(c, card) PROVE ApprovalsInv'
  BY <1>4, ConfirmStep
<1>5. ASSUME NEW c \in Confirms, Authorize(c) PROVE ApprovalsInv'
  BY <1>5, AuthorizeStep
<1>6. ASSUME NEW c \in Confirms, NEW survives \in BOOLEAN, Take(c, survives) PROVE ApprovalsInv'
  BY <1>6, TakeStep
<1>7. CASE UNCHANGED approvalVars
  BY <1>7 DEF approvalVars, ApprovalsInv, Counting, StagedIsOpen, Confirming, Happened,
              ExecutedAsConfirmed, Minted
<1>8. QED
  BY <1>1, <1>2, <1>3, <1>4, <1>5, <1>6, <1>7 DEF ApprovalsNext

-----------------------------------------------------------------------------
\* What is executed was confirmed, was not cancelled and is executed once
\* (takePending), whatever is staged, cancelled, cleared or disabled while a
\* confirmation awaits its permissions.
THEOREM ConfirmedOnce == ApprovalsSpec => []ExecutedAsConfirmed
<1>1. ApprovalsInv => ExecutedAsConfirmed
  BY DEF ApprovalsInv
<1>2. QED
  BY <1>1, ApprovalsInitInv, ApprovalsInvStep, PTL DEF ApprovalsSpec

\* The type invariant, for any bounds.
THEOREM ApprovalsTypeCorrect == ApprovalsSpec => []ApprovalsTypeOK
<1>1. ApprovalsInv => ApprovalsTypeOK
  <2>1. ASSUME ApprovalsInv PROVE Minted \subseteq Ops /\ 1..generation \subseteq 1..MaxGenerations
    BY <2>1, ApprovalsAssumption DEF ApprovalsInv, Counting, Minted, Ops
  <2> SUFFICES ASSUME ApprovalsInv PROVE ApprovalsTypeOK
    OBVIOUS
  <2>2. staged # NoOp => staged.op \in Ops /\ staged.generation \in 1..MaxGenerations
    BY <2>1 DEF ApprovalsInv, StagedIsOpen
  <2>3. \A c \in Confirms : /\ confirm[c].pc \in {"none", "checking", "claiming", "done"}
                           /\ confirm[c].op \in Ops \cup {NoOp}
    BY <2>1 DEF ApprovalsInv, Confirming
  <2>4. executed \subseteq [op : Ops, confirmed : Ops, by : Confirms]
    <3>1. ASSUME NEW x \in executed PROVE x \in [op : Ops, confirmed : Ops, by : Confirms]
      BY <2>1 DEF ApprovalsInv, Happened, ExecutedAsConfirmed
    <3>2. QED
      BY <3>1
  <2>5. QED
    BY <2>1, <2>2, <2>3, <2>4 DEF ApprovalsInv, Counting, Happened, ApprovalsTypeOK
<1>2. QED
  BY <1>1, ApprovalsInitInv, ApprovalsInvStep, PTL DEF ApprovalsSpec

\* The store only ever holds an operation that is still open: one that ran or whose
\* cancellation was acknowledged is not staged again.
THEOREM OpenOnly == ApprovalsSpec => []StagedIsOpen
<1>1. ApprovalsInv => StagedIsOpen
  BY DEF ApprovalsInv
<1>2. QED
  BY <1>1, ApprovalsInitInv, ApprovalsInvStep, PTL DEF ApprovalsSpec
=============================================================================
