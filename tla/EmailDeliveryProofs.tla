------------------------ MODULE EmailDeliveryProofs ------------------------
(***************************************************************************)
(* The safety of sendEmailIdempotently, for any number of calls, attempts, *)
(* processes and payloads: an email is delivered once, success is told     *)
(* when it was, and a Retry sends nothing the first attempt did not ask.   *)
(***************************************************************************)
EXTENDS EmailDelivery, TLAPS

\* Calls, attempts, payloads and operations are numbers, None is none of them.
LEMMA Numbers ==
    /\ Calls \subseteq Nat /\ Payloads \subseteq Ops /\ Fire \in Ops
    /\ None \notin Calls /\ None \notin Payloads /\ None \notin Attempts
    /\ Fire \notin Payloads /\ Legacy \notin Attempts
BY CountsAssumption, NoneAssumption DEF Calls, Payloads, Attempts, Ops, Fire, Legacy

\* A call that has begun names one of the operations, any other no process.
Named == \A c \in Calls :
            IF pc[c] = "idle" THEN req[c].proc = None
            ELSE /\ req[c].payload \in Payloads /\ req[c].attempt \in Attempts
                 /\ req[c].proc \in Procs

\* A call that shares a promise shares it with a call of its own operation.
Led == \A c \in Calls : pc[c] = "joined" =>
            leader[c] \in Calls /\ pc[leader[c]] # "idle" /\ Op(leader[c]) = Op(c)

LEMMA OpIsOp == ASSUME TypeOK, Named, NEW c \in Calls, pc[c] # "idle" PROVE Op(c) \in Ops
BY Numbers DEF TypeOK, Named, Op

Ledgers == [origin : Attempts \cup {None, Legacy}, payloads : SUBSET Payloads, sealed : BOOLEAN]

LEMMA LedgerType ==
  ASSUME TypeOK
  PROVE  Ledger \in Ledgers /\ NoAuth \in Ledgers /\ auth \in Ledgers
BY DEF Ledger, Ledgers, NoAuth, TypeOK

-----------------------------------------------------------------------------
Typed == TypeOK /\ Named /\ Led

\* Most steps only move one call on.
LEMMA Moves ==
  ASSUME Typed, NEW c \in Calls, NEW to \in Labels \ {"idle", "joined"},
         pc[c] # "idle", pc' = [pc EXCEPT ![c] = to],
         UNCHANGED <<single, req, leader>>
  PROVE  Named' /\ Led'
<1>1. \A d \in Calls : IF d = c THEN pc'[d] = to ELSE pc'[d] = pc[d]
  BY DEF Typed, TypeOK
<1>2. \A d \in Calls : Op(d)' = Op(d)
  BY DEF Op
<1>3. Named'
  BY <1>1 DEF Typed, Named
<1>4. Led'
  BY <1>1, <1>2 DEF Typed, Led
<1>5. QED
  BY <1>3, <1>4

LEMMA NamesStep == Typed /\ [Next]_vars => Named' /\ Led'
<1> SUFFICES ASSUME Typed, [Next]_vars PROVE Named' /\ Led'
  OBVIOUS
<1> USE DEF Go, Settled, Refused, Answered, Labels
<1>1. ASSUME NEW c \in Calls, NEW p \in Procs, NEW a \in Attempts, NEW x \in Payloads,
             Begin(c, p, a, x)
      PROVE  Named' /\ Led'
  <2> DEFINE o == IF single THEN Fire ELSE x
             active == {d \in Calls : InFlight(d) /\ req[d].proc = p /\ Op(d) = o}
  <2>1. /\ pc[c] = "idle" /\ single' = single
        /\ req' = [req EXCEPT ![c] = [proc |-> p, attempt |-> a, payload |-> x]]
        /\ \/ /\ pc' = [pc EXCEPT ![c] = IF single THEN "lockOp" ELSE "lockScope"]
              /\ leader' = leader
           \/ \E d \in active : /\ pc' = [pc EXCEPT ![c] = "joined"]
                                /\ leader' = [leader EXCEPT ![c] = d]
    BY <1>1 DEF Begin
  <2>2. /\ req'[c] = [proc |-> p, attempt |-> a, payload |-> x]
        /\ pc'[c] # "idle"
        /\ \A d \in Calls \ {c} : req'[d] = req[d] /\ pc'[d] = pc[d] /\ leader'[d] = leader[d]
    BY <2>1 DEF Typed, TypeOK
  <2>3. Named'
    BY <2>2 DEF Typed, Named
  <2>4. Op(c)' = o /\ \A d \in Calls \ {c} : Op(d)' = Op(d)
    BY <2>1, <2>2 DEF Op
  <2>5. ASSUME NEW d \in Calls, d # c, pc'[d] = "joined"
        PROVE  leader'[d] \in Calls /\ pc'[leader'[d]] # "idle" /\ Op(leader[d])' = Op(d)'
    <3>1. PICK l \in Calls : l = leader[d] /\ pc[l] # "idle" /\ Op(l) = Op(d)
      BY <2>2, <2>5 DEF Typed, Led
    <3>2. l # c
      BY <2>1, <3>1
    <3>3. pc'[l] # "idle" /\ Op(l)' = Op(d)'
      BY <2>2, <2>4, <2>5, <3>1, <3>2
    <3>4. leader'[d] = l
      BY <2>2, <2>5, <3>1
    <3>5. QED
      BY <3>3, <3>4 DEF Op
  <2>6. ASSUME pc'[c] = "joined"
        PROVE  leader'[c] \in Calls /\ pc'[leader'[c]] # "idle" /\ Op(leader[c])' = Op(c)'
    <3>1. PICK d \in active : leader' = [leader EXCEPT ![c] = d]
      BY <2>1, <2>6 DEF Typed, TypeOK
    <3>2. leader'[c] = d /\ d # c
      BY <2>1, <3>1 DEF Typed, TypeOK, InFlight
    <3>3. pc'[d] # "idle" /\ Op(d)' = Op(c)'
      BY <2>2, <2>4, <3>1, <3>2 DEF InFlight
    <3>4. QED
      BY <3>2, <3>3 DEF Op
  <2>7. Led'
    BY <2>5, <2>6 DEF Led
  <2>8. QED
    BY <2>3, <2>7
<1>2. ASSUME NEW c \in Calls, Joined(c) PROVE Named' /\ Led'
  BY <1>2, Moves DEF Joined
<1>3. ASSUME NEW c \in Calls, LockTimeout(c) PROVE Named' /\ Led'
  BY <1>3, Moves DEF LockTimeout
<1>4. ASSUME NEW c \in Calls, CheckAuth(c) PROVE Named' /\ Led'
  <2>1. PICK to \in {"ended", "discard", "writeAuth"} : pc' = [pc EXCEPT ![c] = to]
    BY <1>4 DEF CheckAuth
  <2>2. QED
    BY <1>4, <2>1, Moves DEF CheckAuth
<1>5. ASSUME NEW c \in Calls, Discard(c) PROVE Named' /\ Led'
  <2>1. PICK to \in {"ended", "writeAuth"} : pc' = [pc EXCEPT ![c] = to]
    BY <1>5 DEF Discard
  <2>2. QED
    BY <1>5, <2>1, Moves DEF Discard
<1>6. ASSUME NEW c \in Calls, WriteAuth(c) PROVE Named' /\ Led'
  <2>1. PICK to \in {"ended", "lockOp"} : pc' = [pc EXCEPT ![c] = to]
    BY <1>6 DEF WriteAuth
  <2>2. QED
    BY <1>6, <2>1, Moves DEF WriteAuth
<1>7. ASSUME NEW c \in Calls, CheckRecord(c) PROVE Named' /\ Led'
  <2>1. PICK to \in {"finish", "send"} : pc' = [pc EXCEPT ![c] = to]
    BY <1>7 DEF CheckRecord
  <2>2. QED
    BY <1>7, <2>1, Moves DEF CheckRecord
<1>8. ASSUME NEW c \in Calls, PreflightFails(c) PROVE Named' /\ Led'
  BY <1>8, Moves DEF PreflightFails
<1>9. ASSUME NEW c \in Calls, Seal(c) \/ Mark(c) PROVE Named' /\ Led'
  BY <1>9, Moves DEF Seal, Mark
<1>10. ASSUME NEW c \in Calls, Accept(c) \/ Reject(c) PROVE Named' /\ Led'
  BY <1>10, Moves DEF Accept, Reject
<1>11. ASSUME NEW c \in Calls, RecordOutcome(c) \/ Finish(c) PROVE Named' /\ Led'
  BY <1>11, Moves DEF RecordOutcome, Finish
<1>12. ASSUME NEW p \in Procs, Crash(p) PROVE Named' /\ Led'
  <2>1. /\ UNCHANGED <<single, req, leader>>
        /\ \A c \in Calls : \/ pc'[c] = pc[c]
                            \/ pc'[c] = "lost" /\ req[c].proc = p
    BY <1>12 DEF Crash
  <2>2. \A c \in Calls : (pc'[c] = "idle") = (pc[c] = "idle")
    BY <2>1, NoneAssumption DEF Typed, Named
  <2>3. Named'
    BY <2>1, <2>2 DEF Typed, Named
  <2>4. \A c \in Calls : Op(c)' = Op(c)
    BY <2>1 DEF Op
  <2>5. Led'
    BY <2>1, <2>2, <2>4 DEF Typed, Led
  <2>6. QED
    BY <2>3, <2>5
<1>13. CASE UNCHANGED vars
  BY <1>13 DEF vars, Typed, Named, Led, Op
<1>14. QED
  BY <1>1, <1>2, <1>3, <1>4, <1>5, <1>6, <1>7, <1>8, <1>9, <1>10, <1>11, <1>12,
     <1>13 DEF Next, Step

-----------------------------------------------------------------------------
LEMMA TypeStep == Typed /\ [Next]_vars => TypeOK'
<1> SUFFICES ASSUME Typed, [Next]_vars PROVE TypeOK'
  OBVIOUS
<1>0. TypeOK /\ Named /\ Led
  BY DEF Typed
<1>a. Ledger \in Ledgers /\ NoAuth \in Ledgers /\ auth \in Ledgers
  BY <1>0, LedgerType
<1>b. ASSUME NEW c \in Calls, pc[c] # "idle" PROVE Op(c) \in Ops
  BY <1>0, <1>b, OpIsOp
<1> USE Numbers DEF TypeOK, Labels, Answers, Statuses, Crossed, Ledgers, disk, locks,
        history, Go, Settled, Refused, Answered
<1>1. ASSUME NEW c \in Calls, NEW p \in Procs, NEW a \in Attempts, NEW x \in Payloads,
             Begin(c, p, a, x)
      PROVE  TypeOK'
  <2>1. req' \in [Calls -> [proc : Procs \cup {None}, attempt : Attempts \cup {None},
                            payload : Payloads \cup {None}]]
    BY <1>0, <1>1 DEF Begin
  <2>2. pc' \in [Calls -> Labels] /\ leader' \in [Calls -> Calls \cup {None}]
    BY <1>0, <1>1 DEF Begin
  <2>3. QED
    BY <1>0, <1>1, <2>1, <2>2 DEF Begin
<1>2. ASSUME NEW c \in Calls, Joined(c) PROVE TypeOK'
  <2>1. Shared(answer[leader[c]]) \in Answers
    BY <1>0, <1>2 DEF Joined, Shared, Led
  <2>2. QED
    BY <1>0, <1>2, <2>1 DEF Joined
<1>3. ASSUME NEW c \in Calls, LockTimeout(c) PROVE TypeOK'
  BY <1>0, <1>3 DEF LockTimeout
<1>4. ASSUME NEW c \in Calls, CheckAuth(c) PROVE TypeOK'
  <2>1. pc' \in [Calls -> Labels] /\ answer' \in [Calls -> Answers]
        /\ scopeLock' \in Calls \cup {None}
    BY <1>0, <1>4 DEF CheckAuth
  <2>2. auth' \in Ledgers
    BY <1>4, <1>a DEF CheckAuth
  <2>3. QED
    BY <1>0, <1>4, <2>1, <2>2 DEF CheckAuth
<1>5. ASSUME NEW c \in Calls, Discard(c) PROVE TypeOK'
  <2>1. rec' \in [Ops -> Statuses]
    BY <1>0, <1>5 DEF Discard
  <2>2. auth' = [auth EXCEPT !.sealed = TRUE] \/ auth' = NoAuth
    BY <1>5 DEF Discard
  <2>3. auth' \in Ledgers
    BY <1>a, <2>2
  <2>4. pc' \in [Calls -> Labels] /\ answer' \in [Calls -> Answers]
        /\ scopeLock' \in Calls \cup {None}
    BY <1>0, <1>5 DEF Discard
  <2>5. QED
    BY <1>0, <1>5, <2>1, <2>3, <2>4 DEF Discard
<1>6. ASSUME NEW c \in Calls, WriteAuth(c) PROVE TypeOK'
  <2> DEFINE own == IF HasAuth THEN auth ELSE [NoAuth EXCEPT !.origin = req[c].attempt]
  <2>1. req[c].payload \in Payloads /\ req[c].attempt \in Attempts
    BY <1>0, <1>6 DEF WriteAuth, Named
  <2>2. own \in Ledgers
    BY <1>a, <2>1
  <2>3. auth' = auth \/ auth' = [own EXCEPT !.payloads = @ \cup {req[c].payload}]
    BY <1>6 DEF WriteAuth
  <2>4. auth' \in Ledgers
    BY <1>a, <2>1, <2>2, <2>3
  <2>5. pc' \in [Calls -> Labels] /\ answer' \in [Calls -> Answers]
        /\ scopeLock' \in Calls \cup {None}
    BY <1>0, <1>6 DEF WriteAuth
  <2>6. QED
    BY <1>0, <1>6, <2>4, <2>5 DEF WriteAuth
<1>7. ASSUME NEW c \in Calls, CheckRecord(c) PROVE TypeOK'
  <2>1. pc' \in [Calls -> Labels] /\ answer' \in [Calls -> Answers]
    BY <1>0, <1>7 DEF CheckRecord
  <2>2. rec' \in [Ops -> Statuses]
    BY <1>0, <1>7 DEF CheckRecord
  <2>3. QED
    BY <1>0, <1>7, <2>1, <2>2 DEF CheckRecord
<1>8. ASSUME NEW c \in Calls, PreflightFails(c) PROVE TypeOK'
  <2>1. rec' \in [Ops -> Statuses]
    BY <1>0, <1>8 DEF PreflightFails
  <2>2. QED
    BY <1>0, <1>8, <2>1 DEF PreflightFails
<1>9. ASSUME NEW c \in Calls, Seal(c) PROVE TypeOK'
  <2>1. auth' \in Ledgers
    BY <1>9, <1>a DEF Seal
  <2>2. QED
    BY <1>0, <1>9, <2>1 DEF Seal
<1>10. ASSUME NEW c \in Calls, Mark(c) PROVE TypeOK'
  BY <1>0, <1>10 DEF Mark
<1>11. ASSUME NEW c \in Calls, Accept(c) \/ Reject(c) PROVE TypeOK'
  <2>1. delivered' \in [Ops -> Nat]
    BY <1>0, <1>11 DEF Accept, Reject
  <2>2. dispatched' \subseteq Attempts \X Payloads
    BY <1>0, <1>11 DEF Accept, Reject, Named
  <2>3. pc' \in [Calls -> Labels]
    BY <1>0, <1>11 DEF Accept, Reject
  <2>4. QED
    BY <1>0, <1>11, <2>1, <2>2, <2>3 DEF Accept, Reject
<1>12. ASSUME NEW c \in Calls, RecordOutcome(c) PROVE TypeOK'
  <2>1. Outcome[pc[c]] \in Statuses
    BY <1>12 DEF RecordOutcome, Outcome
  <2>2. QED
    BY <1>0, <1>12, <2>1 DEF RecordOutcome
<1>13. ASSUME NEW c \in Calls, Finish(c) PROVE TypeOK'
  <2>1. auth' = NoAuth \/ auth' = auth
    BY <1>13 DEF Finish
  <2>2. QED
    BY <1>0, <1>13, <1>a, <2>1 DEF Finish, Unlocked
<1>14. ASSUME NEW p \in Procs, Crash(p) PROVE TypeOK'
  <2>1. pc' \in [Calls -> Labels] /\ opLock' \in [Ops -> Calls \cup {None}]
        /\ scopeLock' \in Calls \cup {None}
    BY <1>0, <1>14 DEF Crash
  <2>2. QED
    BY <1>0, <1>14, <2>1 DEF Crash
<1>15. CASE UNCHANGED vars
  BY <1>0, <1>15 DEF vars
<1>16. QED
  BY <1>1, <1>2, <1>3, <1>4, <1>5, <1>6, <1>7, <1>8, <1>9, <1>10, <1>11, <1>12,
     <1>13, <1>14, <1>15 DEF Next, Step

-----------------------------------------------------------------------------
(* The inductive invariant                                                 *)

\* A call inside an operation holds that operation's lock.
Exclusive == \A c \in Calls : pc[c] \in InOperation => opLock[Op(c)] = c

\* What the record says while a call is inside: not dispatched before Mark,
\* "dispatching" after it; and whether the provider has accepted.
Boundary == \A c \in Calls :
    /\ pc[c] \in {"send", "mark"} => rec[Op(c)] \notin Crossed
    /\ pc[c] \in {"dispatch", "accepted", "threw"} => rec[Op(c)] = "dispatching"
    /\ pc[c] = "dispatch" => delivered[Op(c)] = 0
    /\ pc[c] = "accepted" => delivered[Op(c)] = 1

\* An accepted email has a record that crossed the boundary, and a completed
\* record an accepted email.
Recorded == \A o \in Ops :
    /\ delivered[o] \in {0, 1}
    /\ delivered[o] = 1 => rec[o] \in Crossed
    /\ rec[o] = "completed" => delivered[o] = 1

Silent == \A c \in Calls : pc[c] = "idle" => answer[c] = "none"

Safe == Exclusive /\ Boundary /\ Recorded /\ Silent /\ SuccessIsTrue

\* A step of one call leaves the others and every operation's name alone.
LEMMA OthersStay ==
  ASSUME Typed, NEW c \in Calls, NEW to, pc' = [pc EXCEPT ![c] = to], UNCHANGED <<single, req>>
  PROVE  \A d \in Calls : Op(d)' = Op(d) /\ pc'[d] = IF d = c THEN to ELSE pc[d]
BY DEF Typed, TypeOK, Op

\* Two calls are never inside the same operation.
LEMMA Apart ==
  ASSUME Typed, Exclusive, NEW c \in Calls, NEW d \in Calls, c # d,
         pc[c] \in InOperation, pc[d] \in InOperation
  PROVE  Op(c) # Op(d)
BY DEF Exclusive

\* A step that touches neither an operation from inside nor its record keeps
\* the invariant.
LEMMA Outside ==
  ASSUME Typed, Safe, NEW c \in Calls,
         NEW to \in Labels \ (InOperation \cup {"idle"}), NEW text \in Answers,
         pc[c] # "idle",
         pc' = [pc EXCEPT ![c] = to],
         answer' = answer \/ answer' = [answer EXCEPT ![c] = text],
         text \in {"sent", "duplicate"} => delivered[Op(c)] = 1,
         UNCHANGED <<single, req, rec, opLock, delivered>>
  PROVE  Safe'
<1>1. \A d \in Calls : Op(d)' = Op(d) /\ pc'[d] = IF d = c THEN to ELSE pc[d]
  BY OthersStay
<1>2. Exclusive' /\ Boundary' /\ Recorded'
  BY <1>1 DEF Safe, Exclusive, Boundary, Recorded, InOperation
<1>3. Silent' /\ SuccessIsTrue'
  BY <1>1 DEF Safe, Silent, SuccessIsTrue, Typed, TypeOK
<1>4. QED
  BY <1>2, <1>3 DEF Safe

\* A step of the only call inside its operation keeps the invariant if the
\* operation's record, count and new place agree.
LEMMA Inside ==
  ASSUME Typed, Safe, NEW c \in Calls, pc[c] # "idle", pc'[c] # "idle",
         UNCHANGED <<single, req>>,
         \A d \in Calls \ {c} :
            /\ pc'[d] = pc[d] /\ answer'[d] = answer[d]
            /\ pc[d] \in InOperation => Op(d) # Op(c),
         \A q \in Ops \ {Op(c)} :
            rec'[q] = rec[q] /\ delivered'[q] = delivered[q] /\ opLock'[q] = opLock[q],
         pc'[c] \in InOperation => opLock'[Op(c)] = c,
         delivered'[Op(c)] \in {0, 1}, delivered'[Op(c)] >= delivered[Op(c)],
         delivered'[Op(c)] = 1 => rec'[Op(c)] \in Crossed,
         rec'[Op(c)] = "completed" => delivered'[Op(c)] = 1,
         pc'[c] \in {"send", "mark"} => rec'[Op(c)] \notin Crossed,
         pc'[c] \in {"dispatch", "accepted", "threw"} => rec'[Op(c)] = "dispatching",
         pc'[c] = "dispatch" => delivered'[Op(c)] = 0,
         pc'[c] = "accepted" => delivered'[Op(c)] = 1,
         answer'[c] \in {"sent", "duplicate"} => delivered'[Op(c)] = 1
  PROVE  Safe'
<1>1. \A d \in Calls : Op(d)' = Op(d)
  BY DEF Op
<1>2. \A d \in Calls : pc[d] # "idle" => Op(d) \in Ops
  BY OpIsOp DEF Typed
<1>3. Exclusive'
  BY <1>1, <1>2 DEF Safe, Exclusive, InOperation
<1>4. Boundary'
  BY <1>1, <1>2 DEF Safe, Boundary, InOperation
<1>5. Recorded'
  BY DEF Safe, Recorded
<1>6. Silent'
  BY DEF Safe, Silent
<1>7. SuccessIsTrue'
  <2>1. \A o \in Ops : delivered[o] = 1 => delivered'[o] = 1
    BY DEF Safe, Recorded, Typed, TypeOK
  <2>2. \A d \in Calls : answer[d] \in {"sent", "duplicate"} => Op(d) \in Ops
    BY <1>2 DEF Safe, Silent
  <2>3. QED
    BY <1>1, <2>1, <2>2 DEF Safe, SuccessIsTrue
<1>8. QED
  BY <1>3, <1>4, <1>5, <1>6, <1>7 DEF Safe

LEMMA SafeStep == Typed /\ Safe /\ [Next]_vars => Safe'
<1> SUFFICES ASSUME Typed, Safe, [Next]_vars PROVE Safe'
  OBVIOUS
<1>0. TypeOK /\ Named /\ Led /\ Exclusive /\ Boundary /\ Recorded /\ Silent /\ SuccessIsTrue
  BY DEF Typed, Safe
<1>a. \A c \in Calls : pc[c] # "idle" => Op(c) \in Ops
  BY <1>0, OpIsOp
<1> USE DEF Go, Settled, Refused, Answered, disk, locks, history
<1>1. ASSUME NEW c \in Calls, NEW p \in Procs, NEW a \in Attempts, NEW x \in Payloads,
             Begin(c, p, a, x)
      PROVE  Safe'
  <2>1. /\ UNCHANGED <<single, answer, rec, opLock, delivered>> /\ pc[c] = "idle"
        /\ pc'[c] \notin InOperation \cup {"idle"}
        /\ \A d \in Calls \ {c} : req'[d] = req[d] /\ pc'[d] = pc[d]
    BY <1>0, <1>1 DEF Begin, TypeOK, InOperation
  <2>2. \A d \in Calls \ {c} : Op(d)' = Op(d)
    BY <2>1 DEF Op
  <2>3. answer'[c] = "none"
    BY <1>0, <2>1 DEF Silent
  <2>4. Exclusive' /\ Boundary' /\ Recorded'
    BY <1>0, <2>1, <2>2 DEF Exclusive, Boundary, Recorded, InOperation
  <2>5. Silent' /\ SuccessIsTrue'
    BY <1>0, <2>1, <2>2, <2>3 DEF Silent, SuccessIsTrue
  <2>6. QED
    BY <2>4, <2>5 DEF Safe
<1>2. ASSUME NEW c \in Calls, Joined(c) PROVE Safe'
  <2> DEFINE text == Shared(answer[leader[c]])
  <2>1. text \in Answers /\ (text \in {"sent", "duplicate"} => delivered[Op(c)] = 1)
    BY <1>0, <1>2 DEF Joined, Shared, Led, SuccessIsTrue, Answers, TypeOK
  <2>2. QED
    BY <1>2, <2>1, Outside DEF Joined, Labels, InOperation
<1>3. ASSUME NEW c \in Calls, LockTimeout(c) PROVE Safe'
  BY <1>3, Outside DEF LockTimeout, Labels, InOperation, Answers
<1>4. ASSUME NEW c \in Calls, CheckAuth(c) PROVE Safe'
  <2>1. PICK to \in {"ended", "discard", "writeAuth"}, text \in {"refused", "uncertain"} :
          /\ pc' = [pc EXCEPT ![c] = to]
          /\ answer' = answer \/ answer' = [answer EXCEPT ![c] = text]
    BY <1>4 DEF CheckAuth
  <2>2. QED
    BY <1>4, <2>1, Outside DEF CheckAuth, Labels, InOperation, Answers
<1>5. ASSUME NEW c \in Calls, Discard(c) PROVE Safe'
  <2>1. CASE \E o \in Ops : rec[o] \in Crossed
    BY <1>5, <2>1, Outside DEF Discard, Labels, InOperation, Answers
  <2>2. CASE \A o \in Ops : rec[o] \notin Crossed
    <3>1. /\ pc' = [pc EXCEPT ![c] = "writeAuth"] /\ rec' = [o \in Ops |-> "absent"]
          /\ pc[c] = "discard" /\ UNCHANGED <<single, req, answer, opLock, delivered>>
      BY <1>5, <2>2 DEF Discard
    <3>2. \A d \in Calls : Op(d)' = Op(d) /\ pc'[d] = IF d = c THEN "writeAuth" ELSE pc[d]
      BY <3>1, OthersStay
    <3>3. Exclusive' /\ Silent' /\ SuccessIsTrue'
      BY <1>0, <3>1, <3>2 DEF Exclusive, Silent, SuccessIsTrue, InOperation
    <3>4. \A d \in Calls : pc'[d] \notin {"dispatch", "accepted", "threw"}
      BY <1>0, <1>a, <2>2, <3>2 DEF Boundary, Crossed
    <3>5. \A d \in Calls : pc'[d] \in {"send", "mark"} => rec'[Op(d)] \notin Crossed
      BY <1>a, <3>1, <3>2 DEF Crossed
    <3>6. Boundary'
      BY <3>2, <3>4, <3>5 DEF Boundary
    <3>7. Recorded'
      BY <1>0, <2>2, <3>1 DEF Recorded, Crossed
    <3>8. QED
      BY <3>3, <3>6, <3>7 DEF Safe
  <2>3. QED
    BY <2>1, <2>2
<1>6. ASSUME NEW c \in Calls, WriteAuth(c) PROVE Safe'
  <2>1. PICK to \in {"ended", "lockOp"} :
          /\ pc' = [pc EXCEPT ![c] = to]
          /\ answer' = answer \/ answer' = [answer EXCEPT ![c] = "refused"]
    BY <1>6 DEF WriteAuth
  <2>2. QED
    <3>1. pc[c] = "writeAuth" /\ UNCHANGED <<single, req, rec, opLock, delivered>>
      BY <1>6 DEF WriteAuth
    <3>2. to \in Labels \ (InOperation \cup {"idle"}) /\ "refused" \in Answers
      BY DEF Labels, InOperation, Answers
    <3>3. QED
      BY <2>1, <3>1, <3>2, Outside
<1>b. ASSUME NEW c \in Calls, NEW to, NEW text, pc' = [pc EXCEPT ![c] = to],
             answer' = answer \/ answer' = [answer EXCEPT ![c] = text]
      PROVE  /\ pc'[c] = to /\ answer'[c] \in {answer[c], text}
             /\ \A d \in Calls \ {c} : pc'[d] = pc[d] /\ answer'[d] = answer[d]
  BY <1>0, <1>b DEF TypeOK
<1>7. ASSUME NEW c \in Calls, CheckRecord(c) PROVE Safe'
  <2>1. /\ pc[c] = "lockOp" /\ opLock[Op(c)] = None /\ opLock' = [opLock EXCEPT ![Op(c)] = c]
        /\ UNCHANGED <<single, req, delivered>>
    BY <1>7 DEF CheckRecord
  <2>2. \A d \in Calls \ {c} : pc[d] \in InOperation => Op(d) # Op(c)
    BY <1>0, <2>1, Numbers DEF Exclusive
  <2>3. Op(c) \in Ops /\ opLock'[Op(c)] = c
    BY <1>0, <1>a, <2>1 DEF TypeOK
  <2>4. \A q \in Ops \ {Op(c)} : opLock'[q] = opLock[q]
    BY <1>0, <2>1 DEF TypeOK
  <2>5. /\ delivered[Op(c)] \in {0, 1}
        /\ delivered[Op(c)] = 1 => rec[Op(c)] \in Crossed
        /\ rec[Op(c)] = "completed" => delivered[Op(c)] = 1
        /\ answer[c] \in {"sent", "duplicate"} => delivered[Op(c)] = 1
    BY <1>0, <2>3 DEF Recorded, SuccessIsTrue
  <2>6. CASE rec[Op(c)] \in {"completed"} \cup Ambiguous
    <3>1. PICK text \in {"duplicate", "uncertain"} :
            /\ answer' = [answer EXCEPT ![c] = text]
            /\ text = "duplicate" => rec[Op(c)] = "completed"
      BY <1>7, <2>6 DEF CheckRecord, Ambiguous
    <3>2. rec' = rec /\ pc' = [pc EXCEPT ![c] = "finish"]
      BY <1>7, <2>6 DEF CheckRecord, Ambiguous
    <3>3. /\ pc'[c] = "finish" /\ answer'[c] \in {answer[c], text}
          /\ \A d \in Calls \ {c} : pc'[d] = pc[d] /\ answer'[d] = answer[d]
      BY <1>b, <3>1, <3>2
    <3>4. QED
      BY <2>1, <2>2, <2>3, <2>4, <2>5, <3>1, <3>2, <3>3, Inside DEF InOperation
  <2>7. CASE rec[Op(c)] \notin {"completed"} \cup Ambiguous
    <3>1. /\ pc' = [pc EXCEPT ![c] = "send"] /\ rec' = [rec EXCEPT ![Op(c)] = "preflight"]
          /\ answer' = answer
      BY <1>7, <2>7 DEF CheckRecord, Ambiguous
    <3>2. delivered[Op(c)] = 0
      BY <2>5, <2>7 DEF Ambiguous, Crossed
    <3>3. rec'[Op(c)] = "preflight" /\ \A q \in Ops \ {Op(c)} : rec'[q] = rec[q]
      BY <1>0, <2>3, <3>1 DEF TypeOK
    <3>4. pc'[c] = "send" /\ \A d \in Calls \ {c} : pc'[d] = pc[d]
      BY <1>b, <3>1
    <3>5. QED
      BY <2>1, <2>2, <2>3, <2>4, <2>5, <3>1, <3>2, <3>3, <3>4, Inside DEF Crossed, InOperation
  <2>8. QED
    BY <2>6, <2>7
<1>8. ASSUME NEW c \in Calls, PreflightFails(c) PROVE Safe'
  <2>1. PICK text \in {"refused", "error"} : answer' = [answer EXCEPT ![c] = text]
    BY <1>8 DEF PreflightFails
  <2>2. /\ pc[c] = "send" /\ pc' = [pc EXCEPT ![c] = "finish"]
        /\ rec' = [rec EXCEPT ![Op(c)] = "absent"] /\ UNCHANGED <<single, req, opLock, delivered>>
    BY <1>8 DEF PreflightFails
  <2>3. \A d \in Calls \ {c} : pc[d] \in InOperation => Op(d) # Op(c)
    BY <1>0, <2>2, Apart DEF InOperation
  <2>4. Op(c) \in Ops /\ delivered[Op(c)] = 0
    BY <1>0, <1>a, <2>2 DEF Boundary, Recorded
  <2>5. rec'[Op(c)] = "absent" /\ \A q \in Ops \ {Op(c)} : rec'[q] = rec[q]
    BY <1>0, <2>2, <2>4 DEF TypeOK
  <2>6. /\ pc'[c] = "finish" /\ answer'[c] \in {answer[c], text}
        /\ \A d \in Calls \ {c} : pc'[d] = pc[d] /\ answer'[d] = answer[d]
    BY <1>b, <2>1, <2>2
  <2>7. answer[c] \notin {"sent", "duplicate"}
    BY <1>0, <2>4 DEF SuccessIsTrue
  <2>8. QED
    BY <2>1, <2>2, <2>3, <2>4, <2>5, <2>6, <2>7, Inside DEF InOperation
<1>9. ASSUME NEW c \in Calls, Seal(c) \/ Mark(c) PROVE Safe'
  <2>1. PICK to \in {"mark", "dispatch"} :
          /\ pc[c] \in {"send", "mark"} /\ pc' = [pc EXCEPT ![c] = to]
          /\ to = "mark" => rec' = rec
          /\ to = "dispatch" => rec' = [rec EXCEPT ![Op(c)] = "dispatching"]
          /\ UNCHANGED <<single, req, answer, opLock, delivered>>
    BY <1>9 DEF Seal, Mark
  <2>2. \A d \in Calls \ {c} : pc[d] \in InOperation => Op(d) # Op(c)
    BY <1>0, <2>1, Apart DEF InOperation
  <2>3. Op(c) \in Ops /\ delivered[Op(c)] = 0 /\ rec[Op(c)] \notin Crossed /\ opLock[Op(c)] = c
    BY <1>0, <1>a, <2>1 DEF Boundary, Recorded, Exclusive, InOperation
  <2>4. /\ rec'[Op(c)] = IF to = "mark" THEN rec[Op(c)] ELSE "dispatching"
        /\ \A q \in Ops \ {Op(c)} : rec'[q] = rec[q]
    BY <1>0, <2>1, <2>3 DEF TypeOK
  <2>5. pc'[c] = to /\ \A d \in Calls \ {c} : pc'[d] = pc[d]
    BY <1>b, <2>1
  <2>6. answer[c] \notin {"sent", "duplicate"}
    BY <1>0, <2>3 DEF SuccessIsTrue
  <2>7. rec'[Op(c)] # "completed" /\ (to = "mark" => rec'[Op(c)] \notin Crossed)
    BY <2>3, <2>4 DEF Crossed
  <2>8. QED
    BY <2>1, <2>2, <2>3, <2>4, <2>5, <2>6, <2>7, Inside DEF InOperation
<1>10. ASSUME NEW c \in Calls, Accept(c) \/ Reject(c) PROVE Safe'
  <2>1. PICK to \in {"accepted", "threw"} :
          /\ pc' = [pc EXCEPT ![c] = to]
          /\ \/ delivered' = delivered /\ to = "threw"
             \/ delivered' = [delivered EXCEPT ![Op(c)] = @ + 1]
    BY <1>10 DEF Accept, Reject
  <2>2. pc[c] = "dispatch" /\ UNCHANGED <<single, req, answer, rec, opLock>>
    BY <1>10 DEF Accept, Reject
  <2>3. \A d \in Calls \ {c} : pc[d] \in InOperation => Op(d) # Op(c)
    BY <1>0, <2>2, Apart DEF InOperation
  <2>4. Op(c) \in Ops /\ delivered[Op(c)] = 0 /\ rec[Op(c)] = "dispatching" /\ opLock[Op(c)] = c
    BY <1>0, <1>a, <2>2 DEF Boundary, Exclusive, InOperation
  <2>5. /\ delivered'[Op(c)] \in {0, 1} /\ (to = "accepted" => delivered'[Op(c)] = 1)
        /\ \A q \in Ops \ {Op(c)} : delivered'[q] = delivered[q]
    BY <1>0, <2>1, <2>4 DEF TypeOK
  <2>6. pc'[c] = to /\ \A d \in Calls \ {c} : pc'[d] = pc[d]
    BY <1>b, <2>1, <2>2
  <2>7. answer[c] \notin {"sent", "duplicate"}
    BY <1>0, <2>4 DEF SuccessIsTrue
  <2>8. QED
    BY <2>1, <2>2, <2>3, <2>4, <2>5, <2>6, <2>7, Inside DEF Crossed
<1>11. ASSUME NEW c \in Calls, RecordOutcome(c) PROVE Safe'
  <2> DEFINE status == IF pc[c] = "accepted" THEN "completed" ELSE "uncertain"
             text == IF pc[c] = "accepted" THEN "sent" ELSE "error"
  <2>1. /\ pc[c] \in {"accepted", "threw"} /\ pc' = [pc EXCEPT ![c] = "finish"]
        /\ answer' = [answer EXCEPT ![c] = text]
        /\ UNCHANGED <<single, req, opLock, delivered>>
    BY <1>11 DEF RecordOutcome
  <2>2. rec' = [rec EXCEPT ![Op(c)] = status]
    <3>1. Outcome["accepted"] = "completed" /\ Outcome["threw"] = "uncertain"
      BY DEF Outcome
    <3>2. QED
      BY <1>11, <2>1, <3>1 DEF RecordOutcome
  <2>3. \A d \in Calls \ {c} : pc[d] \in InOperation => Op(d) # Op(c)
    BY <1>0, <2>1, Apart DEF InOperation
  <2>4. Op(c) \in Ops /\ delivered[Op(c)] \in {0, 1} /\ (pc[c] = "accepted" => delivered[Op(c)] = 1)
    BY <1>0, <1>a, <2>1 DEF Boundary, Recorded
  <2>5. rec'[Op(c)] = status /\ \A q \in Ops \ {Op(c)} : rec'[q] = rec[q]
    BY <1>0, <2>2, <2>4 DEF TypeOK
  <2>6. /\ pc'[c] = "finish" /\ answer'[c] = text
        /\ \A d \in Calls \ {c} : pc'[d] = pc[d] /\ answer'[d] = answer[d]
    BY <1>0, <1>b, <2>1 DEF TypeOK
  <2>7. QED
    BY <2>1, <2>3, <2>4, <2>5, <2>6, Inside DEF Crossed, InOperation
<1>12. ASSUME NEW c \in Calls, Finish(c) PROVE Safe'
  <2>1. /\ pc' = [pc EXCEPT ![c] = "ended"] /\ opLock' = [o \in Ops |-> Unlocked(opLock[o], c)]
        /\ UNCHANGED <<single, req, answer, rec, delivered>>
    BY <1>12 DEF Finish
  <2>2. \A d \in Calls : Op(d)' = Op(d) /\ pc'[d] = IF d = c THEN "ended" ELSE pc[d]
    BY <2>1, OthersStay
  <2>3. \A d \in Calls \ {c}, o \in Ops : opLock[o] = d => opLock'[o] = d
    BY <2>1 DEF Unlocked
  <2>4. Exclusive'
    BY <1>0, <1>a, <2>2, <2>3 DEF Exclusive, InOperation
  <2>5. Boundary' /\ Recorded' /\ Silent' /\ SuccessIsTrue'
    BY <1>0, <2>1, <2>2 DEF Boundary, Recorded, Silent, SuccessIsTrue
  <2>6. QED
    BY <2>4, <2>5 DEF Safe
<1>13. ASSUME NEW p \in Procs, Crash(p) PROVE Safe'
  <2>1. /\ UNCHANGED <<single, req, answer, rec, delivered>>
        /\ \A c \in Calls : \/ pc'[c] = pc[c] /\ (pc[c] # "ended" => req[c].proc # p)
                            \/ pc'[c] = "lost" /\ req[c].proc = p
        /\ opLock' = [o \in Ops |-> IF opLock[o] # None /\ req[opLock[o]].proc = p
                                    THEN None ELSE opLock[o]]
    BY <1>13 DEF Crash
  <2>2. \A c \in Calls : Op(c)' = Op(c)
    BY <2>1 DEF Op
  <2>3. \A c \in Calls : pc'[c] \in InOperation => pc'[c] = pc[c] /\ req[c].proc # p
    BY <2>1 DEF InOperation
  <2>4. Exclusive'
    BY <1>0, <1>a, <2>1, <2>2, <2>3 DEF Exclusive, InOperation
  <2>5. Silent'
    BY <1>0, <2>1 DEF Silent
  <2>6. Boundary' /\ Recorded' /\ SuccessIsTrue'
    BY <1>0, <2>1, <2>2, <2>3 DEF Boundary, Recorded, SuccessIsTrue, InOperation
  <2>7. QED
    BY <2>4, <2>5, <2>6 DEF Safe
<1>14. CASE UNCHANGED vars
  BY <1>14 DEF vars, Safe, Exclusive, Boundary, Recorded, Silent, SuccessIsTrue, Op
<1>15. QED
  BY <1>1, <1>2, <1>3, <1>4, <1>5, <1>6, <1>7, <1>8, <1>9, <1>10, <1>11, <1>12,
     <1>13, <1>14 DEF Next, Step

-----------------------------------------------------------------------------
IInv == Typed /\ Safe

\* In every reachable state the locks, the record, the provider's count and
\* what callers were told agree.
THEOREM Invariance == Spec => []IInv
<1>1. Init => IInv
  <2> SUFFICES ASSUME Init PROVE IInv
    OBVIOUS
  <2> USE Numbers DEF Init
  <2>1. TypeOK
    <3>1. rec \in [Ops -> Statuses]
      BY OldStatusesAssumption
    <3>2. delivered \in [Ops -> Nat]
      OBVIOUS
    <3>3. auth \in Ledgers
      BY DEF Ledgers, NoAuth
    <3>4. QED
      BY <3>1, <3>2, <3>3 DEF TypeOK, Ledgers, Labels, Answers
  <2>2. Named /\ Led /\ Silent /\ SuccessIsTrue
    BY DEF Named, Led, Silent, SuccessIsTrue
  <2>3. Exclusive /\ Boundary
    BY DEF Exclusive, Boundary, InOperation
  <2>4. Recorded
    BY DEF Recorded, Crossed
  <2>5. QED
    BY <2>1, <2>2, <2>3, <2>4 DEF IInv, Typed, Safe
<1>2. IInv /\ [Next]_vars => IInv'
  BY NamesStep, TypeStep, SafeStep DEF IInv, Typed
<1>3. QED
  BY <1>1, <1>2, PTL DEF Spec

\* Every variable of sendEmailIdempotently's model keeps its type.
THEOREM TypeCorrect == Spec => []TypeOK
BY Invariance, PTL DEF IInv, Typed

\* executeOperation lets the provider accept an operation's email at most once,
\* for any number of calls, attempts, processes, payloads and crashes.
THEOREM AtMostOnceAlways == Spec => []AtMostOnce
<1>1. IInv => AtMostOnce
  BY DEF IInv, Safe, Recorded, AtMostOnce
<1>2. QED
  BY <1>1, Invariance, PTL

\* A caller that is told "sent" or "duplicate" is told the truth.
THEOREM SuccessIsTrueAlways == Spec => []SuccessIsTrue
BY Invariance, PTL DEF IInv, Safe

\* No branch of executeOperation or of the sweep of a foreign attempt makes a
\* record retryable once it crossed the dispatch boundary.
THEOREM NeverRearmedAlways == Spec => NeverRearmed
<1>1. IInv /\ [Next]_vars => \A o \in Ops : rec[o] \in Crossed => rec'[o] \in Crossed
  <2> SUFFICES ASSUME IInv, [Next]_vars, NEW o \in Ops, rec[o] \in Crossed
               PROVE  rec'[o] \in Crossed
    OBVIOUS
  <2>0. TypeOK /\ Boundary /\ rec \in [Ops -> Statuses]
    BY DEF IInv, Typed, Safe, TypeOK
  <2> USE DEF Go, Settled, Refused, Answered, disk, locks, history
  <2>1. ASSUME NEW c \in Calls, NEW p \in Procs, NEW a \in Attempts, NEW x \in Payloads,
               Begin(c, p, a, x)
        PROVE  rec'[o] \in Crossed
    BY <2>1 DEF Begin
  <2>2. ASSUME NEW c \in Calls, Discard(c) PROVE rec'[o] \in Crossed
    BY <2>2 DEF Discard
  <2>3. ASSUME NEW c \in Calls, CheckRecord(c) PROVE rec'[o] \in Crossed
    <3>1. CASE rec[Op(c)] \in Crossed
      BY <2>3, <3>1 DEF CheckRecord, Crossed, Ambiguous
    <3>2. CASE rec[Op(c)] \notin Crossed
      <4>1. rec' = rec \/ rec' = [rec EXCEPT ![Op(c)] = "preflight"]
        BY <2>3 DEF CheckRecord
      <4>2. QED
        BY <2>0, <3>2, <4>1
    <3>3. QED
      BY <3>1, <3>2
  <2>4. ASSUME NEW c \in Calls, PreflightFails(c) PROVE rec'[o] \in Crossed
    BY <2>0, <2>4 DEF PreflightFails, Boundary
  <2>5. ASSUME NEW c \in Calls, Mark(c) PROVE rec'[o] \in Crossed
    BY <2>0, <2>5 DEF Mark, Crossed
  <2>6. ASSUME NEW c \in Calls, RecordOutcome(c) PROVE rec'[o] \in Crossed
    <3>1. Outcome[pc[c]] \in Crossed
      BY <2>6 DEF RecordOutcome, Outcome, Crossed
    <3>2. QED
      BY <2>0, <2>6, <3>1 DEF RecordOutcome
  <2>7. ASSUME NEW c \in Calls,
               \/ Joined(c) \/ CheckAuth(c) \/ WriteAuth(c) \/ Seal(c) \/ Accept(c)
               \/ Reject(c) \/ Finish(c) \/ LockTimeout(c)
        PROVE  rec'[o] \in Crossed
    BY <2>7 DEF Joined, CheckAuth, WriteAuth, Seal, Accept, Reject, Finish, LockTimeout
  <2>8. ASSUME NEW p \in Procs, Crash(p) PROVE rec'[o] \in Crossed
    BY <2>8 DEF Crash
  <2>9. CASE UNCHANGED vars
    BY <2>9 DEF vars
  <2>10. QED
    BY <2>1, <2>2, <2>3, <2>4, <2>5, <2>6, <2>7, <2>8, <2>9 DEF Next, Step
<1>2. QED
  BY <1>1, Invariance, PTL DEF Spec, NeverRearmed

-----------------------------------------------------------------------------
(* A Retry adds nothing                                                    *)

\* From CheckAuth to Finish a call of a message holds the scope's lock, so the
\* calls of a message pass one after the other.
Holding == {"discard", "writeAuth", "lockOp", "finish"} \cup InOperation
Held == \A c \in Calls : pc[c] \in Holding => scopeLock = c

\* An attempt is a turn of one process, and dies with it.
Dead(a) == \E d \in Calls : pc[d] = "lost" /\ req[d].attempt = a

Turns ==
    /\ \A c \in Calls : pc[c] = "idle" => req[c].attempt = None
    /\ \A c, d \in Calls :
         pc[c] # "idle" /\ pc[d] # "idle" /\ req[d].attempt = req[c].attempt =>
            /\ req[d].proc = req[c].proc
            /\ pc[c] = "lost" => pc[d] \in {"lost", "ended"}

\* What the ledger grants the call that holds the scope: its own attempt's, or a
\* replay of a payload that is authorized and still recorded.  A replay reaches
\* the provider only when the ledger's attempt died before it.
Own(c) == auth.origin = req[c].attempt

Granted == \A c \in Calls :
    /\ pc[c] = "discard" => HasAuth /\ ~auth.sealed
    /\ pc[c] = "writeAuth" =>
          \/ auth = NoAuth \/ Own(c)
          \/ /\ auth.sealed
             /\ req[c].payload \in auth.payloads /\ rec[req[c].payload] # "absent"
    /\ pc[c] = "lockOp" =>
          /\ req[c].payload \in auth.payloads
          /\ Own(c) \/ (auth.sealed /\ rec[req[c].payload] # "absent")
    /\ pc[c] \in {"send", "mark", "dispatch"} =>
          /\ req[c].payload \in auth.payloads /\ auth.origin \in Attempts
          /\ Own(c) \/ Dead(auth.origin)
    /\ pc[c] \in {"mark", "dispatch"} => auth.sealed
    /\ pc[c] \in {"send", "mark"} => rec[req[c].payload] = "preflight"
    /\ pc[c] = "dispatch" /\ ~Own(c) => \A y \in Payloads : rec[y] # "preflight"

\* At most one claim is left in preflight, an authorized one, by a call that is
\* still inside or by an attempt that died.
Claimed == \A y \in Payloads : rec[y] = "preflight" =>
    /\ y \in auth.payloads /\ auth.origin \in Attempts
    /\ \/ Dead(auth.origin)
       \/ \E c \in Calls : pc[c] \in {"send", "mark"} /\ req[c].payload = y
    /\ \A x \in Payloads : rec[x] = "preflight" => x = y

\* The ledger of an attempt authorizes what that attempt requested.
Asked == auth.origin \in Attempts => auth.payloads \subseteq Requested(auth.origin)

\* After a dispatch the ledger stays.  An attempt other than the ledger's
\* dispatches the one claim the dead one left, and nothing follows it.
Last == dispatched # {} =>
    /\ auth.sealed /\ auth.origin \in Attempts
    /\ (\E e \in dispatched : e[1] # auth.origin) =>
          /\ Dead(auth.origin)
          /\ \A y \in Payloads : rec[y] # "preflight"
          /\ \A c \in Calls : pc[c] \notin {"send", "mark", "dispatch"}

ScopeInv == ~single => Held /\ Turns /\ Granted /\ Claimed /\ Asked /\ Last

LEMMA Alone ==
  ASSUME Held, NEW c \in Calls, pc[c] \in Holding
  PROVE  \A d \in Calls \ {c} : pc[d] \notin Holding
BY DEF Held

\* A step of one call that is neither its first nor its process' death.
LEMMA CallMoves ==
  ASSUME Typed, Turns, NEW c \in Calls, NEW to, to \notin {"idle", "lost"},
         pc[c] \notin {"idle", "lost", "ended"},
         pc' = [pc EXCEPT ![c] = to], req' = req
  PROVE  /\ \A d \in Calls : pc'[d] = IF d = c THEN to ELSE pc[d]
         /\ \A a : Dead(a)' <=> Dead(a)
         /\ \A a : Requested(a)' = Requested(a)
         /\ Turns'
<1>1. \A d \in Calls : pc'[d] = IF d = c THEN to ELSE pc[d]
  BY DEF Typed, TypeOK
<1>2. \A a : Dead(a)' <=> Dead(a)
  BY <1>1 DEF Dead
<1>3. \A a : Requested(a)' = Requested(a)
  BY DEF Requested
<1>4. Turns'
  BY <1>1 DEF Turns
<1>5. QED
  BY <1>1, <1>2, <1>3, <1>4

\* A step of a call that holds nothing and touches nothing.
LEMMA Bystander ==
  ASSUME Typed, ScopeInv, ~single, NEW c \in Calls, NEW to, to \notin Holding \cup {"idle", "lost"},
         pc[c] \notin Holding \cup {"idle", "lost", "ended"},
         pc' = [pc EXCEPT ![c] = to], UNCHANGED <<single, req, rec, auth, scopeLock, dispatched>>
  PROVE  ScopeInv'
<1>0. Held /\ Turns /\ Granted /\ Claimed /\ Asked /\ Last
  BY DEF ScopeInv
<1>1. /\ \A d \in Calls : pc'[d] = IF d = c THEN to ELSE pc[d]
      /\ \A a : Dead(a)' <=> Dead(a)
      /\ \A a : Requested(a)' = Requested(a)
      /\ Turns'
  BY <1>0, CallMoves
<1>2. Held' /\ Asked'
  BY <1>0, <1>1 DEF Held, Asked
<1>3. Granted'
  BY <1>0, <1>1 DEF Granted, Own, HasAuth, Holding, InOperation
<1>4. Claimed'
  <2>1. SUFFICES ASSUME NEW y \in Payloads, rec[y] = "preflight",
                        ~Dead(auth.origin)
                 PROVE  \E d \in Calls : pc'[d] \in {"send", "mark"} /\ req'[d].payload = y
    BY <1>0, <1>1 DEF Claimed
  <2>2. PICK d \in Calls : pc[d] \in {"send", "mark"} /\ req[d].payload = y
    BY <1>0, <2>1 DEF Claimed
  <2>3. pc'[d] = pc[d]
    BY <1>1, <2>2 DEF Holding, InOperation
  <2>4. QED
    BY <2>2, <2>3
<1>5. Last'
  BY <1>0, <1>1 DEF Last, Holding, InOperation
<1>6. QED
  BY <1>1, <1>2, <1>3, <1>4, <1>5 DEF ScopeInv

LEMMA ScopeBegin ==
  ASSUME IInv, ScopeInv, ~single, NEW c \in Calls, NEW p \in Procs, NEW a \in Attempts,
         NEW x \in Payloads, Begin(c, p, a, x)
  PROVE  ScopeInv'
<1>0. /\ Typed /\ TypeOK /\ Named
      /\ Held /\ Turns /\ Granted /\ Claimed /\ Asked /\ Last
  BY DEF IInv, Typed, ScopeInv
<1>1. /\ pc[c] = "idle" /\ req[c].attempt = None
      /\ \A d \in Calls : req[d].attempt = a => req[d].proc = p /\ pc[d] # "lost"
      /\ req' = [req EXCEPT ![c] = [proc |-> p, attempt |-> a, payload |-> x]]
      /\ UNCHANGED <<single, answer, rec, auth, scopeLock, opLock, dispatched>>
  BY <1>0 DEF Begin, Turns, disk, locks, history
<1>2. PICK to \in {"lockScope", "joined"} : pc' = [pc EXCEPT ![c] = to]
  BY <1>0 DEF Begin
<1>3. /\ pc'[c] = to /\ req'[c] = [proc |-> p, attempt |-> a, payload |-> x]
      /\ \A d \in Calls \ {c} : pc'[d] = pc[d] /\ req'[d] = req[d]
  BY <1>0, <1>1, <1>2 DEF TypeOK
<1>4. req'[c].proc = p /\ req'[c].attempt = a /\ a # None
  BY <1>3, Numbers
<1>5. \A b : Dead(b)' <=> Dead(b)
  BY <1>1, <1>3 DEF Dead
<1>6. \A b \in Attempts : Requested(b) \subseteq Requested(b)'
  BY <1>1, <1>3, Numbers DEF Requested
<1>7. Turns'
  <2>1. \A d \in Calls : pc'[d] = "idle" => req'[d].attempt = None
    BY <1>0, <1>3 DEF Turns
  <2>2. ASSUME NEW d \in Calls, NEW e \in Calls, pc'[d] # "idle", pc'[e] # "idle",
               req'[e].attempt = req'[d].attempt
        PROVE  /\ req'[e].proc = req'[d].proc
               /\ pc'[d] = "lost" => pc'[e] \in {"lost", "ended"}
    <3>1. CASE d # c /\ e # c
      BY <1>0, <1>3, <2>2, <3>1 DEF Turns
    <3>2. CASE d = c \/ e = c
      BY <1>1, <1>3, <1>4, <2>2, <3>2
    <3>3. QED
      BY <3>1, <3>2
  <2>3. QED
    BY <2>1, <2>2 DEF Turns
<1>8. \A d \in Calls : pc'[d] \in Holding => d # c /\ pc'[d] = pc[d] /\ req'[d] = req[d]
  BY <1>2, <1>3 DEF Holding, InOperation
<1>9. Held' /\ Asked'
  BY <1>0, <1>1, <1>6, <1>8 DEF Held, Asked
<1>10. Granted'
  BY <1>0, <1>1, <1>5, <1>8 DEF Granted, Own, HasAuth, Holding, InOperation
<1>11. Claimed'
  <2>1. SUFFICES ASSUME NEW y \in Payloads, rec[y] = "preflight", ~Dead(auth.origin)
                 PROVE  \E d \in Calls : pc'[d] \in {"send", "mark"} /\ req'[d].payload = y
    BY <1>0, <1>1, <1>5 DEF Claimed
  <2>2. PICK d \in Calls : pc[d] \in {"send", "mark"} /\ req[d].payload = y
    BY <1>0, <2>1 DEF Claimed
  <2>3. pc'[d] = pc[d] /\ req'[d] = req[d]
    BY <1>1, <1>3, <2>2
  <2>4. QED
    BY <2>2, <2>3
<1>12. Last'
  BY <1>0, <1>1, <1>5, <1>8 DEF Last, Holding, InOperation
<1>13. QED
  BY <1>7, <1>9, <1>10, <1>11, <1>12 DEF ScopeInv

\* The scope's lock is free, so no call is inside, and the ledger is the one on
\* disk or, before the first call, that of an older version's records.
LEMMA ScopeCheckAuth ==
  ASSUME IInv, ScopeInv, ~single, NEW c \in Calls, CheckAuth(c)
  PROVE  ScopeInv'
<1>0. /\ Typed /\ TypeOK /\ Named
      /\ Held /\ Turns /\ Granted /\ Claimed /\ Asked /\ Last
  BY DEF IInv, Typed, ScopeInv
<1>1. /\ pc[c] = "lockScope" /\ scopeLock = None /\ auth' = Ledger
      /\ UNCHANGED <<single, req, rec, dispatched>>
  BY DEF CheckAuth, disk, locks, history, Refused, Settled, Go
<1>2. PICK to \in {"ended", "discard", "writeAuth"} : pc' = [pc EXCEPT ![c] = to]
  BY DEF CheckAuth, Refused, Settled, Go
<1>3. /\ \A d \in Calls : pc'[d] = IF d = c THEN to ELSE pc[d]
      /\ \A a : Dead(a)' <=> Dead(a)
      /\ \A a : Requested(a)' = Requested(a)
      /\ Turns'
  BY <1>0, <1>1, <1>2, CallMoves
<1>4. \A d \in Calls : pc[d] \notin Holding
  BY <1>0, <1>1, Numbers DEF Held
<1>5. /\ HasAuth => auth' = auth
      /\ auth' = auth \/ (auth = NoAuth /\ auth'.origin = Legacy /\ auth'.sealed)
  BY <1>1 DEF Ledger, HasAuth
<1>6. auth = NoAuth => auth.origin = None /\ auth.payloads = {} /\ ~auth.sealed
  BY DEF NoAuth
<1>7. Held'
  <2>1. to # "ended" => scopeLock' = c
    BY <1>1, <1>2, <1>3 DEF CheckAuth, Refused, Settled, Go
  <2>2. QED
    BY <1>3, <1>4, <2>1 DEF Held, Holding, InOperation
<1>8. Granted'
  <2>1. to = "discard" => auth' # NoAuth /\ ~auth'.sealed
    BY <1>0, <1>1, <1>3 DEF TypeOK, CheckAuth, Refused, Settled, Go
  <2>2. to = "writeAuth" => \/ auth' = NoAuth \/ auth'.origin = req[c].attempt
                            \/ /\ auth'.sealed
                               /\ req[c].payload \in auth'.payloads
                               /\ rec[req[c].payload] # "absent"
    BY <1>0, <1>1, <1>3 DEF TypeOK, CheckAuth, Refused, Settled, Go, MayReplay
  <2>3. \A d \in Calls : pc'[d] \in Holding => d = c
    BY <1>3, <1>4
  <2>4. QED
    BY <1>1, <1>2, <1>3, <2>1, <2>2, <2>3 DEF Granted, Own, HasAuth, Holding, InOperation
<1>9. Claimed'
  <2>1. SUFFICES ASSUME NEW y \in Payloads, rec[y] = "preflight"
                 PROVE  /\ y \in auth'.payloads /\ auth'.origin \in Attempts
                        /\ Dead(auth.origin)'
                        /\ \A x \in Payloads : rec[x] = "preflight" => x = y
    BY <1>1 DEF Claimed
  <2>2. /\ y \in auth.payloads /\ auth.origin \in Attempts /\ Dead(auth.origin)
        /\ \A x \in Payloads : rec[x] = "preflight" => x = y
    BY <1>0, <1>4, <2>1 DEF Claimed, Holding, InOperation
  <2>3. auth' = auth
    BY <1>5, <1>6, <2>2
  <2>4. QED
    BY <1>3, <2>2, <2>3
<1>10. Asked'
  BY <1>0, <1>3, <1>5, Numbers DEF Asked
<1>11. Last'
  <2>1. SUFFICES ASSUME dispatched # {} PROVE Last'
    BY <1>1 DEF Last
  <2>2. auth.sealed /\ auth.origin \in Attempts /\ auth' = auth
    BY <1>0, <1>5, <1>6, <2>1 DEF Last
  <2>3. \A d \in Calls : pc'[d] \notin {"send", "mark", "dispatch"}
    BY <1>2, <1>3, <1>4 DEF Holding, InOperation
  <2>4. QED
    BY <1>0, <1>1, <1>3, <2>1, <2>2, <2>3 DEF Last
<1>12. QED
  BY <1>3, <1>7, <1>8, <1>9, <1>10, <1>11 DEF ScopeInv

\* A step of the call that holds the scope: no other call is inside.
LEMMA Holder ==
  ASSUME IInv, ScopeInv, ~single, NEW c \in Calls, pc[c] \in Holding,
         NEW to, to \notin {"idle", "lost"}, pc' = [pc EXCEPT ![c] = to],
         UNCHANGED <<single, req>>, scopeLock' = scopeLock \/ to \notin Holding
  PROVE  /\ \A d \in Calls : pc'[d] = IF d = c THEN to ELSE pc[d]
         /\ \A d \in Calls : d # c => pc[d] \notin Holding /\ pc'[d] \notin Holding
         /\ \A a : Dead(a)' <=> Dead(a)
         /\ \A a : Requested(a)' = Requested(a)
         /\ Op(c) = req[c].payload /\ req[c].payload \in Payloads /\ req[c].payload \in Ops
         /\ req[c].attempt \in Attempts
         /\ ~Dead(req[c].attempt)
         /\ Held' /\ Turns'
<1>0. /\ Typed /\ TypeOK /\ Named /\ Held /\ Turns
      /\ pc[c] \notin {"idle", "lost", "ended"}
  BY DEF IInv, Typed, ScopeInv, Holding, InOperation
<1>1. /\ \A d \in Calls : pc'[d] = IF d = c THEN to ELSE pc[d]
      /\ \A a : Dead(a)' <=> Dead(a)
      /\ \A a : Requested(a)' = Requested(a)
      /\ Turns'
  BY <1>0, CallMoves
<1>2. \A d \in Calls : d # c => pc[d] \notin Holding /\ pc'[d] \notin Holding
  BY <1>0, <1>1, Alone
<1>3. /\ Op(c) = req[c].payload /\ req[c].payload \in Payloads /\ req[c].payload \in Ops
      /\ req[c].attempt \in Attempts
  BY <1>0, Numbers DEF Named, Op
<1>4. ~Dead(req[c].attempt)
  BY <1>0 DEF Dead, Turns
<1>5. Held'
  BY <1>0, <1>1, <1>2 DEF Held
<1>6. QED
  BY <1>1, <1>2, <1>3, <1>4, <1>5

\* The two ends of a call that has the ledger's grant but never sends.
LEMMA ScopeDone ==
  ASSUME IInv, ScopeInv, ~single, NEW c \in Calls,
         pc[c] \in {"discard", "writeAuth", "lockOp", "accepted", "threw", "finish"},
         NEW to \in {"ended", "finish"}, pc' = [pc EXCEPT ![c] = to],
         UNCHANGED <<single, req, dispatched>>, scopeLock' = scopeLock \/ to = "ended",
         \/ auth' = auth
         \/ /\ auth' = NoAuth /\ ~auth.sealed
            /\ \A y \in Payloads : rec[y] # "preflight",
         \A y \in Payloads : rec'[y] = rec[y] \/ rec'[y] \in Crossed
  PROVE  ScopeInv'
<1>0. /\ Held /\ Turns /\ Granted /\ Claimed /\ Asked /\ Last
      /\ pc[c] \in Holding
  BY DEF ScopeInv, Holding, InOperation
<1>1. /\ \A d \in Calls : pc'[d] = IF d = c THEN to ELSE pc[d]
      /\ \A d \in Calls : d # c => pc[d] \notin Holding /\ pc'[d] \notin Holding
      /\ \A a : Dead(a)' <=> Dead(a)
      /\ \A a : Requested(a)' = Requested(a)
      /\ Held' /\ Turns'
  BY <1>0, Holder DEF Holding, InOperation
<1>2. \A d \in Calls : pc'[d] \notin {"discard", "writeAuth", "lockOp", "send", "mark", "dispatch"}
  BY <1>1 DEF Holding, InOperation
<1>3. Granted'
  BY <1>2 DEF Granted
<1>4. \A y \in Payloads : rec'[y] = "preflight" => rec[y] = "preflight" /\ auth' = auth
  BY DEF Crossed
<1>5. \A d \in Calls : pc[d] \notin {"send", "mark"}
  BY <1>1 DEF Holding, InOperation
<1>6. \A y \in Payloads : rec[y] = "preflight" =>
         /\ y \in auth.payloads /\ auth.origin \in Attempts /\ Dead(auth.origin)
         /\ \A x \in Payloads : rec[x] = "preflight" => x = y
  BY <1>0, <1>5 DEF Claimed
<1>7. Claimed'
  BY <1>1, <1>4, <1>6 DEF Claimed
<1>8. NoAuth.origin = None /\ None \notin Attempts
  BY Numbers DEF NoAuth
<1>9. Asked'
  BY <1>0, <1>1, <1>8 DEF Asked
<1>10. Last'
  BY <1>0, <1>1, <1>2, <1>4 DEF Last
<1>11. QED
  BY <1>1, <1>3, <1>7, <1>9, <1>10 DEF ScopeInv

LEMMA ScopeDiscard ==
  ASSUME IInv, ScopeInv, ~single, NEW c \in Calls, Discard(c)
  PROVE  ScopeInv'
<1>0. /\ Held /\ Turns /\ Granted /\ Claimed /\ Asked /\ Last
      /\ auth \in Ledgers /\ pc[c] \in Holding /\ pc[c] = "discard"
  BY LedgerType DEF IInv, Typed, ScopeInv, Holding, Discard, Refused, Settled, Go
<1>1. /\ ~auth.sealed /\ dispatched = {} /\ UNCHANGED <<single, req, dispatched>>
  BY <1>0 DEF Granted, Last, Discard, history
<1>2. CASE \E o \in Ops : rec[o] \in Crossed
  <2>1. /\ auth' = [auth EXCEPT !.sealed = TRUE] /\ rec' = rec
        /\ pc' = [pc EXCEPT ![c] = "ended"]
    BY <1>2 DEF Discard, Refused, Settled, Go
  <2>2. auth'.origin = auth.origin /\ auth'.payloads = auth.payloads
    BY <1>0, <2>1 DEF Ledgers
  <2>3. /\ \A d \in Calls : pc'[d] = IF d = c THEN "ended" ELSE pc[d]
        /\ \A d \in Calls : d # c => pc[d] \notin Holding /\ pc'[d] \notin Holding
        /\ \A a : Dead(a)' <=> Dead(a)
        /\ \A a : Requested(a)' = Requested(a)
        /\ Held' /\ Turns'
    BY <1>0, <1>1, <2>1, Holder DEF Holding, InOperation
  <2>4. \A d \in Calls : pc'[d] \notin Holding
    BY <2>3 DEF Holding, InOperation
  <2>5. Granted'
    BY <2>4 DEF Granted, Holding, InOperation
  <2>6. \A d \in Calls : pc[d] \notin {"send", "mark"}
    BY <1>0, <2>3 DEF Holding, InOperation
  <2>7. Claimed'
    BY <1>0, <2>1, <2>2, <2>3, <2>6 DEF Claimed
  <2>8. Asked' /\ Last'
    BY <1>0, <1>1, <2>2, <2>3 DEF Asked, Last
  <2>9. QED
    BY <2>3, <2>5, <2>7, <2>8 DEF ScopeInv
<1>3. CASE \A o \in Ops : rec[o] \notin Crossed
  <2>1. /\ auth' = NoAuth /\ rec' = [o \in Ops |-> "absent"]
        /\ pc' = [pc EXCEPT ![c] = "writeAuth"] /\ scopeLock' = scopeLock
    BY <1>3 DEF Discard, Refused, Settled, Go
  <2>2. /\ \A d \in Calls : pc'[d] = IF d = c THEN "writeAuth" ELSE pc[d]
        /\ \A d \in Calls : d # c => pc[d] \notin Holding /\ pc'[d] \notin Holding
        /\ Held' /\ Turns'
    BY <1>0, <1>1, <2>1, Holder DEF Holding
  <2>3. Granted'
    BY <2>1, <2>2 DEF Granted, Holding, InOperation
  <2>4. Claimed' /\ Last'
    BY <1>1, <2>1, Numbers DEF Claimed, Last
  <2>5. Asked'
    BY <2>1, Numbers DEF Asked, NoAuth
  <2>6. QED
    BY <2>2, <2>3, <2>4, <2>5 DEF ScopeInv
<1>4. QED
  BY <1>2, <1>3

LEMMA ScopeWriteAuth ==
  ASSUME IInv, ScopeInv, ~single, NEW c \in Calls, WriteAuth(c)
  PROVE  ScopeInv'
<1> DEFINE x == req[c].payload
           own == IF HasAuth THEN auth ELSE [NoAuth EXCEPT !.origin = req[c].attempt]
<1>0. /\ Held /\ Turns /\ Granted /\ Claimed /\ Asked /\ Last
      /\ auth \in Ledgers /\ NoAuth \in Ledgers /\ pc[c] \in Holding /\ pc[c] = "writeAuth"
      /\ UNCHANGED <<single, req, rec, dispatched>>
  BY LedgerType DEF IInv, Typed, ScopeInv, Holding, WriteAuth, Refused, Settled, Go, history
<1>1. CASE pc' = [pc EXCEPT ![c] = "ended"] /\ auth' = auth
  <2>1. pc[c] \in {"discard", "writeAuth", "lockOp", "accepted", "threw", "finish"}
    BY <1>0
  <2>2. QED
    BY <1>0, <1>1, <2>1, ScopeDone
<1>2. CASE /\ pc' = [pc EXCEPT ![c] = "lockOp"] /\ scopeLock' = scopeLock
           /\ auth' = [own EXCEPT !.payloads = @ \cup {x}]
  <2>1. /\ \A d \in Calls : pc'[d] = IF d = c THEN "lockOp" ELSE pc[d]
        /\ \A d \in Calls : d # c => pc[d] \notin Holding /\ pc'[d] \notin Holding
        /\ \A a : Dead(a)' <=> Dead(a)
        /\ \A a : Requested(a)' = Requested(a)
        /\ Held' /\ Turns'
        /\ x \in Payloads /\ req[c].attempt \in Attempts
    BY <1>0, <1>2, Holder
  <2>2. /\ auth'.payloads = own.payloads \cup {x}
        /\ auth'.origin = own.origin /\ auth'.sealed = own.sealed
    BY <1>0, <1>2 DEF Ledgers
  <2>3. CASE auth = NoAuth
    <3>1. auth'.origin = req[c].attempt /\ auth'.payloads = {x}
      BY <2>2, <2>3 DEF NoAuth, HasAuth
    <3>2. \A y \in Payloads : rec[y] # "preflight"
      BY <1>0, <2>3, Numbers DEF Claimed, NoAuth
    <3>3. dispatched = {}
      BY <1>0, <2>3 DEF Last, NoAuth
    <3>4. Granted'
      BY <1>0, <2>1, <3>1 DEF Granted, Own, Holding, InOperation
    <3>5. Asked'
      BY <1>0, <3>1 DEF Asked, Requested
    <3>6. QED
      BY <1>0, <2>1, <3>2, <3>3, <3>4, <3>5 DEF ScopeInv, Claimed, Last
  <2>4. CASE auth # NoAuth
    <3>1. /\ auth'.payloads = auth.payloads \cup {x}
          /\ auth'.origin = auth.origin /\ auth'.sealed = auth.sealed
      BY <2>2, <2>4 DEF HasAuth
    <3>2. Own(c) \/ (auth.sealed /\ x \in auth.payloads /\ rec[x] # "absent")
      BY <1>0, <2>4 DEF Granted
    <3>3. Granted'
      BY <1>0, <2>1, <3>1, <3>2 DEF Granted, Own, Holding, InOperation
    <3>4. \A d \in Calls : pc[d] \notin {"send", "mark"}
      BY <1>0, <2>1 DEF Holding, InOperation
    <3>5. Claimed'
      BY <1>0, <2>1, <3>1, <3>4 DEF Claimed
    <3>6. x \in auth.payloads \/ x \in Requested(auth.origin)
      BY <3>2 DEF Own, Requested
    <3>7. Asked'
      BY <1>0, <2>1, <3>1, <3>6 DEF Asked
    <3>8. \A d \in Calls : pc'[d] \notin {"send", "mark", "dispatch"}
      BY <2>1 DEF Holding, InOperation
    <3>9. Last'
      BY <1>0, <2>1, <3>1, <3>8 DEF Last
    <3>10. QED
      BY <2>1, <3>3, <3>5, <3>7, <3>9 DEF ScopeInv
  <2>5. QED
    BY <2>3, <2>4
<1>3. QED
  BY <1>1, <1>2 DEF WriteAuth, Refused, Settled, Go

\* Its own attempt's payload, or the one claim that a dead attempt left.
LEMMA ScopeCheckRecord ==
  ASSUME IInv, ScopeInv, ~single, NEW c \in Calls, CheckRecord(c)
  PROVE  ScopeInv'
<1> DEFINE x == req[c].payload
<1>0. /\ Typed /\ TypeOK /\ Held /\ Turns /\ Granted /\ Claimed /\ Asked /\ Last
      /\ pc[c] = "lockOp" /\ pc[c] \in Holding
      /\ UNCHANGED <<single, req, auth, scopeLock, dispatched>>
  BY DEF IInv, Typed, ScopeInv, Holding, CheckRecord, Answered, Settled, Go, history
<1>1. CASE rec[Op(c)] \in Crossed
  <2>1. pc' = [pc EXCEPT ![c] = "finish"] /\ rec' = rec
    BY <1>1 DEF CheckRecord, Crossed, Ambiguous, Answered, Settled, Go
  <2>2. pc[c] \in {"discard", "writeAuth", "lockOp", "accepted", "threw", "finish"}
    BY <1>0
  <2>3. QED
    BY <1>0, <2>1, <2>2, ScopeDone
<1>2. CASE rec[Op(c)] \notin Crossed
  <2>1. pc' = [pc EXCEPT ![c] = "send"] /\ rec' = [rec EXCEPT ![Op(c)] = "preflight"]
    BY <1>2 DEF CheckRecord, Crossed, Ambiguous, Go
  <2>2. /\ \A d \in Calls : pc'[d] = IF d = c THEN "send" ELSE pc[d]
        /\ \A d \in Calls : d # c => pc[d] \notin Holding /\ pc'[d] \notin Holding
        /\ \A a : Dead(a)' <=> Dead(a)
        /\ \A a : Requested(a)' = Requested(a)
        /\ Op(c) = x /\ x \in Payloads /\ x \in Ops
        /\ req[c].attempt \in Attempts /\ ~Dead(req[c].attempt)
        /\ Held' /\ Turns'
    BY <1>0, <2>1, Holder
  <2>3. rec'[x] = "preflight" /\ \A y \in Ops : y # x => rec'[y] = rec[y]
    BY <1>0, <2>1, <2>2 DEF TypeOK
  <2>4. x \in auth.payloads /\ (Own(c) \/ (auth.sealed /\ rec[x] # "absent"))
    BY <1>0 DEF Granted
  <2>5. rec[x] \in {"absent", "preflight"}
    BY <1>0, <1>2, <2>2 DEF TypeOK, Statuses, Crossed
  <2>6. \A d \in Calls : pc[d] \notin {"send", "mark"}
    BY <1>0, <2>2 DEF Holding, InOperation
  <2>7. \A y \in Payloads : rec[y] = "preflight" =>
           /\ y \in auth.payloads /\ auth.origin \in Attempts /\ Dead(auth.origin)
           /\ \A z \in Payloads : rec[z] = "preflight" => z = y
    BY <1>0, <2>6 DEF Claimed
  <2>8. CASE Own(c)
    <3>1. auth.origin \in Attempts /\ ~Dead(auth.origin)
      BY <2>2, <2>8 DEF Own
    <3>2. \A y \in Payloads : rec[y] # "preflight"
      BY <2>7, <3>1
    <3>3. \A y \in Payloads : rec'[y] = "preflight" => y = x
      BY <2>3, <3>2, Numbers
    <3>4. Granted'
      BY <1>0, <2>2, <2>3, <2>4, <2>8, <3>1 DEF Granted, Own, Holding, InOperation
    <3>5. Claimed'
      BY <1>0, <2>2, <2>4, <3>1, <3>3 DEF Claimed
    <3>6. Last'
      BY <1>0, <3>1 DEF Last
    <3>7. QED
      BY <1>0, <2>2, <3>4, <3>5, <3>6 DEF ScopeInv, Asked
  <2>9. CASE ~Own(c)
    <3>1. rec[x] = "preflight"
      BY <2>4, <2>5, <2>9
    <3>2. auth.origin \in Attempts /\ Dead(auth.origin)
      BY <2>2, <2>7, <3>1
    <3>3. \A y \in Payloads : rec'[y] = rec[y]
      BY <2>3, <3>1, Numbers
    <3>4. Granted'
      BY <1>0, <2>2, <2>3, <2>4, <3>2 DEF Granted, Own, Holding, InOperation
    <3>5. Claimed'
      BY <1>0, <2>2, <2>7, <3>3 DEF Claimed
    <3>6. Last'
      BY <1>0, <2>2, <3>1 DEF Last
    <3>7. QED
      BY <1>0, <2>2, <3>4, <3>5, <3>6 DEF ScopeInv, Asked
  <2>10. QED
    BY <2>8, <2>9
<1>3. QED
  BY <1>1, <1>2

LEMMA ScopePreflightFails ==
  ASSUME IInv, ScopeInv, ~single, NEW c \in Calls, PreflightFails(c)
  PROVE  ScopeInv'
<1> DEFINE x == req[c].payload
<1>0. /\ Typed /\ TypeOK /\ Held /\ Turns /\ Granted /\ Claimed /\ Asked /\ Last
      /\ pc[c] = "send" /\ pc[c] \in Holding
      /\ pc' = [pc EXCEPT ![c] = "finish"] /\ rec' = [rec EXCEPT ![Op(c)] = "absent"]
      /\ UNCHANGED <<single, req, auth, scopeLock, dispatched>>
  BY DEF IInv, Typed, ScopeInv, Holding, InOperation, PreflightFails, Answered, Settled, Go,
         history, locks
<1>1. /\ \A d \in Calls : pc'[d] = IF d = c THEN "finish" ELSE pc[d]
      /\ \A d \in Calls : d # c => pc[d] \notin Holding /\ pc'[d] \notin Holding
      /\ \A a : Dead(a)' <=> Dead(a)
      /\ \A a : Requested(a)' = Requested(a)
      /\ Op(c) = x /\ x \in Payloads /\ x \in Ops
      /\ Held' /\ Turns'
  BY <1>0, Holder
<1>2. rec'[x] = "absent" /\ \A y \in Ops : y # x => rec'[y] = rec[y]
  BY <1>0, <1>1 DEF TypeOK
<1>3. \A y \in Payloads : rec'[y] # "preflight"
  BY <1>0, <1>1, <1>2, Numbers DEF Granted, Claimed
<1>4. \A d \in Calls : pc'[d] \notin Holding \ {"finish"}
  BY <1>1 DEF Holding, InOperation
<1>5. Granted'
  BY <1>4 DEF Granted, Holding, InOperation
<1>6. Claimed' /\ Asked'
  BY <1>0, <1>1, <1>3 DEF Claimed, Asked
<1>7. Last'
  BY <1>0, <1>1, <1>3, <1>4 DEF Last, Holding, InOperation
<1>8. QED
  BY <1>1, <1>5, <1>6, <1>7 DEF ScopeInv

LEMMA ScopeSeal ==
  ASSUME IInv, ScopeInv, ~single, NEW c \in Calls, Seal(c)
  PROVE  ScopeInv'
<1> DEFINE x == req[c].payload
<1>0. /\ Held /\ Turns /\ Granted /\ Claimed /\ Asked /\ Last /\ auth \in Ledgers
      /\ pc[c] = "send" /\ pc[c] \in Holding /\ pc' = [pc EXCEPT ![c] = "mark"]
      /\ auth' = [auth EXCEPT !.sealed = TRUE]
      /\ UNCHANGED <<single, req, rec, scopeLock, dispatched>>
  BY LedgerType DEF IInv, Typed, ScopeInv, Holding, InOperation, Seal, Go, history, locks
<1>1. auth'.origin = auth.origin /\ auth'.payloads = auth.payloads /\ auth'.sealed
  BY <1>0 DEF Ledgers
<1>2. /\ \A d \in Calls : pc'[d] = IF d = c THEN "mark" ELSE pc[d]
      /\ \A d \in Calls : d # c => pc[d] \notin Holding /\ pc'[d] \notin Holding
      /\ \A a : Dead(a)' <=> Dead(a)
      /\ \A a : Requested(a)' = Requested(a)
      /\ x \in Payloads /\ Held' /\ Turns'
  BY <1>0, Holder
<1>3. Granted'
  BY <1>0, <1>1, <1>2 DEF Granted, Own, Holding, InOperation
<1>4. Claimed'
  <2>1. SUFFICES ASSUME NEW y \in Payloads, rec[y] = "preflight", ~Dead(auth.origin)
                 PROVE  \E d \in Calls : pc'[d] \in {"send", "mark"} /\ req'[d].payload = y
    BY <1>0, <1>1, <1>2 DEF Claimed
  <2>2. PICK d \in Calls : pc[d] \in {"send", "mark"} /\ req[d].payload = y
    BY <1>0, <2>1 DEF Claimed
  <2>3. pc'[d] \in {"send", "mark"}
    BY <1>2, <2>2
  <2>4. QED
    BY <1>0, <2>2, <2>3
<1>5. Asked' /\ Last'
  BY <1>0, <1>1, <1>2 DEF Asked, Last
<1>6. QED
  BY <1>2, <1>3, <1>4, <1>5 DEF ScopeInv

LEMMA ScopeMark ==
  ASSUME IInv, ScopeInv, ~single, NEW c \in Calls, Mark(c)
  PROVE  ScopeInv'
<1> DEFINE x == req[c].payload
<1>0. /\ TypeOK /\ Held /\ Turns /\ Granted /\ Claimed /\ Asked /\ Last
      /\ pc[c] = "mark" /\ pc[c] \in Holding /\ pc' = [pc EXCEPT ![c] = "dispatch"]
      /\ rec' = [rec EXCEPT ![Op(c)] = "dispatching"]
      /\ UNCHANGED <<single, req, auth, scopeLock, dispatched>>
  BY DEF IInv, Typed, ScopeInv, Holding, InOperation, Mark, Go, history, locks
<1>1. /\ \A d \in Calls : pc'[d] = IF d = c THEN "dispatch" ELSE pc[d]
      /\ \A d \in Calls : d # c => pc[d] \notin Holding /\ pc'[d] \notin Holding
      /\ \A a : Dead(a)' <=> Dead(a)
      /\ \A a : Requested(a)' = Requested(a)
      /\ Op(c) = x /\ x \in Payloads /\ x \in Ops /\ Held' /\ Turns'
  BY <1>0, Holder
<1>2. rec'[x] = "dispatching" /\ \A y \in Ops : y # x => rec'[y] = rec[y]
  BY <1>0, <1>1 DEF TypeOK
<1>3. \A y \in Payloads : rec'[y] # "preflight"
  BY <1>0, <1>1, <1>2, Numbers DEF Granted, Claimed
<1>4. Granted'
  BY <1>0, <1>1, <1>3 DEF Granted, Own, Holding, InOperation
<1>5. Claimed' /\ Asked' /\ Last'
  BY <1>0, <1>1, <1>3 DEF Claimed, Asked, Last
<1>6. QED
  BY <1>1, <1>4, <1>5 DEF ScopeInv

LEMMA ScopeDispatch ==
  ASSUME IInv, ScopeInv, ~single, NEW c \in Calls, Accept(c) \/ Reject(c)
  PROVE  ScopeInv'
<1>0. /\ Held /\ Turns /\ Granted /\ Claimed /\ Asked /\ Last
      /\ pc[c] = "dispatch" /\ pc[c] \in Holding
      /\ dispatched' = dispatched \cup {<<req[c].attempt, req[c].payload>>}
      /\ UNCHANGED <<single, req, rec, auth, scopeLock>>
  BY DEF ScopeInv, Holding, InOperation, Accept, Reject, Go, disk, locks
<1>1. PICK to \in {"accepted", "threw"} : pc' = [pc EXCEPT ![c] = to]
  BY DEF Accept, Reject, Go
<1>2. /\ \A d \in Calls : pc'[d] = IF d = c THEN to ELSE pc[d]
      /\ \A d \in Calls : d # c => pc[d] \notin Holding /\ pc'[d] \notin Holding
      /\ \A a : Dead(a)' <=> Dead(a)
      /\ \A a : Requested(a)' = Requested(a)
      /\ Held' /\ Turns'
  BY <1>0, <1>1, Holder
<1>3. \A d \in Calls : pc'[d] \notin {"discard", "writeAuth", "lockOp", "send", "mark", "dispatch"}
  BY <1>1, <1>2 DEF Holding, InOperation
<1>4. \A d \in Calls : pc[d] \notin {"send", "mark"}
  BY <1>0, <1>2 DEF Holding, InOperation
<1>5. Granted'
  BY <1>3 DEF Granted
<1>6. Claimed' /\ Asked'
  BY <1>0, <1>2, <1>4 DEF Claimed, Asked
<1>7. Last'
  <2>1. auth.sealed /\ auth.origin \in Attempts
    BY <1>0 DEF Granted
  <2>2. \A e \in dispatched : e[1] = auth.origin
    BY <1>0 DEF Last
  <2>3. ASSUME NEW e \in dispatched', e[1] # auth.origin
        PROVE  Dead(auth.origin) /\ \A y \in Payloads : rec[y] # "preflight"
    BY <1>0, <2>2, <2>3 DEF Granted, Own
  <2>4. QED
    BY <1>0, <1>2, <1>3, <2>1, <2>3 DEF Last
<1>8. QED
  BY <1>2, <1>5, <1>6, <1>7 DEF ScopeInv

LEMMA ScopeCrash ==
  ASSUME IInv, ScopeInv, ~single, NEW p \in Procs, Crash(p)
  PROVE  ScopeInv'
<1>0. /\ Typed /\ TypeOK /\ Named /\ Held /\ Turns /\ Granted /\ Claimed /\ Asked /\ Last
  BY DEF IInv, Typed, ScopeInv
<1>1. /\ UNCHANGED <<single, req, rec, auth, dispatched>>
      /\ \A c \in Calls : pc'[c] = IF req[c].proc = p /\ pc[c] # "ended" THEN "lost" ELSE pc[c]
      /\ scopeLock' = IF scopeLock # None /\ req[scopeLock].proc = p THEN None ELSE scopeLock
  BY DEF Crash, disk, history
<1>2. \A c \in Calls : pc'[c] \in Holding => pc'[c] = pc[c] /\ req[c].proc # p
  BY <1>1 DEF Holding, InOperation
<1>3. /\ \A a : Dead(a) => Dead(a)'
      /\ \A a : Requested(a)' = Requested(a)
  BY <1>1 DEF Dead, Requested
<1>4. Held'
  BY <1>0, <1>1, <1>2 DEF Held
<1>5. \A c \in Calls : pc'[c] # "idle" <=> pc[c] # "idle"
  BY <1>0, <1>1, NoneAssumption DEF Named
<1>6. Turns'
  <2>1. ASSUME NEW c \in Calls, NEW d \in Calls, pc'[c] # "idle", pc'[d] # "idle",
               req[d].attempt = req[c].attempt
        PROVE  /\ req[d].proc = req[c].proc
               /\ pc'[c] = "lost" => pc'[d] \in {"lost", "ended"}
    <3>1. /\ req[d].proc = req[c].proc
          /\ pc[c] = "lost" => pc[d] \in {"lost", "ended"}
      BY <1>0, <1>5, <2>1 DEF Turns
    <3>2. QED
      BY <1>1, <3>1
  <2>2. QED
    BY <1>0, <1>1, <1>5, <2>1 DEF Turns
<1>7. Granted'
  BY <1>0, <1>1, <1>2, <1>3 DEF Granted, Own, HasAuth, Holding, InOperation
<1>8. Claimed'
  <2>1. SUFFICES ASSUME NEW y \in Payloads, rec[y] = "preflight", ~Dead(auth.origin)'
                 PROVE  \E d \in Calls : pc'[d] \in {"send", "mark"} /\ req'[d].payload = y
    BY <1>0, <1>1 DEF Claimed
  <2>2. ~Dead(auth.origin)
    BY <1>1, <1>3, <2>1
  <2>3. PICK d \in Calls : pc[d] \in {"send", "mark"} /\ req[d].payload = y
    BY <1>0, <2>1, <2>2 DEF Claimed
  <2>4. Own(d)
    BY <1>0, <2>2, <2>3 DEF Granted
  <2>5. pc'[d] # "lost"
    BY <1>1, <2>1, <2>4 DEF Own, Dead
  <2>6. QED
    BY <1>1, <2>3, <2>5
<1>9. Asked'
  BY <1>0, <1>1, <1>3 DEF Asked
<1>10. Last'
  BY <1>0, <1>1, <1>2, <1>3 DEF Last, Holding, InOperation
<1>11. QED
  BY <1>4, <1>6, <1>7, <1>8, <1>9, <1>10 DEF ScopeInv

LEMMA ScopeStep == IInv /\ ScopeInv /\ [Next]_vars => ScopeInv'
<1> SUFFICES ASSUME IInv, ScopeInv, [Next]_vars PROVE ScopeInv'
  OBVIOUS
<1>0. CASE single
  <2>1. single' = single
    BY DEF Next, Step, vars, Begin, Joined, LockTimeout, CheckAuth, Discard, WriteAuth,
           CheckRecord, PreflightFails, Seal, Mark, Accept, Reject, RecordOutcome,
           Finish, Crash
  <2>2. QED
    BY <1>0, <2>1 DEF ScopeInv
<1>a. CASE ~single
  <2> USE <1>a
  <2>0. Typed /\ TypeOK /\ Named
    BY DEF IInv, Typed
  <2>1. ASSUME NEW c \in Calls, NEW p \in Procs, NEW a \in Attempts, NEW x \in Payloads,
               Begin(c, p, a, x)
        PROVE  ScopeInv'
    BY <2>1, ScopeBegin
  <2>2. ASSUME NEW c \in Calls, Joined(c) PROVE ScopeInv'
    <3>1. /\ pc[c] = "joined" /\ pc' = [pc EXCEPT ![c] = "ended"]
          /\ UNCHANGED <<single, req, rec, auth, scopeLock, dispatched>>
      BY <2>2 DEF Joined, Go, disk, locks, history
    <3>2. QED
      BY <2>0, <3>1, Bystander DEF Holding, InOperation
  <2>3. ASSUME NEW c \in Calls, LockTimeout(c) PROVE ScopeInv'
    <3>1. /\ UNCHANGED <<single, req, rec, auth, scopeLock, dispatched>>
          /\ \/ pc[c] = "lockScope" /\ pc' = [pc EXCEPT ![c] = "ended"]
             \/ pc[c] = "lockOp" /\ pc' = [pc EXCEPT ![c] = "finish"]
      BY <2>3 DEF LockTimeout, Refused, Answered, Settled, Go, disk, locks, history
    <3>2. CASE pc[c] = "lockScope"
      BY <2>0, <3>1, <3>2, Bystander DEF Holding, InOperation
    <3>3. CASE pc[c] = "lockOp"
      BY <3>1, <3>3, ScopeDone
    <3>4. QED
      BY <3>1, <3>2, <3>3
  <2>4. ASSUME NEW c \in Calls, CheckAuth(c) PROVE ScopeInv'
    BY <2>4, ScopeCheckAuth
  <2>5. ASSUME NEW c \in Calls, Discard(c) \/ WriteAuth(c) PROVE ScopeInv'
    BY <2>5, ScopeDiscard, ScopeWriteAuth
  <2>6. ASSUME NEW c \in Calls, CheckRecord(c) \/ PreflightFails(c) PROVE ScopeInv'
    BY <2>6, ScopeCheckRecord, ScopePreflightFails
  <2>7. ASSUME NEW c \in Calls, Seal(c) \/ Mark(c) \/ Accept(c) \/ Reject(c) PROVE ScopeInv'
    BY <2>7, ScopeSeal, ScopeMark, ScopeDispatch
  <2>8. ASSUME NEW c \in Calls, RecordOutcome(c) PROVE ScopeInv'
    <3>1. /\ pc[c] \in {"accepted", "threw"} /\ pc' = [pc EXCEPT ![c] = "finish"]
          /\ rec' = [rec EXCEPT ![Op(c)] = Outcome[pc[c]]]
          /\ UNCHANGED <<single, req, auth, scopeLock, dispatched>>
      BY <2>8 DEF RecordOutcome, Answered, Settled, Go, locks, history
    <3>2. Outcome["accepted"] \in Crossed /\ Outcome["threw"] \in Crossed
      BY DEF Outcome, Crossed
    <3>3. \A y \in Payloads : rec'[y] = rec[y] \/ rec'[y] \in Crossed
      BY <2>0, <3>1, <3>2, Numbers DEF TypeOK
    <3>4. pc[c] \in {"discard", "writeAuth", "lockOp", "accepted", "threw", "finish"}
      BY <3>1
    <3>5. QED
      BY <3>1, <3>3, <3>4, ScopeDone
  <2>9. ASSUME NEW c \in Calls, Finish(c) PROVE ScopeInv'
    <3>1. /\ pc[c] = "finish" /\ pc' = [pc EXCEPT ![c] = "ended"]
          /\ UNCHANGED <<single, req, rec, dispatched>>
      BY <2>9 DEF Finish, Go, history
    <3>2. \/ auth' = auth
          \/ /\ auth' = NoAuth /\ ~auth.sealed
             /\ \A y \in Payloads : rec[y] # "preflight"
      BY <2>9, Numbers DEF Finish
    <3>3. pc[c] \in {"discard", "writeAuth", "lockOp", "accepted", "threw", "finish"}
      BY <3>1
    <3>4. QED
      BY <3>1, <3>2, <3>3, ScopeDone
  <2>10. ASSUME NEW p \in Procs, Crash(p) PROVE ScopeInv'
    BY <2>10, ScopeCrash
  <2>11. CASE UNCHANGED vars
    BY <2>11 DEF vars, disk, locks, history, ScopeInv, Held, Turns, Granted, Claimed, Asked,
                 Last, Dead, Own, HasAuth, Requested
  <2>12. QED
    BY <2>1, <2>2, <2>3, <2>4, <2>5, <2>6, <2>7, <2>8, <2>9, <2>10, <2>11 DEF Next, Step
<1>b. QED
  BY <1>0, <1>a

\* At the dispatch the scope's grant says whose ledger it is.
LEMMA NothingAdded ==
  ASSUME IInv, ScopeInv, ~single, NEW c \in Calls, Accept(c) \/ Reject(c),
         NEW a \in Attempts, NEW x \in Payloads, <<a, x>> \in dispatched' \ dispatched,
         NEW e \in dispatched, e[1] < a
  PROVE  \E b \in 1..(a - 1) : x \in Requested(b)
<1>0. /\ Granted /\ Asked /\ Last /\ TypeOK
      /\ pc[c] = "dispatch" /\ a = req[c].attempt /\ x = req[c].payload
  BY DEF IInv, Typed, ScopeInv, Accept, Reject, Go
<1>1. /\ x \in auth.payloads /\ auth.origin \in Attempts
      /\ x \in Requested(auth.origin)
  BY <1>0 DEF Granted, Asked
<1>2. e[1] = auth.origin
  BY <1>0 DEF Last
<1>3. auth.origin \in 1..(a - 1)
  BY <1>1, <1>2, CountsAssumption DEF Attempts
<1>4. QED
  BY <1>1, <1>3

\* A Retry adds nothing, provided that no record an older version left is still
\* a claim in preflight.  (The model's Requested knows the attempts of this
\* version only: a claim of an older attempt is replayed, as it should be, and
\* no attempt the model sees has asked for it.)
THEOREM NothingIsAdded ==
  ASSUME "preflight" \notin OldStatuses
  PROVE  Spec => RetryAddsNothing
<1>1. Init => ScopeInv
  <2> SUFFICES ASSUME Init, ~single PROVE ScopeInv
    BY DEF ScopeInv
  <2>1. \A c \in Calls : pc[c] = "idle" /\ req[c].attempt = None
    BY DEF Init
  <2>2. \A y \in Payloads : rec[y] # "preflight"
    BY Numbers DEF Init
  <2>3. auth.origin \notin Attempts /\ dispatched = {}
    BY Numbers DEF Init, NoAuth
  <2>4. QED
    BY <2>1, <2>2, <2>3 DEF ScopeInv, Held, Turns, Granted, Claimed, Asked, Last, Holding,
                            InOperation
<1>2. Spec => []ScopeInv
  BY <1>1, Invariance, ScopeStep, PTL DEF Spec
<1>3. IInv /\ ScopeInv /\ [Next]_vars =>
        \A a \in Attempts, x \in Payloads :
           /\ <<a, x>> \in dispatched' \ dispatched /\ ~single
           /\ \E e \in dispatched : e[1] < a
           => \E b \in 1..(a - 1) : x \in Requested(b)
  <2> SUFFICES ASSUME IInv, ScopeInv, [Next]_vars, ~single,
                      NEW a \in Attempts, NEW x \in Payloads,
                      <<a, x>> \in dispatched' \ dispatched,
                      NEW e \in dispatched, e[1] < a
               PROVE  \E b \in 1..(a - 1) : x \in Requested(b)
    OBVIOUS
  <2>1. PICK c \in Calls : Accept(c) \/ Reject(c)
    BY DEF Next, Step, vars, history, Begin, Joined, LockTimeout, CheckAuth, Discard,
           WriteAuth, CheckRecord, PreflightFails, Seal, Mark, RecordOutcome, Finish, Crash
  <2>2. QED
    BY <2>1, NothingAdded
<1>4. QED
  BY <1>2, <1>3, Invariance, PTL DEF Spec, RetryAddsNothing
=============================================================================
