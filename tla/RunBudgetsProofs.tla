-------------------------- MODULE RunBudgetsProofs --------------------------
(***************************************************************************)
(* The properties of RunBudgets, for any sets of runs and processes, any   *)
(* numbers of spans, requests, calls and continuations, and any            *)
(* allowances: first who works on what (IInv), from which the action       *)
(* properties follow, then the sums of usage and reservations (Metered),   *)
(* and the types (Typed).                                                  *)
(***************************************************************************)
EXTENDS RunBudgets, FiniteSetTheorems, WellFoundedInduction, TLAPS

Receipt == [gen : Nat, status : {"started", "done", "retry_authorized"}]

\* The types of what the properties speak of.
RunsShape ==
    /\ DOMAIN run = Runs
    /\ \A r \in Runs : DOMAIN run[r] = {"status", "limit", "used"}
SpansShape ==
    span \in [Spans -> [run : Runs \cup {None}, status : RunStatuses, gen : Nat,
                        owner : Procs \cup {None}, actions : Seq(Receipt)]]
RequestsShape ==
    /\ request \in [Requests -> [span : Spans \cup {None}, estimate : Nat,
                                 status : {"none", "reserved", "uncertain", "settled"}]]
    /\ \A q \in Requests : request[q].status # "none" => request[q].span \in Spans
StreamsShape ==
    /\ DOMAIN stream = Spans
    /\ \A s \in Spans :
          /\ DOMAIN stream[s] = {"pc", "bounded", "request", "exit"}
          /\ stream[s].pc \in {"off", "authorized", "on", "closing", "finish"}
          /\ stream[s].exit \in Final \cup {"paused"}
          /\ stream[s].request # None =>
                stream[s].request \in Requests /\ request[stream[s].request].span \in Spans
Shape == RunsShape /\ SpansShape /\ RequestsShape /\ StreamsShape

\* Saved work belongs to a run.
SpansHaveRuns == \A s \in Spans : span[s].status # "none" => RunOf(s) \in Runs

\* What is in a process's memory is of a live process, and of saved work.
StreamsLive ==
    \A s \in Spans : stream[s].pc # "off" => Owned(s) /\ span[s].status # "none"

\* Nothing but its own turn takes a span out of "running" while that turn goes on.
TurnsRun ==
    \A s \in Spans : stream[s].pc \in {"on", "closing", "finish"} => span[s].status = "running"

\* All work of a stopped run has ended.
StoppedRest ==
    \A r \in Runs : run[r].status = "cancelled" => \A s \in SpansOf(r) : span[s].status \in Final

\* A call is executed after every earlier one was allowed to be repeated, or
\* finished in the same generation.
InOrder(actions) ==
    \A i, j \in DOMAIN actions : i < j =>
        \/ actions[i].status = "retry_authorized"
        \/ actions[i].status = "done" /\ actions[i].gen = actions[j].gen
ReceiptsInOrder == \A s \in Spans : InOrder(Calls(s))

IInv == Shape /\ SpansHaveRuns /\ StreamsLive /\ TurnsRun /\ StoppedRest /\ ReceiptsInOrder

-----------------------------------------------------------------------------
\* A non-empty set of positions of a sequence has a last one.
LEMMA LastPosition ==
  ASSUME NEW n \in Nat, NEW K, K \subseteq 1..n, K # {}
  PROVE  \E j \in K : \A i \in K : i <= j
<1> DEFINE R == OpToRel(<, Nat)
<1>1. R = {pair \in Nat \X Nat : pair[1] < pair[2]}
  BY Zenon DEF OpToRel
<1>2. IsWellFoundedOn(R, Nat)
  BY NatLessThanWellFounded DEF R
<1> HIDE DEF R
<1> DEFINE T == {n - k : k \in K}
<1>3. T \subseteq Nat /\ T # {}
  <2>1. \A k \in K : k \in Nat /\ k <= n
    OBVIOUS
  <2>2. ASSUME NEW k \in K PROVE n - k \in Nat
    BY <2>1
  <2>3. QED
    BY <2>2
<1>4. \E x \in T : \A y \in T : ~(<<y, x>> \in R)
  <2> HIDE DEF T
  <2>1. QED
    BY <1>2, <1>3, WFMin
<1>5. PICK j \in K : \A i \in K : ~(<<n - i, n - j>> \in R)
  BY <1>4
<1>6. ASSUME NEW i \in K PROVE i <= j
  <2>1. i \in Nat /\ i <= n /\ j \in Nat /\ j <= n
    OBVIOUS
  <2>2. n - i \in Nat /\ n - j \in Nat
    BY <2>1
  <2>3. ~(n - i < n - j)
    BY <1>1, <1>5, <2>2
  <2>4. QED
    BY <2>1, <2>3
<1>7. QED
  BY <1>6

\* What beginBudgetAction's search for the last receipt amounts to.
LEMMA MayExecuteAll ==
  ASSUME Shape, ReceiptsInOrder, NEW s \in Spans, MayExecute(s), NEW i \in DOMAIN Calls(s)
  PROVE  \/ Calls(s)[i].status = "retry_authorized"
         \/ Calls(s)[i].status = "done" /\ Calls(s)[i].gen = span[s].gen
<1> DEFINE K == {k \in DOMAIN Calls(s) : Calls(s)[k].status # "retry_authorized"}
<1>1. SUFFICES ASSUME i \in K
               PROVE  Calls(s)[i].status = "done" /\ Calls(s)[i].gen = span[s].gen
  OBVIOUS
<1>2. Calls(s) \in Seq(Receipt)
  BY DEF Calls, Shape, SpansShape
<1>3. PICK j \in K : \A k \in K : k <= j
  <2> HIDE DEF K
  <2>1. K \subseteq 1..Len(Calls(s)) /\ Len(Calls(s)) \in Nat
    BY <1>2 DEF K
  <2>2. QED
    BY <2>1, <1>1, LastPosition
<1>4. Calls(s)[j] \in Prior(s)
  BY <1>3 DEF Prior
<1>5. Calls(s)[j].status = "done" /\ Calls(s)[j].gen = span[s].gen
  BY <1>4 DEF MayExecute
<1>6. CASE i = j
  BY <1>5, <1>6
<1>7. CASE i # j
  <2>1. i < j /\ i \in DOMAIN Calls(s) /\ j \in DOMAIN Calls(s)
    BY <1>1, <1>2, <1>3, <1>7
  <2>2. QED
    BY <2>1, <1>1, <1>5 DEF ReceiptsInOrder, InOrder
<1>8. QED
  BY <1>6, <1>7

-----------------------------------------------------------------------------
\* The run of a turn that goes on exists and was not stopped.
LEMMA TurnOfRun ==
  ASSUME IInv, NEW s \in Spans, stream[s].pc \in {"on", "closing", "finish"}
  PROVE  /\ RunOf(s) \in Runs /\ span[s].status = "running" /\ span[s].owner \in alive
         /\ run[RunOf(s)].status # "cancelled"
<1>1. span[s].status = "running" /\ span[s].owner \in alive
  BY DEF IInv, TurnsRun, StreamsLive, Owned
<1>2. RunOf(s) \in Runs
  BY <1>1 DEF IInv, SpansHaveRuns
<1>3. s \in SpansOf(RunOf(s))
  BY DEF SpansOf, RunOf
<1>4. QED
  BY <1>1, <1>2, <1>3 DEF IInv, StoppedRest, Final

\* Work that waits or is paused is of a run that was not stopped.
LEMMA RunNotStopped ==
  ASSUME IInv, NEW s \in Spans, span[s].status \in {"running", "ready", "paused"}
  PROVE  RunOf(s) \in Runs /\ run[RunOf(s)].status # "cancelled" /\ s \in SpansOf(RunOf(s))
<1>1. RunOf(s) \in Runs
  BY DEF IInv, SpansHaveRuns
<1>2. s \in SpansOf(RunOf(s))
  BY DEF SpansOf, RunOf
<1>3. QED
  BY <1>1, <1>2 DEF IInv, StoppedRest, Final

\* A step that changes no span and stops no run may move turns on or end them.
LEMMA SpansKept ==
  ASSUME IInv, Shape', UNCHANGED <<span, alive>>,
         \A s \in Spans : \/ stream'[s].pc \in {"off", stream[s].pc}
                          \/ /\ stream[s].pc \in {"on", "closing", "finish"}
                             /\ stream'[s].pc \in {"on", "closing", "finish"},
         \A r \in Runs : run'[r].status = "cancelled" => run[r].status = "cancelled"
  PROVE  IInv'
<1>1. SpansHaveRuns'
  BY DEF IInv, SpansHaveRuns, RunOf
<1>2. StreamsLive'
  BY DEF IInv, StreamsLive, Owned
<1>3. TurnsRun'
  BY DEF IInv, TurnsRun
<1>4. StoppedRest'
  BY DEF IInv, StoppedRest, SpansOf
<1>5. ReceiptsInOrder'
  BY DEF IInv, ReceiptsInOrder, InOrder, Calls
<1>6. QED
  BY <1>1, <1>2, <1>3, <1>4, <1>5 DEF IInv

-----------------------------------------------------------------------------
(* Steps of a turn                                                         *)

LEMMA StoppedStep ==
  ASSUME IInv, NEW s \in Spans, Stopped(s)
  PROVE  IInv'
<1>1. RunsShape' /\ SpansShape'
  BY DEF IInv, Shape, RunsShape, SpansShape, Stopped, On, Leave, ledger
<1>2. RequestsShape'
  BY DEF IInv, Shape, RequestsShape, StreamsShape, Stopped, On, Leave, ledger
<1>3. StreamsShape'
  BY DEF IInv, Shape, RequestsShape, StreamsShape, Final, Stopped, On, Leave, ledger
<1>4. QED
  BY <1>1, <1>2, <1>3, SpansKept DEF IInv, Shape, RunsShape, StreamsShape, Stopped, On, Leave, ledger

LEMMA RefusedStep ==
  ASSUME IInv, NEW s \in Spans, Refused(s)
  PROVE  IInv'
<1>1. RunsShape' /\ SpansShape'
  BY DEF IInv, Shape, RunsShape, SpansShape, Refused, On, Leave, Pause
<1>2. RequestsShape'
  BY DEF IInv, Shape, RequestsShape, StreamsShape, Refused, On, Leave, Pause
<1>3. StreamsShape'
  BY DEF IInv, Shape, RequestsShape, StreamsShape, Final, Refused, On, Leave, Pause
<1>4. QED
  BY <1>1, <1>2, <1>3, SpansKept DEF IInv, Shape, RunsShape, StreamsShape, Refused, On, Leave, Pause

LEMMA ReserveStep ==
  ASSUME IInv, NEW s \in Spans, NEW q \in Requests, NEW estimate \in 1..MaxEstimate,
         Reserve(s, q, estimate)
  PROVE  IInv'
<1>1. RunsShape' /\ SpansShape'
  BY DEF IInv, Shape, RunsShape, SpansShape, Reserve, On
<1>2. RequestsShape'
  <2>1. estimate \in Nat
    BY BoundsAssumption
  <2>2. QED
    BY <2>1 DEF IInv, Shape, RequestsShape, Reserve
<1>3. StreamsShape'
  BY DEF IInv, Shape, RequestsShape, StreamsShape, Reserve, On
<1>4. QED
  BY <1>1, <1>2, <1>3, SpansKept DEF IInv, Shape, RunsShape, StreamsShape, Reserve, On

LEMMA SettleStep ==
  ASSUME IInv, NEW s \in Spans, NEW amount, Settle(s, amount)
  PROVE  IInv'
<1>1. RunsShape' /\ SpansShape'
  BY DEF IInv, Shape, RunsShape, SpansShape, Settle, On, LeaveWithout
<1>2. RequestsShape'
  BY DEF IInv, Shape, RequestsShape, StreamsShape, Settle, On, LeaveWithout
<1>3. StreamsShape'
  BY DEF IInv, Shape, RequestsShape, StreamsShape, Final, Settle, On, LeaveWithout
<1>4. QED
  BY <1>1, <1>2, <1>3, SpansKept DEF IInv, Shape, RunsShape, StreamsShape, Settle, On, LeaveWithout

LEMMA SettleUnknownStep ==
  ASSUME IInv, NEW s \in Spans, SettleUnknown(s)
  PROVE  IInv'
<1>1. RunsShape' /\ SpansShape'
  BY DEF IInv, Shape, RunsShape, SpansShape, SettleUnknown, Uncertain, Pause, On, LeaveWithout
<1>2. RequestsShape'
  BY DEF IInv, Shape, RequestsShape, StreamsShape, SettleUnknown, Uncertain, Pause, On, LeaveWithout
<1>3. StreamsShape'
  BY DEF IInv, Shape, RequestsShape, StreamsShape, Final, SettleUnknown, Uncertain, Pause, On, LeaveWithout
<1>4. QED
  BY <1>1, <1>2, <1>3, SpansKept DEF IInv, Shape, RunsShape, StreamsShape, SettleUnknown, Uncertain, Pause, On, LeaveWithout

LEMMA SettleFailsStep ==
  ASSUME IInv, NEW s \in Spans, SettleFails(s)
  PROVE  IInv'
<1>1. RunsShape' /\ SpansShape'
  BY DEF IInv, Shape, RunsShape, SpansShape, SettleFails, On, LeaveWithout, ledger
<1>2. RequestsShape'
  BY DEF IInv, Shape, RequestsShape, StreamsShape, SettleFails, On, LeaveWithout, ledger
<1>3. StreamsShape'
  BY DEF IInv, Shape, RequestsShape, StreamsShape, Final, SettleFails, On, LeaveWithout, ledger
<1>4. QED
  BY <1>1, <1>2, <1>3, SpansKept DEF IInv, Shape, RunsShape, StreamsShape, SettleFails, On, LeaveWithout, ledger

LEMMA EndTurnStep ==
  ASSUME IInv, NEW s \in Spans, NEW exit, EndTurn(s, exit)
  PROVE  IInv'
<1>1. RunsShape' /\ SpansShape'
  BY DEF IInv, Shape, RunsShape, SpansShape, EndTurn, On, Leave, ledger
<1>2. RequestsShape'
  BY DEF IInv, Shape, RequestsShape, StreamsShape, EndTurn, On, Leave, ledger
<1>3. StreamsShape'
  BY DEF IInv, Shape, RequestsShape, StreamsShape, Final, EndTurn, On, Leave, ledger
<1>4. QED
  BY <1>1, <1>2, <1>3, SpansKept DEF IInv, Shape, RunsShape, StreamsShape, EndTurn, On, Leave, ledger

LEMMA CloseProviderStep ==
  ASSUME IInv, NEW s \in Spans, CloseProvider(s)
  PROVE  IInv'
<1>1. RunsShape' /\ SpansShape'
  BY DEF IInv, Shape, RunsShape, SpansShape, CloseProvider, Uncertain, Pause
<1>2. RequestsShape'
  BY DEF IInv, Shape, RequestsShape, StreamsShape, CloseProvider, Uncertain, Pause
<1>3. StreamsShape'
  BY DEF IInv, Shape, RequestsShape, StreamsShape, CloseProvider, Uncertain, Pause
<1>4. QED
  BY <1>1, <1>2, <1>3, SpansKept DEF IInv, Shape, RunsShape, StreamsShape, CloseProvider, Uncertain, Pause

LEMMA ResumeRefusedStep ==
  ASSUME IInv, NEW s \in Spans, ResumeRefused(s)
  PROVE  IInv'
<1>1. RunsShape' /\ SpansShape'
  BY DEF IInv, Shape, RunsShape, SpansShape, ResumeRefused, Awaited, Off, ledger
<1>2. RequestsShape'
  BY DEF IInv, Shape, RequestsShape, StreamsShape, ResumeRefused, Awaited, Off, ledger
<1>3. StreamsShape'
  BY DEF IInv, Shape, RequestsShape, StreamsShape, Final, ResumeRefused, Awaited, Off, ledger
<1>4. QED
  BY <1>1, <1>2, <1>3, SpansKept DEF IInv, Shape, RunsShape, StreamsShape, ResumeRefused, Awaited, Off, ledger

\* reconcileUnknownUsage changes no more of a reservation than its status.
LEMMA Reconciled ==
  ASSUME IInv, NEW r \in Runs, Reconcile(r)
  PROVE  /\ RequestsShape'
         /\ \A q \in Requests : request'[q].span = request[q].span
         /\ \A q \in ReservedBy(r) : request'[q].status = "settled"
         /\ \A q \in Requests \ ReservedBy(r) : request'[q] = request[q]
<1>1. \A q \in Requests :
        request'[q] = IF q \in ReservedBy(r) THEN [request[q] EXCEPT !.status = "settled"]
                      ELSE request[q]
  BY DEF Reconcile
<1>2. \A q \in ReservedBy(r) : q \in Requests /\ request[q].status # "none"
  BY DEF ReservedBy, Reserved
<1>3. DOMAIN request' = Requests /\ request' = [q \in Requests |-> request'[q]]
  BY DEF Reconcile
<1>4. \A q \in Requests :
        /\ request'[q] \in [span : Spans \cup {None}, estimate : Nat,
                            status : {"none", "reserved", "uncertain", "settled"}]
        /\ request'[q].span = request[q].span
        /\ request'[q].status # "none" => request[q].status # "none"
  BY <1>1, <1>2 DEF IInv, Shape, RequestsShape
<1>5. RequestsShape'
  BY <1>3, <1>4 DEF IInv, Shape, RequestsShape
<1>6. \A q \in ReservedBy(r) : request'[q].status = "settled"
  BY <1>1, <1>2 DEF IInv, Shape, RequestsShape
<1>7. QED
  BY <1>1, <1>4, <1>5, <1>6

LEMMA SpanLimitStep ==
  ASSUME IInv, NEW r \in Runs, SpanLimit(r)
  PROVE  IInv'
<1>1. Shape'
  BY DEF IInv, Shape, RunsShape, SpansShape, RequestsShape, StreamsShape, SpanLimit, Pause
<1>2. QED
  BY <1>1, SpansKept DEF IInv, Shape, RunsShape, SpanLimit, Pause

LEMMA AcceptUsageStep ==
  ASSUME IInv, NEW r \in Runs, AcceptUsage(r)
  PROVE  IInv'
<1>1. RequestsShape' /\ \A q \in Requests : request'[q].span = request[q].span
  BY Reconciled DEF AcceptUsage
<1>2. RunsShape' /\ SpansShape'
  BY DEF IInv, Shape, RunsShape, SpansShape, AcceptUsage
<1>3. StreamsShape'
  BY <1>1 DEF IInv, Shape, StreamsShape, AcceptUsage
<1>4. QED
  BY <1>1, <1>2, <1>3, SpansKept DEF IInv, Shape, RunsShape, StreamsShape, AcceptUsage

LEMMA SetRunBudgetStep ==
  ASSUME IInv, NEW r \in Runs, NEW limit, SetRunBudget(r, limit)
  PROVE  IInv'
<1>1. Shape'
  BY DEF IInv, Shape, RunsShape, SpansShape, RequestsShape, StreamsShape, SetRunBudget
<1>2. QED
  BY <1>1, SpansKept DEF IInv, Shape, RunsShape, SetRunBudget

LEMMA SetProjectBudgetStep ==
  ASSUME IInv, NEW limit, SetProjectBudget(limit)
  PROVE  IInv'
<1>1. Shape'
  BY DEF IInv, Shape, RunsShape, SpansShape, RequestsShape, StreamsShape, SetProjectBudget
<1>2. QED
  BY <1>1, SpansKept DEF IInv, Shape, SetProjectBudget

-----------------------------------------------------------------------------
(* Steps that change spans                                                 *)

LEMMA BeginStep ==
  ASSUME IInv, NEW s \in Spans, NEW r \in Runs, NEW p \in Procs, NEW limit,
         Begin(s, r, p, limit)
  PROVE  IInv'
<1>1. RunsShape' /\ SpansShape'
  <2>1. RunsShape'
    BY DEF IInv, Shape, RunsShape, Begin
  <2>2. SpansShape'
    BY DEF IInv, Shape, SpansShape, Begin, RunStatuses
  <2>3. QED
    BY <2>1, <2>2
<1>2. RequestsShape' /\ StreamsShape'
  BY NoneAssumption DEF IInv, Shape, RequestsShape, StreamsShape, Begin, NextSpan, TakesWork, RunStatuses, Final
<1>3. SpansHaveRuns'
  BY NoneAssumption DEF IInv, Shape, SpansShape, SpansHaveRuns, RunOf, Begin, NextSpan, TakesWork, RunStatuses, Final
<1>4. StreamsLive'
  BY NoneAssumption DEF IInv, Shape, SpansShape, StreamsShape, StreamsLive, Owned, Begin, NextSpan, TakesWork, RunStatuses, Final
<1>5. TurnsRun'
  BY NoneAssumption DEF IInv, Shape, SpansShape, StreamsShape, TurnsRun, Begin, NextSpan, TakesWork, RunStatuses, Final
<1>6. StoppedRest'
  BY NoneAssumption DEF IInv, Shape, RunsShape, SpansShape, StoppedRest, SpansOf, Begin, NextSpan, TakesWork, RunStatuses, Final
<1>7. ReceiptsInOrder'
  BY NoneAssumption DEF IInv, Shape, SpansShape, ReceiptsInOrder, InOrder, Calls, Begin, NextSpan, TakesWork, RunStatuses, Final
<1>8. QED
  BY <1>1, <1>2, <1>3, <1>4, <1>5, <1>6, <1>7 DEF IInv, Shape

LEMMA BeginActionStep ==
  ASSUME IInv, NEW s \in Spans, BeginAction(s)
  PROVE  IInv'
<1> DEFINE call == [gen |-> span[s].gen, status |-> "started"]
<1>0. /\ Calls(s) \in Seq(Receipt) /\ call \in Receipt
      /\ span' = [span EXCEPT ![s].actions = Append(Calls(s), call)]
  BY DEF IInv, Shape, SpansShape, BeginAction, Calls, Receipt
<1>1. RunsShape' /\ SpansShape'
  <2>1. Append(Calls(s), call) \in Seq(Receipt)
    BY <1>0
  <2>2. SpansShape'
    BY <1>0, <2>1 DEF IInv, Shape, SpansShape
  <2>3. QED
    BY <2>2 DEF IInv, Shape, RunsShape, BeginAction
<1>2. RequestsShape' /\ StreamsShape'
  BY DEF IInv, Shape, RequestsShape, StreamsShape, BeginAction, On, Receipt
<1>3. SpansHaveRuns'
  BY DEF IInv, Shape, SpansShape, SpansHaveRuns, RunOf, BeginAction, On, Receipt
<1>4. StreamsLive'
  BY DEF IInv, Shape, SpansShape, StreamsShape, StreamsLive, Owned, BeginAction, On, Receipt
<1>5. TurnsRun'
  BY DEF IInv, Shape, SpansShape, StreamsShape, TurnsRun, BeginAction, On, Receipt
<1>6. StoppedRest'
  BY DEF IInv, Shape, RunsShape, SpansShape, StoppedRest, SpansOf, BeginAction, On, Receipt
<1>7. ReceiptsInOrder'
  <2>1. \A t \in Spans : Calls(t)' = IF t = s THEN Append(Calls(s), call) ELSE Calls(t)
    BY <1>0 DEF IInv, Shape, SpansShape, Calls
  <2>2. \A i \in DOMAIN Calls(s) :
          Calls(s)[i].status = "retry_authorized" \/ (Calls(s)[i].status = "done" /\ Calls(s)[i].gen = call.gen)
    BY MayExecuteAll DEF IInv, BeginAction
  <2>3. InOrder(Append(Calls(s), call))
    <3>1. InOrder(Calls(s))
      BY DEF IInv, ReceiptsInOrder
    <3> HIDE DEF call
    <3>2. QED
      BY <1>0, <2>2, <3>1 DEF InOrder
  <2>4. QED
    BY <2>1, <2>3 DEF IInv, ReceiptsInOrder
<1>8. QED
  BY <1>1, <1>2, <1>3, <1>4, <1>5, <1>6, <1>7 DEF IInv, Shape

LEMMA FinishActionStep ==
  ASSUME IInv, NEW s \in Spans, FinishAction(s)
  PROVE  IInv'
<1> DEFINE i == Len(Calls(s))
           actions == [Calls(s) EXCEPT ![i].status = "done"]
<1>0. /\ Calls(s) \in Seq(Receipt) /\ i \in DOMAIN Calls(s)
      /\ span' = [span EXCEPT ![s].actions = actions]
  BY DEF IInv, Shape, SpansShape, FinishAction, Calls
<1>1. RunsShape' /\ SpansShape'
  <2>1. actions \in Seq(Receipt)
    <3> DEFINE n == Len(Calls(s))
    <3>1. n \in Nat /\ i \in 1..n /\ Calls(s) \in [1..n -> Receipt]
      BY <1>0
    <3>2. [Calls(s)[i] EXCEPT !.status = "done"] \in Receipt
      BY <3>1 DEF Receipt
    <3> HIDE DEF n
    <3>3. actions \in [1..n -> Receipt]
      BY <3>1, <3>2
    <3>4. QED
      BY <3>1, <3>3
  <2>2. SpansShape'
    BY <1>0, <2>1 DEF IInv, Shape, SpansShape
  <2>3. QED
    BY <2>2 DEF IInv, Shape, RunsShape, FinishAction
<1>2. RequestsShape' /\ StreamsShape'
  BY DEF IInv, Shape, RequestsShape, StreamsShape, FinishAction, On, Receipt
<1>3. SpansHaveRuns'
  BY DEF IInv, Shape, SpansShape, SpansHaveRuns, RunOf, FinishAction, On, Receipt
<1>4. StreamsLive'
  BY DEF IInv, Shape, SpansShape, StreamsShape, StreamsLive, Owned, FinishAction, On, Receipt
<1>5. TurnsRun'
  BY DEF IInv, Shape, SpansShape, StreamsShape, TurnsRun, FinishAction, On, Receipt
<1>6. StoppedRest'
  BY DEF IInv, Shape, RunsShape, SpansShape, StoppedRest, SpansOf, FinishAction, On, Receipt
<1>7. ReceiptsInOrder'
  <2>1. \A t \in Spans : Calls(t)' = IF t = s THEN actions ELSE Calls(t)
    BY <1>0 DEF IInv, Shape, SpansShape, Calls
  <2>2. InOrder(actions)
    <3>1. InOrder(Calls(s))
      BY DEF IInv, ReceiptsInOrder
    <3>2. QED
      BY <1>0, <3>1 DEF InOrder, Receipt
  <2>3. QED
    BY <2>1, <2>2 DEF IInv, ReceiptsInOrder
<1>8. QED
  BY <1>1, <1>2, <1>3, <1>4, <1>5, <1>6, <1>7 DEF IInv, Shape

\* finishBudgetSpan of work that has not ended.
LEMMA SpanFinishes ==
  ASSUME IInv, NEW s \in Spans, NEW exit \in Final \cup {"paused"},
         span[s].status \in {"running", "ready", "paused"}, FinishSpan(s, exit)
  PROVE  /\ RunsShape' /\ SpansShape' /\ SpansHaveRuns' /\ StoppedRest' /\ ReceiptsInOrder'
         /\ \A t \in Spans : span'[t] = IF t = s THEN [span[s] EXCEPT !.status = SpanOutcome(s, exit)]
                                       ELSE span[t]
         /\ \A r \in Runs : r # RunOf(s) => run'[r] = run[r]
         /\ \/ /\ run'[RunOf(s)].status = exit
               /\ \A t \in SpansOf(RunOf(s)) : span'[t].status \in Final
            \/ run'[RunOf(s)].status \in {"paused", run[RunOf(s)].status}
<1> DEFINE r == RunOf(s)
           status == SpanOutcome(s, exit)
<1>1. r \in Runs /\ run[r].status # "cancelled" /\ s \in SpansOf(r)
  BY RunNotStopped
<1>2. status \in RunStatuses
  BY DEF SpanOutcome, RunStatuses
<1> HIDE DEF status
<1>3. /\ span' = [span EXCEPT ![s].status = status]
      /\ \A t \in Spans : span'[t] = IF t = s THEN [span[s] EXCEPT !.status = status] ELSE span[t]
  BY DEF FinishSpan, status, IInv, Shape, SpansShape
<1>4. SpansShape' /\ \A t \in Spans : /\ span'[t].run = span[t].run
                                      /\ span'[t].actions = span[t].actions
                                      /\ t # s => span'[t].status = span[t].status
  BY <1>2, <1>3 DEF IInv, Shape, SpansShape
<1>5. \A x \in Runs : SpansOf(x)' = SpansOf(x)
  BY <1>4 DEF SpansOf
<1>6. /\ \A x \in Runs : x # r => run'[x] = run[x]
      /\ RunsShape'
      /\ \/ run'[r].status = exit /\ {span'[t].status : t \in SpansOf(r)} \subseteq Final
         \/ run'[r].status \in {"paused", run[r].status}
  BY <1>1 DEF FinishSpan, IInv, Shape, RunsShape
<1>7. \/ run'[r].status = exit /\ \A t \in SpansOf(r) : span'[t].status \in Final
      \/ run'[r].status \in {"paused", run[r].status}
  BY <1>6
<1>8. SpansHaveRuns'
  BY <1>1, <1>4 DEF IInv, SpansHaveRuns, RunOf
<1>9. StoppedRest'
  <2>1. SUFFICES ASSUME NEW x \in Runs, run'[x].status = "cancelled", NEW t \in SpansOf(x)'
                 PROVE  span'[t].status \in Final
    BY DEF StoppedRest
  <2>2. CASE x = r
    BY <1>1, <1>5, <1>7, <2>1, <2>2
  <2>3. CASE x # r
    <3>1. run[x].status = "cancelled" /\ t \in SpansOf(x) /\ t \in Spans
      BY <1>5, <1>6, <2>1, <2>3 DEF SpansOf
    <3>2. t # s
      BY <1>1, <2>3, <3>1 DEF SpansOf, RunOf
    <3>3. QED
      BY <1>4, <3>1, <3>2 DEF IInv, StoppedRest
  <2>4. QED
    BY <2>2, <2>3
<1>10. ReceiptsInOrder'
  BY <1>4 DEF IInv, ReceiptsInOrder, Calls
<1>11. QED
  BY <1>3, <1>4, <1>6, <1>7, <1>8, <1>9, <1>10 DEF status

LEMMA FinishStep ==
  ASSUME IInv, NEW s \in Spans, Finish(s)
  PROVE  IInv'
<1>1. RequestsShape' /\ StreamsShape' /\ stream[s].exit \in Final \cup {"paused"}
  BY DEF IInv, Shape, RequestsShape, StreamsShape, Finish, Off, Final
<1>2. span[s].status = "running"
  BY TurnOfRun DEF Finish
<1>3. CASE FinishSpan(s, stream[s].exit)
  <2>1. /\ RunsShape' /\ SpansShape' /\ SpansHaveRuns' /\ StoppedRest' /\ ReceiptsInOrder'
        /\ \A t \in Spans : t # s => span'[t] = span[t]
    BY <1>1, <1>2, <1>3, SpanFinishes
  <2>2. \A t \in Spans : stream'[t].pc = IF t = s THEN "off" ELSE stream[t].pc
    BY DEF Finish, Off, IInv, Shape, StreamsShape
  <2>3. StreamsLive' /\ TurnsRun'
    BY <2>1, <2>2 DEF Finish, IInv, StreamsLive, TurnsRun, Owned
  <2>4. QED
    BY <1>1, <2>1, <2>3 DEF IInv, Shape
<1>4. CASE UNCHANGED <<run, span>>
  <2>1. Shape'
    BY <1>1, <1>4 DEF IInv, Shape, RunsShape, SpansShape
  <2>2. QED
    BY <1>4, <2>1, SpansKept DEF Finish, Off, IInv, Shape, StreamsShape
<1>5. QED
  BY <1>3, <1>4 DEF Finish

LEMMA CrashStep ==
  ASSUME IInv, NEW p \in Procs, Crash(p)
  PROVE  IInv'
<1>1. RunsShape' /\ SpansShape'
  BY DEF IInv, Shape, RunsShape, SpansShape, Crash, Off, ledger
<1>2. RequestsShape' /\ StreamsShape'
  BY DEF IInv, Shape, RequestsShape, StreamsShape, Final, Crash, Off, ledger
<1>3. SpansHaveRuns'
  BY DEF IInv, Shape, SpansShape, SpansHaveRuns, RunOf, Crash, Off, ledger
<1>4. StreamsLive'
  BY DEF IInv, Shape, SpansShape, StreamsShape, StreamsLive, Owned, Crash, Off, ledger
<1>5. TurnsRun'
  BY DEF IInv, Shape, SpansShape, StreamsShape, TurnsRun, Crash, Off, ledger
<1>6. StoppedRest'
  BY DEF IInv, Shape, RunsShape, SpansShape, StoppedRest, SpansOf, Crash, Off, ledger
<1>7. ReceiptsInOrder'
  BY DEF IInv, Shape, SpansShape, ReceiptsInOrder, InOrder, Calls, Crash, Off, ledger
<1>8. QED
  BY <1>1, <1>2, <1>3, <1>4, <1>5, <1>6, <1>7 DEF IInv, Shape

LEMMA RecoverStep ==
  ASSUME IInv, Recover
  PROVE  IInv'
<1>1. RunsShape' /\ SpansShape'
  BY DEF IInv, Shape, RunsShape, SpansShape, Recover, Interrupted, Retained, RunStatuses, Final
<1>2. RequestsShape' /\ StreamsShape'
  <2>1. request' \in [Requests -> [span : Spans \cup {None}, estimate : Nat,
                                  status : {"none", "reserved", "uncertain", "settled"}]]
    BY DEF IInv, Shape, RequestsShape, Recover, Retained
  <2>2. \A q \in Requests : /\ request'[q].span = request[q].span
                            /\ request'[q].status # request[q].status => q \in Reserved
    BY DEF IInv, Shape, RequestsShape, Recover, Retained
  <2>3. RequestsShape'
    BY <2>1, <2>2 DEF IInv, Shape, RequestsShape, Reserved
  <2>4. QED
    BY <2>2, <2>3 DEF IInv, Shape, StreamsShape, Recover
<1>3. SpansHaveRuns'
  BY DEF IInv, Shape, SpansShape, SpansHaveRuns, RunOf, Recover, Interrupted, Retained, RunStatuses, Final
<1>4. StreamsLive'
  <2>1. \A t \in Spans : /\ span'[t].owner = span[t].owner
                         /\ span[t].status # "none" => span'[t].status # "none"
    BY DEF IInv, Shape, SpansShape, Recover
  <2>2. QED
    BY <2>1 DEF IInv, StreamsLive, Recover, Owned
<1>5. TurnsRun'
  BY DEF IInv, Shape, SpansShape, StreamsShape, StreamsLive, TurnsRun, Recover, Interrupted
<1>6. StoppedRest'
  BY DEF IInv, Shape, RunsShape, SpansShape, StoppedRest, SpansOf, Recover, Interrupted, Retained, RunStatuses, Final
<1>7. ReceiptsInOrder'
  BY DEF IInv, Shape, SpansShape, ReceiptsInOrder, InOrder, Calls, Recover, Interrupted, Retained, RunStatuses, Final
<1>8. QED
  BY <1>1, <1>2, <1>3, <1>4, <1>5, <1>6, <1>7 DEF IInv, Shape

LEMMA AuthorizeStep ==
  ASSUME IInv, NEW s \in Spans, NEW p \in Procs, NEW extra, NEW projectExtra, NEW removeLimits,
         Authorize(s, p, extra, projectExtra, removeLimits)
  PROVE  IInv'
<1> DEFINE r == RunOf(s)
<1>1. /\ span[s].status = "paused" /\ p \in alive
      /\ r \in Runs /\ Reconcile(r) /\ UNCHANGED alive
  BY RunNotStopped DEF Authorize
<1>2. RequestsShape' /\ \A q \in Requests : request'[q].span = request[q].span
  BY <1>1, Reconciled
<1>3. /\ RunsShape' /\ run'[r].status = "ready"
      /\ \A x \in Runs : x # r => run'[x] = run[x]
  BY <1>1 DEF IInv, Shape, RunsShape, Authorize
<1>4. StreamsShape' /\ \A t \in Spans : stream'[t].pc = IF t = s THEN "authorized" ELSE stream[t].pc
  BY <1>2 DEF IInv, Shape, StreamsShape, Authorize
<1>5. PICK repeat \in SUBSET DOMAIN Calls(s) :
        span' = [span EXCEPT ![s] = Continued(@, p, repeat)]
  BY DEF Authorize
<1>6. Calls(s) \in Seq(Receipt)
  BY DEF IInv, Shape, SpansShape, Calls
<1> DEFINE actions == Reviewed(Calls(s), repeat)
<1>7. /\ DOMAIN actions = DOMAIN Calls(s) /\ actions \in Seq(Receipt)
      /\ \A i \in DOMAIN Calls(s) : /\ actions[i].gen = Calls(s)[i].gen
                                    /\ Calls(s)[i].status # "started" => actions[i] = Calls(s)[i]
  <2> DEFINE n == Len(Calls(s))
  <2>1. n \in Nat /\ DOMAIN Calls(s) = 1..n /\ Calls(s) \in [1..n -> Receipt]
    BY <1>6
  <2> HIDE DEF n
  <2>2. \A i \in 1..n : /\ actions[i] \in Receipt /\ actions[i].gen = Calls(s)[i].gen
                        /\ Calls(s)[i].status # "started" => actions[i] = Calls(s)[i]
    BY <2>1 DEF Reviewed, Resolution, Receipt
  <2>3. actions \in [1..n -> Receipt]
    BY <2>1, <2>2 DEF Reviewed
  <2>4. QED
    BY <2>1, <2>2, <2>3
<1> HIDE DEF actions
<1>8. /\ span' = [t \in Spans |-> span'[t]]
      /\ \A t \in Spans : t # s => span'[t] = span[t]
      /\ span'[s] = [run |-> span[s].run, status |-> "ready", gen |-> span[s].gen + 1, owner |-> p,
                     actions |-> actions]
  <2>1. \A t \in Spans : t # s => span'[t] = span[t]
    BY <1>5 DEF IInv, Shape, SpansShape
  <2>2. span' = [t \in Spans |-> span'[t]]
    BY <1>5 DEF IInv, Shape, SpansShape
  <2>3. span'[s] = Continued(span[s], p, repeat)
    BY <1>5 DEF IInv, Shape, SpansShape
  <2>4. QED
    BY <2>1, <2>2, <2>3 DEF Continued, actions, Calls, IInv, Shape, SpansShape
<1>9. SpansShape'
  <2>1. span'[s] \in [run : Runs \cup {None}, status : RunStatuses, gen : Nat,
                      owner : Procs \cup {None}, actions : Seq(Receipt)]
    BY <1>7, <1>8 DEF IInv, Shape, SpansShape, RunStatuses
  <2>2. QED
    BY <1>8, <2>1 DEF IInv, Shape, SpansShape
<1>10. \A t \in Spans :
         /\ span'[t].run = span[t].run
         /\ t # s => span'[t] = span[t]
         /\ span'[s].status = "ready" /\ span'[s].owner = p /\ span'[s].actions = actions
  BY <1>8 DEF IInv, Shape, SpansShape
<1>11. SpansHaveRuns'
  BY <1>1, <1>10 DEF IInv, SpansHaveRuns, RunOf
<1>12. StreamsLive' /\ TurnsRun'
  BY <1>1, <1>4, <1>10 DEF IInv, StreamsLive, TurnsRun, Owned
<1>13. StoppedRest'
  BY <1>1, <1>3, <1>10 DEF IInv, StoppedRest, SpansOf, RunOf
<1>14. ReceiptsInOrder'
  <2>1. InOrder(Calls(s))
    BY DEF IInv, ReceiptsInOrder
  <2>2. InOrder(actions)
    BY <1>7, <2>1 DEF InOrder
  <2>3. QED
    BY <1>10, <2>2 DEF IInv, ReceiptsInOrder, Calls
<1>15. QED
  BY <1>2, <1>3, <1>4, <1>9, <1>11, <1>12, <1>13, <1>14 DEF IInv, Shape

LEMMA ResumeStep ==
  ASSUME IInv, NEW s \in Spans, Resume(s)
  PROVE  IInv'
<1>1. RunsShape' /\ SpansShape'
  BY DEF IInv, Shape, RunsShape, SpansShape, Resume, Awaited, RunStatuses, Final
<1>2. RequestsShape' /\ StreamsShape'
  BY DEF IInv, Shape, RequestsShape, StreamsShape, Resume, Awaited, RunStatuses, Final
<1>3. SpansHaveRuns'
  BY DEF IInv, Shape, SpansShape, SpansHaveRuns, RunOf, Resume, Awaited, RunStatuses, Final
<1>4. StreamsLive'
  BY DEF IInv, Shape, SpansShape, StreamsShape, StreamsLive, Owned, Resume, Awaited, RunStatuses, Final
<1>5. TurnsRun'
  BY DEF IInv, Shape, SpansShape, StreamsShape, TurnsRun, Resume, Awaited, RunStatuses, Final
<1>6. StoppedRest'
  BY DEF IInv, Shape, RunsShape, SpansShape, StoppedRest, SpansOf, Resume, Awaited, RunStatuses, Final
<1>7. ReceiptsInOrder'
  BY DEF IInv, Shape, SpansShape, ReceiptsInOrder, InOrder, Calls, Resume, Awaited, RunStatuses, Final
<1>8. QED
  BY <1>1, <1>2, <1>3, <1>4, <1>5, <1>6, <1>7 DEF IInv, Shape

LEMMA ContinuationFailsStep ==
  ASSUME IInv, NEW s \in Spans, ContinuationFails(s)
  PROVE  IInv'
<1>1. RunsShape' /\ SpansShape'
  BY DEF IInv, Shape, RunsShape, SpansShape, ContinuationFails, Pause, RunStatuses
<1>2. RequestsShape' /\ StreamsShape'
  BY DEF IInv, Shape, RequestsShape, StreamsShape, ContinuationFails, Off, Final
<1>3. RunOf(s) \in Runs
  BY DEF IInv, StreamsLive, SpansHaveRuns, ContinuationFails, Awaited
<1>4. \A t \in Spans : /\ span'[t].run = span[t].run /\ span'[t].owner = span[t].owner
                       /\ span'[t].actions = span[t].actions
                       /\ span'[t].status = IF t = s THEN "paused" ELSE span[t].status
                       /\ stream'[t].pc = IF t = s THEN "off" ELSE stream[t].pc
  BY DEF IInv, Shape, SpansShape, StreamsShape, ContinuationFails, Off
<1>5. SpansHaveRuns'
  BY <1>3, <1>4 DEF IInv, SpansHaveRuns, RunOf
<1>6. StreamsLive' /\ TurnsRun'
  BY <1>4 DEF IInv, StreamsLive, TurnsRun, Owned, ContinuationFails
<1>7. StoppedRest'
  BY <1>3, <1>4 DEF IInv, Shape, RunsShape, StoppedRest, SpansOf, RunOf, ContinuationFails, Pause
<1>8. ReceiptsInOrder'
  BY <1>4 DEF IInv, ReceiptsInOrder, Calls
<1>9. QED
  BY <1>1, <1>2, <1>5, <1>6, <1>7, <1>8 DEF IInv, Shape

LEMMA StopStep ==
  ASSUME IInv, NEW s \in Spans, Stop(s)
  PROVE  IInv'
<1>1. RequestsShape' /\ StreamsShape'
  BY DEF IInv, Shape, RequestsShape, StreamsShape, Stop
<1>2. span[s].status \in {"ready", "paused"}
  BY DEF Stop
<1>3. /\ RunsShape' /\ SpansShape' /\ SpansHaveRuns' /\ StoppedRest' /\ ReceiptsInOrder'
      /\ \A t \in Spans : span'[t] = IF t = s THEN [span[s] EXCEPT !.status = SpanOutcome(s, "cancelled")]
                                    ELSE span[t]
  BY <1>2, SpanFinishes DEF Stop, Final
<1>4. \A t \in Spans : /\ span'[t].owner = span[t].owner
                       /\ span'[t].status = IF t = s THEN "cancelled" ELSE span[t].status
  BY <1>3 DEF IInv, Shape, SpansShape, SpanOutcome
<1>5. StreamsLive' /\ TurnsRun'
  BY <1>2, <1>4 DEF Stop, IInv, StreamsLive, TurnsRun, Owned
<1>6. QED
  BY <1>1, <1>3, <1>5 DEF IInv, Shape

-----------------------------------------------------------------------------
(* The specification                                                       *)

LEMMA Initially == Init => IInv
<1> SUFFICES ASSUME Init PROVE IInv
  OBVIOUS
<1>1. Shape
  BY NoneAssumption DEF Init, Shape, RunsShape, SpansShape, RequestsShape, StreamsShape, Off,
     RunStatuses, Final, Receipt
<1>2. SpansHaveRuns /\ StreamsLive /\ TurnsRun /\ StoppedRest
  BY DEF Init, Off, SpansHaveRuns, StreamsLive, TurnsRun, StoppedRest
<1>3. ReceiptsInOrder
  BY DEF Init, ReceiptsInOrder, InOrder, Calls
<1>4. QED
  BY <1>1, <1>2, <1>3 DEF IInv

LEMMA TurnSteps ==
  ASSUME IInv, NEW s \in Spans, Turn(s)
  PROVE  IInv'
<1>1. CASE Stopped(s) \/ Refused(s)
  BY <1>1, StoppedStep, RefusedStep
<1>2. CASE \E q \in Requests, estimate \in 1..MaxEstimate : Reserve(s, q, estimate)
  BY <1>2, ReserveStep
<1>3. CASE \E amount \in 1..(MaxEstimate + Excess) : Settle(s, amount)
  BY <1>3, SettleStep
<1>4. CASE SettleUnknown(s) \/ SettleFails(s)
  BY <1>4, SettleUnknownStep, SettleFailsStep
<1>5. CASE BeginAction(s) \/ FinishAction(s)
  BY <1>5, BeginActionStep, FinishActionStep
<1>6. CASE \E exit \in Final : EndTurn(s, exit)
  BY <1>6, EndTurnStep
<1>7. CASE CloseProvider(s) \/ Finish(s)
  BY <1>7, CloseProviderStep, FinishStep
<1>8. QED
  BY <1>1, <1>2, <1>3, <1>4, <1>5, <1>6, <1>7 DEF Turn

LEMMA ReviewSteps ==
  ASSUME IInv, NEW s \in Spans, Review(s)
  PROVE  IInv'
<1>1. CASE \E p \in Procs, extra, projectExtra \in 0..1, removeLimits \in BOOLEAN :
             Authorize(s, p, extra, projectExtra, removeLimits)
  BY <1>1, AuthorizeStep
<1>2. CASE Resume(s) \/ ResumeRefused(s)
  BY <1>2, ResumeStep, ResumeRefusedStep
<1>3. CASE ContinuationFails(s) \/ Stop(s)
  BY <1>3, ContinuationFailsStep, StopStep
<1>4. QED
  BY <1>1, <1>2, <1>3 DEF Review

LEMMA Inductive == IInv /\ [Next]_vars => IInv'
<1> SUFFICES ASSUME IInv, [Next]_vars PROVE IInv'
  OBVIOUS
<1>1. CASE \E s \in Spans, r \in Runs, p \in Procs, limit \in {None} \cup 0..MaxLimit : Begin(s, r, p, limit)
  BY <1>1, BeginStep
<1>2. CASE \E s \in Spans : Turn(s) \/ Review(s)
  BY <1>2, TurnSteps, ReviewSteps
<1>3. CASE \E r \in Runs : SpanLimit(r) \/ AcceptUsage(r)
  BY <1>3, SpanLimitStep, AcceptUsageStep
<1>4. CASE \E r \in Runs, limit \in Limits : SetRunBudget(r, limit)
  BY <1>4, SetRunBudgetStep
<1>5. CASE \E limit \in Limits : SetProjectBudget(limit)
  BY <1>5, SetProjectBudgetStep
<1>6. CASE \E p \in Procs : Crash(p)
  BY <1>6, CrashStep
<1>7. CASE Recover
  BY <1>7, RecoverStep
<1>8. CASE UNCHANGED vars
  <2>1. Shape'
    BY <1>8 DEF IInv, Shape, RunsShape, SpansShape, RequestsShape, StreamsShape, vars, ledger
  <2>2. QED
    BY <1>8, <2>1, SpansKept DEF vars, ledger
<1>9. QED
  BY <1>1, <1>2, <1>3, <1>4, <1>5, <1>6, <1>7, <1>8 DEF Next

\* The inductive invariant of metered runs: who works on what, that stopped runs
\* have no work left, and the order of the receipts.
THEOREM Invariance == Spec => []IInv
<1>1. QED
  BY Initially, Inductive, PTL DEF Spec

-----------------------------------------------------------------------------
(* What a step may do to a run                                             *)

\* A pause and a stop end in no other way than the properties say.
RunMoves(r) ==
    \/ run'[r].status \in {run[r].status, "paused"}
    \/ run[r].status \notin {"paused", "cancelled"}
    \/ run[r].status = "paused" /\ run'[r].status = "ready" /\ ReservedBy(r)' = {}
    \/ /\ run[r].status = "paused" /\ run'[r].status \in {"error", "cancelled"}
       /\ \A s \in SpansOf(r)' : span'[s].status \in Final

LEMMA SpanFinishMoves ==
  ASSUME IInv, NEW s \in Spans, NEW exit \in Final \cup {"paused"}, NEW r \in Runs,
         span[s].status \in {"running", "ready", "paused"}, FinishSpan(s, exit)
  PROVE  RunMoves(r)
<1>1. CASE r # RunOf(s)
  BY <1>1, SpanFinishes DEF RunMoves
<1>2. CASE r = RunOf(s)
  <2>1. s \in SpansOf(r) /\ run[r].status # "cancelled"
    BY <1>2, RunNotStopped
  <2>2. /\ SpansOf(r)' = SpansOf(r)
        /\ span'[s].status = SpanOutcome(s, exit)
    <3>1. \A t \in Spans : span'[t] = IF t = s THEN [span[s] EXCEPT !.status = SpanOutcome(s, exit)]
                                      ELSE span[t]
      BY SpanFinishes
    <3>2. \A t \in Spans : span'[t].run = span[t].run
      BY <3>1 DEF IInv, Shape, SpansShape
    <3>3. span'[s].status = SpanOutcome(s, exit)
      BY <3>1 DEF IInv, Shape, SpansShape
    <3>4. QED
      BY <3>2, <3>3 DEF SpansOf
  <2>3. CASE run'[r].status \in {"paused", run[r].status}
    BY <2>3 DEF RunMoves
  <2>4. CASE run'[r].status = exit /\ \A t \in SpansOf(r) : span'[t].status \in Final
    <3>1. CASE run[r].status = "paused" /\ exit = "done"
      BY <1>2, <2>1, <2>2, <2>4, <3>1 DEF SpanOutcome, Final
    <3>2. CASE ~(run[r].status = "paused" /\ exit = "done")
      BY <2>1, <2>2, <2>4, <3>2 DEF RunMoves, Final
    <3>3. QED
      BY <3>1, <3>2
  <2>5. QED
    BY <1>2, <2>3, <2>4, SpanFinishes
<1>3. QED
  BY <1>1, <1>2

LEMMA TurnMoves ==
  ASSUME IInv, NEW s \in Spans, Turn(s), NEW r \in Runs
  PROVE  RunMoves(r)
<1> USE DEF IInv, Shape, RunsShape
<1>1. CASE Stopped(s)
  BY <1>1 DEF Stopped, ledger, RunMoves
<1>2. CASE Refused(s)
  BY <1>2 DEF Refused, Pause, RunMoves
<1>3. ASSUME NEW q \in Requests, NEW estimate \in 1..MaxEstimate, Reserve(s, q, estimate)
      PROVE  RunMoves(r)
  BY <1>3 DEF Reserve, RunMoves
<1>4. ASSUME NEW amount, Settle(s, amount) PROVE RunMoves(r)
  BY <1>4 DEF Settle, RunMoves
<1>5. CASE SettleUnknown(s) \/ CloseProvider(s)
  BY <1>5 DEF SettleUnknown, CloseProvider, Uncertain, Pause, RunMoves
<1>6. CASE SettleFails(s) \/ BeginAction(s) \/ FinishAction(s)
  BY <1>6 DEF SettleFails, BeginAction, FinishAction, ledger, RunMoves
<1>7. ASSUME NEW exit, EndTurn(s, exit) PROVE RunMoves(r)
  BY <1>7 DEF EndTurn, ledger, RunMoves
<1>8. CASE Finish(s)
  <2>1. span[s].status = "running" /\ stream[s].exit \in Final \cup {"paused"}
    BY <1>8, TurnOfRun DEF Finish, StreamsShape
  <2>2. CASE FinishSpan(s, stream[s].exit)
    BY <2>1, <2>2, SpanFinishMoves
  <2>3. CASE UNCHANGED run
    BY <2>3 DEF RunMoves
  <2>4. QED
    BY <1>8, <2>2, <2>3 DEF Finish
<1>9. QED
  BY <1>1, <1>2, <1>3, <1>4, <1>5, <1>6, <1>7, <1>8 DEF Turn

LEMMA ReviewMoves ==
  ASSUME IInv, NEW s \in Spans, Review(s), NEW r \in Runs
  PROVE  RunMoves(r)
<1> USE DEF IInv, Shape, RunsShape
<1>1. ASSUME NEW p \in Procs, NEW extra, NEW projectExtra, NEW removeLimits,
             Authorize(s, p, extra, projectExtra, removeLimits)
      PROVE  RunMoves(r)
  <2>1. /\ RunOf(s) \in Runs /\ Reconcile(RunOf(s)) /\ run[RunOf(s)].status = "paused"
        /\ r # RunOf(s) => run'[r] = run[r]
        /\ r = RunOf(s) => run'[r].status = "ready"
    BY <1>1, RunNotStopped DEF Authorize
  <2>2. CASE r # RunOf(s)
    BY <2>1, <2>2 DEF RunMoves
  <2>3. CASE r = RunOf(s)
    <3>1. PICK repeat : span' = [span EXCEPT ![s] = Continued(@, p, repeat)]
      BY <1>1 DEF Authorize
    <3>2. \A t \in Spans : RunOf(t)' = RunOf(t)
      BY <3>1 DEF RunOf, Continued, SpansShape
    <3>3. /\ \A q \in Requests : request'[q].span = request[q].span
          /\ \A q \in ReservedBy(r) : request'[q].status = "settled"
          /\ \A q \in Requests \ ReservedBy(r) : request'[q] = request[q]
      BY <2>1, <2>3, Reconciled
    <3>4. ReservedBy(r)' = {}
      <4>1. SUFFICES ASSUME NEW q \in Requests, request'[q].status \in {"reserved", "uncertain"},
                            (RunOf(request[q].span) = r)'
                     PROVE  FALSE
        BY DEF ReservedBy, Reserved
      <4>2. q \notin ReservedBy(r) /\ request'[q] = request[q] /\ request[q].span \in Spans
        BY <3>3, <4>1 DEF RequestsShape
      <4>3. RunOf(request[q].span) # r
        BY <4>1, <4>2 DEF ReservedBy, Reserved
      <4>4. QED
        BY <3>2, <4>1, <4>2, <4>3 DEF RunOf
    <3>5. QED
      BY <2>1, <2>3, <3>4 DEF RunMoves
  <2>4. QED
    BY <2>2, <2>3
<1>2. CASE Resume(s)
  BY <1>2 DEF Resume, RunMoves
<1>3. CASE ResumeRefused(s)
  BY <1>3 DEF ResumeRefused, ledger, RunMoves
<1>4. CASE ContinuationFails(s)
  BY <1>4 DEF ContinuationFails, Pause, RunMoves
<1>5. CASE Stop(s)
  <2>1. span[s].status \in {"running", "ready", "paused"} /\ FinishSpan(s, "cancelled")
    BY <1>5 DEF Stop
  <2>2. QED
    BY <2>1, SpanFinishMoves DEF Final
<1>6. QED
  BY <1>1, <1>2, <1>3, <1>4, <1>5 DEF Review

LEMMA Moves ==
  ASSUME IInv, [Next]_vars, NEW r \in Runs
  PROVE  RunMoves(r)
<1> USE DEF IInv, Shape, RunsShape
<1>1. ASSUME NEW s \in Spans, NEW x \in Runs, NEW p \in Procs, NEW limit, Begin(s, x, p, limit)
      PROVE  RunMoves(r)
  BY <1>1 DEF Begin, TakesWork, RunMoves
<1>2. ASSUME NEW s \in Spans, Turn(s) \/ Review(s) PROVE RunMoves(r)
  BY <1>2, TurnMoves, ReviewMoves
<1>3. ASSUME NEW x \in Runs, SpanLimit(x) \/ AcceptUsage(x) PROVE RunMoves(r)
  BY <1>3 DEF SpanLimit, AcceptUsage, Pause, RunMoves
<1>4. ASSUME NEW x \in Runs, NEW limit, SetRunBudget(x, limit) PROVE RunMoves(r)
  BY <1>4 DEF SetRunBudget, RunMoves
<1>5. ASSUME NEW limit, SetProjectBudget(limit) PROVE RunMoves(r)
  BY <1>5 DEF SetProjectBudget, RunMoves
<1>6. ASSUME NEW p \in Procs, Crash(p) PROVE RunMoves(r)
  BY <1>6 DEF Crash, ledger, RunMoves
<1>7. CASE Recover
  BY <1>7 DEF Recover, RunMoves
<1>8. CASE UNCHANGED vars
  BY <1>8 DEF vars, ledger, RunMoves
<1>9. QED
  BY <1>1, <1>2, <1>3, <1>4, <1>5, <1>6, <1>7, <1>8 DEF Next

\* A stopped run is not started again by new work, late requests, turns that
\* finish or authorizations.
THEOREM StoppedStaysStoppedAlways == Spec => StoppedStaysStopped
<1>1. IInv /\ [Next]_vars =>
        (\A r \in Runs : run[r].status = "cancelled" => run'[r].status \in {"cancelled", "paused"})
  BY Moves DEF RunMoves
<1>2. QED
  BY <1>1, Invariance, PTL DEF Spec, StoppedStaysStopped

\* A paused run goes on only when the user has authorized it and nothing of its
\* usage is unknown, or ends when all its work has failed or was stopped.
THEOREM PauseHoldsAlways == Spec => PauseHolds
<1>1. IInv /\ [Next]_vars =>
        (\A r \in Runs : run[r].status = "paused" =>
          \/ run'[r].status = "paused"
          \/ run'[r].status = "ready" /\ ReservedBy(r)' = {}
          \/ /\ run'[r].status \in {"error", "cancelled"}
             /\ \A s \in SpansOf(r)' : span'[s].status \in Final)
  BY Moves DEF RunMoves
<1>2. QED
  BY <1>1, Invariance, PTL DEF Spec, PauseHolds

-----------------------------------------------------------------------------
(* What a step may do to the receipts of a span                            *)

NoNewCall(s) == DOMAIN span'[s].actions = DOMAIN Calls(s)

\* beginBudgetAction is the only operation that adds a receipt.
LEMMA OnlyBeginActionCalls ==
  ASSUME IInv, [Next]_vars, NEW s \in Spans, ~BeginAction(s)
  PROVE  NoNewCall(s)
<1> USE DEF IInv, Shape, SpansShape, Calls, NoNewCall
<1>1. ASSUME NEW t \in Spans, NEW r \in Runs, NEW p \in Procs, NEW limit, Begin(t, r, p, limit)
      PROVE  NoNewCall(s)
  BY <1>1 DEF Begin
<1>2. ASSUME NEW t \in Spans, BeginAction(t) PROVE NoNewCall(s)
  BY <1>2 DEF BeginAction
<1>3. ASSUME NEW t \in Spans, FinishAction(t) PROVE NoNewCall(s)
  BY <1>3 DEF FinishAction
<1>4. ASSUME NEW t \in Spans, NEW status, span' = [span EXCEPT ![t].status = status]
      PROVE  NoNewCall(s)
  BY <1>4
<1>5. ASSUME NEW t \in Spans, NEW p \in Procs, NEW extra, NEW projectExtra, NEW removeLimits,
             Authorize(t, p, extra, projectExtra, removeLimits)
      PROVE  NoNewCall(s)
  <2>1. PICK repeat : span' = [span EXCEPT ![t] = Continued(@, p, repeat)]
    BY <1>5 DEF Authorize
  <2>2. CASE s = t
    <3>1. span'[s] = Continued(span[s], p, repeat)
      BY <2>1, <2>2
    <3>2. span'[s].actions = Reviewed(span[s].actions, repeat)
      BY <3>1 DEF Continued
    <3>3. QED
      BY <3>2 DEF Reviewed
  <2>3. CASE s # t
    BY <2>1, <2>3
  <2>4. QED
    BY <2>2, <2>3
<1>6. ASSUME NEW t \in Spans, Resume(t) \/ ContinuationFails(t) \/ Stop(t) \/ Finish(t)
      PROVE  NoNewCall(s)
  <2>1. (\E status : span' = [span EXCEPT ![t].status = status]) \/ span' = span
    BY <1>6, Zenon DEF Resume, ContinuationFails, Stop, Finish, FinishSpan
  <2>2. QED
    BY <1>4, <2>1
<1>7. CASE Recover
  BY <1>7 DEF Recover
<1>8. ASSUME UNCHANGED span PROVE NoNewCall(s)
  BY <1>8
<1>9. ASSUME NEW t \in Spans, Turn(t) PROVE NoNewCall(s)
  BY <1>2, <1>3, <1>6, <1>8, <1>9 DEF Turn, Stopped, Refused, Reserve, Settle, SettleUnknown,
     SettleFails, EndTurn, CloseProvider, ledger
<1>10. ASSUME NEW t \in Spans, Review(t) PROVE NoNewCall(s)
  BY <1>5, <1>6, <1>8, <1>10 DEF Review, ResumeRefused, ledger
<1>11. ASSUME NEW r \in Runs, SpanLimit(r) \/ AcceptUsage(r) PROVE NoNewCall(s)
  BY <1>8, <1>11 DEF SpanLimit, AcceptUsage
<1>12. ASSUME NEW r \in Runs, NEW limit, SetRunBudget(r, limit) PROVE NoNewCall(s)
  BY <1>8, <1>12 DEF SetRunBudget
<1>13. ASSUME NEW limit, SetProjectBudget(limit) PROVE NoNewCall(s)
  BY <1>8, <1>13 DEF SetProjectBudget
<1>14. ASSUME NEW p \in Procs, Crash(p) PROVE NoNewCall(s)
  BY <1>8, <1>14 DEF Crash, ledger
<1>15. CASE UNCHANGED vars
  BY <1>8, <1>15 DEF vars, ledger
<1>16. QED
  BY <1>1, <1>7, <1>9, <1>10, <1>11, <1>12, <1>13, <1>14, <1>15 DEF Next

\* No call is executed again unless the user allowed it, whatever crashes, pauses
\* and continuations came between.
THEOREM NoBlindRepeatAlways == Spec => NoBlindRepeat
<1>1. IInv /\ [Next]_vars =>
        (\A s \in Spans : Len(span'[s].actions) > Len(span[s].actions) =>
          \A i \in DOMAIN Calls(s) :
             \/ Calls(s)[i].status = "retry_authorized"
             \/ Calls(s)[i].status = "done" /\ Calls(s)[i].gen = span[s].gen)
  <2> SUFFICES ASSUME IInv, [Next]_vars, NEW s \in Spans,
                      Len(span'[s].actions) > Len(span[s].actions), NEW i \in DOMAIN Calls(s)
               PROVE  \/ Calls(s)[i].status = "retry_authorized"
                      \/ Calls(s)[i].status = "done" /\ Calls(s)[i].gen = span[s].gen
    OBVIOUS
  <2>1. CASE BeginAction(s)
    BY <2>1, MayExecuteAll DEF IInv, BeginAction
  <2>2. CASE ~BeginAction(s)
    <3>1. DOMAIN span'[s].actions = DOMAIN span[s].actions
      BY <2>2, OnlyBeginActionCalls DEF NoNewCall, Calls
    <3>2. span[s].actions \in Seq(Receipt) /\ span'[s].actions \in Seq(Receipt)
      BY Inductive DEF IInv, Shape, SpansShape
    <3>3. Len(span'[s].actions) = Len(span[s].actions) /\ Len(span[s].actions) \in Nat
      BY <3>1, <3>2
    <3>4. QED
      BY <3>3
  <2>3. QED
    BY <2>1, <2>2
<1>2. QED
  BY <1>1, Invariance, PTL DEF Spec, NoBlindRepeat

-----------------------------------------------------------------------------
(* Sums                                                                    *)

\* Of sets within a finite one, some is minimal.
LEMMA SmallestSet ==
  ASSUME NEW S, IsFiniteSet(S), NEW T, T \subseteq SUBSET S, T # {}
  PROVE  \E s \in T : \A t \in T : t \subseteq s => t = s
<1>1. IsWellFoundedOn(StrictSubsetOrdering(S), SUBSET S)
  BY FS_StrictSubsetOrderingWellFounded, FS_FiniteSubsetsOfFinite
<1>2. PICK s \in T : \A t \in T : ~(<<t, s>> \in StrictSubsetOrdering(S))
  BY <1>1, WFMin
<1>3. QED
  BY <1>2 DEF StrictSubsetOrdering

\* MapThenSumSet takes the elements of a set one by one.
Pick(s) == CHOOSE x \in s : TRUE
Sums(g, F, S) ==
    g = [s \in SUBSET S |-> IF s = {} THEN 0 ELSE F[Pick(s)] + g[s \ {Pick(s)}]]
Total(F, S) == (CHOOSE g : Sums(g, F, S))[S]

LEMMA Picked == ASSUME NEW s, s # {} PROVE Pick(s) \in s
BY DEF Pick

LEMMA SumsAt ==
  ASSUME NEW S, NEW F, NEW g, Sums(g, F, S), NEW s \in SUBSET S
  PROVE  g[s] = IF s = {} THEN 0 ELSE F[Pick(s)] + g[s \ {Pick(s)}]
<1> HIDE DEF Pick
<1>1. g = [t \in SUBSET S |-> IF t = {} THEN 0 ELSE F[Pick(t)] + g[t \ {Pick(t)}]]
  BY DEF Sums
<1>2. QED
  BY <1>1

LEMMA SumsAgree ==
  ASSUME NEW S, IsFiniteSet(S), NEW R \in SUBSET S, NEW F, NEW g, NEW h, Sums(g, F, S), Sums(h, F, R)
  PROVE  g[R] = h[R]
<1> DEFINE T == {s \in SUBSET R : g[s] # h[s]}
<1>1. SUFFICES ASSUME T # {} PROVE FALSE
  OBVIOUS
<1>2. T \subseteq SUBSET S
  OBVIOUS
<1>3. PICK s \in T : \A t \in T : t \subseteq s => t = s
  <2> HIDE DEF T
  <2>1. QED
    BY <1>1, <1>2, SmallestSet
<1>4. /\ g[s] = IF s = {} THEN 0 ELSE F[Pick(s)] + g[s \ {Pick(s)}]
      /\ h[s] = IF s = {} THEN 0 ELSE F[Pick(s)] + h[s \ {Pick(s)}]
  BY SumsAt
<1>5. s # {}
  BY <1>3, <1>4
<1>6. Pick(s) \in s
  BY <1>5, Picked
<1>7. s \ {Pick(s)} \notin T /\ s \ {Pick(s)} \in SUBSET R
  BY <1>3, <1>6
<1>8. g[s \ {Pick(s)}] = h[s \ {Pick(s)}]
  BY <1>7
<1>9. QED
  BY <1>3, <1>4, <1>8

LEMMA SumsExist ==
  ASSUME NEW S, IsFiniteSet(S), NEW F
  PROVE  \E g : Sums(g, F, S)
<1> DEFINE T == {R \in SUBSET S : ~\E g : Sums(g, F, R)}
<1>1. SUFFICES ASSUME T # {} PROVE FALSE
  OBVIOUS
<1>2. PICK R \in T : \A t \in T : t \subseteq R => t = R
  <2>1. T \subseteq SUBSET S
    OBVIOUS
  <2> HIDE DEF T
  <2>2. QED
    BY <1>1, <2>1, SmallestSet
<1>3. R \in SUBSET S /\ IsFiniteSet(R) /\ ~\E g : Sums(g, F, R)
  BY <1>2, FS_Subset
<1>4. \A t : t \subseteq R /\ t # R => \E g : Sums(g, F, t)
  BY <1>2, <1>3
<1> HIDE DEF T
<1> DEFINE H(u) == CHOOSE g : Sums(g, F, u)
           rest(s) == s \ {Pick(s)}
           v(s) == IF s = {} THEN 0 ELSE F[Pick(s)] + H(rest(s))[rest(s)]
           g == [s \in SUBSET R |-> v(s)]
<1>5. ASSUME NEW t, t \subseteq R, t # R PROVE Sums(H(t), F, t)
  BY <1>4, <1>5
<1> HIDE DEF H
<1>6. ASSUME NEW s \in SUBSET R, s # {}
      PROVE  rest(s) \in SUBSET R /\ rest(s) # R /\ rest(s) \subseteq s /\ rest(s) # s
  BY <1>6, Picked
<1>7. ASSUME NEW s \in SUBSET R, s # {} PROVE H(rest(s))[rest(s)] = v(rest(s))
  <2> DEFINE u == rest(s)
  <2>1. u \in SUBSET R /\ u # R
    BY <1>6, <1>7
  <2>2. Sums(H(u), F, u)
    BY <1>5, <2>1
  <2>3. H(u)[u] = IF u = {} THEN 0 ELSE F[Pick(u)] + H(u)[rest(u)]
    <3> HIDE DEF u
    <3>1. u \in SUBSET u
      OBVIOUS
    <3>2. QED
      BY <2>2, <3>1, SumsAt
  <2>4. CASE u = {}
    BY <2>3, <2>4
  <2>5. CASE u # {}
    <3>1. rest(u) \in SUBSET u /\ rest(u) \subseteq R /\ rest(u) # R /\ IsFiniteSet(u)
      <4>1. u \in SUBSET R
        BY <2>1
      <4>2. IsFiniteSet(u)
        BY <1>3, <2>1, FS_Subset
      <4> HIDE DEF u
      <4>3. QED
        BY <1>6, <2>5, <4>1, <4>2
    <3>2. Sums(H(rest(u)), F, rest(u))
      <4> HIDE DEF u
      <4>1. QED
        BY <1>5, <3>1
    <3>3. H(u)[rest(u)] = H(rest(u))[rest(u)]
      <4> HIDE DEF u, rest
      <4>1. QED
        BY <2>2, <3>1, <3>2, SumsAgree
    <3> HIDE DEF u, rest
    <3>4. v(u) = F[Pick(u)] + H(rest(u))[rest(u)]
      BY <2>5
    <3>5. QED
      BY <2>3, <2>5, <3>3, <3>4 DEF u
  <2>6. QED
    BY <2>4, <2>5
<1>8. ASSUME NEW s \in SUBSET R
      PROVE  v(s) = IF s = {} THEN 0 ELSE F[Pick(s)] + g[rest(s)]
  <2>1. CASE s = {}
    BY <2>1
  <2>2. CASE s # {}
    <3>1. rest(s) \in SUBSET R /\ H(rest(s))[rest(s)] = v(rest(s))
      BY <1>6, <1>7, <2>2
    <3>2. v(s) = F[Pick(s)] + H(rest(s))[rest(s)]
      BY <2>2
    <3> HIDE DEF v, rest
    <3>3. g[rest(s)] = v(rest(s))
      BY <3>1
    <3>4. QED
      BY <2>2, <3>1, <3>2, <3>3
  <2>3. QED
    BY <2>1, <2>2
<1>9. g = [s \in SUBSET R |-> IF s = {} THEN 0 ELSE F[Pick(s)] + g[rest(s)]]
  <2> HIDE DEF v, rest
  <2>1. QED
    BY <1>8
<1>10. Sums(g, F, R)
  <2> HIDE DEF g
  <2>1. QED
    BY <1>9 DEF Sums
<1>11. QED
  BY <1>3, <1>10

LEMMA TotalSums ==
  ASSUME NEW S, IsFiniteSet(S), NEW F, NEW R \in SUBSET S, NEW g, Sums(g, F, S)
  PROVE  g[R] = Total(F, R)
<1>1. IsFiniteSet(R)
  BY FS_Subset
<1>2. Sums(CHOOSE h : Sums(h, F, R), F, R)
  BY <1>1, SumsExist
<1>3. QED
  BY <1>2, SumsAgree DEF Total

\* The sum over nothing is 0, over more it starts with any element picked.
LEMMA TotalStep ==
  ASSUME NEW S, IsFiniteSet(S), NEW F
  PROVE  /\ Total(F, {}) = 0
         /\ S # {} => Total(F, S) = F[Pick(S)] + Total(F, S \ {Pick(S)})
<1>1. PICK g : Sums(g, F, S)
  BY SumsExist
<1>2. \A R \in SUBSET S : g[R] = Total(F, R)
  BY <1>1, TotalSums
<1>3. \A s \in SUBSET S : g[s] = IF s = {} THEN 0 ELSE F[Pick(s)] + g[s \ {Pick(s)}]
  BY <1>1, SumsAt
<1>4. {} \in SUBSET S /\ S \in SUBSET S /\ S \ {Pick(S)} \in SUBSET S
  OBVIOUS
<1>5. QED
  BY <1>2, <1>3, <1>4

LEMMA TotalNat ==
  ASSUME NEW S, IsFiniteSet(S), NEW F, \A x \in S : F[x] \in Nat
  PROVE  Total(F, S) \in Nat
<1> DEFINE T == {s \in SUBSET S : Total(F, s) \notin Nat}
<1>1. SUFFICES ASSUME T # {} PROVE FALSE
  OBVIOUS
<1>2. PICK s \in T : \A t \in T : t \subseteq s => t = s
  <2>1. T \subseteq SUBSET S
    OBVIOUS
  <2> HIDE DEF T
  <2>2. QED
    BY <1>1, <2>1, SmallestSet
<1>3. /\ IsFiniteSet(s) /\ Total(F, {}) = 0
      /\ s # {} => Total(F, s) = F[Pick(s)] + Total(F, s \ {Pick(s)})
  <2>1. IsFiniteSet(s)
    BY <1>2, FS_Subset
  <2>2. QED
    BY <2>1, TotalStep
<1>4. s # {} /\ Pick(s) \in s
  <2>1. Total(F, s) \notin Nat
    BY <1>2
  <2>2. s = {} => Total(F, s) = 0
    BY <1>3, Zenon
  <2>3. s # {}
    BY <2>1, <2>2
  <2>4. QED
    BY <2>3, Picked
<1>5. Total(F, s \ {Pick(s)}) \in Nat
  BY <1>2, <1>4
<1>6. QED
  BY <1>2, <1>3, <1>4, <1>5

\* The order in which the elements are taken does not matter.
LEMMA TotalWithout ==
  ASSUME NEW S, IsFiniteSet(S), NEW F, \A x \in S : F[x] \in Nat, NEW y \in S
  PROVE  Total(F, S) = F[y] + Total(F, S \ {y})
<1> DEFINE T == {s \in SUBSET S : \E z \in s : Total(F, s) # F[z] + Total(F, s \ {z})}
<1>1. SUFFICES ASSUME T # {} PROVE FALSE
  OBVIOUS
<1>2. PICK s \in T : \A t \in T : t \subseteq s => t = s
  <2>1. T \subseteq SUBSET S
    OBVIOUS
  <2> HIDE DEF T
  <2>2. QED
    BY <1>1, <2>1, SmallestSet
<1>3. PICK z \in s : Total(F, s) # F[z] + Total(F, s \ {z})
  BY <1>2
<1> DEFINE p == Pick(s)
<1>4. s \in SUBSET S /\ p \in s
  BY <1>2, <1>3, Picked
<1>5. \A t \in SUBSET S : IsFiniteSet(t) /\ Total(F, t) \in Nat
  BY FS_Subset, TotalNat
<1>6. Total(F, s) = F[p] + Total(F, s \ {p})
  BY <1>4, <1>5, TotalStep
<1> HIDE DEF p
<1>7. p # z
  BY <1>3, <1>6
<1>8. /\ Total(F, s \ {p}) = F[z] + Total(F, (s \ {p}) \ {z})
      /\ Total(F, s \ {z}) = F[p] + Total(F, (s \ {z}) \ {p})
  <2>1. s \ {p} \notin T /\ s \ {z} \notin T
    BY <1>2, <1>4
  <2>2. z \in s \ {p} /\ p \in s \ {z} /\ s \ {p} \in SUBSET S /\ s \ {z} \in SUBSET S
    BY <1>4, <1>7
  <2>3. QED
    BY <2>1, <2>2
<1>9. (s \ {p}) \ {z} = (s \ {z}) \ {p} /\ (s \ {p}) \ {z} \in SUBSET S
  BY <1>4
<1>10. /\ F[p] \in Nat /\ F[z] \in Nat /\ Total(F, (s \ {p}) \ {z}) \in Nat
  BY <1>4, <1>5, <1>9
<1>11. QED
  BY <1>3, <1>6, <1>8, <1>9, <1>10

LEMMA TotalWith ==
  ASSUME NEW S, IsFiniteSet(S), NEW F, NEW y, y \notin S, \A x \in S \cup {y} : F[x] \in Nat
  PROVE  Total(F, S \cup {y}) = F[y] + Total(F, S)
<1>1. IsFiniteSet(S \cup {y})
  BY FS_AddElement
<1>2. (S \cup {y}) \ {y} = S /\ y \in S \cup {y}
  OBVIOUS
<1>3. QED
  BY <1>1, <1>2, TotalWithout

LEMMA TotalSame ==
  ASSUME NEW S, IsFiniteSet(S), NEW F, NEW G, \A x \in S : F[x] = G[x]
  PROVE  Total(F, S) = Total(G, S)
<1> DEFINE T == {s \in SUBSET S : Total(F, s) # Total(G, s)}
<1>1. SUFFICES ASSUME T # {} PROVE FALSE
  OBVIOUS
<1>2. PICK s \in T : \A t \in T : t \subseteq s => t = s
  <2>1. T \subseteq SUBSET S
    OBVIOUS
  <2> HIDE DEF T
  <2>2. QED
    BY <1>1, <2>1, SmallestSet
<1>3. /\ Total(F, {}) = 0 /\ Total(G, {}) = 0
      /\ s # {} => /\ Total(F, s) = F[Pick(s)] + Total(F, s \ {Pick(s)})
                   /\ Total(G, s) = G[Pick(s)] + Total(G, s \ {Pick(s)})
  <2>1. IsFiniteSet(s)
    BY <1>2, FS_Subset
  <2>2. QED
    BY <2>1, TotalStep
<1>4. s # {} /\ Pick(s) \in s
  BY <1>2, <1>3, Picked
<1>5. Total(F, s \ {Pick(s)}) = Total(G, s \ {Pick(s)})
  BY <1>2, <1>4
<1>6. QED
  BY <1>2, <1>3, <1>4, <1>5

\* A part of a set and what is left of it.
LEMMA TotalParts ==
  ASSUME NEW S, IsFiniteSet(S), NEW F, \A x \in S : F[x] \in Nat, NEW R \in SUBSET S
  PROVE  Total(F, S) = Total(F, R) + Total(F, S \ R)
<1> DEFINE T == {r \in SUBSET S : Total(F, S) # Total(F, r) + Total(F, S \ r)}
<1>1. SUFFICES ASSUME T # {} PROVE FALSE
  OBVIOUS
<1>2. PICK r \in T : \A t \in T : t \subseteq r => t = r
  <2>1. T \subseteq SUBSET S
    OBVIOUS
  <2> HIDE DEF T
  <2>2. QED
    BY <1>1, <2>1, SmallestSet
<1>3. \A t \in SUBSET S : IsFiniteSet(t) /\ Total(F, t) \in Nat
  BY FS_Subset, TotalNat
<1>4. r # {}
  <2>1. Total(F, {}) = 0
    BY TotalStep
  <2>2. S \ {} = S /\ Total(F, S) \in Nat
    BY <1>3
  <2>3. Total(F, S) # Total(F, r) + Total(F, S \ r)
    BY <1>2
  <2> HIDE DEF T
  <2>4. QED
    BY <2>1, <2>2, <2>3
<1>5. PICK y : y \in r
  BY <1>4
<1>6. r \in SUBSET S /\ y \in S /\ r \ {y} \in SUBSET S /\ S \ r \in SUBSET S
  BY <1>2, <1>5
<1>7. Total(F, S) = Total(F, r \ {y}) + Total(F, S \ (r \ {y}))
  BY <1>2, <1>5, <1>6
<1>8. Total(F, r) = F[y] + Total(F, r \ {y})
  BY <1>3, <1>5, <1>6, TotalWithout
<1>9. Total(F, S \ (r \ {y})) = F[y] + Total(F, S \ r)
  <2>1. S \ (r \ {y}) = (S \ r) \cup {y} /\ y \notin S \ r
    BY <1>5, <1>6
  <2>2. IsFiniteSet(S \ r) /\ \A x \in (S \ r) \cup {y} : F[x] \in Nat
    BY <1>3, <1>6
  <2>3. QED
    BY <2>1, <2>2, TotalWith
<1>10. /\ F[y] \in Nat /\ Total(F, r \ {y}) \in Nat /\ Total(F, S \ r) \in Nat
  BY <1>3, <1>6
<1>11. QED
  BY <1>2, <1>7, <1>8, <1>9, <1>10

-----------------------------------------------------------------------------
(* The accounting                                                          *)

Claims == [q \in Requests |-> request[q].estimate]

LEMMA RequestsFinite == IsFiniteSet(Requests) /\ \A S \in SUBSET Requests : IsFiniteSet(S)
<1>1. NRequests \in Nat
  BY BoundsAssumption
<1>2. IsFiniteSet(Requests)
  BY <1>1, FS_Interval DEF Requests
<1>3. QED
  BY <1>2, FS_Subset

LEMMA WorthIsTotal == \A S \in SUBSET Requests : Worth(S) = Total(worth, S)
<1> SUFFICES ASSUME NEW S \in SUBSET Requests PROVE Worth(S) = Total(worth, S)
  OBVIOUS
<1> DEFINE h == CHOOSE g : g = [s \in SUBSET S |->
                  IF s = {} THEN 0
                  ELSE worth[CHOOSE x \in s : TRUE] + g[s \ {CHOOSE x \in s : TRUE}]]
<1>1. Worth(S) = h[S]
  BY DEF Worth, MapThenSumSet, MapThenFoldSet
<1>2. IsFiniteSet(S)
  BY RequestsFinite
<1>3. PICK g : Sums(g, worth, S)
  BY <1>2, SumsExist
<1>4. g = [s \in SUBSET S |->
         IF s = {} THEN 0
         ELSE worth[CHOOSE x \in s : TRUE] + g[s \ {CHOOSE x \in s : TRUE}]]
  BY <1>3 DEF Sums, Pick
<1>5. h = [s \in SUBSET S |->
         IF s = {} THEN 0
         ELSE worth[CHOOSE x \in s : TRUE] + h[s \ {CHOOSE x \in s : TRUE}]]
  BY <1>4
<1> HIDE DEF h
<1>6. Sums(h, worth, S)
  BY <1>5 DEF Sums, Pick
<1>7. QED
  BY <1>1, <1>2, <1>6, TotalSums

LEMMA EstimatesIsTotal == \A S \in SUBSET Requests : Estimates(S) = Total(Claims, S)
<1> SUFFICES ASSUME NEW S \in SUBSET Requests PROVE Estimates(S) = Total(Claims, S)
  OBVIOUS
<1> DEFINE h == CHOOSE g : g = [s \in SUBSET S |->
                  IF s = {} THEN 0
                  ELSE request[CHOOSE x \in s : TRUE].estimate + g[s \ {CHOOSE x \in s : TRUE}]]
<1>1. Estimates(S) = h[S]
  BY DEF Estimates, MapThenSumSet, MapThenFoldSet
<1>2. IsFiniteSet(S)
  BY RequestsFinite
<1>3. \A s \in SUBSET S : s # {} =>
         Claims[CHOOSE x \in s : TRUE] = request[CHOOSE x \in s : TRUE].estimate
  <2>1. ASSUME NEW s \in SUBSET S, s # {}
        PROVE  (CHOOSE x \in s : TRUE) \in Requests
    BY <2>1
  <2>2. QED
    BY <2>1 DEF Claims
<1>4. PICK g : Sums(g, Claims, S)
  BY <1>2, SumsExist
<1>5. g = [s \in SUBSET S |->
         IF s = {} THEN 0
         ELSE request[CHOOSE x \in s : TRUE].estimate + g[s \ {CHOOSE x \in s : TRUE}]]
  BY <1>3, <1>4 DEF Sums, Pick
<1>6. h = [s \in SUBSET S |->
         IF s = {} THEN 0
         ELSE request[CHOOSE x \in s : TRUE].estimate + h[s \ {CHOOSE x \in s : TRUE}]]
  BY <1>5
<1> HIDE DEF h
<1>7. Sums(h, Claims, S)
  BY <1>3, <1>6 DEF Sums, Pick
<1>8. QED
  BY <1>1, <1>2, <1>7, TotalSums

\* What is used and reserved of a run's and of the project's allowance.
Load(r) == run[r].used + Total(Claims, ReservedBy(r))
ProjectLoad == project.used + Total(Claims, Reserved)

Amounts ==
    /\ \A r \in Runs : run[r].used \in Nat /\ run[r].limit \in Nat \cup {None}
    /\ DOMAIN project = {"limit", "used"}
    /\ project.used \in Nat /\ project.limit \in Nat \cup {None}
    /\ worth \in [Requests -> Nat]

\* A number not yet used has no span, a used one has a span with a run.
Attributed ==
    /\ \A q \in Requests : request[q].status = "none" => request[q].span = None /\ worth[q] = 0
    /\ \A q \in Requests : request[q].span # None => RunOf(request[q].span) \in Runs

\* Until its usage is known, a request is worth its estimate.
Estimated == \A q \in Reserved : worth[q] = request[q].estimate /\ worth[q] # 0

\* A process waits for a usage report of its own reservation, which nobody else
\* has settled.
Awaiting ==
    \A s \in Spans : stream[s].request # None =>
        /\ stream[s].pc \in {"on", "closing"}
        /\ request[stream[s].request].status = "reserved"
        /\ request[stream[s].request].span = s

Balanced ==
    /\ \A r \in Runs : Load(r) = Total(worth, RequestsOf(r))
    /\ ProjectLoad = Total(worth, Requests)

Metered == Amounts /\ Attributed /\ Estimated /\ Awaiting /\ Balanced

\* Every sum the accounting speaks of is one of numbers over a finite set.
LEMMA Parts ==
  /\ Reserved \subseteq Requests /\ IsFiniteSet(Requests)
  /\ \A r : ReservedBy(r) \subseteq Requests /\ ReservedBy(r) \subseteq Reserved
  /\ \A r : RequestsOf(r) \subseteq Requests
  /\ \A S \in SUBSET Requests : IsFiniteSet(S)
  /\ IInv => \A q \in Requests : Claims[q] \in Nat /\ Claims[q] = request[q].estimate
<1>1. IInv => \A q \in Requests : Claims[q] \in Nat /\ Claims[q] = request[q].estimate
  BY DEF IInv, Shape, RequestsShape, Claims
<1>2. QED
  BY <1>1, RequestsFinite DEF Reserved, ReservedBy, RequestsOf

LEMMA AccountedIsBalanced == IInv => (Accounted <=> Balanced)
BY Parts, WorthIsTotal, EstimatesIsTotal DEF Accounted, Balanced, Load, ProjectLoad


LEMMA OverdrawnAt ==
  IInv => /\ \A r \in Runs : Overdrawn(r) <=> Exceeds(run[r].limit, Load(r))
          /\ ProjectOverdrawn <=> Exceeds(project.limit, ProjectLoad)
BY Parts, EstimatesIsTotal DEF Overdrawn, ProjectOverdrawn, Load, ProjectLoad

\* What WithinAllowance says of a step.
AllowanceKept ==
    \/ \E q \in Requests : worth[q] # 0 /\ worth'[q] > worth[q]
    \/ /\ \A r \in Runs : Overdrawn(r)' => Overdrawn(r) \/ run'[r].limit # run[r].limit
       /\ ProjectOverdrawn' => ProjectOverdrawn \/ project'.limit # project.limit

\* Loads that do not grow stay within the same allowances.
LEMMA LoadsKept ==
  ASSUME IInv, IInv',
         \A r \in Runs : \/ Load(r)' = Load(r)
                         \/ run'[r].limit = run[r].limit /\ ~Exceeds(run[r].limit, Load(r)')
                         \/ /\ Load(r)' <= Load(r) /\ {Load(r), Load(r)'} \subseteq Nat
                            /\ run[r].limit \in Nat \cup {None},
         \/ ProjectLoad' = ProjectLoad
         \/ project'.limit = project.limit /\ ~Exceeds(project.limit, ProjectLoad')
         \/ /\ ProjectLoad' <= ProjectLoad /\ {ProjectLoad, ProjectLoad'} \subseteq Nat
            /\ project.limit \in Nat \cup {None}
  PROVE  AllowanceKept
<1>1. /\ \A r \in Runs : Overdrawn(r) <=> Exceeds(run[r].limit, Load(r))
      /\ ProjectOverdrawn <=> Exceeds(project.limit, ProjectLoad)
  BY OverdrawnAt
<1>2. (IInv => /\ \A r \in Runs : Overdrawn(r) <=> Exceeds(run[r].limit, Load(r))
               /\ ProjectOverdrawn <=> Exceeds(project.limit, ProjectLoad))'
  BY OverdrawnAt, PTL
<1>3. /\ \A r \in Runs : Overdrawn(r)' <=> Exceeds(run'[r].limit, Load(r)')
      /\ ProjectOverdrawn' <=> Exceeds(project'.limit, ProjectLoad')
  BY <1>2
<1>4. \A r \in Runs : Overdrawn(r)' => Overdrawn(r) \/ run'[r].limit # run[r].limit
  BY <1>1, <1>3 DEF Exceeds, Limited
<1>5. ProjectOverdrawn' => ProjectOverdrawn \/ project'.limit # project.limit
  BY <1>1, <1>3 DEF Exceeds, Limited
<1>6. QED
  BY <1>4, <1>5 DEF AllowanceKept

-----------------------------------------------------------------------------
(* Steps that count nothing                                                *)

\* Which requests there are, of which run, and which of them are reserved stays
\* the same.
RequestsKept ==
    /\ \A q \in Requests :
          /\ request'[q].span = request[q].span /\ request'[q].estimate = request[q].estimate
          /\ request'[q].status \in {"reserved", "uncertain"} <=> request[q].status \in {"reserved", "uncertain"}
          /\ request'[q].status = "none" <=> request[q].status = "none"
    /\ \A s \in Spans : span'[s].run = span[s].run \/ span[s].run = None
UsageKept ==
    /\ worth' = worth /\ project'.used = project.used
    /\ \A r \in Runs : run'[r].used = run[r].used
\* Nobody starts to wait for a usage report.
WaitsKept ==
    \A s \in Spans : stream'[s].request # None =>
        /\ stream'[s].request = stream[s].request
        /\ stream'[s].pc \in {"on", "closing"}
        /\ request'[stream[s].request].status = request[stream[s].request].status

LEMMA Sources ==
  ASSUME IInv, Metered, \A s \in Spans : span'[s].run = span[s].run \/ span[s].run = None
  PROVE  /\ \A q \in Requests : request[q].status # "none" => request[q].span \in Spans
         /\ \A q \in Requests : request[q].span # None =>
               /\ request[q].span \in Spans /\ RunOf(request[q].span) \in Runs
               /\ span'[request[q].span].run = span[request[q].span].run
         /\ \A q \in Reserved : q \in Requests /\ request[q].span \in Spans /\ request[q].span # None
<1>1. \A q \in Requests : request[q].span # None =>
         request[q].span \in Spans /\ RunOf(request[q].span) \in Runs
  BY DEF IInv, Shape, RequestsShape, Metered, Attributed
<1>2. None \notin Runs /\ None \notin Spans
  BY NoneAssumption, BoundsAssumption DEF Spans
<1>3. QED
  BY <1>1, <1>2 DEF RunOf, Reserved, IInv, Shape, RequestsShape

LEMMA StillStep ==
  ASSUME IInv, IInv', Metered, Amounts', RequestsKept, UsageKept, WaitsKept
  PROVE  Metered' /\ AllowanceKept
<1>1. \A s \in Spans : span'[s].run = span[s].run \/ span[s].run = None
  BY DEF RequestsKept
<1>2. /\ \A q \in Requests : request[q].status # "none" => request[q].span \in Spans
      /\ \A q \in Requests : request[q].span # None =>
            /\ request[q].span \in Spans /\ RunOf(request[q].span) \in Runs
            /\ span'[request[q].span].run = span[request[q].span].run
      /\ \A q \in Reserved : q \in Requests /\ request[q].span \in Spans /\ request[q].span # None
  BY <1>1, Sources
<1>3. Reserved' = Reserved /\ Claims' = Claims
  BY DEF RequestsKept, Reserved, Claims
<1>4. \A r \in Runs : ReservedBy(r)' = ReservedBy(r)
  <2>1. \A q \in Reserved : request'[q].span = request[q].span /\ span'[request[q].span].run = span[request[q].span].run
    BY <1>2 DEF RequestsKept
  <2>2. QED
    BY <1>3, <2>1 DEF ReservedBy, RunOf
<1>5. \A r \in Runs : RequestsOf(r)' = RequestsOf(r)
  BY <1>2 DEF RequestsOf, RunOf, RequestsKept
<1>6. /\ \A r \in Runs : Load(r)' = Load(r)
      /\ ProjectLoad' = ProjectLoad
  BY <1>3, <1>4 DEF Load, ProjectLoad, UsageKept
<1>7. Balanced'
  BY <1>5, <1>6 DEF Balanced, Metered, UsageKept
<1>8. Attributed'
  BY <1>2 DEF Attributed, Metered, RequestsKept, UsageKept, RunOf
<1>9. Estimated'
  BY <1>2, <1>3 DEF Estimated, Metered, RequestsKept, UsageKept
<1>10. Awaiting'
  <2>1. ASSUME NEW s \in Spans, stream'[s].request # None
        PROVE  /\ stream'[s].pc \in {"on", "closing"}
               /\ request'[stream'[s].request].status = "reserved"
               /\ request'[stream'[s].request].span = s
    <3>1. stream[s].request # None /\ stream[s].request \in Requests
      BY <2>1 DEF WaitsKept, IInv, Shape, StreamsShape
    <3>2. QED
      BY <2>1, <3>1 DEF WaitsKept, RequestsKept, Metered, Awaiting
  <2>2. QED
    BY <2>1 DEF Awaiting
<1>11. AllowanceKept
  BY <1>6, LoadsKept
<1>12. QED
  BY <1>7, <1>8, <1>9, <1>10, <1>11 DEF Metered


\* Steps that leave every reservation alone.
LEMMA SameRequests ==
  ASSUME IInv, UNCHANGED <<request, worth>>, project'.used = project.used,
         \A r \in Runs : run'[r].used = run[r].used,
         \A s \in Spans : /\ span'[s].run = span[s].run \/ span[s].run = None
                          /\ \/ stream'[s].request = None
                             \/ /\ stream'[s].request = stream[s].request
                                /\ stream'[s].pc = stream[s].pc \/ stream'[s].pc \in {"on", "closing"}
                             \/ stream[s].request = None /\ stream'[s].request = None,
         Metered
  PROVE  RequestsKept /\ UsageKept /\ WaitsKept
<1>1. RequestsKept /\ UsageKept
  BY DEF RequestsKept, UsageKept
<1>2. WaitsKept
  BY DEF WaitsKept, Metered, Awaiting
<1>3. QED
  BY <1>1, <1>2

LEMMA CountedStreamEnds ==
  ASSUME IInv, Metered, NEW s \in Spans,
         \/ Stopped(s) \/ Refused(s) \/ SettleFails(s) \/ ResumeRefused(s)
         \/ \E exit \in Final : EndTurn(s, exit)
  PROVE  RequestsKept /\ UsageKept /\ WaitsKept /\ Amounts'
<1>1. UNCHANGED <<project, span, request, worth>>
  BY DEF Stopped, Refused, SettleFails, ResumeRefused, EndTurn, ledger
<1>2. \A r \in Runs : run'[r].used = run[r].used /\ run'[r].limit = run[r].limit
  BY DEF Stopped, Refused, SettleFails, ResumeRefused, EndTurn, ledger, Pause, IInv, Shape, RunsShape
<1>3. \A t \in Spans :
         \/ stream'[t].request = None
         \/ /\ stream'[t].request = stream[t].request
            /\ stream'[t].pc = stream[t].pc \/ stream'[t].pc \in {"on", "closing"}
  <2>1. CASE Stopped(s) \/ Refused(s)
    BY <2>1 DEF Stopped, Refused, Leave, IInv, Shape, StreamsShape
  <2>2. CASE SettleFails(s)
    BY <2>2 DEF SettleFails, LeaveWithout, IInv, Shape, StreamsShape
  <2>3. CASE ResumeRefused(s)
    BY <2>3 DEF ResumeRefused, Off, IInv, Shape, StreamsShape
  <2>4. CASE \E exit \in Final : EndTurn(s, exit)
    <3>1. PICK exit : stream' = [stream EXCEPT ![s].pc = "closing", ![s].exit = exit]
      BY <2>4 DEF EndTurn, Leave
    <3>2. QED
      BY <3>1 DEF IInv, Shape, StreamsShape
  <2>5. QED
    BY <2>1, <2>2, <2>3, <2>4
<1>4. QED
  BY <1>1, <1>2, <1>3, SameRequests DEF Metered, Amounts

LEMMA CountedWork ==
  ASSUME IInv, Metered, NEW s \in Spans,
         BeginAction(s) \/ FinishAction(s) \/ Finish(s) \/ Resume(s) \/ ContinuationFails(s) \/ Stop(s)
  PROVE  RequestsKept /\ UsageKept /\ WaitsKept /\ Amounts'
<1>1. UNCHANGED <<project, request, worth>>
  BY DEF BeginAction, FinishAction, Finish, Resume, ContinuationFails, Stop
<1>2. \A r \in Runs : run'[r].used = run[r].used /\ run'[r].limit = run[r].limit
  BY DEF BeginAction, FinishAction, Finish, FinishSpan, Resume, ContinuationFails, Pause, Stop,
     IInv, Shape, RunsShape
<1>3. \A t \in Spans : span'[t].run = span[t].run
  <2>1. CASE BeginAction(s) \/ FinishAction(s)
    BY <2>1 DEF BeginAction, FinishAction, IInv, Shape, SpansShape
  <2>2. ASSUME NEW status, span' = [span EXCEPT ![s].status = status]
        PROVE  \A t \in Spans : span'[t].run = span[t].run
    BY <2>2 DEF IInv, Shape, SpansShape
  <2>3. CASE Finish(s) \/ Stop(s) \/ Resume(s) \/ ContinuationFails(s)
    BY <2>2, <2>3 DEF Finish, Stop, FinishSpan, Resume, ContinuationFails
  <2>4. QED
    BY <2>1, <2>2, <2>3
<1>4. \A t \in Spans :
         \/ stream'[t].request = None
         \/ /\ stream'[t].request = stream[t].request
            /\ stream'[t].pc = stream[t].pc \/ stream'[t].pc \in {"on", "closing"}
  <2>1. CASE BeginAction(s) \/ FinishAction(s) \/ Stop(s)
    BY <2>1 DEF BeginAction, FinishAction, Stop
  <2>2. CASE Finish(s) \/ ContinuationFails(s)
    BY <2>2 DEF Finish, ContinuationFails, Off, IInv, Shape, StreamsShape
  <2>3. CASE Resume(s)
    BY <2>3 DEF Resume, IInv, Shape, StreamsShape
  <2>4. QED
    BY <2>1, <2>2, <2>3
<1>5. QED
  BY <1>1, <1>2, <1>3, <1>4, SameRequests DEF Metered, Amounts

LEMMA CountedLimits ==
  ASSUME IInv, Metered,
         \/ \E r \in Runs : SpanLimit(r)
         \/ \E r \in Runs, limit \in Limits : SetRunBudget(r, limit)
         \/ \E limit \in Limits : SetProjectBudget(limit)
  PROVE  RequestsKept /\ UsageKept /\ WaitsKept /\ Amounts'
<1>1. UNCHANGED <<span, request, stream, worth>>
  BY DEF SpanLimit, SetRunBudget, SetProjectBudget
<1>2. \A r \in Runs : run'[r].used = run[r].used /\ run'[r].limit \in Nat \cup {None}
  BY LimitAssumption DEF SpanLimit, Pause, SetRunBudget, SetProjectBudget, Metered, Amounts, IInv, Shape, RunsShape
<1>3. /\ DOMAIN project' = {"limit", "used"}
      /\ project'.used = project.used /\ project'.limit \in Nat \cup {None}
  BY LimitAssumption DEF SpanLimit, SetRunBudget, SetProjectBudget, Metered, Amounts
<1>4. QED
  BY <1>1, <1>2, <1>3, SameRequests DEF Metered, Amounts

LEMMA CountedBegin ==
  ASSUME IInv, Metered, NEW s \in Spans, NEW r \in Runs, NEW p \in Procs, NEW limit \in {None} \cup 0..MaxLimit,
         Begin(s, r, p, limit)
  PROVE  RequestsKept /\ UsageKept /\ WaitsKept /\ Amounts'
<1>1. UNCHANGED <<project, request, worth>>
  BY DEF Begin
<1>2. \A x \in Runs : run'[x].used = run[x].used /\ run'[x].limit \in Nat \cup {None}
  BY BoundsAssumption DEF Begin, Metered, Amounts, IInv, Shape, RunsShape
<1>3. \A t \in Spans : span'[t].run = span[t].run \/ span[t].run = None
  BY DEF Begin, NextSpan, IInv, Shape, SpansShape
<1>4. \A t \in Spans : stream'[t].request = stream[t].request /\ stream'[t].pc \in {stream[t].pc, "on"}
  BY DEF Begin, IInv, Shape, StreamsShape
<1>5. QED
  BY <1>1, <1>2, <1>3, <1>4, SameRequests DEF Metered, Amounts

LEMMA CountedCrash ==
  ASSUME IInv, Metered, NEW p \in Procs, Crash(p)
  PROVE  RequestsKept /\ UsageKept /\ WaitsKept /\ Amounts'
<1>1. UNCHANGED <<run, project, span, request, worth>>
  BY DEF Crash, ledger
<1>2. \A t \in Spans : stream'[t].request = None \/ stream'[t] = stream[t]
  BY DEF Crash, Off
<1>3. QED
  BY <1>1, <1>2, SameRequests DEF Metered, Amounts

\* Steps that may make reservations uncertain: those of the step's own stream,
\* or of dead processes.
LEMMA MadeUncertain ==
  ASSUME IInv, Metered, NEW K, K \subseteq Reserved,
         request' = [q \in Requests |->
             IF q \in K THEN [request[q] EXCEPT !.status = "uncertain"] ELSE request[q]],
         \A s \in Spans : span'[s].run = span[s].run,
         \A s \in Spans : stream'[s].request # None =>
             /\ stream'[s].request = stream[s].request /\ stream'[s].pc = stream[s].pc
             /\ stream[s].request \notin K
  PROVE  RequestsKept /\ WaitsKept
<1>1. \A q \in Requests : /\ request'[q].span = request[q].span /\ request'[q].estimate = request[q].estimate
                          /\ request'[q].status = IF q \in K THEN "uncertain" ELSE request[q].status
  BY DEF IInv, Shape, RequestsShape
<1>2. RequestsKept
  BY <1>1 DEF RequestsKept, Reserved
<1>3. WaitsKept
  BY <1>1 DEF WaitsKept, IInv, Shape, StreamsShape, Metered, Awaiting
<1>4. QED
  BY <1>2, <1>3

LEMMA CountedUncertain ==
  ASSUME IInv, Metered, NEW s \in Spans, SettleUnknown(s) \/ CloseProvider(s)
  PROVE  RequestsKept /\ UsageKept /\ WaitsKept /\ Amounts'
<1> DEFINE q == stream[s].request
<1>1. UNCHANGED <<project, span, worth>>
  BY DEF SettleUnknown, CloseProvider
<1>2. \A r \in Runs : run'[r].used = run[r].used /\ run'[r].limit = run[r].limit
  BY DEF SettleUnknown, CloseProvider, Uncertain, Pause, IInv, Shape, RunsShape
<1>3. \A t \in Spans : /\ t # s => stream'[t] = stream[t]
                       /\ stream'[s].request = None
  BY DEF SettleUnknown, CloseProvider, LeaveWithout, IInv, Shape, StreamsShape
<1>4. CASE Uncertain(s) /\ q # None
  <2>1. q \in Requests /\ request[q].status = "reserved" /\ request[q].span = s
    BY <1>4 DEF IInv, Shape, StreamsShape, Metered, Awaiting
  <2>2. request' = [x \in Requests |->
           IF x \in {q} THEN [request[x] EXCEPT !.status = "uncertain"] ELSE request[x]]
    BY <1>4, <2>1 DEF Uncertain, IInv, Shape, RequestsShape
  <2>3. \A t \in Spans : t # s /\ stream[t].request # None => stream[t].request # q
    BY <2>1 DEF Metered, Awaiting
  <2>4. {q} \subseteq Reserved
    BY <2>1 DEF Reserved
  <2>5. \A t \in Spans : stream'[t].request # None =>
           /\ stream'[t].request = stream[t].request /\ stream'[t].pc = stream[t].pc
           /\ stream[t].request \notin {q}
    BY <1>3, <2>3
  <2> DEFINE K == {q}
  <2> HIDE DEF K
  <2>6. RequestsKept /\ WaitsKept
    <3>1. request' = [x \in Requests |->
             IF x \in K THEN [request[x] EXCEPT !.status = "uncertain"] ELSE request[x]]
      BY <2>2 DEF K
    <3>2. /\ K \subseteq Reserved
          /\ \A t \in Spans : stream'[t].request # None =>
                /\ stream'[t].request = stream[t].request /\ stream'[t].pc = stream[t].pc
                /\ stream[t].request \notin K
      BY <2>4, <2>5 DEF K
    <3> HIDE DEF q
    <3>3. QED
      BY <1>1, <3>1, <3>2, MadeUncertain
  <2>7. QED
    BY <1>1, <1>2, <2>6 DEF UsageKept, Metered, Amounts
<1>5. CASE UNCHANGED request
  BY <1>1, <1>2, <1>3, <1>5, SameRequests DEF Metered, Amounts
<1>6. QED
  BY <1>4, <1>5 DEF SettleUnknown, CloseProvider

LEMMA CountedRecover ==
  ASSUME IInv, Metered, Recover
  PROVE  RequestsKept /\ UsageKept /\ WaitsKept /\ Amounts'
<1> DEFINE touched == {RunOf(s) : s \in {s \in Spans : Interrupted(s)}}
           K == {q \in Reserved : Abandoned(q) /\ RunOf(request[q].span) \in touched}
<1>1. UNCHANGED <<project, stream, worth>>
  BY DEF Recover
<1>2. \A r \in Runs : run'[r].used = run[r].used /\ run'[r].limit = run[r].limit
  BY DEF Recover, IInv, Shape, RunsShape
<1>3. \A s \in Spans : span'[s].run = span[s].run
  BY DEF Recover, IInv, Shape, SpansShape
<1>4. request' = [q \in Requests |->
         IF q \in K THEN [request[q] EXCEPT !.status = "uncertain"] ELSE request[q]]
  BY DEF Recover, Retained
<1>5. \A s \in Spans : stream[s].request # None => stream[s].request \notin K
  BY DEF Metered, Awaiting, Abandoned, IInv, StreamsLive
<1>6. K \subseteq Reserved
  OBVIOUS
<1> HIDE DEF K
<1>7. RequestsKept /\ WaitsKept
  BY <1>1, <1>3, <1>4, <1>5, <1>6, MadeUncertain
<1>8. QED
  BY <1>1, <1>2, <1>7 DEF UsageKept, Metered, Amounts


-----------------------------------------------------------------------------
(* Steps that count something                                              *)

\* Estimates that are accepted as usage stay in the sums.
LEMMA ReconcileCounts ==
  ASSUME IInv, IInv', Metered, Amounts', NEW r \in Runs, Reconcile(r), Reconcilable(r), worth' = worth,
         run'[r].used = run[r].used + Accepted(r),
         \A x \in Runs : x # r => run'[x].used = run[x].used,
         project'.used = project.used + Accepted(r),
         \A s \in Spans : /\ span'[s].run = span[s].run
                          /\ stream'[s].request = stream[s].request
                          /\ stream[s].request # None => stream'[s].pc = stream[s].pc
  PROVE  Metered' /\ AllowanceKept
<1>1. /\ \A q \in Requests : request[q].status # "none" => request[q].span \in Spans
      /\ \A q \in Requests : request[q].span # None =>
            /\ request[q].span \in Spans /\ RunOf(request[q].span) \in Runs
            /\ span'[request[q].span].run = span[request[q].span].run
      /\ \A q \in Reserved : q \in Requests /\ request[q].span \in Spans /\ request[q].span # None
  BY Sources
<1>2. \A q \in Requests :
         /\ request'[q].span = request[q].span /\ request'[q].estimate = request[q].estimate
         /\ request'[q].status = IF q \in ReservedBy(r) THEN "settled" ELSE request[q].status
  BY DEF Reconcile, IInv, Shape, RequestsShape
<1>3. Claims' = Claims /\ Reserved' = Reserved \ ReservedBy(r)
  BY <1>2 DEF Claims, Reserved
<1>4. \A q \in Reserved : request'[q].span = request[q].span /\ span'[request[q].span].run = RunOf(request[q].span)
  BY <1>1, <1>2 DEF RunOf
<1>5. ReservedBy(r)' = {} /\ \A x \in Runs : x # r => ReservedBy(x)' = ReservedBy(x)
  BY <1>3, <1>4 DEF ReservedBy, RunOf
<1>6. \A x \in Runs : RequestsOf(x)' = RequestsOf(x)
  BY <1>1, <1>2 DEF RequestsOf, RunOf
<1>7. /\ Accepted(r) = Total(Claims, ReservedBy(r)) /\ Total(Claims, {}) = 0
      /\ Total(Claims, Reserved) = Total(Claims, ReservedBy(r)) + Total(Claims, Reserved \ ReservedBy(r))
      /\ {Total(Claims, ReservedBy(r)), Total(Claims, Reserved), Total(Claims, Reserved \ ReservedBy(r))} \subseteq Nat
  <2>1. /\ ReservedBy(r) \in SUBSET Requests /\ ReservedBy(r) \in SUBSET Reserved
        /\ IsFiniteSet(Reserved) /\ IsFiniteSet(ReservedBy(r)) /\ IsFiniteSet(Reserved \ ReservedBy(r))
        /\ \A q \in Reserved : Claims[q] \in Nat
    BY Parts
  <2>2. Accepted(r) = Total(Claims, ReservedBy(r))
    BY <2>1, EstimatesIsTotal DEF Accepted
  <2>3. Total(Claims, {}) = 0
    BY <2>1, TotalStep
  <2>4. Total(Claims, Reserved) = Total(Claims, ReservedBy(r)) + Total(Claims, Reserved \ ReservedBy(r))
    BY <2>1, TotalParts
  <2>5. /\ Total(Claims, ReservedBy(r)) \in Nat /\ Total(Claims, Reserved) \in Nat
        /\ Total(Claims, Reserved \ ReservedBy(r)) \in Nat
    BY <2>1, TotalNat
  <2>6. QED
    BY <2>2, <2>3, <2>4, <2>5
<1>8. run[r].used \in Nat /\ project.used \in Nat
  BY DEF Metered, Amounts
<1>9. /\ \A x \in Runs : Load(x)' = Load(x)
      /\ ProjectLoad' = ProjectLoad
  <2>1. Load(r)' = Load(r)
    BY <1>3, <1>5, <1>7, <1>8 DEF Load
  <2>2. \A x \in Runs : x # r => Load(x)' = Load(x)
    BY <1>3, <1>5 DEF Load
  <2>3. ProjectLoad' = ProjectLoad
    BY <1>3, <1>7, <1>8 DEF ProjectLoad
  <2>4. QED
    BY <2>1, <2>2, <2>3
<1>10. Balanced'
  BY <1>6, <1>9 DEF Balanced, Metered
<1>11. Attributed' /\ Estimated'
  <2>1. Attributed'
    BY <1>1, <1>2 DEF Attributed, Metered, RunOf, ReservedBy
  <2>2. Estimated'
    BY <1>1, <1>2, <1>3 DEF Estimated, Metered
  <2>3. QED
    BY <2>1, <2>2
<1>12. Awaiting'
  <2>1. ASSUME NEW s \in Spans, stream'[s].request # None
        PROVE  /\ stream'[s].pc \in {"on", "closing"}
               /\ request'[stream'[s].request].status = "reserved"
               /\ request'[stream'[s].request].span = s
    <3>1. /\ stream[s].request # None /\ stream[s].request \in Requests
          /\ stream[s].pc \in {"on", "closing"} /\ stream'[s].pc = stream[s].pc
          /\ request[stream[s].request].status = "reserved" /\ request[stream[s].request].span = s
      BY <2>1 DEF Metered, Awaiting, IInv, Shape, StreamsShape
    <3>2. Active(stream[s].request)
      BY <3>1 DEF Active, IInv, StreamsLive
    <3>3. stream[s].request \notin ReservedBy(r)
      BY <3>2 DEF Reconcilable
    <3>4. QED
      BY <1>2, <3>1, <3>3
  <2>2. QED
    BY <2>1 DEF Awaiting
<1>13. AllowanceKept
  BY <1>9, LoadsKept
<1>14. QED
  BY <1>10, <1>11, <1>12, <1>13 DEF Metered

LEMMA AcceptedNat == ASSUME IInv, NEW r PROVE Accepted(r) \in Nat
<1>1. /\ ReservedBy(r) \in SUBSET Requests /\ IsFiniteSet(ReservedBy(r))
      /\ \A q \in ReservedBy(r) : Claims[q] \in Nat
  BY Parts
<1>2. QED
  BY <1>1, TotalNat, EstimatesIsTotal DEF Accepted

LEMMA CountedAccept ==
  ASSUME IInv, IInv', Metered, NEW r \in Runs, AcceptUsage(r)
  PROVE  Metered' /\ AllowanceKept
<1>1. Accepted(r) \in Nat
  BY AcceptedNat
<1>2. /\ run'[r].used = run[r].used + Accepted(r)
      /\ \A x \in Runs : x # r => run'[x].used = run[x].used
      /\ \A x \in Runs : run'[x].limit = run[x].limit
  BY DEF AcceptUsage, IInv, Shape, RunsShape
<1>3. /\ project'.used = project.used + Accepted(r) /\ project'.limit = project.limit
      /\ DOMAIN project' = {"limit", "used"}
  BY DEF AcceptUsage, ProjectCharged, Metered, Amounts
<1>4. Amounts'
  BY <1>1, <1>2, <1>3 DEF AcceptUsage, Metered, Amounts
<1>5. QED
  BY <1>2, <1>3, <1>4, ReconcileCounts DEF AcceptUsage

LEMMA CountedAuthorize ==
  ASSUME IInv, IInv', Metered, NEW s \in Spans, NEW p, NEW extra, NEW projectExtra, NEW removeLimits,
         Authorize(s, p, extra, projectExtra, removeLimits)
  PROVE  Metered' /\ AllowanceKept
<1> DEFINE r == RunOf(s)
<1>1. /\ r \in Runs /\ span[s].status = "paused" /\ Reconcile(r) /\ Reconcilable(r) /\ worth' = worth
  BY RunNotStopped DEF Authorize
<1>2. Accepted(r) \in Nat
  BY <1>1, AcceptedNat
<1>3. /\ run'[r].used = run[r].used + Accepted(r)
      /\ \A x \in Runs : x # r => run'[x].used = run[x].used /\ run'[x].limit = run[x].limit
  BY <1>1 DEF Authorize, IInv, Shape, RunsShape
<1>4. /\ project'.used = project.used + Accepted(r)
      /\ DOMAIN project' = {"limit", "used"}
  BY DEF Authorize, ProjectCharged, Metered, Amounts
<1>5. run'[r].limit \in Nat \cup {None} /\ project'.limit \in Nat \cup {None}
  <2>1. {run'[r].limit, project'.limit} \subseteq 0..MaxLimit \cup {None}
    BY DEF Authorize
  <2>2. QED
    BY <2>1, BoundsAssumption
<1>6. Amounts'
  <2>1. \A x \in Runs : run'[x].used \in Nat /\ run'[x].limit \in Nat \cup {None}
    BY <1>1, <1>2, <1>3, <1>5 DEF Metered, Amounts
  <2>2. QED
    BY <1>1, <1>2, <1>4, <1>5, <2>1 DEF Metered, Amounts
<1>7. \A t \in Spans : span'[t].run = span[t].run
  <2>1. PICK repeat : span' = [span EXCEPT ![s] = Continued(@, p, repeat)]
    BY DEF Authorize
  <2>2. QED
    BY <2>1 DEF Continued, IInv, Shape, SpansShape
<1>8. \A t \in Spans : /\ stream'[t].request = stream[t].request
                       /\ t # s => stream'[t].pc = stream[t].pc
  BY DEF Authorize, IInv, Shape, StreamsShape
<1>9. stream[s].request = None
  BY <1>1 DEF Metered, Awaiting, IInv, TurnsRun
<1>10. QED
  BY <1>1, <1>3, <1>4, <1>6, <1>7, <1>8, <1>9, ReconcileCounts

\* One request is counted differently.
LEMMA TotalChanged ==
  ASSUME NEW S, IsFiniteSet(S), NEW F, NEW G, NEW q \in S,
         \A x \in S : F[x] \in Nat /\ G[x] \in Nat, \A x \in S \ {q} : G[x] = F[x]
  PROVE  /\ Total(G, S) = Total(F, S) + G[q] - F[q]
         /\ {Total(G, S), Total(F, S)} \subseteq Nat
<1>1. Total(F, S) = F[q] + Total(F, S \ {q}) /\ Total(G, S) = G[q] + Total(G, S \ {q})
  BY TotalWithout
<1>2. IsFiniteSet(S \ {q})
  BY FS_RemoveElement
<1>3. Total(F, S \ {q}) = Total(G, S \ {q})
  BY <1>2, TotalSame
<1>4. Total(F, S \ {q}) \in Nat /\ Total(F, S) \in Nat /\ Total(G, S) \in Nat
  BY <1>2, TotalNat
<1>5. F[q] \in Nat /\ G[q] \in Nat
  OBVIOUS
<1>6. QED
  BY <1>1, <1>3, <1>4, <1>5


\* A reservation counts with its estimate, and there was room for it.
LEMMA CountedReserve ==
  ASSUME IInv, IInv', Metered, NEW s \in Spans, NEW q \in Requests, NEW estimate \in 1..MaxEstimate,
         Reserve(s, q, estimate)
  PROVE  Metered' /\ AllowanceKept
<1>0. PICK r \in Runs : r = RunOf(s)
  BY TurnOfRun DEF Reserve, On
<1>1. /\ r = RunOf(s) /\ estimate \in Nat /\ estimate # 0 /\ request[q].status = "none"
      /\ request[q].span = None /\ worth[q] = 0 /\ stream[s].pc = "on" /\ stream[s].request = None
  BY <1>0, BoundsAssumption DEF Reserve, On, NextRequest, Metered, Attributed
<1>2. UNCHANGED <<project, span, alive>>
  BY DEF Reserve
<1>3. \A x \in Runs : run'[x].used = run[x].used /\ run'[x].limit = run[x].limit
  BY DEF Reserve, IInv, Shape, RunsShape
<1>4. /\ request'[q].span = s /\ request'[q].estimate = estimate /\ request'[q].status = "reserved"
      /\ \A x \in Requests : x # q => request'[x] = request[x]
  BY DEF Reserve, IInv, Shape, RequestsShape
<1>5. /\ worth' \in [Requests -> Nat] /\ worth'[q] = estimate
      /\ \A x \in Requests : x # q => worth'[x] = worth[x]
  BY <1>1 DEF Reserve, Metered, Amounts
<1>6. \A t \in Spans : /\ stream'[t].pc = stream[t].pc
                       /\ stream'[t].request = IF t = s THEN q ELSE stream[t].request
  BY DEF Reserve, IInv, Shape, StreamsShape
<1>7. s # None
  BY NoneAssumption, BoundsAssumption DEF Spans
<1>8. /\ Reserved' = Reserved \cup {q} /\ q \notin Reserved
      /\ ReservedBy(r)' = ReservedBy(r) \cup {q} /\ q \notin ReservedBy(r)
      /\ \A x \in Runs : x # r => ReservedBy(x)' = ReservedBy(x)
  <2>1. Reserved' = Reserved \cup {q} /\ q \notin Reserved
    BY <1>1, <1>4 DEF Reserved
  <2>2. /\ ReservedBy(r)' = ReservedBy(r) \cup {q} /\ q \notin ReservedBy(r)
        /\ \A x \in Runs : x # r => ReservedBy(x)' = ReservedBy(x)
    BY <1>1, <1>2, <1>4, <2>1 DEF ReservedBy, RunOf, Reserved
  <2>3. QED
    BY <2>1, <2>2
<1>9. /\ RequestsOf(r)' = RequestsOf(r) \cup {q} /\ q \notin RequestsOf(r)
      /\ \A x \in Runs : x # r => RequestsOf(x)' = RequestsOf(x) /\ q \notin RequestsOf(x)
  BY <1>1, <1>2, <1>4, <1>7 DEF RequestsOf, RunOf
<1>10. /\ \A x \in Requests : Claims[x] \in Nat /\ Claims'[x] \in Nat
       /\ Claims'[q] = estimate /\ \A x \in Requests : x # q => Claims'[x] = Claims[x]
  <2>1. \A x \in Requests : Claims[x] \in Nat /\ Claims[x] = request[x].estimate
    BY Parts
  <2>2. \A x \in Requests : Claims'[x] = request'[x].estimate
    BY DEF Claims
  <2>3. QED
    BY <1>1, <1>4, <2>1, <2>2
<1>11. ASSUME NEW S \in SUBSET Requests, q \notin S
       PROVE  /\ Total(Claims', S) = Total(Claims, S)
              /\ Total(Claims', S \cup {q}) = estimate + Total(Claims, S)
              /\ Total(worth', S) = Total(worth, S)
              /\ Total(worth', S \cup {q}) = estimate + Total(worth, S)
              /\ {Total(Claims, S), Total(worth, S)} \subseteq Nat
  <2>1. IsFiniteSet(S)
    BY Parts
  <2>2. \A x \in S \cup {q} : Claims'[x] \in Nat /\ worth'[x] \in Nat
    BY <1>5, <1>10
  <2>3. \A x \in S : Claims[x] \in Nat /\ worth[x] \in Nat
    BY <1>10 DEF Metered, Amounts
  <2>4. Total(Claims', S) = Total(Claims, S) /\ Total(worth', S) = Total(worth, S)
    <3>1. \A x \in S : Claims'[x] = Claims[x] /\ worth'[x] = worth[x]
      BY <1>5, <1>10, <1>11
    <3>2. QED
      BY <2>1, <3>1, TotalSame
  <2>5. /\ Total(Claims', S \cup {q}) = Claims'[q] + Total(Claims', S)
        /\ Total(worth', S \cup {q}) = worth'[q] + Total(worth', S)
    BY <1>11, <2>1, <2>2, TotalWith
  <2>6. Total(Claims, S) \in Nat /\ Total(worth, S) \in Nat
    BY <2>1, <2>3, TotalNat
  <2>7. QED
    BY <1>5, <1>10, <2>4, <2>5, <2>6
<1>12. /\ Reserved \in SUBSET Requests /\ Requests \ {q} \in SUBSET Requests
       /\ \A x : ReservedBy(x) \in SUBSET Requests /\ RequestsOf(x) \in SUBSET Requests
       /\ \A x \in Runs : x # r => q \notin ReservedBy(x)
  BY <1>8, Parts
<1>13. /\ \A x \in Runs : run[x].used \in Nat
       /\ project.used \in Nat
  BY DEF Metered, Amounts
<1>14. /\ Load(r)' = Load(r) + estimate /\ {Load(r), Load(r)'} \subseteq Nat
       /\ \A x \in Runs : x # r => Load(x)' = Load(x)
       /\ ProjectLoad' = ProjectLoad + estimate
  <2>1. Load(r)' = Load(r) + estimate /\ {Load(r), Load(r)'} \subseteq Nat
    <3>1. /\ Total(Claims', ReservedBy(r) \cup {q}) = estimate + Total(Claims, ReservedBy(r))
          /\ Total(Claims, ReservedBy(r)) \in Nat
      BY <1>8, <1>11, <1>12
    <3>2. Load(r)' = run[r].used + Total(Claims', ReservedBy(r) \cup {q})
      BY <1>1, <1>3, <1>8 DEF Load
    <3>3. Load(r) = run[r].used + Total(Claims, ReservedBy(r))
      BY DEF Load
    <3>4. QED
      BY <1>1, <1>13, <3>1, <3>2, <3>3
  <2>2. \A x \in Runs : x # r => Load(x)' = Load(x)
    BY <1>3, <1>8, <1>11, <1>12 DEF Load
  <2>3. ProjectLoad' = ProjectLoad + estimate
    <3>1. Total(Claims', Reserved \cup {q}) = estimate + Total(Claims, Reserved) /\ Total(Claims, Reserved) \in Nat
      BY <1>8, <1>11, <1>12
    <3>2. ProjectLoad' = project.used + Total(Claims', Reserved \cup {q})
      BY <1>2, <1>8 DEF ProjectLoad
    <3>3. QED
      BY <1>1, <1>13, <3>1, <3>2 DEF ProjectLoad
  <2>4. QED
    BY <2>1, <2>2, <2>3
<1>15. Balanced'
  <2>1. Load(r)' = Total(worth', RequestsOf(r)') /\ \A x \in Runs : x # r => Load(x)' = Total(worth', RequestsOf(x)')
    <3>1. \A x \in Runs : Load(x) = Total(worth, RequestsOf(x))
      BY DEF Metered, Balanced
    <3>2. Load(r)' = Total(worth', RequestsOf(r)')
      <4>1. /\ Total(worth', RequestsOf(r) \cup {q}) = estimate + Total(worth, RequestsOf(r))
            /\ Total(worth, RequestsOf(r)) \in Nat
        BY <1>9, <1>11, <1>12
      <4>2. QED
        BY <1>1, <1>9, <1>14, <3>1, <4>1
    <3>3. \A x \in Runs : x # r => Total(worth', RequestsOf(x)') = Total(worth, RequestsOf(x))
      <4>1. \A S \in SUBSET Requests : q \notin S => Total(worth', S) = Total(worth, S)
        BY <1>11
      <4>2. QED
        BY <1>9, <1>12, <4>1
    <3>4. QED
      BY <1>14, <3>1, <3>2, <3>3
  <2>2. ProjectLoad' = Total(worth', Requests)
    <3>1. Total(worth', Requests) = estimate + Total(worth, Requests \ {q})
      <4>1. (Requests \ {q}) \cup {q} = Requests
        OBVIOUS
      <4>2. QED
        BY <1>11, <1>12, <4>1
    <3>2. Total(worth, Requests) = worth[q] + Total(worth, Requests \ {q})
      BY Parts, TotalWithout DEF Metered, Amounts
    <3>3. Total(worth, Requests \ {q}) \in Nat
      BY <1>11, <1>12
    <3>4. QED
      BY <1>1, <1>14, <3>1, <3>2, <3>3 DEF Metered, Balanced
  <2>3. QED
    BY <2>1, <2>2 DEF Balanced
<1>16. Amounts' /\ Attributed' /\ Estimated'
  <2>1. Amounts'
    BY <1>2, <1>3, <1>5 DEF Metered, Amounts
  <2>2. Attributed'
    BY <1>1, <1>2, <1>4, <1>5 DEF Metered, Attributed, RunOf
  <2>3. Estimated'
    BY <1>1, <1>4, <1>5, <1>8, Parts DEF Metered, Estimated
  <2>4. QED
    BY <2>1, <2>2, <2>3
<1>17. Awaiting'
  <2>1. ASSUME NEW t \in Spans, stream'[t].request # None
        PROVE  /\ stream'[t].pc \in {"on", "closing"}
               /\ request'[stream'[t].request].status = "reserved"
               /\ request'[stream'[t].request].span = t
    <3>1. CASE t = s
      BY <1>1, <1>4, <1>6, <3>1
    <3>2. CASE t # s
      <4>1. /\ stream[t].request # None /\ stream'[t].request = stream[t].request
            /\ stream[t].request \in Requests /\ request[stream[t].request].status = "reserved"
        BY <1>6, <2>1, <3>2 DEF Metered, Awaiting, IInv, Shape, StreamsShape
      <4>2. stream[t].request # q
        BY <1>1, <4>1
      <4>3. QED
        BY <1>4, <1>6, <4>1, <4>2 DEF Metered, Awaiting
    <3>3. QED
      BY <3>1, <3>2
  <2>2. QED
    BY <2>1 DEF Awaiting
<1>18. AllowanceKept
  <2>1. /\ ~Exceeds(run[r].limit, run[r].used + Total(Claims, ReservedBy(r)) + estimate)
        /\ ~Exceeds(project.limit, project.used + Total(Claims, Reserved) + estimate)
    BY <1>1, <1>12, EstimatesIsTotal DEF Reserve, Fits, ProjectReserved
  <2>2. ~Exceeds(run[r].limit, Load(r)') /\ ~Exceeds(project.limit, ProjectLoad')
    BY <1>14, <2>1 DEF Load, ProjectLoad
  <2>3. \A x \in Runs : Load(x)' = Load(x) \/ (run'[x].limit = run[x].limit /\ ~Exceeds(run[x].limit, Load(x)'))
    BY <1>3, <1>14, <2>2
  <2>4. project'.limit = project.limit
    BY <1>2
  <2>5. QED
    BY <2>2, <2>3, <2>4, LoadsKept
<1>19. QED
  BY <1>15, <1>16, <1>17, <1>18 DEF Metered


\* A usage report replaces the estimate; it takes less, or the provider used more.
LEMMA CountedSettle ==
  ASSUME IInv, IInv', Metered, NEW s \in Spans, NEW amount \in 1..(MaxEstimate + Excess), Settle(s, amount)
  PROVE  Metered' /\ AllowanceKept
<1>0. PICK r \in Runs : r = RunOf(s)
  BY TurnOfRun DEF Settle, On
<1>a. PICK q \in Requests : q = stream[s].request
  BY DEF Settle, IInv, Shape, StreamsShape
<1>1. /\ amount \in Nat /\ request[q].status = "reserved" /\ request[q].span = s
      /\ worth[q] = request[q].estimate /\ worth[q] # 0 /\ q \in Reserved
  <2>1. request[q].status = "reserved" /\ request[q].span = s
    BY <1>a DEF Settle, Metered, Awaiting
  <2>2. q \in Reserved
    BY <2>1 DEF Reserved
  <2>3. amount \in Nat
    BY BoundsAssumption
  <2>4. QED
    BY <2>1, <2>2, <2>3 DEF Metered, Estimated
<1>2. UNCHANGED <<span, alive>>
  BY DEF Settle
<1>3. /\ run'[r].used = run[r].used + amount
      /\ \A x \in Runs : x # r => run'[x].used = run[x].used
      /\ \A x \in Runs : run'[x].limit = run[x].limit
  BY <1>0 DEF Settle, Charged, IInv, Shape, RunsShape
<1>4. /\ project'.used = project.used + amount /\ project'.limit = project.limit
      /\ DOMAIN project' = {"limit", "used"}
  BY DEF Settle, ProjectCharged, Charged, Metered, Amounts
<1>5. /\ request'[q].status = "settled"
      /\ \A x \in Requests : /\ x # q => request'[x] = request[x]
                             /\ request'[x].span = request[x].span
                             /\ request'[x].estimate = request[x].estimate
  BY <1>a DEF Settle, IInv, Shape, RequestsShape
<1>6. /\ worth' \in [Requests -> Nat] /\ worth'[q] = amount
      /\ \A x \in Requests : x # q => worth'[x] = worth[x]
  BY <1>1, <1>a DEF Settle, Metered, Amounts
<1>7. \A t \in Spans : /\ t # s => stream'[t] = stream[t]
                       /\ stream'[s].request = None
  BY DEF Settle, LeaveWithout, IInv, Shape, StreamsShape
<1>8. /\ Reserved' = Reserved \ {q} /\ ReservedBy(r)' = ReservedBy(r) \ {q} /\ q \in ReservedBy(r)
      /\ \A x \in Runs : x # r => ReservedBy(x)' = ReservedBy(x)
      /\ Claims' = Claims
  <2>1. Reserved' = Reserved \ {q} /\ Claims' = Claims
    BY <1>1, <1>5 DEF Reserved, Claims
  <2>2. q \in ReservedBy(r) /\ \A x \in Runs : x # r => q \notin ReservedBy(x)
    BY <1>0, <1>1 DEF ReservedBy
  <2>3. \A x : ReservedBy(x)' = ReservedBy(x) \ {q}
    BY <1>2, <1>5, <2>1, Parts DEF ReservedBy, RunOf
  <2>4. QED
    BY <2>1, <2>2, <2>3
<1>9. /\ \A x \in Runs : RequestsOf(x)' = RequestsOf(x)
      /\ q \in RequestsOf(r) /\ \A x \in Runs : x # r => q \notin RequestsOf(x)
  <2>1. s # None
    BY NoneAssumption, BoundsAssumption DEF Spans
  <2>2. QED
    BY <1>0, <1>1, <1>2, <1>5, <2>1 DEF RequestsOf, RunOf
<1>10. /\ Reserved \in SUBSET Requests /\ \A x : ReservedBy(x) \in SUBSET Requests /\ RequestsOf(x) \in SUBSET Requests
       /\ \A S \in SUBSET Requests : IsFiniteSet(S)
       /\ \A x \in Requests : Claims[x] \in Nat /\ worth[x] \in Nat /\ worth'[x] \in Nat
       /\ Claims[q] = worth[q] /\ worth[q] \in Nat
  BY <1>1, <1>6, Parts DEF Metered, Amounts
<1>11. /\ run[r].used \in Nat /\ project.used \in Nat
       /\ run[r].limit \in Nat \cup {None} /\ project.limit \in Nat \cup {None}
  BY DEF Metered, Amounts
<1>12. ASSUME NEW S \in SUBSET Requests, q \in S
       PROVE  /\ Total(Claims, S \ {q}) = Total(Claims, S) - worth[q]
              /\ Total(worth', S) = Total(worth, S) + amount - worth[q]
              /\ {Total(Claims, S), Total(Claims, S \ {q}), Total(worth, S)} \subseteq Nat
  <2>1. IsFiniteSet(S) /\ IsFiniteSet(S \ {q})
    BY <1>10
  <2>2. \A x \in S : Claims[x] \in Nat /\ worth[x] \in Nat /\ worth'[x] \in Nat
    BY <1>10
  <2>3. Total(Claims, S) = Claims[q] + Total(Claims, S \ {q})
    BY <1>12, <2>1, <2>2, TotalWithout
  <2>4. Total(Claims, S) \in Nat /\ Total(Claims, S \ {q}) \in Nat
    BY <2>1, <2>2, TotalNat
  <2>5. \A x \in S \ {q} : worth'[x] = worth[x]
    BY <1>6
  <2>6. Total(worth', S) = Total(worth, S) + worth'[q] - worth[q] /\ Total(worth, S) \in Nat
    <3>1. q \in S /\ \A x \in S : worth[x] \in Nat /\ worth'[x] \in Nat
      BY <1>12, <2>2
    <3>2. /\ Total(worth', S) = Total(worth, S) + worth'[q] - worth[q]
          /\ {Total(worth', S), Total(worth, S)} \subseteq Nat
      BY <2>1, <2>5, <3>1, TotalChanged
    <3>3. QED
      BY <3>2
  <2>7. QED
    BY <1>6, <1>10, <2>3, <2>4, <2>6
<1>13. /\ Load(r)' = Load(r) + amount - worth[q] /\ {Load(r), Load(r)'} \subseteq Nat
       /\ \A x \in Runs : x # r => Load(x)' = Load(x)
       /\ ProjectLoad' = ProjectLoad + amount - worth[q] /\ {ProjectLoad, ProjectLoad'} \subseteq Nat
  <2>1. Load(r)' = Load(r) + amount - worth[q] /\ {Load(r), Load(r)'} \subseteq Nat
    <3>1. /\ Total(Claims, ReservedBy(r) \ {q}) = Total(Claims, ReservedBy(r)) - worth[q]
          /\ Total(Claims, ReservedBy(r)) \in Nat /\ Total(Claims, ReservedBy(r) \ {q}) \in Nat
      BY <1>8, <1>10, <1>12
    <3>2. Load(r)' = run[r].used + amount + Total(Claims, ReservedBy(r) \ {q})
      BY <1>3, <1>8 DEF Load
    <3>3. QED
      BY <1>1, <1>10, <1>11, <3>1, <3>2 DEF Load
  <2>2. \A x \in Runs : x # r => Load(x)' = Load(x)
    BY <1>3, <1>8 DEF Load
  <2>3. ProjectLoad' = ProjectLoad + amount - worth[q] /\ {ProjectLoad, ProjectLoad'} \subseteq Nat
    <3>1. /\ Total(Claims, Reserved \ {q}) = Total(Claims, Reserved) - worth[q]
          /\ Total(Claims, Reserved) \in Nat /\ Total(Claims, Reserved \ {q}) \in Nat
      BY <1>1, <1>10, <1>12
    <3>2. ProjectLoad' = project.used + amount + Total(Claims, Reserved \ {q})
      BY <1>4, <1>8 DEF ProjectLoad
    <3>3. QED
      BY <1>1, <1>10, <1>11, <3>1, <3>2 DEF ProjectLoad
  <2>4. QED
    BY <2>1, <2>2, <2>3
<1>14. Balanced'
  <2>1. /\ \A x \in Runs : Load(x) = Total(worth, RequestsOf(x))
        /\ ProjectLoad = Total(worth, Requests)
    BY DEF Metered, Balanced
  <2>2. Load(r)' = Total(worth', RequestsOf(r)')
    <3>1. Total(worth', RequestsOf(r)) = Total(worth, RequestsOf(r)) + amount - worth[q]
      BY <1>9, <1>10, <1>12
    <3>2. QED
      BY <1>9, <1>13, <2>1, <3>1
  <2>3. ASSUME NEW x \in Runs, x # r PROVE Load(x)' = Total(worth', RequestsOf(x)')
    <3>1. IsFiniteSet(RequestsOf(x)) /\ \A y \in RequestsOf(x) : worth'[y] = worth[y]
      BY <1>6, <1>9, <1>10, <2>3
    <3>2. Total(worth', RequestsOf(x)) = Total(worth, RequestsOf(x))
      BY <3>1, TotalSame
    <3>3. QED
      BY <1>9, <1>13, <2>1, <2>3, <3>2
  <2>4. ProjectLoad' = Total(worth', Requests)
    <3>1. Total(worth', Requests) = Total(worth, Requests) + amount - worth[q]
      BY <1>12
    <3>2. QED
      BY <1>13, <2>1, <3>1
  <2>5. QED
    BY <2>2, <2>3, <2>4 DEF Balanced
<1>15. Amounts' /\ Attributed' /\ Estimated'
  <2>1. \A x \in Runs : run'[x].used \in Nat /\ run'[x].limit \in Nat \cup {None}
    BY <1>1, <1>3 DEF Metered, Amounts
  <2>2. project'.used \in Nat /\ project'.limit \in Nat \cup {None}
    BY <1>1, <1>4 DEF Metered, Amounts
  <2>3. Amounts'
    BY <1>4, <1>6, <2>1, <2>2 DEF Amounts
  <2>4. Attributed'
    BY <1>1, <1>2, <1>5, <1>6 DEF Metered, Attributed, RunOf
  <2>5. Estimated'
    BY <1>5, <1>6, <1>8, Parts DEF Metered, Estimated
  <2>6. QED
    BY <2>3, <2>4, <2>5
<1>16. Awaiting'
  <2>1. ASSUME NEW t \in Spans, stream'[t].request # None
        PROVE  /\ stream'[t].pc \in {"on", "closing"}
               /\ request'[stream'[t].request].status = "reserved"
               /\ request'[stream'[t].request].span = t
    <3>1. t # s /\ stream'[t] = stream[t]
      BY <1>7, <2>1
    <3>2. /\ stream[t].request \in Requests /\ stream[t].pc \in {"on", "closing"}
          /\ request[stream[t].request].status = "reserved" /\ request[stream[t].request].span = t
      BY <2>1, <3>1 DEF Metered, Awaiting, IInv, Shape, StreamsShape
    <3>3. stream[t].request # q
      BY <1>1, <3>1, <3>2
    <3>4. QED
      BY <1>5, <3>1, <3>2, <3>3
  <2>2. QED
    BY <2>1 DEF Awaiting
<1>17. AllowanceKept
  <2>1. CASE amount > worth[q]
    BY <1>1, <1>6, <2>1 DEF AllowanceKept
  <2>2. CASE ~(amount > worth[q])
    <3>1. Load(r)' <= Load(r) /\ ProjectLoad' <= ProjectLoad
      BY <1>1, <1>10, <1>13, <2>2
    <3>2. \A x \in Runs : \/ Load(x)' = Load(x)
                          \/ /\ Load(x)' <= Load(x) /\ {Load(x), Load(x)'} \subseteq Nat
                             /\ run[x].limit \in Nat \cup {None}
      BY <1>11, <1>13, <3>1
    <3>3. /\ ProjectLoad' <= ProjectLoad /\ {ProjectLoad, ProjectLoad'} \subseteq Nat
          /\ project.limit \in Nat \cup {None}
      BY <1>11, <1>13, <3>1
    <3>4. QED
      BY <3>2, <3>3, LoadsKept
  <2>3. QED
    BY <2>1, <2>2
<1>18. QED
  BY <1>14, <1>15, <1>16, <1>17 DEF Metered


-----------------------------------------------------------------------------
(* The specification                                                       *)

LEMMA InitMetered == Init => Metered
<1> SUFFICES ASSUME Init PROVE Metered
  OBVIOUS
<1>1. /\ Reserved = {} /\ \A r : ReservedBy(r) = {} /\ RequestsOf(r) = {}
      /\ \A q \in Requests : worth[q] = 0
  BY DEF Init, Reserved, ReservedBy, RequestsOf
<1>2. Amounts /\ Attributed /\ Estimated /\ Awaiting
  <2>1. Amounts
    <3>1. \A r \in Runs : run[r].used \in Nat /\ run[r].limit \in Nat \cup {None}
      BY DEF Init
    <3>2. /\ DOMAIN project = {"limit", "used"}
          /\ project.used = 0 /\ project.limit \in Limits
      BY DEF Init
    <3>3. worth \in [Requests -> Nat]
      BY DEF Init
    <3>4. project.used \in Nat /\ project.limit \in Nat \cup {None}
      <4>1. project.used \in Nat
        BY <3>2
      <4>2. project.limit \in Nat \cup {None}
        <5>1. \A limit \in Limits : limit \in Nat \cup {None}
          BY LimitAssumption
        <5>2. QED
          BY <3>2, <5>1, Zenon
      <4>3. QED
        BY <4>1, <4>2
    <3>5. QED
      BY <3>1, <3>2, <3>3, <3>4 DEF Amounts
  <2>2. Attributed /\ Estimated
    BY <1>1 DEF Init, Attributed, Estimated
  <2>3. Awaiting
    BY DEF Init, Awaiting, Off
  <2>4. QED
    BY <2>1, <2>2, <2>3
<1>3. Total(Claims, {}) = 0 /\ Total(worth, {}) = 0 /\ Total(worth, Requests) = 0
  <2>1. Total(Claims, {}) = 0 /\ Total(worth, {}) = 0
    BY FS_EmptySet, TotalStep
  <2> DEFINE T == {S \in SUBSET Requests : Total(worth, S) # 0}
  <2>2. SUFFICES ASSUME T # {} PROVE FALSE
    BY <2>1
  <2>3. PICK S \in T : \A R \in T : R \subseteq S => R = S
    <3>1. T \subseteq SUBSET Requests
      OBVIOUS
    <3> HIDE DEF T
    <3>2. QED
      BY <2>2, <3>1, RequestsFinite, SmallestSet
  <2>4. S \in SUBSET Requests /\ IsFiniteSet(S) /\ Total(worth, S) # 0
    BY <2>3, RequestsFinite
  <2>5. S # {}
    BY <2>1, <2>4
  <2>6. Pick(S) \in S /\ Total(worth, S) = worth[Pick(S)] + Total(worth, S \ {Pick(S)})
    BY <2>4, <2>5, Picked, TotalStep
  <2>7. Total(worth, S \ {Pick(S)}) = 0
    BY <2>3, <2>6
  <2>8. QED
    BY <1>1, <2>4, <2>6, <2>7
<1>4. Balanced
  <2>1. project.used = 0 /\ \A r \in Runs : run[r].used = 0
    BY DEF Init
  <2>2. \A r \in Runs : Load(r) = 0 /\ Total(worth, RequestsOf(r)) = 0
    BY <1>1, <1>3, <2>1 DEF Load
  <2>3. ProjectLoad = 0
    BY <1>1, <1>3, <2>1 DEF ProjectLoad
  <2>4. QED
    BY <1>3, <2>2, <2>3 DEF Balanced
<1>5. QED
  BY <1>2, <1>4 DEF Metered

LEMMA MeteredStep ==
  ASSUME IInv, IInv', Metered, [Next]_vars
  PROVE  Metered' /\ AllowanceKept
<1>1. ASSUME NEW s \in Spans, Turn(s) PROVE Metered' /\ AllowanceKept
  <2>1. CASE \/ Stopped(s) \/ Refused(s) \/ SettleFails(s)
             \/ \E exit \in Final : EndTurn(s, exit)
    BY <2>1, CountedStreamEnds, StillStep
  <2>2. CASE \E q \in Requests, estimate \in 1..MaxEstimate : Reserve(s, q, estimate)
    BY <2>2, CountedReserve
  <2>3. CASE \E amount \in 1..(MaxEstimate + Excess) : Settle(s, amount)
    BY <2>3, CountedSettle
  <2>4. CASE SettleUnknown(s) \/ CloseProvider(s)
    BY <2>4, CountedUncertain, StillStep
  <2>5. CASE BeginAction(s) \/ FinishAction(s) \/ Finish(s)
    BY <2>5, CountedWork, StillStep
  <2>6. QED
    BY <1>1, <2>1, <2>2, <2>3, <2>4, <2>5 DEF Turn
<1>2. ASSUME NEW s \in Spans, Review(s) PROVE Metered' /\ AllowanceKept
  <2>1. CASE \E p \in Procs, extra, projectExtra \in 0..1, removeLimits \in BOOLEAN :
               Authorize(s, p, extra, projectExtra, removeLimits)
    BY <2>1, CountedAuthorize
  <2>2. CASE ResumeRefused(s)
    BY <2>2, CountedStreamEnds, StillStep
  <2>3. CASE Resume(s) \/ ContinuationFails(s) \/ Stop(s)
    BY <2>3, CountedWork, StillStep
  <2>4. QED
    BY <1>2, <2>1, <2>2, <2>3 DEF Review
<1>3. CASE \E s \in Spans, r \in Runs, p \in Procs, limit \in {None} \cup 0..MaxLimit : Begin(s, r, p, limit)
  BY <1>3, CountedBegin, StillStep
<1>4. ASSUME NEW r \in Runs, AcceptUsage(r) PROVE Metered' /\ AllowanceKept
  BY <1>4, CountedAccept
<1>5. CASE \/ \E r \in Runs : SpanLimit(r)
           \/ \E r \in Runs, limit \in Limits : SetRunBudget(r, limit)
           \/ \E limit \in Limits : SetProjectBudget(limit)
  BY <1>5, CountedLimits, StillStep
<1>6. CASE \E p \in Procs : Crash(p)
  BY <1>6, CountedCrash, StillStep
<1>7. CASE Recover
  BY <1>7, CountedRecover, StillStep
<1>8. CASE UNCHANGED vars
  <2>1. RequestsKept /\ UsageKept /\ WaitsKept
    BY <1>8, SameRequests DEF vars, ledger
  <2>2. Amounts'
    BY <1>8 DEF vars, ledger, Metered, Amounts
  <2>3. QED
    BY <2>1, <2>2, StillStep
<1>9. QED
  BY <1>1, <1>2, <1>3, <1>4, <1>5, <1>6, <1>7, <1>8 DEF Next

LEMMA MeteredAlways == Spec => [](IInv /\ Metered)
<1>1. Init => IInv /\ Metered
  BY Initially, InitMetered
<1>2. IInv /\ Metered /\ [Next]_vars => (IInv /\ Metered)'
  BY Inductive, MeteredStep
<1>3. QED
  BY <1>1, <1>2, PTL DEF Spec

\* Every request counts exactly once against its run and its project, however
\* many there are: with its estimate while its usage is unknown, whatever its
\* process or the user's review does with it, then with what was reported.
THEOREM EveryRequestIsCounted == Spec => []Accounted
<1>1. IInv /\ Metered => Accounted
  BY AccountedIsBalanced DEF Metered
<1>2. QED
  BY <1>1, MeteredAlways, PTL

\* However many runs, spans and processes reserve at once, what is used and
\* reserved passes an allowance only when the allowance is changed or a provider
\* used more than its estimate.
THEOREM AllowancesHold == Spec => WithinAllowance
<1>1. IInv /\ Metered /\ [Next]_vars => AllowanceKept
  BY Inductive, MeteredStep
<1>2. [](IInv /\ Metered) /\ [][Next]_vars => [][AllowanceKept]_vars
  BY <1>1, PTL
<1>3. [][AllowanceKept]_vars => WithinAllowance
  BY PTL DEF WithinAllowance, AllowanceKept
<1>4. QED
  BY <1>2, <1>3, MeteredAlways, PTL DEF Spec


-----------------------------------------------------------------------------
(* Types: what the invariants leave unsaid                                 *)

RunRecords == [status : RunStatuses, limit : Nat \cup {None}, used : Nat]
StreamRecords == [pc : {"off", "authorized", "on", "closing", "finish"}, bounded : BOOLEAN,
                  request : Requests \cup {None}, exit : Final \cup {"paused"}]

RunsTyped == run \in [Runs -> RunRecords]
ProjectTyped == project \in [limit : Nat \cup {None}, used : Nat]
ReceiptsTyped == \A s \in Spans : \A i \in DOMAIN Calls(s) : Calls(s)[i].gen <= span[s].gen
EstimatesTyped == \A q \in Requests : request[q].estimate \in 0..MaxEstimate
StreamsTyped == stream \in [Spans -> StreamRecords]
Typed ==
    RunsTyped /\ ProjectTyped /\ ReceiptsTyped /\ EstimatesTyped /\ StreamsTyped /\ alive \subseteq Procs

\* What a step may write of a run.
LEMMA RunsStayTyped ==
  ASSUME IInv, RunsTyped, Next, Amounts'
  PROVE  RunsTyped'
<1>1. ASSUME NEW r, NEW e, run' = [run EXCEPT ![r] = e], r \in Runs => e \in RunRecords
      PROVE  RunsTyped'
  BY <1>1 DEF RunsTyped
<1>2. \A r \in Runs : /\ run[r] \in RunRecords
                      /\ run'[r].used \in Nat /\ run'[r].limit \in Nat \cup {None}
  BY DEF RunsTyped, Amounts
<1>3. ASSUME NEW r, NEW status \in RunStatuses, run' = [run EXCEPT ![r].status = status]
      PROVE  RunsTyped'
  <2>1. r \in Runs => [run[r] EXCEPT !.status = status] \in RunRecords
    BY <1>2, <1>3 DEF RunRecords
  <2>2. QED
    BY <1>1, <1>3, <2>1
<1>4. ASSUME NEW r, NEW limit, NEW status \in RunStatuses,
             run' = [run EXCEPT ![r].limit = limit, ![r].status = status]
      PROVE  RunsTyped'
  <2>1. ASSUME r \in Runs PROVE run'[r] \in RunRecords
    <3>1. run'[r] = [[run[r] EXCEPT !.limit = limit] EXCEPT !.status = status]
      BY <1>4, <2>1 DEF RunsTyped
    <3>2. run[r] \in RunRecords /\ run'[r].limit \in Nat \cup {None}
      BY <1>2, <2>1
    <3>3. run'[r].limit = limit
      BY <3>1, <3>2 DEF RunRecords
    <3>4. QED
      BY <3>1, <3>2, <3>3 DEF RunRecords
  <2>2. QED
    BY <1>4, <2>1 DEF RunsTyped
<1>5. ASSUME NEW r, NEW used, NEW status \in RunStatuses,
             run' = [run EXCEPT ![r].used = used, ![r].status = status]
      PROVE  RunsTyped'
  <2>1. ASSUME r \in Runs PROVE run'[r] \in RunRecords
    <3>1. run'[r] = [[run[r] EXCEPT !.used = used] EXCEPT !.status = status]
      BY <1>5, <2>1 DEF RunsTyped
    <3>2. run[r] \in RunRecords /\ run'[r].used \in Nat
      BY <1>2, <2>1
    <3>3. run'[r].used = used
      BY <3>1, <3>2 DEF RunRecords
    <3>4. QED
      BY <3>1, <3>2, <3>3 DEF RunRecords
  <2>2. QED
    BY <1>5, <2>1 DEF RunsTyped
<1>6. {"running", "paused", "ready"} \cup Final \subseteq RunStatuses
  BY DEF RunStatuses
<1>7. \A r \in Runs : run[r].status \in RunStatuses
  BY <1>2 DEF RunRecords
<1>8. \A s \in Spans : stream[s].exit \in Final \cup {"paused"}
  BY DEF IInv, Shape, StreamsShape
<1>9. ASSUME NEW s \in Spans, NEW status \in {"running", "paused", "ready", run[RunOf(s)].status} \cup Final,
             run' = [run EXCEPT ![RunOf(s)].status = status]
      PROVE  RunsTyped'
  <2>1. CASE RunOf(s) \in Runs
    BY <1>3, <1>6, <1>7, <1>9, <2>1
  <2>2. CASE RunOf(s) \notin Runs
    BY <1>1, <1>9, <2>2
  <2>3. QED
    BY <2>1, <2>2
<1>10. CASE run' = run
  BY <1>10 DEF RunsTyped
<1>11. ASSUME NEW s \in Spans, NEW exit \in Final \cup {"paused"}, FinishSpan(s, exit)
       PROVE  RunsTyped'
  <2>1. \E status \in {exit, "paused", run[RunOf(s)].status} :
           run' = [run EXCEPT ![RunOf(s)].status = status]
    BY <1>11 DEF FinishSpan
  <2>2. QED
    BY <1>9, <1>11, <2>1
<1>12. CASE \E s \in Spans : Turn(s)
  <2> PICK s \in Spans : Turn(s)
    BY <1>12
  <2>1. CASE Finish(s)
    <3>1. FinishSpan(s, stream[s].exit) \/ run' = run
      BY <2>1 DEF Finish
    <3>2. QED
      BY <1>8, <1>10, <1>11, <3>1
  <2>2. CASE \E amount \in 1..(MaxEstimate + Excess) : Settle(s, amount)
    <3>1. \E used, status : /\ run' = [run EXCEPT ![RunOf(s)].used = used, ![RunOf(s)].status = status]
                            /\ status \in {"paused", run[RunOf(s)].status}
      BY <2>2 DEF Settle
    <3>2. CASE RunOf(s) \in Runs
      BY <1>5, <1>6, <1>7, <3>1, <3>2
    <3>3. CASE RunOf(s) \notin Runs
      <4>1. run' = run
        BY <3>1, <3>3 DEF RunsTyped
      <4>2. QED
        BY <1>10, <4>1
    <3>4. QED
      BY <3>2, <3>3
  <2>3. CASE ~Finish(s) /\ ~\E amount \in 1..(MaxEstimate + Excess) : Settle(s, amount)
    <3>1. \/ run' = run
          \/ \E status \in {"paused", "running"} : run' = [run EXCEPT ![RunOf(s)].status = status]
      BY <2>3 DEF Turn, Stopped, Refused, Reserve, SettleUnknown, SettleFails, BeginAction,
         FinishAction, EndTurn, CloseProvider, Pause, Uncertain, ledger
    <3>2. QED
      BY <1>9, <1>10, <3>1
  <2>4. QED
    BY <2>1, <2>2, <2>3
<1>13. CASE \E s \in Spans : Review(s)
  <2> PICK s \in Spans : Review(s)
    BY <1>13
  <2>1. CASE Stop(s)
    <3>1. FinishSpan(s, "cancelled")
      BY <2>1 DEF Stop
    <3>2. QED
      BY <1>11, <3>1 DEF Final
  <2>2. CASE ~Stop(s)
    <3>1. \/ run' = run
          \/ \E status \in {"paused", "running"} : run' = [run EXCEPT ![RunOf(s)].status = status]
          \/ \E used, limit : run' = [run EXCEPT ![RunOf(s)] =
                                        [status |-> "ready", used |-> used, limit |-> limit]]
      BY <2>2 DEF Review, Authorize, Resume, ResumeRefused, ContinuationFails, Pause, ledger
    <3>2. ASSUME NEW used, NEW limit,
                 run' = [run EXCEPT ![RunOf(s)] = [status |-> "ready", used |-> used, limit |-> limit]]
          PROVE  RunsTyped'
      <4>1. ASSUME RunOf(s) \in Runs
            PROVE  [status |-> "ready", used |-> used, limit |-> limit] \in RunRecords
        <5>1. run'[RunOf(s)] = [status |-> "ready", used |-> used, limit |-> limit]
          BY <3>2, <4>1 DEF RunsTyped
        <5>2. used \in Nat /\ limit \in Nat \cup {None}
          BY <1>2, <4>1, <5>1
        <5>3. QED
          BY <1>6, <5>2 DEF RunRecords
      <4>2. QED
        BY <1>1, <3>2, <4>1
    <3>3. QED
      BY <1>9, <1>10, <3>1, <3>2
  <2>3. QED
    BY <2>1, <2>2
<1>14. CASE \E s \in Spans, r \in Runs, p \in Procs, limit \in {None} \cup 0..MaxLimit :
               Begin(s, r, p, limit)
  <2>1. PICK r, limit : run' = [run EXCEPT ![r].limit = limit,
                                          ![r].status = IF @ = "paused" THEN @ ELSE "running"]
    BY <1>14 DEF Begin
  <2>2. PICK status : /\ run' = [run EXCEPT ![r].limit = limit, ![r].status = status]
                      /\ status \in RunStatuses \/ r \notin Runs
    <3>1. CASE r \in Runs
      <4>1. [run[r] EXCEPT !.limit = limit].status = run[r].status
        BY <1>2, <3>1 DEF RunRecords
      <4>2. QED
        BY <1>6, <1>7, <2>1, <3>1, <4>1
    <3>2. CASE r \notin Runs
      BY <2>1, <3>2
    <3>3. QED
      BY <3>1, <3>2
  <2>3. CASE status \in RunStatuses
    BY <1>4, <2>2, <2>3
  <2>4. CASE r \notin Runs
    BY <1>1, <2>2, <2>4
  <2>5. QED
    BY <2>2, <2>3, <2>4
<1>15. CASE \E r \in Runs : SpanLimit(r)
  BY <1>3, <1>6, <1>15 DEF SpanLimit, Pause
<1>16. CASE \E r \in Runs : AcceptUsage(r)
  <2>1. PICK r, used : r \in Runs /\ run' = [run EXCEPT ![r].used = used]
    BY <1>16 DEF AcceptUsage
  <2>2. run'[r] = [run[r] EXCEPT !.used = used] /\ run[r] \in RunRecords /\ run'[r].used \in Nat
    BY <1>2, <2>1 DEF RunsTyped
  <2>3. [run[r] EXCEPT !.used = used] \in RunRecords
    BY <2>2 DEF RunRecords
  <2>4. QED
    BY <1>1, <2>1, <2>3
<1>17. CASE \E r \in Runs, limit \in Limits : SetRunBudget(r, limit)
  <2>1. PICK r, limit : r \in Runs /\ run' = [run EXCEPT ![r].limit = limit]
    BY <1>17 DEF SetRunBudget
  <2>2. run'[r] = [run[r] EXCEPT !.limit = limit] /\ run[r] \in RunRecords
        /\ run'[r].limit \in Nat \cup {None}
    BY <1>2, <2>1 DEF RunsTyped
  <2>3. [run[r] EXCEPT !.limit = limit] \in RunRecords
    BY <2>2 DEF RunRecords
  <2>4. QED
    BY <1>1, <2>1, <2>3
<1>18. CASE (\E limit \in Limits : SetProjectBudget(limit)) \/ (\E p \in Procs : Crash(p))
  BY <1>10, <1>18 DEF SetProjectBudget, Crash, ledger
<1>19. CASE Recover
  <2>1. PICK touched : run' = [r \in Runs |-> IF r \in touched THEN [run[r] EXCEPT !.status = "paused"]
                                              ELSE run[r]]
    BY <1>19 DEF Recover
  <2>2. \A r \in Runs : [run[r] EXCEPT !.status = "paused"] \in RunRecords
    BY <1>2, <1>6 DEF RunRecords
  <2>3. QED
    BY <1>2, <2>1, <2>2 DEF RunsTyped
<1>20. QED
  BY <1>12, <1>13, <1>14, <1>15, <1>16, <1>17, <1>18, <1>19 DEF Next

\* What a step may write of the project.
LEMMA ProjectStaysTyped ==
  ASSUME IInv, ProjectTyped, Next, Amounts'
  PROVE  ProjectTyped'
<1>1. \/ project' = project
      \/ \E used : project' = [project EXCEPT !.used = used]
      \/ \E limit : project' = [project EXCEPT !.limit = limit]
      \/ \E used, limit : project' = [[project EXCEPT !.used = used] EXCEPT !.limit = limit]
  <2>1. CASE \E s \in Spans : Turn(s)
    BY <2>1 DEF Turn, Stopped, Refused, Reserve, Settle, SettleUnknown, SettleFails, BeginAction,
       FinishAction, EndTurn, CloseProvider, Finish, ProjectCharged, ledger
  <2>2. CASE \E s \in Spans : Review(s)
    BY <2>2 DEF Review, Authorize, Resume, ResumeRefused, ContinuationFails, Stop, ProjectCharged, ledger
  <2>3. CASE ~(\E s \in Spans : Turn(s) \/ Review(s))
    BY <2>3 DEF Next, Begin, SpanLimit, AcceptUsage, SetRunBudget, SetProjectBudget, Crash, Recover,
       ProjectCharged, ledger
  <2>4. QED
    BY <2>1, <2>2, <2>3
<1>2. project'.used \in Nat /\ project'.limit \in Nat \cup {None}
  BY DEF Amounts
<1>3. QED
  BY <1>1, <1>2 DEF ProjectTyped

\* A receipt bears a generation the span has had.
LEMMA ReceiptsStayTyped ==
  ASSUME IInv, ReceiptsTyped, Next
  PROVE  ReceiptsTyped'
<1>1. /\ \A s \in Spans : span[s].gen \in Nat /\ Calls(s) \in Seq(Receipt)
                          /\ DOMAIN span[s] = {"run", "status", "gen", "owner", "actions"}
      /\ DOMAIN span = Spans
  BY DEF IInv, Shape, SpansShape, Calls
<1>2. ASSUME \A s \in Spans : span'[s].actions = span[s].actions /\ span'[s].gen = span[s].gen
      PROVE  ReceiptsTyped'
  BY <1>2 DEF ReceiptsTyped, Calls
<1>3. CASE \E s \in Spans : BeginAction(s)
  <2> PICK s \in Spans : BeginAction(s)
    BY <1>3
  <2>1. PICK new : /\ span' = [span EXCEPT ![s].actions = Append(@, new)]
                   /\ new = [gen |-> span[s].gen, status |-> "started"]
    BY DEF BeginAction
  <2>2. new \in Receipt /\ new.gen = span[s].gen
    BY <1>1, <2>1 DEF Receipt
  <2>3. span'[s].gen = span[s].gen /\ span'[s].actions = Append(span[s].actions, new)
    BY <1>1, <2>1
  <2>4. \A t \in Spans : t # s => span'[t].gen = span[t].gen /\ span'[t].actions = span[t].actions
    BY <1>1, <2>1
  <2>5. ASSUME NEW i \in DOMAIN span'[s].actions PROVE span'[s].actions[i].gen <= span[s].gen
    <3>1. span[s].actions \in Seq(Receipt)
      BY <1>1 DEF Calls
    <3>2. \/ i \in DOMAIN span[s].actions /\ span'[s].actions[i] = span[s].actions[i]
          \/ span'[s].actions[i] = new
      BY <2>2, <2>3, <3>1
    <3>3. QED
      BY <1>1, <2>2, <3>2 DEF ReceiptsTyped, Calls
  <2>6. QED
    BY <2>3, <2>4, <2>5 DEF ReceiptsTyped, Calls
<1>4. CASE \E s \in Spans : FinishAction(s)
  <2> PICK s \in Spans : FinishAction(s)
    BY <1>4
  <2>1. PICK k \in DOMAIN Calls(s) : span' = [span EXCEPT ![s].actions[k].status = "done"]
    <3>1. Calls(s) \in Seq(Receipt) /\ Len(Calls(s)) > 0
      BY <1>1 DEF FinishAction
    <3>2. Len(Calls(s)) \in DOMAIN Calls(s)
      BY <3>1
    <3>3. QED
      BY <3>2 DEF FinishAction
  <2>2. span'[s].gen = span[s].gen /\ span'[s].actions = [span[s].actions EXCEPT ![k].status = "done"]
    BY <1>1, <2>1
  <2>3. \A t \in Spans : t # s => span'[t].gen = span[t].gen /\ span'[t].actions = span[t].actions
    BY <1>1, <2>1
  <2>4. ASSUME NEW i \in DOMAIN span'[s].actions
        PROVE  i \in DOMAIN span[s].actions /\ span'[s].actions[i].gen = span[s].actions[i].gen
    <3>1. span[s].actions \in Seq(Receipt)
      BY <1>1 DEF Calls
    <3>2. i \in DOMAIN span[s].actions
      BY <2>2
    <3>3. span[s].actions[i] \in Receipt
      BY <3>1, <3>2
    <3>4. QED
      BY <2>2, <3>2, <3>3 DEF Receipt
  <2>5. ASSUME NEW i \in DOMAIN span'[s].actions PROVE span'[s].actions[i].gen <= span'[s].gen
    BY <2>2, <2>4, <2>5 DEF ReceiptsTyped, Calls
  <2>6. QED
    BY <2>3, <2>5 DEF ReceiptsTyped, Calls
<1>5. CASE \E s \in Spans, p \in Procs, extra, projectExtra \in 0..1, removeLimits \in BOOLEAN :
              Authorize(s, p, extra, projectExtra, removeLimits)
  <2> PICK s \in Spans, p \in Procs, extra \in 0..1, projectExtra \in 0..1, removeLimits \in BOOLEAN :
             Authorize(s, p, extra, projectExtra, removeLimits)
    BY <1>5
  <2>1. PICK repeat : span' = [span EXCEPT ![s] = Continued(@, p, repeat)]
    BY DEF Authorize
  <2>2. /\ span'[s].gen = span[s].gen + 1
        /\ span'[s].actions = Reviewed(span[s].actions, repeat)
    BY <1>1, <2>1 DEF Continued
  <2>3. \A t \in Spans : t # s => span'[t].gen = span[t].gen /\ span'[t].actions = span[t].actions
    BY <1>1, <2>1
  <2>4. ASSUME NEW i \in DOMAIN span'[s].actions
        PROVE  i \in DOMAIN span[s].actions /\ span'[s].actions[i].gen = span[s].actions[i].gen
    <3>1. i \in DOMAIN span[s].actions
      BY <2>2 DEF Reviewed
    <3>2. span[s].actions[i] \in Receipt
      BY <1>1, <3>1 DEF Calls
    <3>3. \/ span'[s].actions[i] = span[s].actions[i]
          \/ \E status : span'[s].actions[i] = [span[s].actions[i] EXCEPT !.status = status]
      BY <2>2, <3>1 DEF Reviewed
    <3>4. QED
      BY <3>1, <3>2, <3>3 DEF Receipt
  <2>5. ASSUME NEW i \in DOMAIN span'[s].actions PROVE span'[s].actions[i].gen <= span'[s].gen
    <3>1. i \in DOMAIN span[s].actions /\ span[s].actions[i] \in Receipt
      BY <1>1, <2>4, <2>5 DEF Calls
    <3>2. span[s].actions[i].gen \in Nat /\ span[s].actions[i].gen <= span[s].gen
      BY <3>1 DEF ReceiptsTyped, Calls, Receipt
    <3>3. QED
      BY <1>1, <2>2, <2>4, <2>5, <3>2
  <2>6. QED
    BY <2>3, <2>5 DEF ReceiptsTyped, Calls
<1>6. CASE \E s \in Spans : ~BeginAction(s) /\ ~FinishAction(s) /\ Turn(s)
  <2> PICK s \in Spans : ~BeginAction(s) /\ ~FinishAction(s) /\ Turn(s)
    BY <1>6
  <2>1. span' = span \/ \E status : span' = [span EXCEPT ![s].status = status]
    BY DEF Turn, Stopped, Refused, Reserve, Settle, SettleUnknown, SettleFails, EndTurn,
       CloseProvider, Finish, FinishSpan, ledger
  <2>2. QED
    BY <1>1, <1>2, <2>1
<1>7. CASE \E s \in Spans : Resume(s) \/ ResumeRefused(s) \/ ContinuationFails(s) \/ Stop(s)
  <2> PICK s \in Spans : Resume(s) \/ ResumeRefused(s) \/ ContinuationFails(s) \/ Stop(s)
    BY <1>7
  <2>1. span' = span \/ \E status : span' = [span EXCEPT ![s].status = status]
    BY DEF Resume, ResumeRefused, ContinuationFails, Stop, FinishSpan, ledger
  <2>2. QED
    BY <1>1, <1>2, <2>1
<1>8. CASE \E s \in Spans, r \in Runs, p \in Procs, limit \in {None} \cup 0..MaxLimit :
              Begin(s, r, p, limit)
  <2>1. PICK s, r, p, limit : Begin(s, r, p, limit)
    BY <1>8
  <2>2. span' = [span EXCEPT ![s].run = r, ![s].status = "running", ![s].owner = p]
    BY <2>1 DEF Begin
  <2>3. QED
    BY <1>1, <1>2, <2>2
<1>9. CASE \/ \E r \in Runs : SpanLimit(r) \/ AcceptUsage(r)
           \/ \E r \in Runs, limit \in Limits : SetRunBudget(r, limit)
           \/ \E limit \in Limits : SetProjectBudget(limit)
           \/ \E p \in Procs : Crash(p)
  <2>1. span' = span
    BY <1>9 DEF SpanLimit, AcceptUsage, SetRunBudget, SetProjectBudget, Crash, ledger
  <2>2. QED
    BY <1>2, <2>1
<1>10. CASE Recover
  <2>1. span' = [s \in Spans |-> IF Interrupted(s) THEN [span[s] EXCEPT !.status = "paused"] ELSE span[s]]
    BY <1>10 DEF Recover
  <2>2. QED
    BY <1>1, <1>2, <2>1
<1>11. QED
  BY <1>3, <1>4, <1>5, <1>6, <1>7, <1>8, <1>9, <1>10 DEF Next, Review

\* Only a reservation writes an estimate.
LEMMA EstimatesStayTyped ==
  ASSUME IInv, EstimatesTyped, Next
  PROVE  EstimatesTyped'
<1>1. /\ DOMAIN request = Requests
      /\ \A q \in Requests : DOMAIN request[q] = {"span", "estimate", "status"}
  BY DEF IInv, Shape, RequestsShape
<1>2. ASSUME \A q \in Requests : request'[q].estimate = request[q].estimate PROVE EstimatesTyped'
  BY <1>2 DEF EstimatesTyped
<1>3. CASE \E s \in Spans, q \in Requests, estimate \in 1..MaxEstimate : Reserve(s, q, estimate)
  <2> PICK s \in Spans, q \in Requests, estimate \in 1..MaxEstimate : Reserve(s, q, estimate)
    BY <1>3
  <2>1. request' = [request EXCEPT ![q] = [span |-> s, estimate |-> estimate, status |-> "reserved"]]
    BY DEF Reserve
  <2>2. estimate \in 0..MaxEstimate
    BY BoundsAssumption
  <2>3. QED
    BY <1>1, <2>1, <2>2 DEF EstimatesTyped
<1>4. CASE \E r : Reconcile(r)
  BY <1>1, <1>2, <1>4 DEF Reconcile
<1>5. CASE \E q, status : request' = [request EXCEPT ![q].status = status]
  BY <1>1, <1>2, <1>5
<1>6. CASE request' = request
  BY <1>2, <1>6
<1>7. CASE Recover
  <2>1. \A q \in Requests : \/ request'[q] = request[q]
                            \/ request'[q] = [request[q] EXCEPT !.status = Retained]
    BY <1>7 DEF Recover
  <2>2. QED
    BY <1>1, <1>2, <2>1
<1>8. CASE \E s \in Spans : Turn(s)
  <2> PICK s \in Spans : Turn(s)
    BY <1>8
  <2>1. CASE \E amount \in 1..(MaxEstimate + Excess) : Settle(s, amount)
    BY <1>5, <2>1 DEF Settle
  <2>2. CASE SettleUnknown(s) \/ CloseProvider(s)
    BY <1>5, <1>6, <2>2 DEF SettleUnknown, CloseProvider, Uncertain
  <2>3. CASE Stopped(s) \/ Refused(s) \/ SettleFails(s) \/ BeginAction(s) \/ FinishAction(s)
             \/ (\E exit \in Final : EndTurn(s, exit)) \/ Finish(s)
    <3>1. request' = request
      BY <2>3 DEF Stopped, Refused, SettleFails, BeginAction, FinishAction, EndTurn, Finish, ledger
    <3>2. QED
      BY <1>6, <3>1
  <2>4. QED
    BY <1>3, <2>1, <2>2, <2>3 DEF Turn
<1>9. CASE \E s \in Spans : Review(s)
  <2>1. (\E r : Reconcile(r)) \/ request' = request
    BY <1>9 DEF Review, Authorize, Resume, ResumeRefused, ContinuationFails, Stop, ledger
  <2>2. QED
    BY <1>4, <1>6, <2>1
<1>10. CASE \E r \in Runs : AcceptUsage(r)
  BY <1>4, <1>10 DEF AcceptUsage
<1>11. CASE \/ \E s \in Spans, r \in Runs, p \in Procs, limit \in {None} \cup 0..MaxLimit :
                  Begin(s, r, p, limit)
            \/ \E r \in Runs : SpanLimit(r)
            \/ \E r \in Runs, limit \in Limits : SetRunBudget(r, limit)
            \/ \E limit \in Limits : SetProjectBudget(limit)
            \/ \E p \in Procs : Crash(p)
  <2>1. request' = request
    BY <1>11 DEF Begin, SpanLimit, SetRunBudget, SetProjectBudget, Crash, ledger
  <2>2. QED
    BY <1>6, <2>1
<1>12. QED
  BY <1>7, <1>8, <1>9, <1>10, <1>11 DEF Next

\* What a step may write of what a process does.
LEMMA StreamsStayTyped ==
  ASSUME IInv, StreamsTyped, Next, IInv'
  PROVE  StreamsTyped'
<1>1. /\ DOMAIN stream = Spans
      /\ \A s \in Spans : stream[s] \in StreamRecords
  BY DEF StreamsTyped
<1>2. \A s \in Spans :
         /\ stream'[s].pc \in {"off", "authorized", "on", "closing", "finish"}
         /\ stream'[s].exit \in Final \cup {"paused"}
         /\ stream'[s].request \in Requests \cup {None}
  BY DEF IInv, Shape, StreamsShape
<1>3. Off \in StreamRecords
  BY DEF Off, StreamRecords, Final
<1>4. ASSUME NEW s \in Spans, stream' = [stream EXCEPT ![s] = Off]
      PROVE  StreamsTyped'
  BY <1>1, <1>3, <1>4 DEF StreamsTyped
<1>5. ASSUME stream' = stream PROVE StreamsTyped'
  BY <1>5 DEF StreamsTyped
<1>6. ASSUME NEW s \in Spans, NEW pc, NEW q, NEW exit, NEW bounded \in BOOLEAN,
             \/ stream' = [stream EXCEPT ![s].pc = pc, ![s].exit = exit]
             \/ stream' = [stream EXCEPT ![s].pc = pc, ![s].exit = exit, ![s].request = q]
             \/ stream' = [stream EXCEPT ![s].request = q]
             \/ stream' = [stream EXCEPT ![s].pc = pc, ![s].request = q]
             \/ stream' = [stream EXCEPT ![s].pc = pc]
             \/ stream' = [stream EXCEPT ![s].pc = pc, ![s].bounded = bounded]
      PROVE  StreamsTyped'
  <2>1. PICK old : old = stream[s]
    OBVIOUS
  <2>2. old \in StreamRecords /\ old.bounded \in BOOLEAN
    BY <1>1, <2>1 DEF StreamRecords
  <2>3. old = [pc |-> old.pc, bounded |-> old.bounded, request |-> old.request, exit |-> old.exit]
    BY <2>2 DEF StreamRecords
  <2>4. \/ stream' = [stream EXCEPT ![s] = [[old EXCEPT !.pc = pc] EXCEPT !.exit = exit]]
        \/ stream' = [stream EXCEPT ![s] = [[[old EXCEPT !.pc = pc] EXCEPT !.exit = exit] EXCEPT !.request = q]]
        \/ stream' = [stream EXCEPT ![s] = [old EXCEPT !.request = q]]
        \/ stream' = [stream EXCEPT ![s] = [[old EXCEPT !.pc = pc] EXCEPT !.request = q]]
        \/ stream' = [stream EXCEPT ![s] = [old EXCEPT !.pc = pc]]
        \/ stream' = [stream EXCEPT ![s] = [[old EXCEPT !.pc = pc] EXCEPT !.bounded = bounded]]
    BY <1>1, <1>6, <2>1
  <2>5. PICK new : new = stream'[s]
    OBVIOUS
  <2>6. \/ new = [[old EXCEPT !.pc = pc] EXCEPT !.exit = exit]
        \/ new = [[[old EXCEPT !.pc = pc] EXCEPT !.exit = exit] EXCEPT !.request = q]
        \/ new = [old EXCEPT !.request = q]
        \/ new = [[old EXCEPT !.pc = pc] EXCEPT !.request = q]
        \/ new = [old EXCEPT !.pc = pc]
        \/ new = [[old EXCEPT !.pc = pc] EXCEPT !.bounded = bounded]
    BY <1>1, <2>4, <2>5
  <2>7. /\ new.pc \in {"off", "authorized", "on", "closing", "finish"}
        /\ new.exit \in Final \cup {"paused"}
        /\ new.request \in Requests \cup {None}
    BY <1>2, <2>5
  <2>8. new \in StreamRecords
    BY <2>2, <2>6, <2>7 DEF StreamRecords
  <2>9. stream' = [stream EXCEPT ![s] = new]
    BY <1>1, <2>4, <2>5
  <2>10. QED
    BY <1>1, <2>8, <2>9 DEF StreamsTyped
<1>7. CASE \E s \in Spans : Turn(s)
  <2> PICK s \in Spans : Turn(s)
    BY <1>7
  <2>1. CASE Finish(s)
    BY <1>4, <2>1 DEF Finish
  <2>2. CASE ~Finish(s)
    <3>1. \/ stream' = stream
          \/ \E exit : stream' = [stream EXCEPT ![s].pc = "closing", ![s].exit = exit]
          \/ \E exit : stream' = [stream EXCEPT ![s].pc = "closing", ![s].exit = exit,
                                                ![s].request = None]
          \/ \E q : stream' = [stream EXCEPT ![s].request = q]
          \/ stream' = [stream EXCEPT ![s].pc = "finish", ![s].request = None]
      BY <2>2 DEF Turn, Stopped, Refused, Reserve, Settle, SettleUnknown, SettleFails, BeginAction,
         FinishAction, EndTurn, CloseProvider, Leave, LeaveWithout
    <3>2. ASSUME NEW exit, stream' = [stream EXCEPT ![s].pc = "closing", ![s].exit = exit]
          PROVE  StreamsTyped'
      BY <1>6, <3>2
    <3>3. ASSUME NEW exit,
                 stream' = [stream EXCEPT ![s].pc = "closing", ![s].exit = exit, ![s].request = None]
          PROVE  StreamsTyped'
      BY <1>6, <3>3
    <3>4. ASSUME NEW q, stream' = [stream EXCEPT ![s].request = q] PROVE StreamsTyped'
      BY <1>6, <3>4
    <3>5. ASSUME stream' = [stream EXCEPT ![s].pc = "finish", ![s].request = None]
          PROVE  StreamsTyped'
      BY <1>6, <3>5
    <3>6. QED
      BY <1>5, <3>1, <3>2, <3>3, <3>4, <3>5
  <2>3. QED
    BY <2>1, <2>2
<1>8. CASE \E s \in Spans : Review(s)
  <2> PICK s \in Spans : Review(s)
    BY <1>8
  <2>1. \/ stream' = stream
        \/ stream' = [stream EXCEPT ![s] = Off]
        \/ stream' = [stream EXCEPT ![s].pc = "authorized"]
        \/ \E bounded \in BOOLEAN : stream' = [stream EXCEPT ![s].pc = "on", ![s].bounded = bounded]
    BY DEF Review, Authorize, Resume, ResumeRefused, ContinuationFails, Stop, Limited
  <2>2. QED
    BY <1>4, <1>5, <1>6, <2>1
<1>9. CASE \E s \in Spans, r \in Runs, p \in Procs, limit \in {None} \cup 0..MaxLimit :
              Begin(s, r, p, limit)
  <2>1. \E s \in Spans, bounded \in BOOLEAN :
           stream' = [stream EXCEPT ![s].pc = "on", ![s].bounded = bounded]
    BY <1>9 DEF Begin, Limited
  <2>2. QED
    BY <1>6, <2>1
<1>10. CASE \E p \in Procs : Crash(p)
  <2>1. \E p : stream' = [s \in Spans |-> IF span[s].owner = p THEN Off ELSE stream[s]]
    BY <1>10 DEF Crash
  <2>2. QED
    BY <1>1, <1>3, <2>1 DEF StreamsTyped
<1>11. CASE \/ \E r \in Runs : SpanLimit(r) \/ AcceptUsage(r)
            \/ \E r \in Runs, limit \in Limits : SetRunBudget(r, limit)
            \/ \E limit \in Limits : SetProjectBudget(limit)
            \/ Recover
  BY <1>11 DEF StreamsTyped, SpanLimit, AcceptUsage, SetRunBudget, SetProjectBudget, Recover
<1>12. QED
  BY <1>7, <1>8, <1>9, <1>10, <1>11 DEF Next

\* The ledger, the processes and the history have their types, for any bounds.
THEOREM TypeCorrect == Spec => []TypeOK
<1>1. Init => Typed
  <2>1. ASSUME Init PROVE Typed
    <3>1. 0 \in 0..MaxEstimate
      BY BoundsAssumption
    <3>2. RunsTyped /\ ReceiptsTyped /\ EstimatesTyped
      BY <2>1, <3>1 DEF Init, RunsTyped, RunRecords, ReceiptsTyped, EstimatesTyped, RunStatuses, Calls
    <3>3. ProjectTyped
      <4>1. PICK limit \in Limits : project = [limit |-> limit, used |-> 0]
        BY <2>1 DEF Init
      <4>2. limit \in Nat \cup {None} /\ 0 \in Nat
        BY LimitAssumption
      <4>3. QED
        BY <4>1, <4>2 DEF ProjectTyped
    <3>4. StreamsTyped
      BY <2>1 DEF Init, StreamsTyped, StreamRecords, Off, Final
    <3>5. QED
      BY <2>1, <3>2, <3>3, <3>4 DEF Init, Typed
  <2>2. QED
    BY <2>1
<1>2. IInv /\ Typed /\ [Next]_vars /\ IInv' /\ Metered' => Typed'
  <2>1. ASSUME IInv, Typed, Next, IInv', Metered' PROVE Typed'
    <3>1. alive' \subseteq alive
      <4>1. alive' = alive \/ \E p \in Procs : Crash(p)
        <5>1. CASE \E s \in Spans : Turn(s)
          BY <5>1 DEF Turn, Stopped, Refused, Reserve, Settle, SettleUnknown, SettleFails,
             BeginAction, FinishAction, EndTurn, CloseProvider, Finish
        <5>2. CASE \E s \in Spans : Review(s)
          BY <5>2 DEF Review, Authorize, Resume, ResumeRefused, ContinuationFails, Stop
        <5>3. CASE ~(\E s \in Spans : Turn(s) \/ Review(s))
          BY <2>1, <5>3 DEF Next, Begin, SpanLimit, AcceptUsage, SetRunBudget, SetProjectBudget, Recover
        <5>4. QED
          BY <5>1, <5>2, <5>3
      <4>2. QED
        BY <4>1 DEF Crash
    <3>2. Amounts'
      BY <2>1 DEF Metered
    <3>3. QED
      BY <2>1, <3>1, <3>2, RunsStayTyped, ProjectStaysTyped, ReceiptsStayTyped, EstimatesStayTyped,
         StreamsStayTyped DEF Typed
  <2>2. ASSUME Typed, UNCHANGED vars PROVE Typed'
    BY <2>2 DEF vars, ledger, Typed, RunsTyped, ProjectTyped, ReceiptsTyped, EstimatesTyped,
       StreamsTyped, Calls
  <2>3. QED
    BY <2>1, <2>2
<1>3. IInv /\ Metered /\ Typed => TypeOK
  <2>1. ASSUME IInv, Metered, Typed PROVE TypeOK
    <3>1. /\ run \in [Runs -> [status : RunStatuses, limit : Nat \cup {None}, used : Nat]]
          /\ project \in [limit : Nat \cup {None}, used : Nat]
      BY <2>1 DEF Typed, RunsTyped, RunRecords, ProjectTyped
    <3>2. worth \in [Requests -> Nat]
      BY <2>1 DEF Metered, Amounts
    <3>3. ASSUME NEW s \in Spans
          PROVE  /\ span[s].run \in Runs \cup {None} /\ span[s].owner \in Procs \cup {None}
                 /\ span[s].status \in RunStatuses /\ span[s].gen \in Nat
                 /\ \A i \in DOMAIN Calls(s) :
                       Calls(s)[i] \in [gen : 0..span[s].gen,
                                        status : {"started", "done", "retry_authorized"}]
      <4>1. /\ span[s].run \in Runs \cup {None} /\ span[s].owner \in Procs \cup {None}
            /\ span[s].status \in RunStatuses /\ span[s].gen \in Nat /\ Calls(s) \in Seq(Receipt)
        BY <2>1 DEF IInv, Shape, SpansShape, Calls
      <4>2. ASSUME NEW i \in DOMAIN Calls(s)
            PROVE  Calls(s)[i] \in [gen : 0..span[s].gen,
                                    status : {"started", "done", "retry_authorized"}]
        <5>1. Calls(s)[i] \in Receipt
          BY <4>1
        <5>2. Calls(s)[i].gen <= span[s].gen
          BY <2>1 DEF Typed, ReceiptsTyped
        <5>3. Calls(s)[i].gen \in 0..span[s].gen
          BY <4>1, <5>1, <5>2 DEF Receipt
        <5>4. QED
          BY <5>1, <5>3 DEF Receipt
      <4>3. QED
        BY <4>1, <4>2
    <3>4. \A q \in Requests :
             /\ request[q].span \in Spans \cup {None} /\ request[q].estimate \in 0..MaxEstimate
             /\ request[q].status \in {"none", "reserved", "uncertain", "settled"}
      BY <2>1 DEF IInv, Shape, RequestsShape, Typed, EstimatesTyped
    <3>5. stream \in [Spans -> [pc : {"off", "authorized", "on", "closing", "finish"},
                                bounded : BOOLEAN, request : Requests \cup {None},
                                exit : Final \cup {"paused"}]]
      BY <2>1 DEF Typed, StreamsTyped, StreamRecords
    <3>6. QED
      BY <2>1, <3>1, <3>2, <3>3, <3>4, <3>5 DEF TypeOK, Typed
  <2>2. QED
    BY <2>1
<1>4. Spec => []Typed
  BY <1>1, <1>2, Invariance, MeteredAlways, PTL DEF Spec
<1>5. QED
  BY <1>3, <1>4, MeteredAlways, PTL
=============================================================================
