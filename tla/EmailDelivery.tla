--------------------------- MODULE EmailDelivery ---------------------------
(***************************************************************************)
(* sendEmailIdempotently of lib/email-idempotency.mjs: the guard that      *)
(* stands between the email tools and the mail provider.  One scope is     *)
(* modelled: a user message, whose turn may be retried under a new attempt *)
(* id, or one programmatic fire of a watcher or the scheduler.  Calls come *)
(* from several server processes, any of which may die at any step.        *)
(* The locks are those of FileLock: a holder that dies is displaced.       *)
(***************************************************************************)
EXTENDS Naturals, FiniteSets

CONSTANTS NCalls,       \* calls of sendEmailIdempotently, numbered as they start
          NAttempts,    \* attempts of the message: a Retry is the next one
          Procs,        \* server processes
          NPayloads,    \* canonical payloads, numbered as first requested
          MaxPayloads,  \* MAX_AUTHORIZED_PAYLOADS
          OldStatuses,  \* record statuses an older version may have left
          None

Calls == 1..NCalls
Attempts == 1..NAttempts
Payloads == 1..NPayloads
Fire == 0               \* the operation id of a single-operation scope
Legacy == 0             \* the attempt of a record without one

ASSUME CountsAssumption == {NCalls, NAttempts, NPayloads, MaxPayloads} \subseteq Nat
ASSUME NoneAssumption   == None \notin Nat \cup Procs

VARIABLES single,      \* this scope names one programmatic fire
          req,         \* req[c]: the process, attempt and payload of call c
          pc,
          leader,      \* leader[c]: the in-flight call whose promise c awaits
          answer,      \* answer[c]: what the caller is told
          rec,         \* rec[o]: status of the durable operation record
          auth,        \* the scope's authorization ledger
          scopeLock, opLock,   \* the call holding each file lock
          delivered,   \* delivered[o]: emails the provider accepted (history)
          dispatched   \* {<<attempt, payload>>} handed to the provider (history)

disk == <<rec, auth>>
locks == <<scopeLock, opLock>>
history == <<delivered, dispatched>>
vars == <<single, req, pc, leader, answer, disk, locks, history>>

Ops == Payloads \cup {Fire}

\* operationIdentity: a single-operation scope leaves the payload out.
Op(c) == IF single THEN Fire ELSE req[c].payload

Crossed == {"dispatching", "uncertain", "completed"}
Statuses == {"absent", "preflight"} \cup Crossed

ASSUME OldStatusesAssumption == "absent" \in OldStatuses /\ OldStatuses \subseteq Statuses

NoAuth == [origin |-> None, payloads |-> {}, sealed |-> FALSE]
HasAuth == auth # NoAuth

Labels == {"idle", "joined", "lockScope", "discard", "writeAuth", "lockOp",
           "send", "mark", "dispatch", "accepted", "threw", "finish",
           "ended", "lost"}
Answers == {"none", "sent", "duplicate", "uncertain", "refused", "error"}

\* The calls whose promise is in the _inflight map of their process.
InFlight(c) == pc[c] \notin {"idle", "joined", "ended", "lost"}

\* From the operation's lock being taken to its release.
InOperation == {"send", "mark", "dispatch", "accepted", "threw"}

\* An older version kept no authorization ledger, but may have left records.
Init ==
    /\ single \in BOOLEAN
    /\ req = [c \in Calls |-> [proc |-> None, attempt |-> None, payload |-> None]]
    /\ pc = [c \in Calls |-> "idle"]
    /\ leader = [c \in Calls |-> None]
    /\ answer = [c \in Calls |-> "none"]
    /\ rec \in [Ops -> OldStatuses]
    /\ \A o \in Ops : (o = Fire) # single => rec[o] = "absent"
    /\ auth = NoAuth
    /\ scopeLock = None /\ opLock = [o \in Ops |-> None]
    /\ delivered = [o \in Ops |-> IF rec[o] \in Crossed THEN 1 ELSE 0]
    /\ dispatched = {}

Go(c, from, to) == pc[c] = from /\ pc' = [pc EXCEPT ![c] = to]

\* The call settles without having entered the operation's lock, or from
\* inside it, where it still holds its locks.
Settled(c, from, to, text) ==
    /\ Go(c, from, to)
    /\ answer' = [answer EXCEPT ![c] = text]

Refused(c, from, text)  == Settled(c, from, "ended", text)
Answered(c, from, text) == Settled(c, from, "finish", text)

-----------------------------------------------------------------------------
\* A caller finds its operation in _inflight and awaits that promise, or
\* registers its own.  An attempt is a turn of one process and dies with it.
Begin(c, p, a, x) ==
    /\ pc[c] = "idle" /\ \A d \in 1..(c - 1) : pc[d] # "idle"
    /\ \A b \in 1..(a - 1) : \E d \in Calls : req[d].attempt = b
    /\ \A y \in 1..(x - 1) : \E d \in Calls : req[d].payload = y
    /\ \A d \in Calls : req[d].attempt = a => req[d].proc = p /\ pc[d] # "lost"
    /\ req' = [req EXCEPT ![c] = [proc |-> p, attempt |-> a, payload |-> x]]
    /\ LET o == IF single THEN Fire ELSE x
           active == {d \in Calls : InFlight(d) /\ req[d].proc = p /\ Op(d) = o}
       IN  \/ /\ active = {}
              /\ pc' = [pc EXCEPT ![c] = IF single THEN "lockOp" ELSE "lockScope"]
              /\ UNCHANGED leader
           \/ \E d \in active :
                /\ pc' = [pc EXCEPT ![c] = "joined"]
                /\ leader' = [leader EXCEPT ![c] = d]
    /\ UNCHANGED <<single, answer, disk, locks, history>>

\* A confirmed send is reported to those who share its promise as a duplicate,
\* anything else as it is.  (Broken: everything is a duplicate.)
SharedBlindly(text) == "duplicate"
Shared(text) == IF text \in {"sent", "duplicate"} THEN "duplicate" ELSE text

Joined(c) ==
    /\ Go(c, "joined", "ended")
    /\ pc[leader[c]] = "ended"
    /\ answer' = [answer EXCEPT ![c] = Shared(answer[leader[c]])]
    /\ UNCHANGED <<single, req, leader, disk, locks, history>>

LockTimeout(c) ==
    /\ \/ Refused(c, "lockScope", "error")
       \/ Answered(c, "lockOp", "error")
    /\ UNCHANGED <<single, req, leader, disk, locks, history>>

\* The ledger read from disk; the records of an older version are given one.
Ledger ==
    IF ~HasAuth /\ \E o \in Ops : rec[o] \in Crossed
    THEN [origin |-> Legacy, payloads |-> {x \in Payloads : rec[x] # "absent"},
          sealed |-> TRUE]
    ELSE auth

\* A Retry of a message that dispatched may only replay what was authorized and
\* recorded.  (Broken: it may replay anything.)
AnythingReplays(x, ledger) == TRUE
MayReplay(x, ledger) == x \in ledger.payloads /\ rec[x] # "absent"

\* The scope's lock is taken and the ledger checked under it.
CheckAuth(c) ==
    /\ pc[c] = "lockScope" /\ scopeLock = None
    /\ LET ledger == Ledger
           x == req[c].payload
           foreign == ledger # NoAuth /\ ledger.origin # req[c].attempt
       IN  /\ auth' = ledger
           /\ IF foreign /\ ledger.sealed /\ ~MayReplay(x, ledger)
              THEN /\ Refused(c, "lockScope",
                         IF x \notin ledger.payloads THEN "refused" ELSE "uncertain")
                   /\ UNCHANGED scopeLock
              ELSE /\ Go(c, "lockScope",
                         IF foreign /\ ~ledger.sealed THEN "discard" ELSE "writeAuth")
                   /\ scopeLock' = c
                   /\ UNCHANGED answer
    /\ UNCHANGED <<single, req, leader, rec, opLock, history>>

\* No dispatch boundary was crossed: the old attempt's claims go, and with them
\* its ledger.  (A record beyond preflight seals the ledger instead.)
Discard(c) ==
    /\ pc[c] = "discard"
    /\ IF \E o \in Ops : rec[o] \in Crossed
       THEN /\ auth' = [auth EXCEPT !.sealed = TRUE]
            /\ Refused(c, "discard", "uncertain")
            /\ scopeLock' = None
            /\ UNCHANGED rec
       ELSE /\ rec' = [o \in Ops |-> "absent"]
            /\ auth' = NoAuth
            /\ Go(c, "discard", "writeAuth")
            /\ UNCHANGED <<answer, scopeLock>>
    /\ UNCHANGED <<single, req, leader, opLock, history>>

WriteAuth(c) ==
    /\ pc[c] = "writeAuth"
    /\ LET x == req[c].payload
           own == IF HasAuth THEN auth ELSE [NoAuth EXCEPT !.origin = req[c].attempt]
       IN  IF x \notin own.payloads /\ Cardinality(own.payloads) >= MaxPayloads
           THEN /\ Refused(c, "writeAuth", "refused")
                /\ scopeLock' = None
                /\ UNCHANGED auth
           ELSE /\ auth' = [own EXCEPT !.payloads = @ \cup {x}]
                /\ Go(c, "writeAuth", "lockOp")
                /\ UNCHANGED <<answer, scopeLock>>
    /\ UNCHANGED <<single, req, leader, rec, opLock, history>>

\* What may have been dispatched.  (Broken: a record that a crash left marked
\* is taken for a claim.)
AmbiguousIfRecorded == {"uncertain"}
Ambiguous == {"dispatching", "uncertain"}

\* The operation's lock is taken.  A completed operation is replayed, an
\* ambiguous one is left alone, and a preflight claim, which only a crash can
\* leave, is taken over.
CheckRecord(c) ==
    /\ pc[c] = "lockOp" /\ opLock[Op(c)] = None
    /\ opLock' = [opLock EXCEPT ![Op(c)] = c]
    /\ CASE rec[Op(c)] = "completed" -> Answered(c, "lockOp", "duplicate") /\ UNCHANGED rec
         [] rec[Op(c)] \in Ambiguous ->
                Answered(c, "lockOp", "uncertain") /\ UNCHANGED rec
         [] OTHER -> /\ Go(c, "lockOp", "send")
                     /\ rec' = [rec EXCEPT ![Op(c)] = "preflight"]
                     /\ UNCHANGED answer
    /\ UNCHANGED <<single, req, leader, auth, scopeLock, history>>

\* The provider's own preflight (token, attachments, arguments) refuses or throws.
PreflightFails(c) ==
    /\ Answered(c, "send", "refused") \/ Answered(c, "send", "error")
    /\ rec' = [rec EXCEPT ![Op(c)] = "absent"]
    /\ UNCHANGED <<single, req, leader, auth, locks, history>>

\* markDispatchStarted: the ledger is sealed, then the record is marked.
Seal(c) ==
    /\ Go(c, "send", "mark")
    /\ auth' = IF single THEN auth ELSE [auth EXCEPT !.sealed = TRUE]
    /\ UNCHANGED <<single, req, leader, answer, rec, locks, history>>

Mark(c) ==
    /\ Go(c, "mark", "dispatch")
    /\ rec' = [rec EXCEPT ![Op(c)] = "dispatching"]
    /\ UNCHANGED <<single, req, leader, answer, auth, locks, history>>

\* The provider accepts the email, and its answer arrives or is lost.
Accept(c) ==
    /\ Go(c, "dispatch", "accepted") \/ Go(c, "dispatch", "threw")
    /\ delivered' = [delivered EXCEPT ![Op(c)] = @ + 1]
    /\ dispatched' = dispatched \cup {<<req[c].attempt, req[c].payload>>}
    /\ UNCHANGED <<single, req, leader, answer, disk, locks>>

\* The provider rejects it, or the request never arrives.
Reject(c) ==
    /\ Go(c, "dispatch", "threw")
    /\ dispatched' = dispatched \cup {<<req[c].attempt, req[c].payload>>}
    /\ UNCHANGED <<single, req, leader, answer, disk, locks, delivered>>

\* What is recorded when the provider's answer or error arrives.  (Broken: an
\* error clears the record.)
OutcomeCleared == [accepted |-> "completed", threw |-> "absent"]
Outcome == [accepted |-> "completed", threw |-> "uncertain"]

RecordOutcome(c) ==
    /\ Answered(c, "accepted", "sent") \/ Answered(c, "threw", "error")
    /\ rec' = [rec EXCEPT ![Op(c)] = Outcome[pc[c]]]
    /\ UNCHANGED <<single, req, leader, auth, locks, history>>

\* releaseOwnedLock.  (Broken: the lock stays with a caller that ended.)
LockKept(lock, c) == lock
Unlocked(lock, c) == IF lock = c THEN None ELSE lock

\* The locks are released, the operation's first; an unsealed ledger without
\* records is removed in between.
Finish(c) ==
    /\ Go(c, "finish", "ended")
    /\ opLock' = [o \in Ops |-> Unlocked(opLock[o], c)]
    /\ scopeLock' = Unlocked(scopeLock, c)
    /\ auth' = IF scopeLock = c /\ ~auth.sealed /\ \A o \in Ops : rec[o] = "absent"
               THEN NoAuth ELSE auth
    /\ UNCHANGED <<single, req, leader, answer, rec, history>>

\* The process dies and restarts with an empty _inflight map.
Crash(p) ==
    /\ \E c \in Calls : req[c].proc = p /\ pc[c] \notin {"ended", "lost"}
    /\ LET Dies(c) == req[c].proc = p
       IN  /\ pc' = [c \in Calls |->
                       IF Dies(c) /\ pc[c] # "ended" THEN "lost" ELSE pc[c]]
           /\ opLock' = [o \in Ops |-> IF opLock[o] # None /\ Dies(opLock[o])
                                       THEN None ELSE opLock[o]]
           /\ scopeLock' = IF scopeLock # None /\ Dies(scopeLock) THEN None ELSE scopeLock
    /\ UNCHANGED <<single, req, leader, answer, disk, history>>

-----------------------------------------------------------------------------
Step(c) ==
    \/ Joined(c) \/ CheckAuth(c) \/ Discard(c) \/ WriteAuth(c) \/ CheckRecord(c)
    \/ PreflightFails(c) \/ Seal(c) \/ Mark(c)
    \/ Accept(c) \/ Reject(c) \/ RecordOutcome(c) \/ Finish(c)

Next ==
    \/ \E c \in Calls : Step(c) \/ LockTimeout(c)
    \/ \E c \in Calls, p \in Procs, a \in Attempts, x \in Payloads : Begin(c, p, a, x)
    \/ \E p \in Procs : Crash(p)

\* A live process runs its calls and the provider's requests end.
Spec == Init /\ [][Next]_vars
EmailFairness == \A c \in Calls : WF_vars(Step(c))

-----------------------------------------------------------------------------
(* Properties                                                              *)

TypeOK ==
    /\ single \in BOOLEAN
    /\ req \in [Calls -> [proc : Procs \cup {None}, attempt : Attempts \cup {None},
                          payload : Payloads \cup {None}]]
    /\ pc \in [Calls -> Labels]
    /\ leader \in [Calls -> Calls \cup {None}]
    /\ answer \in [Calls -> Answers]
    /\ rec \in [Ops -> Statuses]
    /\ auth \in [origin : Attempts \cup {None, Legacy}, payloads : SUBSET Payloads,
                 sealed : BOOLEAN]
    /\ scopeLock \in Calls \cup {None}
    /\ opLock \in [Ops -> Calls \cup {None}]
    /\ delivered \in [Ops -> Nat]
    /\ dispatched \subseteq Attempts \X Payloads

\* Whatever is retried, by whom and after which crash: the provider accepts an
\* operation's email at most once.
AtMostOnce == \A o \in Ops : delivered[o] <= 1

\* A caller told that its email was sent, or was sent before, is told the truth.
SuccessIsTrue ==
    \A c \in Calls : answer[c] \in {"sent", "duplicate"} => delivered[Op(c)] = 1

Requested(a) == {req[c].payload : c \in {d \in Calls : req[d].attempt = a}}

\* Once a turn of the message has dispatched, a Retry adds nothing: a later
\* attempt only dispatches what an earlier one was asked to send.
RetryAddsNothing ==
    [][\A a \in Attempts, x \in Payloads :
         /\ <<a, x>> \in dispatched' \ dispatched /\ ~single
         /\ \E e \in dispatched : e[1] < a
         => \E b \in 1..(a - 1) : x \in Requested(b)]_vars

\* A record that crossed the dispatch boundary never becomes retryable again.
NeverRearmed ==
    [][\A o \in Ops : rec[o] \in Crossed => rec'[o] \in Crossed]_vars

\* Callers that share a promise, wait for nested locks or take over from the
\* dead all get an answer: nobody waits for ever.
EveryCallEnds == []<>(\A c \in Calls : pc[c] \in {"idle", "ended", "lost"})
=============================================================================
