---------------------------- MODULE JournaledRequest ----------------------------
(***************************************************************************)
(* The idempotent POST endpoints of src/continuityos/service.py that       *)
(* compute a result, record it in the evidence ledger and save it under    *)
(* the Idempotency-Key: assess, regression, graph/analyze, compile, cap    *)
(* ("compute"), verify-reserve-proof ("proof"), decision-packets           *)
(* ("packet", four ledger records) and public-data snapshots and           *)
(* indicators ("fetch").                                                   *)
(*                                                                         *)
(* One worker, one event loop: a handler keeps the loop from its first     *)
(* step to its answer, except that a fetch gives it away while it waits    *)
(* for the network.  The process may die between two durable writes.       *)
(***************************************************************************)
EXTENDS Naturals, Sequences, FiniteSets

CONSTANTS
    Attempts,     \* HTTP requests; a client retry is another attempt
    KeyOf,        \* [Attempts -> idempotency keys or NoKey]
    BodyOf,       \* [Attempts -> request bodies]
    KindOf,       \* [Attempts -> endpoint kind]
    NoKey,        \* no Idempotency-Key header
    NoHandler,         \* no handler holds the event loop
    BadBodies,    \* bodies whose reserve proof does not verify
    MaxCrashes    \* bound on crashes and failed writes

Kinds == {"compute", "proof", "packet", "fetch"}

ASSUME RequestAssumption ==
    /\ NoHandler \notin Attempts
    /\ KindOf \in [Attempts -> Kinds]
    /\ MaxCrashes \in Nat

VARIABLES
    idem,         \* the saved responses of the state file (AtomicState)
    ledger,       \* ledger records, each the attempt whose result it holds
    loop,         \* the attempt whose handler holds the event loop
    pc,           \* where each attempt is
    reply,        \* the answer of each attempt, [status, result]
    crashes

vars == <<idem, ledger, loop, pc, reply, crashes>>

Store == INSTANCE AtomicState WITH seqs <- <<>>

\* A result is the attempt that computed it: every result carries a fresh id.
NoReply == [status |-> 0, result |-> NoHandler]
Slot(a) == <<KindOf[a], KeyOf[a]>>            \* f"{namespace}:{key}"
Saved(a) == KeyOf[a] # NoKey /\ Slot(a) \in DOMAIN idem

Records(a) == Cardinality({i \in DOMAIN ledger : ledger[i] = a})

\* ledger.append calls of one handler.
RecordsDue(a) == IF KindOf[a] = "packet" THEN 4 ELSE 1

\* Fault: the handler keeps the loop after its answer.
AnswerHolding(a, status, result) ==
    /\ reply' = [reply EXCEPT ![a] = [status |-> status, result |-> result]]
    /\ pc' = [pc EXCEPT ![a] = "answered"]
    /\ loop' = a

\* The handler returns or raises, and the event loop goes on.
Answer(a, status, result) ==
    /\ reply' = [reply EXCEPT ![a] = [status |-> status, result |-> result]]
    /\ pc' = [pc EXCEPT ![a] = "answered"]
    /\ loop' = NoHandler

-----------------------------------------------------------------------------

Init ==
    /\ idem = <<>>
    /\ ledger = <<>>
    /\ loop = NoHandler
    /\ pc = [a \in Attempts |-> "waiting"]
    /\ reply = [a \in Attempts |-> NoReply]
    /\ crashes = 0

\* idempotency_context: the key belongs to another request, 409, or the saved
\* response is returned.
Lookup(a) ==
    /\ pc[a] = "waiting" /\ loop = NoHandler
    /\ Saved(a)
    /\ IF idem[Slot(a)].fp = BodyOf[a] THEN Answer(a, 200, idem[Slot(a)].resp)
                                       ELSE Answer(a, 409, NoHandler)
    /\ UNCHANGED <<idem, ledger, crashes>>

\* Fault: the key is not looked up before the work.
StartBlind(a) ==
    /\ pc[a] = "waiting" /\ loop = NoHandler
    /\ loop' = a
    /\ pc' = [pc EXCEPT ![a] = "working"]
    /\ UNCHANGED <<idem, ledger, reply, crashes>>

\* No key, or nothing saved under it: the handler goes on.
Start(a) ==
    /\ pc[a] = "waiting" /\ loop = NoHandler
    /\ ~Saved(a)
    /\ loop' = a
    /\ pc' = [pc EXCEPT ![a] = "working"]
    /\ UNCHANGED <<idem, ledger, reply, crashes>>

\* The handler awaits the network and gives the loop away.
Suspend(a) ==
    /\ pc[a] = "working" /\ KindOf[a] = "fetch"
    /\ loop' = NoHandler
    /\ pc' = [pc EXCEPT ![a] = "suspended"]
    /\ UNCHANGED <<idem, ledger, reply, crashes>>

\* The network answered.
Resume(a) ==
    /\ pc[a] = "suspended" /\ loop = NoHandler
    /\ loop' = a
    /\ pc' = [pc EXCEPT ![a] = "computed"]
    /\ UNCHANGED <<idem, ledger, reply, crashes>>

\* The engine runs on the loop, or a fetch is served from the snapshot cache.
Compute(a) ==
    /\ pc[a] = "working"
    /\ pc' = [pc EXCEPT ![a] = "computed"]
    /\ UNCHANGED <<idem, ledger, loop, reply, crashes>>

\* ValueError, SourcePolicyError, KeyError: 422; RuntimeError: 503.  A proof is
\* verified without raising.
Refuse(a) ==
    /\ \/ pc[a] = "working" /\ KindOf[a] # "proof"
       \/ pc[a] = "suspended" /\ loop = NoHandler
    /\ Answer(a, 422, NoHandler)
    /\ UNCHANGED <<idem, ledger, crashes>>

\* ledger.append, once or four times.
Record(a) ==
    /\ pc[a] = "computed"
    /\ ledger' = Append(ledger, a)
    /\ pc' = IF Records(a) + 1 = RecordsDue(a) THEN [pc EXCEPT ![a] = "recorded"] ELSE pc
    /\ UNCHANGED <<idem, loop, reply, crashes>>

\* The status the client sees for a saved result: a proof that does not verify
\* is saved like any other, then 400 is raised.
FinalStatus(a) == IF KindOf[a] = "proof" /\ BodyOf[a] \in BadBodies THEN 400 ELSE 200

\* Fault: the response is not saved.
FinishUnsaved(a) ==
    /\ pc[a] = "recorded"
    /\ Answer(a, FinalStatus(a), a)
    /\ UNCHANGED <<idem, ledger, crashes>>

\* save_idempotency and the answer; another body saved meanwhile means 409.
Finish(a) ==
    /\ pc[a] = "recorded"
    /\ IF KeyOf[a] = NoKey \/ ~Store!Free(idem, Slot(a), BodyOf[a])
       THEN UNCHANGED idem
       ELSE Store!Save(Slot(a), BodyOf[a], a)
    /\ IF KeyOf[a] # NoKey /\ ~Store!Free(idem, Slot(a), BodyOf[a])
       THEN Answer(a, 409, NoHandler)
       ELSE Answer(a, FinalStatus(a), a)
    /\ UNCHANGED <<ledger, crashes>>

\* A ledger or state write raises: 500, nothing after it runs.
WriteFails(a) ==
    /\ pc[a] \in {"computed", "recorded"}
    /\ crashes < MaxCrashes
    /\ crashes' = crashes + 1
    /\ Answer(a, 500, NoHandler)
    /\ UNCHANGED <<idem, ledger>>

\* The process dies: every handler in progress is gone without an answer.
Crash ==
    /\ crashes < MaxCrashes
    /\ \E a \in Attempts : pc[a] \notin {"waiting", "answered", "lost"}
    /\ crashes' = crashes + 1
    /\ pc' = [a \in Attempts |-> IF pc[a] \in {"waiting", "answered"} THEN pc[a] ELSE "lost"]
    /\ loop' = NoHandler
    /\ UNCHANGED <<idem, ledger, reply>>

\* Every request has been served.
Quiet == (\A a \in Attempts : pc[a] \in {"answered", "lost"}) /\ UNCHANGED vars

Handle(a) == Lookup(a) \/ Start(a) \/ Suspend(a) \/ Resume(a) \/ Compute(a) \/ Refuse(a)
                 \/ Record(a) \/ Finish(a)

Next == (\E a \in Attempts : Handle(a) \/ WriteFails(a)) \/ Crash \/ Quiet

Spec == Init /\ [][Next]_vars

\* The event loop keeps running its handlers, and a fetch ends by its timeout.
FairSpec == Spec /\ \A a \in Attempts : WF_vars(Handle(a))

-----------------------------------------------------------------------------

SameRequest(a, b) == KeyOf[a] # NoKey /\ Slot(a) = Slot(b) /\ BodyOf[a] = BodyOf[b]

\* A result that reached a client or the state file is in the ledger with all its
\* records, so no cached answer lacks its evidence (ledger.append runs before
\* save_idempotency in every handler).
AnswersRecorded ==
    /\ \A a \in Attempts : reply[a].result # NoHandler
           => Records(reply[a].result) = RecordsDue(reply[a].result)
    /\ \A s \in DOMAIN idem : Records(idem[s].resp) = RecordsDue(idem[s].resp)

\* Of two requests with different bodies under one key at most one is ever
\* answered with a result, even when they overlap during a fetch
\* (get_idempotent and the second check in save_idempotent).
OneBodyPerKey ==
    \A a, b \in Attempts :
        (/\ KeyOf[a] # NoKey /\ Slot(a) = Slot(b) /\ BodyOf[a] # BodyOf[b]
         /\ reply[a].result # NoHandler)
        => reply[b].result = NoHandler

\* Handlers that keep the event loop answer all attempts of one request with one
\* result, across crashes and retries (idempotency_context, save_idempotency).
RepliesAgree ==
    \A a, b \in Attempts :
        (/\ SameRequest(a, b) /\ KindOf[a] # "fetch"
         /\ reply[a].result # NoHandler /\ reply[b].result # NoHandler)
        => reply[a].result = reply[b].result

\* Work is repeated under one key only when an earlier attempt was cut short: the
\* ledger holds the results of at most one attempt more than the crashes and
\* failures so far (handlers that keep the event loop).
WorkRepeatedOnlyAfterFailure ==
    \A a \in Attempts :
        (KeyOf[a] # NoKey /\ KindOf[a] # "fetch") =>
            Cardinality({b \in Attempts : SameRequest(a, b) /\ Records(b) > 0}) <= crashes + 1

\* Every request that reaches the service is answered or lost to a crash.
EventuallyServed == \A a \in Attempts : <>(pc[a] \in {"answered", "lost"})

\* What the answers of the idempotent endpoints say together: each result has all
\* its evidence, one body owns a key, and retries get the same result.
RepliesFaithful == AnswersRecorded /\ OneBodyPerKey /\ RepliesAgree
=============================================================================
