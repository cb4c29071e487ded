----------------------------- MODULE OperatorIngest -----------------------------
(***************************************************************************)
(* Signed operator telemetry, src/continuityos/service.py:                 *)
(* ingest_operator_observation and ingest_cloudevent over                  *)
(* accept_operator_payload.  The handler never awaits between its first    *)
(* look at the state file and its answer, so the one event loop of the     *)
(* documented one-worker deployment runs one handler at a time; but it     *)
(* makes three durable writes in turn (the sequence claim, the ledger      *)
(* record, the idempotent response) and the process can die, or a write    *)
(* raise, between any two of them.  Senders repeat a message until they    *)
(* are answered, and the network may deliver a message again at any time.  *)
(* Requests refused before the state file is read (a malformed key, an     *)
(* unsupported event type, telemetry disabled) change nothing and are left *)
(* out.                                                                    *)
(***************************************************************************)
EXTENDS Naturals, Sequences

CONSTANTS
    Messages,   \* [tenant, asset, seq, event]: event is the CloudEvent id or
                \* Idempotency-Key, or NoEvent when the message carries neither
    NoEvent,    \* a plain observation without Idempotency-Key
    Nobody,     \* no handler is running
    MaxObs,     \* bound on ledger records
    MaxCrashes  \* bound on crashes and failed writes

ASSUME IngestAssumption ==
    /\ Nobody \notin Messages
    /\ MaxObs \in Nat /\ MaxCrashes \in Nat
    /\ \A m \in Messages : m.seq \in Nat

VARIABLES
    idem, seqs,   \* the state file (AtomicState)
    ledger,       \* the observations in the evidence ledger, [msg, id] in order
    handler,      \* the message being handled
    step,         \* the next durable write of the handler
    replies,      \* history: every answer a sender got, [msg, status, id]
    crashes

vars == <<idem, seqs, ledger, handler, step, replies, crashes>>

Store == INSTANCE AtomicState

NoId == 0
\* f"{tenant_id}:{asset_id}"
Counter(m) == <<m.tenant, m.asset>>

\* f"operator-observations:{key}" - the tenant is not part of it.
Slot(m) == m.event

\* The observation the running handler has recorded: its id is a fresh uuid4.
NewId == Len(ledger)

Answer(m, status, id) ==
    /\ replies' = replies \cup {[msg |-> m, status |-> status, id |-> id]}
    /\ handler' = Nobody
    /\ step' = "idle"

-----------------------------------------------------------------------------

Init ==
    /\ idem = <<>>
    /\ seqs = <<>>
    /\ ledger = <<>>
    /\ handler = Nobody
    /\ step = "idle"
    /\ replies = {}
    /\ crashes = 0

Saved(m) == m.event # NoEvent /\ Slot(m) \in DOMAIN idem

\* get_idempotent: the key was used for another request, 409.
RejectConflict(m) ==
    /\ step = "idle"
    /\ Saved(m) /\ idem[Slot(m)].fp # m
    /\ Answer(m, "conflict", NoId)
    /\ UNCHANGED <<idem, seqs, ledger, crashes>>

\* get_idempotent: the saved response is returned.
ReplayCached(m) ==
    /\ step = "idle"
    /\ Saved(m) /\ idem[Slot(m)].fp = m
    /\ Answer(m, "accepted", idem[Slot(m)].resp)
    /\ UNCHANGED <<idem, seqs, ledger, crashes>>

\* verify_operator_signature or the normalisation fails, 401: the timestamp of a
\* late delivery is outside the allowed skew.
RejectSignature(m) ==
    /\ step = "idle"
    /\ ~Saved(m)
    /\ Answer(m, "unauthorized", NoId)
    /\ UNCHANGED <<idem, seqs, ledger, crashes>>

\* The message passes every check before the first write.
Receive(m) ==
    /\ step = "idle"
    /\ ~Saved(m)
    /\ handler' = m
    /\ step' = "claim"
    /\ UNCHANGED <<idem, seqs, ledger, replies, crashes>>

\* claim_sequence returns False, 409 "telemetry replay rejected".
RejectReplay ==
    /\ step = "claim"
    /\ ~Store!Newer(seqs, Counter(handler), handler.seq)
    /\ Answer(handler, "replay", NoId)
    /\ UNCHANGED <<idem, seqs, ledger, crashes>>

\* Fault: the claim's result is not looked at.
ClaimUnchecked ==
    /\ step = "claim"
    /\ seqs' = Store!Put(seqs, Counter(handler), handler.seq)
    /\ step' = "append"
    /\ UNCHANGED <<idem, ledger, handler, replies, crashes>>

\* claim_sequence returns True.
Claim ==
    /\ step = "claim"
    /\ Store!Claim(Counter(handler), handler.seq)
    /\ step' = "append"
    /\ UNCHANGED <<ledger, handler, replies, crashes>>

\* Fault: the record is written only when the message carries a key.
RecordKeyed ==
    /\ step = "append"
    /\ Len(ledger) < MaxObs
    /\ ledger' = IF handler.event = NoEvent THEN ledger
                 ELSE Append(ledger, [msg |-> handler, id |-> Len(ledger) + 1])
    /\ step' = "save"
    /\ UNCHANGED <<idem, seqs, handler, replies, crashes>>

\* ledger.append("operator_observation", ...).
RecordObservation ==
    /\ step = "append"
    /\ Len(ledger) < MaxObs
    /\ ledger' = Append(ledger, [msg |-> handler, id |-> Len(ledger) + 1])
    /\ step' = "save"
    /\ UNCHANGED <<idem, seqs, handler, replies, crashes>>

\* save_idempotency (a no-op without a key), then the 200 answer.
Finish ==
    /\ step = "save"
    /\ IF handler.event = NoEvent THEN UNCHANGED <<idem, seqs>>
       ELSE Store!Save(Slot(handler), handler, NewId)
    /\ Answer(handler, "accepted", NewId)
    /\ UNCHANGED <<ledger, crashes>>

\* A write raises (disk full, unreadable ledger tail): 500, later writes skipped.
WriteFails ==
    /\ step # "idle"
    /\ crashes < MaxCrashes
    /\ crashes' = crashes + 1
    /\ Answer(handler, "error", NoId)
    /\ UNCHANGED <<idem, seqs, ledger>>

\* The process dies between two writes and is restarted: no answer.
Crash ==
    /\ step # "idle"
    /\ crashes < MaxCrashes
    /\ crashes' = crashes + 1
    /\ handler' = Nobody
    /\ step' = "idle"
    /\ UNCHANGED <<idem, seqs, ledger, replies>>

Next ==
    \/ \E m \in Messages : RejectConflict(m) \/ ReplayCached(m) \/ RejectSignature(m) \/ Receive(m)
    \/ RejectReplay \/ Claim \/ RecordObservation \/ Finish
    \/ WriteFails \/ Crash

Spec == Init /\ [][Next]_vars

-----------------------------------------------------------------------------

\* However often a message is delivered, and whatever dies or fails in between,
\* the ledger holds the sequence numbers of a tenant's asset in strictly
\* increasing order, each at most once (accept_operator_payload, claim_sequence).
RecordedOnceInOrder ==
    \A i, j \in 1..Len(ledger) :
        (i < j /\ Counter(ledger[i].msg) = Counter(ledger[j].msg))
            => ledger[i].msg.seq < ledger[j].msg.seq

\* An accepted answer names an observation of that very message in the ledger
\* (accept_operator_payload answers after ledger.append).
AcceptedIsRecorded ==
    \A r \in replies : r.status = "accepted" =>
        \E i \in 1..Len(ledger) : ledger[i].id = r.id /\ ledger[i].msg = r.msg

\* Unless a write failed or the process died, "telemetry replay rejected" is said
\* of what was recorded: an observation of the same asset with this or a later
\* number is in the ledger, so a sender may take the 409 of a retry for success.
ReplayMeansRecorded ==
    \A r \in replies : (r.status = "replay" /\ crashes = 0) =>
        \E i \in 1..Len(ledger) :
            Counter(ledger[i].msg) = Counter(r.msg) /\ ledger[i].msg.seq >= r.msg.seq

\* What a sender may conclude from either answer: 200 names its own record, and
\* without a failure 409 "replay" means the number, or a later one, is recorded
\* (accept_operator_payload).
AnswersTruthful == AcceptedIsRecorded /\ ReplayMeansRecorded
=============================================================================
