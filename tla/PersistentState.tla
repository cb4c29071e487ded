---------------------------- MODULE PersistentState ----------------------------
(***************************************************************************)
(* The locked JSON state file of src/continuityos/state.py: every          *)
(* operation takes the file lock, reads the whole file, and a mutation     *)
(* writes a temporary file, renames it over the state file and syncs the   *)
(* directory before the lock is released.                                  *)
(*                                                                         *)
(* A name is the sequence of its colon-separated parts, so the key         *)
(* f"{tenant_id}:{asset_id}" is the concatenation of the two.              *)
(***************************************************************************)
EXTENDS Naturals, Sequences

CONSTANTS
    Procs,         \* threads or processes that hold a PersistentState
    NoProc,        \* the lock is free
    Tenants,       \* tenant names, each a sequence of colon-separated parts
    Assets,        \* asset names, likewise
    Slots,         \* f"{namespace}:{key}" idempotency slots
    Fingerprints,  \* digests of request bodies
    Responses,     \* serialised responses
    Entries,       \* <<namespace, key>> pairs of set_value
    Values,        \* the values stored there
    MaxSequence,   \* largest telemetry sequence number explored
    MaxCalls       \* bound on the number of operations explored

ASSUME StateAssumption == NoProc \notin Procs /\ MaxSequence \in Nat /\ MaxCalls \in Nat

\* Splitting a string at its colons leaves at least one part.
ASSUME NameAssumption ==
    \A name \in Tenants \cup Assets : name \in Seq(STRING) /\ name # <<>>

VARIABLES
    disk,     \* state.json: [idem, seqs, vals]
    lock,     \* holder of state.json.lock
    pc,       \* where each process is inside an operation
    op,       \* the operation it runs
    draft,    \* the temporary file it has written
    granted,  \* history: the claims answered True, in order
    saved,    \* history: the <<slot, fingerprint>> pairs whose save returned
    owners,   \* history: the <<tenant, asset>> pairs whose claim reached the file
    calls     \* operations started so far

vars == <<disk, lock, pc, op, draft, granted, saved, owners, calls>>

Store == INSTANCE AtomicState WITH idem <- disk.idem, seqs <- disk.seqs

Claims == [kind : {"claim"}, tenant : Tenants, asset : Assets, n : 0..MaxSequence]
Saves == [kind : {"save"}, slot : Slots, fp : Fingerprints, resp : Responses]
Sets == [kind : {"set"}, entry : Entries, value : Values]
Ops == Claims \cup Saves \cup Sets
NoOp == [kind |-> "none"]
Empty == [idem |-> <<>>, seqs |-> <<>>, vals |-> <<>>]

\* claim_sequence: key = f"{tenant_id}:{asset_id}".
CounterName(tenant, asset) == tenant \o asset

\* Fault: a repeated number is accepted.
AcceptsEqual(d, o) ==
    CASE o.kind = "claim" ->
             LET name == CounterName(o.tenant, o.asset)
             IN name \in DOMAIN d.seqs => o.n >= d.seqs[name]
      [] o.kind = "save" -> Store!Free(d.idem, o.slot, o.fp)
      [] o.kind = "set" -> TRUE

\* Fault: save_idempotent does not look for a conflicting fingerprint.
AcceptsConflict(d, o) ==
    o.kind = "claim" => Store!Newer(d.seqs, CounterName(o.tenant, o.asset), o.n)

\* The operation is allowed on the state just read: claim_sequence would not
\* return False, save_idempotent would not raise IdempotencyConflict.
Accepts(d, o) ==
    CASE o.kind = "claim" -> Store!Newer(d.seqs, CounterName(o.tenant, o.asset), o.n)
      [] o.kind = "save" -> Store!Free(d.idem, o.slot, o.fp)
      [] o.kind = "set" -> TRUE

\* The state an accepted operation writes back.
Updated(d, o) ==
    CASE o.kind = "claim" ->
             [d EXCEPT !.seqs = Store!Put(@, CounterName(o.tenant, o.asset), o.n)]
      [] o.kind = "save" ->
             [d EXCEPT !.idem = Store!Put(@, o.slot, [fp |-> o.fp, resp |-> o.resp])]
      [] o.kind = "set" -> [d EXCEPT !.vals = Store!Put(@, o.entry, o.value)]

-----------------------------------------------------------------------------

Init ==
    /\ disk = Empty
    /\ lock = NoProc
    /\ pc = [p \in Procs |-> "idle"]
    /\ op = [p \in Procs |-> NoOp]
    /\ draft = [p \in Procs |-> Empty]
    /\ granted = <<>>
    /\ saved = {}
    /\ owners = {}
    /\ calls = 0

Leave(p) ==
    /\ lock' = NoProc
    /\ pc' = [pc EXCEPT ![p] = "idle"]
    /\ op' = [op EXCEPT ![p] = NoOp]
    /\ draft' = [draft EXCEPT ![p] = Empty]

\* The operation is called and flock(LOCK_EX) granted.
Enter(p, o) ==
    /\ pc[p] = "idle"
    /\ lock = NoProc
    /\ calls < MaxCalls
    /\ calls' = calls + 1
    /\ lock' = p
    /\ op' = [op EXCEPT ![p] = o]
    /\ pc' = [pc EXCEPT ![p] = "reading"]
    /\ UNCHANGED <<disk, draft, granted, saved, owners>>

\* _read_unlocked and the refusal: False, or IdempotencyConflict.
Refuse(p) ==
    /\ pc[p] = "reading"
    /\ ~Accepts(disk, op[p])
    /\ Leave(p)
    /\ UNCHANGED <<disk, granted, saved, owners, calls>>

\* _read_unlocked, the update, and _write_unlocked up to the fsync.
Stage(p) ==
    /\ pc[p] = "reading"
    /\ Accepts(disk, op[p])
    /\ draft' = [draft EXCEPT ![p] = Updated(disk, op[p])]
    /\ pc' = [pc EXCEPT ![p] = "staged"]
    /\ UNCHANGED <<disk, lock, op, granted, saved, owners, calls>>

\* os.replace over the state file.
Replace(p) ==
    /\ pc[p] = "staged"
    /\ disk' = draft[p]
    /\ pc' = [pc EXCEPT ![p] = "replaced"]
    /\ owners' = IF op[p].kind = "claim"
                 THEN owners \cup {<<op[p].tenant, op[p].asset>>} ELSE owners
    /\ UNCHANGED <<lock, op, draft, granted, saved, calls>>

\* The directory is synced, the lock released and the caller told.
Return(p) ==
    /\ pc[p] = "replaced"
    /\ granted' = IF op[p].kind = "claim" THEN Append(granted, op[p]) ELSE granted
    /\ saved' = IF op[p].kind = "save"
                THEN saved \cup {<<op[p].slot, op[p].fp>>} ELSE saved
    /\ Leave(p)
    /\ UNCHANGED <<disk, owners, calls>>

\* An OSError on the way (after the rename only the directory sync can fail), or
\* the process dies: no answer is given and the lock is dropped.
Abort(p) ==
    /\ pc[p] # "idle"
    /\ Leave(p)
    /\ UNCHANGED <<disk, granted, saved, owners, calls>>

Next == \E p \in Procs :
    \/ \E o \in Ops : Enter(p, o)
    \/ Refuse(p)
    \/ Stage(p)
    \/ Replace(p)
    \/ Return(p)
    \/ Abort(p)

\* All calls have been made and answered.
Done == calls = MaxCalls /\ (\A p \in Procs : pc[p] = "idle") /\ UNCHANGED vars

Spec == Init /\ [][Next \/ Done]_vars

-----------------------------------------------------------------------------

\* The claims answered True for one tenant and asset strictly increase: no
\* telemetry sequence number is accepted twice or out of order, whatever
\* processes overlap, fail or restart (state.py claim_sequence).
GrantsIncrease ==
    \A i, j \in 1..Len(granted) :
        (i < j /\ granted[i].tenant = granted[j].tenant /\ granted[i].asset = granted[j].asset)
            => granted[i].n < granted[j].n

\* A save that returned is still on disk under its own fingerprint: no later
\* read-modify-write of the file loses it (state.py save_idempotent).
SavesKept ==
    \A s \in saved : s[1] \in DOMAIN disk.idem /\ disk.idem[s[1]].fp = s[2]

\* One whole claim, save or set that the file's contents allow.
AtomicUpdate ==
    \/ \E o \in Claims : /\ Store!Claim(CounterName(o.tenant, o.asset), o.n)
                         /\ disk'.vals = disk.vals
    \/ \E o \in Saves : /\ Store!Save(o.slot, o.fp, o.resp)
                        /\ disk'.vals = disk.vals
    \/ \E o \in Sets : disk' = [disk EXCEPT !.vals = Store!Put(@, o.entry, o.value)]

\* The file changes by one atomic claim, save or set at a time (_write_unlocked).
AtomicUpdates == [][AtomicUpdate]_disk

\* A claim whose names hold no colon only ever meets an earlier number of the
\* same tenant and asset, whatever names others use (claim_sequence).
TenantIsolated ==
    \A p \in Procs :
        (/\ pc[p] = "reading"
         /\ op[p].kind = "claim"
         /\ Len(op[p].tenant) = 1 /\ Len(op[p].asset) = 1
         /\ CounterName(op[p].tenant, op[p].asset) \in DOMAIN disk.seqs)
        => <<op[p].tenant, op[p].asset>> \in owners

\* What a caller may rely on after any interleaving, refusal, failure or death of
\* the operations of state.py: accepted numbers increase, a returned save stays,
\* and no plain name is met by another tenant's counter.
AnswersHold == GrantsIncrease /\ SavesKept /\ TenantIsolated
=============================================================================
