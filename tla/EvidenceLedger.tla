---------------------------- MODULE EvidenceLedger ----------------------------
(***************************************************************************)
(* The evidence ledger of src/continuityos/evidence.py: a JSONL file that  *)
(* several threads or processes extend under an advisory file lock, each   *)
(* append copying the whole file to a temporary one and renaming it over   *)
(* the ledger.                                                             *)
(*                                                                         *)
(* SHA-256 is modelled as a collision-free numbering: `sealed' lists the   *)
(* contents hashed so far, the digest of a content is its position there.  *)
(* Every content carries a fresh uuid4, so record id and digest coincide.  *)
(* A signature is the key that made it.                                    *)
(***************************************************************************)
EXTENDS Naturals, Sequences

CONSTANTS
    Procs,       \* threads and processes that hold an EvidenceLedger
    Payloads,    \* abstract record bodies (record_type, subject_id, payload)
    LineSep,     \* the payloads whose JSON text holds a Unicode line separator
    Oversize,    \* the payloads whose line is longer than the 4096-byte tail read
    Keys,        \* Ed25519 signing keys an operator may configure
    NoKey,       \* "no private key configured": the record stays unsigned
    NoProc,      \* the lock is free
    MaxAppends   \* bound on the number of records hashed

ASSUME LedgerAssumption ==
    /\ Payloads # {}
    /\ LineSep \subseteq Payloads
    /\ Oversize \subseteq Payloads
    /\ NoKey \notin Keys
    /\ NoProc \notin Procs
    /\ MaxAppends \in Nat

VARIABLES
    file,    \* ledger.jsonl, one record per newline-terminated line
    sealed,  \* every content hashed so far (position = uuid = digest)
    lock,    \* holder of ledger.jsonl.lock
    pc,      \* where each process is inside append()
    rec,     \* the record a process has built
    temp,    \* the .ledger-* file a process has staged
    acked,   \* ids of the records append() has returned
    key      \* private key each process was started with

vars == <<file, sealed, lock, pc, rec, temp, acked, key>>

Genesis == 0                       \* "0" * 64
KeyOpt == Keys \cup {NoKey}
Content == [payload : Payloads, prev : Nat]
Record == [id : Nat, payload : Payloads, prev : Nat, hash : Nat, sig : KeyOpt]
NoRecord == [id |-> 0, payload |-> CHOOSE x \in Payloads : TRUE, prev |-> Genesis,
             hash |-> Genesis, sig |-> NoKey]
Phase == {"idle", "locked", "sealed", "staged", "replaced"}

-----------------------------------------------------------------------------
(* append()                                                                *)

\* Fault: the first line is taken for the last.
LastHashFirst(f) == IF f = <<>> THEN Genesis ELSE f[1].hash

\* _last_hash: the record_hash of the last line.
LastHash(f) == IF f = <<>> THEN Genesis ELSE f[Len(f)].hash

\* _last_hash stops at the first 4096-byte block from the end that is not blank,
\* even when the last line starts before it; the fragment then fails to parse.
LastLineWhole(f) == f # <<>> => f[Len(f)].payload \notin Oversize

Init ==
    /\ file = <<>>
    /\ sealed = <<>>
    /\ lock = NoProc
    /\ pc = [p \in Procs |-> "idle"]
    /\ rec = [p \in Procs |-> NoRecord]
    /\ temp = [p \in Procs |-> <<>>]
    /\ acked = {}
    /\ key \in [Procs -> KeyOpt]

\* append() is left: its locals are gone, its temporary file renamed, unlinked
\* or orphaned, and the lock released.
Leave(p) ==
    /\ lock' = NoProc
    /\ pc' = [pc EXCEPT ![p] = "idle"]
    /\ rec' = [rec EXCEPT ![p] = NoRecord]
    /\ temp' = [temp EXCEPT ![p] = <<>>]

\* append() entered: flock(LOCK_EX) on the lock file.
Acquire(p) ==
    /\ pc[p] = "idle"
    /\ lock = NoProc
    /\ Len(sealed) < MaxAppends
    /\ lock' = p
    /\ pc' = [pc EXCEPT ![p] = "locked"]
    /\ UNCHANGED <<file, sealed, rec, temp, acked, key>>

\* Read the last hash, build the unsigned record, hash and sign it.
Seal(p) ==
    /\ pc[p] = "locked"
    /\ LastLineWhole(file)
    /\ \E x \in Payloads :
         LET n == Len(sealed) + 1
             prev == LastHash(file)
         IN /\ sealed' = Append(sealed, [payload |-> x, prev |-> prev])
            /\ rec' = [rec EXCEPT ![p] = [id |-> n, payload |-> x, prev |-> prev,
                                          hash |-> n, sig |-> key[p]]]
    /\ pc' = [pc EXCEPT ![p] = "sealed"]
    /\ UNCHANGED <<file, lock, temp, acked, key>>

\* Fault: the exception path forgets LOCK_UN.
RejectLeak(p) ==
    /\ pc[p] = "locked"
    /\ ~LastLineWhole(file)
    /\ pc' = [pc EXCEPT ![p] = "idle"]
    /\ UNCHANGED <<file, sealed, lock, rec, temp, acked, key>>

\* _last_hash raises on a fragment of the last line; append() propagates it.
Reject(p) ==
    /\ pc[p] = "locked"
    /\ ~LastLineWhole(file)
    /\ Leave(p)
    /\ UNCHANGED <<file, sealed, acked, key>>

\* _append_atomic, first half: copy the existing bytes and the new line to a
\* temporary file and fsync it.
Stage(p) ==
    /\ pc[p] = "sealed"
    /\ temp' = [temp EXCEPT ![p] = Append(file, rec[p])]
    /\ pc' = [pc EXCEPT ![p] = "staged"]
    /\ UNCHANGED <<file, sealed, lock, rec, acked, key>>

\* _append_atomic, second half: os.replace over the ledger.
Replace(p) ==
    /\ pc[p] = "staged"
    /\ file' = temp[p]
    /\ pc' = [pc EXCEPT ![p] = "replaced"]
    /\ UNCHANGED <<sealed, lock, rec, temp, acked, key>>

\* LOCK_UN in the finally clause, then the record is returned to the caller.
Release(p) ==
    /\ pc[p] = "replaced"
    /\ acked' = acked \cup {rec[p].id}
    /\ Leave(p)
    /\ UNCHANGED <<file, sealed, key>>

\* Fault: the error is swallowed and the record returned all the same.
FailSilently(p) ==
    /\ pc[p] = "staged"
    /\ acked' = acked \cup {rec[p].id}
    /\ Leave(p)
    /\ UNCHANGED <<file, sealed, key>>

\* An OSError while reading, staging or replacing: the temporary file is
\* unlinked, the lock released and the exception propagates.
Fail(p) ==
    /\ pc[p] \in {"locked", "sealed", "staged"}
    /\ Leave(p)
    /\ UNCHANGED <<file, sealed, acked, key>>

\* The process dies inside append(); the kernel drops its flock.
Crash(p) ==
    /\ pc[p] # "idle"
    /\ Leave(p)
    /\ UNCHANGED <<file, sealed, acked, key>>

\* A restart with other key files (docs/KEY_ROTATION.md): from_key_files.
Rekey(p, k) ==
    /\ pc[p] = "idle"
    /\ k # key[p]
    /\ key' = [key EXCEPT ![p] = k]
    /\ UNCHANGED <<file, sealed, lock, pc, rec, temp, acked>>

\* The steps of append() itself, the ones the scheduler owes a process.
Progress(p) == Seal(p) \/ Reject(p) \/ Stage(p) \/ Replace(p) \/ Release(p)

Next == \E p \in Procs :
    \/ Acquire(p)
    \/ Progress(p)
    \/ Fail(p)
    \/ Crash(p)
    \/ \E k \in KeyOpt : Rekey(p, k)

Spec == Init /\ [][Next]_vars

\* A thread inside the critical section keeps running until it leaves it.
FairSpec == Spec /\ \A p \in Procs : WF_vars(Progress(p))

-----------------------------------------------------------------------------
(* verify(): the errors a reader holding public key k reports on a file f  *)

\* verify() splits the text with str.splitlines, which also breaks a line at a
\* Unicode separator; neither fragment parses as a record.
Readable(f, i) == f[i].payload \notin LineSep

\* Fault: `previous' is never advanced.
PreviousGenesis(f, i) == Genesis

\* `previous' when verify() reaches line i: the hash of the last line parsed.
PreviousSeen(f, i) ==
    LET parsed == {j \in 1..(i - 1) : Readable(f, j)}
    IN IF parsed = {} THEN Genesis
       ELSE f[CHOOSE j \in parsed : \A h \in parsed : h <= j].hash

\* The digest of a line's own fields, recomputed with the hash table s.
Recomputed(s, r) ==
    IF r.id \in DOMAIN s /\ s[r.id] = [payload |-> r.payload, prev |-> r.prev]
    THEN r.id ELSE Genesis

\* Fault: the link to the previous line is not compared.
ErrorsUnlinked(f, s, k) ==
    {i \in 1..Len(f) :
        \/ ~Readable(f, i)
        \/ f[i].hash # Recomputed(s, f[i])
        \/ f[i].sig # NoKey /\ f[i].sig # k}

\* The numbers of the lines verify() complains about.
Errors(f, s, k) ==
    {i \in 1..Len(f) :
        \/ ~Readable(f, i)
        \/ f[i].prev # PreviousSeen(f, i)
        \/ f[i].hash # Recomputed(s, f[i])
        \/ f[i].sig # NoKey /\ f[i].sig # k}

-----------------------------------------------------------------------------
(* What the ledger promises                                                *)

\* Every variable keeps its type.
TypeOK ==
    /\ file \in Seq(Record)
    /\ sealed \in Seq(Content)
    /\ lock \in Procs \cup {NoProc}
    /\ pc \in [Procs -> Phase]
    /\ rec \in [Procs -> Record]
    /\ temp \in [Procs -> Seq(Record)]
    /\ acked \subseteq Nat
    /\ key \in [Procs -> KeyOpt]

\* The file is one hash chain in creation order: each line names the hash of
\* the line before it, carries the digest of its own fields, and no record
\* appears twice, whatever appends overlapped, failed or died
\* (evidence.py append, _last_hash).
ChainIntact ==
    \A i \in 1..Len(file) :
        /\ file[i].prev = IF i = 1 THEN Genesis ELSE file[i - 1].hash
        /\ file[i].hash = file[i].id
        /\ file[i].id \in 1..Len(sealed)
        /\ sealed[file[i].id] = [payload |-> file[i].payload, prev |-> file[i].prev]
        /\ i > 1 => file[i - 1].id < file[i].id

\* A record append() returned stays in the ledger: no concurrent append built
\* from an older copy of the file overwrites it (evidence.py _append_atomic).
AckedKept == \A a \in acked : \E i \in 1..Len(file) : file[i].id = a

\* verify() accepts every ledger that append() alone has written, for a reader
\* whose key made the signatures, as long as no payload text holds a Unicode
\* line separator (evidence.py verify).
VerifyAccepts ==
    \A k \in KeyOpt :
        (\A i \in 1..Len(file) : Readable(file, i) /\ file[i].sig \in {NoKey, k})
            => Errors(file, sealed, k) = {}

\* Deleting a line that is not the last, or giving it another body under its old
\* hash or under a recomputed one, is reported by verify() (evidence.py verify).
InteriorChangeDetected ==
    (\A i \in 1..Len(file) : Readable(file, i)) =>
    \A i \in 1..(Len(file) - 1) :
        LET cut == [j \in 1..(Len(file) - 1) |-> IF j < i THEN file[j] ELSE file[j + 1]]
            body(x) == [payload |-> x, prev |-> file[i].prev]
            stale(x) == [file EXCEPT ![i].payload = x]
            rehashed(x) == [file EXCEPT ![i].payload = x, ![i].id = Len(sealed) + 1,
                                        ![i].hash = Len(sealed) + 1]
        IN \A k \in KeyOpt :
            /\ Errors(cut, sealed, k) # {}
            /\ \A x \in (Payloads \ {file[i].payload}) :
                 /\ Errors(stale(x), sealed, k) # {}
                 /\ Errors(rehashed(x), Append(sealed, body(x)), k) # {}

Extends(f, g) == Len(f) <= Len(g) /\ \A i \in 1..Len(f) : g[i] = f[i]

\* Append-only: no step removes or rewrites a line that is already in the file
\* (evidence.py _append_atomic).
AppendOnly == [][Extends(file, file')]_vars

\* Whoever holds the file lock gives it up again, by returning, by an error or by
\* dying, so a waiting append() is not blocked for good (_exclusive_lock).
LockReleased == \A p \in Procs : (lock = p) ~> (lock # p)

\* The ledger implements an append-only log of record ids with acknowledgements.
Log == INSTANCE AppendOnlyLog WITH
           Entry <- 1..MaxAppends,
           log <- [i \in 1..Len(file) |-> file[i].id],
           acknowledged <- acked

\* Every append() step is a step of the abstract log or leaves it alone.
ImplementsLog == Log!Spec
=============================================================================
