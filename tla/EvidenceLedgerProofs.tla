------------------------- MODULE EvidenceLedgerProofs -------------------------
(***************************************************************************)
(* Proofs about EvidenceLedger for every set of processes, payloads and    *)
(* keys: the inductive invariant IInv, and from it type correctness, the   *)
(* hash chain, the durability of acknowledged records, append-only         *)
(* behaviour, the detection of interior changes and the implementation of  *)
(* AppendOnlyLog.                                                          *)
(***************************************************************************)
EXTENDS EvidenceLedger, TLAPS

\* The lock is held by exactly the process that is inside append().
LockInv == \A p \in Procs : pc[p] # "idle" <=> lock = p

\* A hashed record extends the file as it is now, and it is the newest content.
SealInv ==
    \A p \in Procs : pc[p] \in {"sealed", "staged"} =>
        /\ Len(sealed) > 0
        /\ rec[p].id = Len(sealed)
        /\ rec[p].hash = rec[p].id
        /\ rec[p].prev = LastHash(file)
        /\ sealed[Len(sealed)] = [payload |-> rec[p].payload, prev |-> rec[p].prev]
        /\ \A i \in 1..Len(file) : file[i].id < rec[p].id

\* A staged file is the current ledger and one more line.
StageInv ==
    \A p \in Procs : pc[p] = "staged" => temp[p] = Append(file, rec[p])

\* After the rename the last line is the record about to be returned.
ReplaceInv ==
    \A p \in Procs : pc[p] = "replaced" =>
        Len(file) > 0 /\ file[Len(file)].id = rec[p].id

\* The number of records hashed respects the bound.
BoundInv ==
    /\ Len(sealed) <= MaxAppends
    /\ \A p \in Procs : pc[p] = "locked" => Len(sealed) < MaxAppends

IInv == TypeOK /\ LockInv /\ ChainIntact /\ SealInv /\ StageInv /\ ReplaceInv
            /\ BoundInv /\ AckedKept

-----------------------------------------------------------------------------
(* The invariant is inductive                                              *)

\* The placeholder a process holds outside append() is a record.
LEMMA NoRecordType == NoRecord \in Record
  BY LedgerAssumption DEF NoRecord, Record, Genesis, KeyOpt

\* The ledger starts in a state of the invariant.
LEMMA InitInv == Init => IInv
  <1> SUFFICES ASSUME Init PROVE IInv
    OBVIOUS
  <1>1. TypeOK
    BY NoRecordType DEF Init, TypeOK, Phase
  <1>2. LockInv
    BY LedgerAssumption DEF Init, LockInv
  <1>3. ChainIntact /\ SealInv /\ StageInv /\ ReplaceInv /\ AckedKept
    BY DEF Init, ChainIntact, SealInv, StageInv, ReplaceInv, AckedKept
  <1>4. BoundInv
    BY LedgerAssumption DEF Init, BoundInv
  <1> QED
    BY <1>1, <1>2, <1>3, <1>4 DEF IInv

\* Leaving append() with the file, the hash table and the acknowledged records
\* of the pre-state keeps the invariant (Reject, Fail, Crash).
LEMMA LeaveStep ==
  ASSUME IInv, NEW p \in Procs, pc[p] # "idle", Leave(p),
         UNCHANGED <<file, sealed, acked, key>>
  PROVE  IInv'
  <1>1. TypeOK'
    BY NoRecordType DEF IInv, TypeOK, Leave, Phase
  <1>2. LockInv'
    BY LedgerAssumption DEF IInv, TypeOK, LockInv, Leave
  <1>3. ChainIntact' /\ AckedKept'
    BY DEF IInv, ChainIntact, AckedKept
  <1>4. SealInv' /\ StageInv' /\ ReplaceInv' /\ BoundInv'
    BY DEF IInv, TypeOK, SealInv, StageInv, ReplaceInv, BoundInv, Leave, LastHash
  <1> QED
    BY <1>1, <1>2, <1>3, <1>4 DEF IInv

\* Taking the file lock keeps the invariant.
LEMMA AcquireStep ==
  ASSUME IInv, NEW p \in Procs, Acquire(p)
  PROVE  IInv'
  <1>1. TypeOK'
    BY DEF IInv, TypeOK, Acquire, Phase
  <1>2. LockInv'
    BY LedgerAssumption DEF IInv, TypeOK, LockInv, Acquire
  <1>3. ChainIntact' /\ AckedKept'
    BY DEF IInv, ChainIntact, AckedKept, Acquire
  <1>4. SealInv' /\ StageInv' /\ ReplaceInv' /\ BoundInv'
    BY DEF IInv, TypeOK, SealInv, StageInv, ReplaceInv, BoundInv, Acquire, LastHash
  <1> QED
    BY <1>1, <1>2, <1>3, <1>4 DEF IInv

\* Only the lock holder is inside append().
LEMMA OneInside ==
  ASSUME TypeOK, LockInv, NEW p \in Procs, pc[p] # "idle", NEW q \in Procs, q # p
  PROVE  pc[q] = "idle"
  BY DEF LockInv

\* A record's hash and id are numbers.
LEMMA RecordFields ==
  ASSUME NEW r \in Record
  PROVE  r.id \in Nat /\ r.hash \in Nat
  BY DEF Record

\* The last hash of a ledger file is a digest.
LEMMA LastHashType ==
  ASSUME NEW f \in Seq(Record)
  PROVE  LastHash(f) \in Nat
  <1>1. CASE f = <<>>
    BY <1>1 DEF LastHash, Genesis
  <1>2. CASE f # <<>>
    <2>1. f[Len(f)] \in Record
      BY <1>2
    <2> QED
      BY <1>2, <2>1, RecordFields DEF LastHash
  <1> QED
    BY <1>1, <1>2

\* Hashing a record adds one content to the table and none to the file.
LEMMA SealStep ==
  ASSUME IInv, NEW p \in Procs, Seal(p)
  PROVE  IInv'
  <1> DEFINE n == Len(sealed) + 1
             prev == LastHash(file)
  <1>1. PICK x \in Payloads :
          /\ sealed' = Append(sealed, [payload |-> x, prev |-> prev])
          /\ rec' = [rec EXCEPT ![p] = [id |-> n, payload |-> x, prev |-> prev,
                                        hash |-> n, sig |-> key[p]]]
    BY DEF Seal
  <1>2. /\ pc[p] = "locked" /\ pc' = [pc EXCEPT ![p] = "sealed"]
        /\ UNCHANGED <<file, lock, temp, acked, key>>
    BY DEF Seal
  <1>3. prev \in Nat
    BY LastHashType DEF IInv, TypeOK
  <1>4. [payload |-> x, prev |-> prev] \in Content
    BY <1>3 DEF Content
  <1>5. [id |-> n, payload |-> x, prev |-> prev, hash |-> n, sig |-> key[p]] \in Record
    BY <1>3 DEF IInv, TypeOK, Record
  <1>6. TypeOK'
    BY <1>1, <1>2, <1>4, <1>5 DEF IInv, TypeOK, Phase
  <1>7. LockInv'
    BY <1>2 DEF IInv, TypeOK, LockInv
  <1>8. /\ Len(sealed') = n
        /\ sealed'[n] = [payload |-> x, prev |-> prev]
        /\ \A i \in 1..Len(sealed) : sealed'[i] = sealed[i]
    BY <1>1, <1>4 DEF IInv, TypeOK
  <1>9. ChainIntact'
    BY <1>2, <1>8 DEF IInv, TypeOK, ChainIntact
  <1>10. AckedKept'
    BY <1>2 DEF IInv, AckedKept
  <1>11. \A q \in Procs : q # p => pc'[q] = "idle"
    BY <1>2, OneInside DEF IInv, TypeOK
  <1>12. rec'[p] = [id |-> n, payload |-> x, prev |-> prev, hash |-> n, sig |-> key[p]]
    BY <1>1 DEF IInv, TypeOK
  <1>13. \A i \in 1..Len(file) : file[i].id < n
    <2>1. \A i \in 1..Len(file) : file[i].id \in 1..Len(sealed)
      BY DEF IInv, ChainIntact
    <2>2. Len(sealed) \in Nat
      BY DEF IInv, TypeOK
    <2> QED
      BY <2>1, <2>2
  <1>14. SealInv'
    <2> SUFFICES ASSUME NEW q \in Procs, pc'[q] \in {"sealed", "staged"}
                 PROVE  /\ Len(sealed') > 0
                        /\ rec'[q].id = Len(sealed')
                        /\ rec'[q].hash = rec'[q].id
                        /\ rec'[q].prev = LastHash(file')
                        /\ sealed'[Len(sealed')] =
                               [payload |-> rec'[q].payload, prev |-> rec'[q].prev]
                        /\ \A i \in 1..Len(file') : file'[i].id < rec'[q].id
      BY DEF SealInv, LastHash
    <2>1. q = p
      BY <1>11
    <2>2. file' = file
      BY <1>2
    <2>3. n \in Nat /\ n > 0
      BY DEF IInv, TypeOK
    <2> QED
      BY <1>8, <1>12, <1>13, <2>1, <2>2, <2>3
  <1>15. StageInv' /\ ReplaceInv'
    BY <1>2, <1>11 DEF IInv, TypeOK, StageInv, ReplaceInv
  <1>16. BoundInv'
    BY <1>2, <1>8, <1>11, LedgerAssumption DEF IInv, TypeOK, BoundInv
  <1> QED
    BY <1>6, <1>7, <1>9, <1>10, <1>14, <1>15, <1>16 DEF IInv

\* Writing the temporary file keeps the invariant.
LEMMA StageStep ==
  ASSUME IInv, NEW p \in Procs, Stage(p)
  PROVE  IInv'
  <1>1. TypeOK'
    BY DEF IInv, TypeOK, Stage, Phase
  <1>2. LockInv'
    BY DEF IInv, TypeOK, LockInv, Stage
  <1>3. ChainIntact' /\ AckedKept'
    BY DEF IInv, ChainIntact, AckedKept, Stage
  <1>4. SealInv'
    BY DEF IInv, TypeOK, SealInv, Stage, LastHash
  <1>5. StageInv'
    BY DEF IInv, TypeOK, StageInv, Stage
  <1>6. ReplaceInv' /\ BoundInv'
    BY DEF IInv, TypeOK, ReplaceInv, BoundInv, Stage
  <1> QED
    BY <1>1, <1>2, <1>3, <1>4, <1>5, <1>6 DEF IInv

\* The rename adds exactly the staged record to the file.
LEMMA ReplaceFile ==
  ASSUME IInv, NEW p \in Procs, Replace(p)
  PROVE  /\ file' = Append(file, rec[p])
         /\ file' \in Seq(Record)
         /\ Len(file') = Len(file) + 1
         /\ file'[Len(file')] = rec[p]
         /\ \A i \in 1..Len(file) : file'[i] = file[i]
  <1>1. file' = Append(file, rec[p])
    BY DEF IInv, StageInv, Replace
  <1>2. file \in Seq(Record) /\ rec[p] \in Record
    BY DEF IInv, TypeOK
  <1> QED
    BY <1>1, <1>2

\* Renaming the temporary file over the ledger keeps the invariant.
LEMMA ReplaceStep ==
  ASSUME IInv, NEW p \in Procs, Replace(p)
  PROVE  IInv'
  <1>1. /\ pc[p] = "staged" /\ pc' = [pc EXCEPT ![p] = "replaced"]
        /\ UNCHANGED <<sealed, lock, rec, temp, acked, key>>
    BY DEF Replace
  <1>2. TypeOK'
    BY <1>1, ReplaceFile DEF IInv, TypeOK, Phase
  <1>3. LockInv'
    BY <1>1 DEF IInv, TypeOK, LockInv
  <1>4. \A q \in Procs : q # p => pc'[q] = "idle"
    BY <1>1, OneInside DEF IInv, TypeOK
  <1>5. /\ Len(sealed) > 0 /\ rec[p].id = Len(sealed) /\ rec[p].hash = rec[p].id
        /\ rec[p].prev = LastHash(file)
        /\ sealed[Len(sealed)] = [payload |-> rec[p].payload, prev |-> rec[p].prev]
        /\ \A i \in 1..Len(file) : file[i].id < rec[p].id
    BY <1>1 DEF IInv, SealInv
  <1>6. ChainIntact'
    <2> SUFFICES ASSUME NEW i \in 1..Len(file')
                 PROVE  /\ file'[i].prev = IF i = 1 THEN Genesis ELSE file'[i - 1].hash
                        /\ file'[i].hash = file'[i].id
                        /\ file'[i].id \in 1..Len(sealed')
                        /\ sealed'[file'[i].id] =
                             [payload |-> file'[i].payload, prev |-> file'[i].prev]
                        /\ i > 1 => file'[i - 1].id < file'[i].id
      BY DEF ChainIntact
    <2>1. sealed' = sealed /\ Len(sealed) \in Nat /\ Len(file) \in Nat
      BY <1>1 DEF IInv, TypeOK
    <2>2. CASE i \in 1..Len(file)
      <3>1. file'[i] = file[i] /\ (i > 1 => file'[i - 1] = file[i - 1])
        BY <2>1, <2>2, ReplaceFile
      <3> QED
        BY <2>1, <2>2, <3>1 DEF IInv, ChainIntact
    <2>3. CASE i = Len(file) + 1
      <3>1. file'[i] = rec[p] /\ (i > 1 => file'[i - 1] = file[i - 1])
        BY <2>1, <2>3, ReplaceFile
      <3>2. i > 1 => file[i - 1].id < rec[p].id
        BY <1>5, <2>1, <2>3
      <3>3. rec[p].prev = IF i = 1 THEN Genesis ELSE file[i - 1].hash
        BY <1>5, <2>1, <2>3 DEF IInv, TypeOK, LastHash
      <3> QED
        BY <1>5, <2>1, <3>1, <3>2, <3>3
    <2> QED
      BY <2>1, <2>2, <2>3, ReplaceFile
  <1>7. AckedKept'
    <2>1. \A i \in 1..Len(file) : i \in 1..Len(file') /\ file'[i] = file[i]
      BY ReplaceFile DEF IInv, TypeOK
    <2> QED
      BY <1>1, <2>1 DEF IInv, AckedKept
  <1>8. SealInv' /\ StageInv'
    BY <1>1, <1>4 DEF IInv, TypeOK, SealInv, StageInv
  <1>9. ReplaceInv'
    <2>1. rec'[p] = rec[p] /\ file'[Len(file')].id = rec[p].id /\ Len(file') > 0
      BY <1>1, ReplaceFile DEF IInv, TypeOK
    <2> QED
      BY <1>4, <2>1 DEF ReplaceInv
  <1>10. BoundInv'
    BY <1>1 DEF IInv, TypeOK, BoundInv
  <1> QED
    BY <1>2, <1>3, <1>6, <1>7, <1>8, <1>9, <1>10 DEF IInv

\* Returning the record keeps the invariant.
LEMMA ReleaseStep ==
  ASSUME IInv, NEW p \in Procs, Release(p)
  PROVE  IInv'
  <1>1. /\ pc[p] = "replaced" /\ Leave(p) /\ acked' = acked \cup {rec[p].id}
        /\ UNCHANGED <<file, sealed, key>>
    BY DEF Release
  <1>2. TypeOK'
    <2>1. rec[p].id \in Nat
      BY RecordFields DEF IInv, TypeOK
    <2>2. acked' \subseteq Nat
      BY <1>1, <2>1 DEF IInv, TypeOK
    <2>3. /\ lock' \in Procs \cup {NoProc} /\ pc' \in [Procs -> Phase]
          /\ rec' \in [Procs -> Record] /\ temp' \in [Procs -> Seq(Record)]
          /\ file' \in Seq(Record) /\ sealed' \in Seq(Content)
          /\ key' \in [Procs -> KeyOpt]
      BY <1>1, NoRecordType DEF IInv, TypeOK, Leave, Phase
    <2> QED
      BY <1>1, <2>2, <2>3 DEF TypeOK
  <1>3. LockInv'
    BY <1>1, LedgerAssumption DEF IInv, TypeOK, LockInv, Leave
  <1>4. ChainIntact'
    BY <1>1 DEF IInv, ChainIntact
  <1>5. AckedKept'
    <2>1. Len(file) \in 1..Len(file) /\ file[Len(file)].id = rec[p].id
      BY <1>1 DEF IInv, TypeOK, ReplaceInv
    <2> QED
      BY <1>1, <2>1 DEF IInv, AckedKept
  <1>6. SealInv' /\ StageInv' /\ ReplaceInv' /\ BoundInv'
    BY <1>1 DEF IInv, TypeOK, SealInv, StageInv, ReplaceInv, BoundInv, Leave, LastHash
  <1> QED
    BY <1>2, <1>3, <1>4, <1>5, <1>6 DEF IInv

\* A restart with another key keeps the invariant.
LEMMA RekeyStep ==
  ASSUME IInv, NEW p \in Procs, NEW k \in KeyOpt, Rekey(p, k)
  PROVE  IInv'
  <1>1. key' = [key EXCEPT ![p] = k] /\ UNCHANGED <<file, sealed, lock, pc, rec, temp, acked>>
    BY DEF Rekey
  <1>2. TypeOK'
    BY <1>1 DEF IInv, TypeOK
  <1>3. LockInv' /\ ChainIntact' /\ AckedKept'
    BY <1>1 DEF IInv, LockInv, ChainIntact, AckedKept
  <1>4. SealInv' /\ StageInv' /\ ReplaceInv' /\ BoundInv'
    BY <1>1 DEF IInv, SealInv, StageInv, ReplaceInv, BoundInv, LastHash
  <1> QED
    BY <1>2, <1>3, <1>4 DEF IInv

\* Every step of the ledger, and every stutter, keeps the invariant.
LEMMA NextInv == IInv /\ [Next]_vars => IInv'
  <1> SUFFICES ASSUME IInv, [Next]_vars PROVE IInv'
    OBVIOUS
  <1>1. CASE Next
    <2> PICK p \in Procs : \/ Acquire(p) \/ Progress(p) \/ Fail(p) \/ Crash(p)
                           \/ \E k \in KeyOpt : Rekey(p, k)
      BY <1>1 DEF Next
    <2>1. CASE Acquire(p)
      BY <2>1, AcquireStep
    <2>2. CASE Seal(p)
      BY <2>2, SealStep
    <2>3. CASE Stage(p)
      BY <2>3, StageStep
    <2>4. CASE Replace(p)
      BY <2>4, ReplaceStep
    <2>5. CASE Release(p)
      BY <2>5, ReleaseStep
    <2>6. CASE Reject(p) \/ Fail(p) \/ Crash(p)
      BY <2>6, LeaveStep DEF Reject, Fail, Crash
    <2>7. CASE \E k \in KeyOpt : Rekey(p, k)
      BY <2>7, RekeyStep
    <2> QED
      BY <2>1, <2>2, <2>3, <2>4, <2>5, <2>6, <2>7 DEF Progress
  <1>2. CASE UNCHANGED vars
    BY <1>2 DEF vars, IInv, TypeOK, LockInv, ChainIntact, SealInv, StageInv,
              ReplaceInv, BoundInv, AckedKept, LastHash
  <1> QED
    BY <1>1, <1>2

\* The invariant holds in every reachable state of evidence.py's ledger.
THEOREM Invariance == Spec => []IInv
  BY InitInv, NextInv, PTL DEF Spec

-----------------------------------------------------------------------------
(* What follows                                                            *)

\* Type correctness of the ledger, for any number of processes and appends.
THEOREM TypeCorrect == Spec => []TypeOK
  <1>1. IInv => TypeOK
    BY DEF IInv
  <1> QED
    BY <1>1, Invariance, PTL

\* The ledger file is one hash chain in creation order, however the appends of
\* its processes overlap, fail or crash.
THEOREM ChainAlwaysIntact == Spec => []ChainIntact
  <1>1. IInv => ChainIntact
    BY DEF IInv
  <1> QED
    BY <1>1, Invariance, PTL

\* No record that append() returned is ever lost from the file.
THEOREM AckedAlwaysKept == Spec => []AckedKept
  <1>1. IInv => AckedKept
    BY DEF IInv
  <1> QED
    BY <1>1, Invariance, PTL

\* No step removes or rewrites a line of the ledger file.
THEOREM LedgerAppendOnly == Spec => AppendOnly
  <1>1. IInv /\ [Next]_vars => [Extends(file, file')]_vars
    <2> SUFFICES ASSUME IInv, Next PROVE Extends(file, file')
      OBVIOUS
    <2> PICK p \in Procs : \/ Acquire(p) \/ Progress(p) \/ Fail(p) \/ Crash(p)
                           \/ \E k \in KeyOpt : Rekey(p, k)
      BY DEF Next
    <2>1. CASE Replace(p)
      BY <2>1, ReplaceFile DEF IInv, TypeOK, Extends
    <2>2. CASE ~Replace(p)
      <3>1. file' = file
        BY <2>2 DEF Acquire, Progress, Seal, Reject, Stage, Release, Fail, Crash, Rekey
      <3>2. Len(file) \in Nat
        BY DEF IInv, TypeOK
      <3> QED
        BY <3>1, <3>2 DEF Extends
    <2> QED
      BY <2>1, <2>2
  <1> QED
    BY <1>1, Invariance, PTL DEF Spec, AppendOnly

\* In a file all of whose lines parse, `previous' is the hash of the line before.
LEMMA PreviousIsLast ==
  ASSUME NEW f \in Seq(Record), \A j \in 1..Len(f) : Readable(f, j),
         NEW i \in 1..Len(f)
  PROVE  PreviousSeen(f, i) = IF i = 1 THEN Genesis ELSE f[i - 1].hash
  <1> DEFINE parsed == {j \in 1..(i - 1) : Readable(f, j)}
  <1>1. parsed = 1..(i - 1)
    OBVIOUS
  <1>2. CASE i = 1
    BY <1>1, <1>2 DEF PreviousSeen
  <1>3. CASE i > 1
    <2> DEFINE top == CHOOSE m \in parsed : \A h \in parsed : h <= m
    <2>1. i - 1 \in parsed /\ \A h \in parsed : h <= i - 1
      BY <1>1, <1>3
    <2>2. \A m \in parsed : (\A h \in parsed : h <= m) => m = i - 1
      BY <1>1, <2>1
    <2>3. top = i - 1
      BY <2>1, <2>2
    <2>4. PreviousSeen(f, i) = f[top].hash
      BY <2>1 DEF PreviousSeen
    <2> HIDE DEF top
    <2> QED
      BY <1>3, <2>3, <2>4
  <1> QED
    BY <1>2, <1>3

\* verify() reports nothing on a ledger of readable lines whose signatures were
\* all made with the reader's key, for every such ledger append() can write.
THEOREM VerifyAcceptsLedger == Spec => []VerifyAccepts
  <1>1. IInv => VerifyAccepts
    <2> SUFFICES ASSUME IInv, NEW k \in KeyOpt,
                        \A i \in 1..Len(file) : Readable(file, i)
                                                /\ file[i].sig \in {NoKey, k},
                        NEW i \in 1..Len(file)
                 PROVE  i \notin Errors(file, sealed, k)
      BY DEF VerifyAccepts, Errors
    <2>1. file \in Seq(Record) /\ sealed \in Seq(Content)
      BY DEF IInv, TypeOK
    <2>2. file[i].prev = PreviousSeen(file, i)
      <3>1. file[i].prev = IF i = 1 THEN Genesis ELSE file[i - 1].hash
        BY DEF IInv, ChainIntact
      <3>2. \A j \in 1..Len(file) : Readable(file, j)
        OBVIOUS
      <3>3. PreviousSeen(file, i) = IF i = 1 THEN Genesis ELSE file[i - 1].hash
        BY <2>1, <3>2, PreviousIsLast
      <3> QED
        BY <3>1, <3>3, Zenon
    <2>3. file[i].id \in DOMAIN sealed
      <3>1. file[i].id \in 1..Len(sealed)
        BY DEF IInv, ChainIntact
      <3> QED
        BY <2>1, <3>1
    <2>4. file[i].hash = Recomputed(sealed, file[i])
      BY <2>3 DEF IInv, ChainIntact, Recomputed
    <2> QED
      BY <2>2, <2>4 DEF Errors
  <1> QED
    BY <1>1, Invariance, PTL

\* What the chain says of a line and the next: the next names its hash, which is the
\* number of a content and larger than those of the lines before.
LEMMA ChainFacts ==
  ASSUME IInv, NEW i \in 1..Len(file)
  PROVE  /\ file[i] \in Record
         /\ file[i].hash = file[i].id /\ file[i].id \in 1..Len(sealed)
         /\ sealed[file[i].id] = [payload |-> file[i].payload, prev |-> file[i].prev]
         /\ i + 1 \in 1..Len(file) => file[i + 1].prev = file[i].hash
         /\ i > 1 => file[i - 1].hash < file[i].hash /\ file[i - 1].hash \in Nat
  <1>1. file \in Seq(Record)
    BY DEF IInv, TypeOK
  <1>2. ChainIntact
    BY DEF IInv
  <1>3. ASSUME i + 1 \in 1..Len(file) PROVE file[i + 1].prev = file[i].hash
    <2>1. (i + 1) - 1 = i /\ i + 1 # 1
      BY <1>1
    <2>2. file[i + 1].prev = IF i + 1 = 1 THEN Genesis ELSE file[(i + 1) - 1].hash
      BY <1>2, <1>3 DEF ChainIntact
    <2> QED
      BY <2>1, <2>2
  <1>4. ASSUME i > 1 PROVE file[i - 1].hash < file[i].hash /\ file[i - 1].hash \in Nat
    <2>1. i - 1 \in 1..Len(file)
      BY <1>1, <1>4
    <2>2. file[i - 1].hash = file[i - 1].id /\ file[i - 1].id \in 1..Len(sealed)
      BY <1>2, <2>1 DEF ChainIntact
    <2>3. file[i].hash = file[i].id /\ file[i - 1].id < file[i].id
      BY <1>2, <1>4 DEF ChainIntact
    <2> QED
      BY <2>2, <2>3
  <1> QED
    BY <1>1, <1>2, <1>3, <1>4 DEF ChainIntact

\* A file without one of its inner lines: the line that takes its place names the hash
\* of the line that is gone.
LEMMA CutDetected ==
  ASSUME IInv, \A j \in 1..Len(file) : Readable(file, j),
         NEW i \in 1..(Len(file) - 1), NEW k
  PROVE  Errors([j \in 1..(Len(file) - 1) |-> IF j < i THEN file[j] ELSE file[j + 1]],
                sealed, k) # {}
  <1> DEFINE n == Len(file) - 1
             f == [j \in 1..n |-> IF j < i THEN file[j] ELSE file[j + 1]]
  <1>1. file \in Seq(Record) /\ Len(file) \in Nat
    BY DEF IInv, TypeOK
  <1>2. n \in Nat /\ i \in 1..n /\ i \in 1..Len(file) /\ i + 1 \in 1..Len(file)
    BY <1>1
  <1>3. ASSUME NEW j \in 1..n
        PROVE  f[j] \in Record /\ f[j].payload \notin LineSep
    <2>1. j \in 1..Len(file) /\ j + 1 \in 1..Len(file)
      BY <1>1
    <2>2. f[j] = file[j] \/ f[j] = file[j + 1]
      OBVIOUS
    <2> QED
      BY <1>1, <2>1, <2>2 DEF Readable
  <1>4. f \in Seq(Record) /\ Len(f) = n
    BY <1>2, <1>3
  <1>5. f[i] = file[i + 1] /\ (i > 1 => f[i - 1] = file[i - 1])
    BY <1>2
  <1> HIDE DEF f
  <1>6. PreviousSeen(f, i) = IF i = 1 THEN Genesis ELSE f[i - 1].hash
    BY <1>2, <1>3, <1>4, PreviousIsLast DEF Readable
  <1>7. file[i].hash \in 1..Len(sealed) /\ file[i + 1].prev = file[i].hash
    BY <1>2, ChainFacts
  <1>8. i > 1 => file[i - 1].hash < file[i].hash /\ file[i - 1].hash \in Nat
    BY <1>2, ChainFacts
  <1>9. f[i].prev # PreviousSeen(f, i)
    <2>1. CASE i = 1
      BY <1>5, <1>6, <1>7, <2>1 DEF Genesis
    <2>2. CASE i > 1
      <3>1. PreviousSeen(f, i) = file[i - 1].hash
        BY <1>5, <1>6, <2>2
      <3> QED
        BY <1>5, <1>7, <1>8, <2>2, <3>1
    <2> QED
      BY <1>2, <2>1, <2>2
  <1>10. i \in Errors(f, sealed, k)
    BY <1>2, <1>4, <1>9 DEF Errors
  <1> QED
    BY <1>10 DEF f

\* A line with another body under its old hash: the digest of the body is another.
LEMMA StaleDetected ==
  ASSUME IInv, NEW i \in 1..Len(file), NEW k,
         NEW x \in Payloads \ {file[i].payload}
  PROVE  Errors([file EXCEPT ![i].payload = x], sealed, k) # {}
  <1> DEFINE f == [file EXCEPT ![i].payload = x]
  <1>1. file \in Seq(Record) /\ Len(file) \in Nat
    BY DEF IInv, TypeOK
  <1>2. /\ file[i] \in Record
        /\ file[i].hash = file[i].id /\ file[i].id \in 1..Len(sealed)
        /\ sealed[file[i].id] = [payload |-> file[i].payload, prev |-> file[i].prev]
    BY ChainFacts
  <1>3. f[i] = [file[i] EXCEPT !.payload = x] /\ Len(f) = Len(file)
    BY <1>1
  <1> HIDE DEF f
  <1>4. /\ f[i].id = file[i].id /\ f[i].hash = file[i].hash /\ f[i].prev = file[i].prev
        /\ f[i].payload = x
    BY <1>2, <1>3 DEF Record
  <1>5. sealed[f[i].id] # [payload |-> f[i].payload, prev |-> f[i].prev]
    BY <1>2, <1>4
  <1>6. f[i].hash # Recomputed(sealed, f[i])
    BY <1>2, <1>4, <1>5 DEF Recomputed, Genesis
  <1>7. i \in Errors(f, sealed, k)
    BY <1>3, <1>6 DEF Errors
  <1> QED
    BY <1>7 DEF f

\* A line with another body and the hash of that body: the next line still names the
\* old hash, whatever the table of hashes.
LEMMA RehashedDetected ==
  ASSUME IInv, \A j \in 1..Len(file) : Readable(file, j),
         NEW i \in 1..(Len(file) - 1), NEW k, NEW x \in Payloads, NEW table
  PROVE  Errors([file EXCEPT ![i].payload = x, ![i].id = Len(sealed) + 1,
                             ![i].hash = Len(sealed) + 1], table, k) # {}
  <1> DEFINE m == Len(sealed) + 1
             f == [file EXCEPT ![i].payload = x, ![i].id = m, ![i].hash = m]
  <1>1. file \in Seq(Record) /\ Len(file) \in Nat /\ Len(sealed) \in Nat /\ m \in Nat
    BY DEF IInv, TypeOK
  <1>2. i \in 1..Len(file) /\ i + 1 \in 1..Len(file) /\ i + 1 # i /\ i + 1 # 1
    BY <1>1
  <1>3. file[i] \in Record /\ file[i].hash \in 1..Len(sealed) /\ file[i + 1].prev = file[i].hash
    BY <1>2, ChainFacts
  <1> DEFINE r == [file[i] EXCEPT !.payload = x, !.id = m, !.hash = m]
  <1>4. r \in Record /\ r.payload = x /\ r.hash = m
    <2> HIDE DEF m
    <2> QED
      BY <1>1, <1>3 DEF Record
  <1>5. f = [file EXCEPT ![i] = r]
    <2> HIDE DEF m
    <2> QED
      BY <1>1, <1>2, <1>3
  <1> HIDE DEF f, r
  <1>6. /\ f \in Seq(Record) /\ Len(f) = Len(file) /\ f[i] = r
        /\ \A j \in 1..Len(file) : j # i => f[j] = file[j]
    BY <1>1, <1>2, <1>4, <1>5
  <1>7. CASE x \in LineSep
    <2>1. ~Readable(f, i)
      BY <1>4, <1>6, <1>7 DEF Readable
    <2> QED
      BY <1>2, <1>6, <2>1 DEF Errors, f
  <1>8. CASE x \notin LineSep
    <2>1. \A j \in 1..Len(f) : Readable(f, j)
      BY <1>4, <1>6, <1>8 DEF Readable
    <2>2. PreviousSeen(f, i + 1) = IF i + 1 = 1 THEN Genesis ELSE f[(i + 1) - 1].hash
      BY <1>2, <1>6, <2>1, PreviousIsLast
    <2>3. PreviousSeen(f, i + 1) = m
      <3>1. (i + 1) - 1 = i
        BY <1>2
      <3> QED
        BY <1>2, <1>4, <1>6, <2>2, <3>1
    <2>4. f[i + 1].prev = file[i].hash
      BY <1>2, <1>3, <1>6
    <2>5. f[i + 1].prev # PreviousSeen(f, i + 1)
      BY <1>1, <1>3, <2>3, <2>4
    <2>6. i + 1 \in Errors(f, table, k)
      BY <1>2, <1>6, <2>5 DEF Errors
    <2> QED
      BY <2>6 DEF f
  <1> QED
    BY <1>7, <1>8

\* Whoever cuts an inner line out of a ledger that append() wrote, or changes its body,
\* with or without a new hash, is found out by verify(), whatever key the reader holds.
THEOREM ChangesAlwaysDetected == Spec => []InteriorChangeDetected
  <1>1. IInv => InteriorChangeDetected
    <2> SUFFICES ASSUME IInv, \A j \in 1..Len(file) : Readable(file, j),
                        NEW i \in 1..(Len(file) - 1), NEW k \in KeyOpt
                 PROVE  /\ Errors([j \in 1..(Len(file) - 1) |->
                                      IF j < i THEN file[j] ELSE file[j + 1]], sealed, k) # {}
                        /\ \A x \in (Payloads \ {file[i].payload}) :
                             /\ Errors([file EXCEPT ![i].payload = x], sealed, k) # {}
                             /\ Errors([file EXCEPT ![i].payload = x,
                                                    ![i].id = Len(sealed) + 1,
                                                    ![i].hash = Len(sealed) + 1],
                                       Append(sealed, [payload |-> x, prev |-> file[i].prev]),
                                       k) # {}
      BY DEF InteriorChangeDetected
    <2>1. i \in 1..Len(file)
      BY DEF IInv, TypeOK
    <2> QED
      BY <2>1, CutDetected, StaleDetected, RehashedDetected
  <1> QED
    BY <1>1, Invariance, PTL

\* evidence.py's ledger implements the abstract append-only log: its steps add
\* one new record at the end, acknowledge one that is there, or change nothing.
THEOREM Refinement == Spec => ImplementsLog
  <1> DEFINE ids == [i \in 1..Len(file) |-> file[i].id]
  <1>1. Init => Log!Init
    BY DEF Init, Log!Init
  <1>2. IInv /\ [Next]_vars => [Log!Next]_<<ids, acked>>
    <2> SUFFICES ASSUME IInv, [Next]_vars
                 PROVE  Log!Next \/ UNCHANGED <<ids, acked>>
      OBVIOUS
    <2>1. CASE \E p \in Procs : Replace(p)
      <3> PICK p \in Procs : Replace(p)
        BY <2>1
      <3> DEFINE e == rec[p].id
      <3>1. /\ Len(sealed) > 0 /\ e = Len(sealed)
            /\ \A i \in 1..Len(file) : file[i].id < e
        BY DEF IInv, SealInv, Replace
      <3>2. e \in 1..MaxAppends
        BY <3>1, LedgerAssumption DEF IInv, BoundInv, TypeOK
      <3>3. /\ Len(file) \in Nat /\ Len(file') = Len(file) + 1
            /\ file'[Len(file) + 1].id = e
            /\ \A i \in 1..Len(file) : file'[i].id = file[i].id
        BY ReplaceFile DEF IInv, TypeOK
      <3>4. ids \in Seq(Nat) /\ Len(ids) = Len(file) /\ e \in Nat
        <4>1. \A i \in 1..Len(file) : file[i].id \in Nat
          BY RecordFields DEF IInv, TypeOK
        <4> QED
          BY <3>2, <3>3, <4>1
      <3>5. ids' = Append(ids, e)
        <4> HIDE DEF e
        <4>1. ids' = [i \in 1..(Len(file) + 1) |-> IF i = Len(file) + 1 THEN e ELSE file[i].id]
          BY <3>3
        <4> QED
          BY <3>3, <3>4, <4>1
      <3>6. e \notin Log!Committed
        BY <3>1, <3>3, <3>4 DEF Log!Committed
      <3>7. acked' = acked
        BY DEF Replace
      <3> QED
        BY <3>2, <3>5, <3>6, <3>7 DEF Log!Next, Log!Commit
    <2>2. CASE \E p \in Procs : Release(p)
      <3> PICK p \in Procs : Release(p)
        BY <2>2
      <3>1. file' = file /\ acked' = acked \cup {rec[p].id} /\ pc[p] = "replaced"
        BY DEF Release
      <3>2. Len(file) \in 1..Len(file) /\ file[Len(file)].id = rec[p].id
        BY <3>1 DEF IInv, TypeOK, ReplaceInv
      <3>3. rec[p].id \in 1..MaxAppends
        <4>1. rec[p].id \in 1..Len(sealed)
          BY <3>2 DEF IInv, ChainIntact
        <4> QED
          BY <4>1, LedgerAssumption DEF IInv, TypeOK, BoundInv
      <3>4. rec[p].id \in Log!Committed
        <4>1. Len(ids) = Len(file) /\ ids[Len(file)] = rec[p].id
          BY <3>2 DEF IInv, TypeOK
        <4> QED
          BY <3>2, <4>1 DEF Log!Committed
      <3> QED
        BY <3>1, <3>3, <3>4 DEF Log!Next, Log!Acknowledge
    <2>3. CASE UNCHANGED <<file, acked>>
      BY <2>3
    <2> QED
      BY <2>1, <2>2, <2>3 DEF Next, Progress, Acquire, Seal, Reject, Stage, Fail,
                             Crash, Rekey, vars
  <1> QED
    BY <1>1, <1>2, Invariance, PTL DEF Spec, ImplementsLog, Log!Spec
=============================================================================
