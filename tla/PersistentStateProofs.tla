------------------------- MODULE PersistentStateProofs -------------------------
(***************************************************************************)
(* What callers of the locked state file may rely on, for any number of    *)
(* processes, names, slots and calls.                                      *)
(***************************************************************************)
EXTENDS PersistentState, SequenceTheorems, TLAPS

Counter(o) == CounterName(o.tenant, o.asset)

\* Only the holder of the lock is inside an operation, and it runs one of Ops.
LockInv ==
    /\ pc \in [Procs -> {"idle", "reading", "staged", "replaced"}]
    /\ DOMAIN op = Procs /\ DOMAIN draft = Procs
    /\ \A p \in Procs : pc[p] # "idle" => lock = p /\ op[p] \in Ops

\* The file is one object with its three parts, its counters are numbers, and a counter
\* exists only for a tenant and an asset that claimed on it.
DiskInv ==
    /\ disk = [idem |-> disk.idem, seqs |-> disk.seqs, vals |-> disk.vals]
    /\ \A name \in DOMAIN disk.seqs : disk.seqs[name] \in Nat
    /\ owners \subseteq Tenants \X Assets
    /\ \A name \in DOMAIN disk.seqs : \E w \in owners : name = CounterName(w[1], w[2])

\* A written temporary file is the state file with the caller's update, still allowed.
StagedInv ==
    \A p \in Procs : pc[p] = "staged" =>
        Accepts(disk, op[p]) /\ draft[p] = Updated(disk, op[p])

\* A number answered True is covered by its counter.
GrantedInv ==
    /\ granted \in Seq(Claims)
    /\ \A i \in 1..Len(granted) :
           /\ Counter(granted[i]) \in DOMAIN disk.seqs
           /\ granted[i].n <= disk.seqs[Counter(granted[i])]

\* Between the rename and the answer the file holds the caller's claim or response, and
\* no equal or larger number of that counter has been answered.
ReplacedInv ==
    \A p \in Procs : pc[p] = "replaced" =>
        /\ op[p] \in Claims =>
               /\ Counter(op[p]) \in DOMAIN disk.seqs
               /\ disk.seqs[Counter(op[p])] = op[p].n
               /\ \A i \in 1..Len(granted) :
                      Counter(granted[i]) = Counter(op[p]) => granted[i].n < op[p].n
        /\ op[p] \in Saves =>
               /\ op[p].slot \in DOMAIN disk.idem
               /\ disk.idem[op[p].slot].fp = op[p].fp

IInv == LockInv /\ DiskInv /\ StagedInv /\ GrantedInv /\ ReplacedInv
            /\ GrantsIncrease /\ SavesKept
-----------------------------------------------------------------------------
(* The operators.                                                          *)

\* The kind of an operation tells which method it calls.
LEMMA OpKinds ==
    ASSUME NEW o \in Ops
    PROVE  /\ o.kind = "claim" <=> o \in Claims
           /\ o.kind = "save" <=> o \in Saves
           /\ o.kind = "set" <=> o \in Sets
           /\ o \in Claims \/ o \in Saves \/ o \in Sets
BY DEF Ops, Claims, Saves, Sets

\* What each method writes: its own part of the file changes, the others stay.
LEMMA UpdatedFacts ==
    ASSUME NEW d, d = [idem |-> d.idem, seqs |-> d.seqs, vals |-> d.vals], NEW o \in Ops
    PROVE  /\ o \in Claims => Updated(d, o) = [idem |-> d.idem, vals |-> d.vals,
                                    seqs |-> Store!Put(d.seqs, Counter(o), o.n)]
           /\ o \in Saves => Updated(d, o) = [seqs |-> d.seqs, vals |-> d.vals,
                     idem |-> Store!Put(d.idem, o.slot, [fp |-> o.fp, resp |-> o.resp])]
           /\ o \in Sets => Updated(d, o) = [idem |-> d.idem, seqs |-> d.seqs,
                                    vals |-> Store!Put(d.vals, o.entry, o.value)]
<1>1. ASSUME o \in Claims
      PROVE  Updated(d, o) = [idem |-> d.idem, vals |-> d.vals,
                              seqs |-> Store!Put(d.seqs, Counter(o), o.n)]
  <2>1. o.kind = "claim"
    BY <1>1, OpKinds
  <2>2. Updated(d, o) = [d EXCEPT !.seqs = Store!Put(@, CounterName(o.tenant, o.asset), o.n)]
    BY <2>1 DEF Updated
  <2> QED
    BY <2>2 DEF Counter
<1>2. ASSUME o \in Saves
      PROVE  Updated(d, o) = [seqs |-> d.seqs, vals |-> d.vals,
                     idem |-> Store!Put(d.idem, o.slot, [fp |-> o.fp, resp |-> o.resp])]
  <2>1. o.kind = "save"
    BY <1>2, OpKinds
  <2>2. Updated(d, o) = [d EXCEPT !.idem = Store!Put(@, o.slot, [fp |-> o.fp, resp |-> o.resp])]
    BY <2>1 DEF Updated
  <2> QED
    BY <2>2
<1>3. ASSUME o \in Sets
      PROVE  Updated(d, o) = [idem |-> d.idem, seqs |-> d.seqs,
                              vals |-> Store!Put(d.vals, o.entry, o.value)]
  <2>1. o.kind = "set"
    BY <1>3, OpKinds
  <2>2. Updated(d, o) = [d EXCEPT !.vals = Store!Put(@, o.entry, o.value)]
    BY <2>1 DEF Updated
  <2> QED
    BY <2>2
<1> QED
  BY <1>1, <1>2, <1>3

\* The parts of a key of two plain names are the names.
LEMMA PlainKey ==
    ASSUME NEW t \in Seq(STRING), NEW a \in Seq(STRING), Len(t) = 1, Len(a) = 1
    PROVE  (t \o a)[1] = t[1] /\ (t \o a)[2] = a[1]
<1>1. \A i \in 1..(Len(t) + Len(a)) :
          (t \o a)[i] = IF i <= Len(t) THEN t[i] ELSE a[i - Len(t)]
  BY ConcatProperties
<1>2. 1 \in 1..(Len(t) + Len(a)) /\ 1 <= Len(t)
  OBVIOUS
<1>3. 2 \in 1..(Len(t) + Len(a)) /\ ~(2 <= Len(t)) /\ 2 - Len(t) = 1
  OBVIOUS
<1>4. (t \o a)[1] = t[1]
  BY <1>1, <1>2, Zenon
<1>5. (t \o a)[2] = a[2 - Len(t)]
  BY <1>1, <1>3, Zenon
<1> QED
  BY <1>3, <1>4, <1>5, Zenon

\* A key of two plain names is the key of no other tenant and asset.
LEMMA PlainNames ==
    ASSUME NEW t \in Tenants, NEW a \in Assets, Len(t) = 1, Len(a) = 1,
           NEW u \in Tenants, NEW b \in Assets,
           CounterName(t, a) = CounterName(u, b)
    PROVE  t = u /\ a = b
<1>1. t \in Seq(STRING) /\ a \in Seq(STRING) /\ u \in Seq(STRING) /\ b \in Seq(STRING)
  BY NameAssumption
<1>2. t \o a = u \o b
  BY DEF CounterName
<1>3. Len(u) # 0 /\ Len(b) # 0
  BY <1>1, NameAssumption
<1>4. Len(u) + Len(b) = 2
  <2>1. Len(t \o a) = Len(t) + Len(a) /\ Len(u \o b) = Len(u) + Len(b)
    BY <1>1, ConcatProperties
  <2> QED
    BY <1>2, <2>1
<1>5. Len(u) = 1 /\ Len(b) = 1
  BY <1>1, <1>3, <1>4
<1>6. (t \o a)[1] = t[1] /\ (t \o a)[2] = a[1]
  BY <1>1, PlainKey
<1>7. (u \o b)[1] = u[1] /\ (u \o b)[2] = b[1]
  BY <1>1, <1>5, PlainKey
<1>8. t[1] = u[1] /\ a[1] = b[1]
  BY <1>2, <1>6, <1>7, Zenon
<1> QED
  BY <1>1, <1>5, <1>8

-----------------------------------------------------------------------------
(* The invariant is inductive.                                             *)

\* An empty file satisfies it.
LEMMA InitInv == Init => IInv
<1> SUFFICES ASSUME Init PROVE IInv
  OBVIOUS
<1>1. LockInv
  BY DEF Init, LockInv
<1>2. DOMAIN <<>> = {} /\ Len(<<>>) = 0 /\ <<>> \in Seq(Claims)
  OBVIOUS
<1>3. DiskInv
  BY <1>2 DEF Init, DiskInv, Empty
<1>4. StagedInv /\ ReplacedInv
  BY DEF Init, StagedInv, ReplacedInv
<1>5. GrantedInv /\ GrantsIncrease /\ SavesKept
  BY <1>2 DEF Init, GrantedInv, GrantsIncrease, SavesKept
<1> QED
  BY <1>1, <1>3, <1>4, <1>5 DEF IInv

\* A process that leaves its operation, answered or not, leaves a state of the invariant
\* if the history of answers does.
LEMMA LeaveKeepsInv ==
    ASSUME IInv, NEW p \in Procs, pc[p] # "idle", Leave(p), disk' = disk, owners' = owners
    PROVE  LockInv' /\ DiskInv' /\ StagedInv' /\ ReplacedInv'
<1>1. pc'[p] = "idle" /\ \A q \in Procs : q # p => pc[q] = "idle" /\ pc'[q] = "idle"
  BY DEF IInv, LockInv, Leave
<1>2. LockInv'
  BY <1>1 DEF IInv, LockInv, Leave
<1>3. DiskInv'
  BY DEF IInv, DiskInv
<1>4. \A q \in Procs : pc'[q] = "idle"
  BY <1>1
<1> QED
  BY <1>2, <1>3, <1>4 DEF StagedInv, ReplacedInv

\* Entering only takes the lock.
LEMMA EnterKeepsInv ==
    ASSUME IInv, NEW p \in Procs, NEW o \in Ops, Enter(p, o)
    PROVE  IInv'
<1>1. \A q \in Procs : q # p => pc[q] = "idle" /\ pc'[q] = "idle"
  BY StateAssumption DEF IInv, LockInv, Enter
<1>2. pc'[p] = "reading"
  BY DEF IInv, LockInv, Enter
<1>3. LockInv'
  BY <1>1, <1>2 DEF IInv, LockInv, Enter
<1>4. DiskInv'
  BY DEF IInv, DiskInv, Enter
<1>5. StagedInv' /\ ReplacedInv'
  BY <1>1, <1>2 DEF StagedInv, ReplacedInv
<1>6. GrantedInv' /\ GrantsIncrease' /\ SavesKept'
  BY DEF IInv, GrantedInv, GrantsIncrease, SavesKept, Enter
<1> QED
  BY <1>3, <1>4, <1>5, <1>6 DEF IInv

\* Writing the temporary file leaves the state file alone.
LEMMA StageKeepsInv ==
    ASSUME IInv, NEW p \in Procs, Stage(p)
    PROVE  IInv'
<1>1. \A q \in Procs : q # p => pc[q] = "idle" /\ pc'[q] = "idle"
  BY StateAssumption DEF IInv, LockInv, Stage
<1>2. pc'[p] = "staged" /\ disk' = disk /\ op' = op
  BY DEF IInv, LockInv, Stage
<1>3. LockInv'
  BY <1>1, <1>2 DEF IInv, LockInv, Stage
<1>4. DiskInv'
  BY DEF IInv, DiskInv, Stage
<1>5. Accepts(disk', op'[p]) /\ draft'[p] = Updated(disk', op'[p])
  BY <1>2 DEF IInv, LockInv, Stage
<1>6. StagedInv' /\ ReplacedInv'
  BY <1>1, <1>2, <1>5 DEF StagedInv, ReplacedInv
<1>7. GrantedInv' /\ GrantsIncrease' /\ SavesKept'
  BY DEF IInv, GrantedInv, GrantsIncrease, SavesKept, Stage
<1> QED
  BY <1>3, <1>4, <1>6, <1>7 DEF IInv

\* The rename puts a claim's number, or a response, in the file and keeps the rest.
LEMMA ReplaceKeepsInv ==
    ASSUME IInv, NEW p \in Procs, Replace(p)
    PROVE  IInv'
<1> DEFINE o == op[p]
<1>1. \A q \in Procs : q # p => pc[q] = "idle" /\ pc'[q] = "idle"
  BY StateAssumption DEF IInv, LockInv, Replace
<1>2. /\ pc'[p] = "replaced" /\ op' = op /\ granted' = granted /\ saved' = saved
      /\ o \in Ops /\ Accepts(disk, o) /\ disk' = Updated(disk, o)
  BY DEF IInv, LockInv, StagedInv, Replace
<1>3. LockInv'
  BY <1>1, <1>2 DEF IInv, LockInv, Replace
<1>4. disk = [idem |-> disk.idem, seqs |-> disk.seqs, vals |-> disk.vals]
  BY DEF IInv, DiskInv
<1>5. StagedInv'
  BY <1>1, <1>2 DEF StagedInv
<1>6. GrantsIncrease'
  BY <1>2 DEF IInv, GrantsIncrease
<1>7. ASSUME o \in Claims
      PROVE  DiskInv' /\ ReplacedInv' /\ GrantedInv' /\ SavesKept'
  <2> DEFINE name == Counter(o)
  <2>1. /\ disk' = [idem |-> disk.idem, vals |-> disk.vals,
                    seqs |-> Store!Put(disk.seqs, name, o.n)]
        /\ o.kind = "claim" /\ o \notin Saves
    BY <1>2, <1>4, <1>7, UpdatedFacts, OpKinds
  <2>2. /\ disk'.idem = disk.idem
        /\ disk' = [idem |-> disk'.idem, seqs |-> disk'.seqs, vals |-> disk'.vals]
    BY <2>1
  <2>3. /\ DOMAIN disk'.seqs = DOMAIN disk.seqs \cup {name} /\ disk'.seqs[name] = o.n
        /\ \A y \in DOMAIN disk.seqs : y # name => disk'.seqs[y] = disk.seqs[y]
    <3>1. disk'.seqs = Store!Put(disk.seqs, name, o.n)
      BY <2>1
    <3> QED
      BY <3>1 DEF Store!Put
  <2>4. name \in DOMAIN disk.seqs => o.n > disk.seqs[name]
    BY <1>2, <2>1 DEF Accepts, Store!Newer, Counter
  <2>5. o.n \in Nat /\ o.tenant \in Tenants /\ o.asset \in Assets
    BY <1>7 DEF Claims
  <2>6. owners' = owners \cup {<<o.tenant, o.asset>>}
    BY <2>1 DEF Replace
  <2>7. DiskInv'
    <3>1. \A y \in DOMAIN disk'.seqs : disk'.seqs[y] \in Nat
      BY <2>3, <2>5 DEF IInv, DiskInv
    <3>2. owners' \subseteq Tenants \X Assets
      BY <2>5, <2>6 DEF IInv, DiskInv
    <3>3. ASSUME NEW y \in DOMAIN disk'.seqs
          PROVE  \E w \in owners' : y = CounterName(w[1], w[2])
      <4>1. CASE y = name
        <5> DEFINE w == <<o.tenant, o.asset>>
        <5>1. w \in owners' /\ w[1] = o.tenant /\ w[2] = o.asset
          BY <2>6
        <5> QED
          BY <4>1, <5>1 DEF Counter
      <4>2. CASE y \in DOMAIN disk.seqs
        BY <2>6, <4>2 DEF IInv, DiskInv
      <4> QED
        BY <2>3, <4>1, <4>2
    <3> QED
      BY <2>2, <3>1, <3>2, <3>3 DEF DiskInv
  <2>8. ASSUME NEW i \in 1..Len(granted)
        PROVE  /\ Counter(granted[i]) \in DOMAIN disk'.seqs
               /\ granted[i].n <= disk'.seqs[Counter(granted[i])]
               /\ Counter(granted[i]) = name => granted[i].n < o.n
    <3>1. /\ Counter(granted[i]) \in DOMAIN disk.seqs
          /\ granted[i].n <= disk.seqs[Counter(granted[i])]
          /\ disk.seqs[Counter(granted[i])] \in Nat
      BY DEF IInv, GrantedInv, DiskInv
    <3>2. granted[i].n \in Nat
      <4>1. granted[i] \in Claims
        BY DEF IInv, GrantedInv
      <4> QED
        BY <4>1 DEF Claims
    <3> QED
      BY <2>3, <2>4, <2>5, <3>1, <3>2
  <2>9. GrantedInv'
    BY <1>2, <2>8 DEF IInv, GrantedInv
  <2>10. ReplacedInv'
    BY <1>1, <1>2, <2>1, <2>3, <2>8 DEF ReplacedInv
  <2>11. SavesKept'
    BY <1>2, <2>2 DEF IInv, SavesKept
  <2> QED
    BY <2>7, <2>9, <2>10, <2>11
<1>8. ASSUME o \in Saves
      PROVE  DiskInv' /\ ReplacedInv' /\ GrantedInv' /\ SavesKept'
  <2> DEFINE e == [fp |-> o.fp, resp |-> o.resp]
  <2>1. /\ disk' = [seqs |-> disk.seqs, vals |-> disk.vals,
                    idem |-> Store!Put(disk.idem, o.slot, e)]
        /\ o.kind = "save" /\ o \notin Claims
    BY <1>2, <1>4, <1>8, UpdatedFacts, OpKinds
  <2>2. /\ disk'.seqs = disk.seqs
        /\ disk' = [idem |-> disk'.idem, seqs |-> disk'.seqs, vals |-> disk'.vals]
    BY <2>1
  <2>3. /\ DOMAIN disk'.idem = DOMAIN disk.idem \cup {o.slot} /\ disk'.idem[o.slot] = e
        /\ \A y \in DOMAIN disk.idem : y # o.slot => disk'.idem[y] = disk.idem[y]
    <3>1. disk'.idem = Store!Put(disk.idem, o.slot, e)
      BY <2>1
    <3> HIDE DEF e
    <3> QED
      BY <3>1 DEF Store!Put
  <2>4. o.slot \in DOMAIN disk.idem => disk.idem[o.slot].fp = o.fp
    BY <1>2, <2>1 DEF Accepts, Store!Free
  <2>5. owners' = owners
    BY <2>1 DEF Replace
  <2>6. DiskInv'
    BY <2>2, <2>5 DEF IInv, DiskInv
  <2>7. GrantedInv'
    BY <1>2, <2>2 DEF IInv, GrantedInv
  <2>8. ReplacedInv'
    BY <1>1, <1>2, <2>1, <2>3 DEF ReplacedInv
  <2>9. SavesKept'
    <3> SUFFICES ASSUME NEW s \in saved
                 PROVE  s[1] \in DOMAIN disk'.idem /\ disk'.idem[s[1]].fp = s[2]
      BY <1>2 DEF SavesKept
    <3>1. s[1] \in DOMAIN disk.idem /\ disk.idem[s[1]].fp = s[2]
      BY DEF IInv, SavesKept
    <3>2. CASE s[1] = o.slot
      BY <2>3, <2>4, <3>1, <3>2
    <3>3. CASE s[1] # o.slot
      BY <2>3, <3>1, <3>3
    <3> QED
      BY <3>2, <3>3
  <2> QED
    BY <2>6, <2>7, <2>8, <2>9
<1>9. ASSUME o \in Sets
      PROVE  DiskInv' /\ ReplacedInv' /\ GrantedInv' /\ SavesKept'
  <2>1. /\ disk' = [idem |-> disk.idem, seqs |-> disk.seqs,
                    vals |-> Store!Put(disk.vals, o.entry, o.value)]
        /\ o.kind = "set" /\ o \notin Claims /\ o \notin Saves
    BY <1>2, <1>4, <1>9, UpdatedFacts, OpKinds
  <2>2. /\ disk'.seqs = disk.seqs /\ disk'.idem = disk.idem /\ owners' = owners
        /\ disk' = [idem |-> disk'.idem, seqs |-> disk'.seqs, vals |-> disk'.vals]
    BY <2>1 DEF Replace
  <2>3. DiskInv' /\ GrantedInv' /\ SavesKept'
    BY <1>2, <2>2 DEF IInv, DiskInv, GrantedInv, SavesKept
  <2>4. ReplacedInv'
    BY <1>1, <1>2, <2>1 DEF ReplacedInv
  <2> QED
    BY <2>3, <2>4
<1>10. o \in Claims \/ o \in Saves \/ o \in Sets
  BY <1>2, OpKinds
<1> QED
  BY <1>3, <1>5, <1>6, <1>7, <1>8, <1>9, <1>10 DEF IInv

\* The answer follows the rename, so it only records what the file holds.
LEMMA ReturnKeepsInv ==
    ASSUME IInv, NEW p \in Procs, Return(p)
    PROVE  IInv'
<1> DEFINE o == op[p]
<1>1. pc[p] = "replaced" /\ o \in Ops /\ disk' = disk /\ owners' = owners /\ Leave(p)
  BY DEF IInv, LockInv, Return
<1>2. LockInv' /\ DiskInv' /\ StagedInv' /\ ReplacedInv'
  BY <1>1, LeaveKeepsInv
<1>3. ASSUME o \in Claims
      PROVE  GrantedInv' /\ GrantsIncrease' /\ SavesKept'
  <2>1. granted' = Append(granted, o) /\ saved' = saved
    BY <1>1, <1>3, OpKinds DEF Return
  <2>2. /\ granted \in Seq(Claims) /\ granted' \in Seq(Claims)
        /\ Len(granted') = Len(granted) + 1 /\ granted'[Len(granted')] = o
        /\ \A i \in 1..Len(granted) : granted'[i] = granted[i]
    BY <1>3, <2>1 DEF IInv, GrantedInv
  <2>3. \A i \in 1..Len(granted') : i \in 1..Len(granted) \/ i = Len(granted')
    BY <2>2
  <2>4. /\ Counter(o) \in DOMAIN disk.seqs /\ disk.seqs[Counter(o)] = o.n /\ o.n \in Nat
        /\ \A i \in 1..Len(granted) :
               Counter(granted[i]) = Counter(o) => granted[i].n < o.n
    BY <1>1, <1>3 DEF IInv, ReplacedInv, Claims
  <2>5. GrantedInv'
    <3> SUFFICES ASSUME NEW i \in 1..Len(granted')
                 PROVE  /\ Counter(granted'[i]) \in DOMAIN disk.seqs
                        /\ granted'[i].n <= disk.seqs[Counter(granted'[i])]
      BY <1>1, <2>2 DEF GrantedInv
    <3>1. CASE i \in 1..Len(granted)
      BY <2>2, <3>1 DEF IInv, GrantedInv
    <3>2. CASE i = Len(granted')
      BY <2>2, <2>4, <3>2
    <3> QED
      BY <2>3, <3>1, <3>2
  <2>6. GrantsIncrease'
    <3> SUFFICES ASSUME NEW i \in 1..Len(granted'), NEW j \in 1..Len(granted'), i < j,
                        granted'[i].tenant = granted'[j].tenant,
                        granted'[i].asset = granted'[j].asset
                 PROVE  granted'[i].n < granted'[j].n
      BY DEF GrantsIncrease
    <3>1. i \in 1..Len(granted) /\ granted'[i] = granted[i] /\ Len(granted) \in Nat
      BY <2>2
    <3>2. CASE j \in 1..Len(granted)
      BY <2>2, <3>1, <3>2 DEF IInv, GrantsIncrease
    <3>3. CASE j = Len(granted')
      <4>1. granted'[j] = o /\ Counter(granted[i]) = Counter(o)
        BY <2>2, <3>1, <3>3 DEF Counter
      <4> QED
        BY <2>4, <3>1, <4>1
    <3> QED
      BY <2>3, <3>2, <3>3
  <2>7. SavesKept'
    BY <1>1, <2>1 DEF IInv, SavesKept
  <2> QED
    BY <2>5, <2>6, <2>7
<1>4. ASSUME o \notin Claims
      PROVE  GrantedInv' /\ GrantsIncrease' /\ SavesKept'
  <2>1. granted' = granted
    BY <1>1, <1>4, OpKinds DEF Return
  <2>2. GrantedInv' /\ GrantsIncrease'
    BY <1>1, <2>1 DEF IInv, GrantedInv, GrantsIncrease
  <2>3. CASE o \in Saves
    <3>1. saved' = saved \cup {<<o.slot, o.fp>>}
      BY <1>1, <2>3, OpKinds DEF Return
    <3>2. o.slot \in DOMAIN disk.idem /\ disk.idem[o.slot].fp = o.fp
      BY <1>1, <2>3 DEF IInv, ReplacedInv
    <3>3. SavesKept'
      BY <1>1, <3>1, <3>2 DEF IInv, SavesKept
    <3> QED
      BY <2>2, <3>3
  <2>4. CASE o \notin Saves
    <3>1. saved' = saved
      BY <1>1, <2>4, OpKinds DEF Return
    <3> QED
      BY <1>1, <2>2, <3>1 DEF IInv, SavesKept
  <2> QED
    BY <2>3, <2>4
<1> QED
  BY <1>2, <1>3, <1>4 DEF IInv

\* A refusal, an error or a death answers nothing and leaves the file alone.
LEMMA GiveUpKeepsInv ==
    ASSUME IInv, NEW p \in Procs, Refuse(p) \/ Abort(p)
    PROVE  IInv'
<1>1. /\ pc[p] # "idle" /\ Leave(p) /\ disk' = disk /\ owners' = owners
      /\ granted' = granted /\ saved' = saved
  BY DEF Refuse, Abort
<1>2. LockInv' /\ DiskInv' /\ StagedInv' /\ ReplacedInv'
  BY <1>1, LeaveKeepsInv
<1>3. GrantedInv' /\ GrantsIncrease' /\ SavesKept'
  BY <1>1 DEF IInv, GrantedInv, GrantsIncrease, SavesKept
<1> QED
  BY <1>2, <1>3 DEF IInv

\* Every step keeps the invariant.
LEMMA StepKeepsInv == IInv /\ [Next \/ Done]_vars => IInv'
<1> SUFFICES ASSUME IInv, [Next \/ Done]_vars PROVE IInv'
  OBVIOUS
<1>1. ASSUME NEW p \in Procs, NEW o \in Ops, Enter(p, o)
      PROVE  IInv'
  BY <1>1, EnterKeepsInv
<1>2. ASSUME NEW p \in Procs, Refuse(p) \/ Abort(p)
      PROVE  IInv'
  BY <1>2, GiveUpKeepsInv
<1>3. ASSUME NEW p \in Procs, Stage(p)
      PROVE  IInv'
  BY <1>3, StageKeepsInv
<1>4. ASSUME NEW p \in Procs, Replace(p)
      PROVE  IInv'
  BY <1>4, ReplaceKeepsInv
<1>5. ASSUME NEW p \in Procs, Return(p)
      PROVE  IInv'
  BY <1>5, ReturnKeepsInv
<1>6. CASE UNCHANGED vars
  BY <1>6 DEF vars, IInv, LockInv, DiskInv, StagedInv, GrantedInv, ReplacedInv,
              GrantsIncrease, SavesKept
<1> QED
  BY <1>1, <1>2, <1>3, <1>4, <1>5, <1>6 DEF Next, Done

\* The invariant holds in every reachable state of the state file.
THEOREM StateInvariant == Spec => []IInv
BY InitInv, StepKeepsInv, PTL DEF Spec

-----------------------------------------------------------------------------
(* What the callers rely on.                                               *)

\* Numbers answered True increase for each tenant and asset, a save that returned stays
\* in the file under its fingerprint, and a plain tenant and asset meet only numbers of
\* their own: whatever processes overlap, are refused, fail or die between the steps of
\* claim_sequence, save_idempotent and set_value.
THEOREM AnswersAlwaysHold == Spec => []AnswersHold
<1>1. IInv => AnswersHold
  <2> SUFFICES ASSUME IInv PROVE TenantIsolated
    BY DEF IInv, AnswersHold
  <2> SUFFICES ASSUME NEW p \in Procs, pc[p] = "reading", op[p].kind = "claim",
                      Len(op[p].tenant) = 1, Len(op[p].asset) = 1,
                      CounterName(op[p].tenant, op[p].asset) \in DOMAIN disk.seqs
               PROVE  <<op[p].tenant, op[p].asset>> \in owners
    BY DEF TenantIsolated
  <2>1. op[p].tenant \in Tenants /\ op[p].asset \in Assets
    <3>1. op[p] \in Ops
      BY DEF IInv, LockInv
    <3>2. op[p] \in Claims
      BY <3>1, OpKinds
    <3> QED
      BY <3>2 DEF Claims
  <2>2. PICK w \in owners : CounterName(op[p].tenant, op[p].asset) = CounterName(w[1], w[2])
    BY DEF IInv, DiskInv
  <2>3. w[1] \in Tenants /\ w[2] \in Assets /\ w = <<w[1], w[2]>>
    BY DEF IInv, DiskInv
  <2>4. op[p].tenant = w[1] /\ op[p].asset = w[2]
    BY <2>1, <2>2, <2>3, PlainNames
  <2> QED
    BY <2>3, <2>4
<1> QED
  BY <1>1, StateInvariant, PTL

\* The file only ever changes by one whole claim, save or set that its current contents
\* allow: the step-by-step write of _write_unlocked implements the atomic store the
\* service's other modules are written against.
THEOREM UpdatesAreAtomic == Spec => AtomicUpdates
<1>1. IInv /\ [Next \/ Done]_vars => [AtomicUpdate]_disk
  <2> SUFFICES ASSUME IInv, [Next \/ Done]_vars, disk' # disk PROVE AtomicUpdate
    OBVIOUS
  <2>1. PICK p \in Procs : Replace(p)
    BY DEF Next, Done, vars, Enter, Refuse, Stage, Return, Abort
  <2> DEFINE o == op[p]
  <2>2. o \in Ops /\ Accepts(disk, o) /\ disk' = Updated(disk, o)
    BY <2>1 DEF IInv, LockInv, StagedInv, Replace
  <2>3. disk = [idem |-> disk.idem, seqs |-> disk.seqs, vals |-> disk.vals]
    BY DEF IInv, DiskInv
  <2>4. CASE o \in Claims
    <3>1. /\ disk' = [idem |-> disk.idem, vals |-> disk.vals,
                      seqs |-> Store!Put(disk.seqs, Counter(o), o.n)]
          /\ o.kind = "claim"
      BY <2>2, <2>3, <2>4, UpdatedFacts, OpKinds
    <3>2. Store!Newer(disk.seqs, CounterName(o.tenant, o.asset), o.n)
      BY <2>2, <3>1 DEF Accepts
    <3>3. Store!Claim(CounterName(o.tenant, o.asset), o.n) /\ disk'.vals = disk.vals
      BY <3>1, <3>2 DEF Store!Claim, Counter
    <3> QED
      BY <2>4, <3>3 DEF AtomicUpdate
  <2>5. CASE o \in Saves
    <3>1. /\ disk' = [seqs |-> disk.seqs, vals |-> disk.vals,
                   idem |-> Store!Put(disk.idem, o.slot, [fp |-> o.fp, resp |-> o.resp])]
          /\ o.kind = "save"
      BY <2>2, <2>3, <2>5, UpdatedFacts, OpKinds
    <3>2. Store!Free(disk.idem, o.slot, o.fp)
      BY <2>2, <3>1 DEF Accepts
    <3>3. Store!Save(o.slot, o.fp, o.resp) /\ disk'.vals = disk.vals
      BY <3>1, <3>2 DEF Store!Save
    <3> QED
      BY <2>5, <3>3 DEF AtomicUpdate
  <2>6. CASE o \in Sets
    <3>1. o.kind = "set"
      BY <2>2, <2>6, OpKinds
    <3>2. disk' = [disk EXCEPT !.vals = Store!Put(@, o.entry, o.value)]
      BY <2>2, <3>1 DEF Updated
    <3> QED
      BY <2>6, <3>2 DEF AtomicUpdate
  <2> QED
    BY <2>2, <2>4, <2>5, <2>6, OpKinds
<1> QED
  BY <1>1, StateInvariant, PTL DEF Spec, AtomicUpdates
=============================================================================
