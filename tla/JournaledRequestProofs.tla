------------------------- MODULE JournaledRequestProofs -------------------------
(***************************************************************************)
(* Proofs about JournaledRequest for any number of requests, keys, bodies, *)
(* crashes and failed writes: what a client was answered is recorded, one  *)
(* body owns a key, retries get one result, and work is repeated only      *)
(* after a failure.                                                        *)
(***************************************************************************)
EXTENDS JournaledRequest, FiniteSetTheorems, TLAPS

Busy == {"working", "computed", "recorded"}
Places == {"waiting", "suspended", "answered", "lost"} \cup Busy
Replies == [status : Nat, result : Attempts \cup {NoHandler}]

TypeInv ==
    /\ ledger \in Seq(Attempts)
    /\ pc \in [Attempts -> Places]
    /\ reply \in [Attempts -> Replies]
    /\ crashes \in Nat

\* A handler at work holds the event loop.
LoopInv == \A a \in Attempts : pc[a] \in Busy => loop = a

\* How far a handler is tells how many records it has written.
RecordInv ==
    \A a \in Attempts :
        /\ pc[a] \in {"waiting", "working", "suspended"} => Records(a) = 0
        /\ pc[a] = "computed" => Records(a) < RecordsDue(a)
        /\ pc[a] = "recorded" => Records(a) = RecordsDue(a)
        /\ pc[a] = "suspended" => KindOf[a] = "fetch"

\* An attempt that ended with a result has all its records.
Complete(r) == r \in Attempts /\ pc[r] = "answered" /\ Records(r) = RecordsDue(r)

\* A response is saved under the key and with the body of the attempt that made it.
OwnedBy(s, r) == Complete(r) /\ Slot(r) = s /\ BodyOf[r] = idem[s].fp
SavedInv == \A s \in DOMAIN idem : OwnedBy(s, idem[s].resp)

\* A result that was answered is complete.  Under a key its body is the one saved there
\* and, unless a fetch overlapped, so is the result.
Repeatable(a) == KeyOf[a] # NoKey /\ KindOf[a] # "fetch"
Faithful(a) ==
    reply[a].result # NoHandler =>
        /\ Complete(reply[a].result)
        /\ KeyOf[a] # NoKey => Slot(a) \in DOMAIN idem /\ idem[Slot(a)].fp = BodyOf[a]
        /\ Repeatable(a) => reply[a].result = idem[Slot(a)].resp
ReplyInv == \A a \in Attempts : Faithful(a)

\* Nothing is saved under the key of a handler at work that never gives the loop away.
ExclusiveInv ==
    \A a \in Attempts : (pc[a] \in Busy /\ Repeatable(a)) => Slot(a) \notin DOMAIN idem

\* The attempts of a request that ended with records and without a saved response.
CutShort(a) ==
    {b \in Attempts : /\ SameRequest(a, b) /\ Records(b) > 0
                      /\ pc[b] \in {"answered", "lost"}
                      /\ ~(Slot(b) \in DOMAIN idem /\ idem[Slot(b)].resp = b)}

\* Each of them was cut short by a crash or a failed write of its own.
CutInv ==
    \A a \in Attempts : Repeatable(a) =>
        IsFiniteSet(CutShort(a)) /\ Cardinality(CutShort(a)) <= crashes

IInv == TypeInv /\ LoopInv /\ RecordInv /\ SavedInv /\ ReplyInv /\ ExclusiveInv /\ CutInv
-----------------------------------------------------------------------------
(* Counting records.                                                       *)

LEMMA RecordsNat ==
    ASSUME ledger \in Seq(Attempts), NEW a
    PROVE  Records(a) \in Nat
<1> DEFINE S == {i \in DOMAIN ledger : ledger[i] = a}
<1>1. IsFiniteSet(1..Len(ledger)) /\ S \in SUBSET (1..Len(ledger))
    BY FS_Interval
<1>2. IsFiniteSet(S)
    BY <1>1, FS_Subset
<1> QED BY <1>2, FS_CardinalityType DEF Records

\* ledger.append adds one record of its caller.
LEMMA AppendCounts ==
    ASSUME ledger \in Seq(Attempts), NEW a \in Attempts, ledger' = Append(ledger, a), NEW b
    PROVE  Records(b)' = IF b = a THEN Records(b) + 1 ELSE Records(b)
<1> DEFINE n == Len(ledger)
           S == {i \in DOMAIN ledger : ledger[i] = b}
           T == {i \in DOMAIN ledger' : ledger'[i] = b}
<1>1. /\ n \in Nat /\ DOMAIN ledger = 1..n /\ DOMAIN ledger' = 1..(n + 1)
      /\ ledger'[n + 1] = a /\ \A i \in 1..n : ledger'[i] = ledger[i]
    OBVIOUS
<1>2. IsFiniteSet(S) /\ n + 1 \notin S
    <2>1. IsFiniteSet(1..n) /\ S \in SUBSET (1..n)
        BY <1>1, FS_Interval
    <2>2. n + 1 \notin 1..n
        BY <1>1
    <2> QED BY <2>1, <2>2, FS_Subset
<1>3. T = IF b = a THEN S \cup {n + 1} ELSE S
    <2>1. \A i : i \in 1..(n + 1) <=> i \in 1..n \/ i = n + 1
        BY <1>1
    <2> HIDE DEF n
    <2> QED BY <1>1, <2>1
<1>4. Cardinality(S \cup {n + 1}) = Cardinality(S) + 1
    BY <1>2, FS_AddElement
<1>5. Records(b) = Cardinality(S) /\ Records(b)' = Cardinality(T)
    BY DEF Records
<1> HIDE DEF S, T
<1> QED BY <1>3, <1>4, <1>5

\* The number of attempts cut short grows by at most one, and then by a failure.
LEMMA CutGrows ==
    ASSUME NEW C, NEW D, NEW x, NEW n \in Nat, NEW m \in Nat,
           IsFiniteSet(C), Cardinality(C) <= n,
           \/ D \subseteq C /\ n <= m
           \/ D \subseteq C \cup {x} /\ m = n + 1
    PROVE  IsFiniteSet(D) /\ Cardinality(D) <= m
<1>1. Cardinality(C) \in Nat
    BY FS_CardinalityType
<1>2. CASE D \subseteq C /\ n <= m
    <2>1. D \in SUBSET C
        BY <1>2
    <2>2. IsFiniteSet(D) /\ Cardinality(D) <= Cardinality(C)
        BY <2>1, FS_Subset
    <2>3. Cardinality(D) \in Nat
        BY <2>2, FS_CardinalityType
    <2> QED BY <1>1, <1>2, <2>2, <2>3
<1>3. CASE D \subseteq C \cup {x} /\ m = n + 1
    <2>1. D \in SUBSET (C \cup {x})
        BY <1>3
    <2>2. IsFiniteSet(C \cup {x}) /\ Cardinality(C \cup {x}) <= Cardinality(C) + 1
        BY <1>1, FS_AddElement
    <2>3. /\ IsFiniteSet(D) /\ Cardinality(D) <= Cardinality(C \cup {x})
          /\ Cardinality(D) \in Nat /\ Cardinality(C \cup {x}) \in Nat
        BY <2>1, <2>2, FS_Subset, FS_CardinalityType
    <2> QED BY <1>1, <1>3, <2>2, <2>3
<1> QED BY <1>2, <1>3

-----------------------------------------------------------------------------
(* The steps.                                                              *)

\* A step of a handler that writes nothing and answers nothing.
LEMMA MoveKeeps ==
    ASSUME IInv, NEW a \in Attempts, NEW place \in {"working", "suspended", "computed"},
           pc[a] \in {"waiting", "working", "suspended"}, loop \in {a, NoHandler},
           pc' = [pc EXCEPT ![a] = place], UNCHANGED <<idem, ledger, reply, crashes>>,
           place \in Busy => loop' = a,
           place \in Busy /\ Repeatable(a) => Slot(a) \notin DOMAIN idem,
           place = "suspended" => KindOf[a] = "fetch"
    PROVE  IInv'
<1>1. /\ TypeInv /\ LoopInv /\ RecordInv /\ SavedInv /\ ReplyInv /\ ExclusiveInv /\ CutInv
      /\ idem' = idem /\ ledger' = ledger /\ reply' = reply /\ crashes' = crashes
    BY DEF IInv
<1>2. /\ pc \in [Attempts -> Places] /\ pc'[a] = place
      /\ \A b \in Attempts : b # a => pc'[b] = pc[b]
    BY <1>1 DEF TypeInv
<1>3. \A b \in Attempts : b # a => pc[b] \notin Busy
    BY <1>1, RequestAssumption DEF LoopInv
<1>4. \A b : Records(b)' = Records(b) /\ RecordsDue(b)' = RecordsDue(b)
    BY <1>1 DEF Records, RecordsDue
<1>5. TypeInv'
    BY <1>1 DEF TypeInv, Places, Busy
<1>6. LoopInv'
    BY <1>2, <1>3 DEF LoopInv
<1>7. Records(a) = 0 /\ RecordsDue(a) > 0
    BY <1>1 DEF RecordInv, RecordsDue
<1>8. RecordInv'
    BY <1>1, <1>2, <1>4, <1>7 DEF RecordInv
<1>9. \A r : Complete(r) => Complete(r)'
    BY <1>2, <1>4 DEF Complete
<1>10. SavedInv'
    BY <1>1, <1>9 DEF SavedInv, OwnedBy, Slot
<1>11. ReplyInv'
    BY <1>1, <1>9 DEF ReplyInv, Faithful, Slot, Repeatable
<1>12. ExclusiveInv'
    BY <1>1, <1>2 DEF ExclusiveInv, Slot, Repeatable
<1>13. CutInv'
    <2>1. \A b \in Attempts : CutShort(b)' \subseteq CutShort(b)
        BY <1>1, <1>2, <1>4 DEF CutShort, SameRequest, Slot
    <2> SUFFICES ASSUME NEW b \in Attempts, Repeatable(b)
                 PROVE  IsFiniteSet(CutShort(b)') /\ Cardinality(CutShort(b)') <= crashes
        BY <1>1 DEF CutInv, Repeatable
    <2>2. /\ IsFiniteSet(CutShort(b)) /\ Cardinality(CutShort(b)) <= crashes
          /\ crashes \in Nat /\ crashes <= crashes
        BY <1>1 DEF CutInv, TypeInv
    <2> QED BY <2>1, <2>2, CutGrows
<1> QED BY <1>5, <1>6, <1>8, <1>10, <1>11, <1>12, <1>13 DEF IInv

\* An answer that saves nothing: the saved result, the result of a request without key, or
\* none.
LEMMA AnswerKeeps ==
    ASSUME IInv, NEW a \in Attempts, NEW status \in Nat, NEW result,
           Answer(a, status, result), UNCHANGED <<idem, ledger>>, loop \in {a, NoHandler},
           \/ result = NoHandler
           \/ Slot(a) \in DOMAIN idem /\ idem[Slot(a)].fp = BodyOf[a]
                  /\ result = idem[Slot(a)].resp
           \/ KeyOf[a] = NoKey /\ result = a /\ pc[a] = "recorded",
           \/ crashes' = crashes /\ (Records(a) = 0 \/ ~Repeatable(a))
           \/ crashes' = crashes + 1
    PROVE  IInv'
<1>1. /\ TypeInv /\ LoopInv /\ RecordInv /\ SavedInv /\ ReplyInv /\ ExclusiveInv /\ CutInv
      /\ idem' = idem /\ ledger' = ledger
    BY DEF IInv
<1>2. /\ pc \in [Attempts -> Places] /\ pc' = [pc EXCEPT ![a] = "answered"]
      /\ pc'[a] = "answered" /\ \A b \in Attempts : b # a => pc'[b] = pc[b]
    BY <1>1 DEF TypeInv, Answer
<1>3. \A b \in Attempts : b # a => pc[b] \notin Busy
    BY <1>1, RequestAssumption DEF LoopInv
<1>4. \A b : Records(b)' = Records(b) /\ RecordsDue(b)' = RecordsDue(b)
    BY <1>1 DEF Records, RecordsDue
<1>5. result = NoHandler \/ (Complete(result)' /\ result \in Attempts)
    <2>1. CASE Slot(a) \in DOMAIN idem /\ result = idem[Slot(a)].resp
        BY <1>1, <1>2, <1>4, <2>1 DEF SavedInv, OwnedBy, Complete
    <2>2. CASE result = a /\ pc[a] = "recorded"
        BY <1>1, <1>2, <1>4, <2>2 DEF RecordInv, Complete
    <2> QED BY <2>1, <2>2
<1>6. TypeInv'
    <2>1. reply' = [reply EXCEPT ![a] = [status |-> status, result |-> result]]
        BY DEF Answer
    <2>2. [status |-> status, result |-> result] \in Replies
        BY <1>5 DEF Replies
    <2>3. reply' \in [Attempts -> Replies]
        BY <1>1, <2>1, <2>2 DEF TypeInv
    <2>4. pc' \in [Attempts -> Places] /\ crashes' \in Nat
        BY <1>1, <1>2 DEF TypeInv, Places
    <2> QED BY <1>1, <2>3, <2>4 DEF TypeInv
<1>7. LoopInv'
    BY <1>2, <1>3 DEF LoopInv, Busy
<1>8. RecordInv'
    BY <1>1, <1>2, <1>4 DEF RecordInv
<1>9. \A r : Complete(r) => Complete(r)'
    BY <1>2, <1>4 DEF Complete
<1>10. SavedInv'
    BY <1>1, <1>9 DEF SavedInv, OwnedBy, Slot
<1>11. ReplyInv'
    <2>1. reply'[a].result = result /\ \A b \in Attempts : b # a => reply'[b] = reply[b]
        BY <1>1 DEF Answer, TypeInv
    <2>2. ASSUME NEW b \in Attempts, b # a PROVE Faithful(b)'
        <3>1. Faithful(b) /\ reply'[b] = reply[b]
            BY <1>1, <2>1, <2>2 DEF ReplyInv
        <3> QED BY <1>1, <1>9, <3>1 DEF Faithful, Slot, Repeatable
    <2>3. Faithful(a)'
        <3>1. CASE result = NoHandler
            BY <2>1, <3>1 DEF Faithful
        <3>2. CASE /\ Slot(a) \in DOMAIN idem /\ idem[Slot(a)].fp = BodyOf[a]
                   /\ result = idem[Slot(a)].resp
            BY <1>1, <1>5, <2>1, <3>2 DEF Faithful, Slot, Repeatable
        <3>3. CASE KeyOf[a] = NoKey
            BY <1>5, <2>1, <3>3 DEF Faithful, Repeatable
        <3> QED BY <3>1, <3>2, <3>3
    <2> QED BY <2>2, <2>3 DEF ReplyInv
<1>12. ExclusiveInv'
    BY <1>1, <1>2 DEF ExclusiveInv, Slot, Repeatable, Busy
<1>13. CutInv'
    <2>1. \A b \in Attempts : CutShort(b)' \subseteq CutShort(b) \cup {a}
        BY <1>1, <1>2, <1>4 DEF CutShort, SameRequest, Slot
    <2>2. ASSUME NEW b \in Attempts, Repeatable(b), Records(a) = 0 \/ ~Repeatable(a)
          PROVE  CutShort(b)' \subseteq CutShort(b)
        <3>1. a \notin CutShort(b)'
            BY <1>4, <2>2 DEF CutShort, SameRequest, Slot, Repeatable
        <3> QED BY <2>1, <3>1
    <2> SUFFICES ASSUME NEW b \in Attempts, Repeatable(b)
                 PROVE  IsFiniteSet(CutShort(b)') /\ Cardinality(CutShort(b)') <= crashes'
        BY DEF CutInv, Repeatable
    <2>3. /\ IsFiniteSet(CutShort(b)) /\ Cardinality(CutShort(b)) <= crashes
          /\ crashes \in Nat /\ crashes' \in Nat /\ (crashes' = crashes => crashes <= crashes')
        BY <1>1 DEF CutInv, TypeInv
    <2> QED BY <2>1, <2>2, <2>3, CutGrows
<1> QED BY <1>6, <1>7, <1>8, <1>10, <1>11, <1>12, <1>13 DEF IInv

\* ledger.append
LEMMA RecordKeeps ==
    ASSUME IInv, NEW a \in Attempts, Record(a)
    PROVE  IInv'
<1>1. /\ TypeInv /\ LoopInv /\ RecordInv /\ SavedInv /\ ReplyInv /\ ExclusiveInv /\ CutInv
      /\ idem' = idem /\ ledger' = Append(ledger, a) /\ reply' = reply /\ crashes' = crashes
      /\ loop' = loop /\ pc[a] = "computed"
    BY DEF IInv, Record
<1>2. /\ ledger \in Seq(Attempts) /\ pc \in [Attempts -> Places]
      /\ \A b \in Attempts : b # a => pc'[b] = pc[b]
      /\ pc'[a] = IF Records(a) + 1 = RecordsDue(a) THEN "recorded" ELSE "computed"
    BY <1>1 DEF TypeInv, Record
<1>3. \A b : /\ Records(b)' = IF b = a THEN Records(b) + 1 ELSE Records(b)
             /\ RecordsDue(b)' = RecordsDue(b) /\ Records(b) \in Nat
    BY <1>1, <1>2, AppendCounts, RecordsNat DEF RecordsDue
<1>4. TypeInv'
    <2>1. pc' \in [Attempts -> Places]
        BY <1>2 DEF Record, Places, Busy
    <2> QED BY <1>1, <2>1 DEF TypeInv
<1>5. LoopInv'
    BY <1>1, <1>2 DEF LoopInv, Busy
<1>6. RecordInv'
    <2>1. Records(a) < RecordsDue(a) /\ RecordsDue(a) \in Nat
        BY <1>1 DEF RecordInv, RecordsDue
    <2>2. Records(a) + 1 # RecordsDue(a) => Records(a) + 1 < RecordsDue(a)
        BY <1>3, <2>1
    <2>3. ASSUME NEW b \in Attempts, b # a
          PROVE  /\ pc'[b] \in {"waiting", "working", "suspended"} => Records(b)' = 0
                 /\ pc'[b] = "computed" => Records(b)' < RecordsDue(b)
                 /\ pc'[b] = "recorded" => Records(b)' = RecordsDue(b)
                 /\ pc'[b] = "suspended" => KindOf[b] = "fetch"
        BY <1>1, <1>2, <1>3, <2>3 DEF RecordInv
    <2>4. /\ pc'[a] \in {"computed", "recorded"}
          /\ pc'[a] = "computed" => Records(a)' < RecordsDue(a)
          /\ pc'[a] = "recorded" => Records(a)' = RecordsDue(a)
        BY <1>2, <1>3, <2>2
    <2> QED BY <1>3, <2>3, <2>4 DEF RecordInv
<1>7. \A r : Complete(r) => Complete(r)'
    BY <1>1, <1>2, <1>3 DEF Complete
<1>8. SavedInv'
    BY <1>1, <1>7 DEF SavedInv, OwnedBy, Slot
<1>9. ReplyInv'
    BY <1>1, <1>7 DEF ReplyInv, Faithful, Slot, Repeatable
<1>10. ExclusiveInv'
    BY <1>1, <1>2 DEF ExclusiveInv, Slot, Repeatable, Busy
<1>11. CutInv'
    <2>1. \A b \in Attempts : CutShort(b)' \subseteq CutShort(b)
        BY <1>1, <1>2, <1>3 DEF CutShort, SameRequest, Slot
    <2> SUFFICES ASSUME NEW b \in Attempts, Repeatable(b)
                 PROVE  IsFiniteSet(CutShort(b)') /\ Cardinality(CutShort(b)') <= crashes
        BY <1>1 DEF CutInv, Repeatable
    <2>2. /\ IsFiniteSet(CutShort(b)) /\ Cardinality(CutShort(b)) <= crashes
          /\ crashes \in Nat /\ crashes <= crashes
        BY <1>1 DEF CutInv, TypeInv
    <2> QED BY <2>1, <2>2, CutGrows
<1> QED BY <1>4, <1>5, <1>6, <1>8, <1>9, <1>10, <1>11 DEF IInv
\* Attempts under one slot have the same key and kind.
LEMMA SlotSays ==
    ASSUME NEW a, NEW b, Slot(a) = Slot(b)
    PROVE  KeyOf[a] = KeyOf[b] /\ KindOf[a] = KindOf[b] /\ (Repeatable(a) <=> Repeatable(b))
BY DEF Slot, Repeatable

\* save_idempotency: the slot is free or holds the same request, which for a handler that
\* kept the loop means free.
LEMMA SaveKeeps ==
    ASSUME IInv, NEW a \in Attempts, pc[a] = "recorded", KeyOf[a] # NoKey,
           Store!Save(Slot(a), BodyOf[a], a), NEW status \in Nat, Answer(a, status, a),
           UNCHANGED <<ledger, crashes>>
    PROVE  IInv'
<1>1. /\ TypeInv /\ LoopInv /\ RecordInv /\ SavedInv /\ ReplyInv /\ ExclusiveInv /\ CutInv
      /\ ledger' = ledger /\ crashes' = crashes
    BY DEF IInv
<1>2. /\ pc \in [Attempts -> Places] /\ pc' = [pc EXCEPT ![a] = "answered"]
      /\ pc'[a] = "answered" /\ \A b \in Attempts : b # a => pc'[b] = pc[b]
    BY <1>1 DEF TypeInv, Answer
<1> DEFINE s == Slot(a)
           entry == [fp |-> BodyOf[a], resp |-> a]
<1>3. /\ DOMAIN idem' = DOMAIN idem \cup {s} /\ idem'[s] = entry
      /\ \A x \in DOMAIN idem : x # s => idem'[x] = idem[x]
      /\ s \in DOMAIN idem => idem[s].fp = BodyOf[a]
    BY DEF Store!Save, Store!Put, Store!Free
<1>4. entry.fp = BodyOf[a] /\ entry.resp = a
    OBVIOUS
<1>5. Repeatable(a) => s \notin DOMAIN idem
    BY <1>1 DEF ExclusiveInv, Busy
<1> HIDE DEF entry, s
<1>6. \A b \in Attempts : b # a => pc[b] \notin Busy
    BY <1>1, RequestAssumption DEF LoopInv, Busy
<1>7. \A b : Records(b)' = Records(b) /\ RecordsDue(b)' = RecordsDue(b)
    BY <1>1 DEF Records, RecordsDue
<1>8. Complete(a)'
    BY <1>1, <1>2, <1>7 DEF RecordInv, Complete
<1>9. TypeInv'
    <2>1. reply' = [reply EXCEPT ![a] = [status |-> status, result |-> a]]
        BY DEF Answer
    <2>2. [status |-> status, result |-> a] \in Replies
        BY DEF Replies
    <2>3. reply' \in [Attempts -> Replies]
        BY <1>1, <2>1, <2>2 DEF TypeInv
    <2>4. pc' \in [Attempts -> Places]
        BY <1>1, <1>2 DEF TypeInv, Places
    <2> QED BY <1>1, <2>3, <2>4 DEF TypeInv
<1>10. LoopInv'
    BY <1>2, <1>6 DEF LoopInv, Busy
<1>11. RecordInv'
    BY <1>1, <1>2, <1>7 DEF RecordInv
<1>12. \A r : Complete(r) => Complete(r)'
    BY <1>2, <1>7 DEF Complete
<1>13. SavedInv'
    <2>1. OwnedBy(s, a)'
        BY <1>3, <1>4, <1>8 DEF OwnedBy, Slot, s
    <2>2. ASSUME NEW x \in DOMAIN idem, x # s PROVE OwnedBy(x, idem[x].resp)'
        <3>1. OwnedBy(x, idem[x].resp) /\ idem'[x] = idem[x]
            BY <1>1, <1>3, <2>2 DEF SavedInv
        <3> DEFINE r == idem[x].resp
        <3>2. Complete(r)' /\ Slot(r) = x /\ BodyOf[r] = idem[x].fp /\ idem'[x].resp = r
            BY <1>12, <3>1 DEF OwnedBy
        <3> QED BY <3>1, <3>2 DEF OwnedBy, Complete, Slot
    <2> QED BY <1>3, <1>4, <2>1, <2>2 DEF SavedInv, OwnedBy, Slot
<1>14. ReplyInv'
    <2>1. reply'[a].result = a /\ \A b \in Attempts : b # a => reply'[b] = reply[b]
        BY <1>1 DEF Answer, TypeInv
    <2>2. Faithful(a)'
        BY <1>3, <1>4, <1>8, <2>1 DEF Faithful, Slot, Repeatable, s
    <2>3. ASSUME NEW b \in Attempts, b # a, reply[b].result # NoHandler
          PROVE  Faithful(b)'
        <3>1. /\ Complete(reply[b].result)' /\ reply'[b] = reply[b]
              /\ KeyOf[b] # NoKey => Slot(b) \in DOMAIN idem /\ idem[Slot(b)].fp = BodyOf[b]
              /\ Repeatable(b) => reply[b].result = idem[Slot(b)].resp
            BY <1>1, <1>12, <2>1, <2>3 DEF ReplyInv, Faithful
        <3>2. Repeatable(b) => Slot(b) # s
            BY <1>5, <3>1, SlotSays DEF s, Repeatable
        <3>3. KeyOf[b] # NoKey => Slot(b) \in DOMAIN idem' /\ idem'[Slot(b)].fp = BodyOf[b]
            BY <1>3, <1>4, <3>1
        <3>4. Repeatable(b) => reply'[b].result = idem'[Slot(b)].resp
            BY <1>3, <3>1, <3>2 DEF Repeatable
        <3> QED BY <3>1, <3>3, <3>4 DEF Faithful, Slot, Repeatable
    <2>4. ASSUME NEW b \in Attempts, b # a, reply[b].result = NoHandler
          PROVE  Faithful(b)'
        BY <2>1, <2>4 DEF Faithful
    <2> QED BY <2>2, <2>3, <2>4 DEF ReplyInv
<1>15. ExclusiveInv'
    BY <1>2, <1>6 DEF ExclusiveInv, Busy
<1>16. CutInv'
    <2> SUFFICES ASSUME NEW b \in Attempts, Repeatable(b)
                 PROVE  IsFiniteSet(CutShort(b)') /\ Cardinality(CutShort(b)') <= crashes
        BY <1>1 DEF CutInv, Repeatable
    <2>1. ASSUME NEW x \in CutShort(b)' PROVE x \in CutShort(b)
        <3>1. /\ x \in Attempts /\ SameRequest(b, x) /\ Records(x)' > 0
              /\ pc'[x] \in {"answered", "lost"}
              /\ ~(Slot(x) \in DOMAIN idem' /\ idem'[Slot(x)].resp = x)
            BY <2>1 DEF CutShort, SameRequest, Slot
        <3>2. x # a
            BY <1>3, <1>4, <3>1 DEF s
        <3>3. Repeatable(x)
            BY <3>1, SlotSays DEF SameRequest
        <3>4. ~(Slot(x) \in DOMAIN idem /\ idem[Slot(x)].resp = x)
            BY <1>3, <1>5, <3>1, <3>3, SlotSays DEF s
        <3> QED BY <1>2, <1>7, <3>1, <3>2, <3>4 DEF CutShort
    <2>2. /\ IsFiniteSet(CutShort(b)) /\ Cardinality(CutShort(b)) <= crashes
          /\ crashes \in Nat /\ crashes <= crashes
        BY <1>1 DEF CutInv, TypeInv
    <2>3. CutShort(b)' \subseteq CutShort(b)
        BY <2>1
    <2> QED BY <2>2, <2>3, CutGrows
<1> QED BY <1>9, <1>10, <1>11, <1>13, <1>14, <1>15, <1>16 DEF IInv

\* save_idempotency and the answer.
LEMMA FinishKeeps ==
    ASSUME IInv, NEW a \in Attempts, Finish(a)
    PROVE  IInv'
<1>1. pc[a] = "recorded" /\ loop = a /\ FinalStatus(a) \in Nat
    BY DEF Finish, IInv, LoopInv, Busy, FinalStatus
<1>2. UNCHANGED <<ledger, crashes>> /\ (Repeatable(a) => Slot(a) \notin DOMAIN idem)
    BY <1>1 DEF Finish, IInv, ExclusiveInv, Busy
<1>3. CASE KeyOf[a] = NoKey
    <2>1. Answer(a, FinalStatus(a), a) /\ UNCHANGED idem /\ ~Repeatable(a)
        BY <1>3 DEF Finish, Repeatable
    <2> QED BY <1>1, <1>2, <1>3, <2>1, AnswerKeeps
<1>4. CASE KeyOf[a] # NoKey /\ Store!Free(idem, Slot(a), BodyOf[a])
    <2>1. Answer(a, FinalStatus(a), a) /\ Store!Save(Slot(a), BodyOf[a], a)
        BY <1>4 DEF Finish
    <2> QED BY <1>1, <1>2, <1>4, <2>1, SaveKeeps
<1>5. CASE KeyOf[a] # NoKey /\ ~Store!Free(idem, Slot(a), BodyOf[a])
    <2>1. Answer(a, 409, NoHandler) /\ UNCHANGED idem
        BY <1>5 DEF Finish
    <2>2. ~Repeatable(a)
        BY <1>2, <1>5 DEF Store!Free
    <2> QED BY <1>1, <1>2, <2>1, <2>2, AnswerKeeps
<1> QED BY <1>3, <1>4, <1>5

\* A crash cuts short at most one handler that kept the loop and had records.
LEMMA CrashKeeps ==
    ASSUME IInv, Crash
    PROVE  IInv'
<1>1. /\ TypeInv /\ LoopInv /\ RecordInv /\ SavedInv /\ ReplyInv /\ ExclusiveInv /\ CutInv
      /\ idem' = idem /\ ledger' = ledger /\ reply' = reply /\ crashes' = crashes + 1
      /\ pc' = [a \in Attempts |-> IF pc[a] \in {"waiting", "answered"} THEN pc[a] ELSE "lost"]
    BY DEF IInv, Crash
<1>2. pc \in [Attempts -> Places] /\ \A b \in Attempts :
          pc'[b] \in {"waiting", "answered", "lost"} /\ (pc'[b] # "lost" => pc'[b] = pc[b])
              /\ (pc[b] = "answered" => pc'[b] = "answered")
    BY <1>1 DEF TypeInv
<1>3. \A b : Records(b)' = Records(b) /\ RecordsDue(b)' = RecordsDue(b)
    BY <1>1 DEF Records, RecordsDue
<1>4. TypeInv'
    BY <1>1, <1>2 DEF TypeInv, Places
<1>5. LoopInv'
    BY <1>2 DEF LoopInv, Busy
<1>6. RecordInv'
    BY <1>1, <1>2, <1>3 DEF RecordInv
<1>7. \A r : Complete(r) => Complete(r)'
    BY <1>2, <1>3 DEF Complete
<1>8. SavedInv'
    BY <1>1, <1>7 DEF SavedInv, OwnedBy, Slot
<1>9. ReplyInv'
    BY <1>1, <1>7 DEF ReplyInv, Faithful, Slot, Repeatable
<1>10. ExclusiveInv'
    BY <1>2 DEF ExclusiveInv, Busy
<1>11. CutInv'
    <2> SUFFICES ASSUME NEW b \in Attempts, Repeatable(b)
                 PROVE  IsFiniteSet(CutShort(b)') /\ Cardinality(CutShort(b)') <= crashes'
        BY DEF CutInv, Repeatable
    <2>1. ASSUME NEW x \in CutShort(b)' PROVE x \in CutShort(b) \cup {loop}
        <3>1. /\ x \in Attempts /\ SameRequest(b, x) /\ Records(x) > 0
              /\ ~(Slot(x) \in DOMAIN idem /\ idem[Slot(x)].resp = x)
            BY <1>1, <1>3, <2>1 DEF CutShort, SameRequest, Slot
        <3>2. pc[x] \notin {"waiting", "working", "suspended"}
            BY <1>1, <3>1 DEF RecordInv
        <3>3. pc[x] \in {"computed", "recorded", "answered", "lost"}
            BY <1>2, <3>1, <3>2 DEF Places, Busy
        <3>4. pc[x] \in {"computed", "recorded"} => x = loop
            BY <1>1, <3>1 DEF LoopInv, Busy
        <3> QED BY <3>1, <3>3, <3>4 DEF CutShort
    <2>2. /\ IsFiniteSet(CutShort(b)) /\ Cardinality(CutShort(b)) <= crashes
          /\ crashes \in Nat /\ crashes' \in Nat
        BY <1>1 DEF CutInv, TypeInv
    <2>3. CutShort(b)' \subseteq CutShort(b) \cup {loop}
        BY <2>1
    <2> QED BY <1>1, <2>2, <2>3, CutGrows
<1> QED BY <1>4, <1>5, <1>6, <1>8, <1>9, <1>10, <1>11 DEF IInv

\* One step of one handler.
LEMMA HandleKeeps ==
    ASSUME IInv, NEW a \in Attempts, Handle(a) \/ WriteFails(a)
    PROVE  IInv'
<1>1. TypeInv /\ LoopInv /\ RecordInv
    BY DEF IInv
<1>2. CASE Lookup(a)
    <2>1. /\ Records(a) = 0 /\ loop = NoHandler /\ UNCHANGED <<idem, ledger, crashes>>
          /\ Slot(a) \in DOMAIN idem
        BY <1>1, <1>2 DEF Lookup, Saved, RecordInv
    <2>2. CASE idem[Slot(a)].fp = BodyOf[a]
        <3>1. Answer(a, 200, idem[Slot(a)].resp)
            BY <1>2, <2>2 DEF Lookup
        <3> QED BY <2>1, <2>2, <3>1, AnswerKeeps
    <2>3. CASE idem[Slot(a)].fp # BodyOf[a]
        <3>1. Answer(a, 409, NoHandler)
            BY <1>2, <2>3 DEF Lookup
        <3> QED BY <2>1, <3>1, AnswerKeeps
    <2> QED BY <2>2, <2>3
<1>3. CASE Start(a)
    <2>1. /\ pc[a] = "waiting" /\ loop = NoHandler /\ loop' = a
          /\ pc' = [pc EXCEPT ![a] = "working"] /\ UNCHANGED <<idem, ledger, reply, crashes>>
          /\ Repeatable(a) => Slot(a) \notin DOMAIN idem
        BY <1>3 DEF Start, Saved, Repeatable
    <2> QED BY <2>1, MoveKeeps
<1>4. CASE Suspend(a)
    <2>1. /\ pc[a] = "working" /\ KindOf[a] = "fetch" /\ loop = a
          /\ pc' = [pc EXCEPT ![a] = "suspended"] /\ UNCHANGED <<idem, ledger, reply, crashes>>
        BY <1>1, <1>4 DEF Suspend, LoopInv, Busy
    <2>2. "suspended" \notin Busy
        BY DEF Busy
    <2> QED BY <2>1, <2>2, MoveKeeps
<1>5. CASE Resume(a)
    <2>1. /\ pc[a] = "suspended" /\ loop = NoHandler /\ loop' = a /\ ~Repeatable(a)
          /\ pc' = [pc EXCEPT ![a] = "computed"] /\ UNCHANGED <<idem, ledger, reply, crashes>>
        BY <1>1, <1>5 DEF Resume, RecordInv, Repeatable
    <2> QED BY <2>1, MoveKeeps
<1>6. CASE Compute(a)
    <2>1. /\ pc[a] = "working" /\ loop = a /\ loop' = a
          /\ pc' = [pc EXCEPT ![a] = "computed"] /\ UNCHANGED <<idem, ledger, reply, crashes>>
          /\ Repeatable(a) => Slot(a) \notin DOMAIN idem
        BY <1>1, <1>6 DEF Compute, LoopInv, Busy, IInv, ExclusiveInv
    <2> QED BY <2>1, MoveKeeps
<1>7. CASE Refuse(a)
    <2>1. /\ loop \in {a, NoHandler} /\ Records(a) = 0 /\ Answer(a, 422, NoHandler)
          /\ UNCHANGED <<idem, ledger, crashes>>
        BY <1>1, <1>7 DEF Refuse, LoopInv, Busy, RecordInv
    <2> QED BY <2>1, AnswerKeeps
<1>8. CASE Record(a)
    BY <1>8, RecordKeeps
<1>9. CASE Finish(a)
    BY <1>9, FinishKeeps
<1>10. CASE WriteFails(a)
    <2>1. /\ loop = a /\ Answer(a, 500, NoHandler) /\ UNCHANGED <<idem, ledger>>
          /\ crashes' = crashes + 1
        BY <1>1, <1>10 DEF WriteFails, LoopInv, Busy
    <2> QED BY <2>1, AnswerKeeps
<1> QED BY <1>2, <1>3, <1>4, <1>5, <1>6, <1>7, <1>8, <1>9, <1>10 DEF Handle

-----------------------------------------------------------------------------
(* The theorems.                                                           *)

\* The inductive invariant.
THEOREM Invariant == Spec => []IInv
<1>1. Init => IInv
    <2> SUFFICES ASSUME Init PROVE IInv
        OBVIOUS
    <2>1. /\ idem = <<>> /\ ledger = <<>> /\ crashes = 0 /\ DOMAIN idem = {}
          /\ \A a \in Attempts : pc[a] = "waiting" /\ reply[a] = NoReply
        BY DEF Init
    <2>2. TypeInv
        BY DEF Init, TypeInv, Places, Busy, Replies, NoReply
    <2>3. \A a : Records(a) = 0
        <3>1. \A a : {i \in DOMAIN ledger : ledger[i] = a} = {}
            BY <2>1
        <3> QED BY <3>1, FS_EmptySet DEF Records
    <2>4. LoopInv /\ RecordInv /\ SavedInv /\ ExclusiveInv
        BY <2>1, <2>3 DEF LoopInv, RecordInv, SavedInv, ExclusiveInv, Busy
    <2>5. ReplyInv
        BY <2>1 DEF ReplyInv, Faithful, NoReply
    <2>6. CutInv
        <3>1. \A a \in Attempts : CutShort(a) = {}
            BY <2>1 DEF CutShort
        <3>2. IsFiniteSet({}) /\ Cardinality({}) <= 0
            BY FS_EmptySet
        <3> QED BY <2>1, <3>1, <3>2 DEF CutInv
    <2> QED BY <2>2, <2>4, <2>5, <2>6 DEF IInv
<1>2. IInv /\ [Next]_vars => IInv'
    <2> SUFFICES ASSUME IInv, [Next]_vars PROVE IInv'
        OBVIOUS
    <2>1. CASE UNCHANGED vars
        <3>1. /\ idem' = idem /\ ledger' = ledger /\ loop' = loop /\ pc' = pc /\ reply' = reply
              /\ crashes' = crashes
            BY <2>1 DEF vars
        <3>2. \A b : Records(b)' = Records(b) /\ RecordsDue(b)' = RecordsDue(b)
            BY <3>1 DEF Records, RecordsDue
        <3>3. TypeInv' /\ LoopInv' /\ RecordInv'
            BY <3>1, <3>2 DEF IInv, TypeInv, LoopInv, RecordInv
        <3>4. \A r : Complete(r) => Complete(r)'
            BY <3>1, <3>2 DEF Complete
        <3>5. SavedInv' /\ ReplyInv' /\ ExclusiveInv'
            BY <3>1, <3>4 DEF IInv, SavedInv, OwnedBy, ReplyInv, Faithful, ExclusiveInv, Slot,
                                    Repeatable
        <3>6. \A b : CutShort(b)' = CutShort(b)
            BY <3>1, <3>2 DEF CutShort, SameRequest, Slot
        <3>7. CutInv'
            BY <3>1, <3>6 DEF IInv, CutInv, Repeatable
        <3> QED BY <3>3, <3>5, <3>7 DEF IInv
    <2>2. ASSUME NEW a \in Attempts, Handle(a) \/ WriteFails(a) PROVE IInv'
        BY <2>2, HandleKeeps
    <2>3. CASE Crash
        BY <2>3, CrashKeeps
    <2>4. CASE Quiet
        BY <2>1, <2>4 DEF Quiet
    <2> QED BY <2>1, <2>2, <2>3, <2>4 DEF Next
<1> QED BY <1>1, <1>2, PTL DEF Spec

\* Every result that reached a client or the state file has all its records in the ledger,
\* one body owns a key, and retries of a request get one result unless a fetch overlaps,
\* across every crash and failed write (idempotency_context, save_idempotency).
THEOREM RepliesAlwaysFaithful == Spec => []RepliesFaithful
<1>1. ASSUME IInv PROVE RepliesFaithful
    <2>1. SavedInv /\ ReplyInv
        BY <1>1 DEF IInv
    <2>2. AnswersRecorded
        BY <2>1 DEF SavedInv, OwnedBy, ReplyInv, Faithful, Complete, AnswersRecorded
    <2>3. OneBodyPerKey
        <3> SUFFICES ASSUME NEW a \in Attempts, NEW b \in Attempts, KeyOf[a] # NoKey,
                            Slot(a) = Slot(b), BodyOf[a] # BodyOf[b],
                            reply[a].result # NoHandler, reply[b].result # NoHandler
                     PROVE  FALSE
            BY DEF OneBodyPerKey
        <3>1. KeyOf[b] # NoKey
            BY SlotSays
        <3> QED BY <2>1, <3>1 DEF ReplyInv, Faithful
    <2>4. RepliesAgree
        <3> SUFFICES ASSUME NEW a \in Attempts, NEW b \in Attempts, SameRequest(a, b),
                            KindOf[a] # "fetch",
                            reply[a].result # NoHandler, reply[b].result # NoHandler
                     PROVE  reply[a].result = reply[b].result
            BY DEF RepliesAgree
        <3>1. Slot(a) = Slot(b) /\ Repeatable(a)
            BY DEF SameRequest, Repeatable
        <3>2. Repeatable(b)
            BY <3>1, SlotSays
        <3> QED BY <2>1, <3>1, <3>2 DEF ReplyInv, Faithful
    <2> QED BY <2>2, <2>3, <2>4 DEF RepliesFaithful
<1> QED BY <1>1, Invariant, PTL

\* The work of a request under a key is done once, and once more for each crash or failed
\* write so far (handlers that keep the event loop).
THEOREM WorkRarelyRepeated == Spec => []WorkRepeatedOnlyAfterFailure
<1>1. ASSUME IInv PROVE WorkRepeatedOnlyAfterFailure
    <2> SUFFICES ASSUME NEW a \in Attempts, Repeatable(a)
                 PROVE  Cardinality({b \in Attempts : SameRequest(a, b) /\ Records(b) > 0})
                            <= crashes + 1
        BY DEF WorkRepeatedOnlyAfterFailure, Repeatable
    <2> DEFINE W == {b \in Attempts : SameRequest(a, b) /\ Records(b) > 0}
               one == IF Slot(a) \in DOMAIN idem THEN idem[Slot(a)].resp ELSE loop
    <2>1. /\ IsFiniteSet(CutShort(a)) /\ Cardinality(CutShort(a)) <= crashes
          /\ crashes \in Nat /\ crashes + 1 \in Nat
        BY <1>1 DEF IInv, CutInv, TypeInv
    <2>2. ASSUME NEW b \in W PROVE b \in CutShort(a) \cup {one}
        <3>1. /\ b \in Attempts /\ SameRequest(a, b) /\ Records(b) > 0 /\ Slot(a) = Slot(b)
              /\ Repeatable(b)
            BY SlotSays DEF SameRequest
        <3>2. pc[b] \in Places /\ pc[b] \notin {"waiting", "working", "suspended"}
            BY <1>1, <3>1 DEF IInv, TypeInv, RecordInv
        <3>3. CASE pc[b] \in {"computed", "recorded"}
            <4>1. pc[b] \in Busy
                BY <3>3 DEF Busy
            <4>2. loop = b /\ Slot(b) \notin DOMAIN idem
                BY <1>1, <3>1, <4>1 DEF IInv, LoopInv, ExclusiveInv
            <4> QED BY <3>1, <4>2
        <3>4. CASE pc[b] \in {"answered", "lost"}
            BY <3>1, <3>4 DEF CutShort
        <3> QED BY <3>2, <3>3, <3>4 DEF Places, Busy
    <2>3. W \subseteq CutShort(a) \cup {one}
        BY <2>2
    <2> HIDE DEF W, one
    <2>4. Cardinality(W) <= crashes + 1
        BY <2>1, <2>3, CutGrows
    <2> QED BY <2>4 DEF W
<1> QED BY <1>1, Invariant, PTL
=============================================================================
