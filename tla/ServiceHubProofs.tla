---------------------------- MODULE ServiceHubProofs ----------------------------
(***************************************************************************)
(* What the clients of the service may rely on, for any number of streams, *)
(* clients, threads, peers, sites, ranks, rows and messages: the event     *)
(* bus, the diode federation, the access control, the cluster log, the     *)
(* rate limiter, the tenant databases and the telemetry endpoints.  They   *)
(* share no state.                                                         *)
(***************************************************************************)
EXTENDS EventBus, RateLimiter, ClusterLog, AccessControl, DiodeReports,
        TenantRecords, OperatorIngest, SequenceTheorems, FiniteSetTheorems, WellFoundedInduction, TLAPS

-----------------------------------------------------------------------------
(* The event bus.                                                          *)

\* The events a stream has been sent and those that wait are numbers.
BusTypeInv ==
    /\ published \in Nat
    /\ subscribers \subseteq Streams
    /\ queue \in [Streams -> Seq(Nat)]
    /\ sent \in [Streams -> Seq(Nat)]
    /\ joined \in [Streams -> Nat]
    /\ state \in [Streams -> {"new", "open", "closed"}]

\* A stream that has not subscribed was given nothing.
NewInv ==
    \A s \in Streams : state[s] = "new" =>
        s \notin subscribers /\ Len(queue[s]) = 0 /\ Len(sent[s]) = 0

\* What was sent is numbered on from the subscription, what waits from what was sent.
NumberedInv ==
    \A s \in Streams :
        /\ \A i \in 1..Len(sent[s]) : sent[s][i] = joined[s] + i
        /\ \A i \in 1..Len(queue[s]) : queue[s][i] = joined[s] + Len(sent[s]) + i

\* A subscriber was given every event published since it joined.
CaughtUpInv ==
    \A s \in subscribers : joined[s] + Len(sent[s]) + Len(queue[s]) = published

BusInv == BusTypeInv /\ NewInv /\ NumberedInv /\ CaughtUpInv

\* A position of a sequence made longer by one is an old one or the last.
LEMMA LastOrBefore ==
    ASSUME NEW n \in Nat, NEW i \in 1..(n + 1)
    PROVE  i \in 1..n \/ i = n + 1
OBVIOUS

\* The sum that numbers the event after the last.
LEMMA NextNumber ==
    ASSUME NEW a \in Nat, NEW b \in Nat, NEW c \in Nat, NEW p, a + b + c = p
    PROVE  p + 1 = a + b + (c + 1)
OBVIOUS

\* Publishing keeps the numbering: a queue grows by the next number, and a subscriber
\* whose queue is full is gone.
LEMMA PublishKeeps ==
    ASSUME BusInv, Publish
    PROVE  BusInv'
<1> USE BusAssumption DEF BusInv, BusTypeInv
<1> DEFINE grows(s) == s \in subscribers /\ Len(queue[s]) < Capacity
           next == published + 1
<1>1. next \in Nat
    OBVIOUS
<1>2. ASSUME NEW s \in Streams
      PROVE  /\ queue'[s] \in Seq(Nat)
             /\ grows(s) => /\ Len(queue'[s]) = Len(queue[s]) + 1
                            /\ \A i \in 1..Len(queue[s]) : queue'[s][i] = queue[s][i]
                            /\ queue'[s][Len(queue[s]) + 1] = next
             /\ ~grows(s) => queue'[s] = queue[s]
    <2>1. queue'[s] = IF grows(s) THEN Append(queue[s], next) ELSE queue[s]
        BY DEF Publish
    <2>2. queue[s] \in Seq(Nat)
        OBVIOUS
    <2> HIDE DEF grows, next, BusInv
    <2> QED BY <1>1, <2>1, <2>2, AppendProperties
<1>3. queue' \in [Streams -> Seq(Nat)]
    <2>1. queue' = [s \in Streams |-> queue'[s]]
        BY DEF Publish
    <2> QED BY <1>2, <2>1
<1>4. ASSUME NEW s \in subscribers'
      PROVE  s \in subscribers /\ grows(s)
    BY DEF Publish, Full
<1>5. BusTypeInv'
    BY <1>1, <1>3 DEF Publish
<1>6. NewInv'
    BY <1>2, <1>4 DEF Publish, NewInv
<1>7. NumberedInv'
    <2> SUFFICES ASSUME NEW s \in Streams
                 PROVE  /\ \A i \in 1..Len(sent[s]) : sent[s][i] = joined[s] + i
                        /\ \A i \in 1..Len(queue'[s]) : queue'[s][i] = joined[s] + Len(sent[s]) + i
        BY DEF Publish, NumberedInv
    <2>1. /\ \A i \in 1..Len(sent[s]) : sent[s][i] = joined[s] + i
          /\ \A i \in 1..Len(queue[s]) : queue[s][i] = joined[s] + Len(sent[s]) + i
        BY DEF NumberedInv
    <2>2. Len(queue[s]) \in Nat
        OBVIOUS
    <2>3. CASE grows(s)
        <3>1. joined[s] \in Nat /\ Len(sent[s]) \in Nat
            OBVIOUS
        <3>2. joined[s] + Len(sent[s]) + Len(queue[s]) = published
            BY <2>3 DEF CaughtUpInv
        <3> HIDE DEF grows, BusInv, BusTypeInv
        <3>3. next = joined[s] + Len(sent[s]) + (Len(queue[s]) + 1)
            BY <2>2, <3>1, <3>2, NextNumber
        <3> HIDE DEF next
        <3>4. /\ Len(queue'[s]) = Len(queue[s]) + 1
              /\ \A i \in 1..Len(queue[s]) : queue'[s][i] = queue[s][i]
              /\ queue'[s][Len(queue[s]) + 1] = next
            BY <1>2, <2>3
        <3>5. ASSUME NEW i \in 1..(Len(queue[s]) + 1)
              PROVE  queue'[s][i] = joined[s] + Len(sent[s]) + i
            <4>1. i \in 1..Len(queue[s]) \/ i = Len(queue[s]) + 1
                BY <2>2, LastOrBefore
            <4> QED BY <2>1, <3>3, <3>4, <4>1
        <3> QED BY <2>1, <3>4, <3>5
    <2>4. CASE ~grows(s)
        BY <1>2, <2>1, <2>4
    <2> QED BY <2>3, <2>4
<1>8. CaughtUpInv'
    <2> SUFFICES ASSUME NEW s \in subscribers'
                 PROVE  joined[s] + Len(sent[s]) + Len(queue'[s]) = published + 1
        BY DEF Publish, CaughtUpInv
    <2>1. s \in Streams /\ Len(queue'[s]) = Len(queue[s]) + 1
        BY <1>2, <1>4
    <2>2. joined[s] + Len(sent[s]) + Len(queue[s]) = published
        BY <1>4 DEF CaughtUpInv
    <2>3. /\ joined[s] \in Nat /\ Len(sent[s]) \in Nat /\ Len(queue[s]) \in Nat
        BY <2>1
    <2> QED BY <2>1, <2>2, <2>3
<1> QED BY <1>5, <1>6, <1>7, <1>8

\* A stream that subscribes has been sent nothing and waits for the next event.
LEMMA OpenKeeps ==
    ASSUME BusInv, NEW s \in Streams, Open(s)
    PROVE  BusInv'
<1> USE DEF BusInv, BusTypeInv
<1>1. s \notin subscribers /\ Len(queue[s]) = 0 /\ Len(sent[s]) = 0
    BY DEF NewInv, Open
<1>2. BusTypeInv'
    BY DEF Open
<1>3. NewInv'
    BY DEF Open, NewInv
<1>4. NumberedInv'
    <2> SUFFICES ASSUME NEW t \in Streams
                 PROVE  /\ \A i \in 1..Len(sent[t]) : sent[t][i] = joined'[t] + i
                        /\ \A i \in 1..Len(queue[t]) : queue[t][i] = joined'[t] + Len(sent[t]) + i
        BY DEF Open, NumberedInv
    <2>1. CASE t = s
        BY <1>1, <2>1
    <2>2. CASE t # s
        BY <2>2 DEF Open, NumberedInv
    <2> QED BY <2>1, <2>2
<1>5. CaughtUpInv'
    <2> SUFFICES ASSUME NEW t \in subscribers \cup {s}
                 PROVE  joined'[t] + Len(sent[t]) + Len(queue[t]) = published
        BY DEF Open, CaughtUpInv
    <2>1. CASE t = s
        BY <1>1, <2>1 DEF Open
    <2>2. CASE t # s
        BY <2>2 DEF Open, CaughtUpInv
    <2> QED BY <2>1, <2>2
<1> QED BY <1>2, <1>3, <1>4, <1>5

\* Sending moves the next number from the queue to what was sent.
LEMMA SendKeeps ==
    ASSUME BusInv, NEW s \in Streams, Send(s)
    PROVE  BusInv'
<1> USE DEF BusInv, BusTypeInv
<1> DEFINE q == queue[s]
           h == sent[s]
<1>1. q \in Seq(Nat) /\ h \in Seq(Nat) /\ q # <<>> /\ Len(q) \in Nat \ {0} /\ Len(h) \in Nat
    BY EmptySeq DEF Send
<1>2. /\ Head(q) \in Nat /\ Head(q) = q[1]
      /\ Tail(q) \in Seq(Nat)
      /\ Len(Tail(q)) = Len(q) - 1
      /\ \A i \in 1..(Len(q) - 1) : Tail(q)[i] = q[i + 1]
    <2> HIDE DEF q
    <2> QED BY <1>1, HeadTailProperties
<1>3. /\ Append(h, Head(q)) \in Seq(Nat)
      /\ Len(Append(h, Head(q))) = Len(h) + 1
      /\ \A i \in 1..Len(h) : Append(h, Head(q))[i] = h[i]
      /\ Append(h, Head(q))[Len(h) + 1] = q[1]
    <2> HIDE DEF q, h
    <2> QED BY <1>1, <1>2, AppendProperties
<1>4. /\ sent' = [sent EXCEPT ![s] = Append(h, Head(q))]
      /\ queue' = [queue EXCEPT ![s] = Tail(q)]
      /\ published' = published /\ subscribers' = subscribers
      /\ state' = state /\ joined' = joined /\ state[s] = "open"
    BY DEF Send
<1>5. sent'[s] = Append(h, Head(q)) /\ queue'[s] = Tail(q)
    BY <1>4
<1>6. \A t \in Streams : t # s => sent'[t] = sent[t] /\ queue'[t] = queue[t]
    BY <1>4
<1>7. BusTypeInv'
    BY <1>2, <1>3, <1>4
<1>8. NewInv'
    BY <1>4, <1>6 DEF NewInv
<1>9. NumberedInv'
    <2> SUFFICES ASSUME NEW t \in Streams
                 PROVE  /\ \A i \in 1..Len(sent'[t]) : sent'[t][i] = joined[t] + i
                        /\ \A i \in 1..Len(queue'[t]) :
                               queue'[t][i] = joined[t] + Len(sent'[t]) + i
        BY <1>4 DEF NumberedInv
    <2>1. CASE t = s
        <3>1. /\ \A i \in 1..Len(h) : h[i] = joined[s] + i
              /\ \A i \in 1..Len(q) : q[i] = joined[s] + Len(h) + i
              /\ joined[s] \in Nat
            BY DEF NumberedInv
        <3>2. /\ Len(sent'[s]) = Len(h) + 1 /\ Len(queue'[s]) = Len(q) - 1
              /\ \A i \in 1..Len(h) : sent'[s][i] = h[i]
              /\ sent'[s][Len(h) + 1] = q[1]
              /\ \A i \in 1..(Len(q) - 1) : queue'[s][i] = q[i + 1]
            BY <1>2, <1>3, <1>5
        <3> HIDE DEF q, h, BusInv, BusTypeInv
        <3>3. ASSUME NEW i \in 1..(Len(h) + 1)
              PROVE  sent'[s][i] = joined[s] + i
            <4>1. i \in 1..Len(h) \/ i = Len(h) + 1
                BY <1>1, LastOrBefore
            <4>2. q[1] = joined[s] + Len(h) + 1
                BY <1>1, <3>1
            <4>3. CASE i \in 1..Len(h)
                BY <3>1, <3>2, <4>3
            <4>4. CASE i = Len(h) + 1
                BY <1>1, <3>1, <3>2, <4>2, <4>4
            <4> QED BY <4>1, <4>3, <4>4
        <3>4. ASSUME NEW i \in 1..(Len(q) - 1)
              PROVE  queue'[s][i] = joined[s] + (Len(h) + 1) + i
            <4>1. i \in Nat /\ i + 1 \in 1..Len(q)
                BY <1>1
            <4>2. queue'[s][i] = joined[s] + Len(h) + (i + 1)
                BY <3>1, <3>2, <4>1
            <4>3. joined[s] \in Nat /\ Len(h) \in Nat
                BY <1>1, <3>1
            <4>4. joined[s] + Len(h) + (i + 1) = joined[s] + (Len(h) + 1) + i
                BY <4>1, <4>3
            <4> QED BY <4>2, <4>4
        <3> QED BY <2>1, <3>2, <3>3, <3>4
    <2>2. CASE t # s
        <3>1. sent'[t] = sent[t] /\ queue'[t] = queue[t]
            BY <1>6, <2>2
        <3>2. /\ \A i \in 1..Len(sent[t]) : sent[t][i] = joined[t] + i
              /\ \A i \in 1..Len(queue[t]) : queue[t][i] = joined[t] + Len(sent[t]) + i
            BY DEF NumberedInv
        <3> HIDE DEF BusInv, BusTypeInv
        <3> QED BY <3>1, <3>2
    <2> QED BY <2>1, <2>2
<1>10. CaughtUpInv'
    <2> SUFFICES ASSUME NEW t \in subscribers
                 PROVE  joined[t] + Len(sent'[t]) + Len(queue'[t]) = published
        BY <1>4 DEF CaughtUpInv
    <2>1. t \in Streams /\ joined[t] + Len(sent[t]) + Len(queue[t]) = published
        BY DEF CaughtUpInv
    <2>2. CASE t = s
        <3>1. Len(sent'[s]) = Len(h) + 1 /\ Len(queue'[s]) = Len(q) - 1 /\ joined[s] \in Nat
            BY <1>2, <1>3, <1>5
        <3> QED BY <1>1, <2>1, <2>2, <3>1
    <2>3. CASE t # s
        BY <1>6, <2>1, <2>3
    <2> QED BY <2>2, <2>3
<1> QED BY <1>7, <1>8, <1>9, <1>10

\* The invariant of the bus: publish, subscribe, the streamer and unsubscribe keep every
\* stream's events numbered on from its subscription.
THEOREM BusInvariant == BusSpec => []BusInv
<1>1. BusInit => BusInv
    BY DEF BusInit, BusInv, BusTypeInv, NewInv, NumberedInv, CaughtUpInv
<1>2. BusInv /\ [BusNext]_busVars => BusInv'
    <2> SUFFICES ASSUME BusInv, [BusNext]_busVars
                 PROVE  BusInv'
        OBVIOUS
    <2>1. ASSUME Publish PROVE BusInv'
        BY <2>1, PublishKeeps
    <2>2. ASSUME UNCHANGED busVars PROVE BusInv'
        BY <2>2 DEF busVars, BusInv, BusTypeInv, NewInv, NumberedInv, CaughtUpInv
    <2>3. ASSUME NEW s \in Streams, Open(s) PROVE BusInv'
        BY <2>3, OpenKeeps
    <2>4. ASSUME NEW s \in Streams, Send(s) PROVE BusInv'
        BY <2>4, SendKeeps
    <2>5. ASSUME NEW s \in Streams, Close(s) PROVE BusInv'
        BY <2>5 DEF Close, BusInv, BusTypeInv, NewInv, NumberedInv, CaughtUpInv
    <2>6. ASSUME NEW s \in Streams, Heartbeat(s) PROVE BusInv'
        BY <2>6, <2>2 DEF Heartbeat
    <2>7. ASSUME BusQuiet PROVE BusInv'
        BY <2>7, <2>2 DEF BusQuiet
    <2> QED BY <2>1, <2>2, <2>3, <2>4, <2>5, <2>6, <2>7 DEF BusNext
<1> QED BY <1>1, <1>2, PTL DEF BusSpec

\* A slow client loses a suffix, never an event in the middle: what a stream was sent
\* and what waits in its queue is one run of events from its subscription on, and up to
\* the last event published while it is subscribed (publish, sse_event_streamer).
THEOREM BusHasNoGap == BusSpec => []NoGap
<1>1. BusInv => NoGap
    <2> SUFFICES ASSUME BusInv, NEW s \in Streams
                 PROVE  /\ Received(s) = Run(joined[s] + 1, joined[s] + Len(Received(s)))
                        /\ s \in subscribers => joined[s] + Len(Received(s)) = published
        BY DEF NoGap
    <2> DEFINE h == sent[s]
               q == queue[s]
               j == joined[s]
               r == Received(s)
    <2>1. h \in Seq(Nat) /\ q \in Seq(Nat) /\ j \in Nat /\ Len(h) \in Nat /\ Len(q) \in Nat
        BY DEF BusInv, BusTypeInv
    <2>2. /\ \A i \in 1..Len(h) : h[i] = j + i
          /\ \A i \in 1..Len(q) : q[i] = j + Len(h) + i
        BY DEF BusInv, NumberedInv
    <2>3. s \in subscribers => j + Len(h) + Len(q) = published
        BY DEF BusInv, CaughtUpInv
    <2>4. r = h \o q
        BY DEF Received
    <2> HIDE DEF h, q, j, r
    <2>5. /\ r \in Seq(Nat) /\ Len(r) = Len(h) + Len(q)
          /\ \A i \in 1..(Len(h) + Len(q)) : r[i] = IF i <= Len(h) THEN h[i] ELSE q[i - Len(h)]
        BY <2>1, <2>4, ConcatProperties
    <2>6. \A i \in 1..Len(r) : r[i] = j + i
        <3> SUFFICES ASSUME NEW i \in 1..Len(r) PROVE r[i] = j + i
            OBVIOUS
        <3>1. CASE i <= Len(h)
            <4>1. i \in 1..Len(h) /\ i \in 1..(Len(h) + Len(q))
                BY <2>1, <2>5, <3>1
            <4> QED BY <2>2, <2>5, <3>1, <4>1
        <3>2. CASE ~(i <= Len(h))
            <4>1. i - Len(h) \in 1..Len(q) /\ i \in Nat
                BY <2>1, <2>5, <3>2
            <4>2. r[i] = q[i - Len(h)]
                BY <2>1, <2>5, <3>2
            <4>3. q[i - Len(h)] = j + Len(h) + (i - Len(h))
                BY <2>2, <4>1
            <4> QED BY <2>1, <4>1, <4>2, <4>3
        <3> QED BY <3>1, <3>2
    <2>7. r = [i \in 1..Len(r) |-> j + i]
        <3>1. r = [i \in 1..Len(r) |-> r[i]]
            BY <2>5
        <3> QED BY <2>6, <3>1
    <2>8. Run(j + 1, j + Len(r)) = [i \in 1..Len(r) |-> j + i]
        <3>1. (j + Len(r)) - (j + 1) + 1 = Len(r)
            BY <2>1, <2>5
        <3>2. \A i \in 1..Len(r) : (j + 1) + i - 1 = j + i
            BY <2>1, <2>5
        <3> QED BY <3>1, <3>2 DEF Run
    <2>9. r = Run(j + 1, j + Len(r))
        BY <2>7, <2>8
    <2>10. s \in subscribers => j + Len(r) = published
        BY <2>1, <2>3, <2>5
    <2> QED BY <2>9, <2>10 DEF j, r
<1> QED BY <1>1, BusInvariant, PTL

-----------------------------------------------------------------------------
(* The diode federation.                                                   *)

Digests == {Digest(c) : c \in States}
Reports == [site : Sites, summary : States, digest : Digests,
            signature : {NoValue} \cup {Signature(d) : d \in Digests}]

\* The digest of a report is that of its summaries, its signature that of its digest.
MadeInv ==
    /\ made \in Seq(Reports)
    /\ \A i \in 1..Len(made) :
           /\ made[i].digest = Digest(made[i].summary)
           /\ made[i].signature \in {NoValue, Signature(made[i].digest)}

ArrivedInv == arrived # NoValue => arrived \in Mixed \cup {Unreadable}

\* An answer is about what arrived, and "verified" is given for two checks only.
VerdictInv ==
    /\ verdict # NoValue => arrived # NoValue
    /\ verdict = "verified" =>
           /\ arrived # Unreadable /\ arrived.digest = Digest(arrived.summary)
           /\ (verifying /\ arrived.signature # NoValue) => SignatureGood(arrived)

DiodeInv == MadeInv /\ ArrivedInv /\ VerdictInv

\* A report an enclave creates carries the digest of its summaries.
LEMMA CreateReportKeeps ==
    ASSUME DiodeInv, NEW site \in Sites, NEW c \in States \cup {NoState}, NEW k \in BOOLEAN,
           CreateReport(site, c, k)
    PROVE  DiodeInv'
<1> DEFINE d == Digest(Summary(c))
           g == IF k THEN Signature(d) ELSE NoValue
           r == [site |-> site, summary |-> Summary(c), digest |-> d, signature |-> g]
<1>1. Summary(c) \in States
    BY DiodeAssumption DEF Summary
<1>2. d \in Digests /\ g \in {NoValue, Signature(d)}
    BY <1>1 DEF Digests
<1>3. r \in Reports
    <2> HIDE DEF d
    <2> QED BY <1>1, <1>2 DEF Reports
<1>4. /\ r.digest = Digest(r.summary)
      /\ r.signature \in {NoValue, Signature(r.digest)}
    <2>1. r.digest = d /\ r.summary = Summary(c) /\ r.signature = g
        BY Zenon
    <2> QED BY <1>2, <2>1
<1>5. /\ made' = Append(made, r)
      /\ arrived' = arrived /\ verifying' = verifying /\ verdict' = verdict
    BY DEF CreateReport
<1>6. made \in Seq(Reports) /\ Len(made) \in Nat
    BY DEF DiodeInv, MadeInv
<1> HIDE DEF r
<1>7. /\ made' \in Seq(Reports) /\ Len(made') = Len(made) + 1
      /\ \A i \in 1..Len(made) : made'[i] = made[i]
      /\ made'[Len(made) + 1] = r
    BY <1>3, <1>5, <1>6, AppendProperties
<1>8. MadeInv'
    <2> SUFFICES ASSUME NEW i \in 1..Len(made')
                 PROVE  /\ made'[i].digest = Digest(made'[i].summary)
                        /\ made'[i].signature \in {NoValue, Signature(made'[i].digest)}
        BY <1>7 DEF MadeInv
    <2>1. i \in 1..Len(made) \/ i = Len(made) + 1
        BY <1>6, <1>7, LastOrBefore
    <2>2. CASE i \in 1..Len(made)
        BY <1>7, <2>2 DEF DiodeInv, MadeInv
    <2>3. CASE i = Len(made) + 1
        BY <1>4, <1>7, <2>3
    <2> QED BY <2>1, <2>2, <2>3
<1>9. ArrivedInv'
    <2>1. DOMAIN made = 1..Len(made) /\ DOMAIN made' = 1..Len(made')
        BY <1>6, <1>7
    <2>2. \A i \in DOMAIN made : i \in DOMAIN made' /\ made'[i] = made[i]
        BY <1>6, <1>7, <2>1
    <2>3. Mixed \subseteq Mixed'
        BY <2>2 DEF Mixed
    <2> QED BY <1>5, <2>3 DEF DiodeInv, ArrivedInv
<1>10. VerdictInv'
    BY <1>5 DEF DiodeInv, VerdictInv, SignatureGood
<1> QED BY <1>8, <1>9, <1>10 DEF DiodeInv

\* The invariant of the federation: creation, the diode and the ingest keep it.
THEOREM DiodeInvariant == DiodeSpec => []DiodeInv
<1>1. DiodeInit => DiodeInv
    BY DiodeAssumption, EmptySeq DEF DiodeInit, DiodeInv, MadeInv, ArrivedInv, VerdictInv
<1>2. DiodeInv /\ [DiodeNext]_diodeVars => DiodeInv'
    <2> SUFFICES ASSUME DiodeInv, [DiodeNext]_diodeVars
                 PROVE  DiodeInv'
        OBVIOUS
    <2>1. ASSUME NEW site \in Sites, NEW c \in States \cup {NoState}, NEW k \in BOOLEAN,
                 CreateReport(site, c, k)
          PROVE  DiodeInv'
        BY <2>1, CreateReportKeeps
    <2>2. ASSUME Cross PROVE DiodeInv'
        <3>1. /\ arrived = NoValue /\ made' = made /\ verdict' = verdict
              /\ verifying' = verifying
            BY <2>2 DEF Cross
        <3>2. verdict = NoValue
            BY <3>1 DEF DiodeInv, VerdictInv
        <3>3. (arrived \in Mixed \cup {Unreadable})'
            BY <2>2, <3>1 DEF Cross, Mixed
        <3> QED BY <3>1, <3>2, <3>3, DiodeAssumption DEF DiodeInv, MadeInv, ArrivedInv, VerdictInv
    <2>3. ASSUME Ingest PROVE DiodeInv'
        <3>1. made' = made /\ arrived' = arrived /\ verifying' = verifying /\ arrived # NoValue
            BY <2>3 DEF Ingest
        <3>2. verdict' = "verified" =>
                  /\ arrived # Unreadable /\ arrived.digest = Digest(arrived.summary)
                  /\ (verifying /\ arrived.signature # NoValue) => SignatureGood(arrived)
            BY <2>3 DEF Ingest
        <3> QED BY <3>1, <3>2 DEF DiodeInv, MadeInv, ArrivedInv, VerdictInv, Mixed, SignatureGood
    <2>4. ASSUME UNCHANGED diodeVars PROVE DiodeInv'
        BY <2>4 DEF diodeVars, DiodeInv, MadeInv, ArrivedInv, VerdictInv, Mixed, SignatureGood
    <2> QED BY <2>1, <2>2, <2>3, <2>4 DEF DiodeNext
<1> QED BY <1>1, <1>2, PTL DEF DiodeSpec

\* A verified report has the summaries and the digest of one report that was made, and
\* where a key and a signature are present that report's signature, whatever the diode
\* damages or mixes up; its site is not covered (ingest_diode_report).
THEOREM SealAlwaysKept == DiodeSpec => []SealKept
<1>1. DiodeInv => SealKept
    <2> SUFFICES ASSUME DiodeInv, verdict = "verified"
                 PROVE  \E i \in 1..Len(made) :
                            /\ made[i].summary = arrived.summary /\ made[i].digest = arrived.digest
                            /\ (verifying /\ arrived.signature # NoValue)
                                   => made[i].signature = arrived.signature
        BY DEF SealKept, DiodeInv, MadeInv
    <2>1. /\ arrived \in Mixed
          /\ arrived.digest = Digest(arrived.summary)
          /\ (verifying /\ arrived.signature # NoValue) => SignatureGood(arrived)
        BY DiodeAssumption DEF DiodeInv, VerdictInv, ArrivedInv
    <2>2. DOMAIN made = 1..Len(made) /\ \A i \in 1..Len(made) : made[i].summary \in States
        <3>1. made \in Seq(Reports)
            BY DEF DiodeInv, MadeInv
        <3>2. DOMAIN made = 1..Len(made) /\ \A i \in 1..Len(made) : made[i] \in Reports
            BY <3>1
        <3> QED BY <3>2 DEF Reports
    <2>3. /\ arrived.summary \in {made[i].summary : i \in 1..Len(made)} \cup {Garbled}
          /\ arrived.digest \in {made[i].digest : i \in 1..Len(made)} \cup {Garbled, NoValue}
          /\ arrived.signature \in {made[i].signature : i \in 1..Len(made)} \cup {Garbled, NoValue}
        BY <2>1, <2>2 DEF Mixed
    <2>4. arrived.summary \in States \cup {Garbled}
        BY <2>2, <2>3
    <2>5. \A i \in 1..Len(made) : /\ made[i].digest = Digest(made[i].summary)
                                  /\ made[i].signature \in {NoValue, Signature(made[i].digest)}
        BY DEF DiodeInv, MadeInv
    <2>6. ASSUME NEW i \in 1..Len(made), made[i].digest = arrived.digest
          PROVE  made[i].summary = arrived.summary
        <3>1. Digest(made[i].summary) = Digest(arrived.summary)
            BY <2>1, <2>5, <2>6
        <3> QED BY <3>1 DEF Digest
    <2>7. CASE verifying /\ arrived.signature # NoValue
        <3>1. arrived.signature = Signature(arrived.digest)
            BY <2>1, <2>7 DEF SignatureGood
        <3>2. arrived.signature # Garbled
            BY <2>1, <2>4, <3>1, DiodeAssumption DEF Signature, Digest
        <3>3. PICK h \in 1..Len(made) : arrived.signature = made[h].signature
            BY <2>3, <2>7, <3>2
        <3>4. Signature(arrived.digest) = Signature(made[h].digest)
            BY <2>5, <2>7, <3>1, <3>3
        <3>5. arrived.digest = made[h].digest
            BY <3>4 DEF Signature
        <3> QED BY <2>6, <3>3, <3>5
    <2>8. CASE ~(verifying /\ arrived.signature # NoValue)
        <3>1. arrived.digest \notin {Garbled, NoValue}
            BY <2>1, <2>4, DiodeAssumption DEF Digest
        <3>2. PICK e \in 1..Len(made) : made[e].digest = arrived.digest
            BY <2>3, <3>1
        <3> QED BY <2>6, <2>8, <3>2
    <2> QED BY <2>7, <2>8
<1> QED BY <1>1, DiodeInvariant, PTL
-----------------------------------------------------------------------------
(* The access control.                                                     *)

Identities == [tenant : Enclaves, roles : Seq(Roles), clearance : Ranks,
               nation : {"CAN", "USA"}, compartments : SUBSET {"sigint"}, spelled : BOOLEAN]
Requests == [tenant : Enclaves, permission : Permissions, rank : Ranks, canadian : BOOLEAN]

AccessInv == identity \in Identities /\ request \in Requests

\* The order of privilege: v has nothing for the request `what' that w has not.
Weaker(v, w, what) ==
    /\ v.tenant = what.tenant => w.tenant = what.tenant
    /\ \A r \in Roles : Holds(v.roles, r) => Holds(w.roles, r)
    /\ v.clearance <= w.clearance
    /\ w.nation = "CAN" \/ w.nation = v.nation
    /\ v.compartments \subseteq w.compartments
    /\ v.spelled = w.spelled

\* The four checks of evaluate_access, without the order in which they fail.
LEMMA DecisionIs ==
    ASSUME NEW who, NEW what
    PROVE  Decision(who, what) = "authorized" <=>
               /\ who.tenant = what.tenant \/ Holds(who.roles, "sovereign_commander")
               /\ what.permission \in UserPermissions(who.roles)
               /\ ~(who.clearance < what.rank)
               /\ what.canadian => who.nation = "CAN"
BY DEF Decision

\* The fields of an identity have their types: clearances are numbers.
LEMMA IdentityFields ==
    ASSUME NEW who \in Identities
    PROVE  who.roles \in Seq(Roles) /\ who.clearance \in Nat
<1>1. who.roles \in Seq(Roles) /\ who.clearance \in Ranks
    BY DEF Identities
<1>2. \A r \in Ranks : r \in Nat
    BY RanksAssumption
<1> QED BY <1>1, <1>2

\* Permissions follow the roles held, not their order or number.
LEMMA PermissionsFollowRoles ==
    ASSUME NEW q \in Seq(Roles), NEW s \in Seq(Roles),
           \A r \in Roles : Holds(q, r) => Holds(s, r)
    PROVE  UserPermissions(q) \subseteq UserPermissions(s)
<1> SUFFICES ASSUME NEW i \in DOMAIN q, NEW p \in RolePermissions(q[i])
             PROVE  p \in UserPermissions(s)
    BY DEF UserPermissions
<1>1. q[i] \in Roles
    OBVIOUS
<1>2. Holds(s, q[i])
    BY <1>1 DEF Holds
<1>3. PICK j \in DOMAIN s : s[j] = q[i]
    BY <1>2 DEF Holds
<1> QED BY <1>3 DEF UserPermissions

\* Dropping an entry of the list of roles adds none.
LEMMA DroppedRole ==
    ASSUME NEW q \in Seq(Roles), NEW i \in 1..Len(q)
    PROVE  LET t == SubSeq(q, 1, i - 1) \o SubSeq(q, i + 1, Len(q))
           IN t \in Seq(Roles) /\ \A r \in Roles : Holds(t, r) => Holds(q, r)
<1> DEFINE a == SubSeq(q, 1, i - 1)
           b == SubSeq(q, i + 1, Len(q))
           t == a \o b
<1>1. Len(q) \in Nat /\ i \in Nat /\ i >= 1 /\ i <= Len(q)
    OBVIOUS
<1>2. /\ a \in Seq(Roles) /\ Len(a) = i - 1
      /\ \A j \in 1..(i - 1) : a[j] = q[j]
    BY <1>1
<1>3. /\ b \in Seq(Roles) /\ Len(b) = Len(q) - i
      /\ \A j \in 1..(Len(q) - i) : b[j] = q[i + j]
    BY <1>1
<1> HIDE DEF a, b
<1>4. /\ t \in Seq(Roles) /\ Len(t) = Len(a) + Len(b)
      /\ \A j \in 1..(Len(a) + Len(b)) : t[j] = IF j <= Len(a) THEN a[j] ELSE b[j - Len(a)]
    BY <1>2, <1>3, ConcatProperties
<1> HIDE DEF t
<1>5. ASSUME NEW r \in Roles, Holds(t, r)
      PROVE  Holds(q, r)
    <2>1. PICK j \in 1..Len(t) : t[j] = r
        BY <1>4, <1>5 DEF Holds
    <2>2. CASE j <= i - 1
        <3>1. j \in 1..(i - 1) /\ j \in DOMAIN q
            BY <1>1, <2>2
        <3>2. q[j] = r
            BY <1>1, <1>2, <1>3, <1>4, <2>1, <2>2, <3>1
        <3> QED BY <3>1, <3>2 DEF Holds
    <2>3. CASE ~(j <= i - 1)
        <3>1. j - (i - 1) \in 1..(Len(q) - i)
            BY <1>1, <1>2, <1>3, <1>4, <2>3
        <3>2. i + (j - (i - 1)) \in 1..Len(q)
            BY <1>1, <3>1
        <3>3. t[j] = b[j - (i - 1)]
            BY <1>1, <1>2, <1>3, <1>4, <2>3
        <3>4. q[i + (j - (i - 1))] = r
            BY <1>3, <2>1, <3>1, <3>3
        <3> QED BY <3>2, <3>4 DEF Holds
    <2> QED BY <2>2, <2>3
<1> QED BY <1>4, <1>5 DEF t, a, b

\* Every step leaves an identity that is weaker for the same request.
LEMMA StepsWeaken ==
    ASSUME AccessInv, AccessNext
    PROVE  /\ identity' \in Identities /\ request' = request
           /\ Weaker(identity', identity, request)
<1> USE RanksAssumption DEF AccessInv
<1>0. identity \in Identities /\ request \in Requests
    OBVIOUS
<1>1. ASSUME NEW i \in 1..2, DropRole(i)
      PROVE  /\ identity' \in Identities /\ request' = request
             /\ Weaker(identity', identity, request)
    <2> DEFINE q == identity.roles
               t == SubSeq(q, 1, i - 1) \o SubSeq(q, i + 1, Len(q))
    <2>1. q \in Seq(Roles) /\ i \in 1..Len(q)
        BY <1>1 DEF Identities, DropRole
    <2>2. t \in Seq(Roles) /\ \A r \in Roles : Holds(t, r) => Holds(q, r)
        BY <2>1, DroppedRole
    <2>3. identity' = [identity EXCEPT !.roles = t] /\ request' = request
        BY <1>1 DEF DropRole, Weaken
    <2> HIDE DEF t
    <2>4. identity' \in Identities /\ identity'.roles = t
        BY <2>2, <2>3 DEF Identities
    <2>5. /\ identity'.tenant = identity.tenant /\ identity'.clearance = identity.clearance
          /\ identity'.nation = identity.nation /\ identity'.spelled = identity.spelled
          /\ identity'.compartments = identity.compartments
        BY <2>3 DEF Identities
    <2>6. identity.clearance <= identity.clearance
        BY <1>0, IdentityFields
    <2> QED BY <2>2, <2>3, <2>4, <2>5, <2>6 DEF Weaker
<1>2. ASSUME LowerClearance
      PROVE  /\ identity' \in Identities /\ request' = request
             /\ Weaker(identity', identity, request)
    BY <1>0, <1>2 DEF LowerClearance, Weaken, Weaker, Identities
<1>3. ASSUME LeaveNation
      PROVE  /\ identity' \in Identities /\ request' = request
             /\ Weaker(identity', identity, request)
    BY <1>0, <1>3 DEF LeaveNation, Weaken, Weaker, Identities
<1>4. ASSUME LeaveCompartment
      PROVE  /\ identity' \in Identities /\ request' = request
             /\ Weaker(identity', identity, request)
    BY <1>0, <1>4 DEF LeaveCompartment, Weaken, Weaker, Identities
<1>5. ASSUME LeaveTenant
      PROVE  /\ identity' \in Identities /\ request' = request
             /\ Weaker(identity', identity, request)
    BY <1>0, <1>5 DEF LeaveTenant, Weaken, Weaker, Identities, Requests
<1> QED BY <1>1, <1>2, <1>3, <1>4, <1>5 DEF AccessNext

\* Nothing is decided for a weaker identity that is refused to the stronger one.
LEMMA WeakerDecides ==
    ASSUME NEW v, NEW w, NEW what,
           v.roles \in Seq(Roles), w.roles \in Seq(Roles),
           v.clearance \in Nat, w.clearance \in Nat, what.rank \in Nat,
           Weaker(v, w, what), Decision(v, what) = "authorized"
    PROVE  Decision(w, what) = "authorized"
<1>1. /\ v.tenant = what.tenant \/ Holds(v.roles, "sovereign_commander")
      /\ what.permission \in UserPermissions(v.roles)
      /\ ~(v.clearance < what.rank)
      /\ what.canadian => v.nation = "CAN"
    BY DecisionIs
<1>2. "sovereign_commander" \in Roles
    BY DEF Roles
<1>3. w.tenant = what.tenant \/ Holds(w.roles, "sovereign_commander")
    BY <1>1, <1>2 DEF Weaker
<1>4. what.permission \in UserPermissions(w.roles)
    BY <1>1, PermissionsFollowRoles DEF Weaker
<1>5. ~(w.clearance < what.rank)
    BY <1>1 DEF Weaker
<1>6. what.canadian => w.nation = "CAN"
    BY <1>1 DEF Weaker
<1> QED BY <1>3, <1>4, <1>5, <1>6, DecisionIs

\* The endpoint's defaults keep the order while the weaker identity has a role.
LEMMA WeakerAtEndpoint ==
    ASSUME NEW v \in Identities, NEW w \in Identities, NEW what \in Requests,
           Weaker(v, w, what), v.roles # <<>>,
           EndpointDecision(v, what) = "authorized"
    PROVE  EndpointDecision(w, what) = "authorized"
<1> DEFINE asked == [what EXCEPT !.rank = 2, !.canadian = FALSE]
           ev == Endpoint(v)
           ew == Endpoint(w)
<1>1. /\ v.roles \in Seq(Roles) /\ w.roles \in Seq(Roles)
      /\ v.clearance \in Nat /\ w.clearance \in Nat
    BY IdentityFields
<1>2. w.roles # <<>>
    <2>1. 1 \in DOMAIN v.roles /\ v.roles[1] \in Roles
        BY <1>1
    <2>2. Holds(w.roles, v.roles[1])
        BY <2>1 DEF Holds, Weaker
    <2> QED BY <1>1, <2>2 DEF Holds
<1>3. /\ ev.roles = v.roles /\ ev.tenant = v.tenant /\ ev.nation = v.nation
      /\ ev.compartments = v.compartments /\ ev.spelled = v.spelled
      /\ ev.clearance = IF v.spelled THEN v.clearance ELSE 4
    BY DEF Endpoint, Identities
<1>4. /\ ew.roles = w.roles /\ ew.tenant = w.tenant /\ ew.nation = w.nation
      /\ ew.compartments = w.compartments /\ ew.spelled = w.spelled
      /\ ew.clearance = IF w.spelled THEN w.clearance ELSE 4
    BY <1>2 DEF Endpoint, Identities
<1>5. asked.tenant = what.tenant /\ asked.rank = 2
    BY DEF Requests
<1>6. Decision(ev, asked) = "authorized"
    BY DEF EndpointDecision
<1> HIDE DEF ev, ew, asked
<1>7. Weaker(ev, ew, asked)
    BY <1>1, <1>3, <1>4, <1>5 DEF Weaker
<1>8. Decision(ew, asked) = "authorized"
    <2>1. ev.clearance \in Nat /\ ew.clearance \in Nat /\ asked.rank \in Nat
        BY <1>1, <1>3, <1>4, <1>5
    <2> QED BY <1>1, <1>3, <1>4, <1>6, <1>7, <2>1, WeakerDecides
<1> QED BY <1>8 DEF EndpointDecision, ew, asked

\* A label of a Canadian owner that lets the weaker identity pass lets the stronger pass.
LEMMA WeakerLabel ==
    ASSUME NEW v \in Identities, NEW w \in Identities, NEW what, Weaker(v, w, what),
           NEW label \in Labels
    PROVE  Transferred(Payload, label, v) \subseteq Transferred(Payload, label, w)
<1>1. /\ v.clearance \in Nat /\ w.clearance \in Nat /\ v.clearance <= w.clearance
      /\ v.compartments \subseteq w.compartments
      /\ w.nation = "CAN" \/ w.nation = v.nation
    BY IdentityFields DEF Weaker
<1>2. label.rank = 2 /\ label.owner = "CAN"
    BY DEF Labels
<1>3. SUFFICES ASSUME label.rank <= v.clearance, LabelAuthorized(label, v)
               PROVE  label.rank <= w.clearance /\ LabelAuthorized(label, w)
    BY DEF Transferred
<1>4. label.rank <= w.clearance
    BY <1>1, <1>2, <1>3
<1>5. label.compartments \subseteq w.compartments
    BY <1>1, <1>3 DEF LabelAuthorized
<1>6. CASE w.nation = "CAN"
    BY <1>2, <1>4, <1>5, <1>6 DEF LabelAuthorized, FiveEyes
<1>7. CASE w.nation = v.nation
    BY <1>3, <1>4, <1>5, <1>7 DEF LabelAuthorized
<1> QED BY <1>1, <1>4, <1>6, <1>7

\* What is refused stays refused when the identity loses a role, a level of clearance,
\* its nationality, a compartment or its tenancy, for any ranks and any list of roles
\* (evaluate_access, /v1/rbac/evaluate while a role is known, filter_payload).
THEOREM AccessNeverGrows == AccessSpec => AccessMonotone
<1>1. AccessInit => AccessInv
    <2>1. RoleLists \subseteq Seq(Roles)
        <3> SUFFICES ASSUME NEW q \in RoleLists PROVE q \in Seq(Roles)
            OBVIOUS
        <3>1. CASE q = <<>>
            BY <3>1
        <3>2. ASSUME NEW r \in Roles, q = <<r>> PROVE q \in Seq(Roles)
            BY <3>2
        <3>3. ASSUME NEW r \in Roles, NEW t \in Roles, q = <<r, t>> PROVE q \in Seq(Roles)
            BY <3>3
        <3> QED BY <3>1, <3>2, <3>3 DEF RoleLists
    <2> QED BY <2>1 DEF AccessInit, AccessInv, Identities, Requests, Enclaves
<1>2. AccessInv /\ [AccessNext]_accessVars => AccessInv'
    BY StepsWeaken DEF AccessInv, accessVars
<1>3. AccessInv /\ [AccessNext]_accessVars => [NothingGained]_accessVars
    <2> SUFFICES ASSUME AccessInv, AccessNext
                 PROVE  NothingGained
        BY DEF accessVars
    <2>1. /\ identity' \in Identities /\ request' = request
          /\ Weaker(identity', identity, request)
        BY StepsWeaken
    <2>2. identity \in Identities /\ request \in Requests
        BY DEF AccessInv
    <2>3. Authorized' => Authorized
        <3>1. /\ identity.roles \in Seq(Roles) /\ identity'.roles \in Seq(Roles)
              /\ identity.clearance \in Nat /\ identity'.clearance \in Nat /\ request.rank \in Nat
            <4>1. request.rank \in Ranks
                BY <2>2 DEF Requests
            <4>2. \A r \in Ranks : r \in Nat
                BY RanksAssumption
            <4> QED BY <2>1, <2>2, <4>1, <4>2, IdentityFields
        <3> QED BY <2>1, <3>1, WeakerDecides DEF Authorized
    <2>4. (EndpointAuthorized' /\ identity'.roles # <<>>) => EndpointAuthorized
        BY <2>1, <2>2, WeakerAtEndpoint DEF EndpointAuthorized
    <2>5. \A label \in Labels :
              Transferred(Payload, label, identity') \subseteq Transferred(Payload, label, identity)
        BY <2>1, <2>2, WeakerLabel
    <2> QED BY <2>3, <2>4, <2>5 DEF NothingGained
<1> QED BY <1>1, <1>2, <1>3, PTL DEF AccessSpec, AccessMonotone
-----------------------------------------------------------------------------
(* The cluster log.                                                        *)

\* A set of numbers that is not empty has a least element: induction as the provers
\* can use it, with the counterexamples as the set.
LEMMA LeastNumber ==
    ASSUME NEW T, T \subseteq Nat, T # {}
    PROVE  \E x \in T : \A y \in T : x <= y
<1> DEFINE less == {ss \in Nat \X Nat : ss[1] < ss[2]}
<1>1. OpToRel(<, Nat) = less
    BY Zenon DEF OpToRel
<1>2. IsWellFoundedOn(less, Nat)
    BY <1>1, NatLessThanWellFounded, Zenon
<1>3. PICK x \in T : \A y \in T : <<y, x>> \notin less
    <2> HIDE DEF less
    <2> QED BY <1>2, WFMin
<1>4. ASSUME NEW y \in T PROVE x <= y
    <2>1. x \in Nat /\ y \in Nat
        OBVIOUS
    <2>2. <<y, x>> \in Nat \X Nat /\ <<y, x>>[1] = y /\ <<y, x>>[2] = x
        BY <2>1
    <2>3. ~(y < x)
        BY <1>3, <2>2, Zenon
    <2> QED BY <2>1, <2>3
<1> QED BY <1>4

Entries == [index : Nat, command : Commands, payload : Payloads]

\* A log is numbered from one on.
Numbered(l) == \A i \in 1..Len(l) : l[i].index = i

\* In a numbered log the entries after an index are a suffix.
LEMMA EntriesAfterIsSuffix ==
    ASSUME NEW l \in Seq(Entries), Numbered(l), NEW n \in Nat
    PROVE  EntriesAfter(l, n) = SubSeq(l, n + 1, Len(l))
<1> DEFINE extend(f) == [i \in 0..Len(l) |-> IF i = 0 THEN <<>>
                                           ELSE IF l[i].index > n THEN Append(f[i - 1], l[i])
                                           ELSE f[i - 1]]
           kept == CHOOSE f : f = extend(f)
           part == [i \in 0..Len(l) |-> SubSeq(l, n + 1, i)]
<1>1. Len(l) \in Nat /\ n \in Nat
    OBVIOUS
<1>2. EntriesAfter(l, n) = kept[Len(l)]
    BY DEF EntriesAfter
<1>3. ASSUME NEW i \in 0..Len(l)
      PROVE  part[i] = IF i = 0 THEN <<>>
                       ELSE IF l[i].index > n THEN Append(part[i - 1], l[i])
                       ELSE part[i - 1]
    <2>1. CASE i <= n
        <3>1. SubSeq(l, n + 1, i) = <<>>
            BY <1>1, <2>1, SubSeqEmpty
        <3>2. i # 0 => SubSeq(l, n + 1, i - 1) = <<>>
            BY <1>1, <2>1, SubSeqEmpty
        <3>3. i # 0 => i \in 1..Len(l) /\ i - 1 \in 0..Len(l) /\ l[i].index = i /\ ~(i > n)
            BY <1>1, <2>1 DEF Numbered
        <3> QED BY <3>1, <3>2, <3>3
    <2>2. CASE i > n
        <3>1. i # 0 /\ i \in 1..Len(l) /\ i - 1 \in 0..Len(l) /\ n + 1 \in 1..Len(l) /\ i \in (n + 1)..Len(l)
            BY <1>1, <2>2
        <3>2. SubSeq(l, n + 1, i) = SubSeq(l, n + 1, i - 1) \o <<l[i]>>
            BY <3>1, SubSeqRecursiveSecond
        <3>3. l[i] \in Entries /\ l[i].index = i
            BY <3>1, ElementOfSeq DEF Numbered
        <3>4. SubSeq(l, n + 1, i - 1) \in Seq(Entries)
            <4>1. \A j \in (n + 1)..(i - 1) : l[j] \in Entries
                BY <1>1, <3>1, ElementOfSeq
            <4>2. n + 1 \in Int /\ i - 1 \in Int
                BY <1>1
            <4> QED BY <4>1, <4>2, SubSeqProperties
        <3>5. SubSeq(l, n + 1, i) = Append(SubSeq(l, n + 1, i - 1), l[i])
            BY <3>2, <3>3, <3>4, AppendIsConcat
        <3> QED BY <2>2, <3>1, <3>3, <3>5
    <2>3. i <= n \/ i > n
        BY <1>1
    <2> QED BY <2>1, <2>2, <2>3
<1>4. part = extend(part)
    BY <1>3
<1>5. kept = extend(kept)
    <2> HIDE DEF part, extend
    <2> QED BY <1>4
<1>6. \A i \in 0..Len(l) : kept[i] = part[i]
    <2> DEFINE Wrong == {i \in 0..Len(l) : kept[i] # part[i]}
    <2> SUFFICES ASSUME Wrong # {} PROVE FALSE
        OBVIOUS
    <2>1. Wrong \subseteq Nat
        BY <1>1
    <2>2. PICK x \in Wrong : \A y \in Wrong : x <= y
        <3> HIDE DEF Wrong
        <3> QED BY <2>1, LeastNumber
    <2>3. x \in 0..Len(l) /\ kept[x] # part[x]
        OBVIOUS
    <2>4. kept[x] = IF x = 0 THEN <<>>
                    ELSE IF l[x].index > n THEN Append(kept[x - 1], l[x])
                    ELSE kept[x - 1]
        <3> HIDE DEF kept
        <3> QED BY <1>5, <2>3
    <2>5. x # 0 => kept[x - 1] = part[x - 1]
        <3> SUFFICES ASSUME x # 0, kept[x - 1] # part[x - 1] PROVE FALSE
            OBVIOUS
        <3>1. x - 1 \in 0..Len(l)
            <4> HIDE DEF kept, part, Wrong
            <4>1. x \in 0..Len(l)
                BY <2>3
            <4> QED BY <1>1, <4>1
        <3>2. x - 1 \in Wrong
            <4> HIDE DEF kept, part
            <4> QED BY <3>1, Zenon
        <3> HIDE DEF Wrong
        <3>3. x <= x - 1
            BY <2>2, <3>2
        <3> QED BY <1>1, <2>3, <3>3
    <2> HIDE DEF kept, part, Wrong
    <2> QED BY <1>3, <2>3, <2>4, <2>5
<1>7. Len(l) \in 0..Len(l)
    BY <1>1
<1> QED BY <1>2, <1>6, <1>7

\* The log is numbered, no recorded index is ahead of it, and until the leader restarts
\* no peer has counted further than its recorded index.
ClusterInv ==
    /\ log \in Seq(Entries) /\ Numbered(log)
    /\ restarted \in BOOLEAN
    /\ counted \in [Peers -> Nat]
    /\ peers \in [Registered -> [last : Nat, root : {Root(<<>>)}]]
    /\ \A p \in Registered : peers[p].last <= Len(log)
    /\ ~restarted =>
           /\ \A p \in Peers : counted[p] <= Len(log)
           /\ \A p \in Registered : counted[p] <= peers[p].last

\* An index within the log and the number of entries after it make the log's length;
\* no entry is after an index past the log.
LEMMA CountFills ==
    ASSUME log \in Seq(Entries), Numbered(log), NEW n \in Nat, NEW p
    PROVE  /\ Replicated(p, n) \in Nat
           /\ n <= Len(log) => n + Replicated(p, n) = Len(log)
<1>1. Len(log) \in Nat
    OBVIOUS
<1>2. EntriesAfter(log, n) = SubSeq(log, n + 1, Len(log))
    BY <1>1, EntriesAfterIsSuffix
<1>3. \A i \in (n + 1)..Len(log) : log[i] \in Entries
    BY <1>1, ElementOfSeq
<1>4. Len(SubSeq(log, n + 1, Len(log))) =
          IF n + 1 <= Len(log) THEN Len(log) - (n + 1) + 1 ELSE 0
    BY <1>1, <1>3, SubSeqProperties
<1> QED BY <1>1, <1>2, <1>4 DEF Replicated

\* The invariant of the cluster: appending, synchronizing and restarting keep it.
THEOREM ClusterInvariant == ClusterSpec => []ClusterInv
<1>0. Len(<<>>) = 0 /\ <<>> \in Seq(Entries) /\ Numbered(<<>>)
    BY EmptySeq DEF Numbered
<1> DEFINE Info == [last : Nat, root : {Root(<<>>)}]
<1>1. ASSUME NEW f, f = Fresh(<<>>)
      PROVE  f \in [Registered -> Info] /\ \A p \in Registered : f[p].last = 0
    BY <1>1 DEF Fresh
<1>2. ClusterInit => ClusterInv
    <2> SUFFICES ASSUME ClusterInit PROVE ClusterInv
        OBVIOUS
    <2>1. /\ log = <<>> /\ restarted = FALSE /\ counted \in [Peers -> Nat]
          /\ \A p \in Peers : counted[p] = 0
        BY DEF ClusterInit
    <2>2. peers \in [Registered -> Info] /\ \A p \in Registered : peers[p].last = 0
        BY <1>1 DEF ClusterInit
    <2>3. Len(log) = 0 /\ log \in Seq(Entries) /\ Numbered(log) /\ Registered \subseteq Peers
        BY <1>0, <2>1, ClusterAssumption
    <2>4. /\ \A p \in Registered : peers[p].last <= Len(log) /\ counted[p] <= peers[p].last
          /\ \A p \in Peers : counted[p] <= Len(log)
        BY <2>1, <2>2, <2>3
    <2>5. restarted \in BOOLEAN
        BY <2>1
    <2> QED BY <2>1, <2>2, <2>3, <2>4, <2>5 DEF ClusterInv
<1>3. ClusterInv /\ [ClusterNext]_clusterVars => ClusterInv'
    <2> SUFFICES ASSUME ClusterInv, [ClusterNext]_clusterVars
                 PROVE  ClusterInv'
        OBVIOUS
    <2>0. /\ log \in Seq(Entries) /\ Len(log) \in Nat /\ Numbered(log)
          /\ counted \in [Peers -> Nat] /\ peers \in [Registered -> Info]
          /\ Registered \subseteq Peers
        BY ClusterAssumption DEF ClusterInv
    <2>1. ASSUME NEW c \in Commands, NEW d \in Payloads, AppendCommand(c, d)
          PROVE  ClusterInv'
        <3> DEFINE e == [index |-> Len(log) + 1, command |-> c, payload |-> d]
        <3>1. e \in Entries /\ e.index = Len(log) + 1
            BY <2>0 DEF Entries
        <3>2. log' = Append(log, e) /\ counted' = counted /\ peers' = peers /\ restarted' = restarted
            BY <2>1 DEF AppendCommand
        <3> HIDE DEF e
        <3>3. /\ log' \in Seq(Entries) /\ Len(log') = Len(log) + 1
              /\ \A i \in 1..Len(log) : log'[i] = log[i]
              /\ log'[Len(log) + 1] = e
            BY <2>0, <3>1, <3>2, AppendProperties
        <3>4. Numbered(log')
            <4> SUFFICES ASSUME NEW i \in 1..Len(log') PROVE log'[i].index = i
                BY DEF Numbered
            <4>1. i \in 1..Len(log) \/ i = Len(log) + 1
                BY <2>0, <3>3, LastOrBefore
            <4>2. CASE i \in 1..Len(log)
                BY <3>3, <4>2 DEF ClusterInv, Numbered
            <4>3. CASE i = Len(log) + 1
                BY <3>1, <3>3, <4>3
            <4> QED BY <4>1, <4>2, <4>3
        <3>5. \A p \in Registered : peers[p].last \in Nat /\ peers[p].last <= Len(log')
            BY <2>0, <3>3 DEF ClusterInv
        <3>6. ~restarted => \A p \in Peers : counted[p] <= Len(log')
            BY <2>0, <3>3 DEF ClusterInv
        <3> QED BY <3>2, <3>3, <3>4, <3>5, <3>6 DEF ClusterInv
    <2>2. ASSUME NEW p \in Peers, NEW given \in BOOLEAN, SyncWithPeer(p, given)
          PROVE  ClusterInv'
        <3> DEFINE index == IF given THEN counted[p] ELSE 0
                   total == index + Replicated(p, index)
        <3>1. /\ log' = log /\ restarted' = restarted /\ peers' = Marked(p)
              /\ counted' \in {counted, [counted EXCEPT ![p] = total]}
            BY <2>2 DEF SyncWithPeer
        <3>2. index \in Nat /\ (~restarted => index <= Len(log))
            BY <2>0 DEF ClusterInv
        <3>3. Replicated(p, index) \in Nat
            <4> HIDE DEF index
            <4> QED BY <2>0, <3>2, CountFills
        <3>4. total \in Nat /\ (~restarted => total = Len(log))
            <4> HIDE DEF index
            <4> QED BY <2>0, <3>2, <3>3, CountFills
        <3> HIDE DEF total, index
        <3>5. /\ peers' \in [Registered -> Info]
              /\ \A q \in Registered : peers'[q].last = IF q = p THEN Len(log) ELSE peers[q].last
            BY <2>0, <3>1 DEF Marked
        <3>6. /\ counted' \in [Peers -> Nat]
              /\ \A q \in Peers : counted'[q] = counted[q] \/ (q = p /\ counted'[q] = total)
            BY <2>0, <3>1, <3>4
        <3>7. \A q \in Registered : peers'[q].last <= Len(log)
            <4> SUFFICES ASSUME NEW q \in Registered PROVE peers'[q].last <= Len(log)
                OBVIOUS
            <4>1. peers[q].last <= Len(log)
                BY DEF ClusterInv
            <4>2. peers'[q].last = Len(log) \/ peers'[q].last = peers[q].last
                BY <3>5
            <4> QED BY <2>0, <4>1, <4>2
        <3>8. ASSUME ~restarted, NEW q \in Peers
              PROVE  /\ counted'[q] <= Len(log)
                     /\ q \in Registered => counted'[q] <= peers'[q].last
            <4>1. counted[q] \in Nat /\ counted[q] <= Len(log)
                BY <2>0, <3>8 DEF ClusterInv
            <4>2. counted'[q] <= Len(log)
                BY <2>0, <3>4, <3>6, <3>8, <4>1
            <4>3. CASE q = p
                BY <3>5, <4>2, <4>3
            <4>4. CASE q # p
                BY <3>5, <3>6, <3>8, <4>2, <4>4 DEF ClusterInv
            <4> QED BY <4>2, <4>3, <4>4
        <3> QED BY <2>0, <3>1, <3>5, <3>6, <3>7, <3>8 DEF ClusterInv
    <2>3. ASSUME RestartLeader PROVE ClusterInv'
        <3>1. /\ log' = <<>> /\ restarted' = TRUE /\ counted' = counted
              /\ peers' \in [Registered -> Info] /\ \A p \in Registered : peers'[p].last = 0
            BY <1>1, <2>3 DEF RestartLeader
        <3> QED BY <1>0, <2>0, <3>1 DEF ClusterInv
    <2>4. ASSUME UNCHANGED clusterVars PROVE ClusterInv'
        BY <2>4 DEF clusterVars, ClusterInv
    <2> QED BY <2>1, <2>2, <2>3, <2>4 DEF ClusterNext
<1> QED BY <1>2, <1>3, PTL DEF ClusterSpec

\* Until the leader restarts, the count of the next answer and the index it is asked for
\* make the length of the log, however many answers were lost; the index the leader has
\* recorded is never behind the peer's, nor ahead of the log (sync_with_peer).
THEOREM CountsAlwaysAddUp == ClusterSpec => []CountsAddUp
<1>1. ClusterInv => CountsAddUp
    <2> SUFFICES ASSUME ClusterInv PROVE CountsAddUp
        OBVIOUS
    <2>1. /\ log \in Seq(Entries) /\ Numbered(log) /\ Len(log) \in Nat
          /\ counted \in [Peers -> Nat] /\ DOMAIN peers = Registered
        BY DEF ClusterInv
    <2>2. ASSUME ~restarted, NEW p \in Peers, NEW index \in {0, counted[p]}
          PROVE  index + Replicated(p, index) = Len(log)
        <3>1. index \in Nat /\ index <= Len(log)
            BY <2>1, <2>2 DEF ClusterInv
        <3> QED BY <2>1, <3>1, CountFills
    <2> QED BY <2>1, <2>2 DEF ClusterInv, CountsAddUp
<1> QED BY <1>1, ClusterInvariant, PTL
-----------------------------------------------------------------------------
(* The rate limiter.                                                       *)

\* The times a client's queue holds, none when the client is not tracked.
Times(k) == IF k \in DOMAIN events THEN events[k] ELSE <<>>

\* The queue e is the end of the admissions a.
Ends(e, a) ==
    /\ Len(e) <= Len(a)
    /\ \A i \in 1..Len(e) : e[i] = a[Len(a) - Len(e) + i]

\* No admission inside the window at `now' has left the queue.
Covered(e, a, now) == \A i \in 1..(Len(a) - Len(e)) : i \notin Inside(a, now)

\* The threads inside check with a clock reading of at most `now'.
Late(now) == {t \in Threads : client[t] # NoClient /\ stamp[t] <= now}

\* The clock has passed `now', and the late threads are all that may still add to the
\* admissions inside its window.
Bounded(a, now) ==
    /\ clock > now
    /\ Cardinality(Inside(a, now)) + Cardinality(Late(now)) <= Limit + Cardinality(Threads) - 1

LimiterTypeInv ==
    /\ clock \in Nat
    /\ DOMAIN events \subseteq Clients
    /\ order \in Seq(Clients)
    /\ client \in [Threads -> Clients \cup {NoClient}]
    /\ stamp \in [Threads -> Nat]
    /\ \A t \in Threads : stamp[t] <= clock
    /\ admitted \in [Clients -> Seq(Nat)]
    /\ told \in [Clients -> Nat]

\* A queue has at most Limit entries and is the end of its client's admissions.
QueueInv ==
    \A k \in Clients :
        /\ Times(k) \in Seq(Nat)
        /\ Len(Times(k)) <= Limit
        /\ Ends(Times(k), admitted[k])
        /\ k \notin DOMAIN events => admitted[k] = <<>>

\* For every client and every window: either the queue still holds all the admissions
\* inside it, or its time has passed and what the late threads may add is accounted for.
WindowInv ==
    \A k \in Clients : \A now \in Nat :
        Covered(Times(k), admitted[k], now) \/ Bounded(admitted[k], now)

LimiterInv == LimiterTypeInv /\ QueueInv /\ WindowInv /\ TrackedOrdered /\ RetryHonoured

\* Purging drops a prefix that has left the window, and stops at the first entry inside.
LEMMA PurgedIs ==
    ASSUME NEW q \in Seq(Nat), NEW now \in Nat
    PROVE  \E c \in 0..Len(q) :
               /\ Purged(q, now) \in Seq(Nat)
               /\ Len(Purged(q, now)) = Len(q) - c
               /\ \A i \in 1..(Len(q) - c) : Purged(q, now)[i] = q[c + i]
               /\ \A i \in 1..c : q[i] + Window <= now
               /\ c < Len(q) => q[c + 1] + Window > now
<1> DEFINE kept == {i \in 1..Len(q) : q[i] + Window > now}
<1>0. Len(q) \in Nat /\ Window \in Nat /\ \A i \in 1..Len(q) : q[i] \in Nat
    BY LimiterAssumption
<1>1. Purged(q, now) = IF kept = {} THEN <<>>
                       ELSE SubSeq(q, CHOOSE i \in kept : \A j \in kept : i <= j, Len(q))
    BY DEF Purged
<1>2. CASE kept = {}
    <2>1. Purged(q, now) = <<>> /\ <<>> \in Seq(Nat) /\ Len(<<>>) = 0
        BY <1>1, <1>2, EmptySeq
    <2>2. ASSUME NEW i \in 1..Len(q) PROVE q[i] + Window <= now
        <3>1. ~(q[i] + Window > now)
            BY <1>2
        <3>2. q[i] + Window \in Nat
            BY <1>0
        <3> QED BY <3>1, <3>2
    <2> WITNESS Len(q) \in 0..Len(q)
    <2> QED BY <1>0, <2>1, <2>2
<1>3. CASE kept # {}
    <2> DEFINE m == CHOOSE i \in kept : \A j \in kept : i <= j
    <2>1. kept \subseteq Nat
        BY <1>0
    <2>2. \E i \in kept : \A j \in kept : i <= j
        <3> HIDE DEF kept
        <3> QED BY <1>3, <2>1, LeastNumber
    <2>3. m \in kept /\ \A j \in kept : m <= j
        <3> HIDE DEF kept
        <3> QED BY <2>2
    <2> HIDE DEF m
    <2>4. m \in 1..Len(q) /\ q[m] + Window > now
        BY <2>3
    <2>5. Purged(q, now) = SubSeq(q, m, Len(q))
        BY <1>1, <1>3 DEF m
    <2>6. /\ Purged(q, now) \in Seq(Nat) /\ Len(Purged(q, now)) = Len(q) - m + 1
          /\ \A i \in 1..(Len(q) - m + 1) : Purged(q, now)[i] = q[m + i - 1]
        <3>1. m \in Int /\ Len(q) \in Int /\ m <= Len(q) /\ \A i \in m..Len(q) : q[i] \in Nat
            BY <1>0, <2>4
        <3> HIDE DEF kept
        <3> QED BY <2>5, <3>1, SubSeqProperties
    <2>7. ASSUME NEW i \in 1..(m - 1) PROVE q[i] + Window <= now
        <3>1. i \in 1..Len(q) /\ ~(m <= i)
            BY <1>0, <2>4
        <3>2. i \notin kept
            BY <2>3, <3>1
        <3> QED BY <1>0, <3>1, <3>2
    <2>8. m - 1 \in 0..Len(q)
        BY <1>0, <2>4
    <2>9. /\ Len(Purged(q, now)) = Len(q) - (m - 1)
          /\ (m - 1) + 1 = m
        BY <1>0, <2>4, <2>6
    <2>10. ASSUME NEW i \in 1..(Len(q) - (m - 1)) PROVE Purged(q, now)[i] = q[(m - 1) + i]
        <3>1. i \in 1..(Len(q) - m + 1) /\ (m - 1) + i = m + i - 1
            BY <1>0, <2>4
        <3> QED BY <2>6, <3>1
    <2> HIDE DEF kept
    <2> WITNESS m - 1 \in 0..Len(q)
    <2> QED BY <2>4, <2>6, <2>7, <2>9, <2>10
<1> QED BY <1>2, <1>3

\* The admissions inside a window are finitely many positions.
LEMMA InsideFinite ==
    ASSUME NEW a \in Seq(Nat), NEW now
    PROVE  IsFiniteSet(Inside(a, now)) /\ Cardinality(Inside(a, now)) \in Nat
<1>1. Len(a) \in Nat /\ Inside(a, now) \in SUBSET (1..Len(a))
    BY DEF Inside
<1>2. IsFiniteSet(1..Len(a))
    BY <1>1, FS_Interval
<1>3. IsFiniteSet(Inside(a, now))
    BY <1>1, <1>2, FS_Subset
<1> QED BY <1>3, FS_CardinalityType

\* What the queue covers is at most as many admissions as the queue is long.
LEMMA CoveredCount ==
    ASSUME NEW e \in Seq(Nat), NEW a \in Seq(Nat), NEW now \in Nat,
           Len(e) <= Len(a), Covered(e, a, now)
    PROVE  Cardinality(Inside(a, now)) <= Len(e)
<1> DEFINE m == Len(a) - Len(e) + 1
           S == m..Len(a)
<1>1. Len(a) \in Nat /\ Len(e) \in Nat /\ m \in Int /\ m <= Len(a) + 1
    OBVIOUS
<1>2. Inside(a, now) \in SUBSET S
    <2> SUFFICES ASSUME NEW i \in Inside(a, now) PROVE i \in S
        OBVIOUS
    <2>1. i \in 1..Len(a)
        BY DEF Inside
    <2>2. i \notin 1..(Len(a) - Len(e))
        BY DEF Covered
    <2> QED BY <1>1, <2>1, <2>2
<1>3. IsFiniteSet(S) /\ Cardinality(S) = Len(e)
    <2>1. IsFiniteSet(S) /\ Cardinality(S) = IF m > Len(a) THEN 0 ELSE Len(a) - m + 1
        <3>1. m \in Int /\ Len(a) \in Int
            BY <1>1
        <3> HIDE DEF m
        <3> QED BY <3>1, FS_Interval
    <2> QED BY <1>1, <2>1
<1> HIDE DEF S
<1> QED BY <1>2, <1>3, FS_Subset

\* One more admission is inside a window only at its own time.
LEMMA InsideAppend ==
    ASSUME NEW a \in Seq(Nat), NEW s \in Nat, NEW now \in Nat
    PROVE  LET b == Append(a, s) IN
           /\ b \in Seq(Nat) /\ Len(b) = Len(a) + 1
           /\ \A i \in 1..Len(a) : b[i] = a[i] /\ (i \in Inside(b, now) <=> i \in Inside(a, now))
           /\ b[Len(a) + 1] = s
           /\ s > now => Inside(b, now) = Inside(a, now)
           /\ Cardinality(Inside(b, now)) <= Cardinality(Inside(a, now)) + 1
<1> DEFINE b == Append(a, s)
<1>0. Len(a) \in Nat
    OBVIOUS
<1>1. /\ b \in Seq(Nat) /\ Len(b) = Len(a) + 1
      /\ \A i \in 1..Len(a) : b[i] = a[i]
      /\ b[Len(a) + 1] = s
    BY AppendProperties
<1> HIDE DEF b
<1>2. ASSUME NEW i \in 1..Len(a) PROVE i \in Inside(b, now) <=> i \in Inside(a, now)
    <2>1. i \in 1..Len(b) /\ b[i] = a[i]
        BY <1>0, <1>1
    <2> QED BY <2>1 DEF Inside
<1>3. ASSUME NEW i \in Inside(b, now)
      PROVE  i \in Inside(a, now) \/ (i = Len(a) + 1 /\ s <= now)
    <2>1. i \in 1..(Len(a) + 1) /\ b[i] <= now
        BY <1>1 DEF Inside
    <2>2. i \in 1..Len(a) \/ i = Len(a) + 1
        BY <1>0, <2>1, LastOrBefore
    <2> QED BY <1>1, <1>2, <2>1, <2>2
<1>4. Inside(a, now) \subseteq Inside(b, now)
    <2>1. Inside(a, now) \subseteq 1..Len(a)
        BY DEF Inside
    <2> QED BY <1>2, <2>1
<1>5. s > now => Inside(b, now) = Inside(a, now)
    <2> SUFFICES ASSUME s > now PROVE Inside(b, now) \subseteq Inside(a, now)
        BY <1>4
    <2>1. ~(s <= now)
        OBVIOUS
    <2> QED BY <1>3, <2>1
<1>6. Cardinality(Inside(b, now)) <= Cardinality(Inside(a, now)) + 1
    <2> DEFINE S == Inside(a, now) \cup {Len(a) + 1}
    <2>1. IsFiniteSet(Inside(a, now)) /\ Cardinality(Inside(a, now)) \in Nat
        BY InsideFinite
    <2>2. IsFiniteSet(S) /\ Cardinality(S) =
              IF Len(a) + 1 \in Inside(a, now) THEN Cardinality(Inside(a, now))
              ELSE Cardinality(Inside(a, now)) + 1
        BY <2>1, FS_AddElement
    <2>3. Inside(b, now) \in SUBSET S
        BY <1>3
    <2>4. Cardinality(Inside(b, now)) <= Cardinality(S) /\ Cardinality(Inside(b, now)) \in Nat
        <3> HIDE DEF S
        <3> QED BY <1>1, <2>2, <2>3, FS_Subset, InsideFinite
    <2> HIDE DEF S
    <2> QED BY <2>1, <2>2, <2>4
<1> QED BY <1>1, <1>2, <1>5, <1>6 DEF b
\* The check of thread t ends: it is no longer late, and the others are at most all others.
LEMMA LateAfter ==
    ASSUME LimiterTypeInv, NEW t \in Threads, client[t] # NoClient, NEW now \in Nat,
           client' = [client EXCEPT ![t] = NoClient], stamp' = stamp
    PROVE  /\ Cardinality(Late(now)) \in Nat /\ Cardinality(Late(now)') \in Nat
           /\ Cardinality(Late(now)') <= Cardinality(Late(now))
           /\ Cardinality(Late(now)') <= Cardinality(Threads) - 1
           /\ stamp[t] <= now => Cardinality(Late(now)') = Cardinality(Late(now)) - 1
           /\ Cardinality(Threads) \in Nat
<1> DEFINE L == Late(now)
<1>1. Late(now)' = L \ {t}
    BY DEF Late, LimiterTypeInv
<1>2. L \in SUBSET Threads /\ L \ {t} \in SUBSET (Threads \ {t})
    BY DEF Late
<1>3. stamp[t] <= now => t \in L
    BY DEF Late
<1> HIDE DEF L
<1>4. IsFiniteSet(Threads) /\ Cardinality(Threads) \in Nat
    BY LimiterAssumption, FS_CardinalityType
<1>5. IsFiniteSet(L) /\ Cardinality(L) \in Nat
    BY <1>2, <1>4, FS_Subset, FS_CardinalityType
<1>6. /\ IsFiniteSet(L \ {t})
      /\ Cardinality(L \ {t}) = IF t \in L THEN Cardinality(L) - 1 ELSE Cardinality(L)
    BY <1>5, FS_RemoveElement
<1>7. Cardinality(L \ {t}) \in Nat
    BY <1>6, FS_CardinalityType
<1>8. IsFiniteSet(Threads \ {t}) /\ Cardinality(Threads \ {t}) = Cardinality(Threads) - 1
    BY <1>4, FS_RemoveElement
<1>9. Cardinality(L \ {t}) <= Cardinality(Threads \ {t})
    BY <1>2, <1>8, FS_Subset
<1>10. Cardinality(L \ {t}) <= Cardinality(L)
    BY <1>5, <1>6, <1>7
<1> QED BY <1>1, <1>3, <1>4, <1>5, <1>6, <1>7, <1>8, <1>9, <1>10 DEF L

\* What the check of thread t works with once it has evicted and purged.
LEMMA CheckedQueue ==
    ASSUME LimiterInv, NEW t \in Threads, client[t] # NoClient,
           NEW k, k = client[t], NEW s, s = stamp[t], NEW q, q = Queue(k, s)
    PROVE  /\ k \in Clients /\ s \in Nat /\ s <= clock
           /\ q \in Seq(Nat) /\ Len(q) <= Limit
           /\ Ends(q, admitted[k])
           /\ Len(q) > 0 => q[1] + Window > s
           /\ \A now \in Nat : s <= now /\ Covered(Times(k), admitted[k], now)
                                   => Covered(q, admitted[k], now)
           /\ k \notin Tracked(k) => q = <<>> /\ k \notin DOMAIN events
<1>1. /\ k \in Clients /\ s \in Nat /\ s <= clock
      /\ Limit \in Nat /\ Window \in Nat
    BY LimiterAssumption DEF LimiterInv, LimiterTypeInv
<1> DEFINE e == Times(k)
           a == admitted[k]
<1>2. /\ e \in Seq(Nat) /\ Len(e) <= Limit /\ Ends(e, a) /\ Len(e) \in Nat
      /\ k \notin DOMAIN events => a = <<>>
      /\ a \in Seq(Nat) /\ Len(a) \in Nat
    BY <1>1 DEF LimiterInv, QueueInv, LimiterTypeInv
<1>3. CASE k \notin Tracked(k)
    <2>1. k \notin DOMAIN events
        BY <1>3 DEF Tracked, Evicts
    <2>2. q = <<>> /\ Len(<<>>) = 0 /\ <<>> \in Seq(Nat) /\ e = <<>> /\ a = <<>>
        BY <1>2, <1>3, <2>1, EmptySeq DEF Queue, Times
    <2>3. Ends(q, a)
        BY <2>2 DEF Ends
    <2> QED BY <1>1, <1>2, <2>1, <2>2, <2>3
<1>4. CASE k \in Tracked(k)
    <2>1. k \in DOMAIN events
        BY <1>4 DEF Tracked
    <2>2. q = Purged(e, s)
        BY <1>4, <2>1 DEF Queue, Times
    <2> HIDE DEF e, a
    <2>3. PICK c \in 0..Len(e) :
               /\ q \in Seq(Nat)
               /\ Len(q) = Len(e) - c
               /\ \A i \in 1..(Len(e) - c) : q[i] = e[c + i]
               /\ \A i \in 1..c : e[i] + Window <= s
               /\ c < Len(e) => e[c + 1] + Window > s
        <3>1. e \in Seq(Nat) /\ s \in Nat
            BY <1>1, <1>2
        <3>2. \E c \in 0..Len(e) :
                  /\ Purged(e, s) \in Seq(Nat)
                  /\ Len(Purged(e, s)) = Len(e) - c
                  /\ \A i \in 1..(Len(e) - c) : Purged(e, s)[i] = e[c + i]
                  /\ \A i \in 1..c : e[i] + Window <= s
                  /\ c < Len(e) => e[c + 1] + Window > s
            BY <3>1, PurgedIs
        <3> QED BY <2>2, <3>2, Zenon
    <2>4. c \in Nat /\ Len(q) \in Nat /\ Len(q) = Len(e) - c /\ Len(q) <= Limit
        BY <1>1, <1>2, <2>3
    <2>5. Len(e) <= Len(a) /\ \A i \in 1..Len(e) : e[i] = a[Len(a) - Len(e) + i]
        BY <1>2 DEF Ends
    <2>6. Ends(q, a)
        <3>1. Len(q) <= Len(a)
            BY <1>2, <2>4, <2>5
        <3>2. ASSUME NEW i \in 1..Len(q) PROVE q[i] = a[Len(a) - Len(q) + i]
            <4>1. i \in Nat /\ c + i \in 1..Len(e)
                BY <1>2, <2>4
            <4>2. q[i] = e[c + i]
                BY <2>3, <2>4
            <4>3. e[c + i] = a[Len(a) - Len(e) + (c + i)]
                BY <2>5, <4>1
            <4>4. Len(a) - Len(e) + (c + i) = Len(a) - Len(q) + i
                BY <1>2, <2>4, <4>1
            <4> QED BY <4>2, <4>3, <4>4
        <3> QED BY <3>1, <3>2 DEF Ends
    <2>7. Len(q) > 0 => q[1] + Window > s
        <3> SUFFICES ASSUME Len(q) > 0 PROVE q[1] + Window > s
            OBVIOUS
        <3>1. c < Len(e) /\ 1 \in 1..(Len(e) - c)
            BY <1>2, <2>4
        <3> QED BY <2>3, <3>1
    <2>8. ASSUME NEW now \in Nat, s <= now, Covered(e, a, now)
          PROVE  Covered(q, a, now)
        <3> SUFFICES ASSUME NEW i \in 1..(Len(a) - Len(q)) PROVE i \notin Inside(a, now)
            BY DEF Covered
        <3>1. CASE i <= Len(a) - Len(e)
            <4>1. i \in 1..(Len(a) - Len(e))
                BY <1>2, <3>1
            <4> QED BY <2>8, <4>1 DEF Covered
        <3>2. CASE ~(i <= Len(a) - Len(e))
            <4> DEFINE j == i - (Len(a) - Len(e))
            <4>1. i \in Nat /\ j \in 1..c /\ j \in 1..Len(e) /\ Len(a) - Len(e) + j = i
                BY <1>2, <2>4, <2>5, <3>2
            <4> HIDE DEF j
            <4>2. e[j] = a[i] /\ e[j] + Window <= s
                BY <2>3, <2>5, <4>1
            <4>3. i \in 1..Len(a)
                BY <1>2, <2>4, <4>1
            <4>4. a[i] \in Nat
                BY <1>2, <4>3, ElementOfSeq
            <4>5. ~(a[i] + Window > now)
                BY <1>1, <2>8, <4>2, <4>4
            <4> QED BY <4>5 DEF Inside
        <3> QED BY <3>1, <3>2
    <2>9. q \in Seq(Nat)
        BY <2>3
    <2> QED BY <1>1, <1>4, <2>4, <2>6, <2>7, <2>8, <2>9 DEF e, a
<1> QED BY <1>3, <1>4

\* The tables once the check of client k has evicted: the order keeps every tracked client.
LEMMA CheckedTable ==
    ASSUME LimiterInv, NEW k \in Clients
    PROVE  /\ Tracked(k) \subseteq DOMAIN events
           /\ Remembered(k) \in [Clients -> Seq(Nat)]
           /\ Remembered(k)[k] = admitted[k]
           /\ OrderAfter(k) \in Seq(Clients)
           /\ \A x \in Tracked(k) : Occurs(x, OrderAfter(k))
<1>1. Tracked(k) \subseteq DOMAIN events
    BY DEF Tracked
<1>2. admitted \in [Clients -> Seq(Nat)] /\ order \in Seq(Clients)
    BY DEF LimiterInv, LimiterTypeInv
<1>3. Remembered(k) \in [Clients -> Seq(Nat)]
    <2>1. <<>> \in Seq(Nat)
        BY EmptySeq
    <2> QED BY <1>2, <2>1 DEF Remembered
<1>4. Remembered(k)[k] = admitted[k]
    <2>1. k \notin Tracked(k) => k \notin DOMAIN events
        BY DEF Tracked, Evicts
    <2>2. k \notin DOMAIN events => admitted[k] = <<>>
        BY DEF LimiterInv, QueueInv
    <2> QED BY <2>1, <2>2 DEF Remembered
<1>5. \A x \in DOMAIN events : Occurs(x, order)
    BY DEF LimiterInv, TrackedOrdered
<1>6. CASE ~Evicts(k)
    BY <1>1, <1>2, <1>3, <1>4, <1>5, <1>6 DEF OrderAfter
<1>7. CASE Evicts(k)
    <2>1. DOMAIN events # {}
        <3> SUFFICES ASSUME DOMAIN events = {} PROVE FALSE
            OBVIOUS
        <3>1. Cardinality({}) >= MaxKeys
            BY <1>7 DEF Evicts
        <3>2. Cardinality({}) = 0
            BY FS_EmptySet
        <3> QED BY <3>1, <3>2, LimiterAssumption
    <2>2. order # <<>> /\ Len(order) \in Nat
        BY <1>2, <1>5, <2>1 DEF Occurs
    <2>3. /\ Tail(order) \in Seq(Clients) /\ Head(order) = order[1]
          /\ Len(Tail(order)) = Len(order) - 1
          /\ \A i \in 1..(Len(order) - 1) : Tail(order)[i] = order[i + 1]
        BY <1>2, <2>2, HeadTailProperties
    <2>4. ASSUME NEW x \in Tracked(k) PROVE Occurs(x, Tail(order))
        <3>1. x \in DOMAIN events /\ x # order[1]
            BY <1>7, <2>3 DEF Tracked
        <3>2. PICK i \in 1..Len(order) : order[i] = x
            BY <1>5, <3>1 DEF Occurs
        <3>3. i - 1 \in 1..(Len(order) - 1) /\ (i - 1) + 1 = i
            BY <2>2, <3>1, <3>2
        <3>4. Tail(order)[i - 1] = x
            BY <2>3, <3>2, <3>3
        <3> QED BY <2>3, <3>3, <3>4 DEF Occurs
    <2> QED BY <1>1, <1>3, <1>4, <1>7, <2>3, <2>4 DEF OrderAfter
<1> QED BY <1>6, <1>7
\* A check leaves the other clients as they were, or evicts one and forgets it.
LEMMA OthersKept ==
    ASSUME LimiterInv, NEW t \in Threads, client[t] # NoClient,
           NEW k \in Clients, NEW z, events' = Table(k, z),
           client' = [client EXCEPT ![t] = NoClient], stamp' = stamp, clock' = clock,
           NEW x \in Clients, x # k, admitted'[x] = Remembered(k)[x]
    PROVE  /\ Times(x)' \in Seq(Nat) /\ Len(Times(x)') <= Limit
           /\ Ends(Times(x)', admitted'[x])
           /\ x \notin DOMAIN events' => admitted'[x] = <<>>
           /\ \A now \in Nat : Covered(Times(x)', admitted'[x], now) \/ Bounded(admitted[x], now)'
           /\ x \in DOMAIN events' => x \in DOMAIN events /\ events'[x] = events[x]
<1>1. Tracked(k) \subseteq DOMAIN events
    BY CheckedTable
<1>2. DOMAIN events' = Tracked(k) \cup {k}
    BY DEF Table
<1>3. /\ Times(x) \in Seq(Nat) /\ Len(Times(x)) <= Limit /\ Ends(Times(x), admitted[x])
      /\ \A now \in Nat : Covered(Times(x), admitted[x], now) \/ Bounded(admitted[x], now)
      /\ admitted[x] \in Seq(Nat)
    BY DEF LimiterInv, QueueInv, WindowInv, LimiterTypeInv
<1>4. CASE x \in Tracked(k)
    <2>1. events'[x] = events[x] /\ x \in DOMAIN events' /\ x \in DOMAIN events
        BY <1>1, <1>2, <1>4 DEF Table
    <2>2. Times(x)' = Times(x)
        BY <2>1 DEF Times
    <2>3. admitted'[x] = admitted[x]
        BY <1>4 DEF Remembered
    <2>4. ASSUME NEW now \in Nat, Bounded(admitted[x], now)
          PROVE  Bounded(admitted[x], now)'
        <3>1. Cardinality(Late(now)) \in Nat /\ Cardinality(Late(now)') \in Nat
              /\ Cardinality(Late(now)') <= Cardinality(Late(now)) /\ Cardinality(Threads) \in Nat
            BY LateAfter DEF LimiterInv
        <3>2. Cardinality(Inside(admitted[x], now)) \in Nat /\ Limit \in Nat
            BY <1>3, InsideFinite, LimiterAssumption
        <3>3. clock > now /\ Cardinality(Inside(admitted[x], now)) + Cardinality(Late(now))
                                 <= Limit + Cardinality(Threads) - 1
            BY <2>4 DEF Bounded
        <3>4. Cardinality(Inside(admitted[x], now)) + Cardinality(Late(now)')
                  <= Limit + Cardinality(Threads) - 1
            BY <3>1, <3>2, <3>3
        <3> QED BY <2>3, <3>3, <3>4 DEF Bounded, Inside
    <2> QED BY <1>3, <2>1, <2>2, <2>3, <2>4
<1>5. CASE x \notin Tracked(k)
    <2>1. x \notin DOMAIN events'
        BY <1>2, <1>5
    <2>2. Times(x)' = <<>> /\ admitted'[x] = <<>> /\ <<>> \in Seq(Nat) /\ Len(<<>>) = 0
        BY <1>5, <2>1, EmptySeq DEF Times, Remembered
    <2>3. Ends(<<>>, <<>>) /\ \A now \in Nat : Covered(<<>>, <<>>, now)
        BY <2>2 DEF Ends, Covered
    <2> QED BY <2>1, <2>2, <2>3, LimiterAssumption
<1> QED BY <1>4, <1>5

\* An admission keeps the invariant.
LEMMA AdmitKeeps ==
    ASSUME LimiterInv, NEW t \in Threads, Admit(t)
    PROVE  LimiterInv'
<1>0. PICK k, s : k = client[t] /\ s = stamp[t]
    OBVIOUS
<1> DEFINE q == Queue(k, s)
           a == admitted[k]
           e == Append(q, s)
           b == Append(a, s)
<1>1. /\ client[t] # NoClient /\ Len(q) < Limit
      /\ events' = Table(k, e) /\ order' = Append(OrderAfter(k), k)
      /\ admitted' = [Remembered(k) EXCEPT ![k] = Append(Remembered(k)[k], s)]
      /\ told' = [told EXCEPT ![k] = 0]
      /\ client' = [client EXCEPT ![t] = NoClient] /\ clock' = clock /\ stamp' = stamp
    BY <1>0 DEF Admit
<1>2. /\ k \in Clients /\ s \in Nat /\ s <= clock
      /\ q \in Seq(Nat) /\ Len(q) <= Limit
      /\ Ends(q, a)
      /\ \A now \in Nat : s <= now /\ Covered(Times(k), a, now) => Covered(q, a, now)
    BY <1>0, <1>1, CheckedQueue
<1>3. /\ Tracked(k) \subseteq DOMAIN events
      /\ Remembered(k) \in [Clients -> Seq(Nat)]
      /\ Remembered(k)[k] = a
      /\ OrderAfter(k) \in Seq(Clients)
      /\ \A x \in Tracked(k) : Occurs(x, OrderAfter(k))
    BY <1>2, CheckedTable
<1>4. a \in Seq(Nat) /\ Len(a) \in Nat /\ Len(q) \in Nat /\ Limit \in Nat /\ clock \in Nat
    BY <1>2, <1>3, LimiterAssumption DEF LimiterInv, LimiterTypeInv
<1>5. DOMAIN events' = Tracked(k) \cup {k} /\ Times(k)' = e
    <2> HIDE DEF e
    <2>1. DOMAIN events' = Tracked(k) \cup {k} /\ events'[k] = e
        BY <1>1 DEF Table
    <2> QED BY <2>1 DEF Times
<1>6. /\ admitted'[k] = b
      /\ \A x \in Clients : x # k => admitted'[x] = Remembered(k)[x]
    BY <1>1, <1>2, <1>3
<1>7. /\ e \in Seq(Nat) /\ Len(e) = Len(q) + 1
      /\ \A i \in 1..Len(q) : e[i] = q[i]
      /\ e[Len(q) + 1] = s
    <2> HIDE DEF q
    <2> QED BY <1>2, AppendProperties
<1>8. \A now \in Nat :
          /\ b \in Seq(Nat) /\ Len(b) = Len(a) + 1
          /\ \A i \in 1..Len(a) : b[i] = a[i] /\ (i \in Inside(b, now) <=> i \in Inside(a, now))
          /\ b[Len(a) + 1] = s
          /\ s > now => Inside(b, now) = Inside(a, now)
          /\ Cardinality(Inside(b, now)) <= Cardinality(Inside(a, now)) + 1
    <2> HIDE DEF a
    <2> QED BY <1>2, <1>4, InsideAppend
<1>9. b \in Seq(Nat) /\ Len(b) = Len(a) + 1 /\ b[Len(a) + 1] = s
      /\ \A i \in 1..Len(a) : b[i] = a[i]
    BY <1>8, 0 \in Nat
<1>10. Ends(e, b)
    <2> HIDE DEF e, b, q, a
    <2>1. Len(q) <= Len(a) /\ \A i \in 1..Len(q) : q[i] = a[Len(a) - Len(q) + i]
        BY <1>2 DEF Ends
    <2>2. Len(e) <= Len(b) /\ Len(b) - Len(e) = Len(a) - Len(q)
        BY <1>4, <1>7, <1>9, <2>1
    <2>3. ASSUME NEW i \in 1..Len(e) PROVE e[i] = b[Len(b) - Len(e) + i]
        <3>1. i \in 1..Len(q) \/ i = Len(q) + 1
            BY <1>4, <1>7, LastOrBefore
        <3>2. CASE i \in 1..Len(q)
            <4>1. Len(a) - Len(q) + i \in 1..Len(a)
                BY <1>4, <2>1, <3>2
            <4> QED BY <1>7, <1>9, <2>1, <2>2, <3>2, <4>1
        <3>3. CASE i = Len(q) + 1
            <4>1. Len(a) - Len(q) + i = Len(a) + 1
                BY <1>4, <3>3
            <4> QED BY <1>7, <1>9, <2>2, <3>3, <4>1
        <3> QED BY <3>1, <3>2, <3>3
    <2> QED BY <2>2, <2>3 DEF Ends
<1>11. ASSUME NEW now \in Nat
       PROVE  Covered(e, b, now) \/ Bounded(admitted[k], now)'
    <2> DEFINE A == Cardinality(Inside(a, now))
               B == Cardinality(Inside(b, now))
               L == Cardinality(Late(now))
               M == Cardinality(Late(now)')
               T == Cardinality(Threads)
    <2>1. /\ L \in Nat /\ M \in Nat /\ T \in Nat /\ M <= L /\ M <= T - 1
          /\ s <= now => M = L - 1
        BY <1>0, <1>1, LateAfter DEF LimiterInv
    <2>2. A \in Nat /\ B \in Nat /\ B <= A + 1 /\ (s > now => B = A)
        BY <1>4, <1>8, <1>9, InsideFinite
    <2>3. Bounded(admitted[k], now)' <=> (clock > now /\ B + M <= Limit + T - 1)
        <3> HIDE DEF b
        <3> QED BY <1>1, <1>6 DEF Bounded, Inside
    <2>4. CASE Bounded(a, now)
        <3>1. clock > now /\ A + L <= Limit + T - 1
            BY <2>4 DEF Bounded
        <3> HIDE DEF A, B, L, M, T
        <3>2. B + M <= Limit + T - 1
            BY <1>2, <1>4, <2>1, <2>2, <3>1
        <3> QED BY <2>3, <3>1, <3>2
    <2>5. CASE Covered(Times(k), a, now) /\ s <= now
        <3>1. Covered(q, a, now)
            BY <1>2, <2>5
        <3>2. Len(b) - Len(e) = Len(a) - Len(q) /\ Len(q) <= Len(a)
            <4> HIDE DEF q, a, b, e
            <4> QED BY <1>2, <1>4, <1>7, <1>9 DEF Ends
        <3> HIDE DEF q, a, b, e
        <3>3. ASSUME NEW i \in 1..(Len(a) - Len(q)) PROVE i \notin Inside(b, now)
            <4>1. i \in 1..Len(a)
                BY <1>4, <3>2
            <4>2. i \notin Inside(a, now)
                BY <3>1 DEF Covered
            <4> QED BY <1>8, <4>1, <4>2
        <3> QED BY <3>2, <3>3 DEF Covered
    <2>6. CASE Covered(Times(k), a, now) /\ s > now
        <3>1. Times(k) \in Seq(Nat) /\ Len(Times(k)) <= Limit /\ Len(Times(k)) <= Len(a)
            BY <1>2 DEF LimiterInv, QueueInv, Ends
        <3>2. A <= Len(Times(k))
            <4> HIDE DEF a
            <4> QED BY <1>4, <2>6, <3>1, CoveredCount
        <3>3. A <= Limit /\ clock > now
            <4>1. Len(Times(k)) \in Nat
                BY <3>1
            <4> HIDE DEF A
            <4> QED BY <1>2, <1>4, <2>2, <2>6, <3>1, <3>2, <4>1
        <3> HIDE DEF A, B, L, M, T
        <3>4. B + M <= Limit + T - 1
            BY <1>4, <2>1, <2>2, <2>6, <3>3
        <3> QED BY <2>3, <3>3, <3>4
    <2>7. Covered(Times(k), a, now) \/ Bounded(a, now)
        BY <1>2 DEF LimiterInv, WindowInv
    <2>8. s <= now \/ s > now
        BY <1>2
    <2> QED BY <2>4, <2>5, <2>6, <2>7, <2>8
<1>12. \A x \in Clients : x # k =>
          /\ Times(x)' \in Seq(Nat) /\ Len(Times(x)') <= Limit
          /\ Ends(Times(x)', admitted'[x])
          /\ x \notin DOMAIN events' => admitted'[x] = <<>>
          /\ \A now \in Nat : Covered(Times(x)', admitted'[x], now) \/ Bounded(admitted[x], now)'
          /\ x \in DOMAIN events' => x \in DOMAIN events /\ events'[x] = events[x]
    BY <1>1, <1>2, <1>6, OthersKept
<1>13. QueueInv'
    <2>1. Len(e) <= Limit
        <3> HIDE DEF q, e
        <3> QED BY <1>1, <1>4, <1>7
    <2> QED BY <1>5, <1>6, <1>7, <1>10, <1>12, <2>1 DEF QueueInv
<1>14. WindowInv'
    BY <1>5, <1>6, <1>11, <1>12 DEF WindowInv
<1>15. /\ order' \in Seq(Clients) /\ Len(order') = Len(OrderAfter(k)) + 1
       /\ \A i \in 1..Len(OrderAfter(k)) : order'[i] = OrderAfter(k)[i]
       /\ order'[Len(OrderAfter(k)) + 1] = k /\ Len(OrderAfter(k)) \in Nat
    BY <1>1, <1>2, <1>3, AppendProperties
<1>16. TrackedOrdered'
    <2> SUFFICES ASSUME NEW x \in Tracked(k) \cup {k} PROVE Occurs(x, order')
        BY <1>5 DEF TrackedOrdered
    <2>1. CASE x = k
        BY <1>15, <2>1 DEF Occurs
    <2>2. CASE x \in Tracked(k)
        <3>1. PICK i \in 1..Len(OrderAfter(k)) : OrderAfter(k)[i] = x
            BY <1>3, <2>2 DEF Occurs
        <3>2. i \in 1..Len(order')
            BY <1>15
        <3> QED BY <1>15, <3>1, <3>2 DEF Occurs
    <2> QED BY <2>1, <2>2
<1>17. LimiterTypeInv'
    <2>1. admitted' \in [Clients -> Seq(Nat)]
        <3> HIDE DEF b
        <3> QED BY <1>1, <1>3, <1>6, <1>9
    <2> QED BY <1>1, <1>2, <1>3, <1>5, <1>15, <2>1 DEF LimiterInv, LimiterTypeInv
<1>18. RetryHonoured'
    <2> SUFFICES ASSUME NEW x \in Clients, told'[x] # 0, x \in DOMAIN events'
                 PROVE  Len(Purged(events'[x], told'[x])) < Limit
        BY DEF RetryHonoured, Purged
    <2>1. x # k /\ told'[x] = told[x]
        BY <1>1 DEF LimiterInv, LimiterTypeInv
    <2> QED BY <1>12, <2>1 DEF LimiterInv, RetryHonoured
<1> QED BY <1>13, <1>14, <1>16, <1>17, <1>18 DEF LimiterInv
\* A refusal keeps the invariant, and what it tells the client is honoured.
LEMMA RefuseKeeps ==
    ASSUME LimiterInv, NEW t \in Threads, Refuse(t)
    PROVE  LimiterInv'
<1>0. PICK k, s : k = client[t] /\ s = stamp[t]
    OBVIOUS
<1> DEFINE q == Queue(k, s)
           a == admitted[k]
           r == s + RetryAfter(q, s)
<1>1. /\ client[t] # NoClient /\ Len(q) >= Limit
      /\ events' = Table(k, q) /\ order' = OrderAfter(k)
      /\ admitted' = Remembered(k)
      /\ told' = [told EXCEPT ![k] = r]
      /\ client' = [client EXCEPT ![t] = NoClient] /\ clock' = clock /\ stamp' = stamp
    BY <1>0 DEF Refuse
<1>2. /\ k \in Clients /\ s \in Nat /\ s <= clock
      /\ q \in Seq(Nat) /\ Len(q) <= Limit
      /\ Ends(q, a)
      /\ Len(q) > 0 => q[1] + Window > s
      /\ \A now \in Nat : s <= now /\ Covered(Times(k), a, now) => Covered(q, a, now)
      /\ k \notin Tracked(k) => q = <<>>
    BY <1>0, <1>1, CheckedQueue
<1>3. /\ Tracked(k) \subseteq DOMAIN events
      /\ Remembered(k) \in [Clients -> Seq(Nat)]
      /\ Remembered(k)[k] = a
      /\ OrderAfter(k) \in Seq(Clients)
      /\ \A x \in Tracked(k) : Occurs(x, OrderAfter(k))
    BY <1>2, CheckedTable
<1>4. /\ a \in Seq(Nat) /\ Len(a) \in Nat /\ Len(q) \in Nat /\ clock \in Nat
      /\ Limit \in Nat \ {0} /\ Window \in Nat
    BY <1>2, <1>3, LimiterAssumption DEF LimiterInv, LimiterTypeInv
<1>5. k \in Tracked(k) /\ Len(q) > 0
    <2>1. Len(q) > 0
        <3> HIDE DEF q
        <3> QED BY <1>1, <1>4
    <2>2. q # <<>>
        <3> HIDE DEF q
        <3> QED BY <2>1, EmptySeq
    <2> QED BY <1>2, <2>1, <2>2
<1>6. DOMAIN events' = Tracked(k) /\ Times(k)' = q /\ events'[k] = q
    <2> HIDE DEF q
    <2>1. DOMAIN events' = Tracked(k) \cup {k} /\ events'[k] = q
        BY <1>1 DEF Table
    <2> QED BY <1>5, <2>1 DEF Times
<1>7. admitted'[k] = a /\ \A x \in Clients : admitted'[x] = Remembered(k)[x]
    BY <1>1, <1>3
<1>8. ASSUME NEW now \in Nat
      PROVE  Covered(q, a, now) \/ Bounded(admitted[k], now)'
    <2> DEFINE A == Cardinality(Inside(a, now))
               L == Cardinality(Late(now))
               M == Cardinality(Late(now)')
               T == Cardinality(Threads)
    <2>1. L \in Nat /\ M \in Nat /\ T \in Nat /\ M <= L /\ M <= T - 1
        BY <1>0, <1>1, LateAfter DEF LimiterInv
    <2>2. A \in Nat
        BY <1>4, InsideFinite
    <2>3. Bounded(admitted[k], now)' <=> (clock > now /\ A + M <= Limit + T - 1)
        <3> HIDE DEF a
        <3> QED BY <1>1, <1>7 DEF Bounded, Inside
    <2>4. CASE Bounded(a, now)
        <3>1. clock > now /\ A + L <= Limit + T - 1
            BY <2>4 DEF Bounded
        <3> HIDE DEF A, L, M, T
        <3>2. A + M <= Limit + T - 1
            BY <1>4, <2>1, <2>2, <3>1
        <3> QED BY <2>3, <3>1, <3>2
    <2>5. CASE Covered(Times(k), a, now) /\ s <= now
        BY <1>2, <2>5
    <2>6. CASE Covered(Times(k), a, now) /\ s > now
        <3>1. Times(k) \in Seq(Nat) /\ Len(Times(k)) <= Limit /\ Len(Times(k)) <= Len(a)
            BY <1>2 DEF LimiterInv, QueueInv, Ends
        <3>2. A <= Len(Times(k))
            <4> HIDE DEF a
            <4> QED BY <1>4, <2>6, <3>1, CoveredCount
        <3>3. A <= Limit /\ clock > now
            <4>1. Len(Times(k)) \in Nat
                BY <3>1
            <4> HIDE DEF A
            <4> QED BY <1>2, <1>4, <2>2, <2>6, <3>1, <3>2, <4>1
        <3> HIDE DEF A, L, M, T
        <3>4. A + M <= Limit + T - 1
            BY <1>4, <2>1, <2>2, <3>3
        <3> QED BY <2>3, <3>3, <3>4
    <2>7. Covered(Times(k), a, now) \/ Bounded(a, now)
        BY <1>2 DEF LimiterInv, WindowInv
    <2>8. s <= now \/ s > now
        BY <1>2
    <2> QED BY <2>4, <2>5, <2>6, <2>7, <2>8
<1>9. \A x \in Clients : x # k =>
          /\ Times(x)' \in Seq(Nat) /\ Len(Times(x)') <= Limit
          /\ Ends(Times(x)', admitted'[x])
          /\ x \notin DOMAIN events' => admitted'[x] = <<>>
          /\ \A now \in Nat : Covered(Times(x)', admitted'[x], now) \/ Bounded(admitted[x], now)'
          /\ x \in DOMAIN events' => x \in DOMAIN events /\ events'[x] = events[x]
    BY <1>0, <1>1, <1>2, <1>7, OthersKept
<1>10. QueueInv'
    BY <1>2, <1>5, <1>6, <1>7, <1>9 DEF QueueInv
<1>11. WindowInv'
    BY <1>6, <1>7, <1>8, <1>9 DEF WindowInv
<1>12. TrackedOrdered'
    BY <1>1, <1>3, <1>6 DEF TrackedOrdered
<1>13. r = q[1] + Window + 1 /\ r \in Nat /\ q[1] \in Nat
    <2> HIDE DEF q
    <2>1. q[1] \in Nat
        BY <1>2, <1>4, <1>5
    <2>2. RetryAfter(q, s) = q[1] + Window - s + 1
        BY <1>2, <1>5 DEF RetryAfter
    <2> QED BY <1>2, <1>4, <2>1, <2>2
<1> HIDE DEF r
<1>14. LimiterTypeInv'
    BY <1>1, <1>2, <1>3, <1>6, <1>13 DEF LimiterInv, LimiterTypeInv
<1>15. Len(Purged(q, r)) < Limit
    <2> HIDE DEF q
    <2>1. PICK c \in 0..Len(q) :
              Len(Purged(q, r)) = Len(q) - c /\ (c < Len(q) => q[c + 1] + Window > r)
        BY <1>2, <1>13, PurgedIs
    <2>2. c # 0
        <3> SUFFICES ASSUME c = 0 PROVE FALSE
            OBVIOUS
        <3>1. q[1] + Window > r
            BY <1>5, <2>1
        <3> QED BY <1>4, <1>13, <3>1
    <2> QED BY <1>2, <1>4, <2>1, <2>2
<1>16. RetryHonoured'
    <2> SUFFICES ASSUME NEW x \in Clients, told'[x] # 0, x \in DOMAIN events'
                 PROVE  Len(Purged(events'[x], told'[x])) < Limit
        BY DEF RetryHonoured, Purged
    <2>1. CASE x # k
        <3>1. told'[x] = told[x]
            BY <1>1, <2>1 DEF LimiterInv, LimiterTypeInv
        <3> QED BY <1>9, <2>1, <3>1 DEF LimiterInv, RetryHonoured
    <2>2. CASE x = k
        <3>1. told'[k] = r
            BY <1>1, <1>2 DEF LimiterInv, LimiterTypeInv
        <3> QED BY <1>6, <1>15, <2>2, <3>1
    <2> QED BY <2>1, <2>2
<1> QED BY <1>10, <1>11, <1>12, <1>14, <1>16 DEF LimiterInv

\* A step that leaves the tables alone keeps what is said of the queues alone.
LEMMA TablesUnchanged ==
    ASSUME LimiterInv, events' = events, order' = order, admitted' = admitted, told' = told
    PROVE  QueueInv' /\ TrackedOrdered' /\ RetryHonoured'
<1>1. QueueInv'
    <2>1. \A k : Times(k)' = Times(k)
        BY DEF Times
    <2> QED BY <2>1 DEF LimiterInv, QueueInv, Ends
<1>2. TrackedOrdered'
    BY DEF LimiterInv, TrackedOrdered
<1>3. RetryHonoured'
    BY DEF LimiterInv, RetryHonoured, Purged
<1> QED BY <1>1, <1>2, <1>3

\* A check that arrives reads the clock: it is late for no time the clock has passed.
LEMMA ArriveKeeps ==
    ASSUME LimiterInv, NEW t \in Threads, NEW k \in Clients, Arrive(t, k)
    PROVE  LimiterInv'
<1>1. /\ client[t] = NoClient
      /\ client' = [client EXCEPT ![t] = k] /\ stamp' = [stamp EXCEPT ![t] = clock]
      /\ clock' = clock /\ events' = events /\ order' = order
      /\ admitted' = admitted /\ told' = told
    BY DEF Arrive
<1>2. LimiterTypeInv'
    BY <1>1 DEF LimiterInv, LimiterTypeInv
<1>3. QueueInv' /\ TrackedOrdered' /\ RetryHonoured'
    BY <1>1, TablesUnchanged
<1>4. ASSUME NEW x \in Clients, NEW now \in Nat, Bounded(admitted[x], now)
      PROVE  Bounded(admitted[x], now)'
    <2>1. clock > now
        BY <1>4 DEF Bounded
    <2>2. Late(now)' = Late(now)
        <3>1. ASSUME NEW u \in Threads
              PROVE  (client'[u] # NoClient /\ stamp'[u] <= now)
                         <=> (client[u] # NoClient /\ stamp[u] <= now)
            <4>1. CASE u = t
                <5>1. stamp'[t] = clock
                    BY <1>1 DEF LimiterInv, LimiterTypeInv
                <5>2. ~(clock <= now)
                    BY <2>1 DEF LimiterInv, LimiterTypeInv
                <5> QED BY <1>1, <4>1, <5>1, <5>2
            <4>2. CASE u # t
                BY <1>1, <4>2 DEF LimiterInv, LimiterTypeInv
            <4> QED BY <4>1, <4>2
        <3> QED BY <3>1 DEF Late
    <2> QED BY <1>1, <1>4, <2>2 DEF Bounded, Inside
<1>5. WindowInv'
    <2> SUFFICES ASSUME NEW x \in Clients, NEW now \in Nat
                 PROVE  Covered(Times(x)', admitted'[x], now) \/ Bounded(admitted[x], now)'
        BY DEF WindowInv, Covered, Inside
    <2>1. Times(x)' = Times(x) /\ admitted'[x] = admitted[x]
        BY <1>1 DEF Times
    <2>2. Covered(Times(x), admitted[x], now) \/ Bounded(admitted[x], now)
        BY DEF LimiterInv, WindowInv
    <2> QED BY <1>4, <2>1, <2>2
<1> QED BY <1>2, <1>3, <1>5 DEF LimiterInv

\* The invariant of the rate limiter: the clock, arrivals, admissions and refusals on
\* any number of threads keep it.
THEOREM LimiterInvariant == LimiterSpec => []LimiterInv
<1>1. LimiterInit => LimiterInv
    <2> SUFFICES ASSUME LimiterInit PROVE LimiterInv
        OBVIOUS
    <2>1. /\ clock = 1 /\ events = <<>> /\ order = <<>>
          /\ client = [t \in Threads |-> NoClient] /\ stamp = [t \in Threads |-> 0]
          /\ admitted = [k \in Clients |-> <<>>] /\ told = [k \in Clients |-> 0]
        BY DEF LimiterInit
    <2>2. /\ DOMAIN events = {} /\ <<>> \in Seq(Nat) /\ <<>> \in Seq(Clients) /\ Len(<<>>) = 0
        BY <2>1, EmptySeq
    <2>3. LimiterTypeInv
        BY <2>1, <2>2 DEF LimiterTypeInv
    <2>4. ASSUME NEW k \in Clients
          PROVE  Times(k) = <<>> /\ admitted[k] = <<>>
        BY <2>1, <2>2 DEF Times
    <2>5. Ends(<<>>, <<>>) /\ \A now \in Nat : Covered(<<>>, <<>>, now)
        BY <2>2 DEF Ends, Covered
    <2>6. QueueInv
        <3>1. 0 <= Limit
            BY LimiterAssumption
        <3> QED BY <2>2, <2>4, <2>5, <3>1 DEF QueueInv
    <2>7. WindowInv
        BY <2>4, <2>5 DEF WindowInv
    <2>8. TrackedOrdered /\ RetryHonoured
        BY <2>2 DEF TrackedOrdered, RetryHonoured
    <2> QED BY <2>3, <2>6, <2>7, <2>8 DEF LimiterInv
<1>2. LimiterInv /\ [LimiterNext]_limiterVars => LimiterInv'
    <2> SUFFICES ASSUME LimiterInv, [LimiterNext]_limiterVars
                 PROVE  LimiterInv'
        OBVIOUS
    <2>1. ASSUME Tick PROVE LimiterInv'
        <3>1. /\ clock' = clock + 1 /\ events' = events /\ order' = order /\ client' = client
              /\ stamp' = stamp /\ admitted' = admitted /\ told' = told
            BY <2>1 DEF Tick
        <3>2. LimiterTypeInv'
            BY <3>1 DEF LimiterInv, LimiterTypeInv
        <3>3. QueueInv' /\ TrackedOrdered' /\ RetryHonoured'
            BY <3>1, TablesUnchanged
        <3>4. WindowInv'
            <4>1. clock \in Nat
                BY DEF LimiterInv, LimiterTypeInv
            <4>2. ASSUME NEW now \in Nat, clock > now PROVE clock' > now
                BY <3>1, <4>1, <4>2
            <4>3. ASSUME NEW x \in Clients, NEW now \in Nat, Bounded(admitted[x], now)
                  PROVE  Bounded(admitted[x], now)'
                BY <3>1, <4>2, <4>3 DEF Bounded, Inside, Late
            <4> QED BY <3>1, <4>3 DEF LimiterInv, WindowInv, Covered, Inside, Times
        <3> QED BY <3>2, <3>3, <3>4 DEF LimiterInv
    <2>2. ASSUME UNCHANGED limiterVars PROVE LimiterInv'
        <3>1. /\ clock' = clock /\ events' = events /\ order' = order /\ client' = client
              /\ stamp' = stamp /\ admitted' = admitted /\ told' = told
            BY <2>2 DEF limiterVars
        <3>2. QueueInv' /\ TrackedOrdered' /\ RetryHonoured'
            BY <3>1, TablesUnchanged
        <3>3. LimiterTypeInv'
            BY <3>1 DEF LimiterInv, LimiterTypeInv
        <3>4. WindowInv'
            BY <3>1 DEF LimiterInv, WindowInv, Covered, Bounded, Inside, Late, Times
        <3> QED BY <3>2, <3>3, <3>4 DEF LimiterInv
    <2>3. ASSUME LimiterQuiet PROVE LimiterInv'
        BY <2>2, <2>3 DEF LimiterQuiet
    <2>4. ASSUME NEW t \in Threads, Admit(t) PROVE LimiterInv'
        BY <2>4, AdmitKeeps
    <2>5. ASSUME NEW t \in Threads, Refuse(t) PROVE LimiterInv'
        BY <2>5, RefuseKeeps
    <2>6. ASSUME NEW t \in Threads, NEW k \in Clients, Arrive(t, k) PROVE LimiterInv'
        BY <2>6, ArriveKeeps
    <2> QED BY <2>1, <2>2, <2>3, <2>4, <2>5, <2>6 DEF LimiterNext
<1> QED BY <1>1, <1>2, PTL DEF LimiterSpec

\* In any window a client is admitted at most Limit times and once more for each other
\* thread, whatever the clock readings of the threads and their order at the lock; an
\* eviction finds a client to evict, and Retry-After is honoured (check).
THEOREM LimiterAlwaysHonest == LimiterSpec => []LimiterHonest
<1>1. LimiterInv => LimiterHonest
    <2> SUFFICES ASSUME LimiterInv PROVE LimiterHonest
        OBVIOUS
    <2>1. ASSUME NEW k \in Clients, NEW now \in 1..MaxTime
          PROVE  Cardinality(Inside(admitted[k], now)) <= Limit + Cardinality(Threads) - 1
        <3> DEFINE A == Cardinality(Inside(admitted[k], now))
                   L == Cardinality(Late(now))
                   T == Cardinality(Threads)
        <3> SUFFICES A <= Limit + T - 1
            OBVIOUS
        <3>1. now \in Nat /\ Limit \in Nat
            BY LimiterAssumption
        <3>2. admitted[k] \in Seq(Nat) /\ A \in Nat
            BY InsideFinite DEF LimiterInv, LimiterTypeInv
        <3>3. T \in Nat /\ T # 0
            BY LimiterAssumption, FS_CardinalityType, FS_EmptySet
        <3>4. L \in Nat
            <4>1. Late(now) \in SUBSET Threads
                BY DEF Late
            <4> QED BY <4>1, LimiterAssumption, FS_Subset, FS_CardinalityType
        <3>5. CASE Covered(Times(k), admitted[k], now)
            <4>1. Times(k) \in Seq(Nat) /\ Len(Times(k)) <= Limit
                  /\ Len(Times(k)) <= Len(admitted[k]) /\ Len(Times(k)) \in Nat
                BY DEF LimiterInv, QueueInv, Ends
            <4>2. A <= Len(Times(k))
                BY <3>1, <3>2, <3>5, <4>1, CoveredCount
            <4> HIDE DEF A, T
            <4> QED BY <3>1, <3>2, <3>3, <4>1, <4>2
        <3>6. CASE Bounded(admitted[k], now)
            <4>1. A + L <= Limit + T - 1
                BY <3>6 DEF Bounded
            <4> HIDE DEF A, L, T
            <4> QED BY <3>1, <3>2, <3>3, <3>4, <4>1
        <3> QED BY <3>1, <3>5, <3>6 DEF LimiterInv, WindowInv
    <2> QED BY <2>1 DEF LimiterInv, LimiterHonest, WindowLimit
<1> QED BY <1>1, LimiterInvariant, PTL
-----------------------------------------------------------------------------
(* The tenant databases: a walk over pages.                                *)

Rows == [tenant : Tenants, corridor : Corridors, number : Numbers]
Walks == [on : {TRUE}, over : BOOLEAN, tenant : Tenants, corridor : Corridors \cup {AnyCorridor},
          limit : Limits, offset : Nat, seen : SUBSET Nat, began : SUBSET Nat]

\* The rows the walk is about.
Sought == Selected(walk.tenant, walk.corridor)

\* No two of the rows share a sequence number.
AllDistinct(S) == \A i, j \in S : rows[i].number = rows[j].number => i = j

\* The elements whose key is larger.
Ahead(S, key, x) == {y \in S : key[y] > key[x]}

\* The sequence numbers of the rows sought, by which they are ordered.
NumberOf(S) == [i \in S |-> rows[i].number]

AheadOf(i) == Ahead(Sought, NumberOf(Sought), i)

EvidenceTypeInv ==
    /\ rows \in Seq(Rows)
    /\ walk.on \in BOOLEAN
    /\ walk.on => walk \in Walks

\* A row that was there at first and has fewer rows before it than the client has
\* asked for is among those it saw: an insertion only moves rows back.
WalkInv ==
    walk.on =>
        /\ walk.began \subseteq Sought
        /\ walk.seen \subseteq Sought
        /\ AllDistinct(Sought) =>
              /\ \A i \in walk.began :
                    Cardinality(AheadOf(i)) < walk.offset => i \in walk.seen
              /\ walk.over => walk.began \subseteq walk.seen

EvidenceInv == EvidenceTypeInv /\ WalkInv

\* The rows selected are finitely many.
LEMMA SelectedFinite ==
    ASSUME rows \in Seq(Rows), NEW t, NEW c
    PROVE  /\ Selected(t, c) \subseteq 1..Len(rows)
           /\ IsFiniteSet(Selected(t, c))
           /\ Cardinality(Selected(t, c)) \in Nat
           /\ Cardinality(Selected(t, c)) <= TotalCount(t)
<1>1. DOMAIN rows = 1..Len(rows) /\ Len(rows) \in Nat
    OBVIOUS
<1>2. IsFiniteSet(1..Len(rows))
    BY <1>1, FS_Interval
<1>3. /\ Selected(t, c) \in SUBSET (1..Len(rows))
      /\ Selected(t, AnyCorridor) \in SUBSET (1..Len(rows))
      /\ Selected(t, c) \in SUBSET Selected(t, AnyCorridor)
    BY <1>1 DEF Selected
<1>4. IsFiniteSet(Selected(t, c)) /\ IsFiniteSet(Selected(t, AnyCorridor))
    BY <1>2, <1>3, FS_Subset
<1>5. Cardinality(Selected(t, c)) <= Cardinality(Selected(t, AnyCorridor))
    BY <1>3, <1>4, FS_Subset
<1> QED BY <1>3, <1>4, <1>5, FS_CardinalityType DEF TotalCount

\* A sequence of the elements of a set holds every one, once.
LEMMA SequenceComplete ==
    ASSUME NEW S, IsFiniteSet(S), NEW s \in SetToSeqs(S)
    PROVE  /\ s \in Seq(S) /\ Len(s) = Cardinality(S) /\ Cardinality(S) \in Nat
           /\ s \in [1..Cardinality(S) -> S]
           /\ \A i, j \in 1..Cardinality(S) : s[i] = s[j] => i = j
           /\ \A x \in S : \E p \in 1..Cardinality(S) : s[p] = x
<1> DEFINE n == Cardinality(S)
<1>1. n \in Nat
    BY FS_CardinalityType
<1>2. s \in [1..n -> S] /\ \A i, j \in 1..n : i # j => s[i] # s[j]
    BY DEF SetToSeqs
<1>3. IsFiniteSet(1..n) /\ Cardinality(1..n) = n
    BY <1>1, FS_Interval
<1>4. s \in Injection(1..n, S)
    BY <1>2 DEF Injection, IsInjective
<1>5. s \in Surjection(1..n, S)
    BY <1>3, <1>4, FS_Injection
<1>6. \A x \in S : \E p \in 1..n : s[p] = x
    BY <1>5 DEF Surjection
<1> HIDE DEF n
<1>7. s \in Seq(S) /\ Len(s) = n
    BY <1>1, <1>2
<1> QED BY <1>1, <1>2, <1>6, <1>7 DEF n

Descending(s, key) == \A i, j \in DOMAIN s : i < j => key[s[i]] >= key[s[j]]

\* In a descending order of different keys the element at place p has p - 1 before it.
LEMMA PlaceCounts ==
    ASSUME NEW S, IsFiniteSet(S), NEW key \in [S -> Int],
           \A x, y \in S : key[x] = key[y] => x = y,
           NEW s \in SetToSeqs(S), Descending(s, key),
           NEW p \in 1..Cardinality(S)
    PROVE  Cardinality(Ahead(S, key, s[p])) = p - 1
<1> DEFINE n == Cardinality(S)
           f == [q \in 1..(p - 1) |-> s[q]]
           A == Ahead(S, key, s[p])
<1>1. /\ n \in Nat /\ s \in [1..n -> S]
      /\ \A i, j \in 1..n : s[i] = s[j] => i = j
      /\ \A x \in S : \E q \in 1..n : s[q] = x
    BY SequenceComplete
<1>2. \A i, j \in 1..n : i < j => key[s[i]] >= key[s[j]]
    BY <1>1 DEF Descending
<1> HIDE DEF n
<1>3. p \in 1..n /\ p \in Nat /\ p - 1 \in Nat /\ \A q \in 1..(p - 1) : q \in 1..n /\ q < p
    BY <1>1 DEF n
<1>4. ASSUME NEW q \in 1..(p - 1) PROVE f[q] \in A
    <2>1. q \in 1..n /\ q < p /\ s[q] \in S /\ s[p] \in S /\ s[q] # s[p]
        BY <1>1, <1>3
    <2>2. key[s[q]] >= key[s[p]] /\ key[s[q]] # key[s[p]]
        BY <1>2, <1>3, <2>1
    <2>3. key[s[q]] > key[s[p]]
        BY <2>1, <2>2
    <2> QED BY <2>1, <2>3 DEF Ahead
<1>5. ASSUME NEW x \in A PROVE \E q \in 1..(p - 1) : f[q] = x
    <2>1. x \in S /\ key[x] > key[s[p]] /\ s[p] \in S
        BY <1>1, <1>3 DEF Ahead
    <2>2. PICK q \in 1..n : s[q] = x
        BY <1>1, <2>1
    <2>3. ~(p < q) /\ q # p
        <3>1. key[x] \in Int /\ key[s[p]] \in Int
            BY <2>1
        <3>2. p < q => key[s[p]] >= key[x]
            BY <1>2, <1>3, <2>2
        <3> QED BY <2>1, <2>2, <3>1, <3>2
    <2>4. q \in 1..(p - 1)
        BY <1>1, <1>3, <2>3
    <2> QED BY <2>2, <2>4
<1>6. \A q, r \in 1..(p - 1) : f[q] = f[r] => q = r
    BY <1>1, <1>3
<1>7. f \in Bijection(1..(p - 1), A)
    <2>1. f \in [1..(p - 1) -> A]
        BY <1>4
    <2> HIDE DEF f, A
    <2>2. f \in Injection(1..(p - 1), A)
        BY <2>1, <1>6 DEF Injection, IsInjective
    <2>3. f \in Surjection(1..(p - 1), A)
        BY <2>1, <1>5 DEF Surjection
    <2> QED BY <2>2, <2>3 DEF Bijection
<1>8. IsFiniteSet(1..(p - 1)) /\ Cardinality(1..(p - 1)) = p - 1
    <2>1. 1 \in Int /\ p - 1 \in Int /\ (1 > p - 1 => p - 1 = 0) /\ (p - 1) - 1 + 1 = p - 1
        BY <1>3
    <2>2. /\ IsFiniteSet(1..(p - 1))
          /\ Cardinality(1..(p - 1)) = IF 1 > p - 1 THEN 0 ELSE (p - 1) - 1 + 1
        BY <2>1, FS_Interval
    <2> QED BY <2>1, <2>2
<1>9. ExistsBijection(1..(p - 1), A)
    BY <1>7 DEF ExistsBijection
<1> QED BY <1>8, <1>9, FS_Bijection

\* Different keys have one descending order.
LEMMA OneOrder ==
    ASSUME NEW S, IsFiniteSet(S), NEW key \in [S -> Int],
           \A x, y \in S : key[x] = key[y] => x = y,
           NEW a \in SetToSeqs(S), NEW b \in SetToSeqs(S),
           Descending(a, key), Descending(b, key)
    PROVE  a = b
<1> DEFINE n == Cardinality(S)
<1>1. n \in Nat /\ a \in [1..n -> S] /\ b \in [1..n -> S]
    BY SequenceComplete
<1>2. ASSUME NEW p \in 1..n PROVE a[p] = b[p]
    <2>1. PICK q \in 1..n : b[q] = a[p]
        <3>1. a[p] \in S
            BY <1>1
        <3>2. \A x \in S : \E q \in 1..n : b[q] = x
            BY SequenceComplete
        <3> QED BY <3>1, <3>2
    <2>2. Cardinality(Ahead(S, key, a[p])) = p - 1
        BY PlaceCounts
    <2>3. Cardinality(Ahead(S, key, b[q])) = q - 1
        BY PlaceCounts
    <2>4. p - 1 = q - 1
        BY <2>1, <2>2, <2>3
    <2> HIDE DEF n
    <2>5. p = q
        BY <1>1, <2>4
    <2> QED BY <2>1, <2>5
<1> HIDE DEF n
<1> QED BY <1>1, <1>2

\* A page is the part of an ordering from the offset on, as long as the limit.
LEMMA PageHolds ==
    ASSUME NEW S, NEW s \in Seq(S), NEW offset \in Nat, NEW limit \in Nat \ {0}
    PROVE  /\ ToSet(Page(s, limit, offset)) \subseteq S
           /\ \A p \in 1..Len(s) : (offset < p /\ p <= offset + limit)
                  => s[p] \in ToSet(Page(s, limit, offset))
<1> DEFINE page == Page(s, limit, offset)
           m == IF offset + limit < Len(s) THEN offset + limit ELSE Len(s)
<1>1. Len(s) \in Nat /\ m \in Nat /\ m <= Len(s) /\ \A i \in 1..Len(s) : s[i] \in S
    OBVIOUS
<1>2. \A p \in 1..Len(s) : (offset < p /\ p <= offset + limit) => p <= m
    OBVIOUS
<1> HIDE DEF m
<1>3. page = [i \in 1..(m - offset) |-> s[offset + i]]
    <2>1. page = SubSeq(s, offset + 1, m)
        BY DEF m, Page
    <2>2. \A i \in 1..(m - offset) : offset + 1 + i - 1 = offset + i
        BY <1>1
    <2> QED BY <1>1, <2>1, <2>2
<1> HIDE DEF page
<1>4. DOMAIN page = 1..(m - offset) /\ \A i \in 1..(m - offset) : page[i] = s[offset + i]
    BY <1>3
<1>5. ToSet(page) = {page[i] : i \in 1..(m - offset)}
    BY <1>4 DEF ToSet
<1>6. ASSUME NEW i \in 1..(m - offset) PROVE page[i] \in S
    <2>1. offset + i \in 1..Len(s)
        BY <1>1
    <2> QED BY <1>1, <1>4, <2>1
<1>7. ASSUME NEW p \in 1..Len(s), offset < p, p <= offset + limit
      PROVE  s[p] \in ToSet(page)
    <2>1. p - offset \in 1..(m - offset) /\ offset + (p - offset) = p
        BY <1>1, <1>2, <1>7
    <2>2. page[p - offset] = s[p]
        BY <1>4, <2>1
    <2> QED BY <1>5, <2>1, <2>2
<1> QED BY <1>5, <1>6, <1>7 DEF page

\* insert_record: no row moves ahead of another, and rows that differ did so before.
LEMMA InsertKeeps ==
    ASSUME EvidenceInv, NEW t \in Tenants, NEW c \in Corridors, NEW n \in Numbers,
           InsertRecord(t, c, n)
    PROVE  EvidenceInv'
<1> DEFINE row == [tenant |-> t, corridor |-> c, number |-> n]
<1>1. row \in Rows /\ rows \in Seq(Rows) /\ rows' = Append(rows, row) /\ walk' = walk
    BY DEF InsertRecord, EvidenceInv, EvidenceTypeInv, Rows
<1> HIDE DEF row
<1>2. /\ rows' \in Seq(Rows) /\ Len(rows) \in Nat
      /\ DOMAIN rows = 1..Len(rows) /\ DOMAIN rows' = 1..(Len(rows) + 1)
      /\ \A i \in 1..Len(rows) : rows'[i] = rows[i] /\ i \in 1..(Len(rows) + 1)
    BY <1>1
<1>3. EvidenceTypeInv'
    BY <1>1, <1>2 DEF EvidenceInv, EvidenceTypeInv
<1>4. ASSUME walk.on PROVE WalkInv'
    <2>1. Sought \subseteq 1..Len(rows) /\ Sought \subseteq Sought'
        BY <1>1, <1>2 DEF Sought, Selected
    <2>2. AllDistinct(Sought)' => AllDistinct(Sought)
        BY <1>2, <2>1 DEF AllDistinct
    <2>3. IsFiniteSet(Sought)'
        <3>1. IsFiniteSet(1..(Len(rows) + 1))
            BY <1>2, FS_Interval
        <3>2. Sought' \in SUBSET (1..(Len(rows) + 1))
            BY <1>2 DEF Sought, Selected
        <3> QED BY <3>1, <3>2, FS_Subset
    <2>4. ASSUME NEW i \in walk.began, (Cardinality(AheadOf(i)) < walk.offset)'
          PROVE  Cardinality(AheadOf(i)) < walk.offset
        <3>1. i \in Sought /\ i \in 1..Len(rows)
            BY <1>4, <2>1 DEF EvidenceInv, WalkInv
        <3>2. AheadOf(i) \in SUBSET (AheadOf(i)')
            BY <1>2, <2>1, <3>1 DEF AheadOf, Ahead, NumberOf
        <3>3. AheadOf(i)' \in SUBSET Sought'
            BY DEF AheadOf, Ahead
        <3>4. IsFiniteSet(AheadOf(i)')
            BY <2>3, <3>3, FS_Subset
        <3>5. /\ Cardinality(AheadOf(i)) <= Cardinality(AheadOf(i)')
              /\ Cardinality(AheadOf(i)) \in Nat
              /\ Cardinality(AheadOf(i)') \in Nat
            BY <3>2, <3>4, FS_Subset, FS_CardinalityType
        <3>6. walk.offset \in Nat /\ walk'.offset = walk.offset
            BY <1>1, <1>4 DEF EvidenceInv, EvidenceTypeInv, Walks
        <3> DEFINE a == Cardinality(AheadOf(i))
                   b == Cardinality(AheadOf(i)')
        <3>7. b < walk.offset
            BY <2>4, <3>6
        <3> SUFFICES a < walk.offset
            OBVIOUS
        <3> HIDE DEF a, b
        <3>8. a <= b /\ a \in Nat /\ b \in Nat
            BY <3>5 DEF a, b
        <3> QED BY <3>6, <3>7, <3>8
    <2> QED BY <1>1, <1>4, <2>1, <2>2, <2>4 DEF EvidenceInv, WalkInv
<1>5. ASSUME ~walk.on PROVE WalkInv'
    BY <1>1, <1>5 DEF WalkInv
<1> QED BY <1>3, <1>4, <1>5 DEF EvidenceInv

\* The client has seen nothing yet, and asked for nothing.
LEMMA BeginKeeps ==
    ASSUME EvidenceInv, NEW t \in Tenants, NEW c \in Corridors \cup {AnyCorridor},
           NEW limit \in Limits, BeginWalk(t, c, limit)
    PROVE  EvidenceInv'
<1>1. /\ rows \in Seq(Rows) /\ rows' = rows
      /\ walk' = [on |-> TRUE, over |-> FALSE, tenant |-> t, corridor |-> c, limit |-> limit,
                  offset |-> 0, seen |-> {}, began |-> Selected(t, c)]
    BY DEF BeginWalk, EvidenceInv, EvidenceTypeInv
<1>2. Selected(t, c) \in SUBSET Nat /\ IsFiniteSet(Selected(t, c))
    BY <1>1, SelectedFinite
<1>3. walk' \in Walks
    BY <1>1, <1>2 DEF Walks
<1>4. EvidenceTypeInv'
    BY <1>1, <1>3 DEF EvidenceTypeInv
<1>5. Sought' = Selected(t, c)
    BY <1>1 DEF Sought, Selected
<1>6. ASSUME NEW i PROVE ~(Cardinality(AheadOf(i)) < walk.offset)'
    <2>1. AheadOf(i)' \in SUBSET Selected(t, c)
        BY <1>5 DEF AheadOf, Ahead
    <2>2. Cardinality(AheadOf(i)') \in Nat /\ walk'.offset = 0
        BY <1>1, <1>2, <2>1, FS_Subset, FS_CardinalityType
    <2> QED BY <2>2
<1>7. walk'.began = Sought' /\ walk'.seen = {} /\ ~walk'.over
    BY <1>1, <1>5
<1>8. WalkInv'
    BY <1>6, <1>7 DEF WalkInv
<1> QED BY <1>4, <1>8 DEF EvidenceInv

\* query_records: a row at a place inside the page is on it, one at an earlier place has
\* been seen, and past the total there is no further place.
LEMMA ReadKeeps ==
    ASSUME EvidenceInv, ReadPage
    PROVE  EvidenceInv'
<1>1. walk.on /\ walk \in Walks /\ rows \in Seq(Rows) /\ rows' = rows
    BY DEF ReadPage, EvidenceInv, EvidenceTypeInv
<1>2. /\ walk.offset \in Nat /\ walk.limit \in Nat \ {0} /\ walk.tenant \in Tenants
      /\ walk.seen \in SUBSET Nat
    <2>1. /\ walk.offset \in Nat /\ walk.limit \in Limits /\ walk.tenant \in Tenants
          /\ walk.seen \in SUBSET Nat
        BY <1>1 DEF Walks
    <2>2. walk.limit \in 1..1000
        BY <2>1, RecordsAssumption
    <2>3. walk.limit \in Nat \ {0}
        BY <2>2, SMTT(30)
    <2> QED BY <2>1, <2>3
<1> DEFINE total == TotalCount(walk.tenant)
<1>3. PICK page \in Pages(walk.tenant, walk.corridor, walk.limit, walk.offset) :
          walk' = [walk EXCEPT !.seen = @ \cup ToSet(page), !.offset = @ + walk.limit,
                               !.over = walk.offset + walk.limit >= total]
    BY DEF ReadPage
<1>4. PICK s \in Orderings(Sought) : page = Page(s, walk.limit, walk.offset)
    BY DEF Pages, Sought
<1>5. /\ IsFiniteSet(Sought) /\ Cardinality(Sought) \in Nat /\ Sought \subseteq 1..Len(rows)
      /\ Cardinality(Sought) <= total
    BY <1>1, SelectedFinite DEF Sought
<1>6. /\ s \in Seq(Sought) /\ Len(s) = Cardinality(Sought)
      /\ \A i \in Sought : \E p \in 1..Cardinality(Sought) : s[p] = i
    <2>1. s \in SetToSeqs(Sought)
        BY DEF Orderings
    <2> QED BY <1>5, <2>1, SequenceComplete
<1>7. /\ ToSet(page) \subseteq Sought
      /\ \A p \in 1..Len(s) : (walk.offset < p /\ p <= walk.offset + walk.limit)
                                  => s[p] \in ToSet(page)
    BY <1>2, <1>4, <1>6, PageHolds
<1>8. /\ walk'.seen = walk.seen \cup ToSet(page) /\ walk'.offset = walk.offset + walk.limit
      /\ walk'.over = (walk.offset + walk.limit >= total)
      /\ walk'.began = walk.began /\ walk'.tenant = walk.tenant
      /\ walk'.corridor = walk.corridor /\ walk'.on = walk.on
    BY <1>1, <1>3 DEF Walks
<1>9. EvidenceTypeInv'
    <2>1. ToSet(page) \subseteq Nat
        <3>1. 1..Len(rows) \subseteq Nat
            BY <1>1
        <3> QED BY <1>5, <1>7, <3>1
    <2>2. (walk.offset + walk.limit >= total) \in BOOLEAN /\ walk.offset + walk.limit \in Nat
        BY <1>2
    <2> HIDE DEF total
    <2>3. walk' \in Walks
        BY <1>1, <1>2, <1>3, <2>1, <2>2 DEF Walks
    <2> QED BY <1>1, <1>8, <2>3 DEF EvidenceTypeInv
<1>10. Sought' = Sought /\ \A i : AheadOf(i)' = AheadOf(i)
    BY <1>1, <1>8 DEF Sought, Selected, AheadOf, Ahead, NumberOf
<1>11. walk.began \subseteq Sought /\ walk.seen \subseteq Sought
    BY <1>1 DEF EvidenceInv, WalkInv
<1>12. ASSUME AllDistinct(Sought), NEW i \in walk.began
       PROVE  /\ Cardinality(AheadOf(i)) < walk.offset + walk.limit => i \in walk'.seen
              /\ Cardinality(AheadOf(i)) < total
    <2>1. PICK p \in 1..Cardinality(Sought) : s[p] = i
        BY <1>6, <1>11
    <2>2. \A k \in Sought : rows[k].number \in Int
        <3>1. \A k \in 1..Len(rows) : rows[k] \in Rows
            BY <1>1
        <3>2. Numbers \subseteq Int
            BY RecordsAssumption
        <3>3. \A k \in 1..Len(rows) : rows[k].number \in Int
            BY <3>1, <3>2 DEF Rows
        <3> QED BY <1>5, <3>3
    <2>3. Cardinality(AheadOf(i)) = p - 1
        <3> DEFINE key == NumberOf(Sought)
        <3>1. key \in [Sought -> Int] /\ \A x, y \in Sought : key[x] = key[y] => x = y
            BY <1>12, <2>2 DEF NumberOf, AllDistinct
        <3>2. s \in SetToSeqs(Sought) /\ \A q \in DOMAIN s : s[q] \in Sought
            BY <1>6 DEF Orderings
        <3>3. Descending(s, key)
            BY <3>2 DEF Orderings, Descending, NumberOf
        <3> HIDE DEF key
        <3>4. Cardinality(Ahead(Sought, key, s[p])) = p - 1
            BY <1>5, <3>1, <3>2, <3>3, PlaceCounts
        <3> QED BY <2>1, <3>4 DEF AheadOf, key
    <2>4. p \in Nat /\ p <= Cardinality(Sought) /\ total \in Nat
        BY <1>5, <2>1, SelectedFinite, <1>1 DEF TotalCount
    <2>5. p - 1 < total
        BY <1>5, <2>4
    <2>6. p - 1 < walk.offset => i \in walk.seen
        BY <1>1, <1>12, <2>3 DEF EvidenceInv, WalkInv
    <2>7. ~(p - 1 < walk.offset) /\ p - 1 < walk.offset + walk.limit => i \in ToSet(page)
        <3>1. ~(p - 1 < walk.offset) /\ p - 1 < walk.offset + walk.limit
                  => walk.offset < p /\ p <= walk.offset + walk.limit
            BY <1>2, <2>4
        <3> QED BY <1>6, <1>7, <2>1, <3>1
    <2> QED BY <1>8, <2>3, <2>5, <2>6, <2>7
<1>13. WalkInv'
    <2>1. AllDistinct(Sought)' = AllDistinct(Sought)
        BY <1>1, <1>10 DEF AllDistinct
    <2>2. ASSUME AllDistinct(Sought), walk'.over, NEW i \in walk.began
          PROVE  i \in walk'.seen
        <3>1. AheadOf(i) \in SUBSET Sought
            BY DEF AheadOf, Ahead
        <3>2. Cardinality(AheadOf(i)) \in Nat
            BY <1>5, <3>1, FS_Subset, FS_CardinalityType
        <3>3. total \in Nat /\ walk.offset + walk.limit >= total
            BY <1>1, <1>8, <2>2, SelectedFinite DEF TotalCount
        <3>4. Cardinality(AheadOf(i)) < total
            BY <1>12, <2>2
        <3> HIDE DEF total
        <3>5. Cardinality(AheadOf(i)) < walk.offset + walk.limit
            BY <1>2, <3>2, <3>3, <3>4
        <3> QED BY <1>12, <2>2, <3>5
    <2>3. walk'.began \subseteq Sought' /\ walk'.seen \subseteq Sought'
        BY <1>7, <1>8, <1>10, <1>11
    <2> QED BY <1>8, <1>10, <1>12, <2>1, <2>2, <2>3 DEF WalkInv
<1> QED BY <1>9, <1>13 DEF EvidenceInv

\* The invariant of the evidence rows and of a walk over their pages.
THEOREM EvidenceInvariant == EvidenceSpec => []EvidenceInv
<1>1. EvidenceInit => EvidenceInv
    BY DEF EvidenceInit, EvidenceInv, EvidenceTypeInv, WalkInv, NoWalk
<1>2. EvidenceInv /\ [EvidenceNext]_evidenceVars => EvidenceInv'
    <2> SUFFICES ASSUME EvidenceInv, [EvidenceNext]_evidenceVars PROVE EvidenceInv'
        OBVIOUS
    <2>1. CASE UNCHANGED evidenceVars
        BY <2>1 DEF evidenceVars, EvidenceInv, EvidenceTypeInv, WalkInv, Sought, Selected,
                    AllDistinct, AheadOf, Ahead, NumberOf
    <2>2. ASSUME NEW t \in Tenants, NEW c \in Corridors, NEW n \in Numbers,
                 InsertRecord(t, c, n)
          PROVE  EvidenceInv'
        BY <2>2, InsertKeeps
    <2>3. ASSUME NEW t \in Tenants, NEW c \in Corridors \cup {AnyCorridor},
                 NEW limit \in Limits, BeginWalk(t, c, limit)
          PROVE  EvidenceInv'
        BY <2>3, BeginKeeps
    <2>4. CASE ReadPage
        BY <2>4, ReadKeeps
    <2> QED BY <2>1, <2>2, <2>3, <2>4 DEF EvidenceNext
<1> QED BY <1>1, <1>2, PTL DEF EvidenceSpec

\* For any number of rows, tenants, page sizes and concurrent insertions: a finished walk
\* over the pages has seen every row that was there when it began, and no other tenant's,
\* if no two of the rows share a sequence number (query_records, count_records).
THEOREM WalkAlwaysComplete == EvidenceSpec => []PagesComplete
<1>1. EvidenceInv => PagesComplete
    BY DEF EvidenceInv, WalkInv, PagesComplete, Sought, AllDistinct
<1> QED BY <1>1, EvidenceInvariant, PTL

-----------------------------------------------------------------------------
(* The tenant databases: the two storage backends.                         *)

Records == [tenant : Owners, record : RecordIds, kind : Kinds, at : Instants, zone : Zones,
            version : Nat]
Items == [key : Seq(STRING), rec : Records]

\* A name without a colon has one part.
Plain(t, r) == Len(t) = 1 /\ Len(r) = 1

BackendTypeInv ==
    /\ stores \in Nat
    /\ cache \in Seq(Items)
    /\ \A k \in DOMAIN sqlite :
          sqlite[k] \in Records /\ k = PrimaryKey(sqlite[k].tenant, sqlite[k].record)

\* The dictionary has one item under each key, and its key is made of its names.
KeysDiffer(d) == \A i, j \in DOMAIN d : d[i].key = d[j].key => i = j
ItemInv == KeysDiffer(cache) /\ \A x \in ToSet(cache) : x.key = CacheKey(x.rec.tenant, x.rec.record)

\* Under names without a colon both backends hold the same.
SameInv == \A t \in Owners, r \in RecordIds : Plain(t, r) => SqliteGet(t, r) = CacheGet(t, r)

BackendInv == BackendTypeInv /\ ItemInv /\ SameInv

\* The parts of a key of two plain names are the names.
LEMMA KeyParts ==
    ASSUME NEW t \in Seq(STRING), NEW r \in Seq(STRING), Len(t) = 1, Len(r) = 1
    PROVE  (t \o r)[1] = t[1] /\ (t \o r)[2] = r[1]
<1>1. \A i \in 1..(Len(t) + Len(r)) :
          (t \o r)[i] = IF i <= Len(t) THEN t[i] ELSE r[i - Len(t)]
    BY ConcatProperties
<1>2. 1 \in 1..(Len(t) + Len(r)) /\ 1 <= Len(t)
    OBVIOUS
<1>3. 2 \in 1..(Len(t) + Len(r)) /\ ~(2 <= Len(t)) /\ 2 - Len(t) = 1
    OBVIOUS
<1>4. (t \o r)[1] = t[1] /\ (t \o r)[2] = r[2 - Len(t)]
    BY <1>1, <1>2, <1>3, Zenon
<1> QED BY <1>3, <1>4, Zenon

\* The key of two plain names can be split in one way only.
LEMMA PlainKeys ==
    ASSUME NEW t \in Owners, NEW r \in RecordIds, NEW u \in Owners, NEW v \in RecordIds,
           Plain(t, r), CacheKey(t, r) = CacheKey(u, v)
    PROVE  t = u /\ r = v
<1>1. t \in Seq(STRING) /\ r \in Seq(STRING) /\ u \in Seq(STRING) /\ v \in Seq(STRING)
    BY PartsAssumption
<1>2. t \o r = u \o v
    BY DEF CacheKey
<1>3. Len(u) # 0 /\ Len(v) # 0
    BY <1>1, PartsAssumption
<1>4. Len(u) + Len(v) = 2
    <2>1. Len(t \o r) = Len(t) + Len(r) /\ Len(u \o v) = Len(u) + Len(v)
        BY <1>1, ConcatProperties
    <2> QED BY <1>2, <2>1 DEF Plain
<1>5. Len(u) = 1 /\ Len(v) = 1
    <2> DEFINE m == Len(u)
               n == Len(v)
    <2>1. m \in Nat /\ n \in Nat /\ m # 0 /\ n # 0 /\ m + n = 2
        BY <1>1, <1>3, <1>4
    <2> SUFFICES m = 1 /\ n = 1
        OBVIOUS
    <2> HIDE DEF m, n
    <2> QED BY <2>1
<1>6. (t \o r)[1] = t[1] /\ (t \o r)[2] = r[1]
    BY <1>1, KeyParts DEF Plain
<1>7. (u \o v)[1] = u[1] /\ (u \o v)[2] = v[1]
    BY <1>1, <1>5, KeyParts
<1>8. t[1] = u[1] /\ r[1] = v[1]
    BY <1>2, <1>6, <1>7
<1> QED BY <1>1, <1>5, <1>8 DEF Plain

\* An assignment replaces the item under its key, or adds one.
LEMMA AssignedHolds ==
    ASSUME NEW d \in Seq(Items), KeysDiffer(d), NEW item \in Items
    PROVE  /\ Assigned(d, item.key, item.rec) \in Seq(Items)
           /\ KeysDiffer(Assigned(d, item.key, item.rec))
           /\ ToSet(Assigned(d, item.key, item.rec)) =
                 {x \in ToSet(d) : x.key # item.key} \cup {item}
<1> DEFINE key == item.key
           rec == item.rec
           I == {i \in 1..Len(d) : d[i].key = key}
           e == Assigned(d, key, rec)
<1>1. item = [key |-> key, rec |-> rec] /\ Len(d) \in Nat /\ DOMAIN d = 1..Len(d)
    BY DEF Items
<1>2. \A i \in 1..Len(d) : d[i] \in Items
    OBVIOUS
<1>3. e = LET i == IF I # {} THEN Min(I) ELSE 0
          IN IF i = 0 THEN Append(d, item) ELSE [d EXCEPT ![i].rec = rec]
    BY <1>1 DEF Assigned, SelectInSeq
<1>4. CASE I = {}
    <2>1. e = Append(d, item)
        BY <1>3, <1>4
    <2>2. /\ e \in Seq(Items) /\ DOMAIN e = 1..(Len(d) + 1)
          /\ e[Len(d) + 1] = item /\ \A i \in 1..Len(d) : e[i] = d[i] /\ e[i].key # key
        BY <1>1, <1>4, <2>1
    <2>3. \A i \in 1..(Len(d) + 1) : i \in 1..Len(d) \/ i = Len(d) + 1
        BY <1>1
    <2>4. 1..Len(d) \subseteq 1..(Len(d) + 1) /\ Len(d) + 1 \in 1..(Len(d) + 1)
        BY <1>1
    <2> HIDE DEF e, I
    <2>5. KeysDiffer(e)
        BY <1>1, <2>2, <2>3 DEF KeysDiffer
    <2>6. ToSet(e) = {x \in ToSet(d) : x.key # key} \cup {item}
        BY <1>1, <2>2, <2>3, <2>4 DEF ToSet
    <2> QED BY <2>2, <2>5, <2>6 DEF e
<1>5. CASE I # {}
    <2>1. \A i, j \in I : i = j
        BY <1>1 DEF KeysDiffer
    <2>2. PICK i \in I : Min(I) = i
        <3>1. PICK i \in I : TRUE
            BY <1>5
        <3>2. \A y \in I : i <= y
            BY <1>1, <2>1, <3>1
        <3>3. Min(I) \in I
            <4> HIDE DEF I
            <4> QED BY <3>1, <3>2 DEF Min
        <3> QED BY <3>3
    <2>3. i \in 1..Len(d) /\ i # 0 /\ d[i].key = key /\ d[i] \in Items
        BY <1>1, <1>2
    <2>4. e = [d EXCEPT ![i].rec = rec]
        <3> HIDE DEF e, I
        <3> QED BY <1>3, <1>5, <2>2, <2>3
    <2>5. [d[i] EXCEPT !.rec = rec] = item
        BY <1>1, <2>3 DEF Items
    <2> HIDE DEF e, I
    <2>6. /\ e \in Seq(Items) /\ DOMAIN e = 1..Len(d) /\ e[i] = item
          /\ \A j \in 1..Len(d) : j # i => e[j] = d[j]
        BY <1>1, <2>3, <2>4, <2>5
    <2>7. \A j \in 1..Len(d) : j # i => d[j].key # key
        BY <2>1 DEF I
    <2>8. KeysDiffer(e)
        BY <1>1, <2>3, <2>6, <2>7 DEF KeysDiffer
    <2>9. ToSet(e) = {x \in ToSet(d) : x.key # key} \cup {item}
        BY <1>1, <2>3, <2>6, <2>7 DEF ToSet
    <2> QED BY <2>6, <2>8, <2>9 DEF e
<1> QED BY <1>4, <1>5

\* get_record of the dictionary, by its items.
LEMMA CacheGetIs ==
    ASSUME cache \in Seq(Items), NEW t, NEW r
    PROVE  CacheGet(t, r) = {x.rec : x \in {y \in ToSet(cache) : y.key = CacheKey(t, r)}}
BY DEF CacheGet, ToSet

\* store_record
LEMMA StoreKeeps ==
    ASSUME BackendInv, NEW t \in Owners, NEW r \in RecordIds, NEW kind \in Kinds,
           NEW at \in Instants, NEW zone \in Zones, StoreRecord(t, r, kind, at, zone)
    PROVE  BackendInv'
<1> DEFINE rec == Record(t, r, kind, at, zone)
           item == [key |-> CacheKey(t, r), rec |-> rec]
           pk == PrimaryKey(t, r)
<1>1. /\ stores \in Nat /\ cache \in Seq(Items) /\ KeysDiffer(cache)
      /\ \A k \in DOMAIN sqlite :
            sqlite[k] \in Records /\ k = PrimaryKey(sqlite[k].tenant, sqlite[k].record)
    BY DEF BackendInv, BackendTypeInv, ItemInv
<1>2. rec \in Records /\ rec.tenant = t /\ rec.record = r
    BY <1>1 DEF Record, Records
<1>3. CacheKey(t, r) \in Seq(STRING)
    <2>1. t \in Seq(STRING) /\ r \in Seq(STRING)
        BY PartsAssumption
    <2> QED BY <2>1, ConcatProperties DEF CacheKey
<1>4. /\ stores' = stores + 1
      /\ sqlite' = [k \in DOMAIN sqlite \cup {pk} |-> IF k = pk THEN rec ELSE sqlite[k]]
      /\ cache' = Assigned(cache, CacheKey(t, r), rec)
    BY DEF StoreRecord
<1> HIDE DEF rec
<1>5. item \in Items /\ item.key = CacheKey(t, r) /\ item.rec = rec
    BY <1>2, <1>3 DEF Items
<1>6. /\ cache' \in Seq(Items) /\ KeysDiffer(cache')
      /\ ToSet(cache') = {x \in ToSet(cache) : x.key # CacheKey(t, r)} \cup {item}
    BY <1>1, <1>4, <1>5, AssignedHolds
<1> HIDE DEF item
<1>7. /\ DOMAIN sqlite' = DOMAIN sqlite \cup {pk} /\ sqlite'[pk] = rec
      /\ \A k \in DOMAIN sqlite : k # pk => sqlite'[k] = sqlite[k]
    BY <1>4
<1> HIDE DEF pk
<1>8. BackendTypeInv'
    BY <1>1, <1>2, <1>4, <1>6, <1>7 DEF BackendTypeInv, pk
<1>9. ItemInv'
    BY <1>2, <1>5, <1>6 DEF BackendInv, ItemInv
<1>10. SameInv'
    <2> SUFFICES ASSUME NEW u \in Owners, NEW v \in RecordIds, Plain(u, v)
                 PROVE  SqliteGet(u, v)' = CacheGet(u, v)'
        BY DEF SameInv
    <2>1. CacheGet(u, v)' = {x.rec : x \in {y \in ToSet(cache') : y.key = CacheKey(u, v)}}
        BY <1>6 DEF CacheGet, ToSet
    <2>2. CacheGet(u, v) = {x.rec : x \in {y \in ToSet(cache) : y.key = CacheKey(u, v)}}
        BY <1>1, CacheGetIs
    <2>3. SqliteGet(u, v)' = {sqlite'[k] : k \in DOMAIN sqlite' \cap {PrimaryKey(u, v)}}
        BY DEF SqliteGet, PrimaryKey
    <2>4. CASE u = t /\ v = r
        <3>1. {y \in ToSet(cache') : y.key = CacheKey(u, v)} = {item}
            BY <1>5, <1>6, <2>4
        <3>2. CacheGet(u, v)' = {rec}
            BY <1>5, <2>1, <3>1
        <3>3. SqliteGet(u, v)' = {rec}
            BY <1>7, <2>3, <2>4 DEF pk
        <3> QED BY <3>2, <3>3
    <2>5. CASE ~(u = t /\ v = r)
        <3>1. CacheKey(u, v) # CacheKey(t, r)
            BY <2>5, PlainKeys
        <3>2. {y \in ToSet(cache') : y.key = CacheKey(u, v)}
                  = {y \in ToSet(cache) : y.key = CacheKey(u, v)}
            BY <1>5, <1>6, <3>1
        <3>3. PrimaryKey(u, v) # pk
            BY <2>5 DEF pk, PrimaryKey
        <3>4. SqliteGet(u, v)' = SqliteGet(u, v)
            BY <1>7, <2>3, <3>3 DEF SqliteGet
        <3>5. SqliteGet(u, v) = CacheGet(u, v)
            BY DEF BackendInv, SameInv
        <3> QED BY <2>1, <2>2, <3>2, <3>4, <3>5
    <2> QED BY <2>4, <2>5
<1> QED BY <1>8, <1>9, <1>10 DEF BackendInv

\* The invariant of the two backends.
THEOREM BackendInvariant == BackendSpec => []BackendInv
<1>1. BackendInit => BackendInv
    BY DEF BackendInit, BackendInv, BackendTypeInv, ItemInv, KeysDiffer, SameInv,
           SqliteGet, CacheGet, ToSet
<1>2. BackendInv /\ [BackendNext]_backendVars => BackendInv'
    <2> SUFFICES ASSUME BackendInv, [BackendNext]_backendVars PROVE BackendInv'
        OBVIOUS
    <2>1. CASE UNCHANGED backendVars
        <3>1. sqlite' = sqlite /\ cache' = cache /\ stores' = stores
            BY <2>1 DEF backendVars
        <3>2. BackendTypeInv'
            BY <3>1 DEF BackendInv, BackendTypeInv, PrimaryKey
        <3>3. ItemInv'
            BY <3>1 DEF BackendInv, ItemInv, KeysDiffer, CacheKey
        <3>4. SameInv'
            <4>1. \A t, r : SqliteGet(t, r)' = SqliteGet(t, r)
                BY <3>1 DEF SqliteGet, PrimaryKey
            <4>2. \A t, r : CacheGet(t, r)' = CacheGet(t, r)
                BY <3>1 DEF CacheGet, CacheKey
            <4> QED BY <4>1, <4>2 DEF BackendInv, SameInv
        <3> QED BY <3>2, <3>3, <3>4 DEF BackendInv
    <2>2. ASSUME NEW t \in Owners, NEW r \in RecordIds, NEW k \in Kinds, NEW at \in Instants,
                 NEW z \in Zones, StoreRecord(t, r, k, at, z)
          PROVE  BackendInv'
        BY <2>2, StoreKeeps
    <2> QED BY <2>1, <2>2 DEF BackendNext
<1> QED BY <1>1, <1>2, PTL DEF BackendSpec

\* Of records whose times are of one zone both orders are the same.
LEMMA OrdersAgree ==
    ASSUME NEW S, IsFiniteSet(S), \A x \in S : x.zone \in Int /\ x.at \in Int,
           \A x, y \in S : x.zone = y.zone
    PROVE  NewestFirst(S, LocalTime(S)) = NewestFirst(S, Instant(S))
<1>1. \A x, y \in S : LocalTime(S)[x] >= LocalTime(S)[y] <=> Instant(S)[x] >= Instant(S)[y]
    BY DEF LocalTime, Instant
<1>2. ASSUME NEW s \in SetToSeqs(S) PROVE \A i \in DOMAIN s : s[i] \in S
    BY <1>2, SequenceComplete
<1> QED BY <1>1, <1>2 DEF NewestFirst

\* Of records with different times there is one order.
LEMMA OneAnswer ==
    ASSUME NEW S, IsFiniteSet(S), \A x \in S : x.at \in Int,
           \A x, y \in S : x.at = y.at => x = y,
           NEW a \in NewestFirst(S, Instant(S)), NEW b \in NewestFirst(S, Instant(S))
    PROVE  a = b
<1> DEFINE key == Instant(S)
<1>1. key \in [S -> Int] /\ \A x, y \in S : key[x] = key[y] => x = y
    BY DEF Instant
<1> HIDE DEF key
<1>2. ASSUME NEW s \in NewestFirst(S, key) PROVE s \in SetToSeqs(S) /\ Descending(s, key)
    BY DEF NewestFirst, Descending
<1>3. a \in NewestFirst(S, key) /\ b \in NewestFirst(S, key)
    BY DEF key
<1> QED BY <1>1, <1>2, <1>3, OneOrder

\* The dictionary holds finitely many records.
LEMMA StoredFinite ==
    ASSUME cache \in Seq(Items)
    PROVE  IsFiniteSet({cache[i].rec : i \in DOMAIN cache})
<1> DEFINE n == Len(cache)
           T == {cache[i].rec : i \in DOMAIN cache}
           f == [i \in 1..n |-> cache[i].rec]
<1>1. n \in Nat /\ DOMAIN cache = 1..n
    OBVIOUS
<1>2. f \in [1..n -> T] /\ \A x \in T : \E i \in 1..n : f[i] = x
    BY <1>1
<1>3. IsFiniteSet(1..n)
    BY <1>1, FS_Interval
<1> HIDE DEF f, T
<1>4. f \in Surjection(1..n, T)
    BY <1>2 DEF Surjection
<1>5. IsFiniteSet(T)
    BY <1>3, <1>4, FS_Surjection
<1> QED BY <1>5 DEF T

\* For any names, kinds, times, limits and number of calls: both backends answer every
\* get under names without a colon alike, and a query over comparable rows has one and
\* the same answer, whatever else is stored (StorageBackend).
THEOREM BackendsAlwaysAgree == BackendSpec => []BackendsAgree
<1>1. ASSUME BackendInv PROVE BackendsAgree
    <2>1. cache \in Seq(Items) /\ ToSet(cache) \subseteq Items
        BY <1>1 DEF BackendInv, BackendTypeInv, ToSet
    <2>2. ASSUME NEW t \in Owners, NEW k \in Kinds, NEW x \in CacheRows(t, k), Plain(x.tenant, x.record)
          PROVE  x \in SqliteRows(t, k)
        <3>1. PICK y \in ToSet(cache) : y.rec = x
            BY <2>2 DEF CacheRows, ToSet
        <3>2. x.tenant \in Owners /\ x.record \in RecordIds
            BY <2>1, <3>1 DEF Items, Records
        <3>3. y.key = CacheKey(x.tenant, x.record)
            BY <1>1, <3>1 DEF BackendInv, ItemInv
        <3>4. x \in CacheGet(x.tenant, x.record)
            BY <2>1, <3>1, <3>3, CacheGetIs
        <3>5. x \in SqliteGet(x.tenant, x.record)
            BY <1>1, <2>2, <3>2, <3>4 DEF BackendInv, SameInv
        <3> QED BY <2>2, <3>5 DEF SqliteGet, SqliteRows, CacheRows
    <2>3. ASSUME NEW t \in Owners, NEW k \in Kinds, NEW x \in SqliteRows(t, k), Plain(x.tenant, x.record)
          PROVE  x \in CacheRows(t, k)
        <3>1. PICK j \in DOMAIN sqlite : sqlite[j] = x
            BY <2>3 DEF SqliteRows
        <3>2. x.tenant \in Owners /\ x.record \in RecordIds /\ j = PrimaryKey(x.tenant, x.record)
            BY <1>1, <3>1 DEF BackendInv, BackendTypeInv, Records
        <3>3. x \in SqliteGet(x.tenant, x.record)
            BY <3>1, <3>2 DEF SqliteGet
        <3>4. x \in CacheGet(x.tenant, x.record)
            BY <1>1, <2>3, <3>2, <3>3 DEF BackendInv, SameInv
        <3> QED BY <2>3, <3>4 DEF CacheGet, CacheRows, SqliteRows
    <2>4. ASSUME NEW t \in Owners, NEW k \in Kinds, NEW limit \in Limits,
                 Comparable(SqliteRows(t, k) \cup CacheRows(t, k))
          PROVE  /\ SqliteQuery(t, k, limit) = CacheQuery(t, k, limit)
                 /\ \A a, b \in CacheQuery(t, k, limit) : a = b
        <3> DEFINE S == CacheRows(t, k)
        <3>1. SqliteRows(t, k) = S
            BY <2>2, <2>3, <2>4 DEF Comparable, Plain
        <3>2. /\ \A x \in S : x.zone \in Int /\ x.at \in Int
              /\ \A x, y \in S : x.zone = y.zone /\ (x.at = y.at => x = y)
            <4>1. \A x \in S : x \in Records
                BY <2>1 DEF CacheRows, Items, ToSet
            <4>2. \A x \in S : x.zone \in Zones /\ x.at \in Instants
                BY <4>1 DEF Records
            <4>3. \A x \in S : x.zone \in Int /\ x.at \in Int
                <5> HIDE DEF S
                <5> QED BY <4>2, RecordsAssumption
            <4>4. \A x, y \in S : x.zone = y.zone /\ (x.at = y.at => x = y)
                BY <2>4 DEF Comparable
            <4> QED BY <4>3, <4>4
        <3>3. IsFiniteSet(S)
            <4> DEFINE stored == {cache[i].rec : i \in DOMAIN cache}
            <4>1. S \in SUBSET stored
                BY DEF CacheRows
            <4> QED BY <2>1, <4>1, StoredFinite, FS_Subset
        <3>4. /\ SqliteQuery(t, k, limit) = {Page(s, limit, 0) : s \in NewestFirst(S, LocalTime(S))}
              /\ CacheQuery(t, k, limit) = {Page(s, limit, 0) : s \in NewestFirst(S, Instant(S))}
            BY <3>1 DEF SqliteQuery, CacheQuery
        <3> HIDE DEF S
        <3>5. NewestFirst(S, LocalTime(S)) = NewestFirst(S, Instant(S))
            BY <3>2, <3>3, OrdersAgree
        <3>6. \A a, b \in NewestFirst(S, Instant(S)) : a = b
            BY <3>2, <3>3, OneAnswer
        <3> QED BY <3>4, <3>5, <3>6
    <2> QED BY <1>1, <2>4 DEF BackendsAgree, BackendInv, SameInv, Plain
<1> QED BY <1>1, BackendInvariant, PTL
-----------------------------------------------------------------------------
(* The ledger and the answers of the telemetry endpoints.                  *)

Observation == [msg : Messages, id : Nat]

\* A handler past its first check works on a message, and the records of the ledger are
\* numbered in order.
TypeInv ==
    /\ step \in {"idle", "claim", "append", "save"}
    /\ step # "idle" => handler \in Messages
    /\ ledger \in Seq(Observation)
    /\ \A i \in 1..Len(ledger) : ledger[i].id = i
    /\ \A c \in DOMAIN seqs : seqs[c] \in Nat
    /\ crashes \in Nat

\* The counter of a recorded observation has reached its number.
CoveredInv ==
    \A i \in 1..Len(ledger) :
        /\ Counter(ledger[i].msg) \in DOMAIN seqs
        /\ ledger[i].msg.seq <= seqs[Counter(ledger[i].msg)]

\* Between the claim and the record the number is claimed and not yet in the ledger;
\* after the record it is the last of the ledger.
ClaimedInv ==
    /\ step = "append" =>
           /\ Counter(handler) \in DOMAIN seqs
           /\ seqs[Counter(handler)] = handler.seq
           /\ \A i \in 1..Len(ledger) :
                  Counter(ledger[i].msg) = Counter(handler) => ledger[i].msg.seq < handler.seq
    /\ step = "save" => Len(ledger) > 0 /\ ledger[Len(ledger)].msg = handler

\* A saved response names a record of the request it was saved for.
SavedInv ==
    \A slot \in DOMAIN idem :
        /\ idem[slot].resp \in 1..Len(ledger)
        /\ ledger[idem[slot].resp].msg = idem[slot].fp

\* Unless something failed, the last number of a counter is recorded or about to be.
CompleteInv ==
    crashes = 0 =>
        \A c \in DOMAIN seqs :
            \/ \E i \in 1..Len(ledger) :
                   Counter(ledger[i].msg) = c /\ ledger[i].msg.seq = seqs[c]
            \/ step = "append" /\ Counter(handler) = c

IInv == TypeInv /\ CoveredInv /\ ClaimedInv /\ SavedInv /\ CompleteInv
            /\ RecordedOnceInOrder /\ AnswersTruthful

-----------------------------------------------------------------------------
(* Parts of a step.                                                        *)

\* Nothing is written or answered before the first message.
LEMMA InitInv == Init => IInv
<1> SUFFICES ASSUME Init PROVE IInv
  OBVIOUS
<1>1. DOMAIN <<>> = {} /\ Len(<<>>) = 0 /\ <<>> \in Seq(Observation)
  OBVIOUS
<1>2. TypeInv
  BY <1>1 DEF Init, TypeInv
<1>3. CoveredInv /\ ClaimedInv /\ SavedInv /\ CompleteInv
  BY <1>1 DEF Init, CoveredInv, ClaimedInv, SavedInv, CompleteInv
<1>4. RecordedOnceInOrder /\ AnswersTruthful
  BY <1>1 DEF Init, RecordedOnceInOrder, AnswersTruthful, AcceptedIsRecorded,
              ReplayMeansRecorded
<1> QED
  BY <1>2, <1>3, <1>4 DEF IInv

\* An answer that is true when it is given keeps all answers true.
LEMMA AnswerKeeps ==
    ASSUME IInv, ledger' = ledger, crashes' = 0 => crashes = 0,
           NEW m, NEW status, NEW id, Answer(m, status, id),
           status = "accepted" =>
               \E i \in 1..Len(ledger) : ledger[i].id = id /\ ledger[i].msg = m,
           status = "replay" /\ crashes = 0 =>
               \E i \in 1..Len(ledger) :
                   Counter(ledger[i].msg) = Counter(m) /\ ledger[i].msg.seq >= m.seq
    PROVE  AnswersTruthful'
<1> DEFINE r0 == [msg |-> m, status |-> status, id |-> id]
<1>1. replies' = replies \cup {r0} /\ r0.msg = m /\ r0.status = status /\ r0.id = id
  BY DEF Answer
<1> HIDE DEF r0
<1>2. AcceptedIsRecorded'
  BY <1>1 DEF IInv, AnswersTruthful, AcceptedIsRecorded
<1>3. ReplayMeansRecorded'
  <2> SUFFICES ASSUME NEW r \in replies', r.status = "replay", crashes = 0
               PROVE  \E i \in 1..Len(ledger) :
                          Counter(ledger[i].msg) = Counter(r.msg) /\ ledger[i].msg.seq >= r.msg.seq
    BY DEF ReplayMeansRecorded
  <2>1. CASE r \in replies
    BY <2>1 DEF IInv, AnswersTruthful, ReplayMeansRecorded
  <2>2. CASE r = r0
    BY <1>1, <2>2
  <2> QED
    BY <1>1, <2>1, <2>2
<1> QED
  BY <1>2, <1>3 DEF AnswersTruthful

\* Once the handler is done, nothing is claimed and unrecorded unless something failed.
LEMMA IdleKeeps ==
    ASSUME IInv, step' = "idle", ledger' = ledger, seqs' = seqs, crashes' \in Nat,
           crashes' = 0 => crashes = 0 /\ step # "append"
    PROVE  TypeInv' /\ CoveredInv' /\ ClaimedInv' /\ CompleteInv' /\ RecordedOnceInOrder'
<1>1. TypeInv'
  BY DEF IInv, TypeInv
<1>2. CoveredInv' /\ ClaimedInv'
  BY DEF IInv, CoveredInv, ClaimedInv
<1>3. CompleteInv'
  BY DEF IInv, CompleteInv
<1>4. RecordedOnceInOrder'
  BY DEF IInv, RecordedOnceInOrder
<1> QED
  BY <1>1, <1>2, <1>3, <1>4

\* What an appended record leaves as it was.
LEMMA AppendFacts ==
    ASSUME NEW S, NEW s \in Seq(S), NEW x \in S
    PROVE  /\ Append(s, x) \in Seq(S) /\ Len(Append(s, x)) = Len(s) + 1
           /\ Len(s) \in Nat /\ Append(s, x)[Len(s) + 1] = x
           /\ \A i \in 1..Len(s) : Append(s, x)[i] = s[i] /\ i \in 1..Len(Append(s, x))
           /\ \A i \in 1..Len(Append(s, x)) : i \in 1..Len(s) \/ i = Len(s) + 1
OBVIOUS

-----------------------------------------------------------------------------
(* One lemma for each step of the handler.                                 *)

\* The answers given before the first write.
LEMMA EarlyAnswer ==
    ASSUME IInv, NEW m \in Messages, RejectConflict(m) \/ ReplayCached(m) \/ RejectSignature(m)
    PROVE  IInv'
<1>1. /\ step = "idle" /\ step' = "idle" /\ ledger' = ledger /\ seqs' = seqs /\ idem' = idem
      /\ crashes' = crashes
  BY DEF RejectConflict, ReplayCached, RejectSignature, Answer
<1>2. TypeInv' /\ CoveredInv' /\ ClaimedInv' /\ CompleteInv' /\ RecordedOnceInOrder'
  BY <1>1, IdleKeeps DEF IInv, TypeInv
<1>3. SavedInv'
  BY <1>1 DEF IInv, SavedInv
<1>4. AnswersTruthful'
  <2>1. CASE RejectConflict(m) \/ RejectSignature(m)
    BY <1>1, <2>1, AnswerKeeps DEF RejectConflict, RejectSignature
  <2>2. CASE ReplayCached(m)
    <3> DEFINE id == idem[Slot(m)].resp
    <3>1. Slot(m) \in DOMAIN idem /\ idem[Slot(m)].fp = m /\ Answer(m, "accepted", id)
      BY <2>2 DEF ReplayCached, Saved
    <3>2. id \in 1..Len(ledger) /\ ledger[id].msg = m /\ ledger[id].id = id
      BY <3>1 DEF IInv, SavedInv, TypeInv
    <3> HIDE DEF id
    <3> QED
      BY <1>1, <3>1, <3>2, AnswerKeeps
  <2> QED
    BY <2>1, <2>2
<1> QED
  BY <1>2, <1>3, <1>4 DEF IInv

\* A delivery that passes the checks.
LEMMA ReceiveKeeps ==
    ASSUME IInv, NEW m \in Messages, Receive(m)
    PROVE  IInv'
<1>1. /\ step = "idle" /\ step' = "claim" /\ handler' = m /\ ledger' = ledger /\ seqs' = seqs
      /\ idem' = idem /\ crashes' = crashes /\ replies' = replies
  BY DEF Receive
<1>2. TypeInv'
  BY <1>1 DEF IInv, TypeInv
<1>3. CoveredInv' /\ ClaimedInv' /\ SavedInv'
  BY <1>1 DEF IInv, CoveredInv, ClaimedInv, SavedInv
<1>4. CompleteInv'
  BY <1>1 DEF IInv, CompleteInv
<1>5. RecordedOnceInOrder' /\ AnswersTruthful'
  BY <1>1 DEF IInv, RecordedOnceInOrder, AnswersTruthful, AcceptedIsRecorded,
              ReplayMeansRecorded
<1> QED
  BY <1>2, <1>3, <1>4, <1>5 DEF IInv

\* A refused claim: its counter has passed the number, and what passed it is recorded
\* unless something failed.
LEMMA RejectReplayKeeps ==
    ASSUME IInv, RejectReplay
    PROVE  IInv'
<1>1. /\ step = "claim" /\ step' = "idle" /\ ledger' = ledger /\ seqs' = seqs /\ idem' = idem
      /\ crashes' = crashes /\ Answer(handler, "replay", NoId)
  BY DEF RejectReplay, Answer
<1>2. TypeInv' /\ CoveredInv' /\ ClaimedInv' /\ CompleteInv' /\ RecordedOnceInOrder'
  BY <1>1, IdleKeeps DEF IInv, TypeInv
<1>3. SavedInv'
  BY <1>1 DEF IInv, SavedInv
<1>4. /\ handler.seq \in Nat /\ Counter(handler) \in DOMAIN seqs
      /\ seqs[Counter(handler)] \in Nat /\ handler.seq <= seqs[Counter(handler)]
  BY <1>1, IngestAssumption DEF IInv, TypeInv, RejectReplay, Store!Newer
<1>5. crashes = 0 => \E i \in 1..Len(ledger) :
          Counter(ledger[i].msg) = Counter(handler) /\ ledger[i].msg.seq >= handler.seq
  BY <1>1, <1>4 DEF IInv, CompleteInv
<1>6. AnswersTruthful'
  BY <1>1, <1>5, AnswerKeeps
<1> QED
  BY <1>2, <1>3, <1>6 DEF IInv

\* A granted claim raises its counter above every recorded number.
LEMMA ClaimKeeps ==
    ASSUME IInv, Claim
    PROVE  IInv'
<1> DEFINE c == Counter(handler)
<1>1. /\ step = "claim" /\ step' = "append" /\ handler' = handler /\ ledger' = ledger
      /\ idem' = idem /\ crashes' = crashes /\ replies' = replies
      /\ seqs' = Store!Put(seqs, c, handler.seq)
      /\ c \in DOMAIN seqs => handler.seq > seqs[c]
  BY DEF Claim, Store!Claim, Store!Newer
<1>2. handler \in Messages /\ handler.seq \in Nat
  BY <1>1, IngestAssumption DEF IInv, TypeInv
<1>3. /\ DOMAIN seqs' = DOMAIN seqs \cup {c} /\ seqs'[c] = handler.seq
      /\ \A y \in DOMAIN seqs : y # c => seqs'[y] = seqs[y]
  BY <1>1 DEF Store!Put
<1> HIDE DEF c
<1>4. TypeInv'
  BY <1>1, <1>2, <1>3 DEF IInv, TypeInv
<1>5. ASSUME NEW i \in 1..Len(ledger)
      PROVE  /\ Counter(ledger[i].msg) \in DOMAIN seqs'
             /\ ledger[i].msg.seq <= seqs'[Counter(ledger[i].msg)]
             /\ Counter(ledger[i].msg) = c => ledger[i].msg.seq < handler.seq
  <2>1. /\ Counter(ledger[i].msg) \in DOMAIN seqs
        /\ ledger[i].msg.seq <= seqs[Counter(ledger[i].msg)]
        /\ seqs[Counter(ledger[i].msg)] \in Nat
    BY DEF IInv, CoveredInv, TypeInv
  <2>2. ledger[i].msg.seq \in Nat
    <3>1. ledger[i] \in Observation
      <4>1. ledger \in Seq(Observation)
        BY DEF IInv, TypeInv
      <4> QED
        BY <4>1
    <3>2. ledger[i].msg \in Messages
      BY <3>1 DEF Observation
    <3> QED
      BY <3>2, IngestAssumption
  <2> QED
    BY <1>1, <1>2, <1>3, <2>1, <2>2
<1>6. CoveredInv'
  BY <1>1, <1>5 DEF CoveredInv
<1>7. ClaimedInv'
  BY <1>1, <1>3, <1>5 DEF ClaimedInv, c
<1>8. SavedInv'
  BY <1>1 DEF IInv, SavedInv
<1>9. CompleteInv'
  <2> SUFFICES ASSUME crashes = 0, NEW d \in DOMAIN seqs', d # c
               PROVE  \E i \in 1..Len(ledger) :
                          Counter(ledger[i].msg) = d /\ ledger[i].msg.seq = seqs'[d]
    BY <1>1 DEF CompleteInv, c
  <2> QED
    BY <1>1, <1>3 DEF IInv, CompleteInv
<1>10. RecordedOnceInOrder' /\ AnswersTruthful'
  BY <1>1 DEF IInv, RecordedOnceInOrder, AnswersTruthful, AcceptedIsRecorded,
              ReplayMeansRecorded
<1> QED
  BY <1>4, <1>6, <1>7, <1>8, <1>9, <1>10 DEF IInv

\* The record of a claimed number is the largest of its counter.
LEMMA RecordKeeps ==
    ASSUME IInv, RecordObservation
    PROVE  IInv'
<1> DEFINE new == [msg |-> handler, id |-> Len(ledger) + 1]
           last == Len(ledger) + 1
<1>1. /\ step = "append" /\ step' = "save" /\ handler' = handler /\ seqs' = seqs
      /\ idem' = idem /\ crashes' = crashes /\ replies' = replies
      /\ ledger' = Append(ledger, new)
  BY DEF RecordObservation
<1>2. handler \in Messages /\ ledger \in Seq(Observation)
  BY <1>1 DEF IInv, TypeInv
<1>3. new \in Observation /\ new.msg = handler /\ new.id = last
  BY <1>2 DEF Observation
<1> HIDE DEF new
<1>4. /\ ledger' \in Seq(Observation) /\ Len(ledger') = last
      /\ Len(ledger) \in Nat /\ ledger'[last] = new
      /\ \A i \in 1..Len(ledger) : ledger'[i] = ledger[i] /\ i \in 1..Len(ledger')
      /\ \A i \in 1..Len(ledger') : i \in 1..Len(ledger) \/ i = last
  BY <1>1, <1>2, <1>3, AppendFacts
<1>5. last \in 1..Len(ledger') /\ last > 0 /\ \A i \in 1..Len(ledger) : i < last
  BY <1>4
<1> HIDE DEF last
<1>6. TypeInv'
  BY <1>1, <1>2, <1>3, <1>4 DEF IInv, TypeInv
<1>7. /\ Counter(handler) \in DOMAIN seqs /\ seqs[Counter(handler)] = handler.seq
      /\ handler.seq \in Nat
      /\ \A i \in 1..Len(ledger) :
             Counter(ledger[i].msg) = Counter(handler) => ledger[i].msg.seq < handler.seq
  BY <1>1, <1>2, IngestAssumption DEF IInv, ClaimedInv
<1>8. CoveredInv'
  <2> SUFFICES ASSUME NEW i \in 1..Len(ledger')
               PROVE  /\ Counter(ledger'[i].msg) \in DOMAIN seqs
                      /\ ledger'[i].msg.seq <= seqs[Counter(ledger'[i].msg)]
    BY <1>1 DEF CoveredInv
  <2>1. CASE i \in 1..Len(ledger)
    BY <1>4, <2>1 DEF IInv, CoveredInv
  <2>2. CASE i = last
    BY <1>3, <1>4, <1>7, <2>2
  <2> QED
    BY <1>4, <2>1, <2>2
<1>9. ClaimedInv'
  BY <1>1, <1>3, <1>4, <1>5 DEF ClaimedInv
<1>10. SavedInv'
  BY <1>1, <1>4 DEF IInv, SavedInv
<1>11. CompleteInv'
  <2> SUFFICES ASSUME crashes = 0, NEW c \in DOMAIN seqs
               PROVE  \E i \in 1..Len(ledger') :
                          Counter(ledger'[i].msg) = c /\ ledger'[i].msg.seq = seqs[c]
    BY <1>1 DEF CompleteInv
  <2>1. CASE Counter(handler) = c
    BY <1>3, <1>4, <1>5, <1>7, <2>1
  <2>2. CASE Counter(handler) # c
    <3>1. PICK i \in 1..Len(ledger) : Counter(ledger[i].msg) = c /\ ledger[i].msg.seq = seqs[c]
      BY <2>2 DEF IInv, CompleteInv
    <3>2. i \in 1..Len(ledger') /\ ledger'[i] = ledger[i]
      BY <1>4
    <3> QED
      BY <3>1, <3>2
  <2> QED
    BY <2>1, <2>2
<1>12. RecordedOnceInOrder'
  <2> SUFFICES ASSUME NEW i \in 1..Len(ledger'), NEW j \in 1..Len(ledger'), i < j,
                      Counter(ledger'[i].msg) = Counter(ledger'[j].msg)
               PROVE  ledger'[i].msg.seq < ledger'[j].msg.seq
    BY DEF RecordedOnceInOrder
  <2>1. i \in 1..Len(ledger) /\ ledger'[i] = ledger[i]
    BY <1>4 DEF last
  <2>2. CASE j \in 1..Len(ledger)
    <3>1. ledger'[j] = ledger[j]
      BY <1>4, <2>2
    <3> QED
      BY <2>1, <2>2, <3>1 DEF IInv, RecordedOnceInOrder
  <2>3. CASE j = last
    BY <1>3, <1>4, <1>7, <2>1, <2>3
  <2> QED
    BY <1>4, <2>2, <2>3
<1>13. AnswersTruthful'
  <2>1. AcceptedIsRecorded'
    BY <1>1, <1>4 DEF IInv, AnswersTruthful, AcceptedIsRecorded
  <2>2. ReplayMeansRecorded'
    BY <1>1, <1>4 DEF IInv, AnswersTruthful, ReplayMeansRecorded
  <2> QED
    BY <2>1, <2>2 DEF AnswersTruthful
<1> QED
  BY <1>6, <1>8, <1>9, <1>10, <1>11, <1>12, <1>13 DEF IInv

\* The answer 200 names the last record, and the saved response repeats it.
LEMMA FinishKeeps ==
    ASSUME IInv, Finish
    PROVE  IInv'
<1>1. /\ step = "save" /\ step' = "idle" /\ ledger' = ledger /\ seqs' = seqs
      /\ crashes' = crashes /\ Answer(handler, "accepted", NewId)
      /\ idem' = idem \/ idem' = Store!Put(idem, Slot(handler), [fp |-> handler, resp |-> NewId])
  BY DEF Finish, Answer, Store!Save
<1>2. TypeInv' /\ CoveredInv' /\ ClaimedInv' /\ CompleteInv' /\ RecordedOnceInOrder'
  BY <1>1, IdleKeeps DEF IInv, TypeInv
<1>3. NewId \in 1..Len(ledger) /\ ledger[NewId].msg = handler /\ ledger[NewId].id = NewId
  <2>1. Len(ledger) \in Nat /\ Len(ledger) > 0 /\ ledger[Len(ledger)].msg = handler
    BY <1>1 DEF IInv, ClaimedInv, TypeInv
  <2>2. Len(ledger) \in 1..Len(ledger)
    BY <2>1
  <2> QED
    BY <2>1, <2>2 DEF IInv, TypeInv, NewId
<1>4. SavedInv'
  <2>1. CASE idem' = idem
    BY <1>1, <2>1 DEF IInv, SavedInv
  <2>2. CASE idem' = Store!Put(idem, Slot(handler), [fp |-> handler, resp |-> NewId])
    <3> DEFINE e == [fp |-> handler, resp |-> NewId]
    <3>1. e.fp = handler /\ e.resp = NewId
      OBVIOUS
    <3> HIDE DEF e
    <3>2. /\ DOMAIN idem' = DOMAIN idem \cup {Slot(handler)} /\ idem'[Slot(handler)] = e
          /\ \A y \in DOMAIN idem : y # Slot(handler) => idem'[y] = idem[y]
      BY <2>2 DEF Store!Put, e
    <3> QED
      BY <1>1, <1>3, <3>1, <3>2 DEF IInv, SavedInv
  <2> QED
    BY <1>1, <2>1, <2>2
<1>5. AnswersTruthful'
  BY <1>1, <1>3, AnswerKeeps
<1> QED
  BY <1>2, <1>4, <1>5 DEF IInv

\* A failed write or a crash may leave a claimed number unrecorded, and says so.
LEMMA FailureKeeps ==
    ASSUME IInv, WriteFails \/ Crash
    PROVE  IInv'
<1>1. /\ step' = "idle" /\ ledger' = ledger /\ seqs' = seqs /\ idem' = idem
      /\ crashes' = crashes + 1
  BY DEF WriteFails, Crash, Answer
<1>2. crashes' \in Nat /\ crashes' # 0
  BY <1>1 DEF IInv, TypeInv
<1>3. TypeInv' /\ CoveredInv' /\ ClaimedInv' /\ CompleteInv' /\ RecordedOnceInOrder'
  BY <1>1, <1>2, IdleKeeps
<1>4. SavedInv'
  BY <1>1 DEF IInv, SavedInv
<1>5. AnswersTruthful'
  <2>1. CASE WriteFails
    BY <1>1, <1>2, <2>1, AnswerKeeps DEF WriteFails
  <2>2. CASE Crash
    BY <1>1, <1>2, <2>2 DEF Crash, IInv, AnswersTruthful, AcceptedIsRecorded,
                            ReplayMeansRecorded
  <2> QED
    BY <2>1, <2>2
<1> QED
  BY <1>3, <1>4, <1>5 DEF IInv

\* Every step keeps the invariant.
LEMMA StepKeepsInv == IInv /\ [Next]_vars => IInv'
<1> SUFFICES ASSUME IInv, [Next]_vars PROVE IInv'
  OBVIOUS
<1>1. ASSUME NEW m \in Messages, RejectConflict(m) \/ ReplayCached(m) \/ RejectSignature(m)
      PROVE  IInv'
  BY <1>1, EarlyAnswer
<1>2. ASSUME NEW m \in Messages, Receive(m)
      PROVE  IInv'
  BY <1>2, ReceiveKeeps
<1>3. CASE RejectReplay \/ Claim \/ RecordObservation \/ Finish
  BY <1>3, RejectReplayKeeps, ClaimKeeps, RecordKeeps, FinishKeeps
<1>4. CASE WriteFails \/ Crash
  BY <1>4, FailureKeeps
<1>5. CASE UNCHANGED vars
  BY <1>5 DEF vars, IInv, TypeInv, CoveredInv, ClaimedInv, SavedInv, CompleteInv,
              RecordedOnceInOrder, AnswersTruthful, AcceptedIsRecorded, ReplayMeansRecorded
<1> QED
  BY <1>1, <1>2, <1>3, <1>4, <1>5 DEF Next

\* The invariant holds in every reachable state of the endpoints.
THEOREM IngestInvariant == Spec => []IInv
BY InitInv, StepKeepsInv, PTL DEF Spec

\* However often messages are delivered and whatever fails in between, the ledger holds
\* the numbers of each asset in strictly increasing order, each at most once.
THEOREM RecordsOnceInOrder == Spec => []RecordedOnceInOrder
<1>1. IInv => RecordedOnceInOrder
  BY DEF IInv
<1> QED
  BY <1>1, IngestInvariant, PTL

\* 200 always names a record of the sender's own message, first answer or replay, and
\* until a write fails or the process dies 409 "replay" is said only of numbers that the
\* ledger has reached.
THEOREM AnswersAlwaysTruthful == Spec => []AnswersTruthful
<1>1. IInv => AnswersTruthful
  BY DEF IInv
<1> QED
  BY <1>1, IngestInvariant, PTL
=============================================================================
