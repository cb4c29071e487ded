-------------------------- MODULE SnapshotPlaneProofs --------------------------
(***************************************************************************)
(* What the snapshot caches promise, for any number of nodes, requests,    *)
(* sources and contents: a listed snapshot can be read, and an answer is   *)
(* what was published or imported under the url that was asked for.        *)
(***************************************************************************)
EXTENDS SnapshotPlane, WellFoundedInduction, TLAPS

-----------------------------------------------------------------------------
(* The invariant.                                                          *)

AnyContent == UNION {Offers[u] : u \in Url}
Bodies == [content : AnyContent, hex : Nat]
Snapshots == [source : DOMAIN Specs, url : Url, body : Bodies, at : Nat]
Ids == (DOMAIN Specs) \X Bodies
Steps == [url : Url, adapter : Adapters]
Answers == [url : Url, snapshot : Snapshots, used : Snapshots, taken : Nat]
RequestStates ==
    [pc : {"idle", "lookup", "asking", "waiting", "done"}, plan : (DOMAIN Plans) \cup {"none"},
     steps : Seq(Steps), force : BOOLEAN, tries : Nat, got : Seq(Answers),
     outcome : {"none", "answered", "invalid", "unavailable", "failed"}]

PlaneTypeInv ==
    /\ clock \in Nat
    /\ published \in [Url -> AnyContent]
    /\ ever \in [Url -> SUBSET AnyContent]
    /\ payloads \in [Node -> SUBSET Ids]
    /\ metas \in [Node -> Seq(Snapshots)]
    /\ request \in [Slot -> RequestStates]
    /\ gossip \in [Node -> [peer : Node \cup {"none"}, missing : SUBSET Ids]]

\* What is published or listed was published or imported under its url.
EverInv ==
    /\ \A u \in Url : published[u] \in ever[u]
    /\ \A n \in Node : \A m \in Range(metas[n]) : m.body.content \in ever[m.url]

\* The files stand in the order of their retrieval, none is from the future, and the
\* source of each is the one of its url.
OrderInv ==
    \A n \in Node :
        /\ \A i \in DOMAIN metas[n] :
              metas[n][i].at <= clock /\ metas[n][i].source = SourceOf[metas[n][i].url]
        /\ \A i, j \in DOMAIN metas[n] : i <= j => metas[n][i].at <= metas[n][j].at

\* A request under way has steps of its plan before it.
OnPlan(r) ==
    r.pc \in Busy =>
        /\ r.plan \in DOMAIN Plans /\ r.steps # << >>
        /\ \A i \in DOMAIN r.steps : \E j \in DOMAIN Plans[r.plan].steps :
              r.steps[i] = Plans[r.plan].steps[j]

\* What a synchronization still misses is listed by its peer.
MissingInv ==
    \A n \in Node : gossip[n].missing # {} =>
        gossip[n].peer \in Node /\ gossip[n].missing \subseteq Listed(gossip[n].peer)

\* An answer is as AnswersAsPublished has it.
Faithful(g) ==
    /\ g.used = g.snapshot
    /\ g.used.url = g.url
    /\ g.used.body.hex = 0 \/ (Tabular(g.url) /\ RecordCount(Content(g.used.body)) = 0)
    /\ g.used.body.content \in ever[g.url]
    /\ g.taken - g.used.at <= Specs[SourceOf[g.url]].freshness

RequestInv ==
    \A s \in Slot : /\ OnPlan(request[s])
                    /\ \A i \in DOMAIN request[s].got : Faithful(request[s].got[i])

PlaneInv ==
    /\ PlaneTypeInv /\ ListedIsReadable /\ EverInv /\ OrderInv
    /\ MissingInv /\ RequestInv

-----------------------------------------------------------------------------
(* Files and positions.                                                    *)

\* A set of numbers that is not empty has a least element: induction as the provers
\* can use it.
LEMMA LeastNumber ==
    ASSUME NEW T, T \subseteq Nat, T # {}
    PROVE  \E x \in T : \A y \in T : x <= y
<1> DEFINE less == {ss \in Nat \X Nat : ss[1] < ss[2]}
<1>1. OpToRel(<, Nat) = less
  BY Zenon DEF OpToRel
<1>2. IsWellFoundedOn(less, Nat)
  BY <1>1, NatLessThanWellFounded, Zenon
<1>3. PICK x \in T : \A y \in T : <<y, x>> \notin less
  <2> HIDE DEF less
  <2> QED BY <1>2, WFMin
<1>4. ASSUME NEW y \in T PROVE x <= y
  <2>1. x \in Nat /\ y \in Nat
    OBVIOUS
  <2>2. <<y, x>> \in Nat \X Nat /\ <<y, x>>[1] = y /\ <<y, x>>[2] = x
    BY <2>1
  <2>3. ~(y < x)
    BY <1>3, <2>2, Zenon
  <2> QED
    BY <2>1, <2>3
<1> QED
  BY <1>4

\* Among the positions of a sequence there is a last one, and Max finds it.
LEMMA LastPosition ==
    ASSUME NEW k \in Nat, NEW T \in SUBSET (1..k), T # {}
    PROVE  Max(T) \in T /\ \A y \in T : y <= Max(T)
<1> DEFINE U == {k - t : t \in T}
<1>1. U \subseteq Nat /\ U # {}
  <2>1. \A t \in T : t \in 1..k /\ k - t \in Nat
    OBVIOUS
  <2> QED
    BY <2>1
<1>2. PICK d \in U : \A y \in U : d <= y
  <2> HIDE DEF U
  <2> QED
    BY <1>1, LeastNumber
<1>3. PICK x \in T : d = k - x
  OBVIOUS
<1>4. \A y \in T : y <= x
  <2> TAKE y \in T
  <2>1. d <= k - y
    BY <1>2
  <2>2. x \in 1..k /\ y \in 1..k
    OBVIOUS
  <2> QED
    BY <1>3, <2>1, <2>2
<1> QED
  BY <1>4 DEF Max

\* store() of one more file lists what was listed and that file.
LEMMA RangeOfAppend ==
    ASSUME NEW S, NEW q \in Seq(S), NEW e
    PROVE  Range(Append(q, e)) = Range(q) \cup {e}
<1>1. ASSUME NEW x \in Range(Append(q, e)) PROVE x \in Range(q) \cup {e}
  <2>1. PICK i \in DOMAIN Append(q, e) : x = Append(q, e)[i]
    BY DEF Range
  <2>2. i \in 1..(Len(q) + 1)
    BY <2>1
  <2>3. CASE i = Len(q) + 1
    BY <2>1, <2>3
  <2>4. CASE i # Len(q) + 1
    <3>1. i \in DOMAIN q /\ x = q[i]
      BY <2>1, <2>2, <2>4
    <3> QED
      BY <3>1 DEF Range
  <2> QED
    BY <2>3, <2>4
<1>2. ASSUME NEW x \in Range(q) PROVE x \in Range(Append(q, e))
  <2>1. PICK i \in DOMAIN q : x = q[i]
    BY DEF Range
  <2>2. i \in DOMAIN Append(q, e) /\ Append(q, e)[i] = x
    BY <2>1
  <2> QED
    BY <2>2 DEF Range
<1>3. e \in Range(Append(q, e))
  <2>1. Len(q) + 1 \in DOMAIN Append(q, e) /\ Append(q, e)[Len(q) + 1] = e
    OBVIOUS
  <2> QED
    BY <2>1 DEF Range
<1> QED
  BY <1>1, <1>2, <1>3
-----------------------------------------------------------------------------
(* store().                                                                *)

\* Every content ever published or imported stays one.
EverGrows == \A u \in Url : ever[u] \subseteq ever'[u]

\* What store() keeps: the files can be read, they stand in order, and what was listed
\* stays listed.
StoreSound ==
    /\ payloads' \in [Node -> SUBSET Ids] /\ metas' \in [Node -> Seq(Snapshots)]
    /\ ListedIsReadable'
    /\ \A n \in Node : \A m \in Range(metas'[n]) : m.body.content \in ever'[m.url]
    /\ OrderInv'
    /\ \A n \in Node : Listed(n) \subseteq Listed(n)'

\* The new metadata is a snapshot of its url.
LEMMA EntryIs ==
    ASSUME PlaneTypeInv, NEW u \in Url, NEW body \in Bodies
    PROVE  /\ Entry(u, body) \in Snapshots
           /\ Entry(u, body).source = SourceOf[u] /\ Entry(u, body).url = u
           /\ Entry(u, body).body = body /\ Entry(u, body).at = clock
BY RegistryAssumption DEF Entry, Snapshots, PlaneTypeInv

\* Files that are left alone stay as good as they were.
LEMMA UntouchedSound ==
    ASSUME PlaneInv, EverGrows, UNCHANGED <<payloads, metas>>, clock' \in Nat, clock <= clock'
    PROVE  StoreSound
<1> USE DEF PlaneInv
<1>1. payloads' \in [Node -> SUBSET Ids] /\ metas' \in [Node -> Seq(Snapshots)]
  BY DEF PlaneTypeInv
<1>2. ListedIsReadable' /\ \A n \in Node : Listed(n) \subseteq Listed(n)'
  BY DEF ListedIsReadable, Listed
<1>3. ASSUME NEW n \in Node, NEW m \in Range(metas'[n]) PROVE m.body.content \in ever'[m.url]
  <2>1. m \in Range(metas[n]) /\ m.body.content \in ever[m.url]
    BY DEF EverInv
  <2>2. m \in Snapshots
    BY <2>1, <1>1 DEF Range
  <2>3. m.url \in Url
    BY <2>2 DEF Snapshots
  <2> QED
    BY <2>1, <2>3 DEF EverGrows
<1>4. OrderInv'
  <2>1. \A n \in Node : \A i \in DOMAIN metas[n] : metas[n][i].at \in Nat
    <3>1. \A n \in Node : \A i \in DOMAIN metas[n] : metas[n][i] \in Snapshots
      BY DEF PlaneTypeInv
    <3> QED
      BY <3>1 DEF Snapshots
  <2>2. clock \in Nat
    BY DEF PlaneTypeInv
  <2> QED
    BY <2>1, <2>2 DEF OrderInv
<1> QED
  BY <1>1, <1>2, <1>3, <1>4 DEF StoreSound

\* SnapshotCache.store(): a snapshot is listed once its payload is there, after all others.
LEMMA StoreIsSound ==
    ASSUME PlaneInv, EverGrows, UNCHANGED clock,
           NEW n \in Node, NEW u \in Url, NEW body \in Bodies,
           body.content \in ever'[u], Store(n, u, body)
    PROVE  StoreSound
<1> USE DEF PlaneInv
<1> DEFINE e == Entry(u, body)
           id == <<SourceOf[u], body>>
           q == metas[n]
<1>1. /\ e \in Snapshots /\ e.source = SourceOf[u] /\ e.url = u
      /\ e.body = body /\ e.at = clock
  BY EntryIs
<1>2. id \in Ids
  BY RegistryAssumption DEF Ids
<1>3. q \in Seq(Snapshots) /\ clock \in Nat
  BY DEF PlaneTypeInv
<1>4. payloads' = [payloads EXCEPT ![n] = @ \cup {id}]
  BY DEF Store
<1>5. payloads' \in [Node -> SUBSET Ids]
  BY <1>2, <1>4 DEF PlaneTypeInv
<1>6. \A k \in Node : payloads[k] \subseteq payloads'[k]
  BY <1>4 DEF PlaneTypeInv
<1>7. CASE Collides(n, u, body)
  <2>1. metas' = metas
    BY <1>7 DEF Store
  <2>2. metas' \in [Node -> Seq(Snapshots)]
    BY <2>1 DEF PlaneTypeInv
  <2>3. ListedIsReadable' /\ \A k \in Node : Listed(k) \subseteq Listed(k)'
    BY <2>1, <1>6 DEF ListedIsReadable, Listed
  <2>4. ASSUME NEW k \in Node, NEW m \in Range(metas'[k]) PROVE m.body.content \in ever'[m.url]
    <3>1. m \in Range(metas[k]) /\ m.body.content \in ever[m.url]
      BY <2>1 DEF EverInv
    <3>2. m \in Snapshots
      BY <3>1 DEF Range, PlaneTypeInv
    <3> QED
      BY <3>1, <3>2 DEF EverGrows, Snapshots
  <2>5. OrderInv'
    BY <2>1 DEF OrderInv
  <2> QED
    BY <1>5, <2>2, <2>3, <2>4, <2>5 DEF StoreSound
<1>8. CASE ~Collides(n, u, body)
  <2>1. metas' = [metas EXCEPT ![n] = Append(q, e)]
    BY <1>8 DEF Store
  <2>2. metas' \in [Node -> Seq(Snapshots)]
    BY <1>1, <1>3, <2>1 DEF PlaneTypeInv
  <2>3. metas'[n] = Append(q, e) /\ \A k \in Node \ {n} : metas'[k] = metas[k]
    BY <2>1 DEF PlaneTypeInv
  <2> HIDE DEF e, q
  <2>4. Range(metas'[n]) = Range(q) \cup {e}
    BY <1>3, <2>3, RangeOfAppend
  <2>5. Listed(n)' = Listed(n) \cup {id} /\ \A k \in Node \ {n} : Listed(k)' = Listed(k)
    BY <1>1, <2>3, <2>4 DEF Listed, q
  <2>6. ListedIsReadable' /\ \A k \in Node : Listed(k) \subseteq Listed(k)'
    <3>1. id \in payloads'[n]
      BY <1>4 DEF PlaneTypeInv
    <3>2. \A k \in Node : Listed(k) \subseteq payloads[k]
      BY DEF ListedIsReadable
    <3>3. \A k \in Node : Listed(k)' \subseteq payloads'[k]
      BY <1>6, <2>5, <3>1, <3>2
    <3> QED
      BY <2>5, <3>3 DEF ListedIsReadable
  <2>7. ASSUME NEW k \in Node, NEW m \in Range(metas'[k]) PROVE m.body.content \in ever'[m.url]
    <3>1. CASE m \in Range(metas[k])
      <4>1. m.body.content \in ever[m.url]
        BY <3>1 DEF EverInv
      <4>2. m \in Snapshots
        BY <3>1 DEF Range, PlaneTypeInv
      <4> QED
        BY <4>1, <4>2 DEF EverGrows, Snapshots
    <3>2. CASE m \notin Range(metas[k])
      <4>1. m = e
        BY <2>3, <2>4, <3>2 DEF q
      <4> QED
        BY <1>1, <4>1
    <3> QED
      BY <3>1, <3>2
  <2>8. OrderInv'
    <3> SUFFICES ASSUME NEW k \in Node
                 PROVE  /\ \A i \in DOMAIN metas'[k] :
                             /\ metas'[k][i].at <= clock
                             /\ metas'[k][i].source = SourceOf[metas'[k][i].url]
                        /\ \A i, j \in DOMAIN metas'[k] :
                             i <= j => metas'[k][i].at <= metas'[k][j].at
      BY DEF OrderInv
    <3>1. CASE k # n
      BY <2>3, <3>1 DEF OrderInv
    <3>2. CASE k = n
      <4>1. /\ DOMAIN Append(q, e) = 1..(Len(q) + 1) /\ Append(q, e)[Len(q) + 1] = e
            /\ DOMAIN q = 1..Len(q)
            /\ \A i \in 1..Len(q) : Append(q, e)[i] = q[i]
        BY <1>3
      <4>2. \A i \in 1..(Len(q) + 1) : i = Len(q) + 1 \/ i \in 1..Len(q)
        BY <1>3
      <4>3. /\ \A i \in 1..Len(q) : q[i].at <= clock /\ q[i].source = SourceOf[q[i].url]
            /\ \A i, j \in 1..Len(q) : i <= j => q[i].at <= q[j].at
        BY <4>1 DEF OrderInv, q
      <4>4. ASSUME NEW i \in 1..(Len(q) + 1)
            PROVE  /\ Append(q, e)[i].at <= clock
                   /\ Append(q, e)[i].source = SourceOf[Append(q, e)[i].url]
        BY <1>1, <1>3, <4>1, <4>2, <4>3
      <4>5. ASSUME NEW i \in 1..(Len(q) + 1), NEW j \in 1..(Len(q) + 1), i <= j
            PROVE  Append(q, e)[i].at <= Append(q, e)[j].at
        <5>1. CASE j = Len(q) + 1
          BY <1>1, <4>1, <4>4, <5>1
        <5>2. CASE j \in 1..Len(q)
          <6>1. i \in 1..Len(q)
            BY <1>3, <4>5, <5>2
          <6> QED
            BY <4>1, <4>3, <4>5, <5>2, <6>1
        <5> QED
          BY <4>2, <5>1, <5>2
      <4> QED
        BY <2>3, <3>2, <4>1, <4>4, <4>5
    <3> QED
      BY <3>1, <3>2
  <2> QED
    BY <1>5, <2>2, <2>6, <2>7, <2>8 DEF StoreSound
<1> QED
  BY <1>7, <1>8
-----------------------------------------------------------------------------
(* Requests.                                                               *)

\* A request that is as it should be.
Sound(r) == /\ r \in RequestStates /\ OnPlan(r)
            /\ \A i \in DOMAIN r.got : Faithful(r.got[i])

\* A request that is refused or fails keeps what it has.
LEMMA FinishedSound ==
    ASSUME NEW r, Sound(r), NEW outcome \in {"invalid", "unavailable", "failed"}
    PROVE  Sound(Finished(r, outcome))
BY DEF Sound, Finished, RequestStates, OnPlan, Busy

\* The step before a request under way is one of its plan.
LEMMA StepOfPlan ==
    ASSUME NEW r, Sound(r), r.pc \in Busy
    PROVE  /\ r.plan \in DOMAIN Plans /\ r.steps # << >>
           /\ Head(r.steps) \in Steps
           /\ \E j \in DOMAIN Plans[r.plan].steps : Head(r.steps) = Plans[r.plan].steps[j]
<1>1. r.steps \in Seq(Steps) /\ r.steps # << >> /\ r.plan \in DOMAIN Plans
  BY DEF Sound, RequestStates, OnPlan
<1>2. 1 \in DOMAIN r.steps /\ Head(r.steps) = r.steps[1]
  BY <1>1
<1> QED
  BY <1>1, <1>2 DEF Sound, OnPlan

\* A copy that gossip encoded is refused by every parser and adapter but those of tables.
LEMMA CopyRefused ==
    ASSUME NEW r, Sound(r), r.pc \in Busy, NEW body \in Bodies, body.hex # 0,
           NEW source, source = SourceOf[Head(r.steps).url],
           Plans[r.plan].client = "plane" => Parses(Specs[source].parser, Content(body)),
           ~Raises(Head(r.steps).adapter, Content(body))
    PROVE  Tabular(Head(r.steps).url) /\ RecordCount(Content(body)) = 0
<1> DEFINE step == Head(r.steps)
<1>1. PICK j \in DOMAIN Plans[r.plan].steps : step = Plans[r.plan].steps[j]
  BY StepOfPlan
<1>2. r.plan \in DOMAIN Plans /\ step \in Steps
  BY StepOfPlan
<1>3. Content(body) = [shape |-> "text", rows |-> << >>]
  BY DEF Content
<1>4. RecordCount(Content(body)) = 0
  BY <1>3 DEF RecordCount
<1>5. CASE Plans[r.plan].client = "plane"
  <2>1. Specs[source].parser \in {"csv", "xlsx", "json", "geojson"}
    BY <1>2, RegistryAssumption DEF Steps
  <2>2. Specs[source].parser = "csv"
    <3>1. Content(body).shape = "text" /\ Parses(Specs[source].parser, Content(body))
      BY <1>3, <1>5
    <3>2. \A p \in {"xlsx", "json", "geojson"} : \A c : c.shape = "text" => ~Parses(p, c)
      BY DEF Parses
    <3> QED
      BY <2>1, <3>1, <3>2
  <2> QED
    BY <1>1, <1>2, <1>4, <1>5, <2>2, PlanAssumption
<1>6. CASE Plans[r.plan].client # "plane"
  <2>1. step.adapter # "none" /\ (step.adapter = "extent" => Tabular(step.url))
    BY <1>1, <1>2, <1>6, PlanAssumption
  <2>2. step.adapter \in Adapters
    BY <1>2 DEF Steps
  <2>3. step.adapter = "extent"
    <3>1. Content(body).shape = "text" /\ ~Raises(step.adapter, Content(body))
      BY <1>3
    <3>2. \A a \in Adapters \ {"extent", "none"} : \A c : c.shape = "text" => Raises(a, c)
      BY DEF Raises, LevelsRefused, Adapters
    <3> QED
      BY <2>1, <2>2, <3>1, <3>2
  <2> QED
    BY <1>4, <2>1, <2>3
<1> QED
  BY <1>5, <1>6

\* The snapshot a step takes: of the url that was asked for, young enough, published or
\* imported, and the last of its url among the files.
Taking(r, e, q) ==
    /\ q \in Seq(Snapshots) /\ e \in Snapshots
    /\ e.url = Head(r.steps).url /\ e.source = SourceOf[e.url]
    /\ clock - e.at <= Specs[e.source].freshness
    /\ e.body.content \in ever[e.url]
    /\ \E k \in DOMAIN q :
          /\ q[k] = e
          /\ \A i \in DOMAIN q : (q[i].source = e.source /\ q[i].url = e.url) => i <= k

\* _summarize() and the adapters: what is answered is the snapshot that was found or
\* fetched, also by an adapter that looks it up again.
LEMMA TakenSound ==
    ASSUME PlaneTypeInv, NEW r, Sound(r), r.pc \in Busy, NEW e, NEW q, Taking(r, e, q)
    PROVE  Sound(Taken(r, e, q))
<1> DEFINE step == Head(r.steps)
           again == {i \in DOMAIN q : q[i].source = e.source /\ q[i].url = step.url}
           used == IF step.adapter = "none" \/ Plans[r.plan].client = "ingestor" THEN e
                   ELSE q[Max(again)]
           bad == \/ /\ Plans[r.plan].client = "plane"
                     /\ ~Parses(Specs[e.source].parser, Content(e.body))
                  \/ Raises(step.adapter, Content(used.body))
           g == [url |-> step.url, snapshot |-> e, used |-> used, taken |-> clock]
           next == [r EXCEPT !.got = Append(@, g), !.steps = Tail(@), !.tries = 0,
                             !.pc = IF Len(r.steps) = 1 THEN "done" ELSE "lookup",
                             !.outcome = IF Len(r.steps) = 1 THEN "answered" ELSE "none"]
<1>1. Taken(r, e, q) = IF bad THEN Finished(r, "invalid") ELSE next
  BY DEF Taken
<1>2. used = e
  <2>1. PICK k \in DOMAIN q :
            /\ q[k] = e
            /\ \A i \in DOMAIN q : (q[i].source = e.source /\ q[i].url = e.url) => i <= k
    BY DEF Taking
  <2>2. k \in again /\ \A i \in again : i <= k
    BY <2>1 DEF Taking
  <2>3. Len(q) \in Nat /\ again \in SUBSET (1..Len(q))
    BY DEF Taking
  <2>4. Max(again) \in again /\ \A y \in again : y <= Max(again)
    <3> HIDE DEF again
    <3> QED
      BY <2>2, <2>3, LastPosition
  <2>5. Max(again) = k
    <3>1. k <= Max(again) /\ Max(again) <= k
      BY <2>2, <2>4
    <3>2. k \in Int /\ Max(again) \in Int
      BY <2>2, <2>3, <2>4
    <3> QED
      BY <3>1, <3>2
  <2> QED
    BY <2>1, <2>5
<1>3. CASE bad
  BY <1>1, <1>3, FinishedSound
<1>4. CASE ~bad
  <2> USE <1>4
  <2>1. Taken(r, e, q) = next
    BY <1>1
  <2>2. /\ r \in RequestStates /\ r.steps \in Seq(Steps) /\ r.got \in Seq(Answers)
        /\ r.steps # << >> /\ step \in Steps /\ r.plan \in DOMAIN Plans
    BY StepOfPlan DEF Sound, RequestStates
  <2>3. /\ e \in Snapshots /\ e.url = step.url /\ e.source = SourceOf[e.url] /\ e.body \in Bodies
        /\ clock - e.at <= Specs[e.source].freshness /\ e.body.content \in ever[e.url]
    BY DEF Taking, Snapshots
  <2>4. g \in Answers
    <3>1. step.url \in Url /\ clock \in Nat
      BY <2>2 DEF Steps, PlaneTypeInv
    <3> HIDE DEF used, step
    <3> QED
      BY <1>2, <2>3, <3>1 DEF Answers
  <2>5. e.body.hex = 0 \/ (Tabular(step.url) /\ RecordCount(Content(e.body)) = 0)
    <3> SUFFICES ASSUME e.body.hex # 0
                 PROVE  Tabular(step.url) /\ RecordCount(Content(e.body)) = 0
      OBVIOUS
    <3>1. /\ Plans[r.plan].client = "plane" => Parses(Specs[e.source].parser, Content(e.body))
          /\ ~Raises(step.adapter, Content(e.body))
      BY <1>2
    <3> QED
      BY <2>3, <3>1, CopyRefused
  <2>6. Faithful(g)
    <3> HIDE DEF used, step
    <3> QED
      BY <1>2, <2>3, <2>5 DEF Faithful
  <2> HIDE DEF g, step, bad, again, used
  <2>7. /\ next.got = Append(r.got, g) /\ next.steps = Tail(r.steps) /\ next.plan = r.plan
        /\ next.pc = IF Len(r.steps) = 1 THEN "done" ELSE "lookup"
        /\ next.force = r.force /\ next.tries = 0
        /\ next.outcome = IF Len(r.steps) = 1 THEN "answered" ELSE "none"
    BY <2>2 DEF RequestStates
  <2>8. next \in RequestStates
    <3>1. Append(r.got, g) \in Seq(Answers) /\ Tail(r.steps) \in Seq(Steps)
      BY <2>2, <2>4
    <3> QED
      BY <2>2, <3>1 DEF RequestStates
  <2> HIDE DEF next
  <2>9. \A i \in DOMAIN next.got : Faithful(next.got[i])
    <3> TAKE i \in DOMAIN next.got
    <3>1. i \in 1..(Len(r.got) + 1)
      BY <2>2, <2>7
    <3>2. CASE i = Len(r.got) + 1
      BY <2>2, <2>6, <2>7, <3>2
    <3>3. CASE i # Len(r.got) + 1
      <4>1. i \in DOMAIN r.got /\ next.got[i] = r.got[i]
        BY <2>2, <2>7, <3>1, <3>3
      <4> QED
        BY <4>1 DEF Sound
    <3> QED
      BY <3>2, <3>3
  <2>10. OnPlan(next)
    <3> SUFFICES ASSUME next.pc \in Busy
                 PROVE  /\ next.plan \in DOMAIN Plans /\ next.steps # << >>
                        /\ \A i \in DOMAIN next.steps : \E j \in DOMAIN Plans[next.plan].steps :
                              next.steps[i] = Plans[next.plan].steps[j]
      BY DEF OnPlan
    <3>1. Len(r.steps) # 1
      BY <2>7 DEF Busy
    <3>2. next.steps # << >>
      <4>1. Len(r.steps) \in Nat /\ Len(r.steps) # 0
        BY <2>2
      <4>2. Len(Tail(r.steps)) = Len(r.steps) - 1
        BY <2>2
      <4>3. Len(Tail(r.steps)) # 0 /\ Len(<< >>) = 0
        BY <3>1, <4>1, <4>2
      <4> QED
        BY <2>7, <4>3
    <3>3. ASSUME NEW i \in DOMAIN next.steps
          PROVE  \E j \in DOMAIN Plans[next.plan].steps : next.steps[i] = Plans[next.plan].steps[j]
      <4>1. i + 1 \in DOMAIN r.steps /\ next.steps[i] = r.steps[i + 1]
        BY <2>2, <2>7
      <4> QED
        BY <2>7, <4>1 DEF Sound, OnPlan
    <3> QED
      BY <2>2, <2>7, <3>2, <3>3
  <2> QED
    BY <2>1, <2>8, <2>9, <2>10 DEF Sound
<1> QED
  BY <1>3, <1>4
-----------------------------------------------------------------------------
(* The steps.                                                              *)

\* An answer stays what it was when more is published.
LEMMA FaithfulStays ==
    ASSUME EverGrows, NEW g \in Answers, Faithful(g)
    PROVE  Faithful(g)'
<1>1. g.url \in Url
  BY DEF Answers
<1> QED
  BY <1>1 DEF Faithful, EverGrows, Tabular, Content

\* The same of a request.
LEMMA SoundStays ==
    ASSUME EverGrows, NEW r, Sound(r)
    PROVE  /\ r \in RequestStates /\ OnPlan(r)
           /\ \A i \in DOMAIN r.got : Faithful(r.got[i])'
<1>1. \A i \in DOMAIN r.got : r.got[i] \in Answers
  BY DEF Sound, RequestStates
<1>2. \A i \in DOMAIN r.got : Faithful(r.got[i])'
  BY <1>1, FaithfulStays DEF Sound
<1> QED
  BY <1>2 DEF Sound

\* In a state that satisfies the invariant every request is sound.
LEMMA RequestsSound ==
    ASSUME PlaneInv
    PROVE  \A s \in Slot : Sound(request[s])
BY DEF PlaneInv, PlaneTypeInv, RequestInv, Sound

\* What the invariant of the next state needs, part by part.
LEMMA Reassemble ==
    ASSUME PlaneInv, EverGrows, StoreSound,
           clock' \in Nat, published' \in [Url -> AnyContent], ever' \in [Url -> SUBSET AnyContent],
           \A u \in Url : published'[u] \in ever'[u],
           NEW R, request' = R, R \in [Slot -> RequestStates], \A s \in Slot : Sound(R[s]),
           gossip' \in [Node -> [peer : Node \cup {"none"}, missing : SUBSET Ids]],
           \A n \in Node : gossip'[n].missing # {} =>
               gossip'[n].peer \in Node /\ gossip'[n].missing \subseteq Listed(gossip'[n].peer)
    PROVE  PlaneInv'
<1>1. PlaneTypeInv'
  BY DEF PlaneTypeInv, StoreSound
<1>2. ListedIsReadable' /\ OrderInv' /\ EverInv'
  BY DEF StoreSound, EverInv
<1>3. MissingInv'
  <2> DEFINE after == [k \in Node |-> {<<m.source, m.body>> : m \in Range(metas'[k])}]
  <2>1. \A k \in Node : Listed(k) \subseteq after[k]
    BY DEF StoreSound, Listed
  <2>2. ASSUME NEW n \in Node, gossip'[n].missing # {}
        PROVE  gossip'[n].peer \in Node /\ gossip'[n].missing \subseteq after[gossip'[n].peer]
    <3> DEFINE p == gossip'[n].peer
    <3>1. p \in Node /\ gossip'[n].missing \subseteq Listed(p)
      BY <2>2
    <3> HIDE DEF p, after
    <3>2. Listed(p) \subseteq after[p]
      BY <2>1, <3>1
    <3> QED
      BY <3>1, <3>2 DEF p
  <2> QED
    BY <2>2 DEF MissingInv, Listed
<1>4. RequestInv'
  <2>1. \A s \in Slot : OnPlan(R[s]) /\ \A i \in DOMAIN R[s].got : Faithful(R[s].got[i])'
    BY SoundStays
  <2> QED
    BY <2>1 DEF RequestInv, OnPlan, Busy, Faithful
<1> QED
  BY <1>1, <1>2, <1>3, <1>4 DEF PlaneInv
\* The synchronizations as they are.
GossipSound(g) ==
    /\ g \in [Node -> [peer : Node \cup {"none"}, missing : SUBSET Ids]]
    /\ \A n \in Node : g[n].missing # {} =>
          g[n].peer \in Node /\ g[n].missing \subseteq Listed(g[n].peer)

LEMMA GossipIsSound ==
    ASSUME PlaneInv PROVE GossipSound(gossip)
BY DEF PlaneInv, PlaneTypeInv, MissingInv, GossipSound

\* A synchronization that ends misses nothing any more.
LEMMA GossipEnds ==
    ASSUME NEW g, GossipSound(g), NEW n \in Node
    PROVE  GossipSound([g EXCEPT ![n] = NoPeer])
BY DEF GossipSound, NoPeer

\* A step that leaves the sources and the files alone.
LEMMA QuietStep ==
    ASSUME PlaneInv, UNCHANGED <<clock, published, ever, payloads, metas>>,
           NEW R, request' = R, R \in [Slot -> RequestStates], \A s \in Slot : Sound(R[s]),
           NEW G, gossip' = G, GossipSound(G)
    PROVE  PlaneInv'
<1>1. EverGrows
  BY DEF EverGrows
<1>2. clock' \in Nat /\ clock <= clock'
  BY DEF PlaneInv, PlaneTypeInv
<1>3. StoreSound
  BY <1>1, <1>2, UntouchedSound
<1>4. /\ published' \in [Url -> AnyContent] /\ ever' \in [Url -> SUBSET AnyContent]
      /\ \A u \in Url : published'[u] \in ever'[u]
  BY DEF PlaneInv, PlaneTypeInv, EverInv
<1> QED
  BY <1>1, <1>2, <1>3, <1>4, Reassemble DEF GossipSound

\* A step of one request that leaves the rest alone.
LEMMA RequestStep ==
    ASSUME PlaneInv, NEW s \in Slot, NEW r, Sound(r), request' = [request EXCEPT ![s] = r],
           UNCHANGED <<clock, published, ever, payloads, metas, gossip>>
    PROVE  PlaneInv'
<1> DEFINE R == [request EXCEPT ![s] = r]
<1>1. R \in [Slot -> RequestStates]
  BY DEF PlaneInv, PlaneTypeInv, Sound
<1>2. \A t \in Slot : Sound(R[t])
  <2>1. \A t \in Slot : R[t] = IF t = s THEN r ELSE request[t]
    BY DEF PlaneInv, PlaneTypeInv
  <2> HIDE DEF R
  <2> QED
    BY <2>1, RequestsSound
<1>3. GossipSound(gossip)
  BY GossipIsSound
<1> HIDE DEF R
<1> QED
  BY <1>1, <1>2, <1>3, QuietStep DEF R

\* Ask: a request starts with the steps of its plan.
LEMMA AskKeeps ==
    ASSUME PlaneInv, NEW s \in Slot, NEW plan \in DOMAIN Plans, NEW force \in BOOLEAN,
           Ask(s, plan, force)
    PROVE  PlaneInv'
<1> DEFINE r == [Idle EXCEPT !.pc = "lookup", !.plan = plan, !.steps = Plans[plan].steps,
                             !.force = force]
<1>1. request' = [request EXCEPT ![s] = r] /\ UNCHANGED <<clock, published, ever, payloads, metas, gossip>>
  BY DEF Ask
<1>2. Plans[plan].steps \in Seq(Steps) /\ Plans[plan].steps # << >>
  BY PlanAssumption DEF Steps
<1>3. /\ r.pc = "lookup" /\ r.plan = plan /\ r.steps = Plans[plan].steps
      /\ r.force = force /\ r.tries = 0 /\ r.got = << >> /\ r.outcome = "none"
  BY DEF Idle
<1>4. r \in RequestStates
  <2>1. Idle \in RequestStates
    <3>1. << >> \in Seq(Steps) /\ << >> \in Seq(Answers)
      OBVIOUS
    <3> QED
      BY <3>1 DEF Idle, RequestStates
  <2> QED
    BY <1>2, <2>1 DEF RequestStates
<1> HIDE DEF r
<1>5. OnPlan(r)
  BY <1>2, <1>3 DEF OnPlan
<1>6. Sound(r)
  BY <1>3, <1>4, <1>5 DEF Sound
<1> QED
  BY <1>1, <1>6, RequestStep

\* Lookup: the newest snapshot of the url that is young enough is the newest of the url.
LEMMA LookupKeeps ==
    ASSUME PlaneInv, NEW s \in Slot, Lookup(s)
    PROVE  PlaneInv'
<1> DEFINE r == request[s]
           n == HomeOf[s]
           u == Head(r.steps).url
           source == SourceOf[u]
           cached == IF r.force THEN {} ELSE Latest(n, u, Specs[source].freshness)
           q == metas[n]
           k == Max(cached)
           new == IF cached # {} THEN Taken(r, q[k], q)
                  ELSE IF n \notin Outbound \/ (Specs[source].keyed /\ source \notin Keys)
                  THEN Finished(r, "unavailable") ELSE [r EXCEPT !.pc = "asking"]
<1>1. /\ r.pc = "lookup" /\ request' = [request EXCEPT ![s] = new]
      /\ UNCHANGED <<clock, published, ever, payloads, metas, gossip>>
  BY DEF Lookup
<1>2. Sound(r) /\ r.pc \in Busy /\ PlaneTypeInv
  BY <1>1, RequestsSound DEF Busy, PlaneInv
<1>3. n \in Node /\ Head(r.steps) \in Steps /\ u \in Url /\ q \in Seq(Snapshots) /\ clock \in Nat
  BY <1>2, StepOfPlan, RegistryAssumption DEF Steps, PlaneTypeInv
<1>4. Sound(new)
  <2>1. CASE cached # {}
    <3>1. cached \in SUBSET (1..Len(q)) /\ Len(q) \in Nat
      BY <1>3 DEF Latest
    <3>2. k \in cached /\ \A i \in cached : i <= k
      <4> HIDE DEF cached
      <4> QED
        BY <2>1, <3>1, LastPosition
    <3>3. /\ k \in DOMAIN q /\ q[k].source = source /\ q[k].url = u
          /\ clock - q[k].at <= Specs[source].freshness
      BY <3>2 DEF Latest
    <3>4. ASSUME NEW i \in DOMAIN q, q[i].source = source, q[i].url = u
          PROVE  i <= k
      <4> SUFFICES ASSUME ~(i <= k) PROVE FALSE
        OBVIOUS
      <4> HIDE DEF k, cached, source, u
      <4>0. \A x, y \in DOMAIN q : x <= y => q[x].at <= q[y].at
        BY <1>3 DEF PlaneInv, OrderInv
      <4> HIDE DEF q
      <4>1. i \in 1..Len(q) /\ k \in 1..Len(q)
        BY <1>3, <3>3
      <4>2. q[k].at <= q[i].at
        BY <1>3, <3>3, <4>0, <4>1
      <4>3. q[i].at \in Nat /\ q[k].at \in Nat /\ Specs[source].freshness \in Nat
        <5>1. q[i] \in Snapshots /\ q[k] \in Snapshots
          BY <1>3, <4>1
        <5>2. Specs[source].freshness \in Nat
          BY <1>3, RegistryAssumption DEF source
        <5> QED
          BY <5>1, <5>2 DEF Snapshots
      <4>4. clock - q[i].at <= Specs[source].freshness
        BY <1>3, <3>3, <4>2, <4>3
      <4>5. i \in cached
        BY <2>1, <3>4, <4>4 DEF Latest, cached, q, source, u
      <4> QED
        BY <3>2, <4>5
    <3> HIDE DEF k, cached
    <3>5. q[k] \in Snapshots /\ q[k] \in Range(q)
      BY <1>3, <3>3 DEF Range
    <3>6. q[k].body.content \in ever[u]
      BY <1>3, <3>3, <3>5 DEF PlaneInv, EverInv
    <3>7. Taking(r, q[k], q)
      <4> HIDE DEF q, r, u
      <4> QED
        BY <1>3, <3>3, <3>4, <3>5, <3>6 DEF Taking, u
    <3> HIDE DEF q, r, source
    <3> QED
      BY <1>2, <2>1, <3>7, TakenSound
  <2>2. CASE cached = {}
    <3>1. Sound(Finished(r, "unavailable"))
      BY <1>2, FinishedSound
    <3>2. Sound([r EXCEPT !.pc = "asking"])
      <4> HIDE DEF r
      <4> QED
        BY <1>2 DEF Sound, RequestStates, OnPlan, Busy
    <3> HIDE DEF cached, r, source, n
    <3> QED
      BY <2>2, <3>1, <3>2
  <2> QED
    BY <2>1, <2>2
<1> HIDE DEF new
<1> QED
  BY <1>1, <1>4, RequestStep

\* Transient, Retry and Refuse: an attempt that brings nothing changes nothing else.
LEMMA AttemptKeeps ==
    ASSUME PlaneInv, NEW s \in Slot, Transient(s) \/ Retry(s) \/ Refuse(s)
    PROVE  PlaneInv'
<1> DEFINE r == request[s]
           wait == [r EXCEPT !.tries = @ + 1, !.pc = "waiting"]
           ask == [r EXCEPT !.pc = "asking"]
<1>1. Sound(r) /\ r.pc \in Busy
  BY RequestsSound DEF Transient, Retry, Refuse, Busy
<1>2. Sound(wait) /\ Sound(ask) /\ Sound(Finished(r, "failed"))
  <2>1. Sound(Finished(r, "failed"))
    BY <1>1, FinishedSound
  <2> HIDE DEF r
  <2>2. r.tries \in Nat /\ r.tries + 1 \in Nat
    BY <1>1 DEF Sound, RequestStates
  <2>3. Sound(wait)
    BY <1>1, <2>2 DEF Sound, RequestStates, OnPlan, Busy
  <2>4. Sound(ask)
    BY <1>1 DEF Sound, RequestStates, OnPlan, Busy
  <2> QED
    BY <2>1, <2>3, <2>4
<1>3. \E x \in {wait, ask, Finished(r, "failed")} :
          /\ request' = [request EXCEPT ![s] = x]
          /\ UNCHANGED <<clock, published, ever, payloads, metas, gossip>>
  <2>1. CASE Transient(s)
    BY <2>1 DEF Transient
  <2>2. CASE Retry(s)
    BY <2>2 DEF Retry
  <2>3. CASE Refuse(s)
    BY <2>3 DEF Refuse
  <2> QED
    BY <2>1, <2>2, <2>3
<1> QED
  <2> HIDE DEF wait, ask, r
  <2> QED
    BY <1>2, <1>3, RequestStep
\* A plain content of a url is a body.
LEMMA PlainIs ==
    ASSUME NEW u \in Url, NEW c \in Offers[u]
    PROVE  Plain(c) \in Bodies /\ Plain(c).content = c /\ Plain(c).hex = 0
BY DEF Plain, Bodies, AnyContent

\* What a url publishes is a body that was published under it.
LEMMA PublishedIs ==
    ASSUME PlaneInv, NEW u \in Url
    PROVE  Plain(published[u]) \in Bodies /\ Plain(published[u]).content \in ever[u]
BY DEF Plain, Bodies, PlaneInv, PlaneTypeInv, EverInv

\* Respond: an answer of the source is stored, then taken as the newest of its url.
LEMMA RespondKeeps ==
    ASSUME PlaneInv, NEW s \in Slot, Respond(s)
    PROVE  PlaneInv'
<1> DEFINE r == request[s]
           n == HomeOf[s]
           u == Head(r.steps).url
           body == Plain(published[u])
           e == Entry(u, body)
           large == Plans[r.plan].client = "plane" /\ published[u] \in Oversize
<1>1. r.pc = "asking" /\ UNCHANGED <<clock, published, ever, gossip>>
  BY DEF Respond
<1>2. Sound(r) /\ r.pc \in Busy /\ PlaneTypeInv
  BY <1>1, RequestsSound DEF Busy, PlaneInv
<1>3. n \in Node /\ Head(r.steps) \in Steps /\ u \in Url /\ clock \in Nat
  BY <1>2, StepOfPlan, RegistryAssumption DEF Steps, PlaneTypeInv
<1>4. body \in Bodies /\ body.content \in ever[u]
  BY <1>3, PublishedIs
<1>5. Sound(Finished(r, "invalid"))
  BY <1>2, FinishedSound
<1>6. CASE large
  <2>1. request' = [request EXCEPT ![s] = Finished(r, "invalid")] /\ UNCHANGED <<payloads, metas>>
    BY <1>6 DEF Respond
  <2> HIDE DEF r
  <2> QED
    BY <1>1, <1>5, <2>1, RequestStep
<1>7. CASE ~large
  <2>1. /\ Store(n, u, body)
        /\ request' = [request EXCEPT ![s] =
                IF Collides(n, u, body) THEN Finished(r, "invalid") ELSE Taken(r, e, metas'[n])]
    BY <1>7 DEF Respond
  <2>2. EverGrows
    BY <1>1 DEF EverGrows
  <2>3. StoreSound
    <3> HIDE DEF body, n, u
    <3>1. body.content \in ever'[u]
      BY <1>1, <1>4
    <3> QED
      BY <1>1, <1>3, <1>4, <2>1, <2>2, <3>1, StoreIsSound
  <2>4. ~Collides(n, u, body) => Taking(r, e, metas'[n])
    <3> SUFFICES ASSUME ~Collides(n, u, body) PROVE Taking(r, e, metas'[n])
      OBVIOUS
    <3> DEFINE q == metas[n]
    <3>1. metas'[n] = Append(q, e)
      BY <1>2, <1>3, <2>1 DEF Store, PlaneTypeInv
    <3>2. /\ e \in Snapshots /\ e.source = SourceOf[u] /\ e.url = u
          /\ e.body = body /\ e.at = clock
      BY <1>2, <1>3, <1>4, EntryIs
    <3>3. q \in Seq(Snapshots) /\ metas'[n] \in Seq(Snapshots)
      BY <1>3, <1>2, <2>3 DEF PlaneTypeInv, StoreSound
    <3>4. Specs[SourceOf[u]].freshness \in Nat /\ clock - clock <= Specs[SourceOf[u]].freshness
      <4>1. Specs[SourceOf[u]].freshness \in Nat
        BY <1>3, RegistryAssumption
      <4> HIDE DEF u
      <4> QED
        BY <1>3, <4>1
    <3> HIDE DEF e, body, q
    <3>5. /\ Len(q) + 1 \in DOMAIN metas'[n] /\ metas'[n][Len(q) + 1] = e
          /\ \A i \in DOMAIN metas'[n] : i <= Len(q) + 1
      BY <3>1, <3>3
    <3> HIDE DEF r, n
    <3> QED
      BY <1>4, <3>2, <3>3, <3>4, <3>5 DEF Taking, u
  <2> DEFINE new == IF Collides(n, u, body) THEN Finished(r, "invalid") ELSE Taken(r, e, metas'[n])
             R == [request EXCEPT ![s] = new]
  <2>5. Sound(new)
    <3> HIDE DEF r, e, n, u, body
    <3> QED
      BY <1>2, <1>5, <2>4, TakenSound
  <2>6. R \in [Slot -> RequestStates] /\ request' = R
    <3> HIDE DEF new
    <3> QED
      BY <1>2, <2>1, <2>5 DEF PlaneTypeInv, Sound, new
  <2>7. \A t \in Slot : Sound(R[t])
    <3> HIDE DEF new
    <3>1. \A t \in Slot : R[t] = IF t = s THEN new ELSE request[t]
      BY <1>2 DEF PlaneTypeInv
    <3> HIDE DEF R
    <3> QED
      BY <2>5, <3>1, RequestsSound
  <2>8. /\ clock' \in Nat /\ published' \in [Url -> AnyContent] /\ ever' \in [Url -> SUBSET AnyContent]
        /\ \A x \in Url : published'[x] \in ever'[x]
    BY <1>1 DEF PlaneInv, PlaneTypeInv, EverInv
  <2>9. GossipSound(gossip) /\ gossip' = gossip
    BY <1>1, GossipIsSound
  <2> HIDE DEF R
  <2> QED
    BY <2>2, <2>3, <2>6, <2>7, <2>8, <2>9, Reassemble DEF GossipSound
<1> QED
  BY <1>6, <1>7
\* A payload without its metadata is on no list.
LEMMA CutShortSound ==
    ASSUME PlaneInv, NEW n \in Node, NEW u \in Url, NEW body \in Bodies, CutShort(n, u, body),
           UNCHANGED <<clock, ever>>
    PROVE  StoreSound
<1> DEFINE id == <<SourceOf[u], body>>
<1>1. payloads' = [payloads EXCEPT ![n] = @ \cup {id}] /\ UNCHANGED metas
  BY DEF CutShort
<1>2. id \in Ids /\ PlaneTypeInv
  BY RegistryAssumption DEF Ids, PlaneInv
<1> HIDE DEF id
<1>3. payloads' \in [Node -> SUBSET Ids] /\ \A k \in Node : payloads[k] \subseteq payloads'[k]
  BY <1>1, <1>2 DEF PlaneTypeInv
<1>4. metas' \in [Node -> Seq(Snapshots)]
  BY <1>1, <1>2 DEF PlaneTypeInv
<1>5. ListedIsReadable' /\ \A k \in Node : Listed(k) \subseteq Listed(k)'
  BY <1>1, <1>3 DEF ListedIsReadable, Listed, PlaneInv
<1>6. \A k \in Node : \A m \in Range(metas'[k]) : m.body.content \in ever'[m.url]
  BY <1>1 DEF PlaneInv, EverInv
<1>7. OrderInv'
  BY <1>1 DEF PlaneInv, OrderInv
<1> QED
  BY <1>3, <1>4, <1>5, <1>6, <1>7 DEF StoreSound

\* DieStoring: a service that dies between the two files leaves a payload that is not
\* listed, and forgets what it was doing.
LEMMA DieStoringKeeps ==
    ASSUME PlaneInv, NEW n \in Node, NEW u \in Url, NEW body \in Bodies, DieStoring(n, u, body)
    PROVE  PlaneInv'
<1> DEFINE R == [t \in Slot |-> IF HomeOf[t] = n /\ request[t].pc # "done"
                                THEN Idle ELSE request[t]]
           G == [gossip EXCEPT ![n] = NoPeer]
<1>1. /\ CutShort(n, u, body) /\ UNCHANGED <<clock, published, ever>>
      /\ request' = R /\ gossip' = G
  BY DEF DieStoring, Restart
<1>5. EverGrows
  BY <1>1 DEF EverGrows
<1>6. StoreSound
  BY <1>1, CutShortSound
<1>7. Sound(Idle)
  <2>1. << >> \in Seq(Steps) /\ << >> \in Seq(Answers)
    OBVIOUS
  <2>2. Idle \in RequestStates
    BY <2>1 DEF Idle, RequestStates
  <2>3. Idle.pc = "idle" /\ Idle.got = << >>
    BY DEF Idle
  <2> QED
    BY <2>2, <2>3 DEF Sound, OnPlan, Busy
<1>8. R \in [Slot -> RequestStates] /\ \A t \in Slot : Sound(R[t])
  <2>1. \A t \in Slot : Sound(R[t])
    BY <1>7, RequestsSound
  <2> QED
    BY <2>1 DEF Sound
<1>9. GossipSound(G)
  BY GossipIsSound, GossipEnds
<1>10. /\ clock' \in Nat /\ published' \in [Url -> AnyContent] /\ ever' \in [Url -> SUBSET AnyContent]
       /\ \A x \in Url : published'[x] \in ever'[x]
  BY <1>1 DEF PlaneInv, PlaneTypeInv, EverInv
<1> HIDE DEF R, G
<1> QED
  BY <1>1, <1>5, <1>6, <1>8, <1>9, <1>10, Reassemble DEF GossipSound

LEMMA DieRespondingKeeps ==
    ASSUME PlaneInv, NEW s \in Slot, DieResponding(s)
    PROVE  PlaneInv'
<1> DEFINE r == request[s]
           u == Head(r.steps).url
<1>1. r.pc = "asking" /\ DieStoring(HomeOf[s], u, Plain(published[u]))
  BY DEF DieResponding
<1>2. Sound(r) /\ r.pc \in Busy
  BY <1>1, RequestsSound DEF Busy, PlaneInv
<1>3. HomeOf[s] \in Node /\ Head(r.steps) \in Steps /\ u \in Url
  BY <1>2, StepOfPlan, RegistryAssumption DEF Steps
<1>4. Plain(published[u]) \in Bodies
  BY <1>3, PublishedIs
<1> HIDE DEF u
<1> QED
  BY <1>1, <1>3, <1>4, DieStoringKeeps

\* The requests are sound and the synchronizations as they were.
LEMMA OthersStay ==
    ASSUME PlaneInv, EverGrows, StoreSound, UNCHANGED <<request, gossip>>,
           clock' \in Nat, published' \in [Url -> AnyContent], ever' \in [Url -> SUBSET AnyContent],
           \A u \in Url : published'[u] \in ever'[u]
    PROVE  PlaneInv'
<1>1. request \in [Slot -> RequestStates] /\ \A s \in Slot : Sound(request[s])
  BY RequestsSound DEF PlaneInv, PlaneTypeInv
<1>2. GossipSound(gossip)
  BY GossipIsSound
<1> QED
  BY <1>1, <1>2, Reassemble DEF GossipSound

\* Import: an operator's file is a content of its url from then on.
LEMMA ImportKeeps ==
    ASSUME PlaneInv, NEW n \in Node, NEW u \in Url, NEW c \in Offers[u], Import(n, u, c)
    PROVE  PlaneInv'
<1>1. /\ Store(n, u, Plain(c)) /\ ever' = [ever EXCEPT ![u] = @ \cup {c}]
      /\ UNCHANGED <<clock, published, request, gossip>>
  BY DEF Import
<1>2. Plain(c) \in Bodies /\ Plain(c).content = c /\ c \in AnyContent
  BY PlainIs DEF AnyContent
<1>3. /\ ever' \in [Url -> SUBSET AnyContent] /\ c \in ever'[u]
      /\ \A x \in Url : ever[x] \subseteq ever'[x]
  BY <1>1, <1>2 DEF PlaneInv, PlaneTypeInv
<1>4. EverGrows
  BY <1>3 DEF EverGrows
<1>5. StoreSound
  BY <1>1, <1>2, <1>3, <1>4, StoreIsSound
<1>6. /\ clock' \in Nat /\ published' \in [Url -> AnyContent]
      /\ \A x \in Url : published'[x] \in ever'[x]
  BY <1>1, <1>3 DEF PlaneInv, PlaneTypeInv, EverInv
<1> QED
  BY <1>1, <1>3, <1>4, <1>5, <1>6, OthersStay

LEMMA DieImportingKeeps ==
    ASSUME PlaneInv, NEW n \in Node, NEW u \in Url, NEW c \in Offers[u], DieImporting(n, u, c)
    PROVE  PlaneInv'
<1>1. CutShort(n, u, Plain(c)) /\ UNCHANGED <<clock, published, ever, request, gossip>>
  BY DEF DieImporting
<1>2. Plain(c) \in Bodies
  BY PlainIs DEF AnyContent
<1>3. EverGrows
  BY <1>1 DEF EverGrows
<1>4. StoreSound
  BY <1>1, <1>2, CutShortSound
<1>5. /\ clock' \in Nat /\ published' \in [Url -> AnyContent] /\ ever' \in [Url -> SUBSET AnyContent]
      /\ \A x \in Url : published'[x] \in ever'[x]
  BY <1>1 DEF PlaneInv, PlaneTypeInv, EverInv
<1> QED
  BY <1>1, <1>3, <1>4, <1>5, OthersStay

\* Publish: a source publishes something else.
LEMMA PublishKeeps ==
    ASSUME PlaneInv, NEW u \in Url, NEW c \in Offers[u], Publish(u, c)
    PROVE  PlaneInv'
<1>1. /\ published' = [published EXCEPT ![u] = c] /\ ever' = [ever EXCEPT ![u] = @ \cup {c}]
      /\ UNCHANGED <<clock, payloads, metas, request, gossip>>
  BY DEF Publish
<1>2. c \in AnyContent
  BY DEF AnyContent
<1>3. /\ ever' \in [Url -> SUBSET AnyContent] /\ c \in ever'[u]
      /\ \A x \in Url : ever[x] \subseteq ever'[x]
  BY <1>1, <1>2 DEF PlaneInv, PlaneTypeInv
<1>4. EverGrows
  BY <1>3 DEF EverGrows
<1>5. clock' \in Nat /\ clock <= clock'
  BY <1>1 DEF PlaneInv, PlaneTypeInv
<1>6. StoreSound
  BY <1>1, <1>4, <1>5, UntouchedSound
<1>7. /\ published' \in [Url -> AnyContent]
      /\ \A x \in Url : published'[x] \in ever'[x]
  BY <1>1, <1>2, <1>3 DEF PlaneInv, PlaneTypeInv, EverInv
<1> QED
  BY <1>1, <1>3, <1>4, <1>5, <1>6, <1>7, OthersStay

LEMMA TickKeeps ==
    ASSUME PlaneInv, Tick
    PROVE  PlaneInv'
<1>1. clock' = clock + 1 /\ UNCHANGED <<published, ever, payloads, metas, request, gossip>>
  BY DEF Tick
<1>2. clock' \in Nat /\ clock <= clock'
  BY <1>1 DEF PlaneInv, PlaneTypeInv
<1>3. EverGrows
  BY <1>1 DEF EverGrows
<1>4. StoreSound
  BY <1>1, <1>2, <1>3, UntouchedSound
<1>5. /\ published' \in [Url -> AnyContent] /\ ever' \in [Url -> SUBSET AnyContent]
      /\ \A x \in Url : published'[x] \in ever'[x]
  BY <1>1 DEF PlaneInv, PlaneTypeInv, EverInv
<1> QED
  BY <1>1, <1>2, <1>3, <1>4, <1>5, OthersStay
\* SyncBegin and SyncAbort: what is missed is listed by the peer, or nothing is missed.
LEMMA SyncBeginKeeps ==
    ASSUME PlaneInv, NEW n \in Node, NEW peer \in Node, SyncBegin(n, peer)
    PROVE  PlaneInv'
<1> DEFINE new == [peer |-> peer, missing |-> Listed(peer) \ Listed(n)]
           G == [gossip EXCEPT ![n] = new]
<1>1. gossip' = G /\ UNCHANGED <<clock, published, ever, payloads, metas, request>>
  BY DEF SyncBegin
<1>2. request \in [Slot -> RequestStates] /\ \A s \in Slot : Sound(request[s])
  BY RequestsSound DEF PlaneInv, PlaneTypeInv
<1>3. Listed(peer) \subseteq Ids
  BY DEF PlaneInv, PlaneTypeInv, ListedIsReadable
<1>4. /\ new \in [peer : Node \cup {"none"}, missing : SUBSET Ids]
      /\ new.peer = peer /\ new.missing \subseteq Listed(peer)
  BY <1>3
<1> HIDE DEF new
<1>5. GossipSound(G)
  <2>1. GossipSound(gossip)
    BY GossipIsSound
  <2>2. G \in [Node -> [peer : Node \cup {"none"}, missing : SUBSET Ids]]
    BY <1>4, <2>1 DEF GossipSound
  <2>3. \A k \in Node : G[k] = IF k = n THEN new ELSE gossip[k]
    BY <2>1 DEF GossipSound
  <2> HIDE DEF G
  <2> QED
    BY <1>4, <2>1, <2>2, <2>3 DEF GossipSound
<1> HIDE DEF G
<1> QED
  BY <1>1, <1>2, <1>5, QuietStep

LEMMA SyncAbortKeeps ==
    ASSUME PlaneInv, NEW n \in Node, SyncAbort(n)
    PROVE  PlaneInv'
<1>1. /\ gossip' = [gossip EXCEPT ![n] = NoPeer]
      /\ UNCHANGED <<clock, published, ever, payloads, metas, request>>
  BY DEF SyncAbort
<1>2. request \in [Slot -> RequestStates] /\ \A s \in Slot : Sound(request[s])
  BY RequestsSound DEF PlaneInv, PlaneTypeInv
<1>3. GossipSound([gossip EXCEPT ![n] = NoPeer])
  BY GossipIsSound, GossipEnds
<1> QED
  BY <1>1, <1>2, <1>3, QuietStep

\* What is copied: a snapshot the peer lists, encoded once more.
LEMMA CopyIs ==
    ASSUME PlaneInv, NEW n \in Node, NEW id \in gossip[n].missing
    PROVE  /\ Original(n, id).url \in Url /\ Copy(id) \in Bodies
           /\ Copy(id).content \in ever[Original(n, id).url]
<1> DEFINE peer == gossip[n].peer
           entry == CHOOSE m \in Range(metas[peer]) : <<m.source, m.body>> = id
<1>1. Original(n, id) = entry
  BY DEF Original
<1>2. GossipSound(gossip)
  BY GossipIsSound
<1>3. peer \in Node /\ id \in Listed(peer)
  BY <1>2 DEF GossipSound
<1>4. entry \in Range(metas[peer]) /\ <<entry.source, entry.body>> = id
  <2>1. \E m \in Range(metas[peer]) : <<m.source, m.body>> = id
    BY <1>3 DEF Listed
  <2> QED
    BY <2>1
<1> HIDE DEF entry
<1>5. entry \in Snapshots /\ entry.url \in Url /\ entry.body \in Bodies
  <2>1. metas[peer] \in Seq(Snapshots)
    BY <1>3 DEF PlaneInv, PlaneTypeInv
  <2>2. entry \in Snapshots
    BY <1>4, <2>1 DEF Range
  <2> QED
    BY <2>2 DEF Snapshots
<1>6. Copy(id) \in Bodies /\ Copy(id).content = entry.body.content
  <2>1. id[2] = entry.body
    BY <1>4
  <2> QED
    BY <1>5, <2>1 DEF Bodies, Copy
<1>7. entry.body.content \in ever[entry.url]
  BY <1>3, <1>4 DEF PlaneInv, EverInv
<1> QED
  BY <1>1, <1>5, <1>6, <1>7

LEMMA DieCopyingKeeps ==
    ASSUME PlaneInv, NEW n \in Node, NEW id \in gossip[n].missing, DieCopying(n, id)
    PROVE  PlaneInv'
BY CopyIs, DieStoringKeeps DEF DieCopying

\* SyncOne: a copy is encoded once more and stored under the url of the original.
LEMMA SyncOneKeeps ==
    ASSUME PlaneInv, NEW n \in Node, NEW id \in gossip[n].missing, SyncOne(n, id)
    PROVE  PlaneInv'
<1> DEFINE entry == Original(n, id)
           body == Copy(id)
           new == IF Collides(n, entry.url, body) \/ gossip[n].missing = {id} THEN NoPeer
                  ELSE [gossip[n] EXCEPT !.missing = @ \ {id}]
           G == [gossip EXCEPT ![n] = new]
<1>1. /\ Store(n, entry.url, body) /\ UNCHANGED <<clock, published, ever, request>>
      /\ gossip' = G
  <2>1. n \in DOMAIN gossip
    BY DEF PlaneInv, PlaneTypeInv
  <2> QED
    BY <2>1 DEF SyncOne
<1>2. GossipSound(gossip)
  BY GossipIsSound
<1>5. entry.url \in Url /\ body \in Bodies /\ body.content \in ever[entry.url]
  BY CopyIs
<1> HIDE DEF entry, body
<1>8. EverGrows
  BY <1>1 DEF EverGrows
<1>9. StoreSound
  <2>1. body.content \in ever'[entry.url]
    BY <1>1, <1>5
  <2> QED
    BY <1>1, <1>5, <1>8, <2>1, StoreIsSound
<1>10. GossipSound(G)
  <2> DEFINE less == [gossip[n] EXCEPT !.missing = @ \ {id}]
  <2>1. /\ gossip[n] \in [peer : Node \cup {"none"}, missing : SUBSET Ids]
        /\ gossip[n].peer \in Node /\ gossip[n].missing \subseteq Listed(gossip[n].peer)
    BY <1>2 DEF GossipSound
  <2>2. /\ less \in [peer : Node \cup {"none"}, missing : SUBSET Ids]
        /\ less.peer \in Node /\ less.missing \subseteq Listed(less.peer)
    BY <2>1
  <2>3. GossipSound([gossip EXCEPT ![n] = NoPeer])
    BY <1>2, GossipEnds
  <2>4. GossipSound([gossip EXCEPT ![n] = less])
    <3> DEFINE L == [gossip EXCEPT ![n] = less]
    <3> HIDE DEF less
    <3>1. L \in [Node -> [peer : Node \cup {"none"}, missing : SUBSET Ids]]
      BY <1>2, <2>2 DEF GossipSound
    <3>2. \A k \in Node : L[k] = IF k = n THEN less ELSE gossip[k]
      BY <1>2 DEF GossipSound
    <3> HIDE DEF L
    <3>3. GossipSound(L)
      BY <1>2, <2>2, <3>1, <3>2 DEF GossipSound
    <3> QED
      BY <3>3 DEF L
  <2>5. new = NoPeer \/ new = less
    OBVIOUS
  <2> HIDE DEF new, less
  <2> QED
    BY <2>3, <2>4, <2>5
<1>11. /\ clock' \in Nat /\ published' \in [Url -> AnyContent] /\ ever' \in [Url -> SUBSET AnyContent]
       /\ \A x \in Url : published'[x] \in ever'[x]
  BY <1>1 DEF PlaneInv, PlaneTypeInv, EverInv
<1>12. request \in [Slot -> RequestStates] /\ \A s \in Slot : Sound(request[s])
  BY RequestsSound DEF PlaneInv, PlaneTypeInv
<1> HIDE DEF G
<1> QED
  BY <1>1, <1>8, <1>9, <1>10, <1>11, <1>12, Reassemble DEF GossipSound

-----------------------------------------------------------------------------
(* The results.                                                            *)

LEMMA PlaneInitially == Init => PlaneInv
<1> SUFFICES ASSUME Init PROVE PlaneInv
  OBVIOUS
<1> USE DEF Init
<1>1. \A u \in Url : published[u] \in Offers[u] /\ published[u] \in AnyContent
  BY RegistryAssumption DEF AnyContent
<1>2. Idle \in RequestStates /\ Idle.pc = "idle" /\ Idle.got = << >>
  <2>1. << >> \in Seq(Steps) /\ << >> \in Seq(Answers)
    OBVIOUS
  <2> QED
    BY <2>1 DEF Idle, RequestStates
<1>3. NoPeer \in [peer : Node \cup {"none"}, missing : SUBSET Ids] /\ NoPeer.missing = {}
  BY DEF NoPeer
<1>4. \A n \in Node : metas[n] = << >> /\ Range(metas[n]) = {} /\ Listed(n) = {}
  BY DEF Range, Listed
<1>5. PlaneTypeInv
  <2>1. published \in [Url -> AnyContent] /\ ever \in [Url -> SUBSET AnyContent]
    BY <1>1
  <2>2. metas \in [Node -> Seq(Snapshots)] /\ payloads \in [Node -> SUBSET Ids] /\ clock \in Nat
    OBVIOUS
  <2>3. request \in [Slot -> RequestStates]
    BY <1>2
  <2>4. gossip \in [Node -> [peer : Node \cup {"none"}, missing : SUBSET Ids]]
    BY <1>3
  <2> QED
    BY <2>1, <2>2, <2>3, <2>4 DEF PlaneTypeInv
<1>6. ListedIsReadable
  BY <1>4 DEF ListedIsReadable
<1>7. EverInv
  BY <1>4 DEF EverInv
<1>8. OrderInv
  BY <1>4 DEF OrderInv
<1>9. MissingInv
  BY <1>3 DEF MissingInv
<1>10. RequestInv
  BY <1>2 DEF RequestInv, OnPlan, Busy
<1> QED
  BY <1>5, <1>6, <1>7, <1>8, <1>9, <1>10 DEF PlaneInv

LEMMA PlaneStep == PlaneInv /\ [Next]_vars => PlaneInv'
<1> SUFFICES ASSUME PlaneInv, [Next]_vars PROVE PlaneInv'
  OBVIOUS
<1>1. ASSUME NEW s \in Slot, Proceed(s) PROVE PlaneInv'
  BY <1>1, LookupKeeps, AttemptKeeps, RespondKeeps DEF Proceed
<1>2. ASSUME NEW n \in Node, Synchronize(n) PROVE PlaneInv'
  BY <1>2, SyncAbortKeeps, SyncOneKeeps DEF Synchronize
<1>3. CASE UNCHANGED vars
  <2>1. UNCHANGED <<clock, published, ever, payloads, metas, request, gossip>>
    BY <1>3 DEF vars
  <2>2. request \in [Slot -> RequestStates] /\ \A s \in Slot : Sound(request[s])
    BY RequestsSound DEF PlaneInv, PlaneTypeInv
  <2>3. GossipSound(gossip)
    BY GossipIsSound
  <2> QED
    BY <2>1, <2>2, <2>3, QuietStep
<1> QED
  BY <1>1, <1>2, <1>3, DieRespondingKeeps, DieImportingKeeps, DieCopyingKeeps, AskKeeps,
     SyncBeginKeeps, ImportKeeps, PublishKeeps, TickKeeps
  DEF Next

\* store(), latest() and read(): whatever is interrupted, imported or copied by gossip, on
\* any number of nodes, a listed snapshot has its payload.
THEOREM ListedAlwaysReadable == Spec => []ListedIsReadable
<1>1. PlaneInv => ListedIsReadable
  BY DEF PlaneInv
<1> QED
  BY <1>1, PlaneInitially, PlaneStep, PTL DEF Spec

\* fetch_url(), the ingestor and the adapters: an answer is always a content published or
\* imported under the url that was asked for, young enough or just fetched, and the
\* snapshot it names is the one that was read, although an adapter looks it up again.
THEOREM AnswersAlwaysAsPublished == Spec => []AnswersAsPublished
<1>1. PlaneInv => AnswersAsPublished
  BY DEF PlaneInv, RequestInv, EverInv, AnswersAsPublished, Faithful
<1> QED
  BY <1>1, PlaneInitially, PlaneStep, PTL DEF Spec
=============================================================================
