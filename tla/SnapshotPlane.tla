---------------------------- MODULE SnapshotPlane -----------------------------
(***************************************************************************)
(* The snapshot caches of a few nodes: requests that are answered from the *)
(* cache or fetched, files that are imported, and the gossip that copies   *)
(* snapshots between nodes.  A node is one process with an event loop, so  *)
(* what runs between two awaits is one step; the process may die between   *)
(* the two files of a snapshot.  The files of a cache are kept in the      *)
(* order of their retrieval times.                                         *)
(***************************************************************************)
EXTENDS Integers, Sequences, SequencesExt, FiniteSets, FiniteSetsExt

-----------------------------------------------------------------------------
(***************************************************************************)
(* What the parsers and adapters make of a public payload.  A content is   *)
(* its shape and its rows, a row what the adapter of its source looks at.  *)
(* Text that was encoded as hexadecimal is of no shape a parser expects.   *)
(***************************************************************************)

Shapes == {"list", "object", "collection", "workbook", "table", "text"}

\* _records() and the decoding before it: the shapes a parser accepts.  A table is read
\* from any text: what is no table has no rows.
Parses(parser, c) ==
    CASE parser = "csv" -> c.shape \in {"table", "text"}
      [] parser = "xlsx" -> c.shape = "workbook"
      [] parser \in {"json", "geojson"} -> c.shape \in {"list", "object", "collection"}

RecordCount(c) == IF c.shape = "object" THEN 1
                  ELSE IF c.shape = "text" THEN 0 ELSE Len(c.rows)

\* ECCC alerts: every feature with properties is an event; what is missing is flagged.
AlertFlags(row) ==
    {flag \in {"expired_at_normalization", "nonstandard_confidence", "missing_geometry"} :
        CASE flag = "expired_at_normalization" -> row.expired
          [] flag = "nonstandard_confidence" -> ~row.confident
          [] flag = "missing_geometry" -> ~row.located}

Alerts(c) ==
    LET rows == SelectSeq(c.rows, LAMBDA row : row.properties)
    IN [i \in DOMAIN rows |-> AlertFlags(rows[i])]

\* The disaster database: a dated row with an id is an event, and one indicator more for
\* every column that holds a number.
Events(c) ==
    FlattenSeq([i \in DOMAIN c.rows |->
        IF c.rows[i].dated /\ c.rows[i].id
        THEN [j \in 1..(1 + c.rows[i].numbers) |-> {"aggregated_secondary_source", "not_primary_source"}]
        ELSE << >>])

\* Water levels: an item that is no object refuses the whole answer; one without a date or
\* a number is passed over; the others carry their quality flags.
LevelFlags(row) ==
    (IF row.qc # 1 THEN {"qc"} ELSE {}) \cup (IF row.reviewed THEN {} ELSE {"not_reviewed"})

Levels(c) ==
    LET rows == SelectSeq(c.rows, LAMBDA row : row.dated /\ row.number)
    IN [i \in DOMAIN rows |-> LevelFlags(rows[i])]

LevelsRefused(c) ==
    \/ c.shape # "list" \/ Levels(c) = << >>
    \/ \E i \in DOMAIN c.rows : ~c.rows[i].object

\* The first station that operates and has a series of observed water levels.
OperatingStation(c) == \E i \in DOMAIN c.rows : c.rows[i].operating /\ c.rows[i].wlo

\* CelesTrak: the records with an id and an epoch are counted.
Objects(c) == SelectSeq(c.rows, LAMBDA row : row.id /\ row.epoch)

\* NSIDC: the anomaly of an extent against the median of its day in the years 1981-2010;
\* days without one are passed over.
Median(values) ==
    LET sorted == SortSeq(values, LAMBDA a, b : a < b)
        n == Len(sorted)
    IN IF n % 2 = 1 THEN sorted[(n + 1) \div 2]
       ELSE (sorted[n \div 2] + sorted[n \div 2 + 1]) \div 2

Anomalies(c) ==
    LET rows == IF c.shape = "table" THEN SelectSeq(c.rows, LAMBDA row : row.extent >= 0)
                ELSE << >>
        baseline(day) ==
            LET past == SelectSeq(rows, LAMBDA row : row.baseline /\ row.day = day)
            IN [i \in DOMAIN past |-> past[i].extent]
        usable == SelectSeq(rows, LAMBDA row : baseline(row.day) # << >>)
    IN [i \in DOMAIN usable |-> usable[i].extent - Median(baseline(usable[i].day))]

\* What an adapter returns for a body; it raises when there is nothing to return.
Indicators(adapter, c) ==
    CASE adapter = "alerts" -> Alerts(c)
      [] adapter = "events" -> Events(c)
      [] adapter = "levels" -> Levels(c)
      [] adapter = "stations" -> c.rows
      [] adapter = "geometry" -> Objects(c)
      [] adapter = "extent" -> Anomalies(c)
      [] adapter = "coverage" -> c.rows
      [] adapter = "none" -> << >>

Raises(adapter, c) ==
    CASE adapter = "alerts" -> c.shape # "collection"
      [] adapter = "events" -> c.shape # "workbook" \/ Events(c) = << >>
      [] adapter = "levels" -> LevelsRefused(c)
      [] adapter = "stations" -> c.shape # "list" \/ ~OperatingStation(c)
      [] adapter = "geometry" -> c.shape # "list" \/ Objects(c) = << >>
      [] adapter = "extent" -> FALSE
      [] adapter = "coverage" -> c.shape # "collection"
      [] adapter = "none" -> FALSE

-----------------------------------------------------------------------------
(* The caches, the requests and the gossip.                                *)

CONSTANTS
    Node, Slot,
    HomeOf,        \* slot |-> the node that serves its request
    Specs,         \* source |-> [parser, freshness, keyed]
    SourceOf,      \* url |-> source
    Contents,      \* the name of a content |-> its shape and rows
    Offers,        \* url |-> the names of the contents it may have
    Plans,         \* request |-> [client, steps: << [url, adapter] >>]
    Oversize,      \* contents above the size limit
    Outbound,      \* the nodes that may use the network
    Importers,     \* the nodes whose operator imports files
    Keys,          \* the sources whose key is configured
    MaxClock,      \* bound: hours
    MaxMoves,      \* bound, for every source: requests, imports, publications, synchronizations and deaths
    MaxHex         \* bound: how often a payload is encoded again

VARIABLES
    clock,
    published,  \* url |-> its content now
    ever,       \* url |-> the contents published or imported under it so far
    payloads,   \* node |-> the payload files, as <<source, body>>
    metas,      \* node |-> the metadata files, the oldest first
    request,    \* slot |-> its request
    focus,      \* the source that is asked for
    moves,      \* the requests, imports, publications, synchronizations and deaths so far
    gossip      \* node |-> the peer it synchronizes with and the snapshots it misses

vars == <<clock, published, ever, payloads, metas, request, focus, moves, gossip>>

Move == moves < MaxMoves[focus] /\ moves' = moves + 1 /\ UNCHANGED focus

Url == DOMAIN SourceOf

\* A request is served by its node; every url belongs to a source and offers something.
ASSUME RegistryAssumption ==
    /\ HomeOf \in [Slot -> Node] /\ "none" \notin Node
    /\ \A u \in Url :
          /\ SourceOf[u] \in DOMAIN Specs /\ Offers[u] # {}
          /\ Specs[SourceOf[u]].freshness \in Nat
          /\ Specs[SourceOf[u]].parser \in {"csv", "xlsx", "json", "geojson"}

Adapters == {"alerts", "events", "levels", "stations", "geometry", "extent", "coverage", "none"}

\* The sources whose payload is a table, for which any text will do.
Tabular(u) == \A c \in Offers[u] : Contents[c].shape = "table"

\* A plan has steps.  What is read as a table, by the parser of the plane or by the adapter
\* of the ingestor, is a source of tables, and the ingestor always has an adapter.
ASSUME PlanAssumption ==
    \A p \in DOMAIN Plans :
        /\ Plans[p].client \in {"plane", "ingestor"}
        /\ Plans[p].steps \in Seq([url : Url, adapter : Adapters]) /\ Plans[p].steps # << >>
        /\ \A i \in DOMAIN Plans[p].steps :
              LET step == Plans[p].steps[i]
              IN IF Plans[p].client = "plane"
                 THEN Specs[SourceOf[step.url]].parser = "csv" => Tabular(step.url)
                 ELSE /\ step.adapter # "none"
                      /\ step.adapter = "extent" => Tabular(step.url)

Plain(content) == [content |-> content, hex |-> 0]
Content(body) == IF body.hex = 0 THEN Contents[body.content] ELSE [shape |-> "text", rows |-> << >>]

Idle == [pc |-> "idle", plan |-> "none", steps |-> << >>, force |-> FALSE, tries |-> 0,
         got |-> << >>, outcome |-> "none"]
Busy == {"lookup", "asking", "waiting"}
NoPeer == [peer |-> "none", missing |-> {}]

Init ==
    /\ clock = 0
    /\ published = [u \in Url |-> CHOOSE c \in Offers[u] : TRUE]
    /\ ever = [u \in Url |-> {published[u]}]
    /\ payloads = [n \in Node |-> {}]
    /\ metas = [n \in Node |-> << >>]
    /\ request = [s \in Slot |-> Idle]
    /\ focus \in DOMAIN Specs /\ moves = 0
    /\ gossip = [n \in Node |-> NoPeer]

-----------------------------------------------------------------------------
(* The cache *)

Listed(n) == {<<m.source, m.body>> : m \in Range(metas[n])}

\* Fault: the newest snapshot of the source, whatever its url.
LatestOfSource(n, u, maxAge) ==
    {i \in DOMAIN metas[n] :
        metas[n][i].source = SourceOf[u] /\ clock - metas[n][i].at <= maxAge}

\* latest(): where the snapshots of a url stand that are young enough; the last one is the
\* newest.
Latest(n, u, maxAge) ==
    {i \in DOMAIN metas[n] :
        /\ metas[n][i].source = SourceOf[u] /\ metas[n][i].url = u
        /\ clock - metas[n][i].at <= maxAge}

\* store(): the payload, then the metadata.  Metadata that is there already has another
\* retrieval time, so writing it again is a collision.
Collides(n, u, body) == <<SourceOf[u], body>> \in Listed(n)

Entry(u, body) == [source |-> SourceOf[u], url |-> u, body |-> body, at |-> clock]

Store(n, u, body) ==
    /\ payloads' = [payloads EXCEPT ![n] = @ \cup {<<SourceOf[u], body>>}]
    /\ metas' = IF Collides(n, u, body) THEN metas
                ELSE [metas EXCEPT ![n] = Append(@, Entry(u, body))]

\* Fault: the metadata is written first.
CutShortListed(n, u, body) ==
    /\ metas' = IF Collides(n, u, body) THEN metas
                ELSE [metas EXCEPT ![n] = Append(@, Entry(u, body))]
    /\ UNCHANGED payloads

\* The process died after the first of the two files.
CutShort(n, u, body) ==
    /\ payloads' = [payloads EXCEPT ![n] = @ \cup {<<SourceOf[u], body>>}]
    /\ UNCHANGED metas

-----------------------------------------------------------------------------
(* Requests *)

Finished(r, outcome) == [r EXCEPT !.pc = "done", !.outcome = outcome]

\* _summarize() of what was found or fetched, and what the adapter makes of the snapshot
\* it looks up again; entries is the cache at that moment.  "invalid" is every exception of
\* a parser: the ValueErrors that become a 422, and the BadZipFile of a body that is no
\* workbook or the AttributeError of JSON that is no object, which nobody catches.  The
\* body stays stored in each case.
Taken(r, entry, entries) ==
    LET step == Head(r.steps)
        again == {i \in DOMAIN entries :
                    entries[i].source = entry.source /\ entries[i].url = step.url}
        used == IF step.adapter = "none" \/ Plans[r.plan].client = "ingestor" THEN entry
                ELSE entries[Max(again)]
    IN IF \/ Plans[r.plan].client = "plane"
             /\ ~Parses(Specs[entry.source].parser, Content(entry.body))
          \/ Raises(step.adapter, Content(used.body))
       THEN Finished(r, "invalid")
       ELSE [r EXCEPT !.got = Append(@, [url |-> step.url, snapshot |-> entry, used |-> used,
                                         taken |-> clock]),
                      !.steps = Tail(@), !.tries = 0,
                      !.pc = IF Len(r.steps) = 1 THEN "done" ELSE "lookup",
                      !.outcome = IF Len(r.steps) = 1 THEN "answered" ELSE "none"]

\* An endpoint or an ingestor is asked; only a request to the plane may force a fetch.
\* Slots are numbers, and a request takes the first free one of its node.
Ask(s, plan, force) ==
    /\ request[s].pc \in {"idle", "done"} /\ Move
    /\ \A q \in Slot : (q < s /\ HomeOf[q] = HomeOf[s]) => request[q].pc \in Busy
    /\ SourceOf[Plans[plan].steps[1].url] = focus
    /\ force => Plans[plan].client = "plane"
    /\ request' = [request EXCEPT ![s] =
            [Idle EXCEPT !.pc = "lookup", !.plan = plan, !.steps = Plans[plan].steps,
                         !.force = force]]
    /\ UNCHANGED <<clock, published, ever, payloads, metas, gossip>>

\* A fresh snapshot answers without the network.
Lookup(s) ==
    LET r == request[s]
        n == HomeOf[s]
        u == Head(r.steps).url
        source == SourceOf[u]
        cached == IF r.force THEN {} ELSE Latest(n, u, Specs[source].freshness)
    IN /\ r.pc = "lookup"
       /\ request' = [request EXCEPT ![s] =
             IF cached # {} THEN Taken(r, metas[n][Max(cached)], metas[n])
             ELSE IF n \notin Outbound \/ (Specs[source].keyed /\ source \notin Keys)
             THEN Finished(r, "unavailable")
             ELSE [r EXCEPT !.pc = "asking"]]
       /\ UNCHANGED <<clock, published, ever, payloads, metas, focus, moves, gossip>>

Attempts(client) == IF client = "plane" THEN 3 ELSE 1

\* Fault: an attempt is not counted.
TransientUncounted(s) ==
    LET r == request[s]
    IN /\ r.pc = "asking"
       /\ request' = [request EXCEPT ![s] =
             IF r.tries + 1 < Attempts(Plans[r.plan].client) THEN [r EXCEPT !.pc = "waiting"]
             ELSE Finished(r, "failed")]
       /\ UNCHANGED <<clock, published, ever, payloads, metas, focus, moves, gossip>>

\* The source is busy: the plane tries three times, the ingestor once.
Transient(s) ==
    LET r == request[s]
    IN /\ r.pc = "asking"
       /\ request' = [request EXCEPT ![s] =
             IF r.tries + 1 < Attempts(Plans[r.plan].client)
             THEN [r EXCEPT !.tries = @ + 1, !.pc = "waiting"]
             ELSE Finished(r, "failed")]
       /\ UNCHANGED <<clock, published, ever, payloads, metas, focus, moves, gossip>>

\* The time to wait before the next attempt is over.
Retry(s) ==
    /\ request[s].pc = "waiting"
    /\ request' = [request EXCEPT ![s].pc = "asking"]
    /\ UNCHANGED <<clock, published, ever, payloads, metas, focus, moves, gossip>>

\* The source refuses or cannot be reached.
Refuse(s) ==
    /\ request[s].pc = "asking"
    /\ request' = [request EXCEPT ![s] = Finished(@, "failed")]
    /\ UNCHANGED <<clock, published, ever, payloads, metas, focus, moves, gossip>>

\* The answer arrives: it is stored before it is parsed.
Respond(s) ==
    LET r == request[s]
        n == HomeOf[s]
        u == Head(r.steps).url
        body == Plain(published[u])
    IN /\ r.pc = "asking"
       /\ IF Plans[r.plan].client = "plane" /\ published[u] \in Oversize
          THEN /\ request' = [request EXCEPT ![s] = Finished(r, "invalid")]
               /\ UNCHANGED <<payloads, metas>>
          ELSE /\ Store(n, u, body)
               /\ request' = [request EXCEPT ![s] =
                    IF Collides(n, u, body) THEN Finished(r, "invalid")
                    ELSE Taken(r, Entry(u, body), metas'[n])]
       /\ UNCHANGED <<clock, published, ever, focus, moves, gossip>>

\* Whatever a node was doing is lost when it dies.
Restart(n) ==
    /\ request' = [s \in Slot |-> IF HomeOf[s] = n /\ request[s].pc # "done"
                                  THEN Idle ELSE request[s]]
    /\ gossip' = [gossip EXCEPT ![n] = NoPeer]

\* The service dies between the two files of a snapshot.
DieStoring(n, u, body) ==
    /\ Move
    /\ CutShort(n, u, body)
    /\ Restart(n)
    /\ UNCHANGED <<clock, published, ever>>

\* It was storing an answer.
DieResponding(s) ==
    LET u == Head(request[s].steps).url
    IN /\ request[s].pc = "asking"
       /\ Plans[request[s].plan].client = "plane" => published[u] \notin Oversize
       /\ DieStoring(HomeOf[s], u, Plain(published[u]))

-----------------------------------------------------------------------------
(* Imports, sources, time *)

\* import_file(): an operator stores a file under a url.
Import(n, u, content) ==
    /\ Move
    /\ n \in Importers /\ SourceOf[u] = focus /\ content \in Offers[u]
    /\ ~Collides(n, u, Plain(content))
    /\ Store(n, u, Plain(content))
    /\ ever' = [ever EXCEPT ![u] = @ \cup {content}]
    /\ UNCHANGED <<clock, published, request, gossip>>

\* The command dies between the two files; the service is another process.
DieImporting(n, u, content) ==
    /\ Move
    /\ n \in Importers /\ SourceOf[u] = focus /\ content \in Offers[u]
    /\ CutShort(n, u, Plain(content))
    /\ UNCHANGED <<clock, published, ever, request, gossip>>

\* A source publishes something else.
Publish(u, content) ==
    /\ Move
    /\ SourceOf[u] = focus /\ content \in Offers[u] \ {published[u]}
    /\ published' = [published EXCEPT ![u] = content]
    /\ ever' = [ever EXCEPT ![u] = @ \cup {content}]
    /\ UNCHANGED <<clock, payloads, metas, request, gossip>>

Tick ==
    /\ clock < MaxClock
    /\ clock' = clock + 1
    /\ UNCHANGED <<published, ever, payloads, metas, request, focus, moves, gossip>>

-----------------------------------------------------------------------------
(* Gossip *)

\* The peer's manifest against the node's own.
SyncBegin(n, peer) ==
    /\ Move
    /\ gossip[n] = NoPeer /\ peer # n
    /\ Listed(peer) \ Listed(n) # {}
    /\ gossip' = [gossip EXCEPT ![n] = [peer |-> peer, missing |-> Listed(peer) \ Listed(n)]]
    /\ UNCHANGED <<clock, published, ever, payloads, metas, request>>

\* One missing snapshot: the peer sends the payload as hexadecimal text, and text is
\* stored as it is.
Original(n, id) == CHOOSE m \in Range(metas[gossip[n].peer]) : <<m.source, m.body>> = id
Copy(id) == [id[2] EXCEPT !.hex = @ + 1]

\* A collision ends the synchronization.
SyncOne(n, id) ==
    LET entry == Original(n, id)
        body == Copy(id)
    IN /\ id \in gossip[n].missing /\ body.hex <= MaxHex
       /\ Store(n, entry.url, body)
       /\ gossip' = [gossip EXCEPT ![n] =
             IF Collides(n, entry.url, body) \/ gossip[n].missing = {id} THEN NoPeer
             ELSE [gossip[n] EXCEPT !.missing = @ \ {id}]]
       /\ UNCHANGED <<clock, published, ever, request, focus, moves>>

\* The service was storing a copy when it died.
DieCopying(n, id) ==
    /\ id \in gossip[n].missing /\ Copy(id).hex <= MaxHex
    /\ DieStoring(n, Original(n, id).url, Copy(id))

\* The peer stops answering.
SyncAbort(n) ==
    /\ gossip[n] # NoPeer
    /\ gossip' = [gossip EXCEPT ![n] = NoPeer]
    /\ UNCHANGED <<clock, published, ever, payloads, metas, request, focus, moves>>

-----------------------------------------------------------------------------

Proceed(s) == Lookup(s) \/ Transient(s) \/ Retry(s) \/ Refuse(s) \/ Respond(s)

Synchronize(n) ==
    \/ SyncAbort(n)
    \/ \E id \in gossip[n].missing : SyncOne(n, id)

Next ==
    \/ \E s \in Slot : \/ Proceed(s) \/ DieResponding(s)
                       \/ \E plan \in DOMAIN Plans, force \in BOOLEAN : Ask(s, plan, force)
    \/ \E n \in Node : \/ Synchronize(n)
                       \/ \E peer \in Node : SyncBegin(n, peer)
                       \/ \E id \in gossip[n].missing : DieCopying(n, id)
                       \/ \E u \in Url : \E content \in Offers[u] :
                             Import(n, u, content) \/ DieImporting(n, u, content)
    \/ \E u \in Url : \E content \in Offers[u] : Publish(u, content)
    \/ Tick

\* The event loop runs every request and every synchronization on, and a source that
\* does not answer is an error after the timeout.
Spec ==
    /\ Init /\ [][Next]_vars
    /\ \A s \in Slot : WF_vars(Proceed(s))
    /\ \A n \in Node : WF_vars(Synchronize(n))

-----------------------------------------------------------------------------

\* A snapshot that is listed can be read: whatever was interrupted or copied, its payload
\* is there (store writes the payload before the metadata; read and latest).
ListedIsReadable == \A n \in Node : Listed(n) \subseteq payloads[n]

\* What is answered was published or imported under the url that was asked for: the
\* snapshot that is named is the one that was read, it was young enough or just fetched,
\* and neither another url of the source, nor a copy that gossip encoded again, is taken
\* for it, except that such a copy of a table is answered as a table without rows
\* (fetch_url, latest and the adapters that look the snapshot up again).
AnswersAsPublished ==
    /\ \A s \in Slot : \A i \in DOMAIN request[s].got :
          LET g == request[s].got[i]
          IN /\ g.used = g.snapshot
             /\ g.used.url = g.url
             /\ g.used.body.hex = 0 \/ (Tabular(g.url) /\ RecordCount(Content(g.used.body)) = 0)
             /\ g.used.body.content \in ever[g.url]
             /\ g.taken - g.used.at <= Specs[SourceOf[g.url]].freshness
    /\ \A n \in Node : \A m \in Range(metas[n]) : m.body.content \in ever[m.url]

\* Every request is answered or refused, and every synchronization ends, although sources
\* stay busy and peers stop (the three attempts of fetch_url; _sync_with_peer).
RequestsEnd ==
    /\ \A s \in Slot : request[s].pc \in Busy
                          ~> request[s].pc \in {"done", "idle"}
    /\ \A n \in Node : gossip[n] # NoPeer ~> gossip[n] = NoPeer
=============================================================================
