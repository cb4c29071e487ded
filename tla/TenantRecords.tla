------------------------------ MODULE TenantRecords ------------------------------
(***************************************************************************)
(* The tenant databases.  TransactionalEvidenceStore of database.py behind *)
(* the paged query of service.py, read by a client that walks the pages    *)
(* while records are inserted; and the two StorageBackends of              *)
(* enterprise_db.py, given the same calls.  A name is the sequence of its  *)
(* parts between colons, so joining two names with a colon is \o.          *)
(***************************************************************************)
EXTENDS Integers, SequencesExt

CONSTANTS
    Tenants, Corridors,   \* plain names
    AnyCorridor,          \* no corridor filter
    Numbers,              \* sequence_num
    Limits,               \* page sizes
    MaxRows,              \* bound on the evidence rows
    Owners, RecordIds,    \* tenants and record ids of the backends, in parts
    Kinds,                \* entity types
    Instants, Zones,      \* created_at: an instant and the hours its zone is ahead of UTC
    MaxStores             \* bound on store_record

ASSUME RecordsAssumption ==
    /\ AnyCorridor \notin Corridors /\ Limits \subseteq 1..1000
    /\ MaxRows \in Nat /\ MaxStores \in Nat
    /\ Numbers \subseteq Int /\ Instants \subseteq Int /\ Zones \subseteq Int

\* Splitting a string at its colons leaves at least one part.
ASSUME PartsAssumption ==
    \A name \in Owners \cup RecordIds : name \in Seq(STRING) /\ name # <<>>

VARIABLES
    rows,     \* evidence_records, in insertion order
    walk,     \* the client: its filter, offset, what it saw, what was there at first
    sqlite,   \* enterprise_records: primary key |-> record
    cache,    \* _memory_cache: its items in dictionary order
    stores

evidenceVars == <<rows, walk>>
backendVars == <<sqlite, cache, stores>>

NoWalk == [on |-> FALSE, over |-> FALSE]

-----------------------------------------------------------------------------
(* TransactionalEvidenceStore *)

Selected(t, c) ==
    {i \in DOMAIN rows : rows[i].tenant = t /\ (c = AnyCorridor \/ rows[i].corridor = c)}

\* Fault: no ORDER BY, the rows come in any order.
OrderingsAny(S) == SetToSeqs(S)

\* ORDER BY sequence_num DESC; equal numbers come in any order.
Orderings(S) ==
    {s \in SetToSeqs(S) :
        \A i, j \in DOMAIN s : i < j => rows[s[i]].number >= rows[s[j]].number}

\* LIMIT and OFFSET
Page(s, limit, offset) ==
    SubSeq(s, offset + 1, IF offset + limit < Len(s) THEN offset + limit ELSE Len(s))

\* query_records(): the pages it may answer.
Pages(t, c, limit, offset) == {Page(s, limit, offset) : s \in Orderings(Selected(t, c))}

\* count_records(): the endpoint counts the tenant's rows whatever the corridor.
TotalCount(t) == Cardinality(Selected(t, AnyCorridor))

\* insert_record(); empty names raise and the record id is fresh.
InsertRecord(t, c, n) ==
    /\ Len(rows) < MaxRows
    /\ rows' = Append(rows, [tenant |-> t, corridor |-> c, number |-> n])
    /\ UNCHANGED walk

\* A client starts at offset 0.
BeginWalk(t, c, limit) ==
    /\ ~walk.on
    /\ walk' = [on |-> TRUE, over |-> FALSE, tenant |-> t, corridor |-> c, limit |-> limit,
                offset |-> 0, seen |-> {}, began |-> Selected(t, c)]
    /\ UNCHANGED rows

\* GET /v1/database/evidence/query: a page and the total; past the total it stops.
ReadPage ==
    /\ walk.on /\ ~walk.over
    /\ \E page \in Pages(walk.tenant, walk.corridor, walk.limit, walk.offset) :
          walk' = [walk EXCEPT !.seen = @ \cup ToSet(page), !.offset = @ + walk.limit,
                               !.over = walk.offset + walk.limit >= TotalCount(walk.tenant)]
    /\ UNCHANGED rows

EvidenceInit == rows = <<>> /\ walk = NoWalk

EvidenceNext ==
    \/ \E t \in Tenants, c \in Corridors, n \in Numbers : InsertRecord(t, c, n)
    \/ \E t \in Tenants, c \in Corridors \cup {AnyCorridor}, l \in Limits : BeginWalk(t, c, l)
    \/ ReadPage

EvidenceSpec == EvidenceInit /\ [][EvidenceNext]_evidenceVars

-----------------------------------------------------------------------------
(* The storage backends *)

\* Fault: the primary key is the record id alone.
PrimaryKeyUnscoped(t, r) == <<r>>

\* PRIMARY KEY (tenant_id, record_id)
PrimaryKey(t, r) == <<t, r>>

\* f"{tenant_id}:{record_id}"
CacheKey(t, r) == t \o r

Record(t, r, kind, at, zone) ==
    [tenant |-> t, record |-> r, kind |-> kind, at |-> at, zone |-> zone, version |-> stores]

\* An assignment to a dictionary: an old key keeps its place.
Assigned(d, key, rec) ==
    LET i == SelectInSeq(d, LAMBDA x : x.key = key)
    IN IF i = 0 THEN Append(d, [key |-> key, rec |-> rec]) ELSE [d EXCEPT ![i].rec = rec]

\* store_record() of both backends.
StoreRecord(t, r, kind, at, zone) ==
    LET rec == Record(t, r, kind, at, zone) IN
    /\ stores < MaxStores
    /\ stores' = stores + 1
    /\ sqlite' = [k \in DOMAIN sqlite \cup {PrimaryKey(t, r)} |->
                     IF k = PrimaryKey(t, r) THEN rec ELSE sqlite[k]]
    /\ cache' = Assigned(cache, CacheKey(t, r), rec)

BackendInit == sqlite = <<>> /\ cache = <<>> /\ stores = 0

BackendNext ==
    \E t \in Owners, r \in RecordIds, k \in Kinds, at \in Instants, z \in Zones :
        StoreRecord(t, r, k, at, z)

BackendSpec == BackendInit /\ [][BackendNext]_backendVars

\* get_record(): the record in a set, or none.
SqliteGet(t, r) == {sqlite[k] : k \in DOMAIN sqlite \cap {PrimaryKey(t, r)}}
CacheGet(t, r) == {cache[i].rec : i \in {j \in DOMAIN cache : cache[j].key = CacheKey(t, r)}}

\* The newest first; equal times come in any order.
NewestFirst(S, time) ==
    {s \in SetToSeqs(S) : \A i, j \in DOMAIN s : i < j => time[s[i]] >= time[s[j]]}

\* The rows a query selects.
SqliteRows(t, kind) ==
    {x \in {sqlite[k] : k \in DOMAIN sqlite} : x.tenant = t /\ x.kind = kind}
CacheRows(t, kind) ==
    {x \in {cache[i].rec : i \in DOMAIN cache} : x.tenant = t /\ x.kind = kind}

\* query_records(): the answers it may give, the first `limit' rows.  SQLite compares
\* the ISO text, so the local time first, while the cache compares the instants.
LocalTime(S) == [x \in S |-> x.at + x.zone]
Instant(S) == [x \in S |-> x.at]
SqliteQuery(t, kind, limit) ==
    LET S == SqliteRows(t, kind) IN {Page(s, limit, 0) : s \in NewestFirst(S, LocalTime(S))}
CacheQuery(t, kind, limit) ==
    LET S == CacheRows(t, kind) IN {Page(s, limit, 0) : s \in NewestFirst(S, Instant(S))}

-----------------------------------------------------------------------------

\* A walk over the pages shows every row of the tenant and corridor that was there
\* when it began, and no other tenant's, whatever is inserted meanwhile; provided
\* no two of the rows share a sequence number, whose order SQL leaves open
\* (query_records, count_records).
PagesComplete ==
    walk.on =>
        /\ walk.seen \subseteq Selected(walk.tenant, walk.corridor)
        /\ (walk.over /\ \A i, j \in Selected(walk.tenant, walk.corridor) :
                             rows[i].number = rows[j].number => i = j)
              => walk.began \subseteq walk.seen

\* The rows of a query that both backends can be held to: their names have no colon,
\* their times are of one zone and no two are equal.
Comparable(S) ==
    /\ \A x \in S : Len(x.tenant) = 1 /\ Len(x.record) = 1
    /\ \A x, y \in S : x.zone = y.zone /\ (x.at = y.at => x = y)

\* Both backends answer every get under names without a colon alike, whatever else is
\* stored under names that have one; and a query has one and the same answer for every
\* limit when the rows it selects, in either backend, are comparable, whatever other
\* tenants and kinds hold (StorageBackend).
BackendsAgree ==
    /\ \A t \in Owners, r \in RecordIds :
          (Len(t) = 1 /\ Len(r) = 1) => SqliteGet(t, r) = CacheGet(t, r)
    /\ \A t \in Owners, k \in Kinds :
          Comparable(SqliteRows(t, k) \cup CacheRows(t, k)) =>
              \A limit \in Limits :
                  LET answers == CacheQuery(t, k, limit)
                  IN SqliteQuery(t, k, limit) = answers /\ \A a, b \in answers : a = b

=============================================================================
