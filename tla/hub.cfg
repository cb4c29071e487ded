SPECIFICATION Spec
CHECK_DEADLOCK FALSE
SYMMETRY KindsAlike
CONSTANTS
    Streams = {s1, s2}
    Capacity = 2
    BufferSize = 3
    MaxEvents = 5
    Clients = {a, b, c}
    Threads = {t1, t2}
    Limit = 2
    Window = 2
    MaxKeys = 2
    NoClient = NoClient
    MaxTime = 3
    MaxCalls = 6
    Peers = {p1, p2}
    Registered = {p1}
    Commands = {k1}
    Payloads = {d1, d2}
    MaxLog = 3
    Ranks = {1, 2, 4}
    Tenants = {x, y}
    Corridors = {u, v}
    AnyCorridor = AnyCorridor
    Numbers = {1, 2, 3}
    Limits = {1, 2}
    MaxRows = 3
    Owners <- OwnersMC
    RecordIds <- RecordIdsMC
    Kinds = {e1, e2}
    Instants = {1, 2}
    Zones = {0, 2}
    MaxStores = 3
    Sites = {h1, h2}
    States = {"HEALTHY", "DEGRADED"}
    NoState = NoState
    NoValue = NoValue
    Garbled = Garbled
    Unreadable = Unreadable
    MaxReports = 2
INVARIANTS
    NoGap
    LimiterHonest
    CountsAddUp
    PagesComplete
    BackendsAgree
    SealKept
PROPERTIES
    AccessMonotone
