SPECIFICATION Spec
CONSTANTS
    Procs = {p1, p2}
    NoProc = NoProc
    Tenants <- SomeTenants
    Assets <- SomeAssets
    Slots = {s1}
    Fingerprints = {f1, f2}
    Responses = {r1}
    Entries = {e1}
    Values = {v1}
    MaxSequence = 1
    MaxCalls = 4
INVARIANTS
    AnswersHold
PROPERTIES
    AtomicUpdates
