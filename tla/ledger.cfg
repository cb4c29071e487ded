SPECIFICATION FairSpec
CONSTANTS
    Procs = {p1, p2}
    Payloads = {a, b, sep, big}
    LineSep = {sep}
    Oversize = {big}
    Keys = {k1}
    NoKey = NoKey
    NoProc = NoProc
    MaxAppends = 3
INVARIANTS
    ChainIntact
    VerifyAccepts
    InteriorChangeDetected
PROPERTIES
    ImplementsLog
    LockReleased
