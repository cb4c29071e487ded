SPECIFICATION Spec
CONSTANTS
    Absent = Absent
    Reports <- MCReports
    Messages <- MCMessages
    Worse <- MCWorse
    Objectives <- MCObjectives
    Available <- MCAvailable
    Step = 2
    MaxClock = 6
    LastReport = 2
    MaxFeed = 3
    Scale <- MCScale
    Aggregations <- MCAggregations
    OnAir <- MCOnAir
    Horizons <- MCHorizons
    History <- MCHistory
    MaxWorsened = 4
INVARIANT UnknownNeverHealthy
CHECK_DEADLOCK FALSE
