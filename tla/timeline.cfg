SPECIFICATION TimelineSpec
CONSTANTS
    Unset = Unset
    SimulationDays = 12
    Profiles <- MCProfiles
    Recoveries <- MCRecoveries
    Candidates <- MCCandidates
INVARIANTS
    AlarmsOrdered
    StockAsPromised
    IncidentPlanSound
CHECK_DEADLOCK FALSE
