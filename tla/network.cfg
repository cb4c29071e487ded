SPECIFICATION NetworkSpec
CONSTANTS
    None = None
    Node = {1, 2, 3, 4, 5}
    Graphs <- MCGraphs
    Scenarios <- MCScenarios
    ObservedLevels = {20, 90}
INVARIANTS
    SearchSound
    GraphAnswersExact
    RedundancySurvives
PROPERTIES
    AssessmentEnds
CHECK_DEADLOCK FALSE
