SPECIFICATION Spec
CONSTANTS
    Messages <- MixedMessages
    NoEvent = NoEvent
    Nobody = Nobody
    MaxObs = 4
    MaxCrashes = 2
INVARIANTS
    RecordedOnceInOrder
    AnswersTruthful
