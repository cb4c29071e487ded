SPECIFICATION FairSpec
CONSTANTS
    Attempts <- MixedAttempts
    KindOf <- MixedKinds
    KeyOf <- MixedKeys
    BodyOf <- MixedBodies
    NoKey = NoKey
    NoHandler = NoHandler
    BadBodies = {"x"}
    MaxCrashes = 1
INVARIANTS
    RepliesFaithful
    WorkRepeatedOnlyAfterFailure
PROPERTIES
    EventuallyServed
