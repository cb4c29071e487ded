SPECIFICATION Spec
CONSTANTS
    Alerts = {a1}
    Requests = {r0, r1}
    Keyless = {r0}
    CooldownOf <- TwoCooldowns
    Grace = 3
    Never = Never
    MaxTime = 3
    MaxReports = 3
    MaxSwitches = 2
    MaxCrashes = 1
INVARIANTS
    CooldownRespected
    ViewFaithful
PROPERTIES
    DeadlineKept
