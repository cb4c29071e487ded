SPECIFICATION Spec
CONSTANTS
    Nominal <- MCNominal
    Levels <- MCLevels
    Target <- MCTarget
    Readings <- MCReadings
    Desired <- MCDesired
    MaxImpaired = 3
INVARIANTS
    TopRatingIsServiceable
    VerdictsAgree
PROPERTIES
    WorseningNeverHelps
