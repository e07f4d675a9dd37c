SPECIFICATION Spec
CONSTANTS
    Mixes <- TwoMixes
    Gases <- TwoGases
    Heat <- SpecificHeat
    Volume <- Volumes
    Amounts <- SomeAmounts
    Ratios <- SomeRatios
    Temps <- SomeTemps
    Heats <- SomeHeats
    Coefficients <- AllOrHalf
    TCMB = 1
    Levels <- SomeLevels
    Broken = Broken
    Minima <- NoMinimum
    Unknown = Unknown
    MaxMoles = 2
    MaxHeat = 2
    Marked <- TheTank
INVARIANTS
    CacheFresh
    NoNegativeMoles
    MovesConserve
PROPERTIES
    NaNFromNothing
