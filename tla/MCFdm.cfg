SPECIFICATION Spec
CONSTANTS
    Turfs <- Corridor
    Edges <- Paw
    Enabled <- Corridor
    Divisor = 8
    MinDelta = 65
    HighDelta = 16
    Levels <- StartLevels
    Spaces <- SomeSpaces
    MaxSteps = 3
    NoCell = NoCell
INVARIANTS
    WithinRange
PROPERTIES
    StencilSpec
    NearlyConserved
CHECK_DEADLOCK FALSE
