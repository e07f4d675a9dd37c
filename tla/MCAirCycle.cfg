SPECIFICATION Spec
CONSTANTS
    Turfs <- Row
    Adjacent <- RowAdjacent
    Immutable <- Space
    Goal = 40
    MaxGroup = 3
    Levels <- StartLevels
    Divisor = 8
    MinDelta = 2
    HighDelta = 6
    Planetary <- Outdoors
    PlanetGas = 30
    ShareDivisor = 8
    CopyDelta = 2
    Unsteady <- Changing
    NoSet = NoSet
    MaxCycles = 2
INVARIANTS
    OncePerCycle
    Gentle
PROPERTIES
    GroupsKeepGas
    OnlyEnabledChange
