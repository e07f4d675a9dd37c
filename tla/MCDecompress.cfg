SPECIFICATION Spec
CONSTANTS
    Turfs <- Five
    Worlds <- SomeWorlds
    Jobs <- SomeJobs
    Levels <- StartLevels
    Limit = 4
    NoDir = NoDir
INVARIANTS
    NoPanic
    TargetsAreSpace
PROPERTIES
    SealedKeepAir
    NothingIfPlanet
    CallbacksEnd
CHECK_DEADLOCK FALSE
