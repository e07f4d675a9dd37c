SPECIFICATION FairSpec
CONSTANTS
    Turfs <- Six
    Worlds <- SomeWorlds
    Levels <- StartLevels
    MinShare = 10
    MinDelta = 1
    Limit = 3
    NoTask = NoTask
    NoDir = NoDir
INVARIANTS
    Levelled
    NeverShort
    SharedAtBorder
    OpenZonesIgnored
PROPERTIES
    Terminates
CHECK_DEADLOCK FALSE
