SPECIFICATION HeatSpec
CONSTANTS
    Failing <- FailingClosures
    MaxSent = 6
    MaxNested = 1
    MaxHookSent = 2
    Turfs <- Row
    Near <- RowNear
    Conduct <- Percent
    Capacity <- Solid
    Spacey <- Outer
    Initial <- Warm
    Airy <- Aired
    AirCapacity <- AirCap
    AirInitial <- WarmAir
    TCMB = 3
    T20C = 29
    MinSuper = 30
    MinStart = 49
    MinDelta = 25
    Vacuum = 7
    OpenPercent = 40
    Watched = {}
    Changing <- Aired
    Workers = 2
    MaxNotices = 2
    MaxHooks = 1
INVARIANTS
    InOrderOnce
    ErrorsReported
    HeatWithinRange
PROPERTIES
    SentRunsOrAborted
    NotifyServed
    HooksReturn
CHECK_DEADLOCK FALSE
