SPECIFICATION FairSpec
CONSTANTS
    Turfs = {t1, t2}
    Looks = {clear, plasma}
    Reacting = {plasma}
    Stripped = {t1}
    NoHash = NoHash
    NoOverlay = NoOverlay
    MaxQueue = 1
INVARIANTS
    FirstLookPending
PROPERTIES
    NewLookShown
