SPECIFICATION Spec
CONSTANTS
    Datums = {d1, d2, d3}
    Contents = {vacuum, air}
    Vacuum = vacuum
    Volumes = {1, 2}
    DefaultVolume = 2
    NoPointer = NoPointer
    NoMix = NoMix
    ArenaCapacity = 2
    IdsCapacity = 3
    Reserve = 2
    Disciplined = TRUE
    MaxArena = 4
    MaxIds = 6
INVARIANTS
    TypeOK
    SlotsPartition
    AmtCountsLive
PROPERTIES
    PoolSpec
SYMMETRY Symmetry
