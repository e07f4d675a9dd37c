SPECIFICATION GraphSpec
CONSTANTS
    TurfIDs = {t1, t2, t3}
    Mixes = {m1}
    Planets = {lavaland}
    Gases = {air, smoke}
    NoTurf = NoTurf
    NoNode = NoNode
    Vacant = Vacant
    NoPlanet = NoPlanet
    NoAtmos = NoAtmos
INVARIANTS
    MapMatchesNodes
PROPERTIES
    NetSpec
SYMMETRY Symmetry
