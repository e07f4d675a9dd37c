SPECIFICATION Spec
CONSTANTS
    Mixes = {air, tank}
    GasIds <- TwoGases
    Inits <- AllGases
    Datums <- FiveDatums
    Id <- DatumId
    Priority <- DatumPriority
    Need <- DatumNeed
    Warm <- DatumWarm
    Energetic = {"fusion"}
    OnFire = {"fire"}
    Sound <- SoundDatums
    Lists <- SomeLists
    NoDatum = NoDatum
    Native <- RustSide
    Generic = "genericfire"
    Fusion = "fusion"
    Asks <- AskedGases
    Fuel = {"plasma"}
    Oxidizer = {"o2"}
    Products <- GasProducts
    MaxDepth = 2
SYMMETRY AnyMix
INVARIANTS
    RunsWhatMatched
    RequirementsCurrent
    FireFindsReagents
    IgnoredAreReported
CHECK_DEADLOCK FALSE
