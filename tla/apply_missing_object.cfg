SPECIFICATION SpecMC
CONSTANTS
    av = av
    ffdb = ffdb
    isdb = isdb
    mm1 = mm1
    mm2 = mm2
    Files = {av, ffdb, isdb, mm1, mm2}
    Kind <- KindMC
    Safe = {av, ffdb, mm1, mm2}
    Ffdb = {ffdb}
    Objects <- ObjectsMC
    Expected <- ExpectedMC
    Position <- PositionMC
    PackageOrder <- PackageOrderMC
    Configs <- ConfigsMC
    Versions <- VersionsMC
    Effects <- EffectsMC
    Outputs <- OutputsMC
    MaxPolls = 2
    NoFile = NoFile
INVARIANTS
    MissingFailsClosed
CHECK_DEADLOCK FALSE
