SPECIFICATION FairSpec
CONSTANTS
    Procs = {p1, p2}
    Names <- MCNames
    Data = {"new", "old"}
    Bundles <- MCBundles
    Kind <- MCKind
    Enabled = {"ANTIVIRUS"}
    RejectUnknown = TRUE
    Attempts = 2
    MaxFaults = 1
INVARIANTS
    TypeOK
    PreparedIsWhole
PROPERTIES
    WholeStays
    Acquired
    ImplementsMonitor
