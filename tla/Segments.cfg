SPECIFICATION Spec
CONSTANTS
    Page = 4
    Align = 2
    Kilo64 = 8
    Mega1 = 16
    FlatReserve = 32
    SlibReserve = 12
    SegReserve = 20
    PtrSize = 1
    TimeSize = 1
    MaxIds = 7
    MagicId = 4
    Execs <- MCExecs
    Libs <- MCLibs
    Startups <- MCStartups
    Sizes = {0, 9, 17}
    Accesses = {"ro"}
    MaxSegs = 5
INVARIANTS TypeOK EntriesBacked DescriptorsInstalled GrantedReachable BoundsExact StartupApart
CHECK_DEADLOCK FALSE
