SPECIFICATION Spec
CONSTANTS
    StartPid = 3
    LastPid = 5
    HashMul = 3779
    HashMod = 65536
    Proc = {4, 6, 7}
    Root = 4
    Leader = 5
    Groups = TRUE
    MaxForks = 4
INVARIANT TypeOK
INVARIANT TablesConsistent
INVARIANT FamilyKnown
INVARIANT ForkAgrees
CHECK_DEADLOCK FALSE
