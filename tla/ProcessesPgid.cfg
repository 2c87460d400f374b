SPECIFICATION Spec
CONSTANTS
    StartPid = 3
    LastPid = 8
    HashMul = 3779
    HashMod = 65536
    Proc = {4, 6, 10}
    Root = 4
    Leader = 3
    Groups = TRUE
    MaxForks = 4
INVARIANT NeverDangling
CHECK_DEADLOCK FALSE
