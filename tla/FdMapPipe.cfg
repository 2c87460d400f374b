SPECIFICATION Spec
CONSTANTS
    File = {a, b, c, d}
    NoFile = NoFile
    GuestMax = 4
    HostMax = 4
    NStd = 1
    GuestFlags = {"none"}
INVARIANT PipeMovesTaken
SYMMETRY FileSymmetry
CHECK_DEADLOCK FALSE
