SPECIFICATION Spec
CONSTANTS
    File = {a, b, c}
    NoFile = NoFile
    GuestMax = 4
    HostMax = 3
    NStd = 2
    GuestFlags = {"none", "cloexec"}
INVARIANTS ExecRedirects TypeOK HostBacksGuest OnlyZeroLeaks CloexecAgrees
SYMMETRY FileSymmetry
CHECK_DEADLOCK FALSE
