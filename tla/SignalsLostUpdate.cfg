SPECIFICATION Spec
CONSTANTS
    Sig = {1, 2, 3}
    Mapped = {1, 2, 3}
    SEGV = 3
    USR1 = 1
    Uncatchable = {}
    DflIgnore = {2}
    Table = {a}
    NoTable = NoTable
    Acts = {"dfl", "fn"}
    ActMasks <- MCActMasks
    Held = {1, 2}
    InitMasks <- MCInitMasks
    InitPend <- MCInitPend
    AtomicRMW = FALSE
    MaxPosts = 2
    MaxActs = 3
PROPERTY ImplementsSignalSpec
CHECK_DEADLOCK FALSE
