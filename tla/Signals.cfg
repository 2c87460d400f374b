SPECIFICATION FairSpec
CONSTANTS
    Sig = {1, 2, 3, 4}
    Mapped = {1, 2, 3}
    SEGV = 3
    USR1 = 1
    Uncatchable = {}
    DflIgnore = {2}
    Table = {a, b}
    NoTable = NoTable
    Acts = {"dfl", "fn"}
    ActMasks <- MCActMasks
    Held = {2, 4}
    InitMasks <- MCInitMasks
    InitPend <- MCInitPend
    AtomicRMW = TRUE
    MaxPosts = 2
    MaxActs = 3
INVARIANTS TypeOK MaskSynced HandlerFound PoppedIsActive GenericLeavesNothing
PROPERTIES RaisedEventually ImplementsSignalSpec
CHECK_DEADLOCK FALSE
