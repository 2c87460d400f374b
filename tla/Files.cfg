SPECIFICATION Spec
CONSTANTS
    GarbageSize = 1
    NoByte = "cc"
    Proc = {p1, p2}
    Root = p1
    Ino = {f, g}
    Fd = {0, 1, 2}
    MaxLen = 2
    Budgets <- MCBudgets
    Sent <- MCSent
    Reads <- MCReads
    Opens <- MCOpens
    f = f
    g = g
    Dir = dir
    Entries <- MCEntries
    DirBuf = 2
    Readdirs <- MCReaddirs
    Spawns <- MCSpawns
    Offsets <- MCOffsets
INVARIANTS ReadDelivers ReaddirLists WriteStores SpawnArguments StreamsCurrent TruncRestores
CHECK_DEADLOCK FALSE
