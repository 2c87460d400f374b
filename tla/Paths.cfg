SPECIFICATION Spec
CONSTANTS
    Char <- MCChar
    Maps <- MCMaps
    QnxPaths <- MCQnxPaths
    RawPaths <- MCRawPaths
    Targets <- MCTargets
    Fd = {3}
    MaxMaps = 2
    MaxCwd = 6
    MaxNodes = 2
    PathMax = 5
INVARIANTS WithinTrees LeadsBack LinkSizes
CHECK_DEADLOCK FALSE
