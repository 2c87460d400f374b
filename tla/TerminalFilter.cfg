SPECIFICATION FairSpec
CONSTANTS
    Inputs <- MCInputs
    Vmins = {0, 2}
    Vtimes = {0, 2}
    CcMod = 4
    Minimums = {0, 2, 4}
    Times = {0, 2, 4}
    Sizes = {1, 3}
    ReadMax = 6
    EscTimeout = 2
    ReportLen = 2
    MaxSigs = 1
INVARIANTS TypeOK NothingLost ButtonsReported NoSleepOnData
PROPERTIES NoShortRead TimedReadReturns EscapeReleased
