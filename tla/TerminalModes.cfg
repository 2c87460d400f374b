SPECIFICATION ModesSpec
CONSTANTS
    Proc = {p, q}
    MaxRequests = 5
    Modes <- MCModes
    Dimensions <- MCSizes
INVARIANTS AttributesRestored TerminalAsAsked
