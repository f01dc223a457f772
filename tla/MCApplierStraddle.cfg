CONSTANTS
    NKeys = 3
    Vals = {"a", "b"}
    Self <- MCSelf
    InitRegion <- MCInitRegion
    Cmds <- MCStraddling
    MaxLogLen = 1
    MaxCrashes = 0
SPECIFICATION Spec
INVARIANT SuccessIsComplete
