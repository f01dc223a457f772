CONSTANTS
    NKeys = 3
    Vals = {"a", "b"}
    Self <- MCSelf
    InitRegion <- MCInitRegion
    Cmds <- MCCmds
    MaxLogLen = 3
    MaxCrashes = 1
SPECIFICATION Spec
INVARIANT DurableMatchesLog
INVARIANT AckedDurable
INVARIANT NothingAppliedAfterRemoval
INVARIANT TruncatedWithinApplied
PROPERTY EveryEntryApplied
