\* index_lookup: Next/Close against the index and table workers, with
\* failures of either and a cancelled context.  The executor stops after
\* Close; stuck states are caught by Terminates, so deadlock is not checked.
CONSTANTS
    w1 = w1
    w2 = w2
    w3 = w3
    Workers <- MCWorkers
    Idx <- MCIdx
    InitBatch = 1
    MaxBatch = 2
    ResultCap = 1
    ChunkSize = 2
    KeepOrder = TRUE

SPECIFICATION Spec
CHECK_DEADLOCK FALSE

INVARIANT TypeOK
INVARIANT OrderKept
INVARIANT CompleteOnEof
PROPERTY Terminates
