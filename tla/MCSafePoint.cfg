\* The safe point cache of kv.go: the CheckVisibility contract and the
\* checker's exit on Close.
CONSTANTS
    t1 = t1

    Txns <- MCTxns
    CacheWindow = 2
    UpdateInterval = 2
    QuickRepeatInterval = 1
    GcLifeTime = 1
    MaxTime = 6
SPECIFICATION Spec
INVARIANT AcceptedNotBehindSafePoint
PROPERTY CheckerStops
