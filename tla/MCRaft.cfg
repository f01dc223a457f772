\* raft_safety: election and replication over a lossy, reordering network.
CONSTANTS
    n1 = n1
    n2 = n2
    n3 = n3
    None = None
    Nodes <- MCNodes
    InitConf <- MCNodes
    MaxTerm = 3
    MaxLogLen = 2
    MaxInFlight = 2
    Persistence = FALSE
    MaxCrashes = 0

CONSTRAINT MCNetworkBound
SPECIFICATION MCCoreSpec
SYMMETRY MCSymmetry

INVARIANT ElectionSafety
INVARIANT LogMatching
INVARIANT StateMachineSafety
INVARIANT LeaderCompleteness
INVARIANT ProgressSound
PROPERTY CommittedLogRefinement
