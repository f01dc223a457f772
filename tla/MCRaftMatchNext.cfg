\* match_below_next: spec.md's Progress invariant match < next under
\* duplicated and delayed MsgAppendResponse rejections.
CONSTANTS
    n1 = n1
    n2 = n2
    n3 = n3
    None = None
    Nodes <- MCNodes
    InitConf <- MCNodes
    MaxTerm = 2
    MaxLogLen = 2
    MaxInFlight = 3
    Persistence = FALSE
    MaxCrashes = 0

CONSTRAINT MCNetworkBound
SPECIFICATION MCRetrySpec
SYMMETRY MCSymmetry

INVARIANT MatchBelowNext
