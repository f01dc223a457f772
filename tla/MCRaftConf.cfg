\* raft_membership: a region bootstrapped with n1 alone adds and removes
\* peers by ConfChange while elections and replication go on over a
\* network that reorders and duplicates messages (loss is left to
\* raft_safety, to keep the membership state space within reach).
CONSTANTS
    n1 = n1
    n2 = n2
    n3 = n3
    None = None
    Nodes <- MCNodes
    InitConf <- MCInitConf
    CCs <- MCCCs
    MaxTerm = 2
    MaxLogLen = 4
    MaxInFlight = 2
    Persistence = FALSE
    MaxCrashes = 0

CONSTRAINT MCNetworkBound
SPECIFICATION MCConfSpec
SYMMETRY MCConfSymmetry

INVARIANT StateMachineSafety
INVARIANT CommitCaughtUp
PROPERTY OneConfChangePending
