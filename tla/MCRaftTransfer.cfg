\* raft_transfer: leader transfer over a reordering network, with
\* messages sent by HandleRaftReady and one crash of a peer.
CONSTANTS
    n1 = n1
    n2 = n2
    n3 = n3
    None = None
    Nodes <- MCNodes
    InitConf <- MCNodes
    MaxTerm = 2
    MaxLogLen = 1
    MaxInFlight = 3
    Persistence = TRUE
    MaxCrashes = 1

CONSTRAINT MCNetworkBound
SPECIFICATION MCTransferSpec
SYMMETRY MCSymmetry

INVARIANT ElectionSafety
INVARIANT NoPanic
INVARIANT SentIsDurable
INVARIANT StateMachineSafety
