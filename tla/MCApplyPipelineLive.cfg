\* The proposal pipeline with two clients: every normal command whose index
\* is committed is eventually answered.  No symmetry: it is unsound with
\* liveness checking.
CONSTANTS
    c1 = c1
    c2 = c2
    c3 = c3
    None = None
    Callbacks <- MCCallbacks2
    MaxTerm = 3
    MaxLogLen = 4
    ProposalsFirst = TRUE
    Snapshots = TRUE

SPECIFICATION Spec

\* Once every client has been answered and the terms are used up, the peer
\* and the applier have nothing left to do.
CHECK_DEADLOCK FALSE

PROPERTY AnsweredEventually
