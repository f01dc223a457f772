\* The proposal pipeline, with the raft worker sending the proposals before
\* the Ready's entries: the safety of the callbacks' answers.
CONSTANTS
    c1 = c1
    c2 = c2
    c3 = c3
    None = None
    Callbacks <- MCCallbacks
    MaxTerm = 4
    MaxLogLen = 4
    ProposalsFirst = TRUE
    Snapshots = TRUE

SPECIFICATION Spec

SYMMETRY MCSymmetry

\* Once every client has been answered and the terms are used up, the peer
\* and the applier have nothing left to do.
CHECK_DEADLOCK FALSE

INVARIANT TypeOK
INVARIANT AnsweredOnce
INVARIANT AppliedIsOwnEntry
INVARIANT StaleNeverCommitted
INVARIANT ConfChangeNotDropped
