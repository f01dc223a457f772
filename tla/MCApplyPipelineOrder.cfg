\* The proposal pipeline with ProposalsFirst FALSE: the raft worker may hand
\* a Ready's committed entries to the apply worker while proposals are still
\* unsent, so the applier can meet an entry before its proposal.
CONSTANTS
    c1 = c1
    c2 = c2
    c3 = c3
    None = None
    Callbacks <- MCCallbacks
    MaxTerm = 3
    MaxLogLen = 4
    ProposalsFirst = FALSE
    Snapshots = FALSE

SPECIFICATION Spec

SYMMETRY MCSymmetry

\* Once every client has been answered and the terms are used up, the peer
\* and the applier have nothing left to do.
CHECK_DEADLOCK FALSE

INVARIANT StaleNeverCommitted
