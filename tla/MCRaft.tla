------------------------------- MODULE MCRaft -------------------------------
(* Model-checking instance of Raft: three peers, model values for ids. *)
EXTENDS Raft

CONSTANTS n1, n2, n3

MCNodes == {n1, n2, n3}

\* Peers are interchangeable: raft.go never compares ids except for equality.
MCSymmetry == Permutations(MCNodes)

CONSTANT MaxInFlight

\* bound: at most MaxInFlight messages are in the network or waiting in a
\* Ready at once
MCNetworkBound == Cardinality(msgs \cup UNION {outbox[i] : i \in Nodes}) <= MaxInFlight

\* The election and replication core: every action but leader transfer and
\* the network's duplication.
MCCoreNext ==
    \/ \E i \in Nodes : Timeout(i)
    \/ \E i \in Nodes : TickHeartbeat(i)
    \/ \E i \in Nodes : Propose(i)
    \/ \E m \in msgs : Receive(m)
    \/ \E m \in msgs : Lose(m)

MCCoreSpec == Init /\ [][MCCoreNext /\ History]_vars

\* Leader transfer with each peer's Ready handling and one crash, over a
\* network that reorders (duplication and loss in flight are left to the
\* other runs; a crash loses the messages of an unsent Ready); membership
\* left out.
MCTransferNext ==
    \/ \E i \in Nodes : Timeout(i)
    \/ \E i \in Nodes : TickHeartbeat(i)
    \/ \E i \in Nodes : Propose(i)
    \/ \E i, t \in Nodes : TransferLeader(i, t)
    \/ \E m \in msgs : Receive(m)
    \/ ReadyNext

MCTransferSpec == Init /\ [][MCTransferNext /\ History]_vars

\* Membership: a region bootstrapped with one peer grows and shrinks by
\* ConfChange, over elections, replication and heartbeats; messages are
\* reordered and duplicated but not lost (loss is checked by raft_safety).
MCConfNext ==
    \/ \E i \in Nodes : Timeout(i)
    \/ \E i \in Nodes : TickHeartbeat(i)
    \/ \E i \in Nodes : Propose(i)
    \/ \E m \in msgs : Receive(m)
    \/ \E m \in msgs : Duplicate(m)
    \/ MembershipNext

MCConfSpec == Init /\ [][MCConfNext /\ History]_vars

\* The changes a region of n1 can meet: peers n2 and n3 added and removed
\* (adding n1 again would be a no-op of addNode; removing it destroys the
\* region's last peer or hands the group to peers it added).
MCCCs == [type : {"add", "remove"}, id : {n2, n3}]

\* With n1 the only initial member, n2 and n3 are still interchangeable.
MCConfSymmetry == Permutations({n2, n3})

MCInitConf == {n1}

\* Replication driven by rejections only (no heartbeats, no transfer) over
\* a network that also duplicates: the retries of sendAppend race stale
\* and repeated responses.
MCRetryNext ==
    \/ \E i \in Nodes : Timeout(i)
    \/ \E i \in Nodes : Propose(i)
    \/ \E m \in msgs : Receive(m)
    \/ \E m \in msgs : Duplicate(m)
    \/ \E m \in msgs : Lose(m)

MCRetrySpec == Init /\ [][MCRetryNext /\ History]_vars

=============================================================================
