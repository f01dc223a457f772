----------------------------- MODULE PeerChecks -----------------------------
(***************************************************************************)
(* The checks a raftstore peer makes before it proposes a request          *)
(* (src/tinykv/kv/raftstore/peer.go): inspect decides the policy from the  *)
(* request's shape, and for a ChangePeer checkConfChange rejects a change  *)
(* after which fewer than a quorum of the group would be healthy.  The    *)
(* Raft steps that follow (ProposeNormal, ProposeConfChange's              *)
(* PendingConfIndex check, TransferLeader) are in ApplyPipeline and Raft.  *)
(*                                                                         *)
(* prs is the leader's progress as RawNode.GetProgress returns it, a copy  *)
(* of Prs: a function from peer ids to Match.  trunc is the peer storage's *)
(* truncated index.                                                        *)
(***************************************************************************)
EXTENDS Naturals, Sequences, SequencesExt, FiniteSets

Reads  == {"Get", "Snap"}
Writes == {"Put", "Delete"}

\* GetChangePeerCmd and getTransferLeaderCmd: the admin request by type.
\* inspect: ChangePeer and TransferLeader have their own policy; otherwise
\* the requests are scanned, and an invalid one, or a read and a write
\* together, fails.
Inspect(req) ==
    IF req.admin = "changePeer" THEN "confChange"
    ELSE IF req.admin = "transferLeader" THEN "transferLeader"
    ELSE LET Scan(acc, r) ==
                 IF acc.policy = "invalid" THEN acc
                 ELSE LET s == [read |-> acc.read \/ r \in Reads,
                                write |-> acc.write \/ r \in Writes, policy |-> "normal"]
                      IN  IF r = "Invalid" \/ (s.read /\ s.write)
                            THEN [s EXCEPT !.policy = "invalid"] ELSE s
         IN  FoldLeft(Scan, [read |-> FALSE, write |-> FALSE, policy |-> "normal"], req.reqs).policy

\* countHealthyNode: the peers that need no snapshot, Match >= truncated.
CountHealthyNode(prs, trunc) == Cardinality({i \in DOMAIN prs : prs[i] >= trunc})

Quorum(total) == total \div 2 + 1

\* Mutant: the quorum of the group before the change.
CheckConfChangeOldQuorum(prs, trunc, change) ==
    LET total == Cardinality(DOMAIN prs)
        Decide(after) == IF CountHealthyNode(after, trunc) >= Quorum(total) THEN "ok" ELSE "unsafe"
    IN  CASE total <= 1 -> "ok"
          [] change.type = "add" ->
               Decide([i \in DOMAIN prs \cup {change.id} |-> IF i = change.id THEN 0 ELSE prs[i]])
          [] change.id \in DOMAIN prs -> Decide([i \in DOMAIN prs \ {change.id} |-> prs[i]])
          [] OTHER -> "ok"

\* checkConfChange: a group of one is always safe; an added peer enters the
\* progress with Match 0; removing a missing peer is safe; otherwise the
\* healthy peers of the changed progress must reach its quorum.
CheckConfChange(prs, trunc, change) ==
    LET Decide(after) ==
            IF CountHealthyNode(after, trunc) >= Quorum(Cardinality(DOMAIN after))
              THEN "ok" ELSE "unsafe"
    IN  CASE Cardinality(DOMAIN prs) <= 1 -> "ok"
          [] change.type = "add" ->
               Decide([i \in DOMAIN prs \cup {change.id} |-> IF i = change.id THEN 0 ELSE prs[i]])
          [] change.id \in DOMAIN prs -> Decide([i \in DOMAIN prs \ {change.id} |-> prs[i]])
          [] OTHER -> "ok"

\* Propose up to the Raft call: inspect, then by policy; an error goes to
\* the callback and the request is not proposed.
Propose(req, prs, trunc) ==
    LET policy == Inspect(req)
    IN  CASE policy = "invalid" -> "rejected"
          [] policy = "confChange" /\ CheckConfChange(prs, trunc, req.change) = "unsafe" -> "rejected"
          [] OTHER -> policy

================================================================================
