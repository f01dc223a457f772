-------------------------------- MODULE Raft --------------------------------
(***************************************************************************)
(* The Raft state machine of src/tinykv/raft/raft.go, for a fixed set of   *)
(* peers talking over a network that loses, duplicates and reorders        *)
(* messages.                                                               *)
(*                                                                         *)
(* Each node's state is one record r[i] with the fields of the Raft struct *)
(* (Term, Vote, State, Lead, votes, the log, Prs as Match/Next,            *)
(* leadTransferee).  Every handler of raft.go is an operator from a node   *)
(* record (and a message) to a result [st |-> new record, out |-> sent     *)
(* messages], so that a handler that calls several others (Step calling    *)
(* becomeFollower and then stepCandidate, which calls becomeLeader, which  *)
(* calls appendEntry, which calls maybeCommit) is one composed step, as in *)
(* the code.                                                               *)
(*                                                                         *)
(* The RaftLog (log.go) is not under src/: its operations are modelled     *)
(* from the contract of spec.md section 4.1.  An entry is its term and,   *)
(* for an EntryConfChange, the change: an (index, term) pair names one     *)
(* proposal, since a leader appends each index once per term.  The         *)
(* election and heartbeat counters                                         *)
(* are abstracted: a timeout may fire at any step, which over-approximates *)
(* every choice of randomizedElectionTimeout.                              *)
(*                                                                         *)
(* Membership: each node has its own configuration prs, the domain of      *)
(* Prs, which starts as InitConf.  A ConfChange entry travels in the log   *)
(* like any other; the driver applies it to the node (RawNode.Advance      *)
(* moves RaftLog.applied, and the raftstore peer, once the applier has     *)
(* executed the entry, calls ApplyConfChange, which is addNode or         *)
(* removeNode).  A node that is not in InitConf starts with InitConf as    *)
(* its configuration and an empty log, as if from the snapshot of index 0  *)
(* that a new peer receives.  A node that applies its own removal is      *)
(* destroyed and takes no further step.                                    *)
(*                                                                         *)
(* Persistence (peer.go HandleRaftReady): when Persistence is TRUE, the    *)
(* messages of a step wait in the node's outbox, and stable holds what     *)
(* SaveReadyState wrote (the HardState Term, Vote, Commit and the log).    *)
(* A Ready saves and sends; a crash loses the outbox and everything not    *)
(* saved, and newRaft restarts the node from stable.  A leader sends its   *)
(* messages before it saves, so it may crash in between.  When            *)
(* Persistence is FALSE each step's Ready is handled at once.              *)
(***************************************************************************)
EXTENDS Naturals, Sequences, FiniteSets, TLC

CONSTANTS
    Nodes,      \* ids of every peer that may ever be a member
    InitConf,   \* the configuration of index 0 (Config.peers)
    None,       \* the id 0: no leader, no vote
    MaxTerm,    \* bound: no node campaigns past this term
    MaxLogLen,  \* bound: a leader accepts proposals while its log is shorter
    Persistence,\* TRUE: messages wait for HandleRaftReady, and nodes crash
    MaxCrashes  \* bound: crashes over a whole behaviour

ASSUME None \notin Nodes /\ InitConf \subseteq Nodes /\ MaxTerm \in Nat /\ MaxLogLen \in Nat
ASSUME Persistence \in BOOLEAN /\ MaxCrashes \in Nat

Follower  == "StateFollower"
Candidate == "StateCandidate"
Leader    == "StateLeader"

VARIABLES
    r,          \* r[i]: the Raft struct of node i
    msgs,       \* the messages in flight
    panicked,   \* some step reached a panic/log.Fatal of the code
    elections,  \* history: the pairs <<i, t>> such that i became leader in term t
    commits,    \* history: [index, entry, at]: an entry committed by a node in term at
    outbox,     \* outbox[i]: ready.Messages of node i, not yet sent
    stable,     \* stable[i]: the HardState and log SaveReadyState last wrote
    crashes     \* the number of crashes so far

ready == <<outbox, stable, crashes>>

vars == <<r, msgs, panicked, elections, commits, outbox, stable, crashes>>

\* A log entry: its term, and for an EntryConfChange the change it carries.
NoCC == [type |-> "none", id |-> None]
CCs  == [type : {"add", "remove"}, id : Nodes]
Entries == [term : 1..MaxTerm, cc : CCs \cup {NoCC}]

\* the checks of the raftstore peer (peer.go), for ProposeConfChange
PC == INSTANCE PeerChecks

MinOf(a, b) == IF a < b THEN a ELSE b
MaxOf(a, b) == IF a > b THEN a ELSE b

-----------------------------------------------------------------------------
(* RaftLog (log.go, modelled from spec.md 4.1). *)

LastIndex(s) == Len(s.log)

\* term(i) for 0 <= i <= LastIndex; index 0 is the empty-log boundary
TermAt(s, n) == IF n = 0 THEN 0 ELSE s.log[n].term

LastTerm(s) == TermAt(s, LastIndex(s))

\* matchTerm: an index past the last one is Unavailable, hence no match
MatchTerm(s, n, t) == n <= LastIndex(s) /\ TermAt(s, n) = t

\* mutant: the voter compares last terms only
IsUpToDateTermOnly(s, idx, t) == t >= LastTerm(s)

\* isUpToDate: the voter's check of Raft 5.4.1
IsUpToDate(s, idx, t) ==
    \/ t > LastTerm(s)
    \/ t = LastTerm(s) /\ idx >= LastIndex(s)

\* mutant: commitTo without its "never decrease" check
CommitToAlways(s, n) == [s EXCEPT !.committed = n]

\* commitTo never decreases committed; a target past LastIndex panics
\* (see CommitToPanics)
CommitTo(s, n) == IF s.committed < n THEN [s EXCEPT !.committed = n] ELSE s

CommitToPanics(s, n) == s.committed < n /\ n > LastIndex(s)

\* maybeCommit of the log: only an entry of the current term is committed
\* by counting replicas
LogMaybeCommit(s, mci, t) ==
    IF mci > s.committed /\ TermAt(s, mci) = t
    THEN [s EXCEPT !.committed = mci] ELSE s

\* findConflict: the offset k of the first entry of ents whose index is
\* past the log or holds another term, 0 if all of them are present
ConflictAt(s, idx, ents) ==
    LET ks == {k \in 1..Len(ents) : ~MatchTerm(s, idx + k, ents[k].term)}
    IN  IF ks = {} THEN 0 ELSE CHOOSE k \in ks : \A j \in ks : k <= j

\* mutant: new entries are added after the old log instead of replacing
\* it from the first conflict
MaybeAppendNoTruncate(s, idx, cmt, ents) ==
    LET k  == ConflictAt(s, idx, ents)
        s1 == IF k = 0 THEN s
              ELSE [s EXCEPT !.log = @ \o SubSeq(ents, k, Len(ents))]
    IN  CommitTo(s1, MinOf(cmt, idx + Len(ents)))

\* maybeAppend after its matchTerm(idx, logTerm) check succeeded: truncate
\* at the first conflict, append the rest, then commitTo(min(commit, lastnewi))
MaybeAppend(s, idx, cmt, ents) ==
    LET k  == ConflictAt(s, idx, ents)
        s1 == IF k = 0 THEN s
              ELSE [s EXCEPT !.log = SubSeq(s.log, 1, idx + k - 1)
                                     \o SubSeq(ents, k, Len(ents))]
    IN  CommitTo(s1, MinOf(cmt, idx + Len(ents)))

\* maybeAppend panics when the first conflict is at or below committed (its
\* commitTo cannot panic: the log reaches lastnewi after the append)
MaybeAppendPanics(s, idx, ents) ==
    LET k == ConflictAt(s, idx, ents)
    IN  k # 0 /\ idx + k <= s.committed

-----------------------------------------------------------------------------
(* Messages: one record shape for every pb.Message kind. *)

Blank == [type |-> "", from |-> None, to |-> None, term |-> 0, index |-> 0,
          logTerm |-> 0, entries |-> <<>>, commit |-> 0, reject |-> FALSE,
          rejectHint |-> 0]

\* send: From is the sender, Term its current term (all kinds sent here
\* carry a term)
Send(s, to, type, f) ==
    LET g == [type |-> type, from |-> s.id, to |-> to, term |-> s.Term] @@ f
    IN  [k \in DOMAIN Blank |-> IF k \in DOMAIN g THEN g[k] ELSE Blank[k]]

NoFields == [k \in {} |-> 0]

Res(s, out) == [st |-> s, out |-> out]

-----------------------------------------------------------------------------
(* raft.go *)

Quorum(s) == Cardinality(s.prs) \div 2 + 1

\* reset: a new term clears the vote; timers, votes, transfer, every
\* Progress and PendingConfIndex are reset.  (Match and Next are kept for
\* every id; only those of members, prs, are ever read.)
Reset(s, t) ==
    [s EXCEPT !.Term = t,
              !.Vote = IF s.Term # t THEN None ELSE @,
              !.Lead = None,
              !.leadTransferee = None,
              !.votes = {},
              !.Match = [j \in Nodes |-> IF j = s.id THEN LastIndex(s) ELSE 0],
              !.Next  = [j \in Nodes |-> LastIndex(s) + 1],
              !.pendingConf = 0]

BecomeFollower(s, t, lead) == [Reset(s, t) EXCEPT !.Lead = lead, !.State = Follower]

BecomeCandidate(s) == [Reset(s, s.Term + 1) EXCEPT !.Vote = s.id, !.State = Candidate]

\* poll: the first answer of each voter counts
Poll(s, id, v) ==
    IF \E p \in s.votes : p[1] = id THEN s
    ELSE [s EXCEPT !.votes = @ \cup {<<id, v>>}]

Granted(s) == Cardinality({p \in s.votes : p[2]})

\* matchIndex sorted ascending, element len - quorum: the largest index
\* that a quorum has matched
QuorumMatch(s) ==
    LET ok(n) == Cardinality({j \in s.prs : s.Match[j] >= n}) >= Quorum(s)
    IN  CHOOSE n \in {s.Match[j] : j \in s.prs} :
            ok(n) /\ \A j \in s.prs : ok(s.Match[j]) => s.Match[j] <= n

MaybeCommit(s) == LogMaybeCommit(s, QuorumMatch(s), s.Term)

\* Progress.maybeUpdate (the Next bump happens even for a stale n)
MaybeUpdate(s, j, n) ==
    [s EXCEPT !.Match[j] = IF @ < n THEN n ELSE @,
              !.Next[j]  = IF @ < n + 1 THEN n + 1 ELSE @]

\* Progress.maybeDecrTo, after its staleness check rejected > Match
MaybeDecrTo(s, j, rejected, last) ==
    [s EXCEPT !.Next[j] = MaxOf(1, MinOf(rejected, last + 1))]

\* appendEntry of one entry in the current term, then self maybeUpdate and
\* maybeCommit (a leader is always in its configuration: a node that
\* applies its own removal is destroyed)
AppendEntry(s, cc) ==
    LET s1 == [s EXCEPT !.log = Append(@, [term |-> s.Term, cc |-> cc])]
    IN  MaybeCommit(MaybeUpdate(s1, s.id, LastIndex(s1)))

\* becomeLeader: PendingConfIndex is set to the last index, so no ConfChange
\* is proposed before every entry of earlier terms has been applied
BecomeLeader(s) ==
    AppendEntry([Reset(s, s.Term) EXCEPT !.Lead = s.id, !.State = Leader,
                                         !.pendingConf = LastIndex(s)], NoCC)

\* sendAppend: prev index Next-1, its term, entries from Next, commit.
\* (The snapshot branch needs Term(Next-1) to fail; see NextWithinLog.)
SendAppend(s, to) ==
    Send(s, to, "MsgAppend",
         [index   |-> s.Next[to] - 1,
          logTerm |-> TermAt(s, s.Next[to] - 1),
          entries |-> SubSeq(s.log, s.Next[to], LastIndex(s)),
          commit  |-> s.committed])

BcastAppend(s) == {SendAppend(s, j) : j \in s.prs \ {s.id}}

\* sendHeartbeat: commit is min(to.Match, committed)
SendHeartbeat(s, to) ==
    Send(s, to, "MsgHeartbeat", [commit |-> MinOf(s.Match[to], s.committed)])

BcastHeartbeat(s) == {SendHeartbeat(s, j) : j \in s.prs \ {s.id}}

SendTimeoutNow(s, to) == Send(s, to, "MsgTimeoutNow", NoFields)

\* promotable: the node is in its own configuration
Promotable(s) == s.id \in s.prs

\* campaign: become candidate, vote for self, win at once in a one-node
\* cluster, else ask every other peer
Campaign(s) ==
    LET s1 == Poll(BecomeCandidate(s), s.id, TRUE)
    IN  IF Granted(s1) = Quorum(s1)
        THEN Res(BecomeLeader(s1), {})
        ELSE Res(s1, {Send(s1, j, "MsgRequestVote",
                           [index |-> LastIndex(s1), logTerm |-> LastTerm(s1)])
                      : j \in s.prs \ {s.id}})

\* Step, MsgRequestVote: grant a repeat of our vote, or a first vote while
\* no leader is known, to an up-to-date candidate
HandleRequestVote(s, m) ==
    LET canVote == \/ s.Vote = m.from
                   \/ s.Vote = None /\ s.Lead = None
    IN  IF canVote /\ IsUpToDate(s, m.index, m.logTerm)
        THEN Res([s EXCEPT !.Vote = m.from],
                 {[Send(s, m.from, "MsgRequestVoteResponse", NoFields)
                     EXCEPT !.term = m.term]})
        ELSE Res(s, {Send(s, m.from, "MsgRequestVoteResponse", [reject |-> TRUE])})

\* mutant: the follower appends without checking the term at m.index
HandleAppendEntriesNoCheck(s, m) ==
    IF m.index < s.committed
    THEN Res(s, {Send(s, m.from, "MsgAppendResponse", [index |-> s.committed])})
    ELSE IF m.index <= LastIndex(s)
    THEN Res(MaybeAppend(s, m.index, m.commit, m.entries),
             {Send(s, m.from, "MsgAppendResponse", [index |-> m.index + Len(m.entries)])})
    ELSE Res(s, {Send(s, m.from, "MsgAppendResponse",
                      [index |-> m.index, reject |-> TRUE, rejectHint |-> LastIndex(s)])})

HandleAppendEntries(s, m) ==
    IF m.index < s.committed
    THEN Res(s, {Send(s, m.from, "MsgAppendResponse", [index |-> s.committed])})
    ELSE IF MatchTerm(s, m.index, m.logTerm)
    THEN Res(MaybeAppend(s, m.index, m.commit, m.entries),
             {Send(s, m.from, "MsgAppendResponse", [index |-> m.index + Len(m.entries)])})
    ELSE Res(s, {Send(s, m.from, "MsgAppendResponse",
                      [index |-> m.index, reject |-> TRUE, rejectHint |-> LastIndex(s)])})

HandleHeartbeat(s, m) ==
    Res(CommitTo(s, m.commit), {Send(s, m.from, "MsgHeartbeatResponse", NoFields)})

\* mutant: the leader hands the transfer on as a MsgTransferLeader
LeaderTransferForward(s, t) ==
    IF s.leadTransferee # None /\ s.leadTransferee = t THEN Res(s, {})
    ELSE LET s1 == [s EXCEPT !.leadTransferee = None]
         IN  IF t = s.id THEN Res(s1, {})
             ELSE LET s2 == [s1 EXCEPT !.leadTransferee = t]
                  IN  IF s2.Match[t] = LastIndex(s2)
                      THEN Res(s2, {Send(s2, t, "MsgTransferLeader", NoFields)})
                      ELSE Res(s2, {SendAppend(s2, t)})

\* stepLeader, MsgTransferLeader: m.From is the transferee
LeaderTransfer(s, t) ==
    IF s.leadTransferee # None /\ s.leadTransferee = t THEN Res(s, {})
    ELSE LET s1 == [s EXCEPT !.leadTransferee = None]
         IN  IF t = s.id THEN Res(s1, {})
             ELSE LET s2 == [s1 EXCEPT !.leadTransferee = t]
                  IN  IF s2.Match[t] = LastIndex(s2)
                      THEN Res(s2, {SendTimeoutNow(s2, t)})
                      ELSE Res(s2, {SendAppend(s2, t)})

\* stepLeader, MsgAppendResponse
LeaderAppendResponse(s, m) ==
    LET j == m.from IN
    IF m.reject
    THEN IF m.index > s.Match[j]
         THEN LET s1 == MaybeDecrTo(s, j, m.index, m.rejectHint)
              IN  Res(s1, {SendAppend(s1, j)})
         ELSE Res(s, {})
    ELSE IF s.Match[j] < m.index
         THEN LET s1 == MaybeUpdate(s, j, m.index)
                  s2 == MaybeCommit(s1)
              IN  Res(s2, (IF s2.committed > s1.committed THEN BcastAppend(s2) ELSE {})
                          \cup (IF j = s2.leadTransferee /\ s2.Match[j] = LastIndex(s2)
                                THEN {SendTimeoutNow(s2, j)} ELSE {}))
         ELSE Res(MaybeUpdate(s, j, m.index), {})

\* stepLeader: a message from a peer with no Progress (not a member) is
\* dropped
StepLeader(s, m) ==
    CASE m.from \notin s.prs                -> Res(s, {})
      [] m.type = "MsgAppendResponse"    -> LeaderAppendResponse(s, m)
      [] m.type = "MsgHeartbeatResponse" ->
            Res(s, IF s.Match[m.from] < LastIndex(s) THEN {SendAppend(s, m.from)} ELSE {})
      [] m.type = "MsgTransferLeader"    -> LeaderTransfer(s, m.from)
      [] OTHER                           -> Res(s, {})

\* stepCandidate, MsgRequestVoteResponse: a quorum of grants wins, a quorum
\* of rejections steps down
CandidateVoteResponse(s, m) ==
    LET s1 == Poll(s, m.from, ~m.reject)
        gr == Granted(s1)
    IN  IF gr = Quorum(s1)
        THEN LET s2 == BecomeLeader(s1) IN Res(s2, BcastAppend(s2))
        ELSE IF Cardinality(s1.votes) - gr = Quorum(s1)
        THEN Res(BecomeFollower(s1, s1.Term, None), {})
        ELSE Res(s1, {})

StepCandidate(s, m) ==
    CASE m.type = "MsgAppend"    -> HandleAppendEntries(BecomeFollower(s, m.term, m.from), m)
      [] m.type = "MsgHeartbeat" -> HandleHeartbeat(BecomeFollower(s, m.term, m.from), m)
      [] m.type = "MsgRequestVoteResponse" -> CandidateVoteResponse(s, m)
      [] OTHER                   -> Res(s, {})

\* mutant: MsgTimeoutNow makes the follower leader without an election
StepFollowerTakeOver(s, m) ==
    CASE m.type = "MsgAppend"    -> HandleAppendEntries([s EXCEPT !.Lead = m.from], m)
      [] m.type = "MsgHeartbeat" -> HandleHeartbeat([s EXCEPT !.Lead = m.from], m)
      [] m.type = "MsgTransferLeader" ->
            Res(s, IF s.Lead = None THEN {}
                   ELSE {Send(s, s.Lead, "MsgTransferLeader", NoFields)})
      [] m.type = "MsgTimeoutNow" -> LET s1 == BecomeLeader(s) IN Res(s1, BcastAppend(s1))
      [] OTHER                    -> Res(s, {})

\* stepFollower; a forwarded MsgTransferLeader keeps its fields but gets
\* From = this node from send
StepFollower(s, m) ==
    CASE m.type = "MsgAppend"    -> HandleAppendEntries([s EXCEPT !.Lead = m.from], m)
      [] m.type = "MsgHeartbeat" -> HandleHeartbeat([s EXCEPT !.Lead = m.from], m)
      [] m.type = "MsgTransferLeader" ->
            Res(s, IF s.Lead = None THEN {}
                   ELSE {Send(s, s.Lead, "MsgTransferLeader", NoFields)})
      [] m.type = "MsgTimeoutNow" -> IF Promotable(s) THEN Campaign(s) ELSE Res(s, {})
      [] OTHER                    -> Res(s, {})

\* Step's term gating: a higher term makes us a follower, with the sender as
\* leader for MsgAppend/MsgHeartbeat/MsgSnapshot
Gate(s, m) ==
    IF m.term > s.Term
    THEN BecomeFollower(s, m.term,
            IF m.type \in {"MsgAppend", "MsgHeartbeat", "MsgSnapshot"} THEN m.from ELSE None)
    ELSE s

\* Step after term gating, for a message with m.term >= Term
Step(s, m) ==
    IF m.type = "MsgRequestVote" THEN HandleRequestVote(s, m)
    ELSE CASE s.State = Follower  -> StepFollower(s, m)
           [] s.State = Candidate -> StepCandidate(s, m)
           [] s.State = Leader    -> StepLeader(s, m)

\* The panics a step can reach: commitTo past the log (heartbeat), a
\* conflict at or below committed (maybeAppend), and send of a message that
\* already carries a term (a follower forwarding a MsgTransferLeader that
\* came over the network)
StepPanics(s, m) ==
    LET g == IF m.type = "MsgRequestVote" THEN s
             ELSE IF s.State = Candidate /\ m.type \in {"MsgAppend", "MsgHeartbeat"}
                  THEN BecomeFollower(s, m.term, m.from) ELSE s
    IN  \/ m.type = "MsgHeartbeat" /\ g.State = Follower /\ CommitToPanics(g, m.commit)
        \/ /\ m.type = "MsgAppend" /\ g.State = Follower
           /\ m.index >= g.committed /\ MatchTerm(g, m.index, m.logTerm)
           /\ MaybeAppendPanics(g, m.index, m.entries)
        \/ m.type = "MsgTransferLeader" /\ g.State = Follower /\ g.Lead # None

-----------------------------------------------------------------------------
(* Actions *)

\* Mutant: SaveReadyState writes the HardState but not the new entries.
DurableNoEntries(s) == [Term |-> s.Term, Vote |-> s.Vote, committed |-> s.committed, log |-> <<>>]

\* What SaveReadyState persists of a node: the HardState and the entries.
Durable(s) == [Term |-> s.Term, Vote |-> s.Vote, committed |-> s.committed, log |-> s.log]

InitNode(i) ==
    [id |-> i, Term |-> 0, Vote |-> None, State |-> Follower, Lead |-> None,
     votes |-> {}, log |-> <<>>, committed |-> 0,
     Match |-> [j \in Nodes |-> 0], Next |-> [j \in Nodes |-> 1],
     leadTransferee |-> None, prs |-> InitConf, pendingConf |-> 0,
     applied |-> 0, appliedIndex |-> 0, destroyed |-> FALSE]

Init ==
    /\ r = [i \in Nodes |-> InitNode(i)]
    /\ msgs = {}
    /\ panicked = FALSE
    /\ elections = {}
    /\ commits = {}
    /\ outbox = [i \in Nodes |-> {}]
    /\ stable = [i \in Nodes |-> Durable(InitNode(i))]
    /\ crashes = 0

\* HandleRaftReady's p.IsLeader() test: a leader sends ready.Messages
\* before SaveReadyState, any other peer after it.
\* Mutant: every peer sends ready.Messages before SaveReadyState.
SendsFirstAlways(s) == TRUE

SendsFirst(s) == s.State = Leader

\* A step's new state, and its messages.  Without Persistence they are sent
\* at once.  With it, a leader's messages join ready.Messages, which
\* HandleRaftReady sends before saving (Ready, CrashAfterSend); a
\* non-leader's Ready is handled after the step: SaveReadyState, then every
\* message of the Ready is sent.  (A crash before that save only loses the
\* step, as the network's loss of the message that caused it does.)
Update(i, res, rest) ==
    /\ r' = [r EXCEPT ![i] = res.st]
    /\ CASE ~Persistence ->
              /\ msgs' = rest \cup res.out
              /\ UNCHANGED <<outbox, stable>>
         [] SendsFirst(res.st) ->
              /\ msgs' = rest
              /\ outbox' = [outbox EXCEPT ![i] = @ \cup res.out]
              /\ UNCHANGED stable
         [] OTHER ->
              /\ stable' = [stable EXCEPT ![i] = Durable(res.st)]
              /\ msgs' = rest \cup outbox[i] \cup res.out
              /\ outbox' = [outbox EXCEPT ![i] = {}]
    /\ UNCHANGED crashes

\* the peer is alive: it has not applied its own removal
Live(i) == ~r[i].destroyed

\* numOfPendingConf over the committed, unapplied entries (applied+1 ..
\* committed), as Step's MsgHup case reads them
PendingConfToApply(s) ==
    \E n \in (s.applied + 1)..s.committed : s.log[n].cc # NoCC

\* tickElection of a promotable non-leader: when electionElapsed reaches
\* randomizedElectionTimeout it steps MsgHup, which campaigns unless a
\* committed ConfChange is still to be applied; otherwise only the
\* (abstracted) counter moves.  At the bound MaxTerm the timeout is taken
\* never to be reached.
Timeout(i) ==
    /\ Live(i) /\ r[i].State # Leader /\ Promotable(r[i])
    /\ IF r[i].Term < MaxTerm /\ ~PendingConfToApply(r[i])
       THEN Update(i, Campaign(r[i]), msgs)
       ELSE UNCHANGED <<r, msgs, ready>>
    /\ UNCHANGED panicked

\* tickHeartbeat: on electionTimeout an unfinished transfer is aborted; on
\* heartbeatTimeout MsgBeat broadcasts heartbeats
TickHeartbeat(i) ==
    /\ Live(i) /\ r[i].State = Leader
    /\ \/ /\ r[i].leadTransferee # None
          /\ Update(i, Res([r[i] EXCEPT !.leadTransferee = None], {}), msgs)
       \/ Update(i, Res(r[i], BcastHeartbeat(r[i])), msgs)
    /\ UNCHANGED panicked

\* MsgPropose of one normal entry at a leader that is a member (a proposal
\* anywhere else, or during a transfer, is dropped with no change of state)
Propose(i) ==
    /\ Live(i) /\ r[i].State = Leader /\ Promotable(r[i])
    /\ r[i].leadTransferee = None
    /\ LastIndex(r[i]) < MaxLogLen
    /\ LET s1 == AppendEntry(r[i], NoCC) IN Update(i, Res(s1, BcastAppend(s1)), msgs)
    /\ UNCHANGED panicked

\* Mutant: the peer does not refuse while a conf change is unapplied, so
\* only Raft's own check against RaftLog.applied is left.
ProposeConfChangeNoPeerCheck(i, cc) ==
    /\ Live(i) /\ r[i].State = Leader /\ Promotable(r[i])
    /\ PC!CheckConfChange([j \in r[i].prs |-> r[i].Match[j]], 0, cc) = "ok"
    /\ r[i].leadTransferee = None
    /\ LastIndex(r[i]) < MaxLogLen
    /\ LET conv == r[i].pendingConf > r[i].applied
           s1   == IF conv THEN r[i] ELSE [r[i] EXCEPT !.pendingConf = LastIndex(r[i]) + 1]
           s2   == AppendEntry(s1, IF conv THEN NoCC ELSE cc)
       IN  Update(i, Res(s2, BcastAppend(s2)), msgs)
    /\ UNCHANGED panicked

\* peer.ProposeConfChange at a leader: refused while PendingConfIndex is
\* above the peer's applied index, or when checkConfChange finds the change
\* unsafe (nothing is truncated here); then stepLeader's MsgPropose: a
\* ConfChange while PendingConfIndex > RaftLog.applied becomes a normal
\* entry, otherwise PendingConfIndex is set to its index
ProposeConfChange(i, cc) ==
    /\ Live(i) /\ r[i].State = Leader /\ Promotable(r[i])
    /\ r[i].pendingConf <= r[i].appliedIndex
    /\ PC!CheckConfChange([j \in r[i].prs |-> r[i].Match[j]], 0, cc) = "ok"
    /\ r[i].leadTransferee = None
    /\ LastIndex(r[i]) < MaxLogLen
    /\ LET conv == r[i].pendingConf > r[i].applied
           s1   == IF conv THEN r[i] ELSE [r[i] EXCEPT !.pendingConf = LastIndex(r[i]) + 1]
           s2   == AppendEntry(s1, IF conv THEN NoCC ELSE cc)
       IN  Update(i, Res(s2, BcastAppend(s2)), msgs)
    /\ UNCHANGED panicked

\* HandleRaftReady hands the committed entries to the applier and calls
\* Advance, which moves RaftLog.applied to the last of them
Advance(i) ==
    /\ Live(i) /\ r[i].applied < r[i].committed
    /\ r' = [r EXCEPT ![i].applied = r[i].committed]
    /\ UNCHANGED <<msgs, panicked, ready>>

\* Mutant: addNode takes the new peer to hold the leader's whole log.
AddNodeMatched(s, id) ==
    IF id \in s.prs THEN s
    ELSE [s EXCEPT !.prs = @ \cup {id}, !.Match[id] = LastIndex(s), !.Next[id] = LastIndex(s) + 1]

\* addNode: a new member gets Progress Match 0, Next LastIndex+1
AddNode(s, id) ==
    IF id \in s.prs THEN s
    ELSE [s EXCEPT !.prs = @ \cup {id}, !.Match[id] = 0, !.Next[id] = LastIndex(s) + 1]

\* Mutant: removeNode without its maybeCommit.
RemoveNodeNoCommit(s, id) ==
    LET s1 == [s EXCEPT !.prs = @ \ {id}]
    IN  IF s1.prs = {} THEN Res(s1, {})
        ELSE Res(IF s1.State = Leader /\ s1.leadTransferee = id
                 THEN [s1 EXCEPT !.leadTransferee = None] ELSE s1, {})

\* removeNode: the quorum shrinks, so maybeCommit (and bcastAppend if it
\* committed); a transfer to the removed node is aborted
RemoveNode(s, id) ==
    LET s1 == [s EXCEPT !.prs = @ \ {id}]
        s2 == MaybeCommit(s1)
    IN  IF s1.prs = {} THEN Res(s1, {})
        ELSE Res(IF s2.State = Leader /\ s2.leadTransferee = id
                 THEN [s2 EXCEPT !.leadTransferee = None] ELSE s2,
                 IF s2.committed > s1.committed THEN BcastAppend(s2) ELSE {})

\* The peer processes the applier's result for the next entry: its applied
\* index moves, and an executed ChangePeer is applied to Raft
\* (ApplyConfChange); applying its own removal destroys the peer.
ApplyConfChange(i) ==
    /\ Live(i) /\ r[i].appliedIndex < r[i].applied
    /\ LET s1 == [r[i] EXCEPT !.appliedIndex = @ + 1]
           cc == s1.log[s1.appliedIndex].cc
       IN  CASE cc = NoCC -> Update(i, Res(s1, {}), msgs)
             [] cc.type = "add" -> Update(i, Res(AddNode(s1, cc.id), {}), msgs)
             [] cc.id = i -> Update(i, Res([s1 EXCEPT !.destroyed = TRUE], {}), msgs)
             [] OTHER -> Update(i, RemoveNode(s1, cc.id), msgs)
    /\ UNCHANGED panicked

\* MsgTransferLeader stepped locally with From = t (RawNode.TransferLeader)
TransferLeader(i, t) ==
    /\ Live(i) /\ r[i].State # Candidate
    /\ Update(i, IF r[i].State = Leader THEN LeaderTransfer(r[i], t)
                 ELSE StepFollower(r[i], [Blank EXCEPT !.type = "MsgTransferLeader",
                                                       !.from = t, !.to = i]), msgs)
    /\ UNCHANGED panicked

\* Deliver m to its destination; rest is the network afterwards (m removed,
\* or kept when the network duplicates it)
\* Mutant of Deliver: a message of a lower term is stepped, not ignored.
DeliverNoTermCheck(m, rest) ==
    LET i == m.to
        s == r[i]
        g == Gate(s, m)
    IN  \/ /\ s.destroyed
           /\ msgs' = rest
           /\ UNCHANGED <<r, panicked, ready>>
        \/ /\ ~s.destroyed
           /\ (m.type = "MsgTimeoutNow" /\ g.State = Follower) => g.Term < MaxTerm
           /\ Update(i, Step(g, m), rest)
           /\ panicked' = (panicked \/ StepPanics(g, m))

Deliver(m, rest) ==
    LET i == m.to
        s == r[i]
        g == Gate(s, m)
    IN  \/ /\ m.term < s.Term \/ s.destroyed   \* dropped: lower term, or no peer
           /\ msgs' = rest
           /\ UNCHANGED <<r, panicked, ready>>
        \/ /\ m.term >= s.Term /\ ~s.destroyed
           /\ (m.type = "MsgTimeoutNow" /\ g.State = Follower) => g.Term < MaxTerm
           /\ Update(i, Step(g, m), rest)
           /\ panicked' = (panicked \/ StepPanics(g, m))

Receive(m) == Deliver(m, msgs \ {m})

Duplicate(m) == Deliver(m, msgs)

Lose(m) == msgs' = msgs \ {m} /\ UNCHANGED <<r, panicked, ready>>

\* newRaft after a restart: the HardState and entries from storage
\* (loadState), Prs from the persisted ConfState, applied from the apply
\* state, then becomeFollower(Term, None), which keeps the Vote of the term.
Restart(s, st) ==
    BecomeFollower([InitNode(s.id) EXCEPT !.Term = st.Term, !.Vote = st.Vote,
                                          !.committed = st.committed, !.log = st.log,
                                          !.prs = s.prs, !.applied = s.appliedIndex,
                                          !.appliedIndex = s.appliedIndex],
                   st.Term, None)

\* HasReady: there are messages to send or state to save
HasReady(i) == outbox[i] # {} \/ Durable(r[i]) # stable[i]

\* HandleRaftReady of a leader: ready.Messages are sent and SaveReadyState
\* writes the HardState and the entries
Ready(i) ==
    /\ Persistence /\ Live(i) /\ HasReady(i)
    /\ stable' = [stable EXCEPT ![i] = Durable(r[i])]
    /\ msgs' = msgs \cup outbox[i]
    /\ outbox' = [outbox EXCEPT ![i] = {}]
    /\ UNCHANGED <<r, panicked, crashes>>

\* The store process crashes while the peer has a Ready not yet handled:
\* what was not saved, and the messages not yet sent, are lost; the peer
\* restarts from storage.  (A crash with nothing unsaved only resets the
\* volatile state, which is left out to bound the state space.)
Crash(i) ==
    /\ Persistence /\ Live(i) /\ HasReady(i) /\ crashes < MaxCrashes
    /\ r' = [r EXCEPT ![i] = Restart(r[i], stable[i])]
    /\ outbox' = [outbox EXCEPT ![i] = {}]
    /\ crashes' = crashes + 1
    /\ UNCHANGED <<msgs, stable, panicked>>

\* HandleRaftReady of a leader: it sends ready.Messages first (raft thesis
\* 10.2.1), then crashes before SaveReadyState returns.
CrashAfterSend(i) ==
    /\ Persistence /\ Live(i) /\ SendsFirst(r[i]) /\ outbox[i] # {}
    /\ crashes < MaxCrashes
    /\ msgs' = msgs \cup outbox[i]
    /\ r' = [r EXCEPT ![i] = Restart(r[i], stable[i])]
    /\ outbox' = [outbox EXCEPT ![i] = {}]
    /\ crashes' = crashes + 1
    /\ UNCHANGED <<stable, panicked>>

RaftNext ==
    \/ \E i \in Nodes : Timeout(i)
    \/ \E i \in Nodes : TickHeartbeat(i)
    \/ \E i \in Nodes : Propose(i)
    \/ \E i, t \in Nodes : TransferLeader(i, t)
    \/ \E m \in msgs : Receive(m)
    \/ \E m \in msgs : Duplicate(m)
    \/ \E m \in msgs : Lose(m)

\* The raftstore peer's Ready handling, and crashes
ReadyNext ==
    \/ \E i \in Nodes : Ready(i)
    \/ \E i \in Nodes : Crash(i)
    \/ \E i \in Nodes : CrashAfterSend(i)

\* Membership: the driver's steps and the proposal of a change
MembershipNext ==
    \/ \E i \in Nodes, cc \in CCs : ProposeConfChange(i, cc)
    \/ \E i \in Nodes : Advance(i)
    \/ \E i \in Nodes : ApplyConfChange(i)

\* History: record each election and each newly committed entry
History ==
    /\ elections' = elections \cup
          {<<i, r'[i].Term>> : i \in {j \in Nodes : r'[j].State = Leader
                                         /\ (r[j].State # Leader \/ r[j].Term # r'[j].Term)}}
    /\ commits' = commits \cup
          UNION {{[index |-> n, entry |-> r'[i].log[n], at |-> r'[i].Term]
                   : n \in (r[i].committed + 1)..MinOf(r'[i].committed, LastIndex(r'[i]))}
                 : i \in Nodes}

Next == (RaftNext \/ MembershipNext \/ ReadyNext) /\ History

Spec == Init /\ [][Next]_vars

-----------------------------------------------------------------------------
(* Properties *)

\* Election safety: no two nodes ever become leader in the same term (the
\* vote rule of Step's MsgRequestVote case and poll's quorum count).
ElectionSafety ==
    \A e1, e2 \in elections : e1[2] = e2[2] => e1[1] = e2[1]

\* None of the panics the code itself raises is reached: commitTo's
\* commit past the log, RaftLog.maybeAppend's conflict with a
\* committed entry, and send's panic on a forwarded message that already
\* carries a term (a MsgTransferLeader a follower forwards twice).  The
\* panics of the unfinished stubs are not modelled: the stubs are filled in.
NoPanic == ~panicked

\* Log matching: two logs holding the same term at an index agree on every
\* entry up to it (handleAppendEntries' matchTerm check with maybeAppend's
\* truncation).
LogMatching ==
    \A i, j \in Nodes : \A n \in 1..MinOf(LastIndex(r[i]), LastIndex(r[j])) :
        r[i].log[n] = r[j].log[n] =>
            SubSeq(r[i].log, 1, n) = SubSeq(r[j].log, 1, n)

\* State machine safety: an entry once committed anywhere stays in the log
\* of every node that has committed its index, with the same term.
StateMachineSafety ==
    \A c \in commits : \A i \in Nodes :
        r[i].committed >= c.index =>
            c.index <= LastIndex(r[i]) /\ r[i].log[c.index] = c.entry

\* Leader completeness: a leader of a term at or after the one in which an
\* entry was committed holds that entry (isUpToDate in the vote).
LeaderCompleteness ==
    \A c \in commits : \A l \in Nodes :
        r[l].State = Leader /\ r[l].Term >= c.at =>
            c.index <= LastIndex(r[l]) /\ r[l].log[c.index] = c.entry

\* A leader's Progress is sound: Next never points past LastIndex+1 (so
\* sendAppend's Term(Next-1) never fails into the snapshot branch), and what
\* it believes a follower of its own term has matched is really in that
\* follower's log (maybeUpdate fed by handleAppendEntries' replies, whose
\* heartbeat commit min(Match, committed) relies on it).
ProgressSound ==
    \A l \in Nodes : r[l].State = Leader =>
        \A j \in r[l].prs :
            /\ r[l].Next[j] <= LastIndex(r[l]) + 1
            /\ r[j].Term = r[l].Term /\ j # l =>
                  /\ r[l].Match[j] <= LastIndex(r[j])
                  /\ SubSeq(r[j].log, 1, r[l].Match[j]) = SubSeq(r[l].log, 1, r[l].Match[j])

\* spec.md 3 (Progress): "Invariants: match < next".  maybeDecrTo only
\* discards a rejection with rejected <= Match, so a delayed rejection that
\* arrives after a later success can set Next to min(rejected, hint+1) <= Match.
MatchBelowNext ==
    \A l \in Nodes : r[l].State = Leader =>
        \A j \in r[l].prs : r[l].Match[j] < r[l].Next[j]

\* A leader's commit index is never behind what its own Progress shows a
\* quorum of its configuration has matched: every step that raises a Match
\* or shrinks the configuration recommits, removeNode's maybeCommit
\* (raft.go:909) included.  Otherwise an entry the remaining members have
\* acknowledged waits for a later append response that may never come.
CommitCaughtUp ==
    \A l \in Nodes : Live(l) /\ r[l].State = Leader =>
        MaybeCommit(r[l]).committed = r[l].committed

\* Only one conf change may be pending, in the log but not yet applied
\* (raft.go:166): a leader appends a ConfChange entry only when every
\* ConfChange already in its log has been applied to its configuration.
\* Three checks make it hold together: the peer's refusal while
\* PendingConfIndex is above its applied index (peer.go:663), stepLeader's
\* against RaftLog.applied (raft.go:666), which Advance moves before the
\* change is applied, and becomeLeader's PendingConfIndex = LastIndex
\* (raft.go:503) for the changes of earlier leaders.
OneConfChangePending ==
    [][\A i \in Nodes :
        LET k == LastIndex(r'[i]) IN
        /\ r[i].State = Leader /\ r'[i].State = Leader /\ r'[i].Term = r[i].Term
        /\ k > LastIndex(r[i]) /\ r'[i].log[k].cc # NoCC
        => \A n \in (r[i].appliedIndex + 1)..LastIndex(r[i]) : r[i].log[n].cc = NoCC]_vars

\* What a node has told others survives its crash: a vote it granted, or
\* entries it acknowledged, are in what SaveReadyState wrote before the
\* response was sent (HandleRaftReady sends a non-leader's messages only
\* after the save, peer.go:389-396).  A vote lost in a crash lets the node
\* vote again in the same term; an acknowledgement lost lets a leader count
\* an entry the follower no longer holds.
SentIsDurable ==
    \A m \in msgs :
        LET st == stable[m.from] IN
        /\ m.type = "MsgRequestVoteResponse" /\ ~m.reject =>
              st.Term > m.term \/ (st.Term = m.term /\ st.Vote = m.to)
        /\ m.type = "MsgAppendResponse" /\ ~m.reject /\ st.Term = m.term =>
              m.index <= Len(st.log)

\* Refinement: the committed prefix of the most advanced node implements
\* the append-only committed log of CommittedLog.
CommittedPrefix ==
    LET i == CHOOSE i \in Nodes : \A j \in Nodes : r[i].committed >= r[j].committed
    IN  SubSeq(r[i].log, 1, MinOf(r[i].committed, LastIndex(r[i])))

Committed == INSTANCE CommittedLog WITH clog <- CommittedPrefix, Entries <- Entries

\* The cluster's committed entries form one log that only grows at its end:
\* no election, truncation or commit step ever changes a committed entry.
CommittedLogRefinement == Committed!Spec

=============================================================================
