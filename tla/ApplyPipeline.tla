--------------------------- MODULE ApplyPipeline ---------------------------
(***************************************************************************)
(* The path of a client command from the raftstore peer to its answer,     *)
(* for one peer of one region (src/tinykv/kv/raftstore/peer.go and         *)
(* applier.go).                                                            *)
(*                                                                         *)
(* The peer proposes a command to its Raft group and records a proposal    *)
(* (index, term, callback).  The raft worker hands the proposals to the    *)
(* applier (TakeApplyProposals) and, from HandleRaftReady, the committed   *)
(* entries; both travel on the apply channel, a FIFO.  The applier keeps   *)
(* the proposals in its pendingCmdQueue and, applying each committed       *)
(* entry, answers the callback whose (index, term) matches, and answers    *)
(* every older pending command as stale.                                   *)
(*                                                                         *)
(* The Raft group is the environment: the peer may win an election, lose   *)
(* one to another store whose leader truncates the uncommitted tail and    *)
(* appends its own entries, and the commit index moves forward.  Log       *)
(* entries are abstracted to their term, the kind of their data and the    *)
(* callback of the client that proposed them at this peer.                 *)
(***************************************************************************)
EXTENDS Naturals, Sequences, SequencesExt, TLC

CONSTANTS
    Callbacks,       \* the clients' callbacks (message.Callback), one per command
    None,            \* a callback of a command proposed at another store
    MaxTerm,         \* bound on the Raft term
    MaxLogLen,       \* bound on the length of the Raft log
    ProposalsFirst,  \* the raft worker sends the proposals before the Ready's entries
    Snapshots        \* the leader may send this peer a snapshot

ASSUME MaxTerm \in Nat /\ MaxLogLen \in Nat /\ ProposalsFirst \in BOOLEAN
ASSUME Snapshots \in BOOLEAN
ASSUME None \notin Callbacks

VARIABLES
    term,             \* Raft.Term of this peer
    leader,           \* this peer is the leader of term
    log,              \* RaftLog entries: [term, data, cb]
    committed,        \* RaftLog.committed
    applied,          \* RaftLog.applied, equal to peer.LastApplyingIdx after Advance
    pendingConfIndex, \* Raft.PendingConfIndex
    pendingSnapshot,  \* index of RaftLog.pending_snapshot, 0 when there is none
    applyProposals,   \* peer.applyProposals
    applyCh,          \* the apply worker's channel, FIFO
    normals,          \* applier.pendingCmds.normals
    confCmd,          \* applier.pendingCmds.confChange, as a sequence of length 0 or 1
    appliedIndex,     \* applier.applyState.AppliedIndex
    proposal,         \* history: the proposal recorded for each callback
    resp              \* history: the answers each callback received, in order

raftVars    == <<term, leader, log, committed, applied, pendingConfIndex, pendingSnapshot>>
applierVars == <<normals, confCmd, appliedIndex>>
vars == <<raftVars, applyProposals, applyCh, applierVars, proposal, resp>>

Terms   == 0..MaxTerm
Indexes == 0..MaxLogLen
Data    == {"empty", "normal", "conf"}   \* len(Data) = 0, a command, a ConfChange
Entry   == [term : 1..MaxTerm, data : Data, cb : Callbacks \cup {None}]
Cmd     == [index : Indexes, term : Terms, cb : Callbacks]           \* pendingCmd
Prop    == [isConfChange : BOOLEAN, index : Indexes, term : Terms, cb : Callbacks]
Outcome == {"applied", "stale", "refreshed", "error"}
NoProposal == [isConfChange |-> FALSE, index |-> 0, term |-> 0]

LastIndex == Len(log)

(***************************************************************************)
(* Init: a new peer whose log, applier and channels are empty.            *)
(***************************************************************************)
Init ==
    /\ term = 0 /\ leader = FALSE /\ log = <<>>
    /\ committed = 0 /\ applied = 0 /\ pendingConfIndex = 0 /\ pendingSnapshot = 0
    /\ applyProposals = <<>> /\ applyCh = <<>>
    /\ normals = <<>> /\ confCmd = <<>> /\ appliedIndex = 0
    /\ proposal = [c \in Callbacks |-> NoProposal]
    /\ resp = [c \in Callbacks |-> <<>>]

(***************************************************************************)
(* The Raft group, as seen from this peer.                                 *)
(***************************************************************************)

\* becomeLeader: reset, PendingConfIndex set to the last index, the no-op entry.
\* The votes answer requests this peer sends from a Ready, so it does not win
\* an election while a snapshot waits for its Ready.
BecomeLeader ==
    /\ term < MaxTerm /\ LastIndex < MaxLogLen /\ pendingSnapshot = 0
    /\ term' = term + 1
    /\ leader' = TRUE
    /\ pendingConfIndex' = LastIndex
    /\ log' = Append(log, [term |-> term + 1, data |-> "empty", cb |-> None])
    /\ UNCHANGED <<committed, applied, pendingSnapshot>>

\* Another store wins term t; this peer becomes its follower (reset clears
\* PendingConfIndex) and its log becomes the new leader's: a prefix of its
\* own that keeps every committed entry, then the leader's no-op entry.
BecomeFollower(t, k) ==
    /\ term < t /\ committed <= k /\ k <= LastIndex /\ k < MaxLogLen
    /\ term' = t
    /\ leader' = FALSE
    /\ pendingConfIndex' = 0
    /\ log' = Append(SubSeq(log, 1, k), [term |-> t, data |-> "empty", cb |-> None])
    /\ UNCHANGED <<committed, applied, pendingSnapshot>>

\* The leader on another store appends an entry proposed there.  After it
\* sent a snapshot it pauses replication to this peer (sendAppend) until the
\* snapshot's response, which this peer sends from the Ready.
LeaderAppend(d) ==
    /\ ~leader /\ term > 0 /\ LastIndex < MaxLogLen /\ pendingSnapshot = 0
    /\ log' = Append(log, [term |-> term, data |-> d, cb |-> None])
    /\ UNCHANGED <<term, leader, committed, applied, pendingConfIndex, pendingSnapshot>>

\* The commit index moves forward (raftLog.commitTo); not past a snapshot
\* not yet acknowledged (a heartbeat carries min(match, committed)).
Commit(k) ==
    /\ committed < k /\ k <= LastIndex /\ pendingSnapshot = 0
    /\ committed' = k
    /\ UNCHANGED <<term, leader, log, applied, pendingConfIndex, pendingSnapshot>>

\* handleSnapshot from the leader of term t, whose log agrees with this
\* peer's up to j and reaches index k, with restore's checks: a snapshot at
\* or below the commit index is ignored, and one whose index and term the
\* log already has only moves the commit (matchTerm, left to Commit).
\* Otherwise the log is the snapshot's, the commit index its index, and the
\* snapshot is pending for the Ready.  Step made this peer a follower of t.
InstallSnapshot(t, j, k) ==
    /\ Snapshots
    /\ term < t \/ (term = t /\ ~leader)
    /\ committed < k /\ k <= MaxLogLen
    /\ committed <= j /\ j < k /\ j <= LastIndex
    /\ j < LastIndex => log[j + 1].term # t
    /\ ~(k <= LastIndex /\ log[k].term = t)
    /\ term' = t
    /\ leader' = FALSE
    /\ pendingConfIndex' = 0
    /\ log' = SubSeq(log, 1, j) \o [i \in 1..(k - j) |-> [term |-> t, data |-> "empty", cb |-> None]]
    /\ committed' = k
    /\ pendingSnapshot' = k
    /\ UNCHANGED applied

RaftStep ==
    /\ \/ BecomeLeader
       \/ \E t \in Terms, k \in Indexes : BecomeFollower(t, k)
       \/ \E d \in {"normal", "conf"} : LeaderAppend(d)
       \/ \E k \in Indexes : Commit(k)
       \/ \E t \in Terms \ {0}, j, k \in Indexes : InstallSnapshot(t, j, k)
    /\ UNCHANGED <<applyProposals, applyCh, applierVars, proposal, resp>>

(***************************************************************************)
(* The peer (peer.go).                                                     *)
(***************************************************************************)

Idle(c) == proposal[c] = NoProposal /\ resp[c] = <<>>

\* PostPropose: record the proposal for the applier.
PostPropose(index, isConfChange, c) ==
    LET p == [isConfChange |-> isConfChange, index |-> index, term |-> term, cb |-> c]
    IN  /\ applyProposals' = Append(applyProposals, p)
        /\ proposal' = [proposal EXCEPT ![c] = [isConfChange |-> isConfChange,
                                                 index |-> index, term |-> term]]

\* A failed proposal: cb.Done(errResp).
Reject(c) ==
    /\ resp' = [resp EXCEPT ![c] = Append(@, "error")]
    /\ UNCHANGED <<raftVars, applyProposals, proposal>>

\* Propose of a normal command: ProposeNormal, then PostPropose.  A follower
\* or candidate drops the proposal (ErrProposalDropped), so the log does not
\* grow and the callback gets the error.
ProposeNormal(c) ==
    /\ Idle(c)
    /\ \/ /\ leader /\ LastIndex < MaxLogLen
          /\ log' = Append(log, [term |-> term, data |-> "normal", cb |-> c])
          /\ PostPropose(LastIndex + 1, FALSE, c)
          /\ UNCHANGED <<term, leader, committed, applied, pendingConfIndex, pendingSnapshot, resp>>
       \/ /\ ~leader
          /\ Reject(c)
    /\ UNCHANGED <<applyCh, applierVars>>

\* stepLeader's MsgPropose of a ConfChange entry: with PendingConfIndex above
\* RaftLog.applied the entry becomes an empty normal entry; otherwise it is
\* appended and PendingConfIndex becomes its index.
AppendConfEntry(c) ==
    IF pendingConfIndex > applied
      THEN /\ log' = Append(log, [term |-> term, data |-> "empty", cb |-> None])
           /\ UNCHANGED pendingConfIndex
      ELSE /\ log' = Append(log, [term |-> term, data |-> "conf", cb |-> c])
           /\ pendingConfIndex' = LastIndex + 1

\* Mutant of ProposeConfChange: no check of PendingConfIndex in the peer.
ProposeConfChangeNoPendingCheck(c) ==
    /\ Idle(c)
    /\ \/ Reject(c)
       \/ /\ ~leader
          /\ Reject(c)
       \/ /\ leader /\ LastIndex < MaxLogLen
          /\ AppendConfEntry(c)
          /\ PostPropose(LastIndex + 1, TRUE, c)
          /\ UNCHANGED <<term, leader, committed, applied, pendingSnapshot, resp>>
    /\ UNCHANGED <<applyCh, applierVars>>

\* Propose of a ConfChange: ProposeConfChange refuses while PendingConfIndex
\* is above the applied index, or when checkConfChange finds the change
\* unsafe; stepLeader turns the entry into an empty normal entry when its own
\* PendingConfIndex is above RaftLog.applied, and otherwise records it.
ProposeConfChange(c) ==
    /\ Idle(c)
    /\ \/ /\ pendingConfIndex > appliedIndex
          /\ Reject(c)
       \/ /\ pendingConfIndex <= appliedIndex
          /\ \/ Reject(c)                       \* checkConfChange: unsafe
             \/ /\ ~leader
                /\ Reject(c)
             \/ /\ leader /\ LastIndex < MaxLogLen
                /\ AppendConfEntry(c)
                /\ PostPropose(LastIndex + 1, TRUE, c)
                /\ UNCHANGED <<term, leader, committed, applied, pendingSnapshot, resp>>
    /\ UNCHANGED <<applyCh, applierVars>>

\* TakeApplyProposals: the batch of proposals goes to the applier.
TakeApplyProposals ==
    /\ applyProposals # <<>>
    /\ applyCh' = Append(applyCh, [type |-> "proposal", props |-> applyProposals])
    /\ applyProposals' = <<>>
    /\ UNCHANGED <<raftVars, applierVars, proposal, resp>>

\* The committed entries of a Ready, (applied, committed], as the applier
\* sees them: index, term and the kind of data; the callback is not in them.
CommittedEntries ==
    [j \in 1..(committed - applied) |->
        [index |-> applied + j, term |-> log[applied + j].term, data |-> log[applied + j].data]]

\* HandleRaftReady with committed entries: send them to the applier as
\* MsgApplyCommitted, set LastApplyingIdx, then Advance (RaftLog.applied).
HandleRaftReady ==
    /\ committed > applied /\ pendingSnapshot = 0
    /\ ProposalsFirst => applyProposals = <<>>
    /\ applyCh' = Append(applyCh, [type |-> "committed", entries |-> CommittedEntries])
    /\ applied' = committed
    /\ UNCHANGED <<term, leader, log, committed, pendingConfIndex, pendingSnapshot,
                   applyProposals, applierVars, proposal, resp>>

\* HandleRaftReady when SaveReadyState applied the Ready's snapshot: send
\* MsgApplyRefresh to register the applier anew instead of committed
\* entries, set LastApplyingIdx to the truncated index, then Advance.
HandleRaftReadySnapshot ==
    /\ pendingSnapshot > 0
    /\ ProposalsFirst => applyProposals = <<>>
    /\ applyCh' = Append(applyCh, [type |-> "refresh", index |-> pendingSnapshot])
    /\ applied' = pendingSnapshot
    /\ pendingSnapshot' = 0
    /\ UNCHANGED <<term, leader, log, committed, pendingConfIndex,
                   applyProposals, applierVars, proposal, resp>>

(***************************************************************************)
(* The applier (applier.go).  Its state is the record                      *)
(* [normals, conf, applied, resp] threaded through the loops of a handler; *)
(* answering a callback (cb.Done, directly or through applyCallback at     *)
(* writeToDB) appends the outcome to resp.                                 *)
(***************************************************************************)

Answer(a, cb, outcome) == [a EXCEPT !.resp[cb] = Append(@, outcome)]

\* Mutant of AddProposal: setConfChange without takeConfChange, so that a
\* second ConfChange queues behind the first.
AddProposalQueueConf(a, p) ==
    LET cmd == [index |-> p.index, term |-> p.term, cb |-> p.cb]
    IN  IF p.isConfChange THEN [a EXCEPT !.conf = Append(@, cmd)]
                          ELSE [a EXCEPT !.normals = Append(@, cmd)]

\* handleProposal: a ConfChange replaces the pending one, which is answered
\* as stale; a normal command joins the queue (appendNormal).
AddProposal(a, p) ==
    LET cmd == [index |-> p.index, term |-> p.term, cb |-> p.cb]
    IN  IF p.isConfChange
          THEN [(IF a.conf # <<>> THEN Answer(a, a.conf[1].cb, "stale") ELSE a)
                  EXCEPT !.conf = <<cmd>>]
          ELSE [a EXCEPT !.normals = Append(@, cmd)]

\* popNormal(t) returns the head of the queue unless the queue is empty or the
\* head's term is above t.
CanPop(a, t) == a.normals # <<>> /\ Head(a.normals).term <= t

\* The loop of popNormal(term) in findCallback: a head of a later term stays;
\* a head with the entry's index and term is its callback; any other head is
\* answered as stale.
RECURSIVE FindNormal(_, _, _)
FindNormal(a, index, t) ==
    IF ~CanPop(a, t) THEN a
    ELSE LET head == Head(a.normals)
             rest == [a EXCEPT !.normals = Tail(@)]
         IN  IF head.index = index /\ head.term = t
               THEN Answer(rest, head.cb, "applied")
               ELSE FindNormal(Answer(rest, head.cb, "stale"), index, t)

\* Mutant of FindConf: the pending conf change is matched on the index alone.
FindConfIndexOnly(a, index, t) ==
    IF a.conf = <<>> THEN a
    ELSE Answer([a EXCEPT !.conf = <<>>], a.conf[1].cb,
                IF a.conf[1].index = index THEN "applied" ELSE "stale")

\* findCallback for a ConfChange entry: takeConfChange, then the same match.
FindConf(a, index, t) ==
    IF a.conf = <<>> THEN a
    ELSE LET cmd == a.conf[1]
             rest == [a EXCEPT !.conf = <<>>]
         IN  Answer(rest, cmd.cb, IF cmd.index = index /\ cmd.term = t THEN "applied" ELSE "stale")

\* Mutants of DropStale: popNormal(term) instead of popNormal(term - 1), and
\* no loop at all.
RECURSIVE DropStaleSameTerm(_, _)
DropStaleSameTerm(a, t) ==
    IF CanPop(a, t)
      THEN DropStaleSameTerm(Answer([a EXCEPT !.normals = Tail(@)], Head(a.normals).cb, "stale"), t)
      ELSE a

DropStaleSkip(a, t) == a

\* The empty entry of handleRaftEntryNormal: every pending command of an
\* earlier term is stale (the loop of popNormal(term - 1)).
RECURSIVE DropStale(_, _)
DropStale(a, t) ==
    IF CanPop(a, t - 1)
      THEN DropStale(Answer([a EXCEPT !.normals = Tail(@)], Head(a.normals).cb, "stale"), t)
      ELSE a

\* processRaftCmd: applyRaftCmd sets AppliedIndex (whether the command
\* succeeds or fails, the callback gets a response), then findCallback.
ProcessRaftCmd(a, e, isConfChange) ==
    LET b == [a EXCEPT !.applied = e.index]
    IN  IF isConfChange THEN FindConf(b, e.index, e.term) ELSE FindNormal(b, e.index, e.term)

\* handleRaftEntryNormal: a command, or an empty entry (a leader's no-op or a
\* dropped ConfChange), which sets AppliedIndex and drops older commands.
HandleRaftEntryNormal(a, e) ==
    IF e.data = "empty"
      THEN DropStale([a EXCEPT !.applied = e.index], e.term)
      ELSE ProcessRaftCmd(a, e, FALSE)

\* handleRaftEntryConfChange: the ConfChange's command, through processRaftCmd.
HandleRaftEntryConfChange(a, e) == ProcessRaftCmd(a, e, TRUE)

\* One iteration of handleRaftCommittedEntries: the index check, a panic,
\* then the entry by its type.
ApplyEntry(a, e) ==
    IF e.index # a.applied + 1
      THEN Assert(FALSE, "expect index applied + 1")
      ELSE IF e.data = "conf" THEN HandleRaftEntryConfChange(a, e)
                              ELSE HandleRaftEntryNormal(a, e)

ApplierState == [normals |-> normals, conf |-> confCmd, applied |-> appliedIndex, resp |-> resp]

SetApplier(a) ==
    /\ normals' = a.normals
    /\ confCmd' = a.conf
    /\ appliedIndex' = a.applied
    /\ resp' = a.resp

\* handleTask with MsgApplyProposal: handleProposal.
HandleProposal ==
    /\ applyCh # <<>> /\ Head(applyCh).type = "proposal"
    /\ applyCh' = Tail(applyCh)
    /\ SetApplier(FoldLeft(AddProposal, ApplierState, Head(applyCh).props))
    /\ UNCHANGED <<raftVars, applyProposals, proposal>>

\* handleTask with MsgApplyCommitted: handleApply, handleRaftCommittedEntries.
HandleApply ==
    /\ applyCh # <<>> /\ Head(applyCh).type = "committed"
    /\ applyCh' = Tail(applyCh)
    /\ SetApplier(FoldLeft(ApplyEntry, ApplierState, Head(applyCh).entries))
    /\ UNCHANGED <<raftVars, applyProposals, proposal>>

\* Mutant of RefreshPending: the callbacks are answered and the queue kept.
RefreshPendingKeepQueue(a) ==
    LET cbs == [i \in DOMAIN a.normals |-> a.normals[i].cb] \o [i \in DOMAIN a.conf |-> a.conf[i].cb]
    IN  FoldLeft(LAMBDA b, cb : Answer(b, cb, "refreshed"), a, cbs)

\* The loops of handleRefresh: every pending normal command, then the
\* pending conf change, is answered by notifyStaleCommand ("refreshed"
\* marks this path in the history), and the queue is left empty.
RefreshPending(a) ==
    LET cbs == [i \in DOMAIN a.normals |-> a.normals[i].cb] \o [i \in DOMAIN a.conf |-> a.conf[i].cb]
    IN  [FoldLeft(LAMBDA b, cb : Answer(b, cb, "refreshed"), a, cbs) EXCEPT !.normals = <<>>, !.conf = <<>>]

\* handleTask with MsgApplyRefresh: handleRefresh, then the applier is
\* rebuilt with an empty applyState; prepareFor reloads it from the KV
\* engine, where the snapshot left the applied index at its own index.
HandleRefresh ==
    /\ applyCh # <<>> /\ Head(applyCh).type = "refresh"
    /\ applyCh' = Tail(applyCh)
    /\ SetApplier([RefreshPending(ApplierState) EXCEPT !.applied = Head(applyCh).index])
    /\ UNCHANGED <<raftVars, applyProposals, proposal>>

--------------------------------------------------------------------------------

Next ==
    \/ RaftStep
    \/ \E c \in Callbacks : ProposeNormal(c) \/ ProposeConfChange(c)
    \/ TakeApplyProposals
    \/ HandleRaftReady
    \/ HandleRaftReadySnapshot
    \/ HandleProposal
    \/ HandleApply
    \/ HandleRefresh

\* The raft worker loops over every peer with a Ready and over the proposals
\* taken; the apply worker loops over its channel.  Both are goroutines that
\* run whenever they have work, so each of their steps is weakly fair.  The
\* Raft group and the clients are the environment and carry no fairness.
Fairness ==
    /\ WF_vars(TakeApplyProposals)
    /\ WF_vars(HandleRaftReady)
    /\ WF_vars(HandleProposal)
    /\ WF_vars(HandleApply)
    /\ WF_vars(HandleRaftReadySnapshot)
    /\ WF_vars(HandleRefresh)

Spec == Init /\ [][Next]_vars /\ Fairness

--------------------------------------------------------------------------------

TypeOK ==
    /\ term \in Terms /\ leader \in BOOLEAN
    /\ log \in Seq(Entry) /\ Len(log) <= MaxLogLen
    /\ committed \in Indexes /\ applied \in Indexes /\ pendingConfIndex \in Indexes
    /\ pendingSnapshot \in Indexes
    /\ applied <= committed /\ committed <= Len(log)
    /\ applyProposals \in Seq(Prop)
    /\ normals \in Seq(Cmd) /\ confCmd \in Seq(Cmd) /\ Len(confCmd) <= 1
    /\ appliedIndex \in Indexes
    /\ resp \in [Callbacks -> Seq(Outcome)]

\* Each callback is answered at most once: by the proposal's failure, by
\* findCallback when its entry is applied, or as stale (notifyStaleCommand);
\* never by two of them (findCallback pops the callback it returns).
AnsweredOnce == \A c \in Callbacks : Len(resp[c]) <= 1

\* A callback answered with an applied result was answered for its own
\* entry: the entry applied at the proposal's index is the one the client
\* proposed (findCallback matches index and term, not the index alone).
AppliedIsOwnEntry ==
    \A c \in Callbacks :
        "applied" \in ToSet(resp[c]) =>
            /\ proposal[c].index \in 1..appliedIndex
            /\ log[proposal[c].index].cb = c

\* A command answered as stale is never committed: a client told that its
\* command was dropped does not find it executed (the popNormal term checks,
\* the no-op of a new leader, and the pending conf change replaced only once
\* the previous one was applied).  The stale answers of handleRefresh are
\* not covered ("refreshed"): a snapshot may hold a command still pending.
StaleNeverCommitted ==
    \A c \in Callbacks :
        "stale" \in ToSet(resp[c]) => \A k \in 1..committed : log[k].cb # c

\* The check of ProposeConfChange against the applier's applied index makes
\* stepLeader's check against RaftLog.applied redundant: an accepted
\* ConfChange is never turned into an empty entry, whose callback would only
\* be answered by the next ConfChange.
ConfChangeNotDropped ==
    \A c \in Callbacks :
        LET p == proposal[c]
        IN  p.isConfChange /\ p.index \in 1..Len(log) /\ log[p.index].term = p.term
              => log[p.index].data = "conf"

\* A normal command whose index is committed is eventually answered: with
\* its result if the committed entry is its own, or as stale once the new
\* leader's no-op entry, committed before it, is applied.
AnsweredEventually ==
    \A c \in Callbacks :
        (/\ proposal[c].index > 0 /\ ~proposal[c].isConfChange
         /\ committed >= proposal[c].index) ~> resp[c] # <<>>

================================================================================
