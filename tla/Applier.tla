------------------------------- MODULE Applier -------------------------------
(***************************************************************************)
(* What the applier of one region does to the store's KV engine, and what *)
(* survives a crash (src/tinykv/kv/raftstore/applier.go).                  *)
(*                                                                         *)
(* The raft worker hands each batch of committed entries to the apply      *)
(* worker (MsgApplyCommitted).  handleRaftCommittedEntries executes them   *)
(* one by one into the applyContext's write batch: applyRaftCmd runs the   *)
(* command between SetSafePoint and RollbackToSafePoint, and commit writes *)
(* the apply state into the same batch and writes the batch to the engine, *)
(* then invokes the callbacks of the entries it holds.  finishFor and the  *)
(* worker's flush write what is left.  The commands are Put, Delete and    *)
(* Get, and the admin commands ChangePeer, Split and CompactLog.           *)
(*                                                                         *)
(* The store may crash between any two steps.  The write batch, the        *)
(* callbacks, the channel and the applier are lost; on restart the applier *)
(* starts again from the region state and the apply state in the engine,   *)
(* and Raft hands it the entries after the applied index again.            *)
(*                                                                         *)
(* Keys are 1..NKeys, with 0 the empty key; a region's end key 0 is the    *)
(* empty (unbounded) end key.  CheckRegionEpoch is outside the repository: *)
(* a command carries whether its epoch is stale, and which commands check  *)
(* the epoch follows TinyKV's util.CheckRegionEpoch.                       *)
(***************************************************************************)
EXTENDS Naturals, Sequences, SequencesExt, FiniteSets, TLC

CONSTANTS
    NKeys,        \* keys are 1..NKeys
    Vals,         \* the values a Put writes (strings)
    Self,         \* this peer, [id, store]
    InitRegion,   \* [start, end, peers, confVer, version] when the store starts
    Cmds,         \* the commands the Raft group may commit
    MaxLogLen,    \* bound on the number of committed entries
    MaxCrashes    \* bound on the number of crashes

Keys == 1..NKeys
Nil  == "nil"     \* a key with no value
Keep == "keep"    \* a key the write batch does not write

\* util.CheckKeyInRegion
InRegion(k, r) == r.start <= k /\ (r.end = 0 \/ k < r.end)

\* The epoch check applies to every command except CompactLog and
\* InvalidAdmin.
EpochOk(c) == ~c.stale \/ c.type \in {"compact", "invalid"}

(***************************************************************************)
(* Executing a command.  a is the applier's state [region, applied, trunc, *)
(* pendingRemove] (applyState is [AppliedIndex, TruncatedState.Index]);   *)
(* kv is the data the command writes into: the write batch's, or any      *)
(* function of the keys.  The result e carries the writes, the new region *)
(* and region state, the truncated index and the response.               *)
(***************************************************************************)

NoExec(a, kv) ==
    [err |-> FALSE, kv |-> kv, region |-> a.region, regionWrite |-> <<>>,
     trunc |-> a.trunc, pendingRemove |-> a.pendingRemove, nilResp |-> FALSE]

Fail(a, kv) == [NoExec(a, kv) EXCEPT !.err = TRUE]

\* One request of execNormalCmd: handlePut, handleDelete or handleGet.  Each
\* assigns err, so the error of an earlier request is overwritten by a later
\* one; a failed request's response is nil.
ExecRequest(region, acc, r) ==
    LET ok == InRegion(r.key, region)
    IN  [acc EXCEPT
           !.kv = IF ok /\ r.op = "put" THEN [acc.kv EXCEPT ![r.key] = r.val]
                  ELSE IF ok /\ r.op = "delete" THEN [acc.kv EXCEPT ![r.key] = Nil]
                  ELSE acc.kv,
           !.err = ~ok,
           !.nilResp = acc.nilResp \/ ~ok]

\* execNormalCmd (clients never mix reads and writes in one command).
ExecNormalCmd(a, kv, c) == FoldLeft(LAMBDA acc, r : ExecRequest(a.region, acc, r), NoExec(a, kv), c.reqs)

\* util.FindPeer: the peers of the region on a store.
FindPeer(region, store) == {p \in region.peers : p.store = store}

ChangedRegion(a, kv, region, pendingRemove) ==
    [NoExec(a, kv) EXCEPT
        !.region = region,
        !.pendingRemove = pendingRemove,
        !.regionWrite = <<[region |-> region,
                           state |-> IF pendingRemove THEN "tombstone" ELSE "normal"]>>]

\* Mutant: removing this peer does not set pendingRemove.
ExecChangePeerNoPendingRemove(a, kv, c) ==
    LET region == [a.region EXCEPT !.confVer = @ + 1]
        found  == FindPeer(a.region, c.peer.store)
    IN  CASE c.change = "add" /\ found # {} -> Fail(a, kv)
          [] c.change = "add" -> ChangedRegion(a, kv, [region EXCEPT !.peers = @ \cup {c.peer}], a.pendingRemove)
          [] found = {} \/ found # {c.peer} -> Fail(a, kv)
          [] OTHER -> ChangedRegion(a, kv, [region EXCEPT !.peers = @ \ found], a.pendingRemove)

\* execChangePeer: ConfVer is bumped; adding a peer on a store that has one,
\* or removing a peer that is missing or differs from the region's, fails;
\* removing this peer sets pendingRemove and writes the region as Tombstone.
ExecChangePeer(a, kv, c) ==
    LET region == [a.region EXCEPT !.confVer = @ + 1]
        found  == FindPeer(a.region, c.peer.store)
    IN  CASE c.change = "add" /\ found # {} -> Fail(a, kv)
          [] c.change = "add" -> ChangedRegion(a, kv, [region EXCEPT !.peers = @ \cup {c.peer}], a.pendingRemove)
          [] found = {} \/ found # {c.peer} -> Fail(a, kv)
          [] OTHER -> ChangedRegion(a, kv, [region EXCEPT !.peers = @ \ found],
                                    a.pendingRemove \/ c.peer.id = Self.id)

\* execSplit: the split key must be present, above the start key and inside
\* the region, with one new peer id per peer.  The region keeps the upper
\* part [splitKey, end) with Version + 1; the new region, [start, splitKey),
\* belongs to another applier and its state is not followed here.
ExecSplit(a, kv, c) ==
    CASE c.splitKey = 0 -> Fail(a, kv)
      [] c.splitKey <= a.region.start -> Fail(a, kv)
      [] ~c.peerCountOk -> Fail(a, kv)
      [] ~InRegion(c.splitKey, a.region) -> Fail(a, kv)
      [] OTHER ->
           LET derived == [a.region EXCEPT !.version = @ + 1, !.start = c.splitKey]
           IN  [NoExec(a, kv) EXCEPT !.region = derived,
                   !.regionWrite = <<[region |-> derived, state |-> "normal"]>>]

\* Mutant: no check of the compact index against the applied index.
ExecCompactLogNoAppliedCheck(a, kv, c) ==
    CASE c.index <= a.trunc + 1 -> NoExec(a, kv)
      [] c.term = 0 -> Fail(a, kv)
      [] c.index <= a.trunc -> NoExec(a, kv)
      [] OTHER -> [NoExec(a, kv) EXCEPT !.trunc = c.index]

\* execCompactLog: nothing to do up to the first index; an old-format
\* command (term 0) fails; an index above the applied index is ignored.
ExecCompactLog(a, kv, c) ==
    CASE c.index <= a.trunc + 1 -> NoExec(a, kv)
      [] c.term = 0 -> Fail(a, kv)
      [] c.index <= a.trunc \/ c.index > a.applied -> NoExec(a, kv)
      [] OTHER -> [NoExec(a, kv) EXCEPT !.trunc = c.index]

\* execRaftCmd and execAdminCmd: the epoch check, then the command by type;
\* TransferLeader and InvalidAdmin fail.
ExecRaftCmd(a, kv, c) ==
    CASE ~EpochOk(c) -> Fail(a, kv)
      [] c.type = "normal" -> ExecNormalCmd(a, kv, c)
      [] c.type = "changePeer" -> ExecChangePeer(a, kv, c)
      [] c.type = "split" -> ExecSplit(a, kv, c)
      [] c.type = "compact" -> ExecCompactLog(a, kv, c)
      [] OTHER -> Fail(a, kv)


(***************************************************************************)
(* State                                                                   *)
(***************************************************************************)

VARIABLES
    log,              \* the committed entries (commands), in index order
    sent,             \* the last index handed to the applier (RaftLog.applied)
    ch,               \* the apply worker's channel: batches [lo, hi] of entries
    crashes,          \* the number of crashes so far
    applier,          \* [region, applied, trunc, pendingRemove] of the applier
    wb,               \* applyContext.wb: [kv, apply, region] not yet written
    cbs,              \* applyContext.cbs: the responses waiting for writeToDB
    lastAppliedIndex, \* applyContext.lastAppliedIndex
    phase,            \* the apply worker: "idle", "exec", "commit", "finish",
                      \* "flush", or "panic" after a failed index check
    cur,              \* the index of the entry handleRaftCommittedEntries is at
    hi,               \* the last index of the batch it handles
    db,               \* the KV engine: [kv, applied, trunc, region, state]
    acked             \* history: the responses the callbacks received

envVars    == <<log, sent, ch, crashes>>
workerVars == <<applier, wb, cbs, lastAppliedIndex, phase, cur, hi>>
vars == <<envVars, workerVars, db, acked>>

EmptyWB == [kv |-> [k \in Keys |-> Keep], apply |-> <<>>, region |-> <<>>]

InitDB == [kv |-> [k \in Keys |-> Nil], applied |-> 0, trunc |-> 0,
           region |-> InitRegion, state |-> "normal"]

\* The applier a restarted store builds from the engine (newApplierFromPeer
\* with the region state, and the apply state prepareFor reads).
FromDB(d) == [region |-> d.region, applied |-> d.applied, trunc |-> d.trunc,
              pendingRemove |-> d.state = "tombstone"]

Init ==
    /\ log = <<>> /\ sent = 0 /\ ch = <<>> /\ crashes = 0
    /\ applier = FromDB(InitDB)
    /\ wb = EmptyWB /\ cbs = {} /\ lastAppliedIndex = 0
    /\ phase = "idle" /\ cur = 0 /\ hi = 0
    /\ db = InitDB
    /\ acked = {}

(***************************************************************************)
(* The applyContext                                                        *)
(***************************************************************************)

\* writeApplyState
WriteApplyState(b, a) == [b EXCEPT !.apply = <<[applied |-> a.applied, trunc |-> a.trunc]>>]

\* WriteBatch.WriteToDB: every write of the batch reaches the engine at once.
WriteToDB(d, b) ==
    [d EXCEPT !.kv = [k \in Keys |-> IF b.kv[k] = Keep THEN d.kv[k] ELSE b.kv[k]],
              !.applied = IF b.apply = <<>> THEN @ ELSE b.apply[1].applied,
              !.trunc = IF b.apply = <<>> THEN @ ELSE b.apply[1].trunc,
              !.region = IF b.region = <<>> THEN @ ELSE b.region[1].region,
              !.state = IF b.region = <<>> THEN @ ELSE b.region[1].state]

\* prepareFor: the apply state is read back from the engine.
PrepareFor(a, d) == [a EXCEPT !.applied = d.applied, !.trunc = d.trunc]

\* Mutant: the writes of a failed command stay in the batch.
ApplyRaftCmdNoRollback(a, b, c, index) ==
    LET e == ExecRaftCmd(a, b.kv, c)
    IN  [a |-> [region |-> e.region, applied |-> index, trunc |-> e.trunc,
                pendingRemove |-> e.pendingRemove],
         wb |-> [b EXCEPT !.kv = e.kv, !.region = IF e.regionWrite = <<>> THEN @ ELSE e.regionWrite],
         resp |-> [index |-> index, err |-> e.err, nilResp |-> e.nilResp]]

\* applyRaftCmd: SetSafePoint, execRaftCmd, RollbackToSafePoint on an
\* error; AppliedIndex becomes the entry's index whatever the outcome, and
\* the region is the one a ChangePeer or Split returns.
ApplyRaftCmd(a, b, c, index) ==
    LET e == ExecRaftCmd(a, b.kv, c)
    IN  [a |-> [region |-> e.region, applied |-> index, trunc |-> e.trunc,
                pendingRemove |-> e.pendingRemove],
         wb |-> IF e.err THEN b
                ELSE [b EXCEPT !.kv = e.kv, !.region = IF e.regionWrite = <<>> THEN @ ELSE e.regionWrite],
         resp |-> [index |-> index, err |-> e.err, nilResp |-> e.nilResp]]

(***************************************************************************)
(* The environment: Raft commits entries, the raft worker hands them over, *)
(* the store crashes.                                                      *)
(***************************************************************************)

CommitEntry(c) ==
    /\ Len(log) < MaxLogLen
    /\ log' = Append(log, c)
    /\ UNCHANGED <<sent, ch, crashes, workerVars, db, acked>>

\* HandleRaftReady: the committed entries not yet handed over go to the
\* apply worker as one MsgApplyCommitted.
HandleRaftReady ==
    /\ sent < Len(log)
    /\ ch' = Append(ch, [lo |-> sent + 1, hi |-> Len(log)])
    /\ sent' = Len(log)
    /\ UNCHANGED <<log, crashes, workerVars, db, acked>>

\* Mutant: the restarted peer takes the commit index as applied.
RestartAppliedFromCommit ==
    /\ crashes < MaxCrashes
    /\ crashes' = crashes + 1
    /\ applier' = FromDB(db)
    /\ wb' = EmptyWB /\ cbs' = {} /\ lastAppliedIndex' = 0
    /\ phase' = "idle" /\ cur' = 0 /\ hi' = 0
    /\ ch' = <<>> /\ sent' = Len(log)
    /\ UNCHANGED <<log, db, acked>>

\* A crash and restart: everything but the engine is lost; Raft hands the
\* entries after the engine's applied index over again.
Restart ==
    /\ crashes < MaxCrashes
    /\ crashes' = crashes + 1
    /\ applier' = FromDB(db)
    /\ wb' = EmptyWB /\ cbs' = {} /\ lastAppliedIndex' = 0
    /\ phase' = "idle" /\ cur' = 0 /\ hi' = 0
    /\ ch' = <<>> /\ sent' = db.applied
    /\ UNCHANGED <<log, db, acked>>


(***************************************************************************)
(* The apply worker: handleTask with MsgApplyCommitted, then flush.        *)
(***************************************************************************)

\* handleApply: an applier waiting for removal drops the entries; otherwise
\* handleRaftCommittedEntries starts with prepareFor.
HandleApply ==
    /\ phase = "idle" /\ ch # <<>>
    /\ ch' = Tail(ch)
    /\ IF applier.pendingRemove
         THEN /\ phase' = "flush"
              /\ UNCHANGED <<applier, lastAppliedIndex, cur, hi>>
         ELSE /\ applier' = PrepareFor(applier, db)
              /\ lastAppliedIndex' = db.applied
              /\ cur' = Head(ch).lo /\ hi' = Head(ch).hi
              /\ phase' = "exec"
    /\ UNCHANGED <<log, sent, crashes, wb, cbs, db, acked>>

\* The loop of handleRaftCommittedEntries stops at an applier waiting for
\* removal.
BreakOnRemove ==
    /\ phase = "exec" /\ applier.pendingRemove
    /\ phase' = "finish"
    /\ UNCHANGED <<envVars, applier, wb, cbs, lastAppliedIndex, cur, hi, db, acked>>

\* Mutant: the callback is answered when the command is executed
\* (cb.Done in findCallback), before its batch is written.
ApplyEntryAckNow ==
    /\ phase = "exec" /\ ~applier.pendingRemove
    /\ IF cur # applier.applied + 1
         THEN /\ phase' = "panic"
              /\ UNCHANGED <<applier, wb, cbs, acked>>
         ELSE LET r == ApplyRaftCmd(applier, wb, log[cur], cur)
              IN  /\ applier' = r.a
                  /\ wb' = r.wb
                  /\ UNCHANGED cbs
                  /\ acked' = acked \cup {r.resp}
                  /\ phase' = "commit"
    /\ UNCHANGED <<envVars, lastAppliedIndex, cur, hi, db>>

\* One entry: the expected index check (a panic stops the worker), then
\* applyRaftCmd; the response joins the batch's callbacks (applyCallback.push).
ApplyEntry ==
    /\ phase = "exec" /\ ~applier.pendingRemove
    /\ IF cur # applier.applied + 1
         THEN /\ phase' = "panic"
              /\ UNCHANGED <<applier, wb, cbs>>
         ELSE LET r == ApplyRaftCmd(applier, wb, log[cur], cur)
              IN  /\ applier' = r.a
                  /\ wb' = r.wb
                  /\ cbs' = cbs \cup {r.resp}
                  /\ phase' = "commit"
    /\ UNCHANGED <<envVars, lastAppliedIndex, cur, hi, db, acked>>

\* Mutant: the apply state is left out of the batch that carries the data.
CommitNoApplyState ==
    /\ phase = "commit"
    /\ LET d == WriteToDB(db, wb)
       IN  /\ db' = d
           /\ applier' = PrepareFor(applier, d)
           /\ lastAppliedIndex' = d.applied
    /\ wb' = EmptyWB /\ acked' = acked \cup cbs /\ cbs' = {}
    /\ cur' = cur + 1
    /\ phase' = IF cur = hi THEN "finish" ELSE "exec"
    /\ UNCHANGED <<envVars, hi>>

\* commit: the apply state joins the batch when it moved, writeToDB writes
\* the batch and then invokes the callbacks, and prepareFor reads the apply
\* state back.
Commit ==
    /\ phase = "commit"
    /\ LET b == IF lastAppliedIndex < applier.applied THEN WriteApplyState(wb, applier) ELSE wb
           d == WriteToDB(db, b)
       IN  /\ db' = d
           /\ applier' = PrepareFor(applier, d)
           /\ lastAppliedIndex' = d.applied
    /\ wb' = EmptyWB /\ acked' = acked \cup cbs /\ cbs' = {}
    /\ cur' = cur + 1
    /\ phase' = IF cur = hi THEN "finish" ELSE "exec"
    /\ UNCHANGED <<envVars, hi>>

\* finishFor: the apply state joins the batch unless the applier waits for
\* removal.
FinishFor ==
    /\ phase = "finish"
    /\ wb' = IF applier.pendingRemove THEN wb ELSE WriteApplyState(wb, applier)
    /\ phase' = "flush"
    /\ UNCHANGED <<envVars, applier, cbs, lastAppliedIndex, cur, hi, db, acked>>

\* flush: writeToDB (the MsgApplyRes notifications are not followed).
Flush ==
    /\ phase = "flush"
    /\ db' = WriteToDB(db, wb)
    /\ wb' = EmptyWB /\ acked' = acked \cup cbs /\ cbs' = {}
    /\ phase' = "idle" /\ cur' = 0 /\ hi' = 0
    /\ UNCHANGED <<envVars, applier, lastAppliedIndex>>

\* Every committed entry has been handed over and handled, or the worker
\* has panicked and stays down.
Done ==
    /\ \/ Len(log) = MaxLogLen /\ sent = Len(log) /\ ch = <<>> /\ phase = "idle"
       \/ phase = "panic"
    /\ UNCHANGED vars

Worker == HandleApply \/ BreakOnRemove \/ ApplyEntry \/ Commit \/ FinishFor \/ Flush

Next ==
    \/ \E c \in Cmds : CommitEntry(c)
    \/ HandleRaftReady
    \/ Restart
    \/ Worker
    \/ Done

\* The raft worker and the apply worker are goroutines that run whenever
\* they have work.  Raft and crashes are the environment.
Spec == Init /\ [][Next]_vars /\ WF_vars(HandleRaftReady) /\ WF_vars(Worker)

(***************************************************************************)
(* Properties                                                              *)
(***************************************************************************)

\* The state a sequence of commands leaves when each is applied once, in
\* order and atomically: a failed command has no effect, and nothing after
\* the removal of this peer is applied.
RefStep(s, c) ==
    IF s.pendingRemove THEN s
    ELSE LET e == ExecRaftCmd(s, s.kv, c)
         IN  IF e.err THEN [s EXCEPT !.applied = @ + 1]
             ELSE [region |-> e.region, applied |-> s.applied + 1, trunc |-> e.trunc,
                   pendingRemove |-> e.pendingRemove, kv |-> e.kv]

RefState(n) ==
    FoldLeft(RefStep, [region |-> InitRegion, applied |-> 0, trunc |-> 0,
                       pendingRemove |-> FALSE, kv |-> [k \in Keys |-> Nil]],
             SubSeq(log, 1, n))

\* What the engine holds after any crash is the state after the entries up
\* to its applied index, each applied once: the data, the region state and
\* the truncated index are written in the same write batch as the apply
\* state (applier.go:109-113, commit at 329-336), and a failed command's
\* writes are rolled back (applyRaftCmd, 537-541).
DurableMatchesLog ==
    LET s == RefState(db.applied)
    IN  /\ db.kv = s.kv
        /\ db.region = s.region
        /\ db.trunc = s.trunc
        /\ (db.state = "tombstone") = s.pendingRemove

\* A client whose callback was invoked finds its command in the engine
\* after any crash: writeToDB invokes the callbacks only after the batch is
\* written (applier.go:346-355).
AckedDurable == \A r \in acked : r.index <= db.applied

\* The index of the entry that removes this peer, if one is committed.
RemovalIndex ==
    LET ks == {k \in 1..Len(log) : /\ log[k].type = "changePeer"
                                   /\ log[k].change = "remove"
                                   /\ log[k].peer = Self
                                   /\ EpochOk(log[k])}
    IN  IF ks = {} THEN MaxLogLen + 1 ELSE Min(ks)

\* Once the ChangePeer that removes this peer is applied, no later entry is
\* applied and the region is written as Tombstone (pendingRemove,
\* applier.go:396-399 and 755-772).
NothingAppliedAfterRemoval ==
    /\ db.applied <= RemovalIndex
    /\ db.applied = RemovalIndex => db.state = "tombstone"

\* CompactLog never truncates the log past the applied index: a follower
\* that lags the leader keeps the entries it has not applied
\* (execCompactLog, applier.go:881-883).
TruncatedWithinApplied == db.trunc <= db.applied

\* Every committed entry is eventually applied, unless this peer has been
\* removed before it: the raft worker hands the entries over again after a
\* restart, from the engine's applied index.
EveryEntryApplied ==
    \A k \in 1..MaxLogLen :
        Len(log) >= k ~> (db.applied >= k \/ db.state = "tombstone")

\* A command answered with success executed each of its requests: the
\* response of execNormalCmd has no nil entry (applyRaftCmd's rollback
\* relies on execNormalCmd returning the error of any failed request).
SuccessIsComplete == \A r \in acked : ~r.err => ~r.nilResp

================================================================================
