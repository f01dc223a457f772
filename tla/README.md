# TLA+ models of the tinykv Raft and its neighbours

This directory holds TLA+ models of the repository's code and the TLC
configurations that check them. `PROJECT.json` lists the components, the runs
and what each one expects, the mutants that show each property can fail, the
map from each TLA+ definition to the Go lines it translates, the findings and
the hazards.

## 1. The system and its parts

| Part | Source | State | Operations | Interacts with |
|---|---|---|---|---|
| Raft state machine | `src/tinykv/raft/raft.go` | Term, Vote, State, Lead, votes, RaftLog, Prs (Progress Match/Next), leadTransferee, PendingConfIndex, the election and heartbeat counters, the outgoing `msgs` | tick (tickElection, tickHeartbeat), Step (term gating, MsgHup, MsgRequestVote), stepLeader, stepCandidate, stepFollower, handleAppendEntries, handleHeartbeat, handleSnapshot, addNode, removeNode | The raftstore peer, through RawNode's Ready and Advance; the other peers, through messages |
| RaftLog, Storage, RawNode | not under `src/` (log.go, storage.go, rawnode.go) | entries, committed, applied, stabled, snapshot | append, maybeAppend, commitTo, maybeCommit, findConflict, isUpToDate; Ready and Advance | Raft calls them; their contracts come from spec.md 4.1 and 4.4 |
| Raftstore peer | `src/tinykv/kv/raftstore/peer.go` | RaftGroup, peerStorage, the proposals, LastApplyingIdx | HandleRaftReady (send, persist, apply, Advance), Propose, ProposeConfChange, ProposeTransferLeader | The raft group below; the applier above |
| Raftstore applier | `src/tinykv/kv/raftstore/applier.go` | the pending command queue (normals, confChange), applyState, region, pendingRemove; the applyContext's write batch and callbacks | handleApply, handleProposal, popNormal, findCallback, applyRaftCmd, execNormalCmd, execChangePeer, execSplit, execCompactLog, commit, finishFor, flush | Committed entries from the peer; client callbacks; the KV engine |
| Index lookup executor | `src/tinysql/executor/distsql.go` | workCh, resultCh, finished, the tasks with their doneCh | Next, Close, the index worker's fetchHandles, the table workers' pickAndExecTask | Goroutines of one query |
| TiKV store client | `src/tinysql/store/tikv/kv.go` | the safe point cache, closed | runSafePointChecker, CheckVisibility, Close | PD and etcd (I/O) |
| Logical planner | `src/tinysql/planner/core/logical_plan_builder.go` | plan trees | building and rewriting plans | none at run time |
| Physical plan tasks | `src/tinysql/planner/core/logical_plans.go` (task.go's code), `initialize.go` | copTask (index plan, table plan, indexPlanFinished, keepOrder), rootTask | attach2Task of each physical operator, finishCopTask, newPartialAggregate, flattenPushDownPlan | The readers they build run in the coprocessor and in the index lookup executor |

The hard behaviours are in Raft. Messages can be lost, duplicated and
reordered. Many nodes time out and campaign in different interleavings. A
response can arrive after a newer one. The leader's Progress is a cached
belief about each follower's log. Leadership transfer races its abort timeout.
The raftstore peer adds the ordering of send against persist, and crashes.
The applier matches callbacks to entries across leader changes. The lookup
executor coordinates goroutines over channels.

## 2. Modules

### `Raft.tla`: the Raft state machine (raft.go)

- **State.** `r[i]` is node *i*'s `Raft` struct: Term, Vote, State, Lead, votes
  (the map of first answers, as pairs), the log (entries are a term and
  either no conf change or a ConfChange adding or removing a node),
  committed, Prs as the set `prs` with the functions `Match` and `Next`,
  leadTransferee and PendingConfIndex (`pendingConf`). It also holds the
  peer's side: `applied` (RaftLog.applied, moved by Advance), `appliedIndex`
  (what the applier has applied, per entry) and `destroyed` (the peer
  applied its own removal).
- **Network.** `msgs` is the set of messages in flight. A set over-approximates
  the mailbox's order: any message can be delivered at any time, which is
  reordering.
- **Panics.** `panicked` records that a step reached one of the code's panics.
  These are commitTo past the last index, a maybeAppend conflict at or below
  committed, and send of a non-vote message whose Term is already set.
- **History.** `elections` and `commits` are history variables for the
  properties.
- **Ready and storage.** With the constant `Persistence` TRUE, `outbox[i]`
  holds the leader's ready.Messages not yet sent, and `stable[i]` what
  SaveReadyState last wrote (the HardState Term, Vote and Commit, and the
  log). `crashes` counts crashes up to `MaxCrashes`. With `Persistence`
  FALSE every step's Ready is handled with it, and these stay constant.

Handlers are operators from a node record, and a message, to
`[st, out]`. A handler that calls others is a composition of operators, so a
whole Step is one TLA+ step, as in the code. For example, stepCandidate on the
winning vote calls poll, then becomeLeader, then appendEntry, maybeUpdate and
maybeCommit, then bcastAppend.

The actions are:

| Action | Code |
|---|---|
| `Timeout(i)` | tickElection at a non-leader reaching its election timeout: MsgHup, then campaign |
| `TickHeartbeat(i)` | tickHeartbeat: the transfer abort at electionTimeout, or MsgBeat, then bcastHeartbeat |
| `Propose(i)` | MsgPropose of one normal entry at a leader with no transfer in progress |
| `TransferLeader(i, t)` | a local MsgTransferLeader with From = t; RawNode.TransferLeader, modelled from the spec |
| `ProposeConfChange(i, cc)` | peer.ProposeConfChange: the pending-conf refusal, checkConfChange (`PeerChecks`), then stepLeader's MsgPropose of the ConfChange, which it turns into an empty entry when PendingConfIndex > RaftLog.applied |
| `Advance(i)` | HandleRaftReady hands the committed entries to the applier, and Advance moves RaftLog.applied to the last of them |
| `ApplyConfChange(i)` | the applier's result for the next entry: the applied index moves, and a ChangePeer is applied to Raft (addNode, removeNode with its maybeCommit), or destroys the peer when it removes itself |
| `Ready(i)` | HandleRaftReady of a leader: ready.Messages are sent and SaveReadyState writes the HardState and entries |
| `Crash(i)` | the store crashes while the peer has unsaved state; newRaft restarts it from storage (`Restart`) |
| `CrashAfterSend(i)` | a leader's HandleRaftReady sends ready.Messages (peer.go:389), then the store crashes before SaveReadyState |
| `Receive(m)` | delivery of `m`, through `Deliver`, which is Step's term gating followed by Step |
| `Duplicate(m)` | delivery of `m` that keeps a copy in the network |
| `Lose(m)` | the network drops `m` |

Modelling notes:

- **Stubs.** Several functions of raft.go are lab stubs that panic with "Your
  code here": becomeCandidate, campaign's single-node branch, the vote rule,
  stepCandidate's vote count, sendAppend's MsgAppend, sendHeartbeat,
  appendEntry, and the commit broadcast in stepLeader. They are modelled from
  the comments at the stub together with spec.md 4.3. In the map, a
  definition that is entirely a stub (BecomeCandidate, SendHeartbeat,
  SendAppend) is marked `spec_modelled`; the others name only the lines
  around the stub that they translate. The snapshot branch of sendAppend is
  not modelled. No mutant of a stub's filling is used: a property is shown
  to fail under a mutant of the code that is really there.
- **RaftLog.** log.go is not in `src/`, so the RaftLog operators are
  modelled from spec.md 4.1 and marked `spec_modelled` in the map.
- **Timers.** The counters are abstracted. A timeout may fire at any step,
  which covers every randomized election timeout. At the bound `MaxTerm` the
  election timeout is taken never to be reached, so the bound does not read
  as a deadlock. The transfer abort and the heartbeat are separate steps of
  one tick, which over-approximates the single tick that does both.
- **Membership.** Every node starts with `InitConf` as its configuration;
  a node outside it starts as if from the snapshot of index 0 that a new
  peer is created with. A peer that is not `promotable` (not in its own
  configuration) neither campaigns nor proposes, and a leader ignores
  messages of nodes outside its configuration. A destroyed peer takes no
  steps and its messages are dropped, as the store does for a removed
  region. RawNode.ApplyConfChange is outside `src/` and is modelled from the
  spec. The MsgHup check (no campaign while a committed ConfChange is
  unapplied) is part of `Timeout`.
- **Ready.** HandleRaftReady tests `p.IsLeader()` (`SendsFirst`): a leader
  sends before it saves, any other peer after. A non-leader's Ready is
  handled right after its step (`Update`): it is saved, then every message
  of the Ready is sent. A crash before that save would only lose the step,
  as losing the message that caused it does. A leader's Ready may collect
  several steps; it is either handled whole (`Ready`) or its messages leave
  and the crash comes before the save (`CrashAfterSend`). `Crash` requires
  something unsaved, so with this order only a leader crashes; a restart
  that loses nothing only resets volatile state and is left out to bound the
  state space. After a restart, `Restart`
  follows newRaft: loadState of Term, Vote and Commit, the saved log, Prs
  from the ConfState, and becomeFollower(Term, None), which keeps the vote
  of the term.
- **Term of a vote grant.** A grant reply carries the request's term and a
  rejection carries the node's own term, as in the code.

### `CommittedLog.tla`: the abstract specification of commitment

This module is a single sequence `clog` that only grows by appending.
`Raft.tla` refines it. The refinement mapping is the committed prefix of the
log of the node with the highest commit index (`CommittedPrefix`). It is
checked as the property `CommittedLogRefinement`.

### `IndexLookUp.tla`: the index lookup executor (distsql.go)

`IndexLookUpExecutor` reads an index, then looks up the table rows of each
batch of handles in parallel. Each goroutine of the code is a program counter
in the model:

- `mpc` is the session goroutine. It runs `Next`, which calls `getResultTask`
  and copies rows, and then `Close`.
- `ipc` is the index worker, `startIndexWorker` with `fetchHandles`.
- `tpc[w]` is table worker `w`, `pickAndExecTask` with `executeTask`.

The channels are modelled as follows:

- `workCh` (capacity 1) and `resultCh` (capacity `ResultCap`, the code's
  `LookupTableTaskChannelSize`) are sequences of task ids. Closing either one
  sets a flag.
- `finished` is the closed `finished` channel. `cancelled` is the `ctx`.
- A task's `doneCh` is its `done` field. It is `"none"`, `"ok"` or `"err"`.

A Go `select` with several ready cases is a disjunction, so the model takes
every case the runtime may pick.

The actions are:

| Action | Code |
|---|---|
| `StartWorkers` | `open`/`startWorkers`: launch the index worker and the table workers |
| `GetResultTask` | `getResultTask`: receive from `resultCh`, or end of data once it is closed and empty |
| `WaitTaskDone` | `getResultTask`: wait for the task's `doneCh`; an error ends `Next` with it |
| `CopyRows` | `Next`: copy rows of the current task into the chunk, at most `ChunkSize` per call |
| `CloseUnstarted`, `CloseFinished`, `Drain`, `WaitWorkers` | `Close`: close `finished`, drain `resultCh`, wait on both WaitGroups |
| `FetchHandles` | `extractTaskHandles`, with the batch doubling, and `buildTableTask`; or an index read error, which builds an error task |
| `SendWork` | the `select` on `ctx.Done`, `finished` and `workCh <- task` |
| `SendResult` | `resultCh <- task`, for a task and for an error task |
| `IndexWorkerExit` | the deferred `close(workCh)` and `close(resultCh)` of `startIndexWorker` |
| `PickTask(w)` | the `select` on `workCh` and `finished` in `pickAndExecTask` |
| `ExecuteTask(w)` | `executeTask`: the rows in any order the table reader returns them, sorted back by `indexOrder` under `keepOrder`; or an error, or a recovered panic that ends the worker |
| `Cancel` | the caller cancels `ctx` (the environment) |

`MCIndexLookUp.tla` uses five index entries out of order, three table
workers, batches growing 1, 2, 2, and a result channel of capacity 1. The
capacity is small so that the index worker blocks on a full channel.

### `ApplyPipeline.tla`: from a proposal to its answer (peer.go, applier.go)

This module composes three parts:

- the raftstore peer's proposal path;
- the applier's pending command queue;
- the apply channel between them.

It covers one peer of one region. The Raft group is the environment. This
peer may become leader (`BecomeLeader`, raft.go becomeLeader: the no-op entry
and `PendingConfIndex` set to the last index). Another store may win a term
(`BecomeFollower`): its log is a prefix of this peer's that keeps every
committed entry, followed by the new leader's no-op. Another leader may append
a command or a ConfChange of its own (`LeaderAppend`). The commit index moves
forward (`Commit`). With `Snapshots`, the leader of a later term may send
this peer a snapshot (`InstallSnapshot`, raft.go handleSnapshot and
restore). The snapshot's log agrees with this peer's up to some index at or
above the commit index, and may keep some of this peer's uncommitted
entries. Its index is above the commit index, and this peer's log lacks the
snapshot's term at that index, since otherwise restore only moves the
commit. The log becomes the snapshot's, and the snapshot waits for the
Ready. Until that Ready, this peer neither wins an election nor sees the
leader append or commit past the snapshot. Each of those steps answers a
message that the peer sends from the Ready: the votes, and the snapshot's
acknowledgement that sendAppend and the heartbeat's
`min(match, committed)` wait for. These environment steps are the guarantees that
`Raft.tla` checks; log entries are abstracted to their term, their kind of
data and the callback of the client that proposed them here.

The actions are:

| Action | Code |
|---|---|
| `ProposeNormal(c)` | `Propose` with `ProposeNormal` and `PostPropose`; a follower drops the proposal and the callback gets the error |
| `ProposeConfChange(c)` | `ProposeConfChange`: refused while `PendingConfIndex` is above the applied index or when `checkConfChange` finds it unsafe; then stepLeader's conf entry check (`AppendConfEntry`), then `PostPropose` |
| `TakeApplyProposals` | `TakeApplyProposals`, sent to the applier as `MsgApplyProposal` |
| `HandleRaftReady` | the committed-entries branch of `HandleRaftReady` with `Advance`: `MsgApplyCommitted` for `(applied, committed]`, `LastApplyingIdx` |
| `HandleRaftReadySnapshot` | the snapshot branch of `HandleRaftReady`: `MsgApplyRefresh`, `LastApplyingIdx` set to the truncated index, `Advance` |
| `HandleRefresh` | `handleRefresh`: every pending command, then the pending conf change, answered by `notifyStaleCommand`, and the applier rebuilt; its applied index is the snapshot's, which `prepareFor` reloads |
| `HandleProposal` | `handleProposal`: `appendNormal`, or `takeConfChange` (answered stale) and `setConfChange` |
| `HandleApply` | `handleApply`, `handleRaftCommittedEntries` and for each entry `handleRaftEntryNormal` / `handleRaftEntryConfChange`, `processRaftCmd`, `findCallback` with its `popNormal` loop |

A callback's answers are recorded in `resp`: `"applied"` through
`applyCallback`, `"stale"` through `notifyStaleCommand`, `"refreshed"` through
`notifyStaleCommand` from `handleRefresh` (the client sees the same stale
error), and `"error"` for a refused proposal. The two stale paths are told
apart because they differ. When the refresh's answer is recorded as
`"stale"`, TLC violates StaleNeverCommitted in a few steps:

1. This peer, as leader, proposes c1.
2. It loses the term to a leader that keeps c1's entry.
3. That leader's snapshot commits c1's entry.
4. `handleRefresh` answers c1 as stale.

A stale answer from a refresh therefore does not tell the client that its
command was not executed.

The raft worker that calls `TakeApplyProposals` and `HandleRaftReady` is not
in the repository, so the order of the two calls is a constant,
`ProposalsFirst`. The peer's applied index, which peerStorage learns from the
applier's results, is taken to be the applier's own. That is the most
permissive value, since a stale one only refuses more ConfChanges.

`MCApplyPipeline.tla` uses three callbacks, terms up to 4 and logs of up to 4
entries. These bounds let one peer:

- lead a term;
- lose it to a leader that overwrites its uncommitted entries;
- lead again.

Commands of two terms are then pending together, and a conf change is
pending across a change of leader. With a log of 4 entries, a snapshot can
cover the peer's own uncommitted entries and leave room for entries after
it.

### `Applier.tla`: what the applier writes, and crashes (applier.go)

`ApplyPipeline.tla` follows callbacks. `Applier.tla` follows the data: what
the applier writes to the KV engine, and what is left after a crash. The
committed log is a sequence of commands. The environment appends commands to
it, and a crash can happen between any two steps.

- **A command** is Put, Delete or Get requests, or ChangePeer, Split,
  CompactLog, TransferLeader. Keys are `1..NKeys`, and a region is
  `[start, end)`.
- **The epoch check.** `CheckRegionEpoch` is not in the repository. A command
  carries a flag that says its epoch is stale.
- **Execution** is a set of operators over the applier's state
  `[region, applied, trunc, pendingRemove]`. Each returns the writes, the new
  region and its state, the truncated index and the response. These
  operators are `ExecRequest`, `ExecNormalCmd`, `ExecChangePeer`,
  `ExecSplit`, `ExecCompactLog` and `ExecRaftCmd`.
- **applyRaftCmd** (`ApplyRaftCmd`) drops a failed command's writes. This is
  `RollbackToSafePoint`. It sets the applied index whatever the outcome.
- **The write batch** `wb` holds the key writes, the apply state and the
  region state until `WriteToDB` writes them all to `db` in one step.
- **Crash and restart.** A crash loses the applier, the batch, the callbacks
  and the channel. The restarted store builds the applier from `db`. Raft
  hands it the entries after `db.applied` again.
- **The new region of a split** belongs to another applier, so it is not
  followed.

| Action | Code |
|---|---|
| `CommitEntry(c)` | Raft commits an entry (the environment) |
| `HandleRaftReady` | `HandleRaftReady`: `MsgApplyCommitted` for the entries not yet handed over |
| `HandleApply` | `handleApply`: dropped when `pendingRemove`; otherwise `prepareFor` reads the apply state from the engine |
| `BreakOnRemove` | the `pendingRemove` break of the loop of `handleRaftCommittedEntries` |
| `ApplyEntry` | the expected-index panic, then `applyRaftCmd`; the response is pushed to the batch's callbacks |
| `Commit` | `commit`: `writeApplyState` when the index moved, `writeToDB` (engine, then callbacks), `prepareFor` |
| `FinishFor` | `finishFor`: `writeApplyState` unless `pendingRemove` |
| `Flush` | the worker's `flush`: `writeToDB` |
| `Restart` | a crash and restart, at most `MaxCrashes` times |
| `Done` | everything handed over and handled, or the worker panicked; a stuttering step |

`MCApplier.tla` bounds:

- **Region.** It holds keys 1 and 2. Key 3 belongs to the next region.
- **Peers.** This peer is on store 1 and a second peer on store 2. A new peer
  can come on store 3, and a second peer id on store 2 makes a removal
  unmatched.
- **Commands.** There are 13 of them, and each reaches one outcome of its
  handler. One is a two-request Put whose last request is outside the
  region, which is what exercises the rollback.
- **Logs and crashes.** Logs hold up to 3 entries, and there is 1 crash.
  Three entries are enough for a compaction that names an index not yet
  applied, and for a removal followed by another entry.

### `SafePoint.tla`: the GC safe point cache (kv.go)

`TinykvStore` caches the GC safe point with the time it was loaded:
`safePoint` and `spTime`. A goroutine, `runSafePointChecker`, refreshes the
cache on a timer. `CheckVisibility(startTS)` refuses a start timestamp when
the cached value is older than `GcSafePointCacheInterval -
gcCPUTimeInaccuracyBound` (ErrPDServerTimeout). It also refuses one below the
cached safe point (ErrGCTooEarly).

Time is a discrete clock `now`, and an oracle timestamp is the clock's value
when it is taken. The GC worker is the environment: `GCAdvance` raises the
safe point in etcd to at most `now - GcLifeTime`. The history `spAtTick`
records the value etcd held when each tick began.

| Action | Code |
|---|---|
| `Init` | `newTikvStore`: `safePoint` 0, `spTime` now, the checker started with `gcSafePointUpdateInterval` |
| `CheckerFire` | the `time.After(d)` case of the select: `spCachedTime` is the time the timer fired |
| `LoadSafePoint` | `loadSafePoint`: the value in etcd, or an error that sets `d` to the quick-repeat interval |
| `CheckerUpdate` | `UpdateSPCache(cachedSafePoint, spCachedTime)` and `d = gcSafePointUpdateInterval` |
| `CheckerExit` | the `s.Closed()` case, which returns |
| `Begin(t)` | `Begin`: the start timestamp from the oracle |
| `CheckVisibility(t)` | `CheckVisibility`: both fields read under the read lock, then the two tests; the result is recorded in `lastCheck` |
| `Close` | `close(s.closed)` in `Close` |
| `Tick`, `GCAdvance` | time passing; the GC worker (not in the repository) |

The load and the update are separate steps because time passes during the
etcd call. When both the timer and `closed` are ready, the select picks
either, so `CheckerFire` and `CheckerExit` are both enabled.

`MCSafePoint.tla` uses these bounds:

- one transaction;
- a cache window of 2 ticks;
- update and quick-repeat intervals of 2 and 1 ticks;
- a GC life time of 1 tick;
- a clock up to 6.

A transaction can then outlive the window plus the life time. That is the
only way its start timestamp can fall below a safe point. A load can also
fail and be retried, and a load can straddle a tick. A second transaction
adds only states: transactions do not interact here.

### `PlanBuilder.tla`: pure algorithms of the planner (logical_plan_builder.go)

The plan builder runs sequentially. The parts that TLC can check are
functions from small inputs to small outputs, so each is an operator.
`MCReferences.tla` chooses one algorithm (`algo`) and its input in the initial
state, each from a bounded set. That algorithm's invariant compares the
operator's result with a reference definition of what it must compute. Four
of them (the first three below, and `Propose` of `PeerChecks.tla` below) are checked by
the one run `planner_reference`.

| Operator | Code | Reference |
|---|---|---|
| `BuildLimit`, `ExtractLimitCountOffset`, `GetUintFromNode` | `buildLimit` and its helpers. uint64 arithmetic is kept, at a width of `IntWidth` bits | MySQL's `LIMIT offset, count` over unbounded integers: the rows from `offset` on, at most `count` of them; an error for a negative or non-numeric argument |
| `BuildColumns2Handle`, `TableOffset`, `FindHandle`, `SearchBehind` | `buildColumns2Handle`, with the Go map of table ids iterated in any order and `sort.Sort` by `Start`; `getTableOffset`; `FindHandle` with `sort.Search`'s bisection | the handle column of the table the column belongs to |
| `ExtractOnCondition`, `ExtractOne`, `ClassifyGeneral`, `PushDownConstExpr` | `ExtractOnCondition`'s loop and `pushDownConstExpr`. `isNullRejected`, `BuildNotNullExpr` and `DeriveRelaxedFiltersFromDNF`, which are not in the repository, are modelled by what they do | the conditions kept and placed by their columns; derived filters implied by SQL's three-valued comparison semantics |
| `UnfoldWildStar`, `ExpandWild` | `unfoldWildStar` | none: modelled, not checked (see below) |

These bounds cover every branch of the code:

- LIMIT: 3-bit integers, so most pairs of count and offset overflow.
- FindHandle: joins of one to three tables from two table ids, with self
  joins and the extra handle column.
- ON conditions: every pair of comparisons or other expressions over a left
  schema of two columns and a right schema of one, for every join type and
  every pair of derivation flags.

`unfoldWildStar` is modelled but has no run. Its only reference would be a
restatement of its own two guards and its skip of `_tidb_rowid`. That
check shows nothing about the code.

### `PhysicalTask.tla` and `AggPushDown.tla`: pushing operators into cop tasks (logical_plans.go, initialize.go)

A physical plan is built bottom up as a *task*. A copTask holds the plans
that run in the coprocessor: an index plan and/or a table plan, with
`indexPlanFinished` saying which one new operators go on. `attach2Task` of
each operator may push a copy of it into the cop task, then closes the task
with `finishCopTask`. That makes a rootTask whose reader is an
IndexLookUpReader, an IndexReader or a TableReader. Costs, which only rank
plans, are left out.

| Definition | Code |
|---|---|
| `CopTask`, `RootTask` | the `copTask` and `rootTask` structs, without costs and statistics |
| `AttachPlan2Task`, `FinishIndexPlan` | `attachPlan2Task`, `copTask.finishIndexPlan` |
| `FinishCopTask`, `SplitCopAvg2CountAndSum` (`SplitFrom`, `SplitAvg`) | `finishCopTask`, including the split of a partial avg into count and sum for a TableReader |
| `AttachLimit` (`PushLimit`), `AttachTopN` (`PushedDownTopN`), `AttachSort`, `AttachAtRoot` | `attach2Task` of PhysicalLimit, PhysicalTopN (with `getPushedDownTopN`), PhysicalSort, PhysicalProjection and PhysicalSelection |
| `FlattenPushDownPlan` (`Collect`, `SwapLoop`) | `flattenPushDownPlan`: the collect loop and the in-place reversal |
| `BuildFinalModeAggregation`, `RemoveUnnecessaryFirstRow`, `NewPartialAggregate`, `AttachHashAgg` | the two-phase hash aggregation: partial columns by cursor, dropped firstrow columns, the final aggregation on the root task |

Some inputs come from code that is not under `src/`. `canPushDown` and
`CheckAggCanPushCop` call into the protobuf conversion. Whether a TopN's
columns are all in the index schema is given by its order column. These are
inputs chosen over all values.

To say what a plan *returns*, the modules give the readers the execution of
the executors, which are not under `src/` except the index lookup:

- a cop request runs the flattened plan over one region's rows in key order;
- `IndexLookUpExecutor` sends handles in batches, runs the table plan on
  each batch's rows in handle order, and with keepOrder sorts them back by
  their position in the batch (`LookUpRows`, from `executeTask`);
- a pushed aggregation emits TiDB's partial form: per group, a count column
  if the function needs one, then a value column, then the group-by values.
  The final aggregation reads them through the partial schema. A column
  missing from that schema reads `Missing`.

A row is its handle, with an index column `a` and a table column `b`. The
aggregation rows have a group column `g` and a value `v`.

`MCReferences` checks every Limit and TopN attached to every cop task kind,
with a root operator on top. Those cop task kinds are:

- a table scan;
- a covering index scan;
- a double read, with the index plan finished or not, and with or without
  the projection;

each with keepOrder or without.

The data covers every order of `a` against two orders of `b`, with a batch
size of 1 to 3. Hash aggregation of one or two of count, sum, avg, max and
firstrow is checked, grouped or not, pushable or not, over two and one
regions or batches. `rootTaskConds` is never set under `src/`, so the
inputs leave it empty. With it set, a Limit pushed into the cop task runs
below the root Selection and returns too few rows; TLC shows this when the
inputs include it. On a covering index scan (no table plan) every column the
plan needs is in the index schema, so a pushed TopN always goes to the index
side there; the inputs keep to that.

### `PeerChecks.tla`: the checks before a proposal (peer.go)

`peer.Propose` asks `inspect` for a policy, and for a ChangePeer asks
`checkConfChange` whether the change is safe; an error answers the callback
and nothing is proposed. These are pure functions of the request, the
leader's progress (peer id to `Match`, a copy of `Prs`) and the truncated
index, so they are operators:

| Operator | Code |
|---|---|
| `Inspect` | `inspect`, with `GetChangePeerCmd` and `getTransferLeaderCmd`: the requests are scanned in order, and an `Invalid` one, or a read after a write (or the reverse), fails |
| `CountHealthyNode`, `Quorum` | `countHealthyNode` (Match at or above the truncated index) and `Quorum` |
| `CheckConfChange` | `checkConfChange`: a group of one is safe; an add enters the new peer with Match 0; removing a non-member is safe; otherwise the healthy peers of the changed group must reach its quorum |
| `Propose` | `Propose` up to the Raft call (ProposeNormal, ProposeConfChange and ProposeTransferLeader are in `ApplyPipeline.tla` and `Raft.tla`) |

The reference in `MCReferences.tla` is the rule the code's comments state
(peer.go:549-576): a conf change is safe iff a majority of the group after
the change is healthy, a peer being healthy if it needs no snapshot (a new
peer only while nothing is truncated). The inputs are every list of up to two
requests, and every add or remove of peers 1 to 4 against a leader 1 with
followers among 2 and 3, Match 0 to 2 and a truncated index 0 to 2. That
covers groups of one to three, removal of the leader and of non-members,
re-adds, and new peers with and without a truncated log.

`Inspect` is what makes the applier's assumption sound that a command never
mixes reads and writes (`execNormalCmd` panics on a mix, applier.go:655);
`Applier.tla` only generates commands of one kind.

### `MCRaft.tla`: model checking

- Nodes are three model values. `MCSymmetry` permutes them, which is sound
  because no definition orders nodes.
- The constraint `MCNetworkBound` caps the messages in flight at `MaxInFlight`.
- `MCConfSpec` starts from `InitConf = {n1}`, lets n2 and n3 be added and
  removed over a network that reorders and duplicates, and leaves out
  transfer and loss; `MCConfSymmetry`
  permutes n2 and n3 only, since n1 is distinguished by `InitConf`.
- `MCTransferSpec` is leader transfer with `Persistence` and one crash, over
  a network that reorders. Loss and duplication are left to the other Raft
  runs, to keep the crash within reach; a crash still loses the messages of
  an unsent Ready. `MCNetworkBound` counts the messages
  waiting in an outbox with those in flight.
- `MCCoreSpec` leaves out transfer and duplication, so that terms and logs can
  go deeper. `MCRetrySpec` keeps only replication driven by rejections, over a
  network that duplicates.

## 3. Runs

The Raft runs use three nodes.

| Run | cfg | Spec and bounds | Checks | Result |
|---|---|---|---|---|
| raft_safety | `MCRaft.cfg` | MCCoreSpec: MaxTerm 3, MaxLogLen 2, MaxInFlight 2 | ElectionSafety, LogMatching, StateMachineSafety, LeaderCompleteness, ProgressSound, CommittedLogRefinement | pass, 1.2M distinct states, about 2 min |
| raft_transfer | `MCRaftTransfer.cfg` | MCTransferSpec: MaxTerm 2, MaxLogLen 1, MaxInFlight 3, Persistence, MaxCrashes 1 | ElectionSafety, NoPanic, SentIsDurable, StateMachineSafety | pass, 229k distinct states, about 35 s |
| raft_membership | `MCRaftConf.cfg` | MCConfSpec: InitConf {n1}, ConfChanges of n2 and n3, MaxTerm 2, MaxLogLen 4, MaxInFlight 2, duplication | StateMachineSafety, CommitCaughtUp, OneConfChangePending | pass, 1.06M distinct states, about 1.5 min |
| match_below_next | `MCRaftMatchNext.cfg` | MCRetrySpec: MaxTerm 2, MaxLogLen 2, MaxInFlight 3 | MatchBelowNext | violation, found in about 1 min |
| apply_pipeline | `MCApplyPipeline.cfg` | Spec, symmetry over 3 callbacks, MaxTerm 4, MaxLogLen 4, ProposalsFirst, Snapshots | TypeOK, AnsweredOnce, AppliedIsOwnEntry, StaleNeverCommitted, ConfChangeNotDropped | pass, 2.6M distinct states, about 1.5 min |
| apply_pipeline_live | `MCApplyPipelineLive.cfg` | Spec, 2 callbacks, MaxTerm 3, MaxLogLen 4, ProposalsFirst, Snapshots | AnsweredEventually | pass, 596k distinct states, about 2 min |
| apply_pipeline_order | `MCApplyPipelineOrder.cfg` | as apply_pipeline, ProposalsFirst FALSE, no Snapshots | StaleNeverCommitted | violation, found in about 1 s |
| index_lookup | `MCIndexLookUp.cfg` | Spec: 5 handles, 3 workers, InitBatch 1, MaxBatch 2, ResultCap 1, ChunkSize 2, KeepOrder | TypeOK, OrderKept, CompleteOnEof, Terminates | pass, 97k distinct states, under 10 s |
| applier_crash | `MCApplier.cfg` | Spec: 13 commands, MaxLogLen 3, MaxCrashes 1 | DurableMatchesLog, AckedDurable, NothingAppliedAfterRemoval, TruncatedWithinApplied, EveryEntryApplied | pass, 247k distinct states, about 1 min |
| applier_straddle | `MCApplierStraddle.cfg` | Spec: the command Put(3), Put(1), MaxLogLen 1, no crash | SuccessIsComplete | violation, found in 1 s |
| safe_point | `MCSafePoint.cfg` | Spec: 1 transaction, CacheWindow 2, UpdateInterval 2, QuickRepeatInterval 1, GcLifeTime 1, MaxTime 6 | AcceptedNotBehindSafePoint, CheckerStops | pass, 2.4M distinct states, about 1 min |
| planner_reference | `MCReferences.cfg` | Spec: the algorithm and its input chosen initially; IntWidth 3; LIMIT over every argument node, joins of up to 3 tables in every map order, up to 2 join conditions over 2 left and 1 right column; the Propose inputs above ; Limit and TopN on 12 cop tasks with 6 root operators over 36 data sets; hash aggregation as above | LimitMatchesReference, HandleMatchesReference, OnConditionsSound, ProposeMatchesReference, LimitPushDownSound, TopNPushDownSound, AggPushDownSound | pass, 264k inputs, about 10 s |

What the properties say:

- **ElectionSafety.** At most one leader per term.
- **NoPanic** (raft_transfer). No step reaches one of the three panics the
  code itself raises: commitTo past the log, maybeAppend's conflict with a
  committed entry, and send of a forwarded message that already carries a
  term. The stubs' own panics ("Your code here") are not modelled, because
  the stubs are filled in (see Stubs).
- **LogMatching.** Two logs that agree on the term at an index agree on the
  whole prefix up to it.
- **StateMachineSafety.** A committed entry stays in every log that has
  committed its index.
- **LeaderCompleteness.** Every leader of a later term holds every committed
  entry.
- **ProgressSound.** A leader's `Next` never points past its log. What it
  believes a follower of its term has matched is really in that follower's
  log, and equal to its own. This is what makes the heartbeat's
  `min(Match, committed)` safe.
- **CommittedLogRefinement.** The committed log only grows at its end.
- **SentIsDurable** (raft_transfer). A vote a node granted, or entries it
  acknowledged, are in what it saved before the response left. This rests
  on HandleRaftReady sending a non-leader's messages only after
  SaveReadyState. Otherwise a crash lets a node vote twice in one term.
- **ElectionSafety, StateMachineSafety** (raft_transfer). These hold across
  a crash, with the leader sending before it saves. A leader counts its own
  unsaved entry towards a commit. That is safe because the raft worker
  finishes the save before it steps the acknowledgements.
- **StateMachineSafety** (membership). As above, while peers are added and
  removed. Each node decides by its own configuration, so this rests on
  addNode starting a new member at Match 0 and on one change at a time.
- **CommitCaughtUp** (membership). A leader's commit index is never behind
  what its Progress shows a quorum of its configuration has matched. This
  needs removeNode's maybeCommit: after the quorum shrinks, an entry that
  the remaining members already hold must commit then, since no further
  append response may come to trigger it.
- **OneConfChangePending** (membership, an action property). A leader
  appends a ConfChange entry only when every ConfChange in its log has
  been applied. The peer's refusal, stepLeader's check against
  RaftLog.applied (which Advance moves before the change is applied), and
  becomeLeader's conservative PendingConfIndex must hold together.
- **AnsweredOnce** (apply pipeline). No callback is answered twice. This
  holds across a snapshot: `handleRefresh` empties the queue it answered.
- **AppliedIsOwnEntry** (apply pipeline). An `"applied"` answer is for the
  client's own entry at the proposal's index.
- **StaleNeverCommitted** (apply pipeline). A command answered as stale is
  never committed. A client told to retry must not find its command executed.
  The property covers the stale answers of the apply path, not those of
  `handleRefresh`; see `ApplyPipeline.tla` above.
- **ConfChangeNotDropped** (apply pipeline). The peer's check of
  `PendingConfIndex` against the applied index makes stepLeader's check
  against `RaftLog.applied` unreachable. An accepted ConfChange is never
  turned into an empty entry, which would leave its callback waiting for
  the next conf change.
- **AnsweredEventually** (apply pipeline). A normal command whose index is
  committed is eventually answered. This includes a command whose entry a
  snapshot covers, which the refresh answers, because the raft worker hands
  the proposals over before the Ready.
- **OrderKept** (index lookup). Under keepOrder, the rows `Next` has returned
  are a prefix of the index order. Table workers finish out of order, so this
  rests on `resultCh` keeping the send order and on `executeTask` sorting.
- **CompleteOnEof** (index lookup). If `Next` reports end of data and `ctx`
  was not cancelled, every handle's row was returned exactly once. A failed
  index read or table read must surface as an error, never as an early end.
- **Terminates** (index lookup). The session always ends with `Close` and the
  index worker exited. This covers errors, panicking table workers, a blocked
  index worker and cancellation, so `Next` and `Close` never deadlock with the
  workers. `Close`'s drain of `resultCh` is what frees an index worker blocked
  on a full channel.

- **AcceptedNotBehindSafePoint** (safe point). A start timestamp that
  `CheckVisibility` accepts at time T is not below the safe point etcd held
  at T minus the cache window. This is the contract GC relies on. It holds
  because the cache is stamped with the time the timer fired, which is
  before etcd was read. A mutant that stamps it with the time of the update
  breaks it, and so does an age test off by one.
- **CheckerStops** (safe point). After `Close`, the checker goroutine
  returns.

- **LimitMatchesReference** (planner). The plan `buildLimit` builds returns
  the rows MySQL's LIMIT returns, for any child of up to MaxUint64 rows.
  Dropping the clamp of `count` lets `offset + count` wrap to 0, and the
  plan becomes an empty TableDual.
- **HandleMatchesReference** (planner). For every column of a DELETE over a
  join, `FindHandle` gives the handle of the column's table. This holds for
  every order in which Go iterates the table-id map. Without the
  `sort.Sort`, it fails for some orders.
- **OnConditionsSound** (planner). `ExtractOnCondition` loses no condition.
  Each condition goes where its columns allow, and an equality has its left
  column first. A derived NOT NULL filter must be implied by the condition
  it comes from, checked by evaluating both on every row of NULL, 0 and 1.
  Derivation without `isNullRejected` breaks this for `<=>`, and so does a
  missing swap of the arguments.
- **ProposeMatchesReference** (peer checks). `Propose` rejects exactly the
  requests that are invalid or mix reads and writes, and the conf changes
  after which fewer than a majority of the group is healthy. The one
  difference allowed: re-adding a member counts it with Match 0, which can
  only reject more. Computing the quorum of the group before the change
  breaks it.
- **LimitPushDownSound** (physical tasks). A Limit attached to any cop
  task, with any root operator on top, returns rows the LIMIT returns on the
  scan. When the task keeps order, those are exactly the rows at `offset+1 ..
  offset+count` of the index order. The copy pushed into the cop task runs
  per region and per batch. Pushing it to the table side of an ordered
  double read (dropping the guard at logical_plans.go:998) breaks this:
  each batch then keeps its first rows by handle.
- **TopNPushDownSound** (physical tasks). A TopN attached to any cop task
  returns the TopN's rows of the scan, whichever side its copy is pushed to.
  A pushed copy that keeps `Count` instead of `Offset + Count` breaks it.
- **AggPushDownSound** (physical tasks). A hash aggregation attached to any
  cop task returns what it returns on all rows: every group, with each
  count, sum, avg and max right, and each firstrow some value of its group.
  This holds whatever regions or batches the coprocessor aggregates
  separately. It fails if `RemoveUnnecessaryFirstRow`'s cursor skips a
  count column, or if `splitCopAvg2CountAndSum` inserts the sum before the
  count.
- **DurableMatchesLog** (applier). After any crash, the engine holds the
  state that the entries up to its applied index leave when each is applied
  once, in order. This covers the data, the region state and the truncated
  index. A failed command leaves nothing. The reference, `RefState`, applies
  whole commands to a plain map with no write batch.
- **AckedDurable** (applier). A client whose callback was invoked finds its
  command in the engine after any crash.
- **NothingAppliedAfterRemoval** (applier). No entry after the ChangePeer
  that removes this peer is ever applied. The region is then written as
  Tombstone.
- **TruncatedWithinApplied** (applier). CompactLog never truncates past the
  applied index.
- **EveryEntryApplied** (applier). Every committed entry is eventually
  applied, unless this peer was removed before it.
- **SuccessIsComplete** (applier, violation run). A command answered with
  success executed every one of its requests.

The applier model stops once every committed entry is handled, or after the
expected-index panic, which halts the worker. `Done` is a stuttering step
there, so the run checks deadlock everywhere else.

The safe point model stops only at the clock's bound. There, `TimeBound`
is a stuttering step, so no deadlock is reported, and none is hidden.

The lookup run sets `CHECK_DEADLOCK FALSE` because the executor really does
stop: after `Close` every goroutine has exited. A stuck state, with the
session still waiting, is caught instead by `Terminates`.

Why these bounds are enough:

- MaxTerm 3 allows a leader of term 1 to be deposed by term 2 and term 3. This
  is the Figure-8 pattern: an entry of an old term replicated to a majority,
  then overwritten.
- MaxLogLen 2, together with each leader's no-op entry, gives logs of up to 3
  entries of different terms, so conflicts and truncations occur.
- Two messages in flight allow a stale response to overtake a new one.

The transfer run trades depth for the extra actions. Leader transfer,
transfer abort, a forwarded MsgTransferLeader, a leader's Ready collecting
several steps, and both kinds of crash of a leader all fire in it. One
crash is enough: under the mutant that sends every peer's messages first,
a vote is lost when one node crashes between voting and saving. The membership run duplicates
messages instead.

The match_below_next violation needs three messages in flight and a
duplicating network.

Each property of a passing run has a mutant in `PROJECT.json`. A mutant is a
plausible coding error in a mapped definition, and TLC finds the property
violated when it is substituted. Examples:

- Step stepping a message of a lower term instead of dropping it (a
  stale vote request then elects a second leader of the same term);
- maybeAppend without truncation;
- isUpToDate that compares terms only;
- handleAppendEntries without its consistency check;
- commitTo that can decrease;
- a TimeoutNow that makes a follower leader without an election;
- a leader that forwards the transfer as a MsgTransferLeader.

**Finding (apply pipeline).** `findCallback` answers only a command whose
proposal reached the applier before its entry. peer.go hands the two out in
separate calls, and nothing in the repository states their order.

- **If the entries go first.** A ConfChange that was applied is answered as
  stale when the next ConfChange proposal replaces it; that is the
  counterexample of `apply_pipeline_order`. A normal command is answered as
  stale by a later entry, or never.
- **Observation, not a finding.** For normal commands, the term comparison
  in `findCallback` is never what decides a match. Every entry of a later
  term follows that term's no-op, which has already dropped the older
  commands. A mutant that compares indexes only is not caught. A conf
  change, which the no-op does not drop, does need the term: the mutant
  there breaks `AppliedIsOwnEntry`.

**Finding (applier).** `execNormalCmd` (applier.go:627-654) assigns `err`
for each request and does not stop at an error. Only the last request's
error reaches `applyRaftCmd`. Take a command whose first Put is outside the
region and whose second is inside:

- the rollback does not happen;
- the second Put is written and the first is not;
- the client is told it succeeded, and its response has a nil entry.

`applyRaftCmd` means a failed command to leave no writes: that is why it
calls `RollbackToSafePoint`. The run `applier_straddle` shows the partial
write. Proposals are normally checked against the region before they reach
Raft, but that check is not in the repository. The apply-time check exists
for the commands it misses.

**Finding (Raft).** spec.md section 3 states the Progress invariant `match < next`.
maybeDecrTo (raft.go:989) discards a rejection only when `rejected <= Match`.
A rejection sent before a later success, and delivered after it, passes that
check and sets `Next = min(rejected, hint+1) <= Match`. The code is safe
(ProgressSound still holds); the cost is resending entries the follower
already has. The invariant stated in the spec does not hold.

## 4. Fairness

The index lookup model has weak fairness on each goroutine:

- the session's `Next` steps;
- its `Close` steps;
- the index worker;
- each table worker.

Go's scheduler runs every runnable goroutine eventually. A goroutine that is
continuously able to step (for example, a channel send with room, or a receive
with data) therefore eventually does. The table reader and index reader calls
are I/O that returns, with rows or with an error. The environment's `Cancel`
carries no fairness. Symmetry over the workers is not used there, because TLC
does not combine symmetry with liveness checking.

The apply pipeline has weak fairness on six steps:

- `TakeApplyProposals`, `HandleRaftReady` and `HandleRaftReadySnapshot`,
  run by the raft worker, which visits every peer with work on each loop;
- `HandleProposal`, `HandleApply` and `HandleRefresh`, run by the apply
  worker, which drains its channel.

The Raft group and the clients are the environment and carry no fairness.
`AnsweredEventually` assumes the entry's index is committed, rather than
assuming that Raft makes progress.

The safe point model has weak fairness on the checker goroutine, as a
goroutine Go schedules. The clock, the GC worker and the clients are the
environment. `CheckerStops` needs only the goroutine's fairness: once the
store is closed, the `Closed` case stays enabled while it waits.

The applier model has weak fairness on the raft worker's `HandleRaftReady`
and on the apply worker's steps. Both are goroutines that run whenever they
have work. Raft's commits and crashes are the environment. Crashes are
bounded by `MaxCrashes`, so they cannot recur forever and stop progress.

The Raft models check safety only, so they carry no fairness.
Raft's progress depends on the randomized election timeout and the
heartbeat ticker, which the model abstracts away. The planned timer module
(below) is where weak fairness of ticks, and of the delivery of messages that
are resent, will be justified.

## 5. Not modelled, and the plan

Modelled now: Raft elections, replication, commit, heartbeats, leader
transfer and membership changes, over a network that loses, duplicates and reorders messages, with HandleRaftReady's send and save order and crashes of peers; and
the index lookup executor's goroutines; the proposal-to-callback path
through the raftstore peer and the applier; the applier's write batch,
commands and crash recovery; kv.go's safe point cache; the peer's checks before a proposal; and
pure algorithms of the planner; and how the planner pushes Limit, TopN and
hash aggregation into cop tasks, with what the resulting readers return.

The plan for later sittings, in order:

1. **Membership**: done (raft_membership). A Timeout without the MsgHup
   pending-conf check breaks no property in that bound: one-node changes keep
   old and new quorums overlapping, so the check serves availability, not
   safety. A mutant of becomeLeader that does not set PendingConfIndex is not
   caught either in that bound.
2. **Snapshots**: what a snapshot does to the raftstore peer and its
   applier is done, see `ApplyPipeline.tla`. There, handleSnapshot and
   restore are the environment. Still open in `Raft.tla`: the sendAppend
   snapshot branch once a compaction has happened, and the log's first
   index.
3. **Ready, persistence and crash**: done (raft_transfer, with
   `Persistence`). Still open: a crash in runs with membership or deeper
   logs, which the state space does not allow yet.
4. **Timers and liveness.** The counters electionElapsed and
   heartbeatElapsed, the randomized timeout and the transfer deadline, with
   fairness on ticks. Properties: a leader is eventually elected once the
   network is stable, and a proposal at a stable leader is eventually
   committed.
5. **Applier**: the pending command queue is done, see `ApplyPipeline.tla`.
   The write batch, the KV effects of the commands, `execChangePeer` with
   `pendingRemove`, `execSplit`, `execCompactLog` and crashes are also done,
   see `Applier.tla`. Still open:
   - `destroy`, which answers the pending callbacks on removal. Nothing
     under `src/` calls it. `handleRefresh` is done, see
     `ApplyPipeline.tla`;
   - the Snap request;
   - the exec results the peer receives;
   - combining the two applier modules.
6. **Index lookup executor** (distsql.go): done, see `IndexLookUp.tla`.
   With a cancelled `ctx` the executor reports end of data with rows
   missing. That is by design, and it is listed as a hazard with no property.
7. **Safe point cache** (kv.go): done, see `SafePoint.tla`. Open's store
   cache is not modelled. It hands one store to every caller for a
   cluster, and any of them can close it for all. No contract for sharing
   the store is stated, and it is not among the listed hazards.

8. **Planner** (logical_plan_builder.go): these pure algorithms are done,
   see `PlanBuilder.tla`: LIMIT, the column-to-handle map, the split of
   join conditions, and wildcard expansion. Candidates that remain:
   - `resolveFromSelectFields`' ambiguity check;
   - `pushTableHints`/`popTableHints`.
9. **Physical tasks** (logical_plans.go, initialize.go): attach2Task of
   Limit, TopN, Sort, Projection, Selection and HashAgg, finishCopTask and
   flattenPushDownPlan are done, see `PhysicalTask.tla` and
   `AggPushDown.tla`. The join tasks, DataSource's access paths and
   `Convert2Gathers` remain.

Left out for good:

- The connection setup and accessors of kv.go, which are pure I/O.
- Building plans from ASTs. Expression trees and schemas are far beyond
  what TLC can enumerate.
- The cost functions of logical_plans.go (`GetCost`, `cpuCostDivisor`,
  and the cost parts of the task functions). They compute float costs that
  only rank plans. The join tasks' `attach2Task` is only such a cost sum.
- The expression test suite that is folded into the end of
  logical_plans.go, and the `Init` constructors of initialize.go (field
  copies).
