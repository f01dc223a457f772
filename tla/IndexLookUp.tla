----------------------------- MODULE IndexLookUp -----------------------------
(***************************************************************************)
(* The double read of src/tinysql/executor/distsql.go: IndexLookUpExecutor *)
(* with its index worker goroutine, its table worker goroutines and the     *)
(* session goroutine that calls Next and Close.                            *)
(*                                                                         *)
(* The index worker reads the index in order, cuts the handles into tasks  *)
(* of growing batch size and sends each task first to workCh (capacity 1)  *)
(* and then to resultCh (capacity LookupTableTaskChannelSize).  Table      *)
(* workers take tasks from workCh, read their rows and report on the       *)
(* task's doneCh.  Next takes tasks from resultCh in order and waits on    *)
(* each one's doneCh.  Close closes finished, drains resultCh and waits    *)
(* for every worker.                                                       *)
(*                                                                         *)
(* Each goroutine is a program counter; one action is one step of a        *)
(* goroutine between two channel operations.  A task is an index into      *)
(* tasks; a channel is the sequence of the task ids buffered in it.  The   *)
(* I/O of a worker (the index read, the table read) is one step that may   *)
(* succeed or fail.                                                        *)
(***************************************************************************)
EXTENDS Naturals, Sequences, SequencesExt, TLC

CONSTANTS
    Idx,         \* the handles in index order (distinct)
    Workers,     \* the table workers (IndexLookupConcurrency of them)
    InitBatch,   \* initBatchSize: req.RequiredRows() of the first Next
    MaxBatch,    \* IndexLookupSize: the largest batch
    ResultCap,   \* LookupTableTaskChannelSize: the capacity of resultCh
    ChunkSize,   \* the capacity of the chunk req of Next
    KeepOrder    \* e.keepOrder

ASSUME /\ InitBatch \in 1..MaxBatch
       /\ ResultCap \in Nat \ {0}
       /\ ChunkSize \in Nat \ {0}
       /\ KeepOrder \in BOOLEAN

\* workCh := make(chan *lookupTableTask, 1)
WorkCap == 1

VARIABLES
    tasks,         \* tasks[t]: [handles, rows, done]; done is what doneCh holds
    workCh, resultCh, workClosed, resultClosed,
    finished,      \* close(e.finished) happened
    cancelled,     \* the session's ctx was cancelled
    ipc, bs, pos, pend,    \* index worker: pc, batchSize, handles read, task in hand
    tpc, cur,      \* table workers: pc and task in hand
    mpc, started, mwait, mcur, cursor, fill,
                   \* session: pc, workerStarted, task awaited, resultCurr,
                   \* its cursor, rows in the current chunk
    out,           \* the rows Next has returned, in order (their handles)
    ended          \* how the last Next ended: "no", "eof" or "err"

vars == <<tasks, workCh, resultCh, workClosed, resultClosed, finished, cancelled,
          ipc, bs, pos, pend, tpc, cur, mpc, started, mwait, mcur, cursor, fill,
          out, ended>>

idxVars == <<ipc, bs, pos, pend>>
tblVars == <<tpc, cur>>
mainVars == <<mpc, started, mwait, mcur, cursor, fill, out, ended>>

MinOf(a, b) == IF a < b THEN a ELSE b

\* extractTaskHandles: up to batchSize handles following the pos read so far
ExtractTaskHandles == SubSeq(Idx, pos + 1, pos + MinOf(bs, Len(Idx) - pos))

\* the batch size doubles, up to maxBatchSize, after a batch was filled
NextBatchSize(n) == IF n = bs THEN MinOf(2 * bs, MaxBatch) ELSE bs

\* sort.Sort(task) with Less on rowIdx = indexOrder[handle]: the rows in the
\* order their handles have in the task's handles
SortByIndexOrder(rows, hs) ==
    LET indexOrder == [h \in ToSet(hs) |-> CHOOSE i \in 1..Len(hs) : hs[i] = h]
    IN  SortSeq(rows, LAMBDA a, b : indexOrder[a] < indexOrder[b])

\* buildTableTask: doneCh holds nothing ("none"), or the error of a failed
\* index read
NewTask(hs, d) == [handles |-> hs, rows |-> <<>>, done |-> d]

-----------------------------------------------------------------------------
(* Session goroutine: Next *)

Init ==
    /\ tasks = <<>>
    /\ workCh = <<>> /\ resultCh = <<>>
    /\ workClosed = FALSE /\ resultClosed = FALSE
    /\ finished = FALSE /\ cancelled = FALSE
    /\ ipc = "idle" /\ bs = InitBatch /\ pos = 0 /\ pend = 0
    /\ tpc = [w \in Workers |-> "idle"] /\ cur = [w \in Workers |-> 0]
    /\ mpc = "open" /\ started = FALSE /\ mwait = 0 /\ mcur = 0
    /\ cursor = 0 /\ fill = 0
    /\ out = <<>> /\ ended = "no"

\* Next's first call: startWorkers launches the index worker and the table
\* workers; req.Reset() empties the chunk
StartWorkers ==
    /\ mpc = "open"
    /\ ipc' = "fetch" /\ tpc' = [w \in Workers |-> "pick"]
    /\ started' = TRUE /\ mpc' = "next" /\ fill' = 0
    /\ UNCHANGED <<tasks, workCh, resultCh, workClosed, resultClosed, finished,
                   cancelled, bs, pos, pend, cur, mwait, mcur, cursor, out, ended>>

CurrentExhausted == IF mcur = 0 THEN TRUE ELSE cursor >= Len(tasks[mcur].rows)

\* getResultTask: receive the next task from resultCh, or learn that it is
\* closed (Next returns with no more rows)
GetResultTask ==
    /\ mpc = "next" /\ CurrentExhausted
    /\ \/ /\ resultCh # <<>>
          /\ mwait' = Head(resultCh) /\ resultCh' = Tail(resultCh)
          /\ mpc' = "wait"
          /\ UNCHANGED ended
       \/ /\ resultCh = <<>> /\ resultClosed
          /\ ended' = "eof" /\ mpc' = "close"
          /\ UNCHANGED <<mwait, resultCh>>
    /\ UNCHANGED <<tasks, workCh, workClosed, resultClosed, finished, cancelled,
                   idxVars, tblVars, started, mcur, cursor, fill, out>>

\* getResultTask: <-task.doneCh; an error is returned by Next, otherwise the
\* task becomes resultCurr
WaitTaskDone ==
    /\ mpc = "wait"
    /\ tasks[mwait].done # "none"
    /\ IF tasks[mwait].done = "err"
       THEN ended' = "err" /\ mpc' = "close" /\ UNCHANGED <<mcur, cursor>>
       ELSE mcur' = mwait /\ cursor' = 0 /\ mpc' = "next" /\ UNCHANGED ended
    /\ UNCHANGED <<tasks, workCh, resultCh, workClosed, resultClosed, finished,
                   cancelled, idxVars, tblVars, started, mwait, fill, out>>

\* Next's copy loop: append rows of resultCurr until it is exhausted or the
\* chunk is full; a full chunk is returned and the caller calls Next again
\* (req.Reset)
CopyRows ==
    /\ mpc = "next" /\ ~CurrentExhausted
    /\ LET rows == tasks[mcur].rows
           k    == MinOf(Len(rows) - cursor, ChunkSize - fill)
       IN  /\ out' = out \o SubSeq(rows, cursor + 1, cursor + k)
           /\ cursor' = cursor + k
           /\ fill' = IF fill + k = ChunkSize THEN 0 ELSE fill + k
    /\ UNCHANGED <<tasks, workCh, resultCh, workClosed, resultClosed, finished,
                   cancelled, idxVars, tblVars, mpc, started, mwait, mcur, ended>>

-----------------------------------------------------------------------------
(* Session goroutine: Close *)

\* Close before any Next: the workers were never started
CloseUnstarted ==
    /\ mpc = "open"
    /\ mpc' = "end"
    /\ UNCHANGED <<tasks, workCh, resultCh, workClosed, resultClosed, finished,
                   cancelled, idxVars, tblVars, started, mwait, mcur, cursor,
                   fill, out, ended>>

\* close(e.finished)
CloseFinished ==
    /\ mpc = "close"
    /\ finished' = TRUE /\ mpc' = "drain"
    /\ UNCHANGED <<tasks, workCh, resultCh, workClosed, resultClosed, cancelled,
                   idxVars, tblVars, started, mwait, mcur, cursor, fill, out, ended>>

\* mutant: Close waits for the workers without draining resultCh
DrainSkip ==
    /\ mpc = "drain"
    /\ mpc' = "waitWorkers"
    /\ UNCHANGED <<tasks, workCh, resultCh, workClosed, resultClosed, finished, cancelled,
                   idxVars, tblVars, started, mwait, mcur, cursor, fill, out, ended>>

\* for range e.resultCh {}: discard until the index worker closes it
Drain ==
    /\ mpc = "drain"
    /\ \/ resultCh # <<>> /\ resultCh' = Tail(resultCh) /\ UNCHANGED mpc
       \/ resultCh = <<>> /\ resultClosed /\ mpc' = "waitWorkers" /\ UNCHANGED resultCh
    /\ UNCHANGED <<tasks, workCh, workClosed, resultClosed, finished, cancelled,
                   idxVars, tblVars, started, mwait, mcur, cursor, fill, out, ended>>

\* idxWorkerWg.Wait(); tblWorkerWg.Wait(); workerStarted = false
WaitWorkers ==
    /\ mpc = "waitWorkers"
    /\ ipc = "done" /\ \A w \in Workers : tpc[w] = "done"
    /\ mpc' = "end" /\ started' = FALSE
    /\ UNCHANGED <<tasks, workCh, resultCh, workClosed, resultClosed, finished,
                   cancelled, idxVars, tblVars, mwait, mcur, cursor, fill, out, ended>>

-----------------------------------------------------------------------------
(* Index worker goroutine: fetchHandles *)

\* mutant: a failed index read ends the worker without an error task
FetchHandlesDropErr ==
    /\ ipc = "fetch"
    /\ \/ /\ ipc' = "exit"
          /\ UNCHANGED <<tasks, bs, pos, pend>>
       \/ /\ pos < Len(Idx)
          /\ tasks' = Append(tasks, NewTask(ExtractTaskHandles, "none"))
          /\ pos' = pos + Len(ExtractTaskHandles)
          /\ bs' = NextBatchSize(Len(ExtractTaskHandles))
          /\ pend' = Len(tasks') /\ ipc' = "send"
    /\ UNCHANGED <<workCh, resultCh, workClosed, resultClosed, finished, cancelled,
                   tblVars, mainVars>>

\* extractTaskHandles, then buildTableTask.  A failed index read (or a
\* recovered panic) puts an error task with doneCh already holding the error;
\* no handles left ends the loop.  The batch size doubles, up to MaxBatch,
\* only after a batch was filled.
FetchHandles ==
    /\ ipc = "fetch"
    /\ \/ /\ tasks' = Append(tasks, NewTask(<<>>, "err"))
          /\ pend' = Len(tasks') /\ ipc' = "sendErr"
          /\ UNCHANGED <<bs, pos>>
       \/ /\ pos = Len(Idx)
          /\ ipc' = "exit"
          /\ UNCHANGED <<tasks, bs, pos, pend>>
       \/ /\ pos < Len(Idx)
          /\ tasks' = Append(tasks, NewTask(ExtractTaskHandles, "none"))
          /\ pos' = pos + Len(ExtractTaskHandles)
          /\ bs' = NextBatchSize(Len(ExtractTaskHandles))
          /\ pend' = Len(tasks') /\ ipc' = "send"
    /\ UNCHANGED <<workCh, resultCh, workClosed, resultClosed, finished, cancelled,
                   tblVars, mainVars>>

\* mutant: the send to workCh does not wait for room
SendWorkUnbounded ==
    /\ ipc = "send"
    /\ \/ (cancelled \/ finished) /\ ipc' = "exit" /\ UNCHANGED workCh
       \/ workCh' = Append(workCh, pend) /\ ipc' = "sendResult"
    /\ UNCHANGED <<tasks, resultCh, workClosed, resultClosed, finished, cancelled,
                   bs, pos, pend, tblVars, mainVars>>

\* select { <-ctx.Done(); <-w.finished; w.workCh <- task }
SendWork ==
    /\ ipc = "send"
    /\ \/ (cancelled \/ finished) /\ ipc' = "exit" /\ UNCHANGED workCh
       \/ Len(workCh) < WorkCap /\ workCh' = Append(workCh, pend) /\ ipc' = "sendResult"
    /\ UNCHANGED <<tasks, resultCh, workClosed, resultClosed, finished, cancelled,
                   bs, pos, pend, tblVars, mainVars>>

\* w.resultCh <- task (after workCh), or the error task
SendResult ==
    /\ ipc \in {"sendResult", "sendErr"}
    /\ Len(resultCh) < ResultCap
    /\ resultCh' = Append(resultCh, pend)
    /\ ipc' = IF ipc = "sendErr" THEN "exit" ELSE "fetch"
    /\ UNCHANGED <<tasks, workCh, workClosed, resultClosed, finished, cancelled,
                   bs, pos, pend, tblVars, mainVars>>

\* after fetchHandles: close(workCh); close(e.resultCh); idxWorkerWg.Done()
IndexWorkerExit ==
    /\ ipc = "exit"
    /\ workClosed' = TRUE /\ resultClosed' = TRUE /\ ipc' = "done"
    /\ UNCHANGED <<tasks, workCh, resultCh, finished, cancelled, bs, pos, pend,
                   tblVars, mainVars>>

-----------------------------------------------------------------------------
(* Table worker goroutines: pickAndExecTask *)

\* select { task, ok = <-w.workCh; <-w.finished }: a closed and empty workCh
\* or finished ends the worker
PickTask(w) ==
    /\ tpc[w] = "pick"
    /\ \/ /\ workCh # <<>>
          /\ cur' = [cur EXCEPT ![w] = Head(workCh)] /\ workCh' = Tail(workCh)
          /\ tpc' = [tpc EXCEPT ![w] = "exec"]
       \/ /\ (workCh = <<>> /\ workClosed) \/ finished
          /\ tpc' = [tpc EXCEPT ![w] = "done"]
          /\ UNCHANGED <<cur, workCh>>
    /\ UNCHANGED <<tasks, resultCh, workClosed, resultClosed, finished, cancelled,
                   idxVars, mainVars>>

\* mutant: the rows are kept in the table reader's order
ExecuteTaskUnsorted(w) ==
    /\ tpc[w] = "exec"
    /\ LET t == cur[w] IN
       \/ \E rows \in SetToSeqs(ToSet(tasks[t].handles)) :
             /\ tasks' = [tasks EXCEPT ![t].rows = rows, ![t].done = "ok"]
             /\ tpc' = [tpc EXCEPT ![w] = "pick"]
       \/ /\ tasks' = [tasks EXCEPT ![t].done = "err"]
          /\ \E pc \in {"pick", "done"} : tpc' = [tpc EXCEPT ![w] = pc]
    /\ UNCHANGED <<workCh, resultCh, workClosed, resultClosed, finished, cancelled,
                   cur, idxVars, mainVars>>

\* executeTask, then task.doneCh <- err.  The table reader returns the rows
\* of the handles in an order of its own; with keepOrder they are sorted
\* back by indexOrder.  A failed read reports its error; a panic is
\* recovered, reported on doneCh, and ends the worker.
ExecuteTask(w) ==
    /\ tpc[w] = "exec"
    /\ LET t  == cur[w]
           hs == tasks[t].handles
       IN  \/ \E rows \in SetToSeqs(ToSet(hs)) :
                 /\ tasks' = [tasks EXCEPT ![t].rows =
                                  IF KeepOrder
                                  THEN SortByIndexOrder(rows, hs)
                                  ELSE rows,
                                           ![t].done = "ok"]
                 /\ tpc' = [tpc EXCEPT ![w] = "pick"]
           \/ /\ tasks' = [tasks EXCEPT ![t].done = "err"]
              /\ \E pc \in {"pick", "done"} : tpc' = [tpc EXCEPT ![w] = pc]
    /\ UNCHANGED <<workCh, resultCh, workClosed, resultClosed, finished, cancelled,
                   cur, idxVars, mainVars>>

-----------------------------------------------------------------------------
(* Environment *)

\* the session's context is cancelled (the query is killed)
Cancel ==
    /\ ~cancelled /\ mpc # "end"
    /\ cancelled' = TRUE
    /\ UNCHANGED <<tasks, workCh, resultCh, workClosed, resultClosed, finished,
                   idxVars, tblVars, mainVars>>

Next ==
    \/ StartWorkers \/ GetResultTask \/ WaitTaskDone \/ CopyRows
    \/ CloseUnstarted \/ CloseFinished \/ Drain \/ WaitWorkers
    \/ FetchHandles \/ SendWork \/ SendResult \/ IndexWorkerExit
    \/ \E w \in Workers : PickTask(w) \/ ExecuteTask(w)
    \/ Cancel

\* Every goroutine that can take a step eventually takes it (the Go
\* scheduler runs runnable goroutines, and the index and table reads
\* return); the cancellation is an environment event and need not happen.
Fairness ==
    /\ WF_vars(StartWorkers \/ GetResultTask \/ WaitTaskDone \/ CopyRows)
    /\ WF_vars(CloseFinished \/ Drain \/ WaitWorkers)
    /\ WF_vars(FetchHandles \/ SendWork \/ SendResult \/ IndexWorkerExit)
    /\ \A w \in Workers : WF_vars(PickTask(w) \/ ExecuteTask(w))

Spec == Init /\ [][Next]_vars /\ Fairness

-----------------------------------------------------------------------------
(* Properties *)

TypeOK ==
    /\ \A t \in 1..Len(tasks) :
          /\ ToSet(tasks[t].handles) \subseteq ToSet(Idx)
          /\ tasks[t].done \in {"none", "ok", "err"}
    /\ ToSet(workCh) \cup ToSet(resultCh) \subseteq 1..Len(tasks)
    /\ Len(workCh) <= WorkCap /\ Len(resultCh) <= ResultCap
    /\ ipc \in {"idle", "fetch", "send", "sendResult", "sendErr", "exit", "done"}
    /\ \A w \in Workers : tpc[w] \in {"idle", "pick", "exec", "done"}
    /\ mpc \in {"open", "next", "wait", "close", "drain", "waitWorkers", "end"}
    /\ ended \in {"no", "eof", "err"}

\* With keepOrder, Next returns rows in index order: tasks leave resultCh in
\* the order fetchHandles sent them, and executeTask sorts each task's rows
\* back by indexOrder whatever order the table reader produced.
OrderKept == KeepOrder => IsPrefix(out, Idx)

\* A Next that reports the end of data (resultCh closed) has returned every
\* row of the index, unless the query was cancelled: every failure of the
\* index worker or of a table worker reaches the session as an error
\* before the closed resultCh does.
CompleteOnEof ==
    ended = "eof" /\ ~cancelled => ToSet(out) = ToSet(Idx) /\ Len(out) = Len(Idx)

\* The session always gets through Next and Close, and Close returns only
\* after every worker goroutine has exited: no goroutine blocks forever on
\* workCh, resultCh or a doneCh, whatever fails.
Terminates == <>(mpc = "end" /\ ipc \in {"idle", "done"})

=============================================================================
