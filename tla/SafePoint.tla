----------------------------- MODULE SafePoint -----------------------------
(***************************************************************************)
(* The GC safe point cache of TinykvStore (src/tinysql/store/tikv/kv.go).  *)
(*                                                                         *)
(* A goroutine, runSafePointChecker, wakes up on a timer, loads the GC     *)
(* safe point from PD's etcd and stores it with the time the timer fired   *)
(* (UpdateSPCache).  A transaction's read calls CheckVisibility with its   *)
(* start timestamp: it fails if the cached value is older than the cache   *)
(* window, or if the start timestamp is below the cached safe point.       *)
(* Close closes the store's `closed` channel, which ends the checker.      *)
(*                                                                         *)
(* Time is a discrete clock `now`; a timestamp from the oracle is the      *)
(* clock's value when it is taken.  The GC worker (not in the repository)  *)
(* advances the safe point in etcd to at most now - GcLifeTime.            *)
(***************************************************************************)
EXTENDS Naturals, FiniteSets, TLC

CONSTANTS
    Txns,                \* transactions of this store
    CacheWindow,         \* GcSafePointCacheInterval - gcCPUTimeInaccuracyBound
    UpdateInterval,      \* gcSafePointUpdateInterval
    QuickRepeatInterval, \* gcSafePointQuickRepeatInterval
    GcLifeTime,          \* how far the GC worker keeps the safe point behind now
    MaxTime              \* bound on the clock

ASSUME /\ CacheWindow \in Nat /\ UpdateInterval \in Nat \ {0}
       /\ QuickRepeatInterval \in Nat \ {0} /\ GcLifeTime \in Nat /\ MaxTime \in Nat

Time == 0..MaxTime
NoTS == MaxTime + 1   \* a transaction that has not begun

VARIABLES
    now,        \* the clock
    etcdSP,     \* the GC safe point stored in etcd
    spAtTick,   \* history: the safe point in etcd when each tick began
    safePoint,  \* TinykvStore.safePoint
    spTime,     \* TinykvStore.spTime
    closed,     \* the closed channel has been closed
    cpc,        \* runSafePointChecker: "wait", "load", "update" or "done"
    deadline,   \* when the timer of time.After(d) fires
    firedAt,    \* the time received from the timer channel (spCachedTime)
    loaded,     \* the value returned by loadSafePoint
    startTS,    \* each transaction's start timestamp
    lastCheck   \* history: the latest call of CheckVisibility, [ts, at, res]

storeVars   == <<safePoint, spTime, closed>>
checkerVars == <<cpc, deadline, firedAt, loaded>>
vars == <<now, etcdSP, spAtTick, storeVars, checkerVars, startTS, lastCheck>>

NoCheck == [ts |-> NoTS, at |-> 0, res |-> "none"]

(***************************************************************************)
(* newTikvStore: safePoint 0, spTime now, the checker started with the    *)
(* update interval.  The clock starts when the store is opened; a safe    *)
(* point GC set before that is below every start timestamp this store     *)
(* takes, so it is represented by 0.                                      *)
(***************************************************************************)
Init ==
    /\ now = 0
    /\ etcdSP = 0
    /\ spAtTick = [t \in Time |-> 0]
    /\ safePoint = 0 /\ spTime = 0 /\ closed = FALSE
    /\ cpc = "wait" /\ deadline = UpdateInterval /\ firedAt = 0 /\ loaded = 0
    /\ startTS = [t \in Txns |-> NoTS]
    /\ lastCheck = NoCheck

(***************************************************************************)
(* The environment: time passes, the GC worker advances the safe point.    *)
(***************************************************************************)

Tick ==
    /\ now < MaxTime
    /\ now' = now + 1
    /\ spAtTick' = [spAtTick EXCEPT ![now + 1] = etcdSP]
    /\ UNCHANGED <<etcdSP, storeVars, checkerVars, startTS, lastCheck>>

GCAdvance ==
    /\ \E v \in Time : etcdSP < v /\ v + GcLifeTime <= now /\ etcdSP' = v
    /\ UNCHANGED <<now, spAtTick, storeVars, checkerVars, startTS, lastCheck>>

(***************************************************************************)
(* runSafePointChecker.  The select of lines 197-210 is the disjunction    *)
(* of CheckerFire and CheckerExit: when the timer has fired and the store  *)
(* is closed, Go picks either case.  loadSafePoint and UpdateSPCache are   *)
(* separate steps: time passes during the etcd call, and another          *)
(* goroutine may read the cache between them.  firedAt and loaded are the  *)
(* select case's locals, so they are reset when the loop goes round.       *)
(***************************************************************************)

CheckerFire ==
    /\ cpc = "wait" /\ deadline <= now
    /\ cpc' = "load" /\ firedAt' = now
    /\ UNCHANGED <<now, etcdSP, spAtTick, storeVars, deadline, loaded, startTS, lastCheck>>

\* Mutant: a select without the s.Closed() case.
CheckerExitMissing ==
    /\ FALSE
    /\ UNCHANGED vars

CheckerExit ==
    /\ cpc = "wait" /\ closed
    /\ cpc' = "done"
    /\ UNCHANGED <<now, etcdSP, spAtTick, storeVars, deadline, firedAt, loaded, startTS, lastCheck>>

\* loadSafePoint: either the value in etcd, or an error, after which the
\* checker waits gcSafePointQuickRepeatInterval and tries again.
LoadSafePoint ==
    /\ cpc = "load"
    /\ \/ cpc' = "update" /\ loaded' = etcdSP /\ UNCHANGED deadline
          /\ UNCHANGED firedAt
       \/ cpc' = "wait" /\ deadline' = now + QuickRepeatInterval
          /\ firedAt' = 0 /\ UNCHANGED loaded
    /\ UNCHANGED <<now, etcdSP, spAtTick, storeVars, startTS, lastCheck>>

\* UpdateSPCache(cachedSafePoint, spCachedTime) under spMutex.
UpdateSPCache(cachedSP, cachedTime) ==
    /\ safePoint' = cachedSP
    /\ spTime' = cachedTime

\* Mutant: the cache stamped with the time of the update (time.Now()).
CheckerUpdateStampNow ==
    /\ cpc = "update"
    /\ UpdateSPCache(loaded, now)
    /\ deadline' = now + UpdateInterval
    /\ cpc' = "wait" /\ firedAt' = 0 /\ loaded' = 0
    /\ UNCHANGED <<now, etcdSP, spAtTick, closed, startTS, lastCheck>>

\* The success branch: the cache is stamped with the time the timer fired,
\* not with the time the value was read.
CheckerUpdate ==
    /\ cpc = "update"
    /\ UpdateSPCache(loaded, firedAt)
    /\ deadline' = now + UpdateInterval
    /\ cpc' = "wait" /\ firedAt' = 0 /\ loaded' = 0
    /\ UNCHANGED <<now, etcdSP, spAtTick, closed, startTS, lastCheck>>

(***************************************************************************)
(* The store's clients.                                                    *)
(***************************************************************************)

\* Begin: the start timestamp is taken from the oracle
\* (getTimestampWithRetry retries until the oracle answers).
Begin(t) ==
    /\ ~closed /\ startTS[t] = NoTS
    /\ startTS' = [startTS EXCEPT ![t] = now]
    /\ UNCHANGED <<now, etcdSP, spAtTick, storeVars, checkerVars, lastCheck>>

\* CheckVisibility: safePoint and spTime are read together under the read
\* lock; the age is measured against the clock.
Visibility(ts, sp, cachedTime) ==
    IF now - cachedTime > CacheWindow THEN "timeout"
    ELSE IF ts < sp THEN "tooEarly"
    ELSE "ok"

CheckVisibility(t) ==
    /\ ~closed /\ startTS[t] # NoTS
    /\ lastCheck' = [ts |-> startTS[t], at |-> now,
                      res |-> Visibility(startTS[t], safePoint, spTime)]
    /\ UNCHANGED <<now, etcdSP, spAtTick, storeVars, checkerVars, startTS>>

\* Close: closes the closed channel (the oracle, PD and RPC clients it also
\* closes are outside the model).
Close ==
    /\ ~closed
    /\ closed' = TRUE
    /\ UNCHANGED <<now, etcdSP, spAtTick, safePoint, spTime, checkerVars, startTS, lastCheck>>

\* The clock stops at MaxTime; the system itself never stops.
TimeBound ==
    /\ now = MaxTime
    /\ UNCHANGED vars

Next ==
    \/ Tick \/ GCAdvance
    \/ CheckerFire \/ CheckerExit \/ LoadSafePoint \/ CheckerUpdate
    \/ \E t \in Txns : Begin(t) \/ CheckVisibility(t)
    \/ Close
    \/ TimeBound

Checker == CheckerFire \/ CheckerExit \/ LoadSafePoint \/ CheckerUpdate

\* The checker goroutine is scheduled whenever it can run.
Spec == Init /\ [][Next]_vars /\ WF_vars(Checker)

(***************************************************************************)
(* Properties                                                              *)
(***************************************************************************)

\* The contract of CheckVisibility (kv.go:144-162) that GC relies on: a
\* start timestamp it accepts at time T is not below the safe point etcd
\* held at T - CacheWindow.  It depends on UpdateSPCache being stamped with
\* the time the timer fired, before loadSafePoint read etcd, and on the
\* age test of line 151.
AcceptedNotBehindSafePoint ==
    LET c == lastCheck IN
    c # NoCheck /\ c.res = "ok" /\ c.at >= CacheWindow
        => c.ts >= spAtTick[c.at - CacheWindow]

\* After Close, the checker goroutine eventually returns (kv.go:208-209):
\* closing the store does not leak it.
CheckerStops == closed ~> (cpc = "done")

================================================================================
