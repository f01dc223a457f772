---------------------------- MODULE PhysicalTask ----------------------------
(***************************************************************************)
(* Physical task attachment of the planner: the copTask and rootTask of    *)
(* task.go (folded into src/tinysql/planner/core/logical_plans.go), the     *)
(* attach2Task of Limit, TopN, Sort, Projection and Selection,              *)
(* finishCopTask, and flattenPushDownPlan of initialize.go.                 *)
(*                                                                         *)
(* Costs and statistics are left out: they choose between plans, never     *)
(* what a plan returns.  A row is its handle; it has an index column "a"   *)
(* and a column "b" that only the table has.  To say what a plan returns,  *)
(* the readers finishCopTask builds are given the execution of the         *)
(* executors: a cop request runs the flattened pushed-down plan over one   *)
(* region's rows in key order, and IndexLookUpExecutor (distsql.go) sends  *)
(* the handles in batches, runs the table plan on each batch's rows in     *)
(* handle order, and with keepOrder sorts them back into index order.      *)
(***************************************************************************)
EXTENDS Integers, Sequences, SequencesExt, TLC

\* The nil plan; a node is the pair of its operator and its child.
Nil == <<>>

\* A physical operator: Limit, TopN, Sort, Selection, Projection, a scan.
\* by is the column a TopN or Sort orders by and a Selection tests.
Op(kind, by, count, offset) == [op |-> kind, by |-> by, count |-> count, offset |-> offset]

\* A pushed-down plan: the node and its child, Children()[0], or Nil.
Node(o, child) == <<o, child>>
Self(p) == p[1]
Child(p) == p[2]

(***************************************************************************)
(* flattenPushDownPlan (initialize.go:342-357): collect the nodes from the *)
(* root down to the leaf, then reverse the slice by swapping plans[i] and  *)
(* plans[len-i-1] for i below len/2.                                        *)
(***************************************************************************)
RECURSIVE Collect(_)
Collect(p) == IF p = Nil THEN <<>> ELSE <<Self(p)>> \o Collect(Child(p))

RECURSIVE SwapLoop(_, _)
SwapLoop(plans, i) ==
    IF i >= Len(plans) \div 2 THEN plans
    ELSE LET j == Len(plans) - i - 1
         IN  SwapLoop([plans EXCEPT ![i + 1] = plans[j + 1],
                                    ![j + 1] = plans[i + 1]], i + 1)

FlattenPushDownPlan(p) == SwapLoop(Collect(p), 0)

(***************************************************************************)
(* Tasks.  A copTask has an index plan and a table plan (Nil when absent), *)
(* indexPlanFinished, keepOrder, doubleReadNeedProj, the columns its index *)
(* plan outputs, and whether it has rootTaskConds.  A rootTask is the      *)
(* reader finishCopTask built and the chain of root operators above it.    *)
(***************************************************************************)
\* copTask (logical_plans.go:641-665), without costs and statistics.
CopTask(ip, tp, fin, k, proj, cols, conds) ==
    [kind |-> "cop", indexPlan |-> ip, tablePlan |-> tp, indexPlanFinished |-> fin,
     keepOrder |-> k, doubleReadNeedProj |-> proj, idxCols |-> cols,
     rootTaskConds |-> conds]

\* rootTask (logical_plans.go:963-968): its plan is the reader and the
\* chain of root operators above it.
RootTask(reader, p) == [kind |-> "root", reader |-> reader, p |-> p]

\* copTask.finishIndexPlan (logical_plans.go:720-739), without the cost.
FinishIndexPlan(t) ==
    IF t.indexPlanFinished THEN t ELSE [t EXCEPT !.indexPlanFinished = TRUE]

\* attachPlan2Task (logical_plans.go:702-718): p becomes the new root of
\* the table plan once the index plan is finished, of the index plan
\* before, or of the root task's plan.
AttachPlan2Task(p, t) ==
    CASE t.kind = "root"      -> [t EXCEPT !.p = Node(p, t.p)]
      [] t.indexPlanFinished  -> [t EXCEPT !.tablePlan = Node(p, t.tablePlan)]
      [] OTHER                -> [t EXCEPT !.indexPlan = Node(p, t.indexPlan)]

\* The count and the sum a partial avg becomes: copies of it, renamed.
SplitAvgSwapped(f) == <<[f EXCEPT !.name = "sum"], [f EXCEPT !.name = "count"]>>

SplitAvg(f) == <<[f EXCEPT !.name = "count"], [f EXCEPT !.name = "sum"]>>

\* The loop of splitCopAvg2CountAndSum, from the last function to the first,
\* replacing each avg by its count and sum (logical_plans.go:855-870).
RECURSIVE SplitFrom(_, _)
SplitFrom(fs, i) ==
    IF i = 0 THEN fs
    ELSE SplitFrom(IF fs[i].name = "avg"
                   THEN SubSeq(fs, 1, i - 1) \o SplitAvg(fs[i]) \o SubSeq(fs, i + 1, Len(fs))
                   ELSE fs, i - 1)

\* splitCopAvg2CountAndSum (logical_plans.go:846-871): only a hash
\* aggregation at the root of the table plan is split.
SplitCopAvg2CountAndSum(p) ==
    IF p # Nil /\ Self(p).op = "HashAgg"
    THEN Node([Self(p) EXCEPT !.funcs = SplitFrom(Self(p).funcs, Len(Self(p).funcs))], Child(p))
    ELSE p

\* finishCopTask (logical_plans.go:874-962): an IndexLookUpReader when both
\* plans exist (with a Projection over it for doubleReadNeedProj), an
\* IndexReader for an index plan alone, a TableReader otherwise, after
\* splitting the avg of its aggregation; a Selection of the rootTaskConds
\* on top.  A root task is returned as is.
FinishCopTask(t) ==
    IF t.kind # "cop" THEN t
    ELSE LET c == FinishIndexPlan(t)
             Reader(type, tp) == [type |-> type, keepOrder |-> c.keepOrder,
                                  IndexPlans |-> FlattenPushDownPlan(c.indexPlan),
                                  TablePlans |-> FlattenPushDownPlan(tp)]
             lookUp == c.indexPlan # Nil /\ c.tablePlan # Nil
             root == CASE lookUp /\ c.doubleReadNeedProj ->
                            RootTask(Reader("IndexLookUp", c.tablePlan),
                                     Node(Op("Projection", "a", 0, 0), Nil))
                       [] lookUp -> RootTask(Reader("IndexLookUp", c.tablePlan), Nil)
                       [] c.indexPlan # Nil -> RootTask(Reader("IndexReader", Nil), Nil)
                       [] OTHER -> RootTask(Reader("TableReader",
                                                   SplitCopAvg2CountAndSum(c.tablePlan)), Nil)
         IN  IF c.rootTaskConds
             THEN [root EXCEPT !.p = Node(Op("Selection", "b", 0, 0), root.p)]
             ELSE root

\* basePhysicalPlan, PhysicalProjection and PhysicalSelection.attach2Task
\* (logical_plans.go:741-744, 1128-1147): close the cop task, then attach.
AttachAtRoot(p, t) == AttachPlan2Task(p, FinishCopTask(t))

\* PhysicalSort.attach2Task (logical_plans.go:1063-1068): attach as is.
AttachSort(p, t) == AttachPlan2Task(p, t)

\* The Limit pushed to a cop task: count Offset + Count and no offset.
PushLimitAlways(p, cop) ==
    AttachPlan2Task(Op("Limit", "a", p.offset + p.count, 0), cop)

\* PhysicalLimit.attach2Task, lines 996-1007: no push to the table side of
\* a double read that keeps order.
PushLimit(p, cop) ==
    IF ~cop.keepOrder \/ ~cop.indexPlanFinished \/ cop.indexPlan = Nil
    THEN AttachPlan2Task(Op("Limit", "a", p.offset + p.count, 0), cop)
    ELSE cop

\* PhysicalLimit.attach2Task (logical_plans.go:993-1012).
AttachLimit(p, t) ==
    AttachPlan2Task(p, IF t.kind = "cop" THEN FinishCopTask(PushLimit(p, t)) ELSE t)

PushedDownTopNNoOffset(p) == Op("TopN", p.by, p.count, 0)

\* getPushedDownTopN (logical_plans.go:1074-1090): the same order, count
\* Offset + Count, no offset.
PushedDownTopN(p) == Op("TopN", p.by, p.offset + p.count, 0)

\* PhysicalTopN.attach2Task (logical_plans.go:1092-1114).  canPushDown
\* (whether every ByItem converts to protobuf) is an input; allColsFromSchema
\* is whether the order column is one the index plan outputs.
AttachTopN(p, canPushDown, t) ==
    LET pushed ==
          IF t.kind = "cop" /\ canPushDown
          THEN IF ~t.indexPlanFinished /\ p.by \in t.idxCols
               THEN [t EXCEPT !.indexPlan = Node(PushedDownTopN(p), t.indexPlan)]
               ELSE LET c == FinishIndexPlan(t)
                    IN  [c EXCEPT !.tablePlan = Node(PushedDownTopN(p), c.tablePlan)]
          ELSE t
    IN  AttachPlan2Task(p, FinishCopTask(pushed))

\* attach2Task, by the operator's type.
Attach(p, canPushDown, t) ==
    CASE p.op = "Limit" -> AttachLimit(p, t)
      [] p.op = "TopN"  -> AttachTopN(p, canPushDown, t)
      [] p.op = "Sort"  -> AttachSort(p, t)
      [] OTHER          -> AttachAtRoot(p, t)

(***************************************************************************)
(* What a plan returns.  d gives each row's "a" and "b" values (distinct,  *)
(* so orders have no ties) and the batch size of the index lookup.         *)
(***************************************************************************)
Window(s, offset, count) ==
    SubSeq(s, offset + 1, IF offset + count < Len(s) THEN offset + count ELSE Len(s))

SortBy(s, col, d) == SortSeq(s, LAMBDA x, y : d[col][x] < d[col][y])

Run(o, s, d) ==
    CASE o.op = "Limit"     -> Window(s, o.offset, o.count)
      [] o.op = "TopN"      -> Window(SortBy(s, o.by, d), o.offset, o.count)
      [] o.op = "Sort"      -> SortBy(s, o.by, d)
      [] o.op = "Selection" -> SelectSeq(s, LAMBDA h : d[o.by][h] # 1)
      [] OTHER              -> s

RunPlans(plans, s, d) == FoldLeft(LAMBDA acc, o : Run(o, acc, d), s, plans)

RECURSIVE RunChain(_, _, _)
RunChain(p, s, d) == IF p = Nil THEN s ELSE Run(Self(p), RunChain(Child(p), s, d), d)

TableOrder(d) == [i \in DOMAIN d.a |-> i]
IndexOrder(d) == SortBy(TableOrder(d), "a", d)

\* The index lookup: batches of d.batch handles in the order the index
\* plan returns them; each batch's rows in handle order through the table
\* plans, then by their position in the batch when the reader keeps order.
LookUpRows(rd, d) ==
    LET hs == RunPlans(rd.IndexPlans, IndexOrder(d), d)
        n == (Len(hs) + d.batch - 1) \div d.batch
        Batch(k) == SubSeq(hs, (k - 1) * d.batch + 1,
                           IF k * d.batch < Len(hs) THEN k * d.batch ELSE Len(hs))
        Pos(b, h) == CHOOSE i \in DOMAIN b : b[i] = h
        Rows(b) == LET rs == RunPlans(rd.TablePlans, SortSeq(b, LAMBDA x, y : x < y), d)
                   IN  IF rd.keepOrder
                       THEN SortSeq(rs, LAMBDA x, y : Pos(b, x) < Pos(b, y))
                       ELSE rs
    IN  FlattenSeq([k \in 1..n |-> Rows(Batch(k))])

ReaderRows(rd, d) ==
    CASE rd.type = "TableReader" -> RunPlans(rd.TablePlans, TableOrder(d), d)
      [] rd.type = "IndexReader" -> RunPlans(rd.IndexPlans, IndexOrder(d), d)
      [] OTHER                   -> LookUpRows(rd, d)

RootRows(t, d) == RunChain(t.p, ReaderRows(t.reader, d), d)
=============================================================================
