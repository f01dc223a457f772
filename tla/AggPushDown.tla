---------------------------- MODULE AggPushDown ----------------------------
(***************************************************************************)
(* Two-phase hash aggregation (src/tinysql/planner/core/logical_plans.go): *)
(* BuildFinalModeAggregation, RemoveUnnecessaryFirstRow,                   *)
(* newPartialAggregate and PhysicalHashAgg.attach2Task, over the tasks of  *)
(* PhysicalTask.                                                            *)
(*                                                                         *)
(* An aggregate function is its name, its argument columns and its mode.   *)
(* A column is a name: "g", "v", or the one NewColumn gives the n-th     *)
(* column the planner allocates (AllocPlanColumnID).                       *)
(* A hash aggregation node has its functions, its group-by columns and its *)
(* schema: the columns, in order, that the rows it emits are read by.      *)
(***************************************************************************)
EXTENDS PhysicalTask

NewColumn(n) == "col" \o ToString(n)

AggFunc(name, args, mode) == [name |-> name, args |-> args, mode |-> mode]

HashAgg(funcs, gby, schema) ==
    [op |-> "HashAgg", funcs |-> funcs, gby |-> gby, schema |-> schema]

\* aggregation.NeedCount and NeedValue: the partial columns a function has.
NeedCount(name) == name \in {"count", "avg"}
NeedValue(name) == name \in {"sum", "avg", "firstrow", "max"}

(***************************************************************************)
(* BuildFinalModeAggregation (logical_plans.go:1167-1219): for each        *)
(* function a count column if it needs one, then a value column, each a    *)
(* new column of the partial schema and an argument of the final function; *)
(* then the group-by columns.  Returns the final functions, the final      *)
(* group-by items and the partial schema.                                  *)
(***************************************************************************)
BuildFinalModeAggregation(aggFuncs, gby) ==
    LET Step(acc, f) ==
          LET cnt == IF NeedCount(f.name) THEN <<NewColumn(Len(acc.schema) + 1)>> ELSE <<>>
              val == IF NeedValue(f.name) THEN <<NewColumn(Len(acc.schema) + Len(cnt) + 1)>> ELSE <<>>
          IN  [schema |-> acc.schema \o cnt \o val,
               finals |-> Append(acc.finals, AggFunc(f.name, cnt \o val, "final"))]
        r == FoldLeft(Step, [schema |-> <<>>, finals |-> <<>>], aggFuncs)
    IN  [finals |-> r.finals, gby |-> gby, schema |-> r.schema \o gby]

RemoveFirstRowNoCount(finals, gby, aggFuncs, schema) ==
    LET Step(acc, i) ==
          LET f == aggFuncs[i]
              js == {j \in DOMAIN gby : gby[j] = f.args[1]}
          IN  IF f.name = "firstrow" /\ js # {}
              THEN [acc EXCEPT !.finals[i].args[1] = gby[CHOOSE j \in js : \A k \in js : j <= k],
                               !.schema = SubSeq(@, 1, acc.cursor) \o SubSeq(@, acc.cursor + 2, Len(@))]
              ELSE [acc EXCEPT !.cursor = @ + (IF NeedValue(f.name) THEN 1 ELSE 0),
                               !.funcs = Append(@, f)]
    IN  FoldLeft(Step, [cursor |-> 0, funcs |-> <<>>, finals |-> finals, schema |-> schema],
                 [i \in DOMAIN aggFuncs |-> i])

(***************************************************************************)
(* RemoveUnnecessaryFirstRow (logical_plans.go:1248-1283): a firstrow of a *)
(* group-by item is dropped from the partial functions, its column removed *)
(* from the partial schema at the cursor, and its final function reads the *)
(* first such group-by column instead; the cursor passes over the columns  *)
(* of every function kept.  Returns the kept functions with the final      *)
(* functions and the partial schema it changes.                            *)
(***************************************************************************)
RemoveUnnecessaryFirstRow(finals, gby, aggFuncs, schema) ==
    LET Step(acc, i) ==
          LET f == aggFuncs[i]
              js == {j \in DOMAIN gby : gby[j] = f.args[1]}
          IN  IF f.name = "firstrow" /\ js # {}
              THEN [acc EXCEPT !.finals[i].args[1] = gby[CHOOSE j \in js : \A k \in js : j <= k],
                               !.schema = SubSeq(@, 1, acc.cursor) \o SubSeq(@, acc.cursor + 2, Len(@))]
              ELSE [acc EXCEPT !.cursor = @ + (IF NeedCount(f.name) THEN 1 ELSE 0)
                                            + (IF NeedValue(f.name) THEN 1 ELSE 0),
                               !.funcs = Append(@, f)]
    IN  FoldLeft(Step, [cursor |-> 0, funcs |-> <<>>, finals |-> finals, schema |-> schema],
                 [i \in DOMAIN aggFuncs |-> i])

(***************************************************************************)
(* newPartialAggregate (logical_plans.go:1221-1246): when the functions    *)
(* and group-by items can go to the coprocessor (canPush, the result of    *)
(* CheckAggCanPushCop), the aggregation itself becomes the partial one,    *)
(* with the kept functions and the partial schema, and a new final one     *)
(* takes its schema; otherwise there is no partial aggregation (<<>>).    *)
(***************************************************************************)
NewPartialAggregate(p, canPush) ==
    IF ~canPush THEN [partial |-> <<>>, final |-> p]
    ELSE LET b == BuildFinalModeAggregation(p.funcs, p.gby)
             r == RemoveUnnecessaryFirstRow(b.finals, b.gby, p.funcs, b.schema)
         IN  [partial |-> <<HashAgg(r.funcs, p.gby, r.schema)>>,
              final   |-> HashAgg(r.finals, b.gby, p.schema)]

(***************************************************************************)
(* PhysicalHashAgg.attach2Task (logical_plans.go:1298-1341): on a cop task *)
(* the partial aggregation goes on the table plan (finishing the index     *)
(* plan) when there is one, else on the index plan; the cop task is        *)
(* finished and the final aggregation attached above it.  On a root task   *)
(* the aggregation is attached as it is.                                   *)
(***************************************************************************)
AttachHashAgg(p, canPush, t) ==
    IF t.kind = "cop"
    THEN LET pf == NewPartialAggregate(p, canPush)
             c  == CASE pf.partial = <<>> -> t
                      [] t.tablePlan # Nil ->
                           LET f == FinishIndexPlan(t)
                           IN  [f EXCEPT !.tablePlan = Node(pf.partial[1], f.tablePlan)]
                      [] OTHER -> [t EXCEPT !.indexPlan = Node(pf.partial[1], t.indexPlan)]
         IN  AttachPlan2Task(pf.final, FinishCopTask(c))
    ELSE AttachPlan2Task(p, t)

(***************************************************************************)
(* What the aggregations return.  A row maps columns to values.  The       *)
(* coprocessor runs an aggregation in partial form whatever its functions' *)
(* mode: for each group, each function's count column if it needs one,    *)
(* then its value column, then the group-by values, read by the node's     *)
(* schema in that order (a schema column with no value reads Missing).     *)
(* TiDB's final functions combine those columns; complete ones aggregate  *)
(* the rows.  avg is kept as the pair of its sum and count.                *)
(***************************************************************************)
Missing == -1

\* A column the rows lack (ResolveIndices fails on it) reads Missing.
Val(r, c) == IF c \in DOMAIN r THEN r[c] ELSE Missing
Col(rows, c) == [k \in DOMAIN rows |-> Val(rows[k], c)]
SumOf(s) == FoldLeft(LAMBDA x, y : x + y, 0, s)
MaxOfSeq(s) == CHOOSE x \in ToSet(s) : \A y \in ToSet(s) : y <= x

KeyOf(r, gby) == [k \in DOMAIN gby |-> r[gby[k]]]
Keys(rows, gby) == {KeyOf(rows[k], gby) : k \in DOMAIN rows}
Group(rows, gby, key) == SelectSeq(rows, LAMBDA r : KeyOf(r, gby) = key)

PartialOut(f, rows) ==
    (IF NeedCount(f.name) THEN <<Len(rows)>> ELSE <<>>)
    \o (CASE f.name \in {"sum", "avg"} -> <<SumOf(Col(rows, f.args[1]))>>
          [] f.name = "firstrow"       -> <<Val(rows[1], f.args[1])>>
          [] f.name = "max"            -> <<MaxOfSeq(Col(rows, f.args[1]))>>
          [] OTHER                     -> <<>>)

\* The rows a partial aggregation emits for one region or batch.
PartialRows(agg, rows) ==
    LET Emit(key) ==
          LET grp == Group(rows, agg.gby, key)
              vals == FlattenSeq([i \in DOMAIN agg.funcs |-> PartialOut(agg.funcs[i], grp)]) \o key
          IN  [c \in ToSet(agg.schema) |->
                 LET k == CHOOSE k \in DOMAIN agg.schema : agg.schema[k] = c
                 IN  IF k <= Len(vals) THEN vals[k] ELSE Missing]
    IN  SetToSeq({Emit(key) : key \in Keys(rows, agg.gby)})

FuncOut(f, rows) ==
    IF f.mode = "final"
    THEN CASE f.name \in {"count", "sum"} -> SumOf(Col(rows, f.args[1]))
           [] f.name = "avg" -> <<SumOf(Col(rows, f.args[2])), SumOf(Col(rows, f.args[1]))>>
           [] f.name = "firstrow" -> Val(rows[1], f.args[1])
           [] OTHER -> MaxOfSeq(Col(rows, f.args[1]))
    ELSE CASE f.name = "count" -> Len(rows)
           [] f.name = "sum" -> SumOf(Col(rows, f.args[1]))
           [] f.name = "avg" -> <<SumOf(Col(rows, f.args[1])), Len(rows)>>
           [] f.name = "firstrow" -> Val(rows[1], f.args[1])
           [] OTHER -> MaxOfSeq(Col(rows, f.args[1]))

\* The result of the root aggregation: each group's key to its values.
AggOutput(agg, rows) ==
    [key \in Keys(rows, agg.gby) |->
        [i \in DOMAIN agg.funcs |-> FuncOut(agg.funcs[i], Group(rows, agg.gby, key))]]

\* A pushed-down plan run over some rows: a scan returns them, a hash
\* aggregation on top aggregates them.
RunAggPlans(plans, rows) ==
    IF plans # <<>> /\ plans[Len(plans)].op = "HashAgg"
    THEN PartialRows(plans[Len(plans)], rows) ELSE rows

\* The reader's rows: one cop request per region (the rows split after
\* row split) for a table or index reader, one table request per batch of
\* split handles for the index lookup; the root plan is the aggregation,
\* over the Projection of a double read.
AggResult(t, rows, split) ==
    LET Parts == IF t.reader.type = "IndexLookUp"
                 THEN [k \in 1..((Len(rows) + split - 1) \div split) |->
                         SubSeq(rows, (k - 1) * split + 1,
                                IF k * split < Len(rows) THEN k * split ELSE Len(rows))]
                 ELSE IF split >= Len(rows) THEN <<rows>>
                 ELSE <<SubSeq(rows, 1, split), SubSeq(rows, split + 1, Len(rows))>>
        plans == IF t.reader.type = "IndexReader" THEN t.reader.IndexPlans
                 ELSE t.reader.TablePlans
    IN  AggOutput(Self(t.p), FlattenSeq([k \in DOMAIN Parts |-> RunAggPlans(plans, Parts[k])]))
=============================================================================
