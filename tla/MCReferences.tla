---------------------------- MODULE MCReferences ----------------------------
(* Checks the operators of PlanBuilder, PeerChecks and PhysicalTask      *)
(* against their references.                                                 *)
(* The algorithm and its input are chosen in the initial state from bounded   *)
(* sets; each invariant compares one operator's result with its           *)
(* reference on the input, when the input is one of that operator's.      *)
EXTENDS PlanBuilder, PeerChecks, AggPushDown, FiniteSets

VARIABLES algo, input

(* LIMIT: every count node, and every offset node or none.  IntWidth 3    *)
(* gives uint64 values 0..7, so count + offset overflows for most pairs.  *)
LimitInputs == [count : Nodes, offset : Nodes \cup {NoNode}]

(* DELETE over joins of one to three tables, drawn from two table ids.    *)
(* Aliases of one id are one table and agree on its columns.              *)
TableDom ==
    {t \in [tid : {1, 2}, cols : 1..2, extra : BOOLEAN, pk : 0..1] :
        t.pk < t.cols /\ (t.extra => t.pk = 0)}

Joins ==
    {ts \in UNION {[1..k -> TableDom] : k \in 1..3} :
        \A i, j \in DOMAIN ts : ts[i].tid = ts[j].tid => ts[i] = ts[j]}

HandleInputs ==
    UNION {[tables : {ts}, mapOrder : SetToSeqs({ts[i].tid : i \in DOMAIN ts})] :
              ts \in Joins}

TotalCols(tables) == TableOffset(tables, Len(tables)) + NamesWidth(tables[Len(tables)])

Done == UNCHANGED <<algo, input>>

(* buildLimit (logical_plan_builder.go:713-740) builds a plan that returns *)
(* exactly the rows MySQL's LIMIT returns, for every child size up to the *)
(* largest uint64, and fails exactly when an argument is not a            *)
(* non-negative integer: the clamp keeps offset + count from wrapping to  *)
(* 0, which would make the plan an empty TableDual.                       *)
LimitMatchesReference ==
    algo = "limit" =>
    LET plan == BuildLimit(input) IN
    /\ (plan.kind = "error") <=> RefLimitError(input)
    /\ plan.kind # "error" =>
          \A n \in 0..MaxUint : LimitRows(plan, n) = RefLimitRows(input, n)

(* For every column of a DELETE over a join, FindHandle on the slice      *)
(* buildColumns2Handle builds (logical_plan_builder.go:1545-1588) gives  *)
(* the handle column of the table the column belongs to, whatever order   *)
(* the Go map of table ids is iterated in.                                 *)
HandleMatchesReference ==
    algo = "handle" =>
    \A ord \in 0..TotalCols(input.tables) - 1 :
        FindHandle(BuildColumns2Handle(input.tables, input.mapOrder), ord)
            = [handle |-> RefHandle(input.tables, ord), ok |-> TRUE]

(* Join conditions: a left schema of two columns and a right schema of    *)
(* one, every comparison over them and the constant, and every other      *)
(* expression by its columns (with a relaxed filter for a side only when  *)
(* it spans both sides, the only case in which the code asks for one).    *)
LeftSchema == {1, 2}
RightSchema == {3}
Cols == LeftSchema \cup RightSchema
Args == {0} \cup Cols

Comparisons ==
    {[fn |-> f, args |-> <<a, b>>, cols |-> {a, b} \ {0}, relax |-> {}] :
        f \in {"eq", "lt", "nulleq"}, a \in Args, b \in Args}

Spans(cs) == cs \cap LeftSchema # {} /\ cs \cap RightSchema # {}

OtherExprs ==
    UNION {{[fn |-> "other", args |-> <<0, 0>>, cols |-> cs, relax |-> rx] :
               rx \in IF Spans(cs) THEN SUBSET {"left", "right"} ELSE {{}}} :
           cs \in SUBSET Cols}

Conditions == Comparisons \cup OtherExprs

OnInputs ==
    [joinType : {"InnerJoin", "LeftOuterJoin", "RightOuterJoin"},
     conds : {<<c>> : c \in Conditions} \cup (Conditions \X Conditions),
     deriveLeft : BOOLEAN, deriveRight : BOOLEAN,
     notNull : SUBSET {1, 3}]

Rows == [Cols -> {NullValue, 0, 1}]

\* An equality with its left-schema column first.
Oriented(e) ==
    IF e.args[1] \in LeftSchema THEN e ELSE [e EXCEPT !.args = <<e.args[2], e.args[1]>>]

(* ExtractOnCondition (logical_plan_builder.go:182-302) loses no           *)
(* condition and invents none.  Every condition ends up as an equal        *)
(* condition (left column first), a left, right or other condition, or    *)
(* one of the join's own conditions; what goes to a side uses only that   *)
(* side's columns; and each condition it adds is implied: a NOT NULL      *)
(* filter only where the condition it came from is false or NULL whenever *)
(* that column is NULL, and a relaxed filter only where the code asks for *)
(* one.                                                                    *)
OnConditionsSound ==
    algo = "on" =>
    LET r == ExtractOnCondition(input.joinType, input.conds, LeftSchema,
                                RightSchema, input.deriveLeft,
                                input.deriveRight, input.notNull)
        ins == ToSet(input.conds)
        toLeft == ToSet(r.left) \cup ToSet(r.joinLeft)
        toRight == ToSet(r.right) \cup ToSet(r.joinRight)
        Implied(c) ==
            \E i \in ins : i.fn \in {"eq", "lt", "nulleq"}
                /\ \A row \in Rows : Holds(i, row) => Holds(c, row)
    IN
    /\ \A e \in ToSet(r.eq) :
          e.args[1] \in LeftSchema /\ e.args[2] \in RightSchema
          /\ \E i \in ins : i.fn = "eq" /\ Oriented(i) = e
    /\ \A c \in toLeft : c.cols \subseteq LeftSchema
    /\ \A c \in toRight : c.cols \subseteq RightSchema
    /\ \A i \in ins :
          \/ i \in ToSet(r.other) \cup toLeft \cup toRight
          \/ i.fn = "eq" /\ Oriented(i) \in ToSet(r.eq)
    /\ \A c \in (toLeft \cup toRight) \ ins :
          \/ c.fn = "notnull" /\ Implied(c)
             /\ (c.cols \subseteq LeftSchema => input.deriveLeft)
             /\ (c.cols \subseteq RightSchema => input.deriveRight)
          \/ c.fn = "relaxed"
             /\ \E i \in ins : c.relax \subseteq i.relax /\ Spans(i.cols)
             /\ ("left" \in c.relax => input.deriveLeft)
             /\ ("right" \in c.relax => input.deriveRight)

(* Propose: every request shape of up to two requests, and every ChangePeer *)
(* of peers 1..4 against the progress of a leader (peer 1, whose Match is  *)
(* its last index 2) with followers among 2 and 3, Match 0..2, and a       *)
(* truncated index 0..2.                                                   *)
ReqKinds == {"Get", "Snap", "Put", "Delete", "Invalid"}
NoChange == [type |-> "add", id |-> 0]
Changes  == [type : {"add", "remove"}, id : 1..4]

Progresses ==
    UNION {[{1} \cup S -> 0..2] : S \in SUBSET {2, 3}}

ProposeInputs ==
    {[req |-> [admin |-> "none", change |-> NoChange, reqs |-> rs], prs |-> [i \in {1} |-> 2], trunc |-> 0] :
        rs \in {<<>>} \cup {<<r>> : r \in ReqKinds} \cup (ReqKinds \X ReqKinds)}
    \cup {[req |-> [admin |-> a, change |-> NoChange, reqs |-> <<>>], prs |-> [i \in {1} |-> 2], trunc |-> 0] :
            a \in {"transferLeader", "compactLog"}}
    \cup {[req |-> [admin |-> "changePeer", change |-> ch, reqs |-> <<>>], prs |-> prs, trunc |-> t] :
            ch \in Changes, prs \in {p \in Progresses : p[1] = 2}, t \in 0..2}

(* What a conf change must keep, from the comments of countHealthyNode    *)
(* and checkConfChange (peer.go:549-576): after the change, a majority of *)
(* the group is healthy, a peer being healthy when it needs no snapshot   *)
(* (a new peer, with no log, only while nothing is truncated); a group of *)
(* one, and the removal of a peer that is not a member, are always safe.  *)
SafeChange(prs, trunc, ch) ==
    LET old == DOMAIN prs
        new == IF ch.type = "add" THEN old \cup {ch.id} ELSE old \ {ch.id}
        Healthy(i) == IF i \in old THEN prs[i] >= trunc ELSE trunc = 0
    IN  \/ Cardinality(old) <= 1
        \/ ch.type = "remove" /\ ch.id \notin old
        \/ 2 * Cardinality({i \in new : Healthy(i)}) > Cardinality(new)

ProposeReference(in) ==
    LET rs == ToSet(in.req.reqs)
        wellFormed == "Invalid" \notin rs /\ ~(rs \cap Reads # {} /\ rs \cap Writes # {})
    IN  CASE in.req.admin = "changePeer" ->
               IF SafeChange(in.prs, in.trunc, in.req.change) THEN "confChange" ELSE "rejected"
          [] in.req.admin = "transferLeader" -> "transferLeader"
          [] wellFormed -> "normal"
          [] OTHER -> "rejected"

(* Propose (peer.go:505-537, with inspect and checkConfChange) proposes a *)
(* request exactly when the reference does: no invalid request, no read   *)
(* mixed with a write (which the applier relies on: execNormalCmd panics  *)
(* on a mix), and no conf change after which fewer than a majority of the *)
(* group is healthy.  The one allowed difference: adding a peer that is   *)
(* already a member counts it with Match 0, which can only reject more.   *)
ProposeMatchesReference ==
    algo = "propose" =>
    LET out == Propose(input.req, input.prs, input.trunc)
        ref == ProposeReference(input)
        reAdd == input.req.admin = "changePeer" /\ input.req.change.type = "add"
                 /\ input.req.change.id \in DOMAIN input.prs
    IN  out = ref \/ (reAdd /\ out = "rejected")

(* Physical tasks over three rows: every order of the index column "a",   *)
(* two orders of "b" (one where a, b and the handle all differ), and the  *)
(* index lookup's batch of one, two or three handles.                     *)
TaskRows == 1..3
TaskData ==
    [a : SetToSeqs(TaskRows), b : {<<2, 3, 1>>, <<3, 1, 2>>}, batch : 1..3]

(* The cop tasks the scans start from: a table scan (index plan finished  *)
(* from the start), a covering index scan, and a double read whose index  *)
(* plan is or is not finished yet, each keeping order or not.  Nothing    *)
(* under src/ sets rootTaskConds, so none has them.                        *)
Scan(kind) == Node(Op(kind, "a", 0, 0), Nil)

CopTasks ==
    {CopTask(Nil, Scan("TableScan"), TRUE, k, FALSE, {}, FALSE) : k \in BOOLEAN}
    \cup {CopTask(Scan("IndexScan"), Nil, FALSE, k, FALSE, {"a", "b"}, FALSE) : k \in BOOLEAN}
    \cup {CopTask(Scan("IndexScan"), Scan("TableScan"), f, k, p, {"a"}, FALSE) :
            f \in BOOLEAN, k \in BOOLEAN, p \in BOOLEAN}

(* A LIMIT's count is at least 1 (buildLimit makes a TableDual of 0).     *)
Limits == {Op("Limit", "a", c, o) : c \in 1..2, o \in 0..1}
TopNs  == {Op("TopN", col, c, o) : col \in {"a", "b"}, c \in 1..2, o \in 0..1}
RootOps ==
    {Op("Sort", col, 0, 0) : col \in {"a", "b"}}
    \cup {Op("Selection", "b", 0, 0), Op("Projection", "a", 0, 0),
          Op("Limit", "a", 1, 1), Op("TopN", "b", 1, 0)}

(* What the operators return on the rows the scan produces: in index (or  *)
(* handle, for a table scan) order when the task keeps order, and in any  *)
(* order when it does not.                                                 *)
Sources(t, d) ==
    IF ~t.keepOrder THEN SetToSeqs(TaskRows)
    ELSE IF t.indexPlan = Nil THEN {TableOrder(d)} ELSE {IndexOrder(d)}

RefRows(ops, t, d) == {RunPlans(ops, s, d) : s \in Sources(t, d)}

LimitTaskInputs == [data : TaskData, task : CopTasks, p : Limits, next : RootOps]
TopNTaskInputs ==
    [data : TaskData, task : CopTasks, p : TopNs, push : BOOLEAN, next : RootOps]

(* PhysicalLimit.attach2Task (logical_plans.go:993-1012) may push a limit *)
(* of Offset + Count into the cop task, where it runs once per region and, *)
(* on the table side of a double read, once per batch of handles in       *)
(* handle order.  Whatever the task and whatever is attached above it, the *)
(* rows the finished plan returns are rows the LIMIT returns on the scan:  *)
(* the ones at offset + 1 .. offset + count of the index order when the    *)
(* task keeps order.                                                       *)
LimitPushDownSound ==
    algo = "limitTask" =>
    LET t == Attach(input.next, TRUE, AttachLimit(input.p, input.task))
    IN  RootRows(t, input.data) \in RefRows(<<input.p, input.next>>, input.task, input.data)

(* PhysicalTopN.attach2Task (logical_plans.go:1092-1114) pushes a TopN of  *)
(* Offset + Count to the index side when it orders by an index column,    *)
(* else to the table side, per region and per batch; the rows the plan    *)
(* returns are the TopN's rows of the scan, in its order.                 *)
TopNPushDownSound ==
    algo = "topnTask" =>
    LET t == Attach(input.next, TRUE, AttachTopN(input.p, input.push, input.task))
    IN  RootRows(t, input.data) \in RefRows(<<input.p, input.next>>, input.task, input.data)

(* Hash aggregation over three rows of a group column g and a value v,   *)
(* split into two regions or batches after row split (or not at all):    *)
(* one or two functions of count, sum, avg, max of v and firstrow of g or *)
(* v, grouped by g or not, pushable or not, on each kind of cop task.     *)
AggRows == {[k \in 1..3 |-> [g |-> gs[k], v |-> <<1, 0, 2>>[k]]] : gs \in {<<1, 2, 1>>, <<2, 2, 2>>}}
AggFuncs ==
    {AggFunc(n, <<"v">>, "complete") : n \in {"count", "sum", "avg", "max", "firstrow"}}
    \cup {AggFunc("firstrow", <<"g">>, "complete")}
AggPlans ==
    {HashAgg(fs, gby, [i \in DOMAIN fs |-> "out" \o ToString(i)]) :
        fs \in {<<f>> : f \in AggFuncs} \cup (AggFuncs \X AggFuncs),
        gby \in {<<>>, <<"g">>}}
AggTasks == {t \in CopTasks : ~t.keepOrder /\ ~t.doubleReadNeedProj}
AggInputs ==
    [rows : AggRows, split : 1..3, p : AggPlans, push : BOOLEAN, task : AggTasks]

(* The aggregation of all rows: one group per value of the group-by       *)
(* columns, each function over the group's rows.                          *)
RefAgg(p, rows) ==
    [key \in Keys(rows, p.gby) |->
        [i \in DOMAIN p.funcs |-> FuncOut(p.funcs[i], Group(rows, p.gby, key))]]

(* PhysicalHashAgg.attach2Task (logical_plans.go:1298-1341), with         *)
(* newPartialAggregate, BuildFinalModeAggregation,                        *)
(* RemoveUnnecessaryFirstRow and finishCopTask's splitCopAvg2CountAndSum, *)
(* returns what the aggregation returns on all rows, whatever the regions *)
(* or batches the coprocessor aggregates separately: every group, each    *)
(* count, sum, avg and max right, and each firstrow some value of its     *)
(* group.  The final functions read the partial rows by the partial      *)
(* schema, so each column of it must sit where the partial aggregation    *)
(* emits that value after firstrow columns are removed and avg is split.  *)
AggPushDownSound ==
    algo = "agg" =>
    LET out == AggResult(AttachHashAgg(input.p, input.push, input.task), input.rows, input.split)
        ref == RefAgg(input.p, input.rows)
    IN  /\ DOMAIN out = DOMAIN ref
        /\ \A key \in DOMAIN ref, i \in DOMAIN input.p.funcs :
              IF input.p.funcs[i].name = "firstrow"
              THEN out[key][i] \in {r[input.p.funcs[i].args[1]] :
                                      r \in ToSet(Group(input.rows, input.p.gby, key))}
              ELSE out[key][i] = ref[key][i]

Init ==
    \/ algo = "agg" /\ input \in AggInputs
    \/ algo = "limitTask" /\ input \in LimitTaskInputs
    \/ algo = "topnTask" /\ input \in TopNTaskInputs
    \/ algo = "propose" /\ input \in ProposeInputs
    \/ algo = "limit" /\ input \in LimitInputs
    \/ algo = "handle" /\ input \in HandleInputs
    \/ algo = "on" /\ input \in OnInputs

Spec == Init /\ [][Done]_<<algo, input>>
================================================================================
