---------------------------- MODULE PlanBuilder ----------------------------
(***************************************************************************)
(* Pure algorithms of the logical plan builder                             *)
(* (src/tinysql/planner/core/logical_plan_builder.go, logical_plans.go).   *)
(*                                                                         *)
(* The plan builder is sequential: each operator below is one function of  *)
(* the code, over abstract inputs (a column is a number, a table a record, *)
(* an AST node a record of its kind and value).  MCReferences checks each   *)
(* operator against a reference definition of what it must compute, for    *)
(* every input of a bounded set.                                            *)
(***************************************************************************)
EXTENDS Integers, Sequences, SequencesExt, TLC

CONSTANTS
    IntWidth   \* the bit width of uint64 and int64, scaled down

Word == 2^IntWidth
MaxUint == Word - 1
MinInt == -(2^(IntWidth - 1))
MaxInt == 2^(IntWidth - 1) - 1

MinOf(a, b) == IF a <= b THEN a ELSE b
MaxOf(a, b) == IF a >= b THEN a ELSE b

(***************************************************************************)
(* LIMIT                                                                   *)
(*                                                                         *)
(* An argument of LIMIT is an AST node: a ValueExpr holding a uint64, an   *)
(* int64 or a string, or anything else.  A string is represented by the   *)
(* value StrToUint parses from it, or NotANumber when it does not parse.   *)
(***************************************************************************)
NotANumber == -1
NoNode == [kind |-> "nil", val |-> 0]

Nodes ==
    {[kind |-> "uint", val |-> v] : v \in 0..MaxUint}
    \cup {[kind |-> "int", val |-> v] : v \in MinInt..MaxInt}
    \cup {[kind |-> "str", val |-> v] : v \in {NotANumber} \cup 0..MaxUint}
    \cup {[kind |-> "other", val |-> 0]}

\* getUintFromNode: the value, and whether the node has an expected type.
GetUintFromNode(n) ==
    CASE n.kind = "uint" -> [val |-> n.val, ok |-> TRUE]
      [] n.kind = "int" /\ n.val >= 0 -> [val |-> n.val, ok |-> TRUE]
      [] n.kind = "str" /\ n.val # NotANumber -> [val |-> n.val, ok |-> TRUE]
      [] OTHER -> [val |-> 0, ok |-> FALSE]

\* extractLimitCountOffset: an absent argument leaves its variable at 0.
ExtractLimitCountOffset(limit) ==
    LET c == IF limit.count = NoNode THEN [val |-> 0, ok |-> TRUE]
             ELSE GetUintFromNode(limit.count)
        o == IF limit.offset = NoNode THEN [val |-> 0, ok |-> TRUE]
             ELSE GetUintFromNode(limit.offset)
    IN  IF c.ok /\ o.ok THEN [count |-> c.val, offset |-> o.val, err |-> FALSE]
        ELSE [count |-> 0, offset |-> 0, err |-> TRUE]

ErrorPlan == [kind |-> "error", offset |-> 0, count |-> 0]

\* Mutant: buildLimit without the clamp of count to MaxUint64 - offset.
BuildLimitNoClamp(limit) ==
    LET r == ExtractLimitCountOffset(limit)
    IN  CASE r.err -> ErrorPlan
          [] (r.offset + r.count) % Word = 0 ->
                [kind |-> "dual", offset |-> 0, count |-> 0]
          [] OTHER -> [kind |-> "limit", offset |-> r.offset, count |-> r.count]

\* buildLimit: count is clamped so that offset + count cannot overflow;
\* LIMIT 0 OFFSET 0 becomes an empty TableDual.  The sum is a uint64 sum.
BuildLimit(limit) ==
    LET r == ExtractLimitCountOffset(limit)
        count == IF r.count > MaxUint - r.offset THEN MaxUint - r.offset
                 ELSE r.count
    IN  CASE r.err -> ErrorPlan
          [] (r.offset + count) % Word = 0 ->
                [kind |-> "dual", offset |-> 0, count |-> 0]
          [] OTHER -> [kind |-> "limit", offset |-> r.offset, count |-> count]

\* The rows a plan built by BuildLimit returns from a child of n rows:
\* LogicalLimit returns the rows [offset, offset + count).
LimitRows(plan, n) ==
    IF plan.kind = "dual" THEN 0
    ELSE MinOf(plan.count, MaxOf(0, n - plan.offset))

\* Reference: MySQL's LIMIT [offset,] count, over unbounded integers.  An
\* argument must be a non-negative integer; the result is the rows from
\* offset on, at most count of them.
IsNonNegative(n) ==
    \/ n.kind = "uint"
    \/ n.kind \in {"int", "str"} /\ n.val >= 0

RefLimitError(limit) ==
    \/ limit.count # NoNode /\ ~IsNonNegative(limit.count)
    \/ limit.offset # NoNode /\ ~IsNonNegative(limit.offset)

RefLimitRows(limit, n) ==
    LET count  == IF limit.count = NoNode THEN 0 ELSE limit.count.val
        offset == IF limit.offset = NoNode THEN 0 ELSE limit.offset.val
    IN  MinOf(count, MaxOf(0, n - offset))

(***************************************************************************)
(* Columns to handles, for DELETE over a join.                             *)
(*                                                                         *)
(* The output names of the join are its tables' columns, one table after  *)
(* another.  A table is [tid, cols, extra, pk]: its table id, its number   *)
(* of columns (tbl.Cols()), whether buildDataSource appended the extra    *)
(* handle column _tidb_rowid, and the position of its integer primary key *)
(* otherwise.  Two tables with the same tid are two aliases of one table  *)
(* (a self join).                                                          *)
(***************************************************************************)

\* The columns the table has in the names, and its handle column among them.
NamesWidth(t) == t.cols + (IF t.extra THEN 1 ELSE 0)
HandlePos(t) == IF t.extra THEN t.cols ELSE t.pk

\* The offset of the i-th table's first column.
RECURSIVE TableOffset(_, _)
TableOffset(tables, i) ==
    IF i = 1 THEN 0 ELSE TableOffset(tables, i - 1) + NamesWidth(tables[i - 1])

\* buildColumns2Handle: one TblColPosInfo per handle column, for each table
\* id in the order the Go map yields them, then sort.Sort by Start.  The
\* range [Start, End) spans tbl.Cols(), without the extra handle column.
Columns2HandleUnsorted(tables, mapOrder) ==
    FlattenSeq([k \in 1..Len(mapOrder) |->
        LET idx == SelectSeq([i \in 1..Len(tables) |-> i],
                             LAMBDA i : tables[i].tid = mapOrder[k])
        IN  [j \in 1..Len(idx) |->
                LET i == idx[j] IN
                [tid |-> tables[i].tid,
                 start |-> TableOffset(tables, i),
                 end |-> TableOffset(tables, i) + tables[i].cols,
                 handle |-> TableOffset(tables, i) + HandlePos(tables[i])]]])

BuildColumns2Handle(tables, mapOrder) ==
    SortSeq(Columns2HandleUnsorted(tables, mapOrder),
            LAMBDA a, b : a.start < b.start)

\* sort.Search(len(c), func(i) { c[i].Start > colOrdinal }) on [i, j): the
\* bisection of sort.Search, with FindHandle's predicate.
RECURSIVE SearchBehind(_, _, _, _)
SearchBehind(c, colOrdinal, i, j) ==
    IF i >= j THEN i
    ELSE LET h == (i + j) \div 2
         IN  IF ~(c[h + 1].start > colOrdinal)
             THEN SearchBehind(c, colOrdinal, h + 1, j)
             ELSE SearchBehind(c, colOrdinal, i, h)

\* FindHandle: the handle of the last range starting at or before the column.
FindHandle(c, colOrdinal) ==
    IF Len(c) = 0 THEN [handle |-> 0, ok |-> FALSE]
    ELSE LET behind == SearchBehind(c, colOrdinal, 0, Len(c))
         IN  IF behind = 0 THEN [handle |-> 0, ok |-> FALSE]
             ELSE [handle |-> c[behind].handle, ok |-> TRUE]

\* Reference: the handle of the table whose columns include the column.
RefHandle(tables, colOrdinal) ==
    LET i == CHOOSE i \in 1..Len(tables) :
                 TableOffset(tables, i) <= colOrdinal
                 /\ colOrdinal < TableOffset(tables, i) + NamesWidth(tables[i])
    IN  TableOffset(tables, i) + HandlePos(tables[i])

(***************************************************************************)
(* Join conditions                                                         *)
(*                                                                         *)
(* A column is a number; the left and right schemas are disjoint sets of   *)
(* them.  A condition is [fn, args, cols, relax]:                           *)
(*   - fn "eq", "lt" or "nulleq" with args <<a, b>>: a comparison, each     *)
(*     argument a column or the constant 0 (represented by 0);             *)
(*   - fn "other": any other expression; cols are its columns              *)
(*     (ExtractColumns) and relax the sides for which                      *)
(*     DeriveRelaxedFiltersFromDNF finds a relaxed filter.                 *)
(* Derived conditions are "notnull" of one column and "relaxed" filters.   *)
(***************************************************************************)
NullValue == -1   \* NULL, outside the values 0 and 1 a row holds

IsCol(a, schema) == a \in schema

\* isNullRejected on a two-column comparison: with the schema's columns
\* NULL, eq and lt evaluate to NULL; nulleq does not.
IsNullRejected(expr) == expr.fn \in {"eq", "lt"}

NotNullExpr(col) == [fn |-> "notnull", args |-> <<col, col>>, cols |-> {col}, relax |-> {}]

\* DeriveRelaxedFiltersFromDNF(expr, schema): a filter over the schema's
\* columns, or nil.
RelaxedExpr(expr, side, schema) ==
    [fn |-> "relaxed", args |-> <<0, 0>>, cols |-> expr.cols \cap schema, relax |-> {side}]

\* The result of ExtractOnCondition, and the join's LeftConditions and
\* RightConditions to which pushDownConstExpr also appends.
NoConds == [eq |-> <<>>, left |-> <<>>, right |-> <<>>, other |-> <<>>,
            joinLeft |-> <<>>, joinRight |-> <<>>]

\* pushDownConstExpr: a condition without columns.  A filter condition of
\* an outer join goes to the outer side and to the join's inner-side
\* conditions; an ON condition of an outer join only to the inner side.
PushDownConstExpr(joinType, acc, expr, filterCond) ==
    CASE joinType = "LeftOuterJoin" /\ filterCond ->
            [acc EXCEPT !.left = Append(@, expr), !.joinRight = Append(@, expr)]
      [] joinType = "LeftOuterJoin" ->
            [acc EXCEPT !.right = Append(@, expr)]
      [] joinType = "RightOuterJoin" /\ filterCond ->
            [acc EXCEPT !.right = Append(@, expr), !.joinLeft = Append(@, expr)]
      [] joinType = "RightOuterJoin" ->
            [acc EXCEPT !.left = Append(@, expr)]
      [] OTHER ->
            [acc EXCEPT !.left = Append(@, expr), !.right = Append(@, expr)]

\* The branch of ExtractOnCondition for expressions that are not an
\* equality between a left and a right column.
ClassifyGeneral(joinType, acc, expr, leftSchema, rightSchema, deriveLeft, deriveRight) ==
    CASE expr.cols = {} ->
            PushDownConstExpr(joinType, acc, expr, deriveLeft \/ deriveRight)
      [] expr.cols \subseteq rightSchema -> [acc EXCEPT !.right = Append(@, expr)]
      [] expr.cols \subseteq leftSchema -> [acc EXCEPT !.left = Append(@, expr)]
      [] OTHER ->
            LET l == IF deriveLeft /\ "left" \in expr.relax
                     THEN <<RelaxedExpr(expr, "left", leftSchema)>> ELSE <<>>
                r == IF deriveRight /\ "right" \in expr.relax
                     THEN <<RelaxedExpr(expr, "right", rightSchema)>> ELSE <<>>
            IN  [acc EXCEPT !.left = @ \o l, !.right = @ \o r,
                            !.other = Append(@, expr)]

\* Mutant: the NOT NULL filters derived without the isNullRejected test.
ExtractOneNoNullCheck(joinType, acc, expr, leftSchema, rightSchema, deriveLeft, deriveRight, notNull) ==
    LET a0 == expr.args[1]
        a1 == expr.args[2]
        straight == IsCol(a0, leftSchema) /\ IsCol(a1, rightSchema)
        swapped == IsCol(a1, leftSchema) /\ IsCol(a0, rightSchema)
        lc == IF straight THEN a0 ELSE a1
        rc == IF straight THEN a1 ELSE a0
    IN  IF expr.fn \in {"eq", "lt", "nulleq"} /\ (straight \/ swapped)
        THEN LET dl == IF deriveLeft /\ lc \notin notNull
                       THEN <<NotNullExpr(lc)>> ELSE <<>>
                 dr == IF deriveRight /\ rc \notin notNull
                       THEN <<NotNullExpr(rc)>> ELSE <<>>
                 acc2 == [acc EXCEPT !.left = @ \o dl, !.right = @ \o dr]
             IN  IF expr.fn = "eq"
                 THEN [acc2 EXCEPT !.eq = Append(@, [expr EXCEPT !.args = <<lc, rc>>])]
                 ELSE ClassifyGeneral(joinType, acc2, expr, leftSchema, rightSchema,
                                      deriveLeft, deriveRight)
        ELSE ClassifyGeneral(joinType, acc, expr, leftSchema, rightSchema,
                             deriveLeft, deriveRight)

\* One iteration of ExtractOnCondition's loop.  A comparison of a left and
\* a right column (in either order: the arguments are swapped) may derive
\* NOT NULL filters, and an equality becomes an equal condition with the
\* left column first; everything else is classified by its columns.
ExtractOne(joinType, acc, expr, leftSchema, rightSchema, deriveLeft, deriveRight, notNull) ==
    LET a0 == expr.args[1]
        a1 == expr.args[2]
        straight == IsCol(a0, leftSchema) /\ IsCol(a1, rightSchema)
        swapped == IsCol(a1, leftSchema) /\ IsCol(a0, rightSchema)
        lc == IF straight THEN a0 ELSE a1
        rc == IF straight THEN a1 ELSE a0
    IN  IF expr.fn \in {"eq", "lt", "nulleq"} /\ (straight \/ swapped)
        THEN LET dl == IF deriveLeft /\ IsNullRejected(expr) /\ lc \notin notNull
                       THEN <<NotNullExpr(lc)>> ELSE <<>>
                 dr == IF deriveRight /\ IsNullRejected(expr) /\ rc \notin notNull
                       THEN <<NotNullExpr(rc)>> ELSE <<>>
                 acc2 == [acc EXCEPT !.left = @ \o dl, !.right = @ \o dr]
             IN  IF expr.fn = "eq"
                 THEN [acc2 EXCEPT !.eq = Append(@, [expr EXCEPT !.args = <<lc, rc>>])]
                 ELSE ClassifyGeneral(joinType, acc2, expr, leftSchema, rightSchema,
                                      deriveLeft, deriveRight)
        ELSE ClassifyGeneral(joinType, acc, expr, leftSchema, rightSchema,
                             deriveLeft, deriveRight)

\* ExtractOnCondition: the loop over the conditions in CNF.
ExtractOnCondition(joinType, conditions, leftSchema, rightSchema, deriveLeft, deriveRight, notNull) ==
    FoldLeft(LAMBDA acc, expr :
                 ExtractOne(joinType, acc, expr, leftSchema, rightSchema,
                            deriveLeft, deriveRight, notNull),
             NoConds, conditions)

(***************************************************************************)
(* Reference semantics of comparisons, in SQL's three-valued logic, with   *)
(* the constant argument 0.                                                *)
(***************************************************************************)
ArgValue(a, row) == IF a = 0 THEN 0 ELSE row[a]

\* TRUE when the condition holds on the row; NULL and FALSE are not TRUE.
Holds(expr, row) ==
    LET x == ArgValue(expr.args[1], row)
        y == ArgValue(expr.args[2], row)
    IN  CASE expr.fn = "eq" -> x # NullValue /\ y # NullValue /\ x = y
          [] expr.fn = "lt" -> x # NullValue /\ y # NullValue /\ x < y
          [] expr.fn = "nulleq" -> x = y
          [] expr.fn = "notnull" -> x # NullValue

(***************************************************************************)
(* SELECT *                                                                *)
(*                                                                         *)
(* An output name of the plan is [db, tbl, col, extra]: extra marks the    *)
(* column whose ID is ExtraHandleID (_tidb_rowid).  A select field is      *)
(* [wild, schema, table, col]: a wildcard `schema.table.*` (with "" for an *)
(* omitted part), or, when wild is FALSE, the column col.                  *)
(***************************************************************************)
WildError == [err |-> TRUE, fields |-> <<>>]

\* The column field unfoldWildStar makes for an output name.
ColumnField(name) == [wild |-> FALSE, schema |-> name.db, table |-> name.tbl, col |-> name.col]

\* The inner loop of unfoldWildStar: the output names the wildcard matches,
\* skipping the extra handle column.
ExpandWild(names, field) ==
    LET match == SelectSeq(names, LAMBDA n :
                     (field.schema = "" \/ field.schema = n.db)
                     /\ (field.table = "" \/ field.table = n.tbl)
                     /\ ~n.extra)
    IN  [k \in 1..Len(match) |-> ColumnField(match[k])]

\* unfoldWildStar: an unqualified * is allowed only as the first field, and
\* a wildcard that matches no column is ErrBadTable.
UnfoldWildStar(names, fields) ==
    LET expand(k) == IF fields[k].wild THEN ExpandWild(names, fields[k])
                     ELSE <<fields[k]>>
        bad(k) == \/ fields[k].wild /\ fields[k].table = "" /\ k > 1
                  \/ fields[k].wild /\ expand(k) = <<>>
    IN  IF \E k \in 1..Len(fields) : bad(k) THEN WildError
        ELSE [err |-> FALSE, fields |-> FlattenSeq([k \in 1..Len(fields) |-> expand(k)])]

================================================================================
