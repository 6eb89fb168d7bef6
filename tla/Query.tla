---------------------------------- MODULE Query ----------------------------------
(****************************************************************************)
(* SELECT in tpt-archon-relational: Database::run_select, which resolves    *)
(* views, CTEs, joins and subqueries over the stored tables, and            *)
(* plan_select with executor::execute, which project, sort and limit what   *)
(* it leaves, and can run a whole statement over one table in memory.       *)
(*                                                                          *)
(* A database db has db.tables and db.views, functions of names.  A table   *)
(* holds its schema, the encoded rows of its tree by row id, the next row   *)
(* id and, while a transaction has touched it, the transaction's writes.    *)
(* The truth of a predicate is "t", "f" or "error": the Err of the code,    *)
(* whatever its kind.                                                       *)
(****************************************************************************)
EXTENDS Sql, FiniteSets, FiniteSetsExt

Rows(cols, rows) == [ok |-> TRUE, columns |-> cols, rows |-> rows]
Failed == Err

Truncate(rows, n) == SubSeq(rows, 1, Min({n, Len(rows)}))

\* Lexicographic order of byte strings
BytesLess(a, b) ==
    \/ Len(a) < Len(b) /\ IsPrefix(a, b)
    \/ \E i \in DOMAIN a \cap DOMAIN b : a[i] < b[i] /\ \A j \in 1 .. i - 1 : a[j] = b[j]

\* Value::cmp: Int < Text < Vector < Null, and by content within a kind
ValueLess(a, b) ==
    CASE a[1] # b[1] -> a[1] < b[1]
      [] a[1] = 0 /\ b[1] = 0 -> a[2] < b[2]
      [] a[1] = 1 /\ b[1] = 1 -> BytesLess(a[2], b[2])
      [] a[1] = 2 /\ b[1] = 2 -> Len(a[2]) < Len(b[2]) \/ (Len(a[2]) = Len(b[2]) /\ BytesLess(a[2], b[2]))
      [] OTHER -> FALSE

Truth(b) == IF b THEN "t" ELSE "f"

EvalCmp(op, less, equal) ==
    CASE op = "="  -> equal
      [] op = "<>" -> ~equal
      [] op = "<"  -> less
      [] op = "<=" -> less \/ equal
      [] op = ">"  -> ~less /\ ~equal
      [] op = ">=" -> ~less

\* Integers or texts compared; NULL makes it false, anything else is an error
Compare(op, a, b) ==
    IF a = Null \/ b = Null THEN "f"
    ELSE IF a[1] # b[1] \/ a[1] > 1 THEN "error"
    ELSE Truth(EvalCmp(op, ValueLess(a, b), a = b))

\* LIKE over bytes: % (37) is any sequence, _ (95) any one byte
RECURSIVE LikeRecurse(_, _)
LikeRecurse(text, pat) ==
    IF pat = <<>> THEN text = <<>>
    ELSE IF Head(pat) = 37 THEN \E i \in 0 .. Len(text) : LikeRecurse(SubSeq(text, i + 1, Len(text)), Tail(pat))
    ELSE /\ text # <<>> /\ Head(pat) \in {95, Head(text)}
         /\ LikeRecurse(Tail(text), Tail(pat))

\* A scope is the columns and the row of a query; scopes go from a query
\* outwards.  The first column that Is, of the first scope that has one.
Lookup(scopes, Is(_)) ==
    LET Value_(scope, i) == IF i = 0 THEN <<>> ELSE <<scope.row[i]>>
    IN  FlattenSeq([s \in DOMAIN scopes |-> Value_(scopes[s], SelectInSeq(scopes[s].columns, Is))])

\* The value of a name, in a sequence that is empty when the name is unknown:
\* an own column, a qualified outer one, or any of the same base name
FindValue(name, own, outer) ==
    Truncate(Lookup(<<own>>, LAMBDA c : c = name)
             \o Lookup(IF Len(name) > 1 THEN outer ELSE <<>>, LAMBDA c : c = name)
             \o Lookup(<<own>> \o outer, LAMBDA c : Last(c) = Last(name)), 1)

\* The columns a predicate without subqueries and connectives names
LeafColumns(x) ==
    CASE x.e = "cmpcol" -> <<x.left, x.right>>
      [] x.e = "agg" -> <<AggDefaultAlias(x.func, x.column)>>
      [] OTHER -> <<x.column>>

\* Such a predicate on the values l and r of its first and last column
TestLeaf(x, l, r) ==
    CASE x.e = "cmp"     -> Compare(x.op, l, x.value)
      [] x.e = "cmpcol"  -> Compare(x.op, l, r)
      [] x.e = "isnull"  -> Truth((l = Null) # x.negated)
      [] x.e = "like"    -> Truth(l[1] = 1 /\ LikeRecurse(l[2], x.pattern))
      [] x.e = "in"      -> Truth(l[1] = 0 /\ l[2] \in ToSet(x.values))
      [] x.e = "between" -> Truth(l[1] = 0 /\ x.low <= l[2] /\ l[2] <= x.high)
      [] x.e = "agg"     -> Truth(l # Null)

EvalLeaf(x, own, outer) ==
    LET Test(l, r) == IF l = <<>> \/ r = <<>> THEN "error" ELSE TestLeaf(x, l[1], r[1])
        Of(cols) == Test(FindValue(cols[1], own, outer), FindValue(Last(cols), own, outer))
    IN  Of(LeafColumns(x))

IsSubquery(x) == x.e \in {"exists", "insub", "scalar"}

\* eval_expr_scoped: && and || of the code stop at the first answer or error
RECURSIVE EvalExpr(_, _, _)
EvalExpr(x, own, outer) ==
    LET Right(l, goes) == IF l = goes THEN EvalExpr(x.r, own, outer) ELSE l
        Negated(v) == IF v = "error" THEN v ELSE Truth(v = "f")
    IN  CASE x.e = "and" -> Right(EvalExpr(x.l, own, outer), "t")
          [] x.e = "or"  -> Right(EvalExpr(x.l, own, outer), "f")
          [] x.e = "not" -> Negated(EvalExpr(x.x, own, outer))
          [] IsSubquery(x) -> "error"
          [] OTHER -> EvalLeaf(x, own, outer)

\* The rows a predicate keeps; an error on any row is the error of the whole
FilterRows(cols, rows, Holds(_)) ==
    LET Kept(truth) == IF \E i \in DOMAIN rows : truth[i] = "error" THEN Failed
                       ELSE Rows(cols, FlattenSeq([i \in DOMAIN rows |-> IF truth[i] = "t" THEN <<rows[i]>> ELSE <<>>]))
    IN  Kept([i \in DOMAIN rows |-> Holds(rows[i])])

--------------------------------------------------------------------------------
Position(cols, c) == SelectInSeq(cols, LAMBDA d : d = c)

\* The integers in a column of the rows; NULL and other kinds are skipped
Ints(rows, i) ==
    LET vs == SelectSeq([k \in DOMAIN rows |-> rows[k][i]], LAMBDA v : v[1] = 0)
    IN  [k \in DOMAIN vs |-> vs[k][2]]

\* i64 division truncates
TruncDiv(a, b) == IF a < 0 THEN -((-a) \div b) ELSE a \div b

EvalAggregate(f, cols, rows, c) ==
    LET Of(vals, sum) ==
            CASE f = "sum" -> sum
              [] f = "avg" -> IF vals = <<>> THEN 0 ELSE TruncDiv(sum, Len(vals))
              [] f = "min" -> IF vals = <<>> THEN 0 ELSE Min(ToSet(vals))
              [] f = "max" -> IF vals = <<>> THEN 0 ELSE Max(ToSet(vals))
        Ints_(vals) == Of(vals, FoldSeq(+, 0, vals))
    IN  Int_(IF f = "count" THEN Len(rows) ELSE Ints_(Ints(rows, Position(cols, c))))

\* Vec<Value> in lexicographic order, the order of the BTreeMap of groups
KeyLess(a, b) ==
    \E i \in DOMAIN a : ValueLess(a[i], b[i]) /\ \A j \in 1 .. i - 1 : a[j] = b[j]

\* by holds the positions of the grouping columns
AggregateTable(cols, rows, group_by, aggs) ==
    LET Out(rs) == [i \in DOMAIN aggs |-> EvalAggregate(aggs[i].func, cols, rs, aggs[i].column)]
        GroupKey(row, by) == [i \in DOMAIN by |-> row[by[i]]]
        Group(by, keys) == [k \in DOMAIN keys |-> keys[k] \o Out(SelectSeq(rows, LAMBDA r : GroupKey(r, by) = keys[k]))]
        Table(by) ==
            IF group_by = <<>> THEN <<Out(rows)>>
            ELSE Group(by, SetToSortSeq({GroupKey(rows[k], by) : k \in DOMAIN rows}, KeyLess))
        Checked(by, known) ==
            IF Contains(by, 0) \/ (~known /\ (group_by = <<>> \/ rows # <<>>)) THEN Failed
            ELSE Rows(group_by \o [i \in DOMAIN aggs |-> aggs[i].alias], Table(by))
    IN  Checked([i \in DOMAIN group_by |-> Position(cols, group_by[i])],
                \A i \in DOMAIN aggs : aggs[i].func = "count" \/ Position(cols, aggs[i].column) # 0)

\* sort_by is stable.  A sort column that the projection has dropped stands
\* for the first column.
SortRows(cols, rows, order) ==
    LET at == [i \in DOMAIN order |-> Max({1, Position(cols, order[i].column)})]
        Less(a, b) == \E i \in DOMAIN order :
                         /\ IF order[i].descending THEN ValueLess(b[at[i]], a[at[i]]) ELSE ValueLess(a[at[i]], b[at[i]])
                         /\ \A j \in 1 .. i - 1 : a[at[j]] = b[at[j]]
        before == [i \in DOMAIN rows |-> {j \in DOMAIN rows : Less(rows[j], rows[i]) \/ (j <= i /\ ~Less(rows[i], rows[j]))}]
    IN  [k \in DOMAIN rows |-> rows[CHOOSE i \in DOMAIN rows : Cardinality(before[i]) = k]]

ProjectRows(in, columns, star) ==
    LET at == [i \in DOMAIN columns |-> Position(in.columns, columns[i])]
    IN  IF star \/ columns = <<>> THEN in
        ELSE IF \E i \in DOMAIN at : at[i] = 0 THEN Failed
        ELSE Rows(columns, [k \in DOMAIN in.rows |-> [i \in DOMAIN at |-> in.rows[k][at[i]]]])

\* The nodes of a plan above its scan, from the inside out
PlanSelect(q) ==
    (IF q.filter = <<>> THEN <<>> ELSE <<[n |-> "filter", expr |-> q.filter[1]]>>)
    \o (IF q.group_by = <<>> /\ q.aggregates = <<>> THEN <<>> ELSE <<[n |-> "aggregate"]>>)
    \o <<[n |-> "project"]>>
    \o (IF q.order_by = <<>> THEN <<>> ELSE <<[n |-> "sort"]>>)
    \o (IF q.limit = <<>> THEN <<>> ELSE <<[n |-> "limit"]>>)

\* One node over the result of its input.  An error in HAVING drops the row.
ExecuteNode(q, in, node) ==
    LET Holds(x, cols, r) == EvalExpr(x, [columns |-> cols, row |-> r], <<>>)
        Having(agg) == IF ~agg.ok \/ q.having = <<>> THEN agg
                       ELSE Rows(agg.columns, SelectSeq(agg.rows, LAMBDA r : Holds(q.having[1], agg.columns, r) = "t"))
    IN  IF ~in.ok THEN Failed
        ELSE CASE node.n = "filter" -> FilterRows(in.columns, in.rows, LAMBDA r : Holds(node.expr, in.columns, r))
               [] node.n = "aggregate" -> Having(AggregateTable(in.columns, in.rows, q.group_by, q.aggregates))
               [] node.n = "project" -> ProjectRows(in, q.columns, q.star)
               [] node.n = "sort" -> Rows(in.columns, SortRows(in.columns, in.rows, q.order_by))
               [] node.n = "limit" -> Rows(in.columns, Truncate(in.rows, q.limit[1]))

\* executor::execute of the plan of q over a table in memory
ExecutePlan(q, cols, rows) ==
    FoldLeft(LAMBDA in, node : ExecuteNode(q, in, node), Rows(cols, rows), PlanSelect(q))

--------------------------------------------------------------------------------
\* selectivity and the row estimate of plan_select, as <<numerator, denominator>>
RECURSIVE Selectivity(_)
Selectivity(x) ==
    CASE x.e = "cmp" -> IF x.op = "=" THEN <<1, 10>> ELSE IF x.op = "<>" THEN <<9, 10>> ELSE <<1, 3>>
      [] x.e = "cmpcol" -> IF x.op = "=" THEN <<1, 10>> ELSE <<1, 3>>
      [] x.e = "isnull" -> IF x.negated THEN <<19, 20>> ELSE <<1, 20>>
      [] x.e = "like" -> <<1, 5>>
      [] x.e = "in" -> <<Max({Len(x.values), 1}), 100>>
      [] x.e = "and" -> LET l == Selectivity(x.l) r == Selectivity(x.r) IN <<Max({l[1] * r[1], 1}), l[2] * r[2]>>
      [] x.e = "or" -> LET l == Selectivity(x.l)
                           r == Selectivity(x.r)
                           num == l[1] * r[2] + r[1] * l[2] - l[1] * r[1]
                       IN  IF num >= l[2] * r[2] THEN <<1, 1>> ELSE <<Max({num, 1}), l[2] * r[2]>>
      [] x.e = "not" -> LET s == Selectivity(x.x) IN <<Max({s[2] - s[1], 1}), s[2]>>
      [] OTHER -> <<1, 3>>

\* Rounded down
DivCeil_Mut(a, b) == a \div b

DivCeil(a, b) == (a + b - 1) \div b

EstimatedRows(q, row_count) ==
    LET s == Selectivity(q.filter[1])
        kept == IF q.filter = <<>> THEN row_count ELSE DivCeil(row_count * s[1], s[2])
        grouped == IF q.group_by = <<>> THEN kept ELSE Max({DivCeil(kept, 10), 1})
    IN  IF q.limit = <<>> THEN grouped ELSE Min({grouped, q.limit[1]})

--------------------------------------------------------------------------------
\* The row codec: the number of values, then each with its tag and, for texts
\* and vectors, its length.  One cell stands for the bytes of a number.
EncodeValue(v) ==
    CASE v[1] = 0 -> v
      [] v[1] \in {1, 2} -> <<v[1], Len(v[2])>> \o v[2]
      [] v[1] = 3 -> <<3>>

EncodeRow(row) == <<Len(row)>> \o FlattenSeq([i \in DOMAIN row |-> EncodeValue(row[i])])

RECURSIVE DecodeValues(_, _, _)
DecodeValues(bytes, pos, n) ==
    LET tag == bytes[pos]
        v == CASE tag = 0 -> Int_(bytes[pos + 1])
               [] tag \in {1, 2} -> <<tag, SubSeq(bytes, pos + 2, pos + 1 + bytes[pos + 1])>>
               [] tag = 3 -> Null
        next == CASE tag = 0 -> pos + 2 [] tag \in {1, 2} -> pos + 2 + bytes[pos + 1] [] tag = 3 -> pos + 1
    IN  IF n = 0 THEN <<>> ELSE <<v>> \o DecodeValues(bytes, next, n - 1)

TryDecodeRow(bytes) == DecodeValues(bytes, 2, bytes[1])

\* The encoded row of an id as the open transaction sees it, in a sequence; a
\* write of the transaction is <<>> for a tombstone
VisibleRow(t, id) ==
    IF t.txn # <<>> /\ id \in DOMAIN t.txn[1] THEN t.txn[1][id]
    ELSE IF id \in DOMAIN t.tree THEN <<t.tree[id]>> ELSE <<>>

\* The ids of the visible rows, in order
VisibleIds(t) == SelectSeq([i \in 1 .. t.next |-> i - 1], LAMBDA id : VisibleRow(t, id) # <<>>)

\* scan_table: the visible rows; a row of the wrong width is corrupt
ScanTable(db, name) ==
    LET Decoded(t, ids) == [k \in DOMAIN ids |-> TryDecodeRow(VisibleRow(t, ids[k])[1])]
        Source(cols, rows) == IF \A k \in DOMAIN rows : Len(rows[k]) = Len(cols) THEN Rows(cols, rows) ELSE Failed
        Scan(t) == Source(t.columns, Decoded(t, VisibleIds(t)))
    IN  IF name \in DOMAIN db.tables THEN Scan(db.tables[name]) ELSE Failed

--------------------------------------------------------------------------------
ColumnResolvesLocally(name, own) ==
    \/ Contains(own, name)
    \/ Len(name) = 1 /\ \E i \in DOMAIN own : Last(own[i]) = name[1]

\* The columns a subquery is taken to have, guessed from its parent's
ResolveQueryOwnColumns(q, parent) ==
    LET Requalify(ref, bare) ==
            LET base == IF ref.kind = "named" THEN ref.name ELSE RefName(ref)
                mine == SelectSeq(parent, LAMBDA c : IF Len(c) = 1 THEN bare ELSE <<c[1]>> \in {base, RefName(ref)})
            IN  [i \in DOMAIN mine |-> RefName(ref) \o (IF Len(mine[i]) = 1 THEN mine[i] ELSE Tail(mine[i]))]
        cols == (IF q.table.kind = "named" THEN Requalify(q.table, TRUE) ELSE parent)
                \o FlattenSeq([j \in DOMAIN q.joins |-> Requalify(q.joins[j].table, FALSE)])
    IN  IF cols = <<>> THEN parent ELSE cols

RECURSIVE ExprReferencesOuter(_, _)
ExprReferencesOuter(x, own) ==
    CASE x.e \in {"and", "or"} -> ExprReferencesOuter(x.l, own) \/ ExprReferencesOuter(x.r, own)
      [] x.e = "not" -> ExprReferencesOuter(x.x, own)
      [] x.e = "agg" -> FALSE
      [] IsSubquery(x) -> /\ x.query.filter # <<>>
                          /\ ExprReferencesOuter(x.query.filter[1], ResolveQueryOwnColumns(x.query, own))
      [] OTHER -> \E i \in DOMAIN LeafColumns(x) : ~ColumnResolvesLocally(LeafColumns(x)[i], own)

\* walk_subqueries: the subqueries of a predicate in the order of a DFS
RECURSIVE WalkSubqueries(_)

\* The right of a connective before the left
WalkSubqueries_Mut(x) ==
    CASE x.e \in {"and", "or"} -> WalkSubqueries(x.r) \o WalkSubqueries(x.l)
      [] x.e = "not" -> WalkSubqueries(x.x)
      [] IsSubquery(x) -> <<x>>
      [] OTHER -> <<>>

WalkSubqueries(x) ==
    CASE x.e \in {"and", "or"} -> WalkSubqueries(x.l) \o WalkSubqueries(x.r)
      [] x.e = "not" -> WalkSubqueries(x.x)
      [] IsSubquery(x) -> <<x>>
      [] OTHER -> <<>>

--------------------------------------------------------------------------------
\* The context of a query: its database, its ? parameters and the CTEs in scope
RECURSIVE RunSelectScoped(_, _, _)

RunSelect(db, q, params) == RunSelectScoped([db |-> db, params |-> params, ctes |-> <<>>], q, <<>>)

\* What the result of a subquery is to its predicate, <<>> when it does not fit.
\* The cache takes any first column for IN.
EntryOf(x, rs, cached) ==
    CASE ~rs.ok -> <<>>
      [] rs.ok /\ x.e = "exists" -> <<"exists", rs.rows # <<>>>>
      [] rs.ok /\ x.e = "insub" ->
            IF cached \/ Len(rs.columns) = 1 THEN <<"insub", {rs.rows[k][1] : k \in DOMAIN rs.rows}>> ELSE <<>>
      [] rs.ok /\ x.e = "scalar" ->
            IF Len(rs.rows) = 1 /\ Len(rs.columns) = 1 THEN <<"scalar", rs.rows[1][1]>> ELSE <<>>

\* A subquery that refers to no outer column runs once, outside every scope
CacheEntry(ctx, x, own) ==
    IF ExprReferencesOuter(x, own) THEN <<>> ELSE EntryOf(x, RunSelectScoped(ctx, x.query, <<>>), TRUE)

CacheEntries(ctx, subs, own) == [i \in DOMAIN subs |-> CacheEntry(ctx, subs[i], own)]
BuildSubqueryCache(ctx, x, own) == CacheEntries(ctx, WalkSubqueries(x), own)

\* Exists, In and Scalar of eval_where on the value of their column and their entry
SubqueryTruth(x, lhs, entry) ==
    CASE (x.e # "exists" /\ lhs = <<>>) \/ entry = <<>> -> "error"
      [] x.e = "exists" /\ entry # <<>> -> Truth(entry[2])
      [] x.e = "insub" /\ lhs # <<>> /\ entry # <<>> -> Truth(lhs[1] \in entry[2])
      [] x.e = "scalar" /\ lhs # <<>> /\ entry # <<>> ->
            Truth(/\ lhs[1] # Null /\ entry[2] # Null
                  /\ EvalCmp(x.op, ValueLess(lhs[1], entry[2]), lhs[1] = entry[2]))

\* A predicate is evaluated in env: the context, the columns and the row, the
\* scopes outside, the qualified columns and the cached subqueries.  A subquery
\* takes entry n + 1 of the cache if that is of its kind, else it is run.
EvalSubquery(env, x, n) ==
    SubqueryTruth(x,
        IF x.e = "exists" THEN <<>> ELSE FindValue(x.column, env.own, env.outer),
        IF n < Len(env.cache) /\ env.cache[n + 1] # <<>> /\ env.cache[n + 1][1] = x.e THEN env.cache[n + 1]
        ELSE EntryOf(x, RunSelectScoped(env.ctx, x.query, <<[columns |-> env.scope, row |-> env.own.row]>> \o env.outer), FALSE))

Negated(v) == IF v.v = "error" THEN v ELSE [v EXCEPT !.v = Truth(@ = "f")]

\* eval_where: the truth of x and the counter of subqueries after it.  What a
\* connective skips does not advance the counter.
RECURSIVE EvalWhere(_, _, _)
EvalRight(env, x, l) == IF l.v = (IF x.e = "and" THEN "t" ELSE "f") THEN EvalWhere(env, x.r, l.n) ELSE l
EvalWhere(env, x, n) ==
    CASE x.e \in {"and", "or"} -> EvalRight(env, x, EvalWhere(env, x.l, n))
      [] x.e = "not" -> Negated(EvalWhere(env, x.x, n))
      [] IsSubquery(x) -> [v |-> EvalSubquery(env, x, n), n |-> n + 1]
      [] OTHER -> [v |-> EvalLeaf(x, env.own, env.outer), n |-> n]

Env(ctx, cols, row, outer, scope, cache) ==
    [ctx |-> ctx, own |-> [columns |-> cols, row |-> row], outer |-> outer, scope |-> scope, cache |-> cache]

\* The rows an optional predicate keeps
FilterCached(ctx, x, cols, rows, outer, scope, cache) ==
    FilterRows(cols, rows, LAMBDA r : EvalWhere(Env(ctx, cols, r, outer, scope, cache), x, 0).v)
Where(ctx, filter, cols, rows, outer, scope) ==
    IF filter = <<>> THEN Rows(cols, rows)
    ELSE FilterCached(ctx, filter[1], cols, rows, outer, scope, BuildSubqueryCache(ctx, filter[1], cols))

\* A source: a CTE before a view before a table, or a query of its own
ResolveTableRef(ctx, r) ==
    LET Run(q) == RunSelectScoped([ctx EXCEPT !.params = <<>>], q, <<>>)
        ctes == SelectSeq(ctx.ctes, LAMBDA c : c.name = r.name)
    IN  IF r.kind = "subquery"
        THEN Then(Run(r.query), LAMBDA rs : Rows([k \in DOMAIN rs.columns |-> RefName(r) \o rs.columns[k]], rs.rows))
        ELSE IF ctes # <<>> THEN Run(ctes[1].query)
        ELSE IF r.name \in DOMAIN ctx.db.views THEN RunSelect(ctx.db, ctx.db.views[r.name], <<>>)
        ELSE ScanTable(ctx.db, r.name)

\* Columns are looked up on the other side of the join
JoinRows_Mut(left, right, join) ==
    LET l == Position(left.columns, join.left_col)
        r == Position(right.columns, join.right_col)
        hits == SelectSeq(left.rows, LAMBDA row : \E j \in DOMAIN right.rows : right.rows[j][1] = row[l])
    IN  IF l = 0 \/ r = 0 THEN Failed
        ELSE Rows(left.columns \o right.columns, [i \in DOMAIN hits |-> hits[i] \o right.rows[1]])

\* A nested-loop join of two sources
JoinRows(left, right, join) ==
    LET l == Position(left.columns, join.left_col)
        r == Position(right.columns, join.right_col)
        pairs == FlattenSeq([i \in DOMAIN left.rows |->
                    LET js == SelectSeq(right.rows, LAMBDA row : row[r] = left.rows[i][l])
                    IN  [j \in DOMAIN js |-> left.rows[i] \o js[j]]])
    IN  IF l = 0 \/ r = 0 THEN Failed
        ELSE Rows(left.columns \o [k \in DOMAIN right.columns |-> RefName(join.table) \o right.columns[k]], pairs)

\* The sources of a statement, joined from the left
SourceRows(ctx, q) ==
    FoldLeft(LAMBDA left, j : Then(left, LAMBDA l : Then(ResolveTableRef(ctx, j.table), LAMBDA r : JoinRows(l, r, j))),
             ResolveTableRef(ctx, q.table), q.joins)

\* select_references_table: FROM and JOIN only, not what they refer to in turn
SelectReferencesTable(q, name) ==
    \E r \in {q.table} \cup {q.joins[j].table : j \in DOMAIN q.joins} : r.kind = "named" /\ r.name = name

\* The CTEs of the statement shadow the outer ones of the same name
MergeCtes(outer, own) ==
    FoldLeft(LAMBDA acc, c : Append(SelectSeq(acc, LAMBDA d : d.name # c.name), c), outer, own)

CtesValid(db, ctes) ==
    \A i \in DOMAIN ctes : /\ ctes[i].name \notin DOMAIN db.views \cup DOMAIN db.tables
                            /\ ~SelectReferencesTable(ctes[i].query, ctes[i].name)

--------------------------------------------------------------------------------
\* dot: over the shorter of the two
Dot(a, b) == FoldSeq(+, 0, [i \in 1 .. Min({Len(a), Len(b)}) |-> a[i] * b[i]])

\* vector_topk: the k entries, each [v, row], of the greatest score, ties in order
VectorTopk(entries, query, k) ==
    LET score == [i \in DOMAIN entries |-> Dot(entries[i].v, query)]
        rank == [i \in DOMAIN entries |->
                   Cardinality({j \in DOMAIN entries : score[j] > score[i] \/ (score[j] = score[i] /\ j <= i)})]
    IN  Truncate([n \in DOMAIN entries |-> entries[CHOOSE i \in DOMAIN entries : rank[i] = n]], k)

\* The first entries of the index, unranked
CandidateIds_Mut(t, column, query, k) ==
    IF column \in DOMAIN t.indexes
    THEN LET hits == Truncate(t.indexes[column], k) IN [i \in DOMAIN hits |-> hits[i][1]]
    ELSE SelectSeq([i \in 1 .. t.next |-> i - 1], LAMBDA id : id \in DOMAIN t.tree)

\* The row ids run_vector_topk looks at: what a search of the index gives, four
\* times oversampled, or every id of the tree.  Neither sees buffered writes.
CandidateIds(t, column, query, k) ==
    LET idx == t.indexes[column]
        hits == VectorTopk([i \in DOMAIN idx |-> [v |-> idx[i][2], row |-> idx[i][1]]], query, 4 * k)
    IN  IF column \in DOMAIN t.indexes
        THEN SelectSeq([i \in DOMAIN hits |-> hits[i].row], LAMBDA id : id \in DOMAIN t.tree)
        ELSE SelectSeq([i \in 1 .. t.next |-> i - 1], LAMBDA id : id \in DOMAIN t.tree)

\* The candidates of a table as a source; every column must be there to decode
VectorSource(t, column, query, k) ==
    LET Decoded(ids) == [i \in DOMAIN ids |-> TryDecodeRow(t.tree[ids[i]])]
        Source(rows) == IF \A i \in DOMAIN rows : Len(rows[i]) = Len(t.columns) THEN Rows(t.columns, rows) ELSE Failed
    IN  IF \E i \in DOMAIN t.columns : t.columns[i] = column /\ t.types[i] = "vector"
        THEN Source(Decoded(CandidateIds(t, column, query, k))) ELSE Failed

\* ORDER BY cosine(column, ?) LIMIT k.  The rows are not projected, and neither
\* CTEs nor cached subqueries are in scope.
TopRows(q, kept, slot, query, k) ==
    LET vecs == SelectSeq(kept.rows, LAMBDA r : r[slot][1] = 2)
        top == VectorTopk([i \in DOMAIN vecs |-> [v |-> vecs[i][slot][2], row |-> vecs[i]]], query, k)
    IN  IF slot = 0 THEN Failed
        ELSE Rows(IF q.star \/ q.columns = <<>> THEN kept.columns ELSE q.columns, [i \in DOMAIN top |-> top[i].row])

FilterUncached(ctx, filter, src) ==
    IF filter = <<>> THEN src ELSE FilterCached(ctx, filter[1], src.columns, src.rows, <<>>, src.columns, <<>>)

RunVectorTopk(ctx, q, column, k) ==
    IF ctx.params = <<>> THEN Failed
    ELSE Then(Then(IF q.table.kind = "subquery" THEN ResolveTableRef(ctx, q.table)
                   ELSE IF q.table.name \notin DOMAIN ctx.db.tables THEN Failed
                   ELSE VectorSource(ctx.db.tables[q.table.name], column, ctx.params[1], k),
                   LAMBDA src : FilterUncached(ctx, q.filter, src)),
              LAMBDA kept : TopRows(q, kept, Position(kept.columns, column), ctx.params[1], k))

\* The aggregates stay with the plan
RestForPlan_Mut(q) == [q EXCEPT !.filter = <<>>, !.having = <<>>]

\* What is left for the plan after WHERE, GROUP BY and HAVING
RestForPlan(q) == [q EXCEPT !.filter = <<>>, !.group_by = <<>>, !.aggregates = <<>>, !.having = <<>>]

\* The steps after the sources: WHERE, GROUP BY, HAVING, and the plan
Aggregate(q, kept) == IF q.group_by = <<>> /\ q.aggregates = <<>> THEN kept
                      ELSE AggregateTable(kept.columns, kept.rows, q.group_by, q.aggregates)

ScopeOf(q, cols) == [i \in DOMAIN cols |-> IF Len(cols[i]) > 1 THEN cols[i] ELSE RefName(q.table) \o cols[i]]

RunClauses(ctx, q, outer, src) ==
    Then(Then(Then(Where(ctx, q.filter, src.columns, src.rows, outer, ScopeOf(q, src.columns)),
                   LAMBDA kept : Aggregate(q, kept)),
              LAMBDA agg : Where(ctx, q.having, agg.columns, agg.rows, outer, agg.columns)),
         LAMBDA had : ExecutePlan(RestForPlan(q), had.columns, had.rows))

RunSources(ctx, q, outer) == Then(SourceRows(ctx, q), LAMBDA src : RunClauses(ctx, q, outer, src))

RunSelectScoped(ctx0, q, outer) ==
    IF q.order_by_cosine # <<>>
    THEN RunVectorTopk([ctx0 EXCEPT !.ctes = <<>>], q, q.order_by_cosine[1].column, q.order_by_cosine[1].k)
    ELSE IF ~CtesValid(ctx0.db, q.with_ctes) THEN Failed
    ELSE RunSources([ctx0 EXCEPT !.ctes = MergeCtes(@, q.with_ctes)], q, outer)
================================================================================
