-------------------------------- MODULE MCDatabase --------------------------------
(****************************************************************************)
(* The relational engine on two small tables, and the multi-version store.  *)
(* A behaviour of the engine first parses the text of one statement and     *)
(* then runs a session.  The store shares no state with the engine: `part`  *)
(* says which of the two runs.                                              *)
(****************************************************************************)
EXTENDS Database, Mvcc

Symmetry == Permutations(Txn) \cup Permutations(Key)

VARIABLES part,
          front,        \* <<statement>>, <<statement, what its text parses to>>, then <<>>
          allowed       \* then, the statements of the session

Id(n) == <<"id", n>>
Kw(k) == <<<<"id", k>>>>
Sep(seqs, tok) == FlattenSeq([i \in DOMAIN seqs |-> IF i = 1 THEN seqs[i] ELSE <<tok>> \o seqs[i]])
Name(c) == Sep([i \in DOMAIN c |-> <<Id(c[i])>>], <<".">>)
Names(cs) == Sep([i \in DOMAIN cs |-> Name(cs[i])], <<",">>)
Parens(ts) == <<<<"(">>>> \o ts \o <<<<")">>>>
Lit(v) == CASE v[1] = 0 -> <<<<"int", v[2]>>>> [] v[1] = 1 -> <<<<"text", v[2]>>>>
            [] v[1] = 2 -> <<<<"vector", v[2]>>>> [] v[1] = 3 -> Kw("null")

\* The text of statements, with no more parentheses than needed
RECURSIVE PrintExpr(_, _), PrintQuery(_)
Sub(q) == Parens(PrintQuery(q))
PrintExpr(x, level) ==
    LET Wrap(n, ts) == IF n < level THEN Parens(ts) ELSE ts
    IN  CASE x.e = "or"  -> Wrap(1, PrintExpr(x.l, 1) \o Kw("or") \o PrintExpr(x.r, 2))
          [] x.e = "and" -> Wrap(2, PrintExpr(x.l, 2) \o Kw("and") \o PrintExpr(x.r, 3))
          [] x.e = "not" -> Kw("not") \o PrintExpr(x.x, 3)
          [] x.e = "cmp" -> Name(x.column) \o <<<<"op", x.op>>>> \o Lit(x.value)
          [] x.e = "cmpcol" -> Name(x.left) \o <<<<"op", x.op>>>> \o Name(x.right)
          [] x.e = "isnull" -> Name(x.column) \o Kw("is") \o (IF x.negated THEN Kw("not") ELSE <<>>) \o Kw("null")
          [] x.e = "like" -> Name(x.column) \o Kw("like") \o <<<<"text", x.pattern>>>>
          [] x.e = "in" -> Name(x.column) \o Kw("in") \o Parens(Sep([i \in DOMAIN x.values |-> <<<<"int", x.values[i]>>>>], <<",">>))
          [] x.e = "between" -> Name(x.column) \o Kw("between") \o <<<<"int", x.low>>>> \o Kw("and") \o <<<<"int", x.high>>>>
          [] x.e = "exists" -> Kw("exists") \o Sub(x.query)
          [] x.e = "insub" -> Name(x.column) \o Kw("in") \o Sub(x.query)
          [] x.e = "scalar" -> Name(x.column) \o <<<<"op", x.op>>>> \o Sub(x.query)

PrintRef(r) ==
    IF r.kind = "subquery" THEN Sub(r.query) \o Kw("as") \o Name(r.alias[1])
    ELSE Name(r.name) \o (IF r.alias = <<>> THEN <<>> ELSE Kw("as") \o Name(r.alias[1]))

PrintItem(q, c) ==
    LET aggs == SelectSeq(q.aggregates, LAMBDA a : a.alias = c)
        arg == IF aggs[1].column = <<"*">> THEN <<<<"*">>>> ELSE Name(aggs[1].column)
    IN  IF aggs = <<>> THEN Name(c) ELSE Kw(aggs[1].func) \o Parens(arg) \o Kw("as") \o Name(c)

Opt(o, P(_)) == IF o = <<>> THEN <<>> ELSE P(o[1])

PrintQuery(q) ==
    (IF q.with_ctes = <<>> THEN <<>> ELSE
        Kw("with") \o Sep([i \in DOMAIN q.with_ctes |-> Name(q.with_ctes[i].name) \o Kw("as") \o Sub(q.with_ctes[i].query)], <<",">>))
    \o Kw("select")
    \o (IF q.star THEN <<<<"*">>>> ELSE Sep([i \in DOMAIN q.columns |-> PrintItem(q, q.columns[i])], <<",">>))
    \o Kw("from") \o PrintRef(q.table)
    \o FlattenSeq([i \in DOMAIN q.joins |-> Kw("join") \o PrintRef(q.joins[i].table) \o Kw("on")
                      \o Name(q.joins[i].left_col) \o <<<<"op", "=">>>> \o Name(q.joins[i].right_col)])
    \o Opt(q.filter, LAMBDA x : Kw("where") \o PrintExpr(x, 1))
    \o (IF q.group_by = <<>> THEN <<>> ELSE Kw("group") \o Kw("by") \o Names(q.group_by))
    \o Opt(q.having, LAMBDA x : Kw("having") \o PrintExpr(x, 1))
    \o (IF q.order_by = <<>> THEN <<>> ELSE Kw("order") \o Kw("by") \o
          Sep([i \in DOMAIN q.order_by |-> Name(q.order_by[i].column) \o Kw(IF q.order_by[i].descending THEN "desc" ELSE "asc")], <<",">>))
    \o Opt(q.order_by_cosine, LAMBDA o : Kw("order") \o Kw("by") \o Kw("cosine")
          \o Parens(Name(o.column) \o <<<<",">>, <<"?">>>>) \o Kw("limit") \o <<<<"int", o.k>>>>)
    \o Opt(q.limit, LAMBDA n : Kw("limit") \o <<<<"int", n>>>>)

PrintType(t) == IF t = "vector" THEN Kw("vector") \o <<<<"dim">>>> ELSE Kw(t)
PrintDef(c) == Name(c.name) \o PrintType(c.ctype)

Print_(st) ==
    CASE st.s = "select" -> PrintQuery(st.query)
      [] st.s = "insert" -> Kw("insert") \o Kw("into") \o Name(st.table)
            \o (IF st.columns = <<>> THEN <<>> ELSE Parens(Names(st.columns)))
            \o Kw("values") \o Parens(Sep([i \in DOMAIN st.values |-> Lit(st.values[i])], <<",">>))
      [] st.s = "update" -> Kw("update") \o Name(st.table) \o Kw("set")
            \o Sep([i \in DOMAIN st.assignments |-> Name(st.assignments[i].column) \o <<<<"op", "=">>>> \o Lit(st.assignments[i].value)], <<",">>)
            \o Opt(st.filter, LAMBDA x : Kw("where") \o PrintExpr(x, 1))
      [] st.s = "delete" -> Kw("delete") \o Kw("from") \o Name(st.table) \o Opt(st.filter, LAMBDA x : Kw("where") \o PrintExpr(x, 1))
      [] st.s = "create table" -> Kw("create") \o Kw("table") \o Name(st.table)
            \o Parens(Sep([i \in DOMAIN st.columns |-> PrintDef(st.columns[i])], <<",">>))
      [] st.s = "create view" -> Kw("create") \o Kw("view") \o Name(st.name) \o Kw("as") \o PrintQuery(st.query)
      [] st.s = "drop view" -> Kw("drop") \o Kw("view") \o Name(st.name)
      [] st.s = "alter table" -> Kw("alter") \o Kw("table") \o Name(st.table) \o Kw(st.op.op) \o Kw("column")
            \o (CASE st.op.op = "add" -> PrintDef(st.op.column) [] st.op.op = "drop" -> Name(st.op.name)
                  [] st.op.op = "rename" -> Name(st.op.old) \o Kw("to") \o Name(st.op.new))
      [] OTHER -> Kw(st.s)

--------------------------------------------------------------------------------
T == <<"t">>
U == <<"u">>
A == <<"a">>
B == <<"b">>
E == <<"e">>
ColId == <<"id">>
FromT == SelectFrom(Named(T, <<>>))
FromU == SelectFrom(Named(U, <<>>))
AEq(n) == Cmp(A, "=", Int_(n))
OneSub == FromU
Correlated == [FromU EXCEPT !.filter = <<CmpColumn(B, "=", <<"t", "a">>)>>]
OnlyB(q) == [q EXCEPT !.star = FALSE, !.columns = <<B>>]

Column(n, t) == [name |-> n, ctype |-> t]
InsertT(cols, vals) == [s |-> "insert", table |-> T, columns |-> cols, values |-> vals]

CreateT == [s |-> "create table", table |-> T, columns |-> <<Column(A, "int"), Column(E, "vector")>>]
InsertVector == InsertT(<<A, E>>, <<Int_(1), Vector(<<1, 0>>)>>)
InsertNull == InsertT(<<A>>, <<Null>>)
UpdateNulls == [s |-> "update", table |-> T, filter |-> <<IsNull(A, FALSE)>>,
                assignments |-> <<[column |-> A, value |-> Int_(2)], [column |-> E, value |-> Vector(<<0, 1>>)]>>]
DeleteOnes == [s |-> "delete", table |-> T, filter |-> <<AEq(1)>>]
AlterT(op) == [s |-> "alter table", table |-> T, op |-> op]
Transactions == {[s |-> "begin"], [s |-> "commit"], [s |-> "rollback"]}

\* What a session may send: writes to two tables, column operations, or views
Sessions ==
    {Transactions \cup
     {CreateT, [s |-> "create table", table |-> U, columns |-> <<Column(B, "int")>>],
      InsertVector, InsertNull,
      [s |-> "insert", table |-> U, columns |-> <<>>, values |-> <<Int_(7), Int_(1)>>],
      UpdateNulls,
      [s |-> "update", table |-> T, assignments |-> <<[column |-> E, value |-> Null]>>, filter |-> <<InSubquery(A, OnlyB(FromU))>>]},
     Transactions \cup
     {CreateT, InsertVector, UpdateNulls, DeleteOnes,
      AlterT([op |-> "add", column |-> Column(<<"c">>, "text")]), AlterT([op |-> "drop", name |-> <<"c">>]),
      AlterT([op |-> "rename", old |-> E, new |-> <<"f">>])},
     {CreateT, InsertVector, InsertT(<<A, A>>, <<Int_(1), Text(<<97>>)>>), InsertNull, DeleteOnes, [s |-> "delete", table |-> T, filter |-> <<>>],
      [s |-> "create view", name |-> <<"v">>, query |-> [FromT EXCEPT !.filter = <<AEq(2)>>]],
      [s |-> "drop view", name |-> <<"v">>]}}

MCMaxRows == T :> 3 @@ U :> 1

\* Predicates of two levels of connectives over every kind of leaf
Leaves == {AEq(1), Exists(Correlated), BetweenInt(A, 0, 1)}
Level1 == Leaves \cup {Not(x) : x \in Leaves} \cup {And(x, y) : x, y \in Leaves} \cup {Or(x, y) : x, y \in Leaves}
Level2 == Level1 \cup {Not(x) : x \in Level1}
              \cup UNION {{And(x, y), And(y, x), Or(x, y), Or(y, x)} : x \in Level1, y \in Leaves}

Sum == [alias |-> <<"s">>, func |-> "sum", column |-> A]
Count == [alias |-> <<"n">>, func |-> "count", column |-> <<"*">>]
Desc(c) == [column |-> c, descending |-> TRUE]
Asc(c) == [column |-> c, descending |-> FALSE]

\* The queries asked of every state
Queries ==
    {FromT,
     [FromT EXCEPT !.star = FALSE, !.columns = <<E, A>>, !.order_by = <<Desc(A), Asc(ColId)>>, !.limit = <<1>>],
     [FromT EXCEPT !.filter = <<Or(Cmp(A, ">", Int_(1)), IsNull(A, FALSE))>>, !.order_by = <<Desc(ColId)>>],
     [FromT EXCEPT !.filter = <<Not(InInt(A, <<2, 3>>))>>],
     [FromT EXCEPT !.filter = <<Like(A, <<37>>)>>],
     [FromT EXCEPT !.filter = <<Cmp(A, "=", Text(<<97>>))>>],
     [FromT EXCEPT !.star = FALSE, !.columns = <<A, <<"n">>, <<"s">>>>, !.group_by = <<A>>, !.aggregates = <<Count, Sum>>],
     [FromT EXCEPT !.star = FALSE, !.columns = <<<<"n">>>>, !.aggregates = <<Count>>],
     [FromT EXCEPT !.star = FALSE, !.columns = <<A, <<"n">>>>, !.group_by = <<A>>, !.aggregates = <<Count>>,
                   !.having = <<Cmp(<<"n">>, ">", Int_(1))>>]}

SubQueries ==
    {[FromT EXCEPT !.filter = <<And(And(AEq(1), Exists(Correlated)), InSubquery(A, OnlyB(FromU)))>>],
     [FromT EXCEPT !.filter = <<Or(AEq(1), Or(ScalarCmp(A, "<", OnlyB(FromU)), InSubquery(A, OnlyB(FromU))))>>],
     [FromT EXCEPT !.filter = <<And(Not(Exists([FromU EXCEPT !.filter = <<Cmp(B, "=", Int_(1))>>])),
                                    Exists([FromT EXCEPT !.filter = <<AEq(1)>>]))>>]}

\* Statements whose text is parsed: every predicate, and every clause
MixedQuery == [FromT EXCEPT !.filter = <<Or(And(AEq(1), Exists(FromU)), Exists([FromT EXCEPT !.filter = <<AEq(2)>>]))>>]

Texts ==
    UNION Sessions
    \cup {[s |-> "select", query |-> q] : q \in Queries \cup SubQueries \cup {MixedQuery}}
    \cup {[s |-> "select", query |-> [FromT EXCEPT !.filter = <<x>>]] : x \in Level2}
    \cup {[s |-> "select", query |-> q] : q \in {
            [FromT EXCEPT !.joins = <<[table |-> Named(U, <<<<"w">>>>), left_col |-> A, right_col |-> B]>>],
            [SelectFrom(Subquery([FromT EXCEPT !.filter = <<CmpColumn(A, "<=", <<"t", "id">>)>>], <<"w">>)) EXCEPT !.limit = <<3>>],
            [FromT EXCEPT !.with_ctes = <<[name |-> <<"w">>, query |-> FromU]>>, !.group_by = <<A, E>>],
            [FromT EXCEPT !.order_by_cosine = <<[column |-> E, k |-> 2]>>]}}

MCInit ==
    /\ DatabaseInit /\ Init /\ allowed = {}
    /\ \/ part = "sql" /\ front \in {<<st>> : st \in Texts}
       \/ part = "mvcc" /\ front = <<>>

\* parse_statement on the text of each statement
Parsed == [st \in Texts |-> ParseStatement(Print_(st))]

Parse ==
    /\ Len(front) = 1 /\ front' = Append(front, Parsed[front[1]])
    /\ UNCHANGED <<databaseVars, allowed>>
Start == Len(front) = 2 /\ front' = <<>> /\ allowed' \in Sessions /\ UNCHANGED databaseVars
Run == \E st \in allowed : Execute(st) /\ UNCHANGED <<front, allowed>>

MCNext ==
    /\ UNCHANGED part
    /\ \/ part = "sql" /\ (Parse \/ Start \/ Run) /\ UNCHANGED vars
       \/ part = "mvcc" /\ Next /\ UNCHANGED <<databaseVars, front, allowed>>

MCSpec == MCInit /\ [][MCNext]_<<part, databaseVars, front, allowed, vars>>

\* parse_statement is the inverse of writing a statement down: precedence and
\* grouping of NOT, AND and OR, subqueries inside predicates and sources, clauses
\* and their order all come back, so no statement runs as another one.
ParsesBack == Len(front) = 2 => front[2].ok /\ front[2].v = front[1]

\* A query of one table runs the same through Database::run_select, which
\* filters and aggregates before it plans, as through plan_select and
\* executor::execute, which do all of it in the plan; so the statement left to
\* the plan must have lost exactly the clauses already applied.
PathsAgree ==
    \A q \in Queries :
        T \in DOMAIN tables =>
            RunSelect(db, q, <<>>) = Then(ScanTable(db, T), LAMBDA scan : ExecutePlan(q, scan.columns, scan.rows))

\* The row estimate of plan_select, through any mix of connectives, never exceeds
\* the rows there are (GROUP BY is given one row at least) and is zero only if
\* there are none or LIMIT 0 is given.
EstimatesBounded ==
    Len(front) = 1 /\ front[1].s = "select" =>
        \A n \in {0, 1, 7, 100} :
            LET est == EstimatedRows(front[1].query, n)
            IN  est <= Max({n, 1}) /\ (n > 0 /\ front[1].query.limit # <<0>> => est > 0)

ViewBody == [FromT EXCEPT !.filter = <<AEq(2)>>]
Over(ref) == [SelectFrom(ref) EXCEPT !.filter = <<IsNull(A, TRUE)>>, !.order_by = <<Desc(ColId)>>]
JoinTU == [FromT EXCEPT !.joins = <<[table |-> Named(U, <<>>), left_col |-> A, right_col |-> B]>>]
\* A query of a view, of its text as a CTE and as a derived table; a join and EXISTS
SourceQueries ==
    <<Over(Named(<<"v">>, <<>>)),
      [Over(Named(<<"w">>, <<>>)) EXCEPT !.with_ctes = <<[name |-> <<"w">>, query |-> ViewBody]>>],
      [SelectFrom(Subquery([ViewBody EXCEPT !.order_by = <<Desc(ColId)>>], <<"v">>)) EXCEPT
          !.filter = <<IsNull(<<"v", "a">>, TRUE)>>],
      JoinTU,
      [FromT EXCEPT !.filter = <<Exists(Correlated)>>]>>

Agree(width, ans) ==
    /\ <<"v">> \in DOMAIN views =>
          /\ ans[1] = ans[2] /\ ans[1].ok = ans[3].ok
          /\ ans[1].ok => ans[1].rows = ans[3].rows
    /\ U \in DOMAIN tables =>
          /\ ans[4].ok = ans[5].ok
          /\ ans[4].ok => [i \in DOMAIN ans[4].rows |-> SubSeq(ans[4].rows[i], 1, width)] = ans[5].rows

\* Where a query takes its rows from does not change them: resolve_table_ref
\* gives the same for a view, for its text as a CTE and, but for the names of
\* columns, as a derived table.  With one row in u, a join keeps the rows of t
\* that a correlated EXISTS keeps: the two find the columns of the other table
\* by different routes.
SourcesAgree ==
    T \in DOMAIN tables =>
        Agree(Len(tables[T].columns), [i \in DOMAIN SourceQueries |-> RunSelect(db, SourceQueries[i], <<>>)])

\* What a predicate means when every subquery has the cache entry made for it
RECURSIVE MeantWhere(_, _)
MeantRight(env, x, l) == IF l.v = (IF x.e = "and" THEN "t" ELSE "f") THEN MeantWhere(env, x.r) ELSE l
MeantWhere(env, x) ==
    CASE x.e \in {"and", "or"} -> MeantRight(env, x, MeantWhere(env, x.l))
      [] x.e = "not" -> Negated(MeantWhere(env, x.x))
      [] OTHER -> EvalWhere([env EXCEPT !.cache = BuildSubqueryCache(env.ctx, x, env.own.columns)], x, 0)

MeantRows(q) ==
    LET ctx == [db |-> db, params |-> <<>>, ctes |-> <<>>]
    IN  Then(ScanTable(db, T), LAMBDA scan :
            FilterRows(scan.columns, scan.rows, LAMBDA r :
                MeantWhere(Env(ctx, scan.columns, r, <<>>, ScopeOf(q, scan.columns), <<>>), q.filter[1]).v))

\* The counter of eval_where hands every subquery of a conjunction or of a
\* disjunction the cache entry build_subquery_cache made for it, whatever the
\* connectives skip.
SubqueriesKeepTheirEntries ==
    \A q \in SubQueries : T \in DOMAIN tables => RunSelect(db, q, <<>>) = MeantRows(q)

\* "matching the order used by build_subquery_cache and eval_where" (comment of
\* walk_subqueries): also when AND and OR are mixed.
EveryEntryInPlace == T \in DOMAIN tables => RunSelect(db, MixedQuery, <<>>) = MeantRows(MixedQuery)

Topk == [FromT EXCEPT !.order_by_cosine = <<[column |-> E, k |-> 1]>>]
Scores(rs) == [i \in DOMAIN rs.rows |-> Dot(rs.rows[i][Position(rs.columns, E)][2], <<1, 0>>)]

\* ORDER BY cosine answers from the index of a column with the scores that a scan
\* of the tree gives, however rows came, changed and went since the index was
\* built; unless the column was renamed away from its index.
IndexAnswersAsScan ==
    T \in DOMAIN tables /\ <<T, E>> \notin detached /\ T \notin mixed =>
        LET rs == RunSelect(db, Topk, <<<<1, 0>>>>)
            scan == RunSelect([db EXCEPT !.tables[T].indexes = <<>>], Topk, <<<<1, 0>>>>)
        IN  rs.ok = scan.ok /\ (rs.ok => Scores(rs) = Scores(scan))

\* Statements mean what they say: they parse back, and their plans have
\* estimates within bounds.
PlansSound == ParsesBack /\ EstimatesBounded

\* A query has one answer, whatever route it takes through the executor, the
\* sources, the subquery cache and the vector index.
AnswersAgree ==
    part = "sql" => PathsAgree /\ SourcesAgree /\ SubqueriesKeepTheirEntries /\ IndexAnswersAsScan
================================================================================
