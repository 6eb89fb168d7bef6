----------------------------------- MODULE Sql -----------------------------------
(****************************************************************************)
(* The SQL front end of tpt-archon-relational: the statements and the       *)
(* recursive-descent parser that builds them, over the tokens of a          *)
(* statement.  A token is <<kind>> or <<kind, payload>>; keywords are       *)
(* identifiers, as in the lexer, and are written in lower case.  The name   *)
(* "t.a" of a column is the sequence <<"t", "a">>, a text the sequence of   *)
(* its bytes.  An optional part of a statement is a sequence of length at   *)
(* most one.                                                                *)
(****************************************************************************)
EXTENDS Integers, Sequences, SequencesExt

Aggregates == {"count", "sum", "avg", "min", "max"}

IsKw(s) ==
    s \in {"select", "insert", "update", "delete", "from", "where", "set", "order", "limit",
           "group", "having", "join", "on", "create", "view", "drop", "begin", "commit",
           "rollback", "not", "exists"}

\* Values and literals carry their tag first: Int 0, Text 1, Vector 2, Null 3
Int_(i) == <<0, i>>
Text(s) == <<1, s>>
Vector(v) == <<2, v>>
Null == <<3>>

Cmp(c, o, v) == [e |-> "cmp", column |-> c, op |-> o, value |-> v]
CmpColumn(l, o, r) == [e |-> "cmpcol", left |-> l, op |-> o, right |-> r]
IsNull(c, n) == [e |-> "isnull", column |-> c, negated |-> n]
Like(c, p) == [e |-> "like", column |-> c, pattern |-> p]
InInt(c, vs) == [e |-> "in", column |-> c, values |-> vs]
BetweenInt(c, l, h) == [e |-> "between", column |-> c, low |-> l, high |-> h]
And(l, r) == [e |-> "and", l |-> l, r |-> r]
Or(l, r) == [e |-> "or", l |-> l, r |-> r]
Not(x) == [e |-> "not", x |-> x]
Exists(q) == [e |-> "exists", query |-> q]
InSubquery(c, q) == [e |-> "insub", column |-> c, query |-> q]
ScalarCmp(c, o, q) == [e |-> "scalar", column |-> c, op |-> o, query |-> q]
Agg(f, c) == [e |-> "agg", func |-> f, column |-> c]

Named(n, alias) == [kind |-> "named", name |-> n, alias |-> alias]
Subquery(q, alias) == [kind |-> "subquery", query |-> q, alias |-> <<alias>>]

\* TableRef::name
RefName(r) == IF r.alias # <<>> THEN r.alias[1] ELSE r.name

\* A SELECT with nothing but its source
SelectFrom(ref) ==
    [columns |-> <<>>, star |-> TRUE, table |-> ref, filter |-> <<>>, joins |-> <<>>,
     group_by |-> <<>>, aggregates |-> <<>>, order_by |-> <<>>, order_by_cosine |-> <<>>,
     limit |-> <<>>, having |-> <<>>, with_ctes |-> <<>>]

\* agg_default_alias: "count", or "sum(b)"
AggDefaultAlias(f, c) ==
    IF c = <<"*">> THEN <<f>> ELSE [c EXCEPT ![1] = f \o "(" \o @, ![Len(c)] = @ \o ")"]

--------------------------------------------------------------------------------
Ok(v, p) == [ok |-> TRUE, v |-> v, p |-> p]
Err == [ok |-> FALSE]

\* The ? of the code: go on with a result or fail with it
Then(r, F(_)) == IF r.ok THEN F(r) ELSE Err
Require(cond, r) == IF cond THEN r ELSE Err

\* What a parser reads next: the token at p, Tok::Eof past the end.  push_back is
\* to go on from p rather than p + 1.
TokAt(ts, p) == IF p <= Len(ts) THEN ts[p] ELSE <<"eof">>
Kind(ts, p) == TokAt(ts, p)[1]
KwAt(ts, p, k) == TokAt(ts, p) = <<"id", k>>

\* A sequence of fixed tokens
Expect(ts, p, toks) == \A i \in DOMAIN toks : TokAt(ts, p + i - 1) = toks[i]

RECURSIVE ExpectIdent(_, _)
ExpectIdent(ts, p) ==
    IF Kind(ts, p) # "id" THEN Err
    ELSE IF Kind(ts, p + 1) # "." THEN Ok(<<ts[p][2]>>, p + 1)
    ELSE Then(ExpectIdent(ts, p + 2), LAMBDA field : Ok(<<ts[p][2]>> \o field.v, field.p))

ParseLiteral(ts, p) ==
    CASE Kind(ts, p) = "int"    -> Ok(Int_(ts[p][2]), p + 1)
      [] Kind(ts, p) = "text"   -> Ok(Text(ts[p][2]), p + 1)
      [] Kind(ts, p) = "vector" -> Ok(Vector(ts[p][2]), p + 1)
      [] KwAt(ts, p, "null")    -> Ok(Null, p + 1)
      [] OTHER                  -> Err

\* The argument of an aggregate function whose name is at p
AggregateArg(ts, p) ==
    IF Expect(ts, p + 1, <<<<"(">>, <<"*">>, <<")">>>>) THEN Ok(<<"*">>, p + 4)
    ELSE Then(ExpectIdent(ts, p + 2), LAMBDA c :
            Require(Kind(ts, p + 1) = "(" /\ Kind(ts, c.p) = ")", Ok(c.v, c.p + 1)))

\* The column types; a VECTOR column may carry a dimension, which is ignored
ParseColumnType(ts, p) ==
    CASE KwAt(ts, p, "int") \/ KwAt(ts, p, "integer") -> Ok("int", p + 1)
      [] KwAt(ts, p, "text") -> Ok("text", p + 1)
      [] KwAt(ts, p, "vector") -> Ok("vector", IF Kind(ts, p + 1) = "dim" THEN p + 2 ELSE p + 1)
      [] OTHER -> Err

ParseColumnDef(ts, p) ==
    Then(ExpectIdent(ts, p), LAMBDA n :
    Then(ParseColumnType(ts, n.p), LAMBDA t : Ok([name |-> n.v, ctype |-> t.v], t.p)))

ParseAssignment(ts, p) ==
    Then(ExpectIdent(ts, p), LAMBDA c :
    Then(ParseLiteral(ts, c.p + 1), LAMBDA v :
        Require(TokAt(ts, c.p) = <<"op", "=">>, Ok([column |-> c.v, value |-> v.v], v.p))))

\* ORDER BY takes a bare column name, without a qualifier
ParseOrderBy(ts, p) ==
    IF Kind(ts, p) # "id" THEN Err
    ELSE Ok([column |-> <<ts[p][2]>>, descending |-> KwAt(ts, p + 1, "desc")],
            IF KwAt(ts, p + 1, "asc") \/ KwAt(ts, p + 1, "desc") THEN p + 2 ELSE p + 1)

\* One item of the projection: a column, or an aggregate under its alias.  An
\* alias given to a plain column takes the place of the column's name.
ParseAlias(ts, c, allowed) == IF allowed /\ KwAt(ts, c.p, "as") THEN ExpectIdent(ts, c.p + 1) ELSE c

ParseProjection(ts, p) ==
    IF Kind(ts, p) # "id" THEN Err
    ELSE IF ts[p][2] \in Aggregates /\ Kind(ts, p + 1) = "("
         THEN Then(AggregateArg(ts, p), LAMBDA arg :
              Then(ParseAlias(ts, Ok(<<ts[p][2]>>, arg.p), TRUE), LAMBDA al :
                  Ok([column |-> al.v, agg |-> <<[alias |-> al.v, func |-> ts[p][2], column |-> arg.v]>>], al.p)))
         ELSE Then(IF ts[p][2] \in Aggregates THEN Ok(<<ts[p][2]>>, p + 1) ELSE ExpectIdent(ts, p), LAMBDA c :
              Then(ParseAlias(ts, c, ts[p][2] \notin Aggregates), LAMBDA al : Ok([column |-> al.v, agg |-> <<>>], al.p)))

\* The loops over comma-separated items
ParseItem(item, ts, p) ==
    CASE item = "int"        -> Require(Kind(ts, p) = "int", Ok(TokAt(ts, p)[2], p + 1))
      [] item = "ident"      -> ExpectIdent(ts, p)
      [] item = "literal"    -> ParseLiteral(ts, p)
      [] item = "column"     -> ParseColumnDef(ts, p)
      [] item = "assignment" -> ParseAssignment(ts, p)
      [] item = "order"      -> ParseOrderBy(ts, p)
      [] item = "projection" -> ParseProjection(ts, p)

RECURSIVE ParseList(_, _, _)
ParseList(item, ts, p) ==
    Then(ParseItem(item, ts, p), LAMBDA h :
        IF Kind(ts, h.p) # "," THEN Ok(<<h.v>>, h.p)
        ELSE Then(ParseList(item, ts, h.p + 1), LAMBDA t : Ok(<<h.v>> \o t.v, t.p)))

--------------------------------------------------------------------------------
RECURSIVE ParseExpr(_, _), ParseNot(_, _), OrTail(_, _), AndTail(_, _),
          ParseSelectInner(_, _), ParseJoins(_, _), ParseClauses(_, _), ParseCtes(_, _)

\* A query in parentheses that starts at p, SELECT included
ParseParenthesised(ts, p) ==
    IF ~Expect(ts, p, <<<<"(">>, <<"id", "select">>>>) THEN Err
    ELSE Then(ParseSelectInner(ts, p + 2), LAMBDA q : Require(Kind(ts, q.p) = ")", Ok(q.v, q.p + 1)))

\* EXISTS, or IN or an operator after the column c, on the query at p + 1
ParseSubqueryExpr(ts, c, p) ==
    LET Of(q) == CASE KwAt(ts, p, "exists") -> Exists(q)
                   [] KwAt(ts, p, "in") -> InSubquery(c, q)
                   [] OTHER -> ScalarCmp(c, ts[p][2], q)
    IN  Then(ParseParenthesised(ts, p + 1), LAMBDA q : Ok(Of(q.v), q.p))

\* A comparison with an operator at p
ParseCmp(ts, c, p) ==
    CASE KwAt(ts, p + 1, "null") -> Require(ts[p][2] \in {"=", "<>"}, Ok(IsNull(c, ts[p][2] = "<>"), p + 2))
      [] Kind(ts, p + 1) = "int"  -> Ok(Cmp(c, ts[p][2], Int_(ts[p + 1][2])), p + 2)
      [] Kind(ts, p + 1) = "text" -> Ok(Cmp(c, ts[p][2], Text(ts[p + 1][2])), p + 2)
      [] Kind(ts, p + 1) = "id" /\ ~KwAt(ts, p + 1, "null") ->
            Then(ExpectIdent(ts, p + 1), LAMBDA r : Ok(CmpColumn(c, ts[p][2], r.v), r.p))
      [] OTHER -> Err

\* What follows the column c of a predicate
ParsePredicate(ts, c, p) ==
    CASE Expect(ts, p, <<<<"id", "is">>, <<"id", "null">>>>) -> Ok(IsNull(c, FALSE), p + 2)
      [] Expect(ts, p, <<<<"id", "is">>, <<"id", "not">>, <<"id", "null">>>>) -> Ok(IsNull(c, TRUE), p + 3)
      [] KwAt(ts, p, "like") /\ Kind(ts, p + 1) = "text" -> Ok(Like(c, ts[p + 1][2]), p + 2)
      [] /\ KwAt(ts, p, "between") /\ Kind(ts, p + 1) = "int"
         /\ KwAt(ts, p + 2, "and") /\ Kind(ts, p + 3) = "int" ->
            Ok(BetweenInt(c, ts[p + 1][2], ts[p + 3][2]), p + 4)
      [] Expect(ts, p, <<<<"id", "in">>, <<"(">>>>) /\ Kind(ts, p + 2) = "int" ->
            Then(ParseList("int", ts, p + 2), LAMBDA vs : Require(Kind(ts, vs.p) = ")", Ok(InInt(c, vs.v), vs.p + 1)))
      [] \/ Expect(ts, p, <<<<"id", "in">>, <<"(">>, <<"id", "select">>>>)
         \/ Kind(ts, p) = "op" /\ Kind(ts, p + 1) = "(" -> ParseSubqueryExpr(ts, c, p)
      [] Kind(ts, p) = "op" /\ Kind(ts, p + 1) # "(" -> ParseCmp(ts, c, p)
      [] OTHER -> Err

\* An aggregate alone, or compared with a literal
ParseAggregateExpr(ts, p) ==
    Then(AggregateArg(ts, p), LAMBDA arg :
        IF Kind(ts, arg.p) # "op" THEN Ok(Agg(ts[p][2], arg.v), arg.p)
        ELSE Then(ParseLiteral(ts, arg.p + 1), LAMBDA v :
                Ok(Cmp(AggDefaultAlias(ts[p][2], arg.v), ts[arg.p][2], v.v), v.p)))

ParsePrimaryExpr(ts, p) ==
    CASE KwAt(ts, p, "exists") -> ParseSubqueryExpr(ts, <<>>, p)
      [] Kind(ts, p) = "id" /\ ts[p][2] \in Aggregates -> ParseAggregateExpr(ts, p)
      [] Kind(ts, p) = "id" /\ ts[p][2] \notin Aggregates \cup {"exists"} ->
            Then(ExpectIdent(ts, p), LAMBDA c : IF IsKw(ts[p][2]) THEN Err ELSE ParsePredicate(ts, c.v, c.p))
      [] Kind(ts, p) = "(" ->
            Then(ParseExpr(ts, p + 1), LAMBDA x : Require(Kind(ts, x.p) = ")", Ok(x.v, x.p + 1)))
      [] OTHER -> Err

ParseNot(ts, p) ==
    IF KwAt(ts, p, "not") THEN Then(ParseNot(ts, p + 1), LAMBDA x : Ok(Not(x.v), x.p))
    ELSE ParsePrimaryExpr(ts, p)

AndTail(ts, l) ==
    IF ~l.ok \/ ~KwAt(ts, l.p, "and") THEN l
    ELSE Then(ParseNot(ts, l.p + 1), LAMBDA r : AndTail(ts, Ok(And(l.v, r.v), r.p)))

ParseAnd(ts, p) == AndTail(ts, ParseNot(ts, p))

OrTail(ts, l) ==
    IF ~l.ok \/ ~KwAt(ts, l.p, "or") THEN l
    ELSE Then(ParseAnd(ts, l.p + 1), LAMBDA r : OrTail(ts, Ok(Or(l.v, r.v), r.p)))

\* OR and AND bind alike, from the left
ParseExpr_Mut(ts, p) ==
    Then(ParseNot(ts, p), LAMBDA l :
        IF ~KwAt(ts, l.p, "and") THEN OrTail(ts, l)
        ELSE Then(ParseExpr(ts, l.p + 1), LAMBDA r : Ok(And(l.v, r.v), r.p)))

ParseExpr(ts, p) == OrTail(ts, ParseAnd(ts, p))

--------------------------------------------------------------------------------
ParseTableRef(ts, p) ==
    IF Kind(ts, p) = "("
    THEN Then(ParseParenthesised(ts, p), LAMBDA q :
         Then(ExpectIdent(ts, q.p + 1), LAMBDA al :
            Require(KwAt(ts, q.p, "as"), Ok(Subquery(q.v, al.v), al.p))))
    ELSE IF Kind(ts, p) # "id" THEN Err
    ELSE IF ~KwAt(ts, p + 1, "as") THEN Ok(Named(<<ts[p][2]>>, <<>>), p + 1)
    ELSE Then(ExpectIdent(ts, p + 2), LAMBDA al : Ok(Named(<<ts[p][2]>>, <<al.v>>), al.p))

\* The CTEs of a WITH clause
ParseCte(ts, p) ==
    Then(ExpectIdent(ts, p), LAMBDA n :
    Then(ParseParenthesised(ts, n.p + 1), LAMBDA q :
        Require(KwAt(ts, n.p, "as"), Ok([name |-> n.v, query |-> q.v], q.p))))

ParseCtes(ts, p) ==
    Then(ParseCte(ts, p), LAMBDA h :
        IF Kind(ts, h.p) # "," THEN Ok(<<h.v>>, h.p)
        ELSE Then(ParseCtes(ts, h.p + 1), LAMBDA t : Ok(<<h.v>> \o t.v, t.p)))

\* ON a = b
ParseOn(ts, p) ==
    Then(ExpectIdent(ts, p + 1), LAMBDA a :
    Then(ExpectIdent(ts, a.p + 1), LAMBDA b :
        Require(KwAt(ts, p, "on") /\ TokAt(ts, a.p) = <<"op", "=">>, Ok(<<a.v, b.v>>, b.p))))

ParseJoins(ts, s) ==
    IF ~s.ok \/ ~KwAt(ts, s.p, "join") THEN s
    ELSE Then(ParseTableRef(ts, s.p + 1), LAMBDA r :
         Then(ParseOn(ts, r.p), LAMBDA on :
            ParseJoins(ts, Ok([s.v EXCEPT !.joins =
                                 Append(@, [table |-> r.v, left_col |-> on.v[1], right_col |-> on.v[2]])], on.p))))

\* ORDER BY cosine(column, ?) LIMIT k
ParseCosine(ts, p) ==
    Then(ExpectIdent(ts, p + 4), LAMBDA c :
        Require(/\ KwAt(ts, p + 1, "by") /\ Kind(ts, p + 3) = "("
                /\ Expect(ts, c.p, <<<<",">>, <<"?">>, <<")">>, <<"id", "limit">>>>)
                /\ Kind(ts, c.p + 4) = "int",
                Ok([column |-> c.v, k |-> TokAt(ts, c.p + 4)[2]], c.p + 5)))

\* One of WHERE, GROUP BY, HAVING, ORDER BY and LIMIT, in any order; a second
\* WHERE, HAVING or LIMIT is refused, a second GROUP BY or ORDER BY adds to the first
ParseClause(ts, q, p) ==
    CASE KwAt(ts, p, "where") \/ KwAt(ts, p, "having") ->
            Then(ParseExpr(ts, p + 1), LAMBDA x :
                IF KwAt(ts, p, "where") THEN Require(q.filter = <<>>, Ok([q EXCEPT !.filter = <<x.v>>], x.p))
                ELSE Require(q.having = <<>>, Ok([q EXCEPT !.having = <<x.v>>], x.p)))
      [] KwAt(ts, p, "group") ->
            Then(ParseList("ident", ts, p + 2), LAMBDA g :
                Require(KwAt(ts, p + 1, "by"), Ok([q EXCEPT !.group_by = @ \o g.v], g.p)))
      [] KwAt(ts, p, "order") /\ ~KwAt(ts, p + 2, "cosine") ->
            Then(ParseList("order", ts, p + 2), LAMBDA o :
                Require(KwAt(ts, p + 1, "by"), Ok([q EXCEPT !.order_by = @ \o o.v], o.p)))
      [] KwAt(ts, p, "order") /\ KwAt(ts, p + 2, "cosine") ->
            Then(ParseCosine(ts, p), LAMBDA o : Ok([q EXCEPT !.order_by_cosine = <<o.v>>], o.p))
      [] KwAt(ts, p, "limit") ->
            IF q.limit = <<>> /\ Kind(ts, p + 1) = "int" /\ ts[p + 1][2] >= 0
            THEN Ok([q EXCEPT !.limit = <<ts[p + 1][2]>>], p + 2) ELSE Err

ParseClauses(ts, s) ==
    IF s.ok /\ \E k \in {"where", "having", "group", "order", "limit"} : KwAt(ts, s.p, k)
    THEN ParseClauses(ts, ParseClause(ts, s.v, s.p)) ELSE s

ParseSelectInner(ts, p) ==
    Then(IF Kind(ts, p) = "*" THEN Ok(<<>>, p + 1) ELSE ParseList("projection", ts, p), LAMBDA ps :
    Then(IF KwAt(ts, ps.p, "from") THEN ParseTableRef(ts, ps.p + 1) ELSE Err, LAMBDA from :
        ParseClauses(ts, ParseJoins(ts,
            Ok([SelectFrom(from.v) EXCEPT
                  !.star = Kind(ts, p) = "*",
                  !.columns = [i \in DOMAIN ps.v |-> ps.v[i].column],
                  !.aggregates = FlattenSeq([i \in DOMAIN ps.v |-> ps.v[i].agg])], from.p)))))

--------------------------------------------------------------------------------
\* The statement that ends here, unless tokens are left over
AtEof(ts, st, p) == Require(Kind(ts, p) = "eof", Ok(st, p))

\* An optional WHERE at the end of a statement
ParseWhere(ts, p) ==
    IF KwAt(ts, p, "where") THEN Then(ParseExpr(ts, p + 1), LAMBDA x : Ok(<<x.v>>, x.p)) ELSE Ok(<<>>, p)

ParseInsertColumns(ts, p) ==
    IF Kind(ts, p) # "(" THEN Ok(<<>>, p)
    ELSE Then(ParseList("ident", ts, p + 1), LAMBDA l : Require(Kind(ts, l.p) = ")", Ok(l.v, l.p + 1)))

ParseInsert(ts, p) ==
    Then(ExpectIdent(ts, p + 1), LAMBDA t :
    Then(ParseInsertColumns(ts, t.p), LAMBDA cs :
    Then(ParseList("literal", ts, cs.p + 2), LAMBDA vs :
        IF /\ KwAt(ts, p, "into") /\ Expect(ts, cs.p, <<<<"id", "values">>, <<"(">>>>)
           /\ Kind(ts, vs.p) = ")"
        THEN AtEof(ts, [s |-> "insert", table |-> t.v, columns |-> cs.v, values |-> vs.v], vs.p + 1) ELSE Err)))

ParseUpdate(ts, p) ==
    Then(ExpectIdent(ts, p), LAMBDA t :
    Then(ParseList("assignment", ts, t.p + 1), LAMBDA a :
    Then(ParseWhere(ts, a.p), LAMBDA w :
        IF KwAt(ts, t.p, "set")
        THEN AtEof(ts, [s |-> "update", table |-> t.v, assignments |-> a.v, filter |-> w.v], w.p) ELSE Err)))

\* The token after the table's name is consumed even when it is not WHERE
ParseDelete(ts, p) ==
    Then(ExpectIdent(ts, p + 1), LAMBDA t :
    Then(ParseWhere(ts, t.p), LAMBDA w :
        IF KwAt(ts, p, "from")
        THEN AtEof(ts, [s |-> "delete", table |-> t.v, filter |-> w.v], IF w.v = <<>> THEN t.p + 1 ELSE w.p) ELSE Err))

\* Nothing is read after the closing parenthesis
ParseCreateTable(ts, p) ==
    Then(ExpectIdent(ts, p + 1), LAMBDA t :
    Then(ParseList("column", ts, t.p + 1), LAMBDA cs :
        Require(KwAt(ts, p, "table") /\ Kind(ts, t.p) = "(" /\ Kind(ts, cs.p) = ")",
                Ok([s |-> "create table", table |-> t.v, columns |-> cs.v], cs.p + 1))))

ParseCreateView(ts, p) ==
    Then(ExpectIdent(ts, p), LAMBDA n :
        IF ~Expect(ts, n.p, <<<<"id", "as">>, <<"id", "select">>>>) THEN Err
        ELSE Then(ParseSelectInner(ts, n.p + 2), LAMBDA q :
                AtEof(ts, [s |-> "create view", name |-> n.v, query |-> q.v], q.p)))

\* After VECTOR without a dimension the lexer is put back before VECTOR
ParseAlterOp(ts, op, c) ==
    CASE op = "add" ->
            Then(ParseColumnType(ts, c.p), LAMBDA ty :
                Require(~KwAt(ts, c.p, "integer"),
                        Ok([op |-> "add", column |-> [name |-> c.v, ctype |-> ty.v]],
                           IF ty.v = "vector" /\ Kind(ts, c.p + 1) # "dim" THEN c.p ELSE ty.p)))
      [] op = "drop" -> Ok([op |-> "drop", name |-> c.v], c.p)
      [] op = "rename" ->
            Then(ExpectIdent(ts, c.p + 1), LAMBDA n :
                Require(KwAt(ts, c.p, "to"), Ok([op |-> "rename", old |-> c.v, new |-> n.v], n.p)))
      [] OTHER -> Err

ParseAlterTable(ts, p) ==
    Then(ExpectIdent(ts, p), LAMBDA t :
    Then(ExpectIdent(ts, t.p + 2), LAMBDA c :
        IF Kind(ts, t.p) # "id" \/ ~KwAt(ts, t.p + 1, "column") THEN Err
        ELSE Then(ParseAlterOp(ts, ts[t.p][2], c), LAMBDA o :
                AtEof(ts, [s |-> "alter table", table |-> t.v, op |-> o.v], o.p))))

\* A SELECT after its CTEs
ParseSelect(ts, ctes) ==
    IF ~KwAt(ts, ctes.p, "select") THEN Err
    ELSE Then(ParseSelectInner(ts, ctes.p + 1), LAMBDA q :
            AtEof(ts, [s |-> "select", query |-> [q.v EXCEPT !.with_ctes = ctes.v]], q.p))

ParseStatement(ts) ==
    CASE KwAt(ts, 1, "with") \/ KwAt(ts, 1, "select") ->
            Then(IF KwAt(ts, 1, "with") THEN ParseCtes(ts, 2) ELSE Ok(<<>>, 1), LAMBDA ctes : ParseSelect(ts, ctes))
      [] KwAt(ts, 1, "insert") -> ParseInsert(ts, 2)
      [] KwAt(ts, 1, "update") -> ParseUpdate(ts, 2)
      [] KwAt(ts, 1, "delete") -> ParseDelete(ts, 2)
      [] Expect(ts, 1, <<<<"id", "create">>, <<"id", "view">>>>) -> ParseCreateView(ts, 3)
      [] KwAt(ts, 1, "create") /\ ~KwAt(ts, 2, "view") -> ParseCreateTable(ts, 2)
      [] Expect(ts, 1, <<<<"id", "drop">>, <<"id", "view">>>>) ->
            Then(ExpectIdent(ts, 3), LAMBDA n : AtEof(ts, [s |-> "drop view", name |-> n.v], n.p))
      [] Expect(ts, 1, <<<<"id", "alter">>, <<"id", "table">>>>) -> ParseAlterTable(ts, 3)
      [] \E k \in {"begin", "commit", "rollback"} : KwAt(ts, 1, k) -> Ok([s |-> ts[1][2]], 2)
      [] OTHER -> Err
================================================================================
