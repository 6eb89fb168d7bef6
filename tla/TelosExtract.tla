------------------------------ MODULE TelosExtract ------------------------------
(****************************************************************************)
(* telos-ir/extract.rs: from a function, its contract and its body to the   *)
(* verification problems the solver is given.                               *)
(*                                                                          *)
(* An expression is a record: its kind k, what the kind needs, and its      *)
(* operands args.  The name of a variable or of a field before and after    *)
(* the call is a tuple of strings.  A call in a contract makes the          *)
(* extraction fail before the callee's ensures could be used, as does an    *)
(* aggregate; messages, spans and the pretty printer are left out.          *)
(****************************************************************************)
EXTENDS TelosSolver

Num(n)      == [k |-> "int", n |-> n, args |-> << >>]
Var(v)      == [k |-> "var", v |-> v, args |-> << >>]
Field(b, f) == [k |-> "field", b |-> b, f |-> f, args |-> << >>]
Old(e)      == [k |-> "old", args |-> <<e>>]
Neg(e)      == [k |-> "neg", args |-> <<e>>]
Bin(op, l, r)    == [k |-> "bin", op |-> op, args |-> <<l, r>>]
Index(e, i)      == [k |-> "index", args |-> <<e, i>>]
IfExpr(c, t, e)  == [k |-> "if", args |-> <<c, t, e>>]
MatchExpr(arms)  == [k |-> "match", args |-> arms]
Forall(v, lo, hi, body) == [k |-> "forall", v |-> v, args |-> <<lo, hi, body>>]
Call(f, args)    == [k |-> "call", f |-> f, args |-> args]

Ok(v) == [ok |-> TRUE, v |-> v]

Err == [ok |-> FALSE]

AndThen(r, F(_)) == IF r.ok THEN F(r.v) ELSE Err

Both(a, b, F(_, _)) == IF a.ok /\ b.ok THEN F(a.v, b.v) ELSE Err

\* All of a sequence of results, or an error
AllOk(rs) == IF \A i \in DOMAIN rs : rs[i].ok THEN Ok([i \in DOMAIN rs |-> rs[i].v]) ELSE Err

--------------------------------------------------------------------------------
FieldName(b, f, post) == IF post THEN <<b, f, "'">> ELSE <<b, f>>

VarName(v) == <<v>>

Relations == {"Eq", "Ne", "Lt", "Le", "Gt", "Ge"}

\* The parts of an expression that collect_fields and collect_vars see
RECURSIVE Leaves(_)
Leaves(e) ==
    IF e.k \in {"var", "field"} THEN {e}
    ELSE IF e.k = "forall" THEN {} ELSE UNION {Leaves(e.args[i]) : i \in DOMAIN e.args}

FieldsIn(e) == {<<x.b, x.f>> : x \in {y \in Leaves(e) : y.k = "field"}}

VarsIn(e) == {x.v : x \in {y \in Leaves(e) : y.k = "var"}}

\* A type's invariant, which names fields, for the binding of that type
RECURSIVE Instantiate(_, _)
Instantiate(e, base) ==
    IF e.k = "var" THEN Field(base, e.v)
    ELSE IF e.k \in {"neg", "bin"}
    THEN [e EXCEPT !.args = [i \in DOMAIN e.args |-> Instantiate(e.args[i], base)]]
    ELSE e

\* substitute_var, which does not look into an index, a call, an if or a match
RECURSIVE SubstituteVar(_, _, _)
SubstituteVar(e, v, by) ==
    IF e.k = "var" THEN IF e.v = v THEN by ELSE e
    ELSE IF e.k \in {"old", "neg", "bin", "forall"}
    THEN [e EXCEPT !.args = [i \in DOMAIN e.args |-> SubstituteVar(e.args[i], v, by)]]
    ELSE e

\* Rust's `/' on integers
Quot(a, b) ==
    LET q == (IF a < 0 THEN -a ELSE a) \div (IF b < 0 THEN -b ELSE b)
    IN  IF (a < 0) = (b < 0) THEN q ELSE -q

\* eval_const_expr
RECURSIVE EvalConst(_)
EvalConst(e) ==
    LET arg == [i \in DOMAIN e.args |-> EvalConst(e.args[i])]
    IN  CASE e.k = "int" -> Ok(e.n)
          [] e.k = "neg" -> AndThen(arg[1], LAMBDA x : Ok(-x))
          [] e.k = "bin" ->
                Both(arg[1], arg[2], LAMBDA x, y :
                    CASE e.op = "Add" -> Ok(x + y)
                      [] e.op = "Sub" -> Ok(x - y)
                      [] e.op = "Mul" -> Ok(x * y)
                      [] e.op = "Div" /\ y # 0 -> Ok(Quot(x, y))
                      [] OTHER -> Err)
          [] OTHER -> Err

--------------------------------------------------------------------------------
\* VarBounds: what the premises say of single names, on either side
NoBounds == [exact |-> TRUE]

\* collect_var_bounds: a premise with one name and a coefficient of 1 or -1
\* (but not -x = c) bounds that name.
CollectVarBounds(premises) ==
    LET single == {x \in premises : Cardinality(DOMAIN x.lin.terms) = 1}
        name(x) == CHOOSE v \in DOMAIN x.lin.terms : TRUE
        k(x)    == x.lin.terms[name(x)]
        of(v, s, rels) == {x \in single : name(x) = v /\ k(x) = s /\ x.rel \in rels}
        strict(x) == IF x.rel \in {"Lt", "Gt"} THEN 1 ELSE 0
        lows(v)  == {strict(x) - x.lin.constant : x \in of(v, 1, {"Ge", "Gt", "Eq"})}
                    \cup {x.lin.constant + strict(x) : x \in of(v, -1, {"Le", "Lt"})}
        highs(v) == {-x.lin.constant - strict(x) : x \in of(v, 1, {"Le", "Lt", "Eq"})}
                    \cup {x.lin.constant - strict(x) : x \in of(v, -1, {"Ge", "Gt"})}
        known == {name(x) : x \in single}
    IN  [exact |-> FALSE,
         low  |-> [v \in {w \in known : lows(w) # {}} |-> Max(lows(v))],
         high |-> [v \in {w \in known : highs(w) # {}} |-> Min(highs(v))]]

\* lookup_bounds: a name after the call has the bounds of the name before it
\* when it has none of its own
BoundedName(bounds, v) ==
    IF Len(v) = 3 /\ v \notin DOMAIN bounds.low \cup DOMAIN bounds.high
    THEN <<v[1], v[2]>> ELSE v

\* expr_var_name: the name of an operand that is only a name (else << >>)
ExprVarName(e, post) ==
    CASE e.k = "var"   -> VarName(e.v)
      [] e.k = "field" -> FieldName(e.b, e.f, post)
      [] OTHER         -> << >>

Exact(lin) == Ok([lin |-> lin, approx |-> FALSE])

\* A product of two names is the largest corner of their intervals
Product(a, b, post, bounds) ==
    LET na == ExprVarName(a, post)
        nb == ExprVarName(b, post)
        va == BoundedName(bounds, na)
        vb == BoundedName(bounds, nb)
        known == {v \in {va, vb} : v \in DOMAIN bounds.low /\ v \in DOMAIN bounds.high}
        corners == {x * y : x \in {bounds.low[va], bounds.high[va]},
                            y \in {bounds.low[vb], bounds.high[vb]}}
    IN  IF bounds.exact \/ na = << >> \/ nb = << >> THEN Err
        ELSE IF known # {va, vb} THEN Err
        ELSE Ok([lin |-> ConstantOnly(Max(corners)), approx |-> TRUE])

ScaleExact(lin, n) ==
    IF n # 0 /\ lin.constant % n = 0 /\ \A v \in DOMAIN lin.terms : lin.terms[v] % n = 0
    THEN Ok([terms |-> [v \in DOMAIN lin.terms |-> Quot(lin.terms[v], n)],
             constant |-> Quot(lin.constant, n)])
    ELSE Err

\* The linear form of a binary operation from those of its operands
Arith(e, x, y, post, bounds) ==
    LET l == e.args[1]
        r == e.args[2]
        both(lin) == Ok([lin |-> lin, approx |-> x.approx \/ y.approx])
    IN  CASE e.op = "Add" -> both(LinAdd(x.lin, y.lin))
          [] e.op = "Sub" -> both(LinSub(x.lin, y.lin))
          [] e.op = "Mul" /\ r.k = "int" -> both(LinScale(x.lin, r.n))
          [] e.op = "Mul" /\ r.k # "int" /\ l.k = "int" -> both(LinScale(y.lin, l.n))
          [] e.op = "Mul" /\ r.k # "int" /\ l.k # "int" -> Product(l, r, post, bounds)
          [] e.op = "Div" /\ r.k = "int" ->
                AndThen(ScaleExact(x.lin, r.n), LAMBDA lin : both(lin))
          [] OTHER -> Err

\* linearize_bounded; old(...) names the state before the call
RECURSIVE LinearizeBounded(_, _, _)
LinearizeBounded(e, post, bounds) ==
    LET arg == [i \in DOMAIN e.args |->
                   LinearizeBounded(e.args[i], post /\ e.k # "old", bounds)]
    IN  CASE e.k = "int"   -> Exact(ConstantOnly(e.n))
          [] e.k \in {"var", "field"} -> Exact(LinVar(ExprVarName(e, post)))
          [] e.k = "old"   -> arg[1]
          [] e.k = "neg"   -> AndThen(arg[1], LAMBDA x : Ok([x EXCEPT !.lin = LinNeg(@)]))
          [] e.k = "bin"   -> Both(arg[1], arg[2], LAMBDA x, y : Arith(e, x, y, post, bounds))
          [] e.k = "index" /\ e.args[2].k = "int" /\ e.args[1].k = "field" ->
                Exact(LinVar(FieldName(e.args[1].b, ToString(e.args[2].n), post)))
          [] e.k = "index" /\ e.args[2].k = "int" /\ e.args[1].k = "var" ->
                Exact(LinVar(FieldName(e.args[1].v, ToString(e.args[2].n), FALSE)))
          [] OTHER -> Err

\* linearize: no products of names
Linearize(e, post) == AndThen(LinearizeBounded(e, post, NoBounds), LAMBDA x : Ok(x.lin))

--------------------------------------------------------------------------------
\* combine_dnf: every branch of one with every branch of the other
CombineDnf(a, b) ==
    FlattenSeq([i \in DOMAIN a |-> [j \in DOMAIN b |-> a[i] \o b[j]]])

Comparison(e, post, bounds) ==
    Both(LinearizeBounded(e.args[1], post, bounds), LinearizeBounded(e.args[2], post, bounds),
         LAMBDA x, y : Ok([lin    |-> LinSub(x.lin, y.lin),
                           rel    |-> e.op,
                           approx |-> x.approx \/ y.approx]))

\* The instances of a forall over a constant range
Unrolled(e) ==
    Both(EvalConst(e.args[1]), EvalConst(e.args[2]), LAMBDA lo, hi :
        Ok([i \in 1..(IF lo < hi THEN hi - lo ELSE 0) |->
               SubstituteVar(e.args[3], e.v, Num(lo + i - 1))]))

\* A boolean expression as a disjunction of conjunctions: to_constraints_dnf
\* when bounds.exact, and to_constraints_bounded_dnf, which knows only
\* comparisons, && and ||, otherwise.  An if keeps its else branch without the
\* negated condition.
RECURSIVE Dnf(_, _, _)
Dnf(e, post, bounds) ==
    LET of(es)    == AllOk([i \in DOMAIN es |-> Dnf(es[i], post, bounds)])
        all(dnfs) == FoldLeft(CombineDnf, << << >> >>, dnfs)
    IN  CASE e.k = "bin" /\ e.op \in Relations ->
                AndThen(Comparison(e, post, bounds), LAMBDA c : Ok(<< <<c>> >>))
          [] e.k = "forall" /\ bounds.exact ->
                AndThen(Unrolled(e), LAMBDA es : AndThen(of(es), LAMBDA ds : Ok(all(ds))))
          [] \/ e.k = "bin" /\ e.op \in {"And", "Or"}
             \/ e.k \in {"if", "match"} /\ bounds.exact ->
                AndThen(of(e.args), LAMBDA ds :
                    CASE e.k = "bin" /\ e.op = "And" -> Ok(all(ds))
                      [] e.k = "if"    -> Ok(CombineDnf(ds[1], ds[2]) \o ds[3])
                      [] e.k = "match" -> Ok(IF ds = << >> THEN << << >> >> ELSE FlattenSeq(ds))
                      [] OTHER -> Ok(FlattenSeq(ds)))
          [] OTHER -> Err

\* to_constraints: one branch only
ToConstraints(e) ==
    AndThen(Dnf(e, FALSE, NoBounds), LAMBDA d : IF Len(d) = 1 THEN Ok(d[1]) ELSE Err)

\* to_constraints_bounded: comparisons and && only, of an invariant after the call
RECURSIVE HasOr(_)
HasOr(e) == e.k = "bin" /\ (e.op = "Or" \/ \E i \in DOMAIN e.args : HasOr(e.args[i]))

ToConstraintsBounded(e, bounds) ==
    IF HasOr(e) THEN Err ELSE AndThen(Dnf(e, TRUE, bounds), LAMBDA d : Ok(d[1]))

--------------------------------------------------------------------------------
\* Statements
Set(b, f, v)       == [target |-> Field(b, f), op |-> "Set", value |-> v]
Inc(b, f, v)       == [target |-> Field(b, f), op |-> "Add", value |-> v]
Dec(b, f, v)       == [target |-> Field(b, f), op |-> "Sub", value |-> v]
Mutate(assigns)    == [k |-> "mutate", assigns |-> assigns]
Assign(a)          == [k |-> "assign", assigns |-> <<a>>]
IfStmt(c, t, e)    == [k |-> "if", cond |-> c, arms |-> <<t, e>>]
MatchStmt(arms)    == [k |-> "match", arms |-> arms]
Let(v, e)          == [k |-> "let", v |-> v, value |-> e]
Return(e)          == [k |-> "return", value |-> e]

\* collect_body_referenced_fields: conditions are not looked at
RECURSIVE BodyFields(_)
BodyFields(body) ==
    UNION {CASE body[i].k \in {"mutate", "assign"} ->
                    UNION {FieldsIn(a.value) \cup FieldsIn(a.target) : a \in Range(body[i].assigns)}
             [] body[i].k \in {"if", "match"} ->
                    UNION {BodyFields(body[i].arms[j]) : j \in DOMAIN body[i].arms}
             [] OTHER -> {} : i \in DOMAIN body}

\* An increment as an assignment
AssignConstraint_Mut(a) ==
    IF a.target.k # "field" THEN Err
    ELSE AndThen(Linearize(a.value, FALSE), LAMBDA x :
            Ok(Constraint(LinSub(LinVar(FieldName(a.target.b, a.target.f, TRUE)), x), "Eq")))

\* assign_constraint: the field after the call from the state before it
AssignConstraint(a) ==
    IF a.target.k # "field" THEN Err
    ELSE LET post == LinVar(FieldName(a.target.b, a.target.f, TRUE))
             pre  == LinVar(FieldName(a.target.b, a.target.f, FALSE))
         IN  AndThen(Linearize(a.value, FALSE), LAMBDA x :
                Ok(Constraint(CASE a.op = "Set" -> LinSub(post, x)
                                [] a.op = "Add" -> LinSub(LinSub(post, pre), x)
                                [] a.op = "Sub" -> LinAdd(LinSub(post, pre), x), "Eq")))

NegateRelation(rel) ==
    CASE rel = "Eq" -> "Ne" [] rel = "Ne" -> "Eq" [] rel = "Le" -> "Gt"
      [] rel = "Lt" -> "Ge" [] rel = "Ge" -> "Lt" [] rel = "Gt" -> "Le"

EntryBranch == [premises |-> << >>, assigned |-> {}]

Extend(branches, cs, fields) ==
    [i \in DOMAIN branches |-> [premises |-> branches[i].premises \o cs,
                                assigned |-> branches[i].assigned \cup fields]]

\* The condition of an if in a body: one comparison
Condition(s) ==
    IF s.cond.k = "bin" /\ s.cond.op \in Relations
    THEN Comparison(s.cond, FALSE, NoBounds) ELSE Err

MutatingArm(s) ==
    \E arm \in Range(s.arms) : \E t \in Range(arm) : t.k \in {"mutate", "assign", "if", "match"}

\* process_body_stmts: an assignment extends every branch, an if splits it
RECURSIVE ProcessBody(_, _)
ProcessBody(stmts, branches) ==
    IF stmts = << >> THEN Ok(branches)
    ELSE LET s == Head(stmts)
             guarded(c, arm, rel) ==
                 ProcessBody(s.arms[arm],
                             Extend(branches, <<[c EXCEPT !.rel = rel]>>, {}))
             after ==
                 CASE s.k \in {"mutate", "assign"} ->
                         AndThen(AllOk([i \in DOMAIN s.assigns |-> AssignConstraint(s.assigns[i])]),
                                 LAMBDA cs : Ok(Extend(branches, cs,
                                     UNION {FieldsIn(a.target) : a \in Range(s.assigns)})))
                   [] s.k = "if" ->
                         AndThen(Condition(s), LAMBDA c :
                             Both(guarded(c, 1, c.rel), guarded(c, 2, NegateRelation(c.rel)),
                                  LAMBDA t, e : Ok(t \o e)))
                   [] s.k = "match" -> IF MutatingArm(s) THEN Err ELSE Ok(branches)
                   [] OTHER -> Ok(branches)
         IN  AndThen(after, LAMBDA bs : ProcessBody(Tail(stmts), bs))

--------------------------------------------------------------------------------
\* A function [params, requires, ensures, body] in a module whose invariants map
\* a type to what holds of its values.  Positive types bound their parameters.
TypeConstraints(func) ==
    LET ge(p) == Constraint(LinSub(LinVar(VarName(p.name)), ConstantOnly(1)), "Ge")
    IN  {ge(p) : p \in {q \in Range(func.params) : q.type = "PositiveInt"}}

\* What the invariants say of the function's parameters
Invariants(func, invariants) ==
    FlattenSeq([i \in DOMAIN func.params |->
        LET p == func.params[i]
        IN  IF p.type \notin DOMAIN invariants THEN << >>
            ELSE [j \in DOMAIN invariants[p.type] |-> Instantiate(invariants[p.type][j], p.name)]])

\* The fields that get a frame axiom when a branch does not assign them
Referenced(func, invariants) ==
    UNION {FieldsIn(e) : e \in Range(func.requires) \cup Range(func.ensures)}
    \cup BodyFields(func.body)
    \cup UNION {IF p.type \notin DOMAIN invariants THEN {}
                ELSE {<<p.name, f>> : f \in UNION {VarsIn(c) : c \in Range(invariants[p.type])}} :
                p \in Range(func.params)}

\* A field keeps its value although the branch assigns it
FrameAxioms_Mut(fields, assigned) ==
    {Constraint(LinSub(LinVar(FieldName(x[1], x[2], TRUE)),
                       LinVar(FieldName(x[1], x[2], FALSE))), "Eq") : x \in fields}

FrameAxioms(fields, assigned) ==
    {Constraint(LinSub(LinVar(FieldName(x[1], x[2], TRUE)),
                       LinVar(FieldName(x[1], x[2], FALSE))), "Eq") : x \in fields \ assigned}

\* One conclusion for every constraint of an ensures clause.  When the clause
\* has several branches, those of all its branches are one group.
EnsuresConclusions(d, i) ==
    LET cs     == FlattenSeq(d)
        approx == \E j \in DOMAIN cs : cs[j].approx
    IN  [j \in DOMAIN cs |-> Conclusion(cs[j], IF Len(d) = 1 THEN 0 ELSE i, approx)]

InvariantConclusions(cs) ==
    [j \in DOMAIN cs |-> Conclusion(cs[j], 0, \E h \in DOMAIN cs : cs[h].approx)]

\* The problem of one branch
Problem(func, invs, premises) ==
    LET bounds == CollectVarBounds(premises)
    IN  Both(AllOk([i \in DOMAIN func.ensures |-> Dnf(func.ensures[i], TRUE, bounds)]),
             AllOk([i \in DOMAIN invs |-> ToConstraintsBounded(invs[i], bounds)]),
             LAMBDA ds, cs :
                Ok([premises    |-> premises,
                    conclusions |-> FlattenSeq([i \in DOMAIN ds |-> EnsuresConclusions(ds[i], i)])
                                    \o FlattenSeq([i \in DOMAIN cs |-> InvariantConclusions(cs[i])])]))

\* build_problems: one for every branch of the requires clauses with every
\* branch of the body
BuildProblems(func, invariants) ==
    LET invs   == Invariants(func, invariants)
        fields == Referenced(func, invariants)
        frames(b) == Range(b.premises) \cup FrameAxioms(fields, b.assigned)
    IN  Both(AllOk([i \in DOMAIN func.requires |-> Dnf(func.requires[i], FALSE, NoBounds)]),
             AllOk([i \in DOMAIN invs |-> ToConstraints(invs[i])]),
             LAMBDA ds, cs :
                AndThen(ProcessBody(func.body, <<EntryBranch>>), LAMBDA branches :
                    LET entry == FoldLeft(CombineDnf, << << >> >>, ds)
                        always == TypeConstraints(func) \cup Range(FlattenSeq(cs))
                        pairs == FlattenSeq([i \in DOMAIN entry |-> [j \in DOMAIN branches |->
                                     Range(entry[i]) \cup always \cup frames(branches[j])]])
                    IN  AllOk([i \in DOMAIN pairs |-> Problem(func, invs, pairs[i])])))
================================================================================
