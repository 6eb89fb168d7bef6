------------------------------ MODULE EidosKernel ------------------------------
(****************************************************************************)
(* The typechecker of eidos (eidos-kernel) with the lemmas of the flight    *)
(* library (eidos-flight-math).                                             *)
(*                                                                          *)
(* An expression is a record: its kind k, what the kind needs, and its      *)
(* operands args (the receiver of a method is the first).  A report is the  *)
(* set of the obligations that were met, each with what it is about and     *)
(* its status; an "Error" is an entry of the list of errors alone.  Their   *)
(* wording is left out.                                                     *)
(****************************************************************************)
EXTENDS EidosSolver

Num(r)        == [k |-> "num", n |-> r, args |-> << >>]
Var(v)        == [k |-> "var", v |-> v, args |-> << >>]
Array(es)     == [k |-> "array", args |-> es]
Bin(op, a, b) == [k |-> "bin", op |-> op, args |-> <<a, b>>]
Un(op, a)     == [k |-> "un", op |-> op, args |-> <<a>>]
If(c, t, e)   == [k |-> "if", args |-> <<c, t, e>>]
Let(v, x, e)  == [k |-> "let", v |-> v, args |-> <<x, e>>]
Call(f, as)   == [k |-> "call", f |-> f, args |-> as]
Method(r, m, as)  == [k |-> "method", m |-> m, args |-> <<r>> \o as]
\* A pattern is the sequence of the names it binds
Lambda(ps, e)     == [k |-> "lambda", ps |-> ps, args |-> <<e>>]
Record(names, es) == [k |-> "record", names |-> names, args |-> es]
Cast(e, t)        == [k |-> "cast", t |-> t, args |-> <<e>>]
Return(e)         == [k |-> "return", args |-> <<e>>]

Base(n)             == [k |-> "Base", name |-> n]
Named(n)            == [k |-> "Named", name |-> n]
ArrayOf(t, n)       == [k |-> "Array", of |-> t, len |-> n]
Refine(b, t, pred)  == [k |-> "Refine", bind |-> b, of |-> t, pred |-> pred]

Comparisons == {"Gt", "Ge", "Lt", "Le", "Eq"}

MapArgs(e, F(_)) == [e EXCEPT !.args = [i \in DOMAIN e.args |-> F(e.args[i])]]

--------------------------------------------------------------------------------
\* expr_to_string, which names the atom of a magnitude: of a lambda it keeps
\* the parameters, of a record the fields, of a cast, a let or an if nothing.
RECURSIVE ExprToString(_)
ExprToString(e) ==
    LET parts == FlattenSeq([i \in DOMAIN e.args |-> ExprToString(e.args[i])])
    IN  CASE e.k = "num" -> <<ToString(e.n)>>
          [] e.k = "var" -> <<e.v>>
          [] e.k = "bin" -> <<"(">> \o parts \o <<e.op, ")">>
          [] e.k = "un" -> <<e.op>> \o parts
          [] e.k = "array" -> <<"[">> \o parts \o <<"]">>
          [] e.k = "call" -> <<e.f, "(">> \o parts \o <<")">>
          [] e.k = "method" -> parts \o <<".", e.m>>
          [] e.k = "lambda" -> <<"|">> \o FlattenSeq(e.ps) \o <<"|">>
          [] e.k = "record" -> <<"{">> \o e.names \o <<"}">>
          [] OTHER -> <<e.k>>

Magnitude(e) == e.k = "method" /\ e.m = "magnitude" /\ Len(e.args) = 1

\* linearize, with a magnitude as an opaque name
RECURSIVE Linearize(_)
Linearize(e) ==
    LET arg == [i \in DOMAIN e.args |-> Linearize(e.args[i])]
        both(F(_, _)) == AndThen(arg[1], LAMBDA a : AndThen(arg[2], LAMBDA b : F(a, b)))
        scaled(i, r)  == AndThen(arg[i], LAMBDA a : Ok(LinScale(a, r)))
        literal(i)    == e.args[i].k = "num"
    IN  CASE e.k = "num" -> Ok(LinConst(e.n))
          [] e.k = "var" -> Ok(LinVar(<<e.v>>))
          [] e.k = "un" /\ e.op = "Neg" -> scaled(1, Whole(-1))
          [] e.k = "bin" /\ e.op = "Add" -> both(LAMBDA a, b : Ok(LinAdd(a, b)))
          [] e.k = "bin" /\ e.op = "Sub" -> both(LAMBDA a, b : Ok(LinSub(a, b)))
          [] e.k = "bin" /\ e.op = "Mul" ->
                IF literal(1) THEN scaled(2, e.args[1].n)
                ELSE IF literal(2) THEN scaled(1, e.args[2].n) ELSE Err
          [] e.k = "bin" /\ e.op = "Div" ->
                IF literal(2) /\ e.args[2].n.num # 0 THEN scaled(1, Recip(e.args[2].n)) ELSE Err
          [] Magnitude(e) -> Ok(LinVar(ExprToString(e)))
          [] OTHER -> Err

\* to_constraint and cmp
Compare(a, b, rel) ==
    AndThen(Linearize(a), LAMBDA la :
        AndThen(Linearize(b), LAMBDA lb : Ok(Constraint(rel, LinSub(la, lb)))))

ToConstraint(e) ==
    IF e.k = "bin" /\ e.op \in Comparisons THEN Compare(e.args[1], e.args[2], e.op) ELSE Err

\* A list, or none
ListOf(r) == CHOOSE y \in {IF x.ok THEN x.v ELSE << >> : x \in {r}} : TRUE

Cmp(e, rel) ==
    ListOf(AndThen(Compare(e.args[1], e.args[2], rel), LAMBDA c : Ok(<<c>>)))

\* What a condition that holds contributes
RECURSIVE PathConstraints(_)
PathConstraints(e) ==
    CASE e.k = "bin" /\ e.op = "And" ->
            FlattenSeq([i \in 1..2 |-> PathConstraints(e.args[i])])
      [] e.k = "bin" /\ e.op \in Comparisons -> Cmp(e, e.op)
      [] OTHER -> << >>

\* What a condition that does not hold contributes: for a conjunction what
\* both sides contribute, for an equation both strict comparisons.
Opposites ==
    [Gt |-> <<"Le">>, Ge |-> <<"Lt">>, Lt |-> <<"Ge">>, Le |-> <<"Gt">>, Eq |-> <<"Lt", "Gt">>,
     Ne |-> <<"Eq">>]

RECURSIVE NegateConstraints(_)
NegateConstraints(e) ==
    CASE e.k = "bin" /\ e.op = "And" ->
            AndThen(AllOk([i \in 1..2 |-> NegateConstraints(e.args[i])]),
                    LAMBDA ns : Ok(ns[1] \o ns[2]))
      [] e.k = "bin" /\ e.op \in DOMAIN Opposites ->
            Ok(FlattenSeq([i \in DOMAIN Opposites[e.op] |-> Cmp(e, Opposites[e.op][i])]))
      [] e.k = "un" /\ e.op = "Not" -> Ok(PathConstraints(e.args[1]))
      [] OTHER -> Err

--------------------------------------------------------------------------------
\* subst: a let and a return are left as they are, a lambda that binds the
\* name too
RECURSIVE Subst(_, _, _)
Subst(e, v, by) ==
    CASE e.k = "var" -> IF e.v = v THEN by ELSE e
      [] e.k \in {"let", "return"} -> e
      [] e.k = "lambda" /\ \E i \in DOMAIN e.ps : v \in Range(e.ps[i]) -> e
      [] OTHER -> MapArgs(e, LAMBDA x : Subst(x, v, by))

FieldOf(rec, name) ==
    LET at == {i \in DOMAIN rec.names : rec.names[i] = name}
    IN  IF at = {} THEN Err ELSE Ok(rec.args[Min(at)])

\* simplify: casts disappear, and a field of a record literal is its value
RECURSIVE Simplify(_)
Simplify(e) ==
    CASE e.k = "cast" -> Simplify(e.args[1])
      [] e.k = "method" ->
            LET s == MapArgs(e, Simplify)
                r == s.args[1]
                f == IF Len(s.args) = 1 /\ r.k = "record" THEN FieldOf(r, e.m) ELSE Err
            IN  IF f.ok THEN f.v ELSE s
      [] e.k \in {"bin", "un", "array", "record", "if"} -> MapArgs(e, Simplify)
      [] OTHER -> e

--------------------------------------------------------------------------------
\* The lemmas.  None of them asks for side conditions.
LiteralMagnitudeLe(es, bound) ==
    /\ \A i \in DOMAIN es : es[i].k = "num"
    /\ ~Less(Times(bound, bound),
             FoldLeft(LAMBDA s, x : Plus(s, Times(x.n, x.n)), Whole(0), es))

NormalizedVectorShape(x, ctx) ==
    \/ x.k = "array" /\ LiteralMagnitudeLe(x.args, Whole(1))
    \/ /\ x.k = "method" /\ x.m = "map" /\ Len(x.args) > 1
       /\ x.args[2].k = "lambda" /\ Len(x.args[2].ps) = 1
       /\ LET body == x.args[2].args[1]
          IN  /\ body.k = "bin" /\ body.op = "Div"
              /\ Shown(AndThen(Linearize(body.args[2]),
                               LAMBDA d : Ok(Entails(ctx, Constraint("Gt", d)))))

IsElementwiseSum(e) ==
    \/ e.k = "bin" /\ e.op = "Add"
    \/ /\ e.k = "method" /\ e.m = "map" /\ Len(e.args) > 1 /\ e.args[2].k = "lambda"
       /\ LET body == e.args[2].args[1] IN body.k = "bin" /\ body.op = "Add"

Applies(lemma, pred, ctx) ==
    /\ pred.k = "bin" /\ pred.op \in {"Le", "Lt"}
    /\ Magnitude(pred.args[1])
    /\ \/ /\ lemma = "normalized_vector"
          /\ pred.args[2].k = "num" /\ pred.args[2].n = Whole(1)
          /\ NormalizedVectorShape(pred.args[1].args[1], ctx)
       \/ lemma = "triangle_for_add" /\ IsElementwiseSum(pred.args[1].args[1])

DefaultLemmas == {"normalized_vector"}

AgentLemmas == {"triangle_for_add"}

--------------------------------------------------------------------------------
Obligation(what, status) == [what |-> what, status |-> status]

\* A denominator that is not linear passes
CheckDivision_Mut(denom, ctx) ==
    {Obligation("division",
                IF AndThen(Linearize(denom), LAMBDA d : Ok(Unsat(Append(ctx, Constraint("Eq", d)))))
                       # Ok(FALSE)
                THEN "Verified" ELSE "Unverified")}

\* check_division: the solver shows that the denominator cannot be zero
CheckDivision(denom, ctx) ==
    {Obligation("division",
                IF Shown(AndThen(Linearize(denom),
                                 LAMBDA d : Ok(Unsat(Append(ctx, Constraint("Eq", d))))))
                THEN "Verified" ELSE "Unverified")}

\* discharge: each conjunct by the solver, then by a lemma
RECURSIVE Conjuncts(_)
Conjuncts(e) ==
    IF e.k = "bin" /\ e.op = "And"
    THEN FlattenSeq([i \in 1..2 |-> Conjuncts(e.args[i])]) ELSE <<e>>

Discharge(pred, ctx, lemmas, what) ==
    LET status(p) ==
            IF Shown(AndThen(ToConstraint(p), LAMBDA c : Ok(Entails(ctx, c)))) THEN "Verified"
            ELSE IF \E l \in lemmas : Applies(l, p, ctx) THEN "Trusted" ELSE "Unverified"
    IN  {Obligation(what, status(p)) : p \in Range(Conjuncts(Simplify(pred)))}

--------------------------------------------------------------------------------
\* A module is [types, funs], types the sequence of the aliases it declares
Aliases(module) ==
    LET last(n) == Max({i \in DOMAIN module.types : module.types[i].name = n})
    IN  [n \in {module.types[i].name : i \in DOMAIN module.types} |-> module.types[last(n)].type]

RECURSIVE Resolve(_, _)
Resolve(t, aliases) ==
    IF t.k = "Named" /\ t.name \in DOMAIN aliases THEN Resolve(aliases[t.name], aliases) ELSE t

RECURSIVE ArrayLenOf(_, _)
ArrayLenOf(t, aliases) ==
    LET r == Resolve(t, aliases)
    IN  CASE r.k = "Array" -> Ok(r.len)
          [] r.k = "Refine" -> ArrayLenOf(r.of, aliases)
          [] OTHER -> Err

CheckCast(value, type, ctx, lemmas, aliases) ==
    LET t      == Resolve(type, aliases)
        field  == IF value.k = "record" THEN FieldOf(value, t.bind) ELSE Err
        target == IF field.ok THEN field.v ELSE value
    IN  IF t.k # "Refine" THEN {}
        ELSE Discharge(Subst(t.pred, t.bind, target), ctx, lemmas, "refinement")

\* The three demands on a returned value
CheckReturn(e, f, ctx, lemmas, aliases) ==
    LET len == ArrayLenOf(f.ret, aliases)
    IN  (IF e.k = "array" /\ len.ok /\ Len(e.args) # len.v
         THEN {Obligation("length", "Error")} ELSE {})
        \cup (IF Resolve(f.ret, aliases).k = "Refine" /\ e.k # "cast"
              THEN {Obligation("introduction", "Error")} ELSE {})
        \cup UNION {Discharge(Subst(f.ensures[i].pred, f.ensures[i].v, e), ctx, lemmas, "ensures") :
                    i \in DOMAIN f.ensures}

\* The operands walk goes on with and the context each of them has.  The
\* condition of an if is not one of them.
Parts(e, ctx) ==
    LET part(i, cs) == [e |-> e.args[i], ctx |-> ctx \o cs]
        bound(x)    == Constraint("Eq", LinSub(LinVar(<<e.v>>), x))
    IN  CASE e.k = "if" -> {part(2, PathConstraints(e.args[1])),
                            part(3, ListOf(NegateConstraints(e.args[1])))}
          [] e.k = "let" -> {part(1, << >>),
                             part(2, ListOf(AndThen(Linearize(e.args[1]),
                                                    LAMBDA x : Ok(<<bound(x)>>))))}
          [] OTHER -> {part(i, << >>) : i \in DOMAIN e.args}

RECURSIVE Walk(_, _, _, _, _)
Walk(e, f, ctx, lemmas, aliases) ==
    UNION {Walk(p.e, f, p.ctx, lemmas, aliases) : p \in Parts(e, ctx)}
        \cup CASE e.k = "bin" /\ e.op \in {"Div", "Rem"} -> CheckDivision(e.args[2], ctx)
               [] e.k = "cast" -> CheckCast(e.args[1], e.t, ctx, lemmas, aliases)
               [] e.k = "return" -> CheckReturn(e.args[1], f, ctx, lemmas, aliases)
               [] OTHER -> {}

\* A function is [name, params, ret, requires, ensures, body], with at most
\* one requires and at most one ensures
Requires(f) == FlattenSeq([i \in DOMAIN f.requires |-> PathConstraints(f.requires[i])])

CheckFun(f, lemmas, aliases) ==
    (IF Requires(f) # << >> /\ Unsat(Requires(f)) THEN {Obligation("requires", "Error")} ELSE {})
        \cup Walk(f.body, f, Requires(f), lemmas, aliases)

--------------------------------------------------------------------------------
\* Termination.  collect_calls does not look into an array literal.
RECURSIVE CollectCalls(_)
CollectCalls(e) ==
    IF e.k = "array" THEN << >>
    ELSE (IF e.k = "call" THEN <<e>> ELSE << >>)
         \o FlattenSeq([i \in DOMAIN e.args |-> CollectCalls(e.args[i])])

FunNamed(module, name) ==
    LET at == {i \in DOMAIN module.funs : module.funs[i].name = name}
    IN  IF at = {} THEN Err ELSE Ok(module.funs[Max(at)])

\* The argument is below what the caller knows by the parameter's name
ExprDecreases(arg, param) ==
    Shown(AndThen(Linearize(arg), LAMBDA a :
              Ok(Entails(<< >>, Constraint("Lt", LinSub(a, LinVar(<<param>>)))))))

\* reachable holds the function itself and every function it calls, so every
\* call of a declared function is looked at, a recursive one or not
CheckTermination(module) ==
    LET decreases(c, ps) ==
            \E i \in DOMAIN c.args \cap DOMAIN ps : ExprDecreases(c.args[i], ps[i].name)
        bad(f) == \E c \in Range(CollectCalls(f.body)) :
                     Shown(AndThen(FunNamed(module, c.f),
                                   LAMBDA g : Ok(~decreases(c, g.params))))
    IN  {Obligation("termination", "Error") : f \in {g \in Range(module.funs) : bad(g)}}

CheckWith(module, lemmas) ==
    UNION {CheckFun(f, lemmas, Aliases(module)) : f \in Range(module.funs)}
        \cup CheckTermination(module)

\* Report::ok
Accepted(report) == \A o \in report : o.status \in {"Verified", "Trusted"}
================================================================================
