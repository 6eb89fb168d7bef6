------------------------------- MODULE TelosCode -------------------------------
(****************************************************************************)
(* What telos generates: the static agent's candidates (telos-agent), the   *)
(* Rust function a body becomes (telos-codegen) and the contract guard of   *)
(* an ejected function.                                                     *)
(*                                                                          *)
(* The text of an expression is a sequence of tokens.  The backends write   *)
(* no parentheses, so what a compiler reads is what the tokens parse to:    *)
(* telos and Rust give the operators used here the same levels.             *)
(****************************************************************************)
EXTENDS TelosExtract

Op(o) == [k |-> "op", op |-> o]

\* render_expr; old(e) becomes e
RECURSIVE RenderExpr(_)
RenderExpr(e) ==
    CASE e.k = "old" -> RenderExpr(e.args[1])
      [] e.k = "neg" -> <<Op("Sub")>> \o RenderExpr(e.args[1])
      [] e.k = "bin" -> RenderExpr(e.args[1]) \o <<Op(e.op)>> \o RenderExpr(e.args[2])
      [] OTHER       -> <<e>>

\* rust_guard_inner: a field under old(...) is the snapshot taken before the call
Snapshot(b, f) == [k |-> "snapshot", b |-> b, f |-> f, args |-> << >>]

RECURSIVE RustGuard(_, _)
RustGuard(e, inOld) ==
    CASE e.k = "old" -> RustGuard(e.args[1], TRUE)
      [] e.k = "neg" -> <<Op("Sub")>> \o RustGuard(e.args[1], inOld)
      [] e.k = "bin" -> RustGuard(e.args[1], inOld) \o <<Op(e.op)>> \o RustGuard(e.args[2], inOld)
      [] e.k = "field" /\ inOld -> <<Snapshot(e.b, e.f)>>
      [] OTHER       -> <<e>>

\* The parser's levels, weakest first: parse_or, parse_and, parse_cmp (which
\* does not chain), parse_add, parse_mul; then parse_unary.
Levels == <<{"Or"}, {"And"}, Relations, {"Add", "Sub"}, {"Mul", "Div"}>>

AtOp(ts, ops) == ts # << >> /\ Head(ts).k = "op" /\ Head(ts).op \in ops

RECURSIVE ParseLevel(_, _), ParseMore(_, _)
ParseLevel(n, ts) ==
    IF n <= Len(Levels) THEN ParseMore(n, ParseLevel(n + 1, ts))
    ELSE IF AtOp(ts, {"Sub"})
    THEN LET r == ParseLevel(n, Tail(ts)) IN [e |-> Neg(r.e), rest |-> r.rest]
    ELSE [e |-> Head(ts), rest |-> Tail(ts)]

ParseMore(n, l) ==
    IF ~AtOp(l.rest, Levels[n]) THEN l
    ELSE LET r    == ParseLevel(n + 1, Tail(l.rest))
             node == [e |-> Bin(Head(l.rest).op, l.e, r.e), rest |-> r.rest]
         IN  IF Levels[n] = Relations THEN node ELSE ParseMore(n, node)

Parsed(ts) == ParseLevel(1, ts).e

--------------------------------------------------------------------------------
\* resolve_old
RECURSIVE ResolveOld(_)
ResolveOld(e) ==
    IF e.k = "old" THEN ResolveOld(e.args[1])
    ELSE IF e.k \in {"neg", "bin"}
    THEN [e EXCEPT !.args = [i \in DOMAIN e.args |-> ResolveOld(e.args[i])]]
    ELSE e

IsEquation(e, kinds) == e.k = "bin" /\ e.op = "Eq" /\ e.args[1].k \in kinds

Assignment(e) == [target |-> e.args[1], op |-> "Set", value |-> ResolveOld(e.args[2])]

\* synthesize_assigns_from_ensures_body
SynthesizeArm(e) ==
    IF IsEquation(e, {"field"}) THEN <<Mutate(<<Assignment(e)>>)>>
    ELSE IF IsEquation(e, {"var"}) THEN <<Assign(Assignment(e))>> ELSE << >>

\* synthesize_from_ensures: the equations for fields in one mutate, then the
\* equations for variables, then an if for every case split and an assignment
\* to the first parameter for every bare call
SynthesizeFromEnsures(func) ==
    LET field(e) == IsEquation(e, {"field"})
        var(e)   == IsEquation(e, {"var"})
        call(e)  == e.k = "call" /\ func.params # << >>
        fields   == SelectSeq(func.ensures, field)
        vars     == SelectSeq(func.ensures, var)
        other    == SelectSeq(func.ensures, LAMBDA e : e.k = "if" \/ call(e))
        stmt(e)  == IF e.k = "if"
                    THEN IfStmt(e.args[1], SynthesizeArm(e.args[2]), SynthesizeArm(e.args[3]))
                    ELSE Assign([target |-> Var(func.params[1].name), op |-> "Set",
                                 value |-> [e EXCEPT !.args = [i \in DOMAIN @ |-> ResolveOld(@[i])]]])
    IN  (IF fields = << >> THEN << >>
         ELSE <<Mutate([i \in DOMAIN fields |-> Assignment(fields[i])])>>)
        \o [i \in DOMAIN vars |-> Assign(Assignment(vars[i]))]
        \o [i \in DOMAIN other |-> stmt(other[i])]

\* eval_post (post) and eval_pre under a counterexample; a name it leaves out is 0
RECURSIVE EvalUnder(_, _, _)
EvalUnder(e, post, ce) ==
    LET arg == [i \in DOMAIN e.args |-> EvalUnder(e.args[i], post /\ e.k # "old", ce)]
    IN  CASE e.k = "int" -> e.n
          [] e.k \in {"var", "field"} -> At(ce, ExprVarName(e, post))
          [] e.k = "old" -> arg[1]
          [] e.k = "neg" -> -arg[1]
          [] e.k = "bin" /\ e.op = "Add" -> arg[1] + arg[2]
          [] e.k = "bin" /\ e.op = "Sub" -> arg[1] - arg[2]
          [] e.k = "bin" /\ e.op = "Mul" -> arg[1] * arg[2]
          [] e.k = "bin" /\ e.op = "Div" -> IF arg[2] = 0 THEN 0 ELSE Quot(arg[1], arg[2])
          [] OTHER -> 0

\* The equations of the contract that the counterexample breaks.  A field the
\* counterexample does not mention has none of the values an equation asks for.
Fixes(func, ce) ==
    {e \in Range(func.ensures) :
        /\ IsEquation(e, {"field"})
        /\ LET post == ExprVarName(e.args[1], TRUE)
           IN  post \notin DOMAIN ce \/ ce[post] # EvalUnder(e.args[2], TRUE, ce)}

\* apply_fixes replaces the assignments of those fields at the top level; a
\* later equation for the same field wins
ApplyFixes(stmts, func, fixes) ==
    LET last(t) == Max({i \in DOMAIN func.ensures :
                           func.ensures[i] \in fixes /\ func.ensures[i].args[1] = t})
        fixed(a) == IF \E e \in fixes : e.args[1] = a.target
                    THEN Assignment(func.ensures[last(a.target)]) ELSE a
    IN  [i \in DOMAIN stmts |->
            IF stmts[i].k \in {"mutate", "assign"}
            THEN [stmts[i] EXCEPT !.assigns = [j \in DOMAIN @ |-> fixed(@[j])]] ELSE stmts[i]]

\* StaticAgent::rewrite
StaticRewrite(func, stmts, ce) ==
    IF DOMAIN ce = {} \/ Fixes(func, ce) = {} THEN SynthesizeFromEnsures(func)
    ELSE ApplyFixes(stmts, func, Fixes(func, ce))

--------------------------------------------------------------------------------
\* The parameters analyze_func finds mutated: top-level assignments only
MutatedParams(stmts) ==
    UNION {IF stmts[i].k \in {"mutate", "assign"}
           THEN {a.target.b : a \in {x \in Range(stmts[i].assigns) : x.target.k = "field"}}
           ELSE {} : i \in DOMAIN stmts}

\* Whether Rust accepts the function render_func writes (external: rustc).  In
\* an arm render_stmt_indented writes `mutate state {...}', which is no Rust,
\* and an assignment without `;', which only ends a block; what a function
\* borrows mutably is what it mutates at the top level.
RECURSIVE ArmCompiles(_, _)
ArmCompiles(arm, mutable) ==
    \A i \in DOMAIN arm :
        CASE arm[i].k = "mutate" -> FALSE
          [] arm[i].k = "assign" -> i = Len(arm) /\ arm[i].assigns[1].target.b \in mutable
          [] arm[i].k \in {"if", "match"} -> \A a \in Range(arm[i].arms) : ArmCompiles(a, mutable)
          [] OTHER -> TRUE

Compiles(stmts) ==
    \A i \in DOMAIN stmts :
        stmts[i].k \in {"if", "match"} =>
            \A a \in Range(stmts[i].arms) : ArmCompiles(a, MutatedParams(stmts))

\* The value of an expression; pre is the state at the call
RECURSIVE Value(_, _, _)
Value(e, pre, cur) ==
    LET arg == [i \in (IF e.k = "forall" THEN {1, 2} ELSE DOMAIN e.args) |->
                   Value(e.args[i], pre, IF e.k = "old" THEN pre ELSE cur)]
    IN  CASE e.k = "int"      -> e.n
          [] e.k \in {"var", "field"} -> cur[ExprVarName(e, FALSE)]
          [] e.k = "snapshot" -> pre[<<e.b, e.f>>]
          [] e.k = "old"      -> arg[1]
          [] e.k = "neg"      -> -arg[1]
          [] e.k = "if"       -> IF arg[1] THEN arg[2] ELSE arg[3]
          [] e.k = "forall"   ->
                \A x \in arg[1]..(arg[2] - 1) : Value(SubstituteVar(e.args[3], e.v, Num(x)), pre, cur)
          [] e.k = "bin"      ->
                (CASE e.op = "Add" -> arg[1] + arg[2]
                   [] e.op = "Sub" -> arg[1] - arg[2]
                   [] e.op = "Mul" -> arg[1] * arg[2]
                   [] e.op = "Div" -> Quot(arg[1], arg[2])
                   [] e.op = "Eq"  -> arg[1] = arg[2]
                   [] e.op = "Ne"  -> arg[1] # arg[2]
                   [] e.op = "Lt"  -> arg[1] < arg[2]
                   [] e.op = "Le"  -> arg[1] <= arg[2]
                   [] e.op = "Gt"  -> arg[1] > arg[2]
                   [] e.op = "Ge"  -> arg[1] >= arg[2]
                   [] e.op = "And" -> arg[1] /\ arg[2]
                   [] e.op = "Or"  -> arg[1] \/ arg[2])

\* One assignment, reading the state `from'
Assigned(cur, from, a, value) ==
    LET x == <<a.target.b, a.target.f>>
    IN  [cur EXCEPT ![x] = CASE a.op = "Set" -> value
                             [] a.op = "Add" -> from[x] + value
                             [] a.op = "Sub" -> from[x] - value]

\* A block's own variables end with it
LeaveBlock(outer, inner) ==
    [cur |-> [x \in DOMAIN outer.cur |-> IF Len(x) = 1 THEN outer.cur[x] ELSE inner.cur[x]],
     done |-> inner.done]

\* What the generated function does: its statements in order, each reading what
\* those before it wrote, every expression as the compiler reads it
RECURSIVE RunCode(_, _, _)
RunCode(stmts, s, pre) ==
    IF stmts = << >> \/ s.done THEN s
    ELSE LET t == Head(stmts)
             value(e, cur) == Value(Parsed(RenderExpr(e)), pre, cur)
             next == CASE t.k \in {"mutate", "assign"} ->
                             [s EXCEPT !.cur = FoldLeft(LAMBDA c, a :
                                 Assigned(c, c, a, value(a.value, c)), @, t.assigns)]
                       [] t.k = "if" ->
                             LeaveBlock(s, RunCode(t.arms[IF value(t.cond, s.cur) THEN 1 ELSE 2], s, pre))
                       [] t.k = "let" ->
                             [s EXCEPT !.cur = (VarName(t.v) :> value(t.value, @)) @@ @]
                       [] t.k = "return" -> [s EXCEPT !.done = TRUE]
                       [] OTHER -> s
         IN  RunCode(Tail(stmts), next, pre)

GeneratedCode(stmts, pre) == RunCode(stmts, [cur |-> pre, done |-> FALSE], pre).cur

\* What the extraction takes a body to mean: every expression is read before
\* the call and nothing ends early
RECURSIVE MeaningFrom(_, _, _)
MeaningFrom(stmts, cur, pre) ==
    IF stmts = << >> THEN cur
    ELSE LET t == Head(stmts)
             next == CASE t.k \in {"mutate", "assign"} ->
                             FoldLeft(LAMBDA c, a :
                                 Assigned(c, pre, a, Value(a.value, pre, pre)), cur, t.assigns)
                       [] t.k = "if" ->
                             MeaningFrom(t.arms[IF Value(t.cond, pre, pre) THEN 1 ELSE 2], cur, pre)
                       [] OTHER -> cur
         IN  MeaningFrom(Tail(stmts), next, pre)

Meaning(stmts, pre) == MeaningFrom(stmts, pre, pre)

\* The requires clauses, parameter types and invariants, at the call
Admits(func, invariants, pre) ==
    /\ \A e \in Range(func.requires) \cup Range(Invariants(func, invariants)) : Value(e, pre, pre)
    /\ \A p \in Range(func.params) : p.type = "PositiveInt" => pre[VarName(p.name)] >= 1

\* The ensures clauses and invariants, after it
Meets(func, invariants, pre, cur) ==
    /\ \A e \in Range(func.ensures) : Value(e, pre, cur)
    /\ \A e \in Range(Invariants(func, invariants)) : Value(e, cur, cur)

\* The assertions of the guard of an ejected function around its opaque block
GuardAccepts(func, pre, cur) ==
    /\ \A e \in Range(func.requires) : Value(Parsed(RustGuard(e, FALSE)), pre, pre)
    /\ \A e \in Range(func.ensures) : Value(Parsed(RustGuard(e, FALSE)), pre, cur)
================================================================================
