--------------------------------- MODULE Eidos ---------------------------------
(****************************************************************************)
(* The commands of eidos (eidos-cli): `check' runs the kernel, `build' runs *)
(* it, erases the proofs (eidos-erasure), lowers the core (eidos-codegen)   *)
(* and writes a crate; the suggester of eidos-flight-math tries the steps   *)
(* of an agent; and a library call asks the solver.                         *)
(*                                                                          *)
(* The text that is generated is left out: what the generator refuses and   *)
(* what the core computes are modelled.  A write to the disk may fail.      *)
(****************************************************************************)
EXTENDS EidosKernel

CONSTANTS Commands,  \* records [cmd, module, force, dir, steps, premises, concl]
          Grid       \* the rationals the properties try for every input

VARIABLES job, pc, report, core, out, exit, outcomes

vars == <<job, pc, report, core, out, exit, outcomes>>

--------------------------------------------------------------------------------
\* erase_type.  st is the eraser: [env, structs, counter, declared]; a
\* refinement without a name becomes a new struct at each place it is met.
RECURSIVE EraseType(_, _, _)
EraseType(t, st, aliases) ==
    CASE t.k = "Named" /\ t.name \in DOMAIN aliases
            /\ ~(aliases[t.name].k = "Refine" /\ t.name \in st.declared) ->
                EraseType(aliases[t.name], st, aliases)
      [] t.k = "Array" ->
            LET inner == EraseType(t.of, st, aliases)
            IN  [ty |-> ArrayOf(inner.ty, t.len), st |-> inner.st]
      [] t.k = "Refine" ->
            LET inner == EraseType(t.of, st, aliases)
                name  == <<"_Ref", inner.st.counter>>
            IN  [ty |-> Named(name),
                 st |-> [inner.st EXCEPT !.counter = @ + 1,
                                         !.structs = Append(@, [name  |-> name,
                                                                field |-> t.bind])]]
      [] OTHER -> [ty |-> IF t.k = "Named" THEN Named(<<t.name>>) ELSE t, st |-> st]

\* declare_struct_for, for the aliases in order
DeclareStruct(st, item, aliases) ==
    IF item.type.k # "Refine" THEN st
    ELSE LET base == EraseType(item.type.of, st, aliases)
         IN  [base.st EXCEPT !.structs = Append(@, [name  |-> <<item.name>>,
                                                    field |-> item.type.bind]),
                             !.declared = @ \cup {item.name}]

MethodType(recv, m) ==
    LET len == IF recv.k = "Array" THEN recv.len ELSE 0
    IN  CASE m = "len" -> Base("usize")
          [] m = "map" -> IF recv.k = "Array" THEN recv ELSE ArrayOf(Base("f64"), 0)
          [] m = "zip" -> ArrayOf(Base("f64"), len)
          [] OTHER -> Base("f64")

\* The struct a record literal is taken for: the first one with its fields
RecordType(names, structs) ==
    LET fit == {i \in DOMAIN structs : names = <<structs[i].field>>}
    IN  IF fit = {} THEN Base("_") ELSE Named(structs[Min(fit)].name)

\* The type of an expression whose operands are erased
TypeOf(e, as, st, rets) ==
    CASE e.k = "num" -> Base("f64")
      [] e.k = "var" -> IF e.v \in DOMAIN st.env THEN st.env[e.v] ELSE Base("_")
      [] e.k = "array" -> ArrayOf(IF as = << >> THEN Base("_") ELSE Last(as).ty, Len(as))
      [] e.k = "bin" -> IF e.op \in {"Add", "Sub", "Mul", "Div", "Rem"} THEN Base("f64")
                        ELSE Base("bool")
      [] e.k = "un" -> IF e.op = "Neg" THEN Base("f64") ELSE Base("bool")
      [] e.k = "if" -> as[2].ty
      [] e.k = "call" -> IF e.f \in DOMAIN rets THEN rets[e.f] ELSE Base("_")
      [] e.k = "method" -> MethodType(as[1].ty, e.m)
      [] e.k = "record" -> RecordType(e.names, st.structs)
      [] e.k \in {"let", "lambda", "return"} -> Last(as).ty

Without(f, x) == [y \in DOMAIN f \ {x} |-> f[y]]

\* A cast leaves the value under the refinement, not the witness of it
EraseCast_Mut(v, ty) ==
    [(IF v.k = "record" THEN v.args[1] ELSE v) EXCEPT !.ty = ty]

\* A cast is gone; its type is the type of the value
EraseCast(v, ty) == [v EXCEPT !.ty = ty]

\* erase_expr: the operands in order, each with the eraser the one before it
\* left; a let puts its name into the environment and takes it out again,
\* with the name it may have hidden
RECURSIVE EraseExpr(_, _, _, _)
EraseExpr(e, st, aliases, rets) ==
    LET type == IF e.k = "cast" THEN EraseType(e.t, st, aliases) ELSE [ty |-> Base("_"), st |-> st]
        step(acc, i) ==
            LET r == EraseExpr(e.args[i], acc.st, aliases, rets)
            IN  [es |-> Append(acc.es, r.e),
                 st |-> IF e.k = "let" /\ i = 1
                        THEN [r.st EXCEPT !.env = (e.v :> r.e.ty) @@ @]
                        ELSE IF e.k = "let" THEN [r.st EXCEPT !.env = Without(@, e.v)]
                        ELSE r.st]
        done == FoldLeft(step, [es |-> << >>, st |-> type.st], [i \in DOMAIN e.args |-> i])
    IN  [st |-> done.st,
         e  |-> IF e.k = "cast" THEN EraseCast(done.es[1], type.ty)
                ELSE [e EXCEPT !.args = done.es]
                     @@ [ty |-> TypeOf(e, done.es, done.st, rets)]]

--------------------------------------------------------------------------------
\* A sequence through a step that carries a state: [out, st]
Through(xs, st, Step(_, _)) ==
    FoldLeft(LAMBDA acc, x : LET r == Step(x, acc.st)
                             IN  [out |-> Append(acc.out, r.out), st |-> r.st],
             [out |-> << >>, st |-> st], xs)

EraseFun(f, st0, aliases, rets) ==
    LET ps   == Through(f.params, [st0 EXCEPT !.env = << >>], LAMBDA p, st :
                    LET t == EraseType(p.type, st, aliases)
                    IN  [out |-> t.ty, st |-> [t.st EXCEPT !.env = (p.name :> t.ty) @@ @]])
        body == EraseExpr(f.body, ps.st, aliases, rets)
    IN  [out |-> [name |-> f.name, params |-> ps.out, ret |-> rets[f.name], body |-> body.e],
         st  |-> body.st]

\* erase
Erase(module) ==
    LET aliases  == Aliases(module)
        declared == FoldLeft(LAMBDA st, item : DeclareStruct(st, item, aliases),
                             [env |-> << >>, structs |-> << >>, counter |-> 0, declared |-> {}],
                             module.types)
        typed == Through(module.funs, declared, LAMBDA f, st :
                     LET t == EraseType(f.ret, st, aliases) IN [out |-> t.ty, st |-> t.st])
        names == {module.funs[i].name : i \in DOMAIN module.funs}
        rets  == [n \in names |->
                     typed.out[Max({i \in DOMAIN module.funs : module.funs[i].name = n})]]
        funs  == Through(module.funs, typed.st, LAMBDA f, st : EraseFun(f, st, aliases, rets))
    IN  [structs |-> funs.st.structs, funs |-> funs.out]

\* What the generator can render: a record has the name of a struct, a map or
\* a zip has its argument
RECURSIVE Renders(_)
Renders(e) ==
    /\ e.k = "record" => e.ty.k = "Named"
    /\ e.k = "method" /\ e.m \in {"map", "zip"} => Len(e.args) > 1
    /\ \A i \in DOMAIN e.args : Renders(e.args[i])

Codegen(c) == \A i \in DOMAIN c.funs : Renders(c.funs[i].body)

--------------------------------------------------------------------------------
NoCore == [structs |-> << >>, funs |-> << >>]

Init ==
    /\ job \in Commands
    /\ pc = "start"
    /\ report = {}
    /\ core = NoCore
    /\ out = job.dir
    /\ exit = "none"
    /\ outcomes = << >>

Exit(code) == pc' = "done" /\ exit' = code

\* build refuses to write into a directory that is not empty
RefuseDir ==
    /\ pc = "start" /\ job.cmd = "build"
    /\ ~job.force /\ job.dir # {}
    /\ Exit("error")
    /\ UNCHANGED <<job, report, core, out, outcomes>>

Check ==
    /\ pc = "start" /\ job.cmd \in {"check", "build"}
    /\ job.cmd = "build" => job.force \/ job.dir = {}
    /\ report' = CheckWith(job.module, DefaultLemmas)
    /\ IF ~Accepted(report') THEN Exit("failure")
       ELSE IF job.cmd = "check" THEN Exit("success") ELSE pc' = "emit" /\ UNCHANGED exit
    /\ UNCHANGED <<job, core, out, outcomes>>

Emit ==
    /\ pc = "emit"
    /\ core' = Erase(job.module)
    /\ IF Codegen(core') THEN pc' = "lib" /\ UNCHANGED exit ELSE Exit("error")
    /\ UNCHANGED <<job, report, out, outcomes>>

\* Of a file whose write fails anything may be left
Write(file, next) ==
    \/ /\ out' = {x \in out : x.file # file} \cup {[file |-> file, holds |-> "this"]}
       /\ IF next = "done" THEN Exit("success") ELSE pc' = next /\ UNCHANGED exit
    \/ /\ \E holds \in {x.holds : x \in {y \in out : y.file = file}} \cup {"torn"} :
              out' = {x \in out : x.file # file} \cup {[file |-> file, holds |-> holds]}
       /\ Exit("error")

WriteLib ==
    /\ pc = "lib" /\ Write("lib.rs", "cargo")
    /\ UNCHANGED <<job, report, core, outcomes>>

WriteCargo ==
    /\ pc = "cargo" /\ Write("Cargo.toml", "done")
    /\ UNCHANGED <<job, report, core, outcomes>>

\* apply_strengthen: the functions of that name
ApplyStrengthen(module, name, extra) ==
    LET stronger(f) ==
            [f EXCEPT !.requires = IF @ = << >> THEN <<extra>> ELSE <<Bin("And", @[1], extra)>>]
    IN  [module EXCEPT !.funs = [i \in DOMAIN @ |->
             IF @[i].name = name THEN stronger(@[i]) ELSE @[i]]]

\* suggest_and_verify: each step on the module as it was parsed
Suggest ==
    /\ pc = "start" /\ job.cmd = "suggest"
    /\ LET step  == job.steps[Len(outcomes) + 1]
           lemma == step.k = "lemma"
           tried == IF lemma THEN job.module
                    ELSE ApplyStrengthen(job.module, step.name, step.extra)
           result == CheckWith(tried, DefaultLemmas \cup
                                      IF lemma THEN {step.name} \cap AgentLemmas ELSE {})
           known == step.k # "malformed" /\ (lemma => step.name \in AgentLemmas)
       IN  /\ outcomes' = Append(outcomes, [module   |-> tried,
                                            accepted |-> known /\ Accepted(result),
                                            report   |-> IF known THEN result ELSE {}])
           /\ IF Len(outcomes') = Len(job.steps) THEN Exit("success") ELSE UNCHANGED <<pc, exit>>
    /\ UNCHANGED <<job, report, core, out>>

\* entails and counterexample, called as a library
Ask ==
    /\ pc = "start" /\ job.cmd = "ask"
    /\ outcomes' = <<[entailed |-> Entails(job.premises, job.concl),
                      model    |-> Counterexample(job.premises, job.concl)]>>
    /\ Exit("success")
    /\ UNCHANGED <<job, report, core, out>>

Next == RefuseDir \/ Check \/ Emit \/ WriteLib \/ WriteCargo \/ Suggest \/ Ask

Spec == Init /\ [][Next]_vars

--------------------------------------------------------------------------------
(* What a program computes over exact numbers, for the properties.  An       *)
(* environment has the values of the names and of the calls; a division by   *)
(* zero has no value.  Arrays have one element or are literals with at most  *)
(* one that is not zero, so that their magnitudes are rational.              *)

Truncated(r) == IF r.num < 0 THEN -((-r.num) \div r.den) ELSE r.num \div r.den

Arith(op, a, b) ==
    CASE op = "Add" -> Ok(Plus(a, b))
      [] op = "Sub" -> Ok(Plus(a, Minus(b)))
      [] op = "Mul" -> Ok(Times(a, b))
      [] op \in {"Div", "Rem"} /\ b.num = 0 -> Err
      [] op = "Div" -> Ok(Times(a, Recip(b)))
      [] op = "Rem" ->
            Ok(Plus(a, Minus(Times(b, Whole(Truncated(Times(a, Recip(b))))))))
      [] op = "Lt" -> Ok(Less(a, b))
      [] op = "Le" -> Ok(~Less(b, a))
      [] op = "Gt" -> Ok(Less(b, a))
      [] op = "Ge" -> Ok(~Less(a, b))
      [] op = "Eq" -> Ok(a = b)
      [] op = "Ne" -> Ok(a # b)

Length(xs) == FoldLeft(LAMBDA s, x : Plus(s, Rat(Abs(x.num), x.den)), Whole(0), xs)

Bind(pattern, x, vals) ==
    IF Len(pattern) = 1 THEN (pattern[1] :> x) @@ vals
    ELSE [i \in Range(pattern) |-> x[CHOOSE j \in DOMAIN pattern : pattern[j] = i]] @@ vals

RECURSIVE Eval(_, _, _)
Eval(e, vals, calls) ==
    LET arg(i)  == Eval(e.args[i], vals, calls)
        all     == AllOk([i \in DOMAIN e.args |-> arg(i)])
        applied(x) == Eval(e.args[2].args[1], Bind(e.args[2].ps[1], x, vals), calls)
    IN  CASE e.k = "num" -> Ok(e.n)
          [] e.k = "var" -> Ok(vals[e.v])
          [] e.k = "array" -> all
          [] e.k = "bin" /\ e.op \in {"And", "Or"} ->
                AndThen(arg(1), LAMBDA a : IF a = (e.op = "Or") THEN Ok(a) ELSE arg(2))
          [] e.k = "bin" /\ e.op \notin {"And", "Or"} ->
                AndThen(all, LAMBDA as : Arith(e.op, as[1], as[2]))
          [] e.k = "un" ->
                AndThen(arg(1), LAMBDA a : Ok(IF e.op = "Neg" THEN Minus(a) ELSE ~a))
          [] e.k = "if" -> AndThen(arg(1), LAMBDA c : IF c THEN arg(2) ELSE arg(3))
          [] e.k = "let" ->
                AndThen(arg(1), LAMBDA x : Eval(e.args[2], (e.v :> x) @@ vals, calls))
          [] e.k = "call" -> AndThen(all, LAMBDA as : Ok(calls[e.f]))
          [] e.k = "method" /\ e.m = "map" ->
                AndThen(arg(1), LAMBDA xs : AllOk([i \in DOMAIN xs |-> applied(xs[i])]))
          [] e.k = "method" /\ e.m = "zip" ->
                AndThen(all, LAMBDA as : Ok([i \in DOMAIN as[1] |-> <<as[1][i], as[2][i]>>]))
          [] e.k = "method" /\ e.m = "magnitude" -> AndThen(arg(1), LAMBDA xs : Ok(Length(xs)))
          [] e.k = "method" /\ e.m = "len" -> AndThen(arg(1), LAMBDA xs : Ok(Whole(Len(xs))))
          [] e.k = "method" /\ e.m \notin {"map", "zip", "magnitude", "len"} ->
                AndThen(arg(1), LAMBDA r : Ok(r[e.m]))
          [] e.k = "record" ->
                AndThen(all, LAMBDA as : Ok([n \in Range(e.names) |->
                                                as[CHOOSE i \in DOMAIN as : e.names[i] = n]]))
          [] e.k \in {"cast", "return"} -> arg(1)

Inputs(f, aliases) ==
    LET named(n) == CHOOSE i \in DOMAIN f.params : f.params[i].name = n
        names    == {f.params[i].name : i \in DOMAIN f.params}
        values(g) == [n \in names |->
                         IF ArrayLenOf(f.params[named(n)].type, aliases).ok THEN <<g[n]>> ELSE g[n]]
    IN  {values(g) : g \in [names -> Grid]}

\* The environments a function may be entered with
Entries(f, module) ==
    {e \in [vals  : Inputs(f, Aliases(module)),
            calls : [{module.funs[i].name : i \in DOMAIN module.funs} -> Grid]] :
        \A i \in DOMAIN f.requires : Eval(f.requires[i], e.vals, e.calls) = Ok(TRUE)}

RECURSIVE SubExprs(_)
SubExprs(e) == <<e>> \o FlattenSeq([i \in DOMAIN e.args |-> SubExprs(e.args[i])])

\* A function none of whose parts the kernel takes for more than it is: no
\* condition with a division, no condition whose negation it has as a
\* conjunction, magnitudes of variables only, and no name bound twice
Regular(f) ==
    LET xs == SubExprs(f.body)
        divides(e)  == \E x \in Range(SubExprs(e)) : x.k = "bin" /\ x.op \in {"Div", "Rem"}
        compound(e) == e.k = "bin" /\ e.op \in {"And", "Eq"}
        binds(x)    == IF x.k = "let" THEN <<x.v>>
                       ELSE IF x.k = "lambda" THEN FlattenSeq(x.ps) ELSE << >>
        names == FlattenSeq([i \in DOMAIN f.params |-> <<f.params[i].name>>]
                            \o [i \in DOMAIN xs |-> binds(xs[i])])
    IN  /\ \A i \in DOMAIN xs :
              /\ xs[i].k = "if" => ~divides(xs[i].args[1]) /\ ~compound(xs[i].args[1])
              /\ Magnitude(xs[i]) => xs[i].args[1].k = "var"
        /\ \A i \in DOMAIN f.ensures : \A x \in Range(SubExprs(f.ensures[i].pred)) : ~Magnitude(x)
        /\ \A i, j \in DOMAIN names : i # j => names[i] # names[j]

\* A function entered as its requires says divides by zero nowhere and keeps
\* the ensures the solver has verified
FunSafe(f, module, rep) ==
    \A env \in Entries(f, module) :
        LET r == Eval(f.body, env.vals, env.calls)
        IN  /\ r.ok
            /\ Obligation("ensures", "Trusted") \notin rep =>
                  \A i \in DOMAIN f.ensures :
                      Eval(f.ensures[i].pred, (f.ensures[i].v :> r.v) @@ env.vals, env.calls)
                          = Ok(TRUE)

\* Every module the kernel has accepted, with the report
Verdicts ==
    (IF job.cmd \in {"check", "build"} /\ report # {} /\ Accepted(report)
     THEN <<[module |-> job.module, report |-> report]>> ELSE << >>)
    \o (IF job.cmd # "suggest" THEN << >>
        ELSE LET ok(o) == o.accepted IN SelectSeq(outcomes, ok))

(* A function the kernel accepts, entered as its requires says, never        *)
(* divides by zero and returns what its ensures says unless a lemma was      *)
(* trusted for it: for every function that stays within what the kernel's    *)
(* context can say, and for the modules an agent's steps led to as well.     *)
AcceptedIsSafe ==
    \A i \in DOMAIN Verdicts : \A j \in DOMAIN Verdicts[i].module.funs :
        LET f == Verdicts[i].module.funs[j]
        IN  Regular(f) => FunSafe(f, Verdicts[i].module, Verdicts[i].report)

(* The kernel: every division of an accepted module has a denominator that   *)
(* is not zero.                                                              *)
DivisionsAreSafe ==
    \A i \in DOMAIN Verdicts : \A j \in DOMAIN Verdicts[i].module.funs :
        LET f == Verdicts[i].module.funs[j]
        IN  \A env \in Entries(f, Verdicts[i].module) : Eval(f.body, env.vals, env.calls).ok

(* An answer of the solver is right on every point of the grid, however the  *)
(* arithmetic or the number of constraints runs into its limit: premises     *)
(* that entail a conclusion do so everywhere, a counterexample satisfies the *)
(* premises and not the conclusion, and no question has both answers.        *)
SolverSound ==
    job.cmd = "ask" /\ outcomes # << >> =>
        LET a == outcomes[1]
            names == UNION {DOMAIN c.e.coeffs : c \in Range(job.premises) \cup {job.concl}}
            premisesHold(m) == \A c \in Range(job.premises) : Holds(c, m)
        IN  /\ a.entailed => ~a.model.ok
            /\ a.entailed => \A m \in [names -> Grid] : premisesHold(m) => Holds(job.concl, m)
            /\ a.model.ok => premisesHold(a.model.v) /\ ~Holds(job.concl, a.model.v)

(* What `build' leaves in its directory: a lib.rs it wrote is the core of a  *)
(* module the kernel accepted and computes what the source computes, a       *)
(* successful build wrote both files, and a directory with files in it is    *)
(* left alone unless --force was given.                                      *)
BuildFaithful ==
    job.cmd = "build" =>
        /\ [file |-> "lib.rs", holds |-> "this"] \in out =>
              /\ Accepted(report)
              /\ \A i \in DOMAIN job.module.funs :
                    \A env \in Entries(job.module.funs[i], job.module) :
                        Eval(core.funs[i].body, env.vals, env.calls)
                            = Eval(job.module.funs[i].body, env.vals, env.calls)
        /\ exit = "success" => out = {[file |-> f, holds |-> "this"] : f \in {"lib.rs", "Cargo.toml"}}
        /\ ~job.force /\ job.dir # {} => out = job.dir
================================================================================
