-------------------------------- MODULE MCEidos --------------------------------
(* Small eidos programs: guards, refinements, lemmas, recursion and the questions
   to the solver. *)
EXTENDS Eidos

MCOrder(names) == SetToSeq(names)

MCGrid == {Rat(-1, 1), Rat(0, 1), Rat(1, 2), Rat(2, 1)}

N(n) == Num(Rat(n, 1))
A == Var("a")
B == Var("b")
V == Var("vec")

F64 == Base("f64")
Param(n, t) == [name |-> n, type |-> t]
Ensures(v, pred) == <<[v |-> v, pred |-> pred]>>

Fun(name, params, ret, requires, ensures, body) ==
    [name |-> name, params |-> params, ret |-> ret, requires |-> requires,
     ensures |-> ensures, body |-> body]

Module(types, funs) == [types |-> types, funs |-> funs]
Positive == [name |-> "Positive", type |-> Refine("v", F64, Bin("Gt", Var("v"), N(0)))]
Unit     == [name |-> "Unit", type |-> Refine("v", ArrayOf(F64, 1),
                                              Bin("Le", Method(Var("v"), "magnitude", << >>), N(1)))]
Vec1     == [name |-> "Vec1", type |-> ArrayOf(F64, 1)]

\* One function of two numbers
Two(requires, ensures, body) ==
    Module(<<Positive>>, <<Fun("f", <<Param("a", F64), Param("b", F64)>>, F64, requires, ensures, body)>>)

Quotient == Bin("Div", A, B)
Conds == {Bin("Gt", B, N(0)), Bin("Ge", B, N(0)), Bin("Lt", B, A), Bin("Le", B, N(0)),
          Bin("Ne", B, N(0)), Un("Not", Bin("Le", B, N(0)))}

\* A guard around a division, on either side of it
Guarded(conds) ==
    {Two(r, << >>, If(c, Return(t), Return(e))) :
        r \in {<< >>, <<Bin("Gt", A, N(0))>>}, c \in conds,
        t \in {Quotient, N(1)}, e \in {Quotient, Bin("Rem", N(1), A)}}

Nonlinear == {Two(<<Bin("Gt", A, N(0))>>, << >>, Return(Bin("Div", N(1), Bin("Mul", A, B)))),
              Two(<< >>, << >>, Return(Bin("Div", N(1), Bin("Div", Bin("Sub", A, A), N(2)))))}

\* Contracts that hold, and that do not
Contracts ==
    {Two(r, Ensures("r", Bin(op, Var("r"), k)), Return(x)) :
        r \in {<<Bin("And", Bin("Ge", A, N(1)), Bin("Ge", B, A))>>, <<Bin("Lt", A, B)>>,
               <<Bin("And", Bin("Gt", A, N(0)), Bin("Lt", A, N(0)))>>},
        op \in {"Ge", "Gt", "Eq"}, k \in {A, N(1)},
        x \in {B, Bin("Mul", N(2), Bin("Add", A, B)), Un("Neg", Bin("Sub", A, B))}}
    \cup {Two(<<Bin("Gt", A, N(0))>>,
              Ensures("r", Bin("And", Bin("Gt", Var("r"), A), Bin("Gt", Var("r"), N(0)))),
              Let("c", Bin("Add", A, N(1)), Return(x))) : x \in {Var("c"), Bin("Div", Var("c"), Var("c"))}}

\* Casts to refinements, by name and without one, and a lambda
Refined ==
    {Module(<<Positive>>, <<Fun("f", <<Param("a", F64)>>, Named("Positive"), <<Bin("Gt", A, N(0))>>, << >>,
                                Return(x))>>) :
        x \in {Cast(Record(<<"v">>, <<A>>), Named("Positive")), Record(<<"v">>, <<A>>),
               Cast(Record(<<"v">>, <<Bin("Sub", A, N(1))>>), Named("Positive"))}}
    \cup {Module(<<Vec1, Unit>>,
                 <<Fun("f", <<Param("vec", Named("Vec1"))>>, Named("Unit"), << >>, << >>,
                       Let("mag", Method(V, "magnitude", << >>),
                           If(Bin("Gt", Var("mag"), N(0)),
                              Return(Cast(Record(<<"v">>, <<Method(V, "map",
                                  <<Lambda(<<<<"x">>>>, Bin("Div", Var("x"), Var("mag")))>>)>>),
                                  Named("Unit"))),
                              Return(Cast(Record(<<"v">>, <<Array(<<N(0)>>)>>), Named("Unit"))))))>>),
          Module(<<Vec1>>,
                 <<Fun("f", <<Param("vec", Named("Vec1")), Param("w", Named("Vec1"))>>, F64, << >>, << >>,
                       Return(Method(Method(Method(V, "zip", <<Var("w")>>), "map",
                           <<Lambda(<<<<"x", "y">>>>, Bin("Sub", Var("x"), Var("y")))>>),
                           "magnitude", << >>)))>>),
          Module(<< >>, <<Fun("f", <<Param("a", F64)>>, Refine("v", F64, Bin("Ge", Var("v"), A)), << >>, << >>,
                              Return(Cast(Record(<<"v">>, <<A>>), Refine("v", F64, Bin("Ge", Var("v"), A)))))>>),
          Module(<<Vec1>>, <<Fun("f", <<Param("a", F64)>>, Named("Vec1"), << >>, << >>,
                                 Return(Array(<<A, A>>)))>>),
          Module(<< >>, <<Fun("f", <<Param("a", F64)>>, F64, << >>, << >>,
                              Return(Method(Record(<<"v">>, <<A>>), "v", << >>)))>>)}

\* Recursion that decreases, that does not, and a call that is no recursion
Recursive ==
    {Module(<< >>, <<Fun("f", <<Param("a", F64)>>, F64, << >>, << >>,
                         If(Bin("Gt", A, N(0)), Return(Call(g, <<x>>)), Return(N(0)))),
                     Fun("h", <<Param("a", F64)>>, F64, << >>, << >>, Return(A))>>) :
        g \in {"f", "h"}, x \in {Bin("Sub", A, N(1)), A, Bin("Add", A, N(1))}}

Programs == Guarded(Conds) \cup Nonlinear \cup Contracts \cup Refined \cup Recursive

Strengthen(extra) == [k |-> "strengthen", name |-> "f", extra |-> extra]
UseLemma(l)       == [k |-> "lemma", name |-> l, extra |-> N(0)]
Malformed         == [k |-> "malformed", name |-> "f", extra |-> N(0)]

\* Questions to the solver
L(a, b, k) == LinAdd(LinAdd(LinScale(LinVar(<<"x">>), Rat(a, 1)), LinScale(LinVar(<<"y">>), Rat(b, 1))),
                     LinConst(Rat(k, 2)))

Pool == {Constraint("Eq", L(2, 0, -2)), Constraint("Ge", L(1, 0, 0)), Constraint("Le", L(1, 1, -2)),
         Constraint("Gt", L(3, -2, -1)), Constraint("Lt", L(0, 1, 2)), Constraint("Gt", L(1, 0, 0)),
         Constraint("Le", L(1, -1, 0)), Constraint("Lt", L(7, -5, 9))}

Job(cmd, module, force, dir, steps, premises, concl) ==
    [cmd |-> cmd, module |-> module, force |-> force, dir |-> dir, steps |-> steps,
     premises |-> premises, concl |-> concl]

NoModule == Module(<< >>, << >>)
Old      == {[file |-> "lib.rs", holds |-> "old"]}
Zero     == Constraint("Eq", L(1, 0, 0))

MCCommands ==
    {Job("build", m, force, dir, << >>, << >>, Zero) :
        m \in Programs, force \in BOOLEAN, dir \in {{}, Old}}
    \cup {Job("check", m, FALSE, {}, << >>, << >>, Zero) : m \in Contracts}
    \cup {Job("suggest", m, FALSE, {}, <<Strengthen(Bin("Gt", B, N(0))), UseLemma("triangle_for_add"),
                                         UseLemma("other"), Malformed, Strengthen(Bin("Gt", B, N(-1)))>>,
              << >>, Zero) : m \in Guarded({Bin("Lt", A, N(1))})}
    \cup {Job("ask", NoModule, FALSE, {}, << >>, SetToSeq(ps), c) :
             ps \in {q \in SUBSET Pool : Cardinality(q) <= 3}, c \in Pool \cup {Constraint("Eq", L(1, -1, 0))}}

\* Guards the kernel's context overstates
MCLooseCommands ==
    {Job("check", m, FALSE, {}, << >>, << >>, Zero) :
        m \in Guarded({Bin("Eq", B, N(1)), Bin("And", Bin("Gt", A, N(0)), Bin("Gt", B, N(0)))})}
================================================================================
