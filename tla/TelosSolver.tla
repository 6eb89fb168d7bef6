------------------------------ MODULE TelosSolver ------------------------------
(****************************************************************************)
(* The decision procedure of telos: linear forms (telos-ir), the            *)
(* Fourier-Motzkin solver and the check of a verification problem           *)
(* (telos-verifier).                                                        *)
(*                                                                          *)
(* A linear form maps the names it mentions to coefficients; a system is a  *)
(* set, since the solver's answers do not depend on how often an inequality *)
(* is listed.  The solver takes the variables in the order its hash maps    *)
(* give them: `order' is such an order, a sequence with every name once.    *)
(* i64 and i128 arithmetic is exact (the coefficients here stay small).     *)
(****************************************************************************)
EXTENDS Integers, SequencesExt

At(f, v) == IF v \in DOMAIN f THEN f[v] ELSE 0

--------------------------------------------------------------------------------
LinVar(v) == [terms |-> v :> 1, constant |-> 0]

ConstantOnly(n) == [terms |-> << >>, constant |-> n]

\* Linear::add forgets the names whose coefficients cancel
LinAdd(a, b) ==
    LET coeff(v) == At(a.terms, v) + At(b.terms, v)
        names    == {v \in DOMAIN a.terms \cup DOMAIN b.terms : coeff(v) # 0}
    IN  [terms |-> [v \in names |-> coeff(v)], constant |-> a.constant + b.constant]

LinScale(a, k) ==
    [terms |-> [v \in DOMAIN a.terms |-> k * a.terms[v]], constant |-> k * a.constant]

LinNeg(a) == LinScale(a, -1)

LinSub(a, b) == LinAdd(a, LinNeg(b))

Constraint(lin, rel) == [lin |-> lin, rel |-> rel]

--------------------------------------------------------------------------------
\* A strict inequality over the reals
InequalitiesOf_Mut(x) ==
    LET upper == {[coeffs |-> x.lin.terms, c |-> -x.lin.constant]}
        lower == {[coeffs |-> LinNeg(x.lin).terms, c |-> x.lin.constant - 1]}
    IN  CASE x.rel \in {"Le", "Lt"} -> upper
          [] x.rel \in {"Ge", "Gt"} -> lower
          [] x.rel = "Eq" -> upper \cup lower
          [] x.rel = "Ne" -> {}

\* sum(coeff * var) <= c, one or two for a constraint and none for `!='
InequalitiesOf(x) ==
    LET upper(strict) == {[coeffs |-> x.lin.terms, c |-> -x.lin.constant - strict]}
        lower(strict) == {[coeffs |-> LinNeg(x.lin).terms, c |-> x.lin.constant - strict]}
    IN  CASE x.rel = "Le" -> upper(0)
          [] x.rel = "Lt" -> upper(1)
          [] x.rel = "Ge" -> lower(0)
          [] x.rel = "Gt" -> lower(1)
          [] x.rel = "Eq" -> upper(0) \cup lower(0)
          [] x.rel = "Ne" -> {}

ToInequalities(cs) == UNION {InequalitiesOf(x) : x \in cs}

Uppers(ineqs, v) == {i \in ineqs : At(i.coeffs, v) > 0}

Lowers(ineqs, v) == {i \in ineqs : At(i.coeffs, v) < 0}

\* What an upper and a lower bound on v say of the other names
Combined(u, l, v) ==
    LET a == u.coeffs[v]
        e == -l.coeffs[v]
        coeff(k) == e * At(u.coeffs, k) + a * At(l.coeffs, k)
        names    == {k \in (DOMAIN u.coeffs \cup DOMAIN l.coeffs) \ {v} : coeff(k) # 0}
    IN  [coeffs |-> [k \in names |-> coeff(k)], c |-> e * u.c + a * l.c]

Eliminate(ineqs, v) ==
    (ineqs \ (Uppers(ineqs, v) \cup Lowers(ineqs, v)))
        \cup {Combined(p[1], p[2], v) : p \in Uppers(ineqs, v) \X Lowers(ineqs, v)}

Unsat(cs, order) ==
    \E i \in FoldLeft(Eliminate, ToInequalities(cs), order) : i.coeffs = << >> /\ i.c < 0

\* The relations whose disjunction is the negation
Negate(rel) ==
    CASE rel = "Eq" -> <<"Lt", "Gt">>
      [] rel = "Ne" -> <<"Eq">>
      [] rel = "Le" -> <<"Gt">>
      [] rel = "Lt" -> <<"Ge">>
      [] rel = "Ge" -> <<"Lt">>
      [] rel = "Gt" -> <<"Le">>

Entails(premises, concl, order) ==
    \A r \in Range(Negate(concl.rel)) : Unsat(premises \cup {Constraint(concl.lin, r)}, order)

--------------------------------------------------------------------------------
NoModel == [found |-> FALSE]

Found(m) == [found |-> TRUE, model |-> m]

Eval(coeffs, m) == MapThenSumSet(LAMBDA v : coeffs[v] * At(m, v), DOMAIN coeffs)

CeilDiv(n, d) == -((-n) \div d)

\* The value solve_model gives v once it has one for every other name.  A
\* fraction is rounded into its interval before the bounds are compared.
Recovered(ineqs, v, m) ==
    LET low  == {CeilDiv(Eval(i.coeffs, m) - i.c, -i.coeffs[v]) : i \in Lowers(ineqs, v)}
        high == {(i.c - Eval(i.coeffs, m)) \div i.coeffs[v] : i \in Uppers(ineqs, v)}
        both == low # {} /\ high # {}
    IN  IF both /\ Max(low) > Min(high) THEN NoModel
        ELSE Found(m @@ (v :> IF low # {} THEN Max(low)
                              ELSE IF high # {} THEN Min(high) ELSE 0))

RECURSIVE SolveModel(_, _)
SolveModel(ineqs, order) ==
    IF order = << >>
    THEN IF \E i \in ineqs : i.c < 0 THEN NoModel ELSE Found(<< >>)
    ELSE LET v   == Head(order)
             sub == SolveModel(Eliminate(ineqs, v), Tail(order))
         IN  IF sub.found /\ \E i \in ineqs : v \in DOMAIN i.coeffs
             THEN Recovered(ineqs, v, sub.model) ELSE sub

Model(cs, order) == SolveModel(ToInequalities(cs), order)

\* The model of the first branch of the negation that has one
Counterexample(premises, concl, order) ==
    LET models == [i \in DOMAIN Negate(concl.rel) |->
                      Model(premises \cup {Constraint(concl.lin, Negate(concl.rel)[i])}, order)]
        having == {i \in DOMAIN models : models[i].found}
    IN  IF having = {} THEN NoModel ELSE models[Min(having)]

\* satisfies_model, which passes over `!='
SatisfiesModel(cs, m) == \A i \in ToInequalities(cs) : Eval(i.coeffs, m) <= i.c

--------------------------------------------------------------------------------
\* A conclusion: its constraint, its disjunction (0: it stands alone) and
\* whether a product in it was approximated.
Conclusion(constraint, group, approx) ==
    [constraint |-> constraint, group |-> group, approx |-> approx]

Check(problem, concl, order) ==
    LET passed == Entails(problem.premises, concl.constraint, order)
    IN  [concl   |-> concl,
         passed  |-> passed,
         witness |-> IF passed THEN NoModel
                     ELSE Counterexample(problem.premises, concl.constraint, order)]

\* verify: the conclusions that stand alone come first in the checks
Checks(problem, order) ==
    LET alone(c) == c.group = 0
    IN  [i \in 1..Len(problem.conclusions) |->
            Check(problem, (SelectSeq(problem.conclusions, alone)
                            \o SelectSeq(problem.conclusions, LAMBDA c : ~alone(c)))[i], order)]

\* All conclusions that stand alone, and one of every group
AllPassed(checks) ==
    \A i \in DOMAIN checks :
        IF checks[i].concl.group = 0 THEN checks[i].passed
        ELSE \E j \in DOMAIN checks :
                 checks[j].concl.group = checks[i].concl.group /\ checks[j].passed
================================================================================
