------------------------------ MODULE EidosSolver ------------------------------
(****************************************************************************)
(* The QF_LRA procedure of eidos (eidos-verifier): Fourier-Motzkin over     *)
(* exact rationals.                                                         *)
(*                                                                          *)
(* A name is a tuple of strings (a variable, or the canonical form of a     *)
(* `magnitude' call).  The literals of a program are small dyadic numbers,  *)
(* on which f64 arithmetic is exact, so a LinExpr and the RatExpr made of   *)
(* it are one form here; what the solver computes with them is checked      *)
(* against the i128 range as in the code, with Limit for i128::MAX.         *)
(****************************************************************************)
EXTENDS Integers, SequencesExt

CONSTANTS Limit,            \* i128::MAX
          MaxConstraints,   \* MAX_CONSTRAINTS
          NameOrder(_)      \* the names of a set in the order of a BTreeSet

Ok(v) == [ok |-> TRUE, v |-> v]

Err == [ok |-> FALSE]

\* r is computed once
AndThen(r, F(_)) == CHOOSE y \in {IF x.ok THEN F(x.v) ELSE Err : x \in {r}} : TRUE

Shown(r) == r = Ok(TRUE)

\* All of a sequence of results, or none
AllOk(rs) == IF \A i \in DOMAIN rs : rs[i].ok THEN Ok([i \in DOMAIN rs |-> rs[i].v]) ELSE Err

Abs(n) == IF n < 0 THEN -n ELSE n

RECURSIVE Gcd(_, _)
Gcd(a, b) == IF b = 0 THEN (IF a = 0 THEN 1 ELSE a) ELSE Gcd(b, a % b)

--------------------------------------------------------------------------------
\* mod rat: lowest terms, a positive denominator
Rat(n, d) ==
    LET g == Gcd(Abs(n), Abs(d)) * (IF d < 0 THEN -1 ELSE 1)
    IN  IF n = 0 THEN [num |-> 0, den |-> 1] ELSE [num |-> n \div g, den |-> d \div g]

Whole(n) == Rat(n, 1)

Plus(a, b)  == Rat(a.num * b.den + b.num * a.den, a.den * b.den)
Times(a, b) == Rat(a.num * b.num, a.den * b.den)
Minus(a)    == [a EXCEPT !.num = -a.num]
Less(a, b)  == a.num * b.den < b.num * a.den

Fits(n) == -Limit - 1 <= n /\ n <= Limit

\* The result if none of the steps on the way to it overflows
Checked(steps, r) == IF \A n \in steps : Fits(n) THEN Ok(r) ELSE Err

CheckedNeg(a) == Checked({-a.num}, Minus(a))

CheckedAdd(a, b) ==
    LET g == Gcd(a.den, b.den)
        x == a.num * (b.den \div g)
        y == b.num * (a.den \div g)
    IN  Checked({x, y, x + y, (a.den \div g) * b.den}, Plus(a, b))

CheckedSub(a, b) == AndThen(CheckedNeg(b), LAMBDA n : CheckedAdd(a, n))

\* Both fractions are reduced crosswise before they are multiplied
CheckedMul(a, b) ==
    LET r == Times(a, b) IN Checked({r.num, r.den}, r)

Recip(a) == Rat(a.den, a.num)

--------------------------------------------------------------------------------
\* Linear forms; a name without a coefficient has coefficient zero
Coeff(e, v) == IF v \in DOMAIN e.coeffs THEN e.coeffs[v] ELSE Whole(0)

Form(names, F(_), k) ==
    [coeffs |-> [v \in {w \in names : F(w).num # 0} |-> F(v)], constant |-> k]

LinVar(v)   == Form({v}, LAMBDA w : Whole(1), Whole(0))
LinConst(r) == Form({}, LAMBDA w : Whole(0), r)
LinAdd(a, b) ==
    Form(DOMAIN a.coeffs \cup DOMAIN b.coeffs,
         LAMBDA w : Plus(Coeff(a, w), Coeff(b, w)), Plus(a.constant, b.constant))
LinScale(a, r) == Form(DOMAIN a.coeffs, LAMBDA w : Times(Coeff(a, w), r), Times(a.constant, r))
LinSub(a, b)   == LinAdd(a, LinScale(b, Whole(-1)))

Constraint(rel, e) == [rel |-> rel, e |-> e]

\* A checked operation on every coefficient and on the constant
CheckedForm(names, F(_), k) ==
    IF k.ok /\ \A v \in names : F(v).ok THEN Ok(Form(names, LAMBDA w : F(w).v, k.v)) ELSE Err

ExprAdd(a, b) ==
    CheckedForm(DOMAIN a.coeffs \cup DOMAIN b.coeffs,
                LAMBDA w : CheckedAdd(Coeff(a, w), Coeff(b, w)),
                CheckedAdd(a.constant, b.constant))

ExprScale(a, r) ==
    CheckedForm(DOMAIN a.coeffs, LAMBDA w : CheckedMul(Coeff(a, w), r),
                CheckedMul(a.constant, r))

ExprNeg(a) ==
    CheckedForm(DOMAIN a.coeffs, LAMBDA w : CheckedNeg(Coeff(a, w)), CheckedNeg(a.constant))

ExprSub(a, b) == AndThen(ExprNeg(b), LAMBDA n : ExprAdd(a, n))

\* A name the model leaves out is zero
Evaluate(e, m) ==
    FoldLeft(LAMBDA s, v :
                 AndThen(s, LAMBDA x :
                     AndThen(CheckedMul(e.coeffs[v], IF v \in DOMAIN m THEN m[v] ELSE Whole(0)),
                             LAMBDA y : CheckedAdd(x, y))),
             Ok(e.constant), NameOrder(DOMAIN e.coeffs))

--------------------------------------------------------------------------------
Leq(strict, e) == [strict |-> strict, e |-> e]

FromLin(e) ==
    CheckedForm(DOMAIN e.coeffs,
                LAMBDA w : Checked({Coeff(e, w).num, Coeff(e, w).den}, Coeff(e, w)),
                Checked({e.constant.num, e.constant.den}, e.constant))

\* A relation to zero as `e <= 0' and `e < 0'
Normalize(c) ==
    AndThen(FromLin(c.e), LAMBDA e :
        CASE c.rel = "Le" -> Ok(<<Leq(FALSE, e)>>)
          [] c.rel = "Lt" -> Ok(<<Leq(TRUE, e)>>)
          [] c.rel \in {"Ge", "Gt"} ->
                AndThen(ExprNeg(e), LAMBDA n : Ok(<<Leq(c.rel = "Gt", n)>>))
          [] c.rel = "Eq" ->
                AndThen(ExprNeg(e), LAMBDA n : Ok(<<Leq(FALSE, e), Leq(FALSE, n)>>)))

NormalizeAll(cs) ==
    AndThen(AllOk([i \in DOMAIN cs |-> Normalize(cs[i])]), LAMBDA ns : Ok(FlattenSeq(ns)))

NamesIn(norm) == UNION {DOMAIN norm[i].e.coeffs : i \in DOMAIN norm}

\* What x says of v: v <= bound for a positive coefficient, v >= bound otherwise
BoundOn(v, x) ==
    LET rest == [x.e EXCEPT !.coeffs = [w \in DOMAIN x.e.coeffs \ {v} |-> x.e.coeffs[w]]]
    IN  AndThen(ExprNeg(rest), LAMBDA n :
            AndThen(ExprScale(n, Recip(x.e.coeffs[v])), LAMBDA b : Ok(Leq(x.strict, b))))

Bounds(norm, v, Side(_)) ==
    LET mine == SelectSeq(norm, LAMBDA x : Side(Coeff(x.e, v).num))
    IN  AllOk([i \in DOMAIN mine |-> BoundOn(v, mine[i])])

Uppers(norm, v) == Bounds(norm, v, LAMBDA n : n > 0)

Lowers(norm, v) == Bounds(norm, v, LAMBDA n : n < 0)

\* A strict bound met with a lax one
Combine_Mut(u, l) == AndThen(ExprSub(l.e, u.e), LAMBDA d : Ok(Leq(u.strict /\ l.strict, d)))

\* lower <= v <= upper, without v
Combine(u, l) == AndThen(ExprSub(l.e, u.e), LAMBDA d : Ok(Leq(u.strict \/ l.strict, d)))

\* One round: v is gone, or the procedure gives up
Eliminate(norm, v) ==
    AndThen(Uppers(norm, v), LAMBDA us :
        AndThen(Lowers(norm, v), LAMBDA ls :
            LET rest  == SelectSeq(norm, LAMBDA x : Coeff(x.e, v).num = 0)
                pairs == Len(us) * Len(ls)
                pair(i) == Combine(us[((i - 1) \div Len(ls)) + 1], ls[((i - 1) % Len(ls)) + 1])
            IN  IF Len(rest) + pairs > MaxConstraints THEN Err
                ELSE AndThen(AllOk([i \in 1..pairs |-> pair(i)]), LAMBDA new : Ok(rest \o new))))

\* The systems of the rounds, the first name of what is left at each of them
Trail(norm) ==
    FoldLeft(LAMBDA acc, v :
                 AndThen(acc, LAMBDA t :
                     IF v \notin NamesIn(Last(t).norm) THEN Ok(t)
                     ELSE AndThen(Eliminate(Last(t).norm, v), LAMBDA next :
                              Ok(Append(Front(t), [norm |-> Last(t).norm, v |-> v])
                                 \o <<[norm |-> next, v |-> << >>]>>))),
             Ok(<<[norm |-> norm, v |-> << >>]>>), NameOrder(NamesIn(norm)))

\* A system without names holds
Closed(norm) ==
    \A i \in DOMAIN norm : LET n == norm[i].e.constant.num IN n < 0 \/ (n = 0 /\ ~norm[i].strict)

\* fm_unsat and unsat: whatever could not be computed is not proved
Unsat(cs) ==
    Shown(AndThen(NormalizeAll(cs), LAMBDA n :
              AndThen(Trail(n), LAMBDA t : Ok(~Closed(Last(t).norm)))))

\* The negation, as constraints one of which holds
Negate(c) ==
    LET with(rel) == <<Constraint(rel, c.e)>>
    IN  CASE c.rel = "Le" -> with("Gt")
          [] c.rel = "Lt" -> with("Ge")
          [] c.rel = "Ge" -> with("Lt")
          [] c.rel = "Gt" -> with("Le")
          [] c.rel = "Eq" -> with("Lt") \o with("Gt")

Entails(premises, c) == \A n \in Range(Negate(c)) : Unsat(Append(premises, n))

--------------------------------------------------------------------------------
\* The least or the greatest of some bounds; comparing them may overflow
Extreme(rs, Better(_)) ==
    FoldLeft(LAMBDA acc, x :
                 AndThen(acc, LAMBDA cur :
                     AndThen(CheckedSub(x, cur), LAMBDA d : Ok(IF Better(d.num) THEN x ELSE cur))),
             Ok(Head(rs)), Tail(rs))

\* A value for the name eliminated in a round, between its bounds
ValueFor(round, m) ==
    LET values(bs) == AndThen(bs, LAMBDA xs : AllOk([i \in DOMAIN xs |-> Evaluate(xs[i].e, m)]))
    IN  AndThen(values(Uppers(round.norm, round.v)), LAMBDA us :
            AndThen(values(Lowers(round.norm, round.v)), LAMBDA ls :
                LET upper == Extreme(us, LAMBDA n : n < 0)
                    lower == Extreme(ls, LAMBDA n : n > 0)
                IN  CASE us # << >> /\ ls # << >> ->
                            AndThen(upper, LAMBDA u : AndThen(lower, LAMBDA l :
                                AndThen(CheckedAdd(u, l), LAMBDA s : CheckedMul(s, Rat(1, 2)))))
                      [] us # << >> /\ ls = << >> ->
                            AndThen(upper, LAMBDA u : CheckedSub(u, Whole(1)))
                      [] us = << >> /\ ls # << >> ->
                            AndThen(lower, LAMBDA l : CheckedAdd(l, Whole(1)))
                      [] OTHER -> Ok(Whole(0))))

\* solve and find_model: back through the rounds from the last one
FindModel(cs) ==
    AndThen(AndThen(NormalizeAll(cs), LAMBDA n : Trail(n)), LAMBDA t :
        IF ~Closed(Last(t).norm) THEN Err
        ELSE FoldRight(LAMBDA round, acc :
                 AndThen(acc, LAMBDA m :
                     AndThen(ValueFor(round, m), LAMBDA x : Ok(m @@ (round.v :> x)))),
                 Front(t), Ok(<< >>)))

\* The model of the first part of the negation that has one
Counterexample(premises, c) ==
    LET models == [i \in DOMAIN Negate(c) |-> FindModel(Append(premises, Negate(c)[i]))]
        having == {i \in DOMAIN models : models[i].ok}
    IN  IF having = {} THEN Err ELSE models[Min(having)]

--------------------------------------------------------------------------------
\* What a constraint says of a model, for the properties
Holds(c, m) ==
    LET x == FoldLeft(LAMBDA s, v : Plus(s, Times(c.e.coeffs[v],
                                                  IF v \in DOMAIN m THEN m[v] ELSE Whole(0))),
                      c.e.constant, NameOrder(DOMAIN c.e.coeffs)).num
    IN  CASE c.rel = "Le" -> x <= 0
          [] c.rel = "Lt" -> x < 0
          [] c.rel = "Ge" -> x >= 0
          [] c.rel = "Gt" -> x > 0
          [] c.rel = "Eq" -> x = 0
================================================================================
