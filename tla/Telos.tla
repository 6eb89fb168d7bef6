--------------------------------- MODULE Telos ---------------------------------
(****************************************************************************)
(* The agentic loop of telos (telos-agent): generate, verify, take the      *)
(* counterexample, rewrite, until a candidate is verified or the agent has  *)
(* nothing new; and `telos verify', which checks a body as it is written.   *)
(*                                                                          *)
(* A job is a function with the invariants of its module, the command that  *)
(* is run on it and the agent.  The language model (external) answers with  *)
(* any candidate of the job or with an error.  problem_for panics when the  *)
(* extraction fails and when it gives other than one problem.               *)
(****************************************************************************)
EXTENDS TelosCode

CONSTANTS Jobs,        \* records [func, invariants, agent, replies]
          Orders(_),   \* orders the solver may take a set of names in
          MaxIters,    \* MAX_ITERS
          Box          \* the integers the properties try for every name

VARIABLES job,         \* the function that is transpiled or verified
          pc,          \* "start", "verify", "rewrite", "synthesize" or "done"
          candidate,   \* the body under consideration
          iter,        \* how often the loop has verified a candidate
          ce,          \* the counterexample for the agent
          outcome      \* [result, body]

vars == <<job, pc, candidate, iter, ce, outcome>>

NoOutcome == [result |-> "none", body |-> << >>, approx |-> FALSE]

Init ==
    /\ job \in Jobs
    /\ pc = "start"
    /\ candidate = << >>
    /\ iter = 0
    /\ ce = << >>
    /\ outcome = NoOutcome

WithBody(stmts) == [job.func EXCEPT !.body = stmts]

Problems(stmts) == BuildProblems(WithBody(stmts), job.invariants)

Names(problem) ==
    UNION {DOMAIN x.lin.terms :
           x \in problem.premises \cup {c.constraint : c \in Range(problem.conclusions)}}

Approximated(problem) == \E c \in Range(problem.conclusions) : c.approx

Finish(result, stmts, approx) ==
    /\ pc' = "done"
    /\ outcome' = [result |-> result, body |-> stmts, approx |-> approx]
    /\ UNCHANGED <<job, candidate, iter, ce>>

\* find_counterexample pairs the conclusions with the checks by position
FindCounterexample(problem, checks, order) ==
    LET failed == {i \in DOMAIN checks : ~checks[i].passed
                      /\ Counterexample(problem.premises, problem.conclusions[i].constraint,
                                        order).found}
    IN  IF failed = {} THEN << >>
        ELSE Counterexample(problem.premises, problem.conclusions[Min(failed)].constraint,
                            order).model

--------------------------------------------------------------------------------
\* telos verify: every problem of the body as written
VerifyCommand ==
    /\ pc = "start" /\ job.agent = "none"
    /\ LET ps == Problems(job.func.body)
       IN  IF ~ps.ok THEN Finish("error", job.func.body, FALSE)
           ELSE \E order \in Orders(UNION {Names(p) : p \in Range(ps.v)}) :
                   Finish(IF \A p \in Range(ps.v) : AllPassed(Checks(p, order))
                          THEN "verified" ELSE "unverified",
                          job.func.body, \E p \in Range(ps.v) : Approximated(p))

Begin(stmts) ==
    /\ candidate' = stmts
    /\ pc' = "verify"
    /\ UNCHANGED <<job, iter, ce, outcome>>

Generate ==
    /\ pc = "start" /\ job.agent # "none"
    /\ IF job.func.body # << >> THEN Begin(job.func.body)
       ELSE IF job.agent = "static" THEN Begin(SynthesizeFromEnsures(job.func))
       ELSE (\E stmts \in job.replies : Begin(stmts)) \/ Finish("error", << >>, FALSE)

\* One pass of the loop up to the counterexample; the pass after the last only
\* checks again
Verify ==
    /\ pc = "verify"
    /\ LET ps == Problems(candidate)
       IN  IF ~ps.ok \/ Len(ps.v) # 1 THEN Finish("panic", candidate, FALSE)
           ELSE \E order \in Orders(Names(ps.v[1])) :
                LET checks == Checks(ps.v[1], order)
                IN  IF iter = MaxIters THEN Finish("unverified", candidate, Approximated(ps.v[1]))
                    ELSE IF AllPassed(checks)
                    THEN Finish("verified", candidate, Approximated(ps.v[1]))
                    ELSE /\ pc' = "rewrite"
                         /\ ce' = FindCounterexample(ps.v[1], checks, order)
                         /\ UNCHANGED <<job, candidate, iter, outcome>>

\* A repeated candidate is verified again
Repair_Mut(stmts) ==
    /\ pc' = "verify" /\ candidate' = stmts
    /\ iter' = IF stmts = candidate THEN iter ELSE iter + 1
    /\ UNCHANGED <<job, ce, outcome>>

Repair(stmts) ==
    /\ IF stmts = candidate
       THEN pc' = "synthesize" /\ UNCHANGED <<candidate, iter>>
       ELSE pc' = "verify" /\ candidate' = stmts /\ iter' = iter + 1
    /\ UNCHANGED <<job, ce, outcome>>

Rewrite ==
    /\ pc = "rewrite"
    /\ IF job.agent = "static" THEN Repair(StaticRewrite(job.func, candidate, ce))
       ELSE (\E stmts \in job.replies : Repair(stmts)) \/ Finish("error", candidate, FALSE)

\* The fallback when the agent repeats itself
Synthesize ==
    /\ pc = "synthesize"
    /\ LET stmts == SynthesizeFromEnsures(job.func)
           ps    == Problems(stmts)
       IN  IF ~ps.ok \/ Len(ps.v) # 1 THEN Finish("panic", stmts, FALSE)
           ELSE \E order \in Orders(Names(ps.v[1])) :
                   Finish(IF AllPassed(Checks(ps.v[1], order)) THEN "verified" ELSE "unverified",
                          stmts, Approximated(ps.v[1]))

Next == VerifyCommand \/ Generate \/ Verify \/ Rewrite \/ Synthesize

Spec == Init /\ [][Next]_vars

--------------------------------------------------------------------------------
\* The states before a call in which the properties try a function
States ==
    [{<<x[1], x[2]>> : x \in Referenced(WithBody(outcome.body), job.invariants)}
     \cup {VarName(p.name) : p \in {q \in Range(job.func.params) :
                                        q.type \in {"Int", "PositiveInt"}}} -> Box]

RECURSIVE Flat(_)
Flat(stmts) ==
    FlattenSeq([i \in DOMAIN stmts |->
        CASE stmts[i].k \in {"mutate", "assign"} -> stmts[i].assigns
          [] stmts[i].k = "if" ->
                <<[target |-> Num(0), op |-> "Set", value |-> stmts[i].cond]>>
                \o FlattenSeq([j \in DOMAIN stmts[i].arms |-> Flat(stmts[i].arms[j])])
          [] OTHER -> << >>])

\* No path writes a field twice, as far as the order of the text tells
WritesOnce(stmts) ==
    \A i, j \in DOMAIN Flat(stmts) :
        i # j /\ Flat(stmts)[i].target.k = "field" => Flat(stmts)[i].target # Flat(stmts)[j].target

\* Nothing is read after it was written
ReadsFirst(stmts) ==
    \A i, j \in DOMAIN Flat(stmts) :
        i < j => FieldsIn(Flat(stmts)[i].target) \cap
                 (FieldsIn(Flat(stmts)[j].value)
                  \cup IF Flat(stmts)[j].op = "Set" THEN {} ELSE FieldsIn(Flat(stmts)[j].target)) = {}

RECURSIVE Runs(_)
Runs(stmts) ==
    \A i \in DOMAIN stmts :
        /\ stmts[i].k \notin {"let", "return"}
        /\ stmts[i].k \in {"if", "match"} => \A a \in Range(stmts[i].arms) : Runs(a)

\* The compiler reads every expression as it was meant
ReadsBack(stmts) ==
    \A a \in Range(Flat(stmts)) : Parsed(RenderExpr(a.value)) = ResolveOld(a.value)

\* No disjunct of an ensures clause is a conjunction
SimpleDisjuncts == \A e \in Range(job.func.ensures) : ~(HasOr(e) /\ \E i \in DOMAIN e.args :
                        e.args[i].k = "bin" /\ e.args[i].op = "And")

Proved(stmts) == outcome.result = "verified" /\ ~outcome.approx /\ SimpleDisjuncts

\* A function reported verified keeps its contract: from every state its
\* requires clauses and invariants admit, what the extraction takes the body to
\* mean meets the ensures clauses and the invariants.  So does the generated
\* code, when it compiles, no expression loses its parentheses, and no field is
\* written twice or read after it was written.
VerifiedHolds ==
    Proved(outcome.body) /\ WritesOnce(outcome.body) =>
        \A pre \in States : Admits(job.func, job.invariants, pre) =>
            /\ Meets(job.func, job.invariants, pre, Meaning(outcome.body, pre))
            /\ Compiles(outcome.body) /\ ReadsBack(outcome.body) /\ ReadsFirst(outcome.body)
               /\ Runs(outcome.body) =>
                   Meets(job.func, job.invariants, pre, GeneratedCode(outcome.body, pre))

\* The guard of an ejected function lets through exactly the calls that keep the
\* contract, whatever its opaque block does, when its clauses keep their shape.
GuardsEnforce ==
    outcome.result = "verified"
    /\ (\A e \in Range(job.func.requires) \cup Range(job.func.ensures) :
            RustGuard(Parsed(RustGuard(e, FALSE)), FALSE) = RustGuard(e, FALSE)
            /\ Parsed(RenderExpr(e)) = ResolveOld(e)) =>
        \A pre, cur \in States :
            GuardAccepts(job.func, pre, cur) <=>
                /\ \A e \in Range(job.func.requires) : Value(e, pre, pre)
                /\ \A e \in Range(job.func.ensures) : Value(e, pre, cur)

\* What telos calls verified keeps its contract, and an ejected guard enforces it.
ContractsKept == VerifiedHolds /\ GuardsEnforce

\* The emitted code is verified before it is written out: what compiles and was
\* reported verified keeps its contract when it runs.
EmittedIsVerified ==
    Proved(outcome.body) /\ Compiles(outcome.body) =>
        \A pre \in States : Admits(job.func, job.invariants, pre) =>
            Meets(job.func, job.invariants, pre, GeneratedCode(outcome.body, pre))

\* The loop ends: every step of the loop goes on to a later phase or a later
\* iteration, of which there are MAX_ITERS.
Phase == CASE pc = "start" -> 0 [] pc = "verify" -> 1 [] pc = "rewrite" -> 2
           [] pc = "synthesize" -> 3 [] pc = "done" -> 4

LoopAdvances ==
    [][iter' \in iter..MaxIters /\ 4 * iter' + Phase' > 4 * iter + Phase]_vars
================================================================================
