------------------------------- MODULE SolverPool -------------------------------
(****************************************************************************)
(* The worker pool of telos-verifier: problems are dealt to the workers in  *)
(* turn, every worker answers its own queue in order, and verify_all        *)
(* collects the answers, which arrive in any order, until it has them all.  *)
(****************************************************************************)
EXTENDS TelosSolver

CONSTANTS Batches,     \* sequences of problems
          PoolOrders(_), \* orders the solver may take a set of names in
          NumWorkers,
          MaxBatches,  \* bound: calls of verify_all
          PoolBox      \* the integers the properties try for every name

VARIABLES batch,       \* the problems of the call
          queues,      \* worker -> the problems waiting for it
          channel,     \* answers on their way
          results,     \* problem -> its answer, if it has arrived
          calls        \* calls of verify_all so far

poolVars == <<batch, queues, channel, results, calls>>

NoAnswer == [done |-> FALSE]

Workers == 0..(NumWorkers - 1)

PoolInit ==
    /\ batch = << >>
    /\ queues = [w \in Workers |-> << >>]
    /\ channel = << >>
    /\ results = << >>
    /\ calls = 0

\* The turn passes through one worker too many
Dealt_Mut(problems, w) ==
    SelectSeq([i \in DOMAIN problems |-> i], LAMBDA i : (i - 1) % (NumWorkers + 1) = w)

\* The problems are dealt out in turn
Dealt(problems, w) ==
    SelectSeq([i \in DOMAIN problems |-> i], LAMBDA i : (i - 1) % NumWorkers = w)

\* verify_all deals out every problem
Send(problems) ==
    /\ calls < MaxBatches /\ \A i \in DOMAIN results : results[i].done
    /\ batch' = problems
    /\ queues' = [w \in Workers |-> Dealt(problems, w)]
    /\ results' = [i \in DOMAIN problems |-> NoAnswer]
    /\ calls' = calls + 1
    /\ UNCHANGED channel

ProblemNames(p) ==
    UNION {DOMAIN x.lin.terms : x \in p.premises \cup {c.constraint : c \in Range(p.conclusions)}}

\* What the worker has to say of a problem
Answer(p, order) == [done |-> TRUE, passed |-> AllPassed(Checks(p, order)), checks |-> Checks(p, order)]

Work(w) ==
    /\ queues[w] # << >>
    /\ \E order \in PoolOrders(ProblemNames(batch[Head(queues[w])])) :
          channel' = Append(channel, <<Head(queues[w]), Answer(batch[Head(queues[w])], order)>>)
    /\ queues' = [queues EXCEPT ![w] = Tail(@)]
    /\ UNCHANGED <<batch, results, calls>>

\* An answer is filed where it arrives
Collect_Mut ==
    /\ channel # << >>
    /\ results' = [results EXCEPT ![CHOOSE i \in DOMAIN results : ~results[i].done
                                        /\ \A j \in 1..(i - 1) : results[j].done] = Head(channel)[2]]
    /\ channel' = Tail(channel)
    /\ UNCHANGED <<batch, queues, calls>>

Collect ==
    /\ channel # << >>
    /\ results' = [results EXCEPT ![Head(channel)[1]] = Head(channel)[2]]
    /\ channel' = Tail(channel)
    /\ UNCHANGED <<batch, queues, calls>>

PoolNext == (\E b \in Batches : Send(b)) \/ (\E w \in Workers : Work(w)) \/ Collect

\* Whether an assignment of integers satisfies a constraint
Holds(x, m) ==
    LET v == Eval(x.lin.terms, m) + x.lin.constant
    IN  CASE x.rel = "Le" -> v <= 0 [] x.rel = "Lt" -> v < 0 [] x.rel = "Eq" -> v = 0
          [] x.rel = "Ge" -> v >= 0 [] x.rel = "Gt" -> v > 0 [] x.rel = "Ne" -> v # 0

\* A passed check holds of every assignment that satisfies the premises, and a
\* counterexample satisfies the premises (but for `!=', which the solver passes
\* over) and breaks the conclusion.
CheckSound(p, check) ==
    /\ check.passed =>
           \A m \in [ProblemNames(p) -> PoolBox] :
               (\A x \in p.premises : Holds(x, m)) => Holds(check.concl.constraint, m)
    /\ check.witness.found =>
           /\ SatisfiesModel(p.premises, check.witness.model)
           /\ \A x \in p.premises : x.rel # "Ne" => Holds(x, check.witness.model)
           /\ ~Holds(check.concl.constraint, check.witness.model)

\* verify_all files every answer under the problem it answers, however the
\* workers are interleaved, and every check it reports is sound.
PoolSound ==
    \A i \in DOMAIN results : results[i].done =>
        /\ {results[i].checks[j].concl : j \in DOMAIN results[i].checks} = Range(batch[i].conclusions)
        /\ \A j \in DOMAIN results[i].checks : CheckSound(batch[i], results[i].checks[j])
        /\ results[i].passed => \A j \in DOMAIN results[i].checks :
               results[i].checks[j].concl.group = 0 => results[i].checks[j].passed

\* The workers are threads of their own and verify_all blocks until it has every
\* answer: each is fair.  (A worker that panics would leave it waiting.)  A
\* worker's weak fairness is written out: it can work while its queue is not empty.
WorkerFairness(w) ==
    []<>(queues[w] = << >>) \/ []<><<Len(queues'[w]) < Len(queues[w])>>_poolVars

PoolFairness == (\A w \in Workers : WorkerFairness(w)) /\ WF_poolVars(Collect)

\* verify_all returns: every problem of every call gets its answer.
AllAnswered == []<>(\A i \in DOMAIN results : results[i].done)
================================================================================
