-------------------------------- MODULE MCTelos --------------------------------
(* The telos loop on small programs, the worker pool on small problems and the
   commands that write, and beside them the other scheduler of the repository,
   the kernel of tpt-archon: part says which of them runs. *)
EXTENDS Telos, SolverPool, Kernel

CONSTANTS Versions, MaxEdits, MaxCommands

VARIABLES part, source, disk, command, exit, edits, commands

buildVars == <<source, disk, command, exit, edits, commands>>

Build == INSTANCE TelosBuild

Wx == Field("w", "x")
Wy == Field("w", "y")
N  == Var("n")

Func(requires, ensures, body) ==
    [params   |-> <<[name |-> "w", type |-> "Pair"], [name |-> "n", type |-> "PositiveInt"]>>,
     requires |-> requires, ensures |-> ensures, body |-> body]

NonNegative == [Pair |-> <<Bin("Ge", Var("x"), Num(0))>>]
None        == [Other |-> << >>]

Job(func, invariants, agent, replies) ==
    [func |-> func, invariants |-> invariants, agent |-> agent, replies |-> replies]

\* Withdrawal and its wrong or incomplete bodies
Withdraw(requires, body) ==
    Func(requires, <<Bin("Eq", Wx, Bin("Sub", Old(Wx), N))>>, body)

Enough == Bin("Ge", Wx, N)
Right  == <<Mutate(<<Dec("w", "x", N)>>)>>
Wrong  == <<Mutate(<<Dec("w", "x", Bin("Add", N, Num(1)))>>)>>
Other  == <<Mutate(<<Dec("w", "x", N), Inc("w", "y", Num(1))>>)>>

\* Other shapes of contracts and bodies
Swap  == Func(<< >>, <<Bin("Eq", Wx, Old(Wy)), Bin("Eq", Wy, Old(Wx))>>, << >>)
Split == Func(<< >>, <<Bin("Ge", Wx, Bin("Sub", Old(Wx), Num(1)))>>,
              <<IfStmt(Bin("Gt", Wx, Num(0)), <<Assign(Dec("w", "x", Num(1)))>>, << >>),
                Mutate(<<Set("w", "y", Num(0))>>)>>)
Either == Func(<<Bin("Or", Bin("Eq", N, Num(1)), Bin("Eq", N, Num(2)))>>,
               <<Bin("Or", Bin("Gt", Wx, Old(Wx)), Bin("Gt", Wy, Num(2)))>>,
               <<Mutate(<<Inc("w", "x", N)>>)>>)
Scaled == Func(<<Forall("i", Num(0), Num(2), Bin("Ge", Wx, Var("i")))>>,
               <<Bin("And", Bin("Eq", Bin("Mul", Num(2), Wx), Bin("Mul", N, Num(4))),
                     Bin("Ne", Wx, Num(1)))>>,
               <<Mutate(<<Set("w", "x", Bin("Div", Bin("Mul", Num(4), N), Num(2)))>>)>>)
Square == Func(<<Bin("Le", N, Num(2))>>, <<Bin("Le", Wx, Bin("Mul", N, N))>>,
               <<Mutate(<<Set("w", "x", N)>>)>>)
Grouped == Func(<< >>, <<Bin("Eq", Wx, Bin("Sub", Old(Wx), Bin("Sub", N, Num(1))))>>, << >>)
Scalar == Func(<< >>, <<Bin("Eq", N, Num(1))>>, << >>)
Cases  == Func(<<IfExpr(Bin("Gt", N, Num(1)), Bin("Ge", Wx, N), Bin("Ge", Wx, Num(0)))>>,
               <<Bin("Ge", Wx, Num(-1))>>, Right)

MCJobs ==
    {Job(Withdraw(r, b), i, a, {Right, Wrong, Other}) :
        r \in {<< >>, <<Enough>>}, b \in {<< >>, Right, Wrong},
        i \in {None, NonNegative}, a \in {"none", "static", "llm"}}
    \cup {Job(f, i, a, {}) : f \in {Swap, Split, Either, Scaled, Square, Grouped, Scalar, Cases},
                             i \in {None, NonNegative}, a \in {"none", "static"}}

\* Two of the orders a hash map may give
MCOrders(names) == LET s == SetToSeq(names) IN {s, Reverse(s)}

MCBox == -1..3

--------------------------------------------------------------------------------
\* Problems over two names
L(a, b, k) ==
    [terms |-> [v \in (IF a = 0 THEN {} ELSE {<<"x">>}) \cup (IF b = 0 THEN {} ELSE {<<"y">>}) |->
                   IF v = <<"x">> THEN a ELSE b],
     constant |-> k]

Pool == {Constraint(L(2, 0, -1), "Eq"), Constraint(L(1, 0, 0), "Ge"),
         Constraint(L(1, 1, -2), "Le"), Constraint(L(3, -2, -1), "Gt"),
         Constraint(L(0, 1, 1), "Lt"), Constraint(L(1, 0, 0), "Ne"),
         Constraint(L(1, -1, 0), "Eq")}

Prob(premises, c) == [premises |-> premises, conclusions |-> <<Conclusion(c, 0, FALSE)>>]

MCBatches ==
    {<<Prob(ps, c)>> : ps \in {q \in SUBSET Pool : Cardinality(q) \in 1..3}, c \in Pool}
    \cup {<<Prob({a}, c), Prob({c}, a), Prob({a}, a)>> : a \in Pool, c \in Pool}

\* Sources with two modules, with a routing conflict, and one that does not parse
Version(i, modules, loads, verified) ==
    [id |-> i, modules |-> modules, loads |-> loads, verified |-> verified]

MCVersions ==
    {Version(1, <<{"cpu_bound"}, {"network_io"}>>, TRUE, TRUE),
     Version(2, <<{"network_io", "real_time"}>>, TRUE, TRUE),
     Version(3, <<{"python"}, {"crypto"}>>, TRUE, FALSE),
     Version(4, << >>, FALSE, FALSE)}

--------------------------------------------------------------------------------
(* Tasks that write to and read from one channel, register it again, and map *)
(* two pages over one frame.                                                  *)
Cap(res, rights) == [resource |-> res, rights |-> rights]
SendC     == [call |-> "send", channel |-> "c", cap |-> Cap(<<"Channel", "c">>, {"write"})]
ReceiveC  == [call |-> "receive", channel |-> "c", cap |-> Cap(<<"Channel", "c">>, {"read", "write"})]
RegisterC == [call |-> "register", channel |-> "c"]
Map(pg)   == [call |-> "map", page |-> pg, right |-> "read", cap |-> Cap(<<"Page", pg>>, {"read"})]
Unmap(pg) == [call |-> "unmap", page |-> pg]
MintCap   == [call |-> "mint"]

MCPrograms ==
    {<<RegisterC, SendC, ReceiveC>>, <<SendC, SendC>>,
     <<Map("p"), MintCap, Unmap("p")>>,
     <<MintCap, Map("q"), [call |-> "revoke", serial |-> 0], Unmap("q")>>}

--------------------------------------------------------------------------------
LoopIdle ==
    /\ job = Job(Scalar, None, "none", {}) /\ pc = "done" /\ candidate = << >> /\ iter = 0
    /\ ce = << >> /\ outcome = NoOutcome

BuildIdle ==
    /\ source = Build!NoVersion /\ disk = << >> /\ command = Build!Idle
    /\ exit = "none" /\ edits = 0 /\ commands = 0

MCInit ==
    /\ PoolInit /\ KernelInit
    /\ \/ part = "loop"              /\ Init     /\ BuildIdle
       \/ part \in {"pool", "kernel"} /\ LoopIdle /\ BuildIdle
       \/ part = "build"             /\ LoopIdle /\ Build!Init

MCNext ==
    /\ UNCHANGED part
    /\ \/ part = "loop"   /\ Next       /\ UNCHANGED <<poolVars, buildVars, kernelVars>>
       \/ part = "pool"   /\ PoolNext   /\ UNCHANGED <<vars, buildVars, kernelVars>>
       \/ part = "build"  /\ Build!Next /\ UNCHANGED <<vars, poolVars, kernelVars>>
       \/ part = "kernel" /\ KernelNext /\ UNCHANGED <<vars, poolVars, buildVars>>

MCSpec ==
    /\ MCInit
    /\ [][MCNext]_<<part, vars, poolVars, buildVars, kernelVars>>
    /\ PoolFairness
    /\ Fairness

(* What the commands that write leave on the disk, as TelosBuild states it.   *)
BuildSound == part = "build" => Build!BuildSound
================================================================================
