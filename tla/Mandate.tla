--------------------------------- MODULE Mandate ---------------------------------
(****************************************************************************)
(* An agent mandate of koinon-mandates and the sessions that spend under    *)
(* it.  A spend takes three calls: check_all, record_oikos_spend,           *)
(* record_koin_spend.  The library does not tie them together, so calls of  *)
(* other sessions, a revocation, a new time bound or the passing of time    *)
(* may come between a check and the records it was made for.                *)
(*                                                                          *)
(* A session (code outside the repository) goes on to record what passed    *)
(* its check and gives up at the first record that is refused.              *)
(****************************************************************************)
EXTENDS Integers

CONSTANTS Session,
          Contract,
          OikosBudgets, KoinBudgets,    \* budgets a mandate is created with
          OikosCosts, KoinCosts,        \* costs of a spend; a KOIN cost may be negative
          NoBound,                      \* time_bound = None
          LastTime                      \* bound: the clock

ASSUME MandateAssumption ==
    /\ OikosBudgets \subseteq Nat /\ KoinBudgets \subseteq Nat
    /\ OikosCosts \subseteq Nat /\ KoinCosts \subseteq Int
    /\ LastTime \in Nat /\ NoBound \notin Nat

VARIABLES mandate,      \* the AgentMandate
          current_time, \* the time callers pass in
          stage, cost   \* per session: what it does next, and the cost it checked

mandateVars == <<mandate, current_time, stage, cost>>

AgentMandate == [oikos_budget : Nat, oikos_spent : Nat,
                 koin_budget  : Nat, koin_spent  : Nat,
                 allowed_contracts : SUBSET Contract,
                 time_bound   : Nat \cup {NoBound},
                 active       : BOOLEAN]

Cost == [oikos : OikosCosts, koin : KoinCosts]

Idle == "idle"

\* AgentMandate::create
MandateInit ==
    /\ \E ob \in OikosBudgets, kb \in KoinBudgets, ac \in SUBSET Contract,
          tb \in 0..LastTime \cup {NoBound} :
          mandate = [oikos_budget |-> ob, oikos_spent |-> 0,
                     koin_budget  |-> kb, koin_spent  |-> 0,
                     allowed_contracts |-> ac, time_bound |-> tb, active |-> TRUE]
    /\ current_time = 0
    /\ stage = [s \in Session |-> Idle]
    /\ \E c \in Cost : cost = [s \in Session |-> c]

--------------------------------------------------------------------------------
\* The checks of enforcement.rs.  A cost of zero, or a negative one, is not
\* compared with the budget.
CheckBudget(c) ==
    /\ mandate.active
    /\ c.oikos > 0 => mandate.oikos_budget - mandate.oikos_spent >= c.oikos
    /\ c.koin > 0 => mandate.koin_budget - mandate.koin_spent >= c.koin

CheckBudgetWithTime(c) ==
    /\ mandate.active
    /\ mandate.time_bound # NoBound => current_time <= mandate.time_bound
    /\ CheckBudget(c)

CheckContract(contract) ==
    /\ mandate.active
    /\ mandate.allowed_contracts = {} \/ contract \in mandate.allowed_contracts

CheckAll(s, c, contract) ==
    /\ stage[s] = Idle
    /\ CheckBudgetWithTime(c) /\ CheckContract(contract)
    /\ stage' = [stage EXCEPT ![s] = "oikos"]
    /\ cost' = [cost EXCEPT ![s] = c]
    /\ UNCHANGED <<mandate, current_time>>

--------------------------------------------------------------------------------
OikosAccepted(a) ==
    /\ mandate.active
    /\ mandate.oikos_budget - mandate.oikos_spent >= a

RecordOikosSpend(s) ==
    /\ stage[s] = "oikos"
    /\ IF OikosAccepted(cost[s].oikos)
       THEN /\ mandate' = [mandate EXCEPT !.oikos_spent = @ + cost[s].oikos]
            /\ stage' = [stage EXCEPT ![s] = "koin"]
       ELSE /\ stage' = [stage EXCEPT ![s] = Idle]
            /\ UNCHANGED mandate
    /\ UNCHANGED <<current_time, cost>>

\* Revocation not looked at
KoinAccepted_Mut(a) == a >= 0 /\ mandate.koin_spent + a <= mandate.koin_budget

KoinAccepted(a) ==
    /\ mandate.active
    /\ a >= 0
    /\ mandate.koin_spent + a <= mandate.koin_budget

RecordKoinSpend(s) ==
    /\ stage[s] = "koin"
    /\ IF KoinAccepted(cost[s].koin)
       THEN mandate' = [mandate EXCEPT !.koin_spent = @ + cost[s].koin]
       ELSE UNCHANGED mandate
    /\ stage' = [stage EXCEPT ![s] = Idle]
    /\ UNCHANGED <<current_time, cost>>

--------------------------------------------------------------------------------
Revoke == mandate' = [mandate EXCEPT !.active = FALSE] /\ UNCHANGED <<current_time, stage, cost>>

SetTimeBound(t) == mandate' = [mandate EXCEPT !.time_bound = t] /\ UNCHANGED <<current_time, stage, cost>>

AddAllowedContract(c) ==
    /\ mandate' = [mandate EXCEPT !.allowed_contracts = @ \cup {c}]
    /\ UNCHANGED <<current_time, stage, cost>>

ClockTicks ==
    /\ current_time < LastTime
    /\ current_time' = current_time + 1
    /\ UNCHANGED <<mandate, stage, cost>>

MandateNext ==
    \/ \E s \in Session :
          \/ \E c \in Cost, contract \in Contract : CheckAll(s, c, contract)
          \/ RecordOikosSpend(s)
          \/ RecordKoinSpend(s)
    \/ Revoke
    \/ \E t \in 0..LastTime : SetTimeBound(t)
    \/ \E c \in Contract : AddAllowedContract(c)
    \/ ClockTicks

MandateSpec == MandateInit /\ [][MandateNext]_mandateVars

--------------------------------------------------------------------------------
\* The budget part of AgentMandate::check_invariant: however the checks and the
\* records of several sessions interleave, no more is recorded than budgeted.
WithinBudget ==
    /\ mandate.oikos_spent <= mandate.oikos_budget
    /\ mandate.koin_spent <= mandate.koin_budget

\* Every call leaves a mandate that is well formed and within its budgets.
\* Spending is never taken back, by a negative amount or otherwise, and revoke is
\* final and takes effect at once: a session whose check came before the
\* revocation records nothing after it.
SpendingSound ==
    [][/\ (mandate \in AgentMandate /\ WithinBudget)'
       /\ mandate'.oikos_spent >= mandate.oikos_spent
       /\ mandate'.koin_spent >= mandate.koin_spent
       /\ ~mandate.active => /\ ~mandate'.active
                             /\ mandate'.oikos_spent = mandate.oikos_spent
                             /\ mandate'.koin_spent = mandate.koin_spent]_mandateVars
================================================================================
