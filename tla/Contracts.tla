------------------------------- MODULE Contracts -------------------------------
(****************************************************************************)
(* The contracts of koinon-escrow as a node holds them side by side: an     *)
(* escrow and a streaming payment under one clock.  Every call is given the *)
(* time by its caller and none moves it, so the clock belongs to this       *)
(* module.                                                                  *)
(****************************************************************************)
EXTENDS Stream

CONSTANTS Account, Conditions, MaxApprovals

VARIABLES state, conditions, met

EscrowVars == <<state, conditions, met>>
StreamVars == <<stream, earning>>

E == INSTANCE Escrow

ASSUME ContractsAssumption ==
    Conditions \subseteq E!ReleaseCondition /\ MaxApprovals \in Nat

ContractsInit == StreamInit /\ E!Init

StreamCall == StreamNext /\ UNCHANGED EscrowVars

EscrowCall == E!Next /\ UNCHANGED StreamVars

TimePasses == Tick /\ UNCHANGED EscrowVars

ContractsNext == StreamCall \/ EscrowCall \/ TimePasses

ContractsSpec == ContractsInit /\ [][ContractsNext]_<<StreamVars, EscrowVars, now>>

--------------------------------------------------------------------------------
\* release_checked of an escrow pays nothing out before the latest time lock the escrow
\* carried, whenever the lock was added.
LocksRespected == E!LocksRespected

\* A stream pays exactly what it earned and an escrow never before its locks,
\* whatever calls to the two come in between.
ContractsSound == StreamSound /\ NothingLost /\ LocksRespected

\* A contract that has ended stays as it ended: a stream that is stopped or
\* completed, and an escrow that is released or refunded, whose amounts go to one
\* party, once; an escrow in dispute can only be refunded.
EndedContractsStand == [][EndedIsFinal /\ E!SettledOnce]_<<stream, state>>
================================================================================
