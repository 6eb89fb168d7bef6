--------------------------------- MODULE Escrow ---------------------------------
(****************************************************************************)
(* An escrow of koinon-escrow.  Its calls may come in any order: several    *)
(* parties hold the escrow, conditions may be added in any state, and       *)
(* release pays without looking at the conditions that release_checked      *)
(* evaluates.                                                               *)
(*                                                                          *)
(* conditions is a Vec of which only membership is ever observed, so the    *)
(* model keeps a set.  approvals is the slice a caller passes in; an        *)
(* account that is listed twice is counted twice.                           *)
(****************************************************************************)
EXTENDS Naturals, Sequences

CONSTANTS Account,
          Conditions,       \* the conditions callers may add
          MaxApprovals      \* bound: length of an approvals slice

ReleaseCondition ==
    [kind : {"TimeLock"}, lock_time : Nat]
        \cup [kind : {"MultiSig"}, required : Nat, signers : SUBSET Account]
        \cup [kind : {"Oracle"}]

EscrowState == {"Funded", "Disputed", "Refunded", "Completed"}

VARIABLES state, conditions,
          now,              \* the time callers pass in; no call of an escrow moves it
          met               \* ghost: the conditions the checked release evaluated

vars == <<state, conditions, now, met>>

Init == state = "Funded" /\ conditions = {} /\ met = {}

--------------------------------------------------------------------------------
\* A time lock that opens one second early
Holds_Mut(c, approvals) ==
    CASE c.kind = "TimeLock" -> now + 1 >= c.lock_time
      [] c.kind = "MultiSig" ->
            Len(SelectSeq(approvals, LAMBDA a : a \in c.signers)) >= c.required
      [] c.kind = "Oracle"   -> TRUE

Holds(c, approvals) ==
    CASE c.kind = "TimeLock" -> now >= c.lock_time
      [] c.kind = "MultiSig" ->
            Len(SelectSeq(approvals, LAMBDA a : a \in c.signers)) >= c.required
      [] c.kind = "Oracle"   -> TRUE

EvaluateConditions(approvals) == \A c \in conditions : Holds(c, approvals)

AddCondition(c) ==
    conditions' = conditions \cup {c} /\ UNCHANGED <<state, now, met>>

Dispute == state = "Funded" /\ state' = "Disputed" /\ UNCHANGED <<conditions, now, met>>

\* A disputed escrow can be paid out
CanRelease_Mut == state \in {"Funded", "Disputed"}

CanRelease == state = "Funded"

Release == CanRelease /\ state' = "Completed" /\ UNCHANGED <<conditions, now, met>>

ReleaseChecked(approvals) ==
    /\ CanRelease
    /\ EvaluateConditions(approvals)
    /\ state' = "Completed"
    /\ met' = conditions
    /\ UNCHANGED <<conditions, now>>

Refund ==
    /\ state \in {"Funded", "Disputed"}
    /\ state' = "Refunded"
    /\ UNCHANGED <<conditions, now, met>>

Approvals == UNION {[1..n -> Account] : n \in 0..MaxApprovals}

Next ==
    \/ \E c \in Conditions : AddCondition(c)
    \/ Dispute
    \/ Release
    \/ \E a \in Approvals : ReleaseChecked(a)
    \/ Refund

--------------------------------------------------------------------------------
\* The amounts go to one party, once: an escrow that was released or refunded
\* never leaves that state, and one in dispute can only be refunded.
SettledOnce ==
    /\ state \in {"Completed", "Refunded"} => state' = state
    /\ state = "Disputed" => state' \in {"Disputed", "Refunded"}

\* release_checked pays nothing out before the latest time lock the escrow
\* carried, whenever the lock was added.
LocksRespected == \A c \in met : c.kind = "TimeLock" => c.lock_time <= now
================================================================================
