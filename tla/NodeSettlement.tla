----------------------------- MODULE NodeSettlement -----------------------------
(****************************************************************************)
(* How tpt-oikos-node drives the DAG: transactions arrive through           *)
(* NodeState::insert_transaction, and after every block the node calls      *)
(* NodeState::settle_pending, which hands the whole tip set to              *)
(* settle_batch.  The tip set never loses a member (Dag!NewTips), so the    *)
(* batch is every transaction inserted so far.                              *)
(****************************************************************************)
EXTENDS Dag

InsertTransaction == \E h \in Hash, s \in Slot, ps \in SUBSET Hash : Insert(h, s, ps)

SettlePending ==
    /\ tips # {}
    /\ SettleBatch(tips)

NodeNext == InsertTransaction \/ SettlePending

\* cmd_start calls settle_pending after every block, unconditionally.
Fairness == WF_vars(SettlePending)

NodeSpec == Init /\ [][NodeNext]_vars /\ Fairness

--------------------------------------------------------------------------------
SlotsDistinct == \A a, b \in Inserted : a # b => ~ConflictsWith(a, b)

\* As long as no two transactions share sender and nonce, every transaction
\* handed to insert_transaction is settled in the end, although settle_batch
\* first fails every transaction whose parents are in the same batch: the node
\* retries it because it stays in the tip set.
EventuallySettled ==
    \A h \in Hash :
        (h \in Inserted /\ SlotsDistinct) ~> (h \in SettledNodes \/ ~SlotsDistinct)
================================================================================
