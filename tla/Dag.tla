---------------------------------- MODULE Dag ----------------------------------
(****************************************************************************)
(* The transaction DAG of koinon-dag and its batch settlement.              *)
(*                                                                          *)
(* A node of the DAG keeps the transaction, its status and the hashes of    *)
(* its children.  Of a transaction the DAG reads three things: the hash,    *)
(* the parents, and the (sender, nonce) pair that decides conflicts_with;   *)
(* that pair is a member of Slot here.                                      *)
(*                                                                          *)
(* settle_batch is one step: it takes &mut Dag, so nothing runs between its *)
(* conflict pass, its dependency pass and its three loops of writes.        *)
(*                                                                          *)
(* Operators whose name ends in _Mut are the faulty variants the properties *)
(* are tested against; no specification uses them.                          *)
(****************************************************************************)
EXTENDS Naturals, FiniteSets

CONSTANTS Hash,     \* transaction hashes
          Slot      \* (sender, nonce) pairs

VARIABLES nodes,    \* Dag.nodes: hash -> [slot, parents, children, status]
          tips      \* Dag.tip_set

vars == <<nodes, tips>>

TxStatus == {"Pending", "Settled", "Failed", "Conflict"}

DagNode == [slot     : Slot,
            parents  : SUBSET Hash,
            children : SUBSET Hash,
            status   : TxStatus]

Inserted == DOMAIN nodes

\* Dag::settled_nodes
SettledNodes == {h \in Inserted : nodes[h].status = "Settled"}

\* Transaction::conflicts_with, for two transactions of the DAG
ConflictsWith(a, b) == nodes[a].slot = nodes[b].slot

Init == /\ nodes = [h \in {} |-> 0]
        /\ tips = {}

--------------------------------------------------------------------------------
(****************************************************************************)
(* Dag::insert.  A hash that is already there, or a parent that is not, is  *)
(* an error that changes nothing.  The tip set loses the new hash itself,   *)
(* not its parents, and then gains it.                                      *)
(****************************************************************************)
NewNode(s, ps) == [slot |-> s, parents |-> ps, children |-> {}, status |-> "Pending"]

\* Only the last child kept
AddChild_Mut(n, h) == [n EXCEPT !.children = {h}]

AddChild(n, h) == [n EXCEPT !.children = @ \cup {h}]

\* A transaction that names itself as a parent let through
ParentsKnown_Mut(h, ps) == ps \subseteq Inserted \cup {h}

\* The check of the parents dropped
ParentsKnown_Mut2(h, ps) == TRUE

ParentsKnown(h, ps) == ps \subseteq Inserted

\* Parents leave the tip set
NewTips_Mut(h, ps) == (tips \ ps) \cup {h}

NewTips(h, ps) == (tips \ {h}) \cup {h}

Insert(h, s, ps) ==
    /\ h \notin Inserted
    /\ ParentsKnown(h, ps)
    /\ nodes' = [x \in Inserted \cup {h} |->
                    IF x = h THEN NewNode(s, ps)
                    ELSE IF x \in ps THEN AddChild(nodes[x], h)
                    ELSE nodes[x]]
    /\ tips' = NewTips(h, ps)

--------------------------------------------------------------------------------
(****************************************************************************)
(* ParallelSettler::settle_batch.  Conflicts and dependencies of every      *)
(* member are decided against the statuses before the batch; then each      *)
(* known member gets its outcome.  Hashes the DAG does not know are         *)
(* skipped.  A batch is a set: a repeated hash gets the same outcome twice. *)
(****************************************************************************)
\* No conflict detection
HasConflict_Mut(h) == FALSE

\* A transaction compared with itself too
HasConflict_Mut2(h) == \E s \in SettledNodes : ConflictsWith(h, s)

HasConflict(h) == \E s \in SettledNodes : s # h /\ ConflictsWith(h, s)

\* One settled parent is enough
DepsOk_Mut(h) == \/ nodes[h].parents = {}
                 \/ nodes[h].parents \cap SettledNodes # {}

DepsOk(h) == \A p \in nodes[h].parents : p \in SettledNodes

Outcome(h) == IF HasConflict(h) THEN "Conflict"
              ELSE IF DepsOk(h) THEN "Settled"
              ELSE "Failed"

SettleBatch(batch) ==
    /\ nodes' = [h \in Inserted |->
                    IF h \in batch THEN [nodes[h] EXCEPT !.status = Outcome(h)]
                    ELSE nodes[h]]
    /\ UNCHANGED tips

\* A batch no two members of which conflict.
ConflictFree(batch) ==
    \A a, b \in batch \cap Inserted : a # b => ~ConflictsWith(a, b)

--------------------------------------------------------------------------------
(****************************************************************************)
(* Dag::parallelizable_groups: nodes grouped by depth, the length of the    *)
(* longest chain of parents above them.  compute_depth takes the deepest    *)
(* parent and adds one; a node without parents has depth 0.                 *)
(****************************************************************************)
\* The shallowest parent instead of the deepest
Deepest_Mut(S) == CHOOSE n \in S : \A m \in S : n <= m

Deepest(S) == CHOOSE n \in S : \A m \in S : m <= n

Depth ==
    LET depth[h \in Inserted] ==
            IF nodes[h].parents = {} THEN 0
            ELSE 1 + Deepest({depth[p] : p \in nodes[h].parents})
    IN  depth

Group(d) == {h \in Inserted : Depth[h] = d}

--------------------------------------------------------------------------------
(****************************************************************************)
(* Next is the DAG in the hands of callers that never put two conflicting   *)
(* transactions into one batch: everything but conflict-freedom is left     *)
(* open (unknown hashes, transactions settled or refused before, parents    *)
(* and children together).                                                  *)
(****************************************************************************)
InsertSome == \E h \in Hash, s \in Slot, ps \in SUBSET Hash : Insert(h, s, ps)

SettleSome == \E batch \in SUBSET Hash : ConflictFree(batch) /\ SettleBatch(batch)

Next == InsertSome \/ SettleSome

Spec == Init /\ [][Next]_vars

--------------------------------------------------------------------------------
\* Every node is well formed, its edges end in the DAG, and the tips are nodes.
TypeOK ==
    /\ Inserted \subseteq Hash
    /\ nodes \in [Inserted -> DagNode]
    /\ \A h \in Inserted : nodes[h].parents \cup nodes[h].children \subseteq Inserted
    /\ tips \subseteq Inserted

\* Dag::insert keeps the two directions of every edge in step: a node lists as
\* children exactly the nodes that list it as a parent.
EdgesMirrored ==
    \A p, c \in Inserted : c \in nodes[p].children <=> p \in nodes[c].parents

\* The DAG has no cycle, although DagError::CycleDetected is never returned:
\* every non-empty set of nodes has a member none of whose parents is in the
\* set.  compute_depth recurses along parents and terminates because of it.
WellFounded ==
    \A S \in SUBSET Inserted :
        S # {} => \E m \in S : nodes[m].parents \cap S = {}

\* No two settled transactions share sender and nonce.  settle_batch compares
\* only with transactions settled before the batch, so this rests on batches
\* being conflict-free.
NoDoubleSettlement ==
    \A a, b \in SettledNodes : a # b => ~ConflictsWith(a, b)

\* A settled transaction has only settled parents, however batches are retried.
SettledClosed == \A h \in SettledNodes : nodes[h].parents \subseteq SettledNodes

\* Insertions and settlements in any order keep the DAG a DAG.
DagSound == TypeOK /\ EdgesMirrored /\ WellFounded

\* Settlement respects conflicts and parents.
SettlementSound == NoDoubleSettlement /\ SettledClosed

\* A settled transaction stays settled: a later batch that contains it again
\* neither fails it nor finds it in conflict, and nothing removes it.
SettledIsFinal == [][SettledNodes \subseteq SettledNodes']_vars

\* parallelizable_groups puts every node into a later group than its parents,
\* so the members of one group do not depend on each other.
GroupsRespectParents ==
    \A h \in Inserted : \A p \in nodes[h].parents : Depth[p] < Depth[h]

--------------------------------------------------------------------------------
\* The settled part of the DAG, as the abstract specification sees it.
FinalPart == [h \in SettledNodes |-> [slot |-> nodes[h].slot, parents |-> nodes[h].parents]]

Abstract == INSTANCE AbstractSettlement WITH final <- FinalPart

\* Settlement in conflict-free batches implements the abstract ledger of final
\* transactions.
ImplementsAbstract == Abstract!Spec
================================================================================
