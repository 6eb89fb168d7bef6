-------------------------------- MODULE DagProofs --------------------------------
(****************************************************************************)
(* Proofs about the transaction DAG, for every set of hashes and slots.     *)
(****************************************************************************)
EXTENDS Dag, TLAPS

\* What an insertion leaves behind, node by node.
InsertedNode(h, s, ps) ==
    /\ Inserted' = Inserted \cup {h}
    /\ h \notin Inserted
    /\ ps \subseteq Inserted
    /\ nodes'[h] = NewNode(s, ps)
    /\ \A x \in Inserted :
          /\ nodes'[x] \in DagNode
          /\ nodes'[x].slot = nodes[x].slot
          /\ nodes'[x].parents = nodes[x].parents
          /\ nodes'[x].status = nodes[x].status
          /\ nodes'[x].children = nodes[x].children \cup (IF x \in ps THEN {h} ELSE {})
    /\ SettledNodes' = SettledNodes

\* Dag::insert adds one Pending node and touches only the children of its parents.
LEMMA InsertEffect ==
    ASSUME TypeOK, NEW h \in Hash, NEW s \in Slot, NEW ps \in SUBSET Hash, Insert(h, s, ps)
    PROVE  InsertedNode(h, s, ps)
  <1>1. /\ Inserted' = Inserted \cup {h}
        /\ h \notin Inserted
        /\ ps \subseteq Inserted
        /\ nodes'[h] = NewNode(s, ps)
    BY DEF Insert, Inserted, ParentsKnown
  <1>2. ASSUME NEW x \in Inserted
        PROVE  /\ nodes'[x] \in DagNode
               /\ nodes'[x].slot = nodes[x].slot
               /\ nodes'[x].parents = nodes[x].parents
               /\ nodes'[x].status = nodes[x].status
               /\ nodes'[x].children = nodes[x].children \cup (IF x \in ps THEN {h} ELSE {})
    <2>1. x # h /\ nodes[x] \in DagNode
      BY <1>1 DEF TypeOK
    <2>2. nodes'[x] = IF x \in ps THEN AddChild(nodes[x], h) ELSE nodes[x]
      BY <2>1 DEF Insert, Inserted
    <2> QED  BY <2>1, <2>2 DEF AddChild, DagNode
  <1>3. nodes'[h].status = "Pending"
    BY <1>1 DEF NewNode
  <1>4. SettledNodes' = SettledNodes
    BY <1>1, <1>2, <1>3 DEF SettledNodes
  <1> QED  BY <1>1, <1>2, <1>4 DEF InsertedNode

\* What a batch leaves behind, node by node.
BatchSettled(batch) ==
    /\ Inserted' = Inserted
    /\ \A x \in Inserted :
          /\ nodes'[x] \in DagNode
          /\ nodes'[x].slot = nodes[x].slot
          /\ nodes'[x].parents = nodes[x].parents
          /\ nodes'[x].children = nodes[x].children
          /\ nodes'[x].status = IF x \in batch THEN Outcome(x) ELSE nodes[x].status
    /\ \A x \in SettledNodes' :
          /\ x \in Inserted
          /\ \/ x \in SettledNodes /\ x \notin batch
             \/ x \in batch /\ ~HasConflict(x) /\ DepsOk(x)

\* settle_batch writes statuses only, and settles exactly what it found free of
\* conflict with its parents settled.
LEMMA BatchEffect ==
    ASSUME TypeOK, NEW batch \in SUBSET Hash, SettleBatch(batch)
    PROVE  BatchSettled(batch)
  <1>1. Inserted' = Inserted
    BY DEF SettleBatch, Inserted
  <1>2. ASSUME NEW x \in Inserted
        PROVE  /\ nodes'[x] \in DagNode
               /\ nodes'[x].slot = nodes[x].slot
               /\ nodes'[x].parents = nodes[x].parents
               /\ nodes'[x].children = nodes[x].children
               /\ nodes'[x].status = IF x \in batch THEN Outcome(x) ELSE nodes[x].status
    <2>1. nodes[x] \in DagNode
      BY DEF TypeOK
    <2>2. Outcome(x) \in TxStatus
      BY DEF Outcome, TxStatus
    <2>3. nodes'[x] = IF x \in batch THEN [nodes[x] EXCEPT !.status = Outcome(x)] ELSE nodes[x]
      BY DEF SettleBatch
    <2> QED  BY <2>1, <2>2, <2>3 DEF DagNode
  <1>3. ASSUME NEW x \in SettledNodes'
        PROVE  /\ x \in Inserted
               /\ \/ x \in SettledNodes /\ x \notin batch
                  \/ x \in batch /\ ~HasConflict(x) /\ DepsOk(x)
    BY <1>1, <1>2 DEF SettledNodes, Outcome
  <1> QED  BY <1>1, <1>2, <1>3 DEF BatchSettled

--------------------------------------------------------------------------------
\* TypeOK: nodes stay well formed and edges end in the DAG, through Dag::insert
\* and settle_batch alike.
THEOREM TypeCorrect == Spec => []TypeOK
  <1>1. Init => TypeOK
    BY DEF Init, TypeOK, Inserted
  <1>2. TypeOK /\ [Next]_vars => TypeOK'
    <2> SUFFICES ASSUME TypeOK, [Next]_vars PROVE TypeOK'
      OBVIOUS
    <2>1. CASE InsertSome
      <3>1. PICK h \in Hash, s \in Slot, ps \in SUBSET Hash : Insert(h, s, ps)
        BY <2>1 DEF InsertSome
      <3>2. InsertedNode(h, s, ps)
        BY <3>1, InsertEffect
      <3>3. nodes'[h] \in DagNode
        BY <3>2 DEF InsertedNode, NewNode, DagNode, TxStatus
      <3>4. nodes' \in [Inserted' -> DagNode]
        BY <3>1, <3>2, <3>3 DEF Insert, Inserted, InsertedNode
      <3>5. \A x \in Inserted' : nodes'[x].parents \cup nodes'[x].children \subseteq Inserted'
        BY <3>2 DEF InsertedNode, NewNode, TypeOK
      <3>6. tips' \subseteq Inserted' /\ Inserted' \subseteq Hash
        BY <3>1, <3>2 DEF Insert, NewTips, TypeOK, InsertedNode
      <3> QED  BY <3>4, <3>5, <3>6 DEF TypeOK
    <2>2. CASE SettleSome
      <3>1. PICK batch \in SUBSET Hash : SettleBatch(batch)
        BY <2>2 DEF SettleSome
      <3>2. BatchSettled(batch)
        BY <3>1, BatchEffect
      <3>3. nodes' \in [Inserted' -> DagNode]
        BY <3>1, <3>2 DEF SettleBatch, Inserted, BatchSettled
      <3>4. \A x \in Inserted' : nodes'[x].parents \cup nodes'[x].children \subseteq Inserted'
        BY <3>2 DEF TypeOK, BatchSettled
      <3>5. tips' = tips
        BY <3>1 DEF SettleBatch
      <3> QED  BY <3>2, <3>3, <3>4, <3>5 DEF TypeOK, BatchSettled
    <2>3. CASE UNCHANGED vars
      BY <2>3 DEF vars, TypeOK, Inserted
    <2> QED  BY <2>1, <2>2, <2>3 DEF Next
  <1> QED  BY <1>1, <1>2, PTL DEF Spec

--------------------------------------------------------------------------------
\* EdgesMirrored: children lists and parent lists describe the same edges.
THEOREM EdgesStayMirrored == Spec => []EdgesMirrored
  <1>1. Init => EdgesMirrored
    BY DEF Init, EdgesMirrored, Inserted
  <1>2. TypeOK /\ EdgesMirrored /\ [Next]_vars => EdgesMirrored'
    <2> SUFFICES ASSUME TypeOK, EdgesMirrored, [Next]_vars PROVE EdgesMirrored'
      OBVIOUS
    <2>1. CASE InsertSome
      <3>1. PICK h \in Hash, s \in Slot, ps \in SUBSET Hash : Insert(h, s, ps)
        BY <2>1 DEF InsertSome
      <3>2. InsertedNode(h, s, ps)
        BY <3>1, InsertEffect
      <3>3. nodes'[h].parents = ps /\ nodes'[h].children = {}
        BY <3>2 DEF InsertedNode, NewNode
      <3>4. \A x \in Inserted : h \notin nodes[x].parents /\ h \notin nodes[x].children
        BY <3>2 DEF InsertedNode, TypeOK
      <3> QED  BY <3>2, <3>3, <3>4 DEF InsertedNode, EdgesMirrored
    <2>2. CASE SettleSome
      <3>1. PICK batch \in SUBSET Hash : SettleBatch(batch)
        BY <2>2 DEF SettleSome
      <3>2. BatchSettled(batch)
        BY <3>1, BatchEffect
      <3> QED  BY <3>2 DEF BatchSettled, EdgesMirrored
    <2>3. CASE UNCHANGED vars
      BY <2>3 DEF vars, EdgesMirrored, Inserted
    <2> QED  BY <2>1, <2>2, <2>3 DEF Next
  <1> QED  BY <1>1, <1>2, TypeCorrect, PTL DEF Spec

\* WellFounded: Dag::insert can never close a cycle, because a new transaction
\* may only name parents that are already there.
THEOREM Acyclic == Spec => []WellFounded
  <1>1. Init => WellFounded
    BY DEF Init, WellFounded, Inserted
  <1>2. TypeOK /\ WellFounded /\ [Next]_vars => WellFounded'
    <2> SUFFICES ASSUME TypeOK, WellFounded, [Next]_vars PROVE WellFounded'
      OBVIOUS
    <2>1. CASE InsertSome
      <3>1. PICK h \in Hash, s \in Slot, ps \in SUBSET Hash : Insert(h, s, ps)
        BY <2>1 DEF InsertSome
      <3>2. InsertedNode(h, s, ps)
        BY <3>1, InsertEffect
      <3>3. ASSUME NEW S \in SUBSET Inserted', S # {}
            PROVE  \E m \in S : nodes'[m].parents \cap S = {}
        <4>1. CASE S = {h}
          BY <3>2, <4>1 DEF InsertedNode, NewNode
        <4>2. CASE S # {h}
          <5>1. S \ {h} # {} /\ S \ {h} \subseteq Inserted
            BY <3>2, <3>3, <4>2 DEF InsertedNode
          <5>2. PICK m \in S \ {h} : nodes[m].parents \cap (S \ {h}) = {}
            BY <5>1 DEF WellFounded
          <5>3. nodes[m].parents \subseteq Inserted /\ h \notin Inserted
            BY <3>2, <5>1, <5>2 DEF TypeOK, InsertedNode
          <5>4. nodes'[m].parents = nodes[m].parents
            BY <3>2, <5>1, <5>2 DEF InsertedNode
          <5> QED  BY <5>2, <5>3, <5>4
        <4> QED  BY <4>1, <4>2
      <3> QED  BY <3>3 DEF WellFounded
    <2>2. CASE SettleSome
      <3>1. PICK batch \in SUBSET Hash : SettleBatch(batch)
        BY <2>2 DEF SettleSome
      <3>2. BatchSettled(batch)
        BY <3>1, BatchEffect
      <3> QED  BY <3>2 DEF BatchSettled, WellFounded
    <2>3. CASE UNCHANGED vars
      BY <2>3 DEF vars, WellFounded, Inserted
    <2> QED  BY <2>1, <2>2, <2>3 DEF Next
  <1> QED  BY <1>1, <1>2, TypeCorrect, PTL DEF Spec

--------------------------------------------------------------------------------
(****************************************************************************)
(* Settlement.  NoDoubleSettlement and SettledClosed are inductive together *)
(* with TypeOK, and finality of one batch follows from them: a settled      *)
(* transaction meets no settled rival and has settled parents, so a batch   *)
(* that contains it again decides "Settled" again.                          *)
(****************************************************************************)
SettlementInv == TypeOK /\ NoDoubleSettlement /\ SettledClosed

\* A conflict-free batch keeps every settled transaction settled.
LEMMA BatchKeepsSettled ==
    ASSUME SettlementInv, NEW batch \in SUBSET Hash, SettleBatch(batch)
    PROVE  SettledNodes \subseteq SettledNodes'
  <1>1. BatchSettled(batch)
    BY BatchEffect DEF SettlementInv
  <1>2. ASSUME NEW x \in SettledNodes PROVE x \in SettledNodes'
    <2>1. ~HasConflict(x) /\ DepsOk(x)
      BY DEF SettlementInv, NoDoubleSettlement, SettledClosed, HasConflict, DepsOk
    <2>2. nodes'[x].status = "Settled"
      BY <1>1, <2>1 DEF BatchSettled, SettledNodes, Outcome
    <2> QED  BY <1>1, <2>2 DEF BatchSettled, SettledNodes
  <1> QED  BY <1>2

\* No step of the DAG takes a settled transaction back.
LEMMA StepKeepsSettled ==
    ASSUME SettlementInv, [Next]_vars
    PROVE  SettledNodes \subseteq SettledNodes'
  <1>1. CASE InsertSome
    BY <1>1, InsertEffect DEF InsertSome, InsertedNode, SettlementInv
  <1>2. CASE SettleSome
    BY <1>2, BatchKeepsSettled DEF SettleSome
  <1>3. CASE UNCHANGED vars
    BY <1>3 DEF vars, SettledNodes, Inserted
  <1> QED  BY <1>1, <1>2, <1>3 DEF Next

\* The settlement invariant is inductive.
LEMMA SettlementInductive == SettlementInv /\ TypeOK' /\ [Next]_vars => SettlementInv'
  <1> SUFFICES ASSUME SettlementInv, TypeOK', [Next]_vars
               PROVE  NoDoubleSettlement' /\ SettledClosed'
    BY DEF SettlementInv
  <1>1. CASE InsertSome
    <2>1. PICK h \in Hash, s \in Slot, ps \in SUBSET Hash : Insert(h, s, ps)
      BY <1>1 DEF InsertSome
    <2>2. InsertedNode(h, s, ps)
      BY <2>1, InsertEffect DEF SettlementInv
    <2>3. SettledNodes \subseteq Inserted
      BY DEF SettledNodes
    <2> QED  BY <2>2, <2>3 DEF InsertedNode, SettlementInv, NoDoubleSettlement, SettledClosed, ConflictsWith
  <1>2. CASE SettleSome
    <2>1. PICK batch \in SUBSET Hash : ConflictFree(batch) /\ SettleBatch(batch)
      BY <1>2 DEF SettleSome
    <2>2. BatchSettled(batch)
      BY <2>1, BatchEffect DEF SettlementInv
    <2>3. SettledNodes \subseteq SettledNodes'
      BY <2>1, BatchKeepsSettled
    <2>4. ASSUME NEW a \in SettledNodes', NEW b \in SettledNodes', a # b
          PROVE  nodes[a].slot # nodes[b].slot
      <3>1. CASE a \in batch /\ b \in batch
        BY <2>1, <2>2, <2>4, <3>1 DEF BatchSettled, ConflictFree, ConflictsWith
      <3>2. CASE a \notin batch /\ b \notin batch
        BY <2>2, <2>4, <3>2 DEF BatchSettled, SettlementInv, NoDoubleSettlement, ConflictsWith
      <3>3. CASE a \in batch /\ b \notin batch
        BY <2>2, <2>4, <3>3 DEF BatchSettled, HasConflict, ConflictsWith
      <3>4. CASE a \notin batch /\ b \in batch
        BY <2>2, <2>4, <3>4 DEF BatchSettled, HasConflict, ConflictsWith
      <3> QED  BY <3>1, <3>2, <3>3, <3>4
    <2>5. NoDoubleSettlement'
      BY <2>2, <2>4 DEF BatchSettled, NoDoubleSettlement, ConflictsWith
    <2>6. ASSUME NEW x \in SettledNodes' PROVE nodes[x].parents \subseteq SettledNodes
      BY <2>2 DEF BatchSettled, SettlementInv, SettledClosed, DepsOk
    <2>7. SettledClosed'
      BY <2>2, <2>3, <2>6 DEF BatchSettled, SettledClosed
    <2> QED  BY <2>5, <2>7
  <1>3. CASE UNCHANGED vars
    BY <1>3 DEF vars, SettlementInv, NoDoubleSettlement, SettledClosed, SettledNodes, Inserted, ConflictsWith
  <1> QED  BY <1>1, <1>2, <1>3 DEF Next

\* The settlement invariant holds of every behaviour.
LEMMA SettlementInvariant == Spec => []SettlementInv
  <1>1. Init => SettlementInv
    BY DEF Init, SettlementInv, TypeOK, NoDoubleSettlement, SettledClosed, SettledNodes, Inserted
  <1> QED  BY <1>1, SettlementInductive, TypeCorrect, PTL DEF Spec

\* NoDoubleSettlement: with conflict-free batches, settle_batch never settles two
\* transactions with the same sender and nonce.
THEOREM OneSettlementPerSlot == Spec => []NoDoubleSettlement
  BY SettlementInvariant, PTL DEF SettlementInv

\* SettledClosed: settle_batch never leaves a settled transaction above a parent
\* that is not settled.
THEOREM ParentsSettleFirst == Spec => []SettledClosed
  BY SettlementInvariant, PTL DEF SettlementInv

\* DagSound: nodes stay well formed, the two ends of every edge know of it, and
\* Dag::insert never closes a cycle.
THEOREM DagIsSound == Spec => []DagSound
  BY TypeCorrect, EdgesStayMirrored, Acyclic, PTL DEF DagSound

\* SettlementSound: what settle_batch settles, in conflict-free batches, is
\* settled once per sender and nonce and after its parents.
THEOREM SettlementIsSound == Spec => []SettlementSound
  BY OneSettlementPerSlot, ParentsSettleFirst, PTL DEF SettlementSound

\* SettledIsFinal: no insertion and no batch takes a settled transaction back.
THEOREM SettlementIsFinal == Spec => SettledIsFinal
  <1>1. SettlementInv /\ [Next]_vars => [SettledNodes \subseteq SettledNodes']_vars
    BY StepKeepsSettled
  <1> QED  BY <1>1, SettlementInvariant, PTL DEF Spec, SettledIsFinal

--------------------------------------------------------------------------------
\* ImplementsAbstract: settlement in conflict-free batches is the abstract ledger
\* of final transactions.  An insertion is a stutter there; a batch makes the
\* transactions it newly settles final at once.
THEOREM Refinement == Spec => ImplementsAbstract
  <1>1. Init => Abstract!Init
    <2> SUFFICES ASSUME Init PROVE FinalPart = [h \in {} |-> 0]
      BY DEF Abstract!Init
    <2>1. SettledNodes = {}
      BY DEF Init, SettledNodes, Inserted
    <2> QED  BY <2>1 DEF FinalPart
  <1>2. SettlementInv /\ SettlementInv' /\ [Next]_vars => [Abstract!Next]_FinalPart
    <2> SUFFICES ASSUME SettlementInv, SettlementInv', [Next]_vars
                 PROVE  Abstract!Next \/ UNCHANGED FinalPart
      OBVIOUS
    <2>1. CASE InsertSome
      <3>1. PICK h \in Hash, s \in Slot, ps \in SUBSET Hash : Insert(h, s, ps)
        BY <2>1 DEF InsertSome
      <3>2. InsertedNode(h, s, ps)
        BY <3>1, InsertEffect DEF SettlementInv
      <3> QED  BY <3>2 DEF InsertedNode, FinalPart, SettledNodes
    <2>2. CASE SettleSome
      <3>1. PICK batch \in SUBSET Hash : SettleBatch(batch)
        BY <2>2 DEF SettleSome
      <3>2. BatchSettled(batch)
        BY <3>1, BatchEffect DEF SettlementInv
      <3>3. SettledNodes \subseteq SettledNodes'
        BY StepKeepsSettled
      <3>4. SettledNodes' \subseteq Inserted
        BY <3>2 DEF BatchSettled
      <3>5. \A h \in SettledNodes' : FinalPart'[h] = [slot |-> nodes[h].slot, parents |-> nodes[h].parents]
        BY <3>2, <3>4 DEF BatchSettled, FinalPart
      <3>6. \A h \in SettledNodes : FinalPart[h] = FinalPart'[h]
        BY <3>3, <3>5 DEF FinalPart
      <3>7. DOMAIN FinalPart = SettledNodes /\ DOMAIN FinalPart' = SettledNodes'
        BY DEF FinalPart
      <3>8. ASSUME NEW h \in SettledNodes' PROVE FinalPart'[h] \in Abstract!Content
        <4>1. nodes'[h] \in DagNode
          BY <3>2, <3>4 DEF BatchSettled
        <4>2. nodes'[h].slot \in Slot /\ nodes'[h].parents \in SUBSET Hash
          BY <4>1 DEF DagNode
        <4> QED  BY <4>2 DEF Abstract!Content, FinalPart
      <3>9. ASSUME NEW h \in SettledNodes' \ SettledNodes
            PROVE  FinalPart'[h].parents \subseteq SettledNodes
        <4>1. nodes[h].parents \subseteq SettledNodes
          BY <3>2 DEF BatchSettled, DepsOk
        <4>2. FinalPart'[h].parents = nodes'[h].parents
          BY DEF FinalPart
        <4>3. nodes'[h].parents = nodes[h].parents
          BY <3>2, <3>4 DEF BatchSettled
        <4> QED  BY <4>1, <4>2, <4>3
      <3>10. Abstract!OneperSlot(FinalPart')
        <4>1. \A a, b \in SettledNodes' : a # b => nodes'[a].slot # nodes'[b].slot
          BY DEF SettlementInv, NoDoubleSettlement, ConflictsWith
        <4> QED  BY <3>7, <4>1 DEF FinalPart, Abstract!OneperSlot
      <3>11. SettledNodes' \subseteq Hash
        BY <3>4 DEF SettlementInv, TypeOK
      <3> QED  BY <3>3, <3>6, <3>7, <3>8, <3>9, <3>10, <3>11 DEF Abstract!Next, Abstract!Settle
    <2>3. CASE UNCHANGED vars
      BY <2>3 DEF vars, FinalPart, SettledNodes, Inserted
    <2> QED  BY <2>1, <2>2, <2>3 DEF Next
  <1> QED  BY <1>1, <1>2, SettlementInvariant, PTL DEF Spec, ImplementsAbstract, Abstract!Spec
================================================================================
