----------------------------- MODULE BlockNodeProofs -----------------------------
(****************************************************************************)
(* The stored chain of koinon-node, for every genesis, schedule of emission *)
(* and set of transactions, and any number of failing statements and ends   *)
(* of the process.                                                          *)
(*                                                                          *)
(* What the properties do not say and their proof needs: between the        *)
(* statements the block under production is the next of the chain, with the *)
(* hash of the last one as its parent; once it is inserted, the row above   *)
(* the height is that block; and a transaction is in one place only of the  *)
(* clients, the mempool, the block under production and the chain.  A row   *)
(* above the height that a failure left behind is under none of these.      *)
(****************************************************************************)
EXTENDS BlockNode, TLAPS

\* The hash of the last block of the chain
Tip == IF last_height = 0 THEN Zero ELSE blocks[last_height].hash

\* The block under production, until the height passes it
Pending == pc \in {"insert", "height"}

\* The tables hold a chain, and the statements extend it by the pending block.
ChainInv ==
    /\ last_height \in Nat
    /\ DOMAIN blocks \in {1..last_height, 1..(last_height + 1)}
    /\ ChainLinked
    /\ Pending => /\ block.height = last_height + 1
                  /\ block.parent_hash = Tip
    /\ pc = "height" => /\ DOMAIN blocks = 1..(last_height + 1)
                        /\ blocks[last_height + 1] = block

\* No transaction is in two places.
PlacesInv ==
    /\ IncludedOnce
    /\ mempool \cap unsubmitted = {}
    /\ \A h \in 1..last_height : blocks[h].transactions \cap (mempool \cup unsubmitted) = {}
    /\ Pending => /\ block.transactions \cap (mempool \cup unsubmitted) = {}
                  /\ \A h \in 1..last_height : blocks[h].transactions \cap block.transactions = {}

NodeInv == ChainInv /\ PlacesInv

\* What a step that leaves the chain alone, or extends it, does to it
ChainKept ==
    /\ last_height' = last_height
    /\ \A h \in 1..last_height : blocks'[h] = blocks[h]

--------------------------------------------------------------------------------
\* INSERT OR REPLACE of a block at the height above the chain
LEMMA RowAbove ==
    ASSUME NEW n \in Nat, NEW f, NEW b,
           DOMAIN f \in {1..n, 1..(n + 1)}
    PROVE  /\ DOMAIN Replaced(f, n + 1, b) = 1..(n + 1)
           /\ Replaced(f, n + 1, b)[n + 1] = b
           /\ \A h \in 1..n : Replaced(f, n + 1, b)[h] = f[h]
<1>1. DOMAIN f \cup {n + 1} = 1..(n + 1)
  OBVIOUS
<1>2. QED
  BY <1>1 DEF Replaced

LEMMA InitHolds == Init => NodeInv
BY DEF Init, NodeInv, ChainInv, PlacesInv, Pending, ChainLinked, IncludedOnce, Tip

\* A step that changes neither the chain nor what is pending keeps ChainInv.
LEMMA ChainSteady ==
    ASSUME ChainInv, UNCHANGED <<blocks, last_height>>,
           pc' \in {"idle", "down", "upsert"}
    PROVE  ChainInv'
BY DEF ChainInv, Pending, ChainLinked

--------------------------------------------------------------------------------
LEMMA SubmitKeeps ==
    ASSUME NodeInv, NEW tx, SubmitTransaction(tx)
    PROVE  NodeInv'
<1> USE DEF NodeInv
<1>1. ChainInv'
  BY ChainSteady DEF SubmitTransaction, tables
<1>2. PlacesInv'
  BY DEF SubmitTransaction, tables, PlacesInv, Pending, IncludedOnce
<1>3. QED
  BY <1>1, <1>2

LEMMA ProduceKeeps ==
    ASSUME NodeInv, ProduceBlock
    PROVE  NodeInv'
<1> USE DEF NodeInv
<1>1. /\ pc' = "insert" /\ mempool' = {}
      /\ UNCHANGED <<blocks, last_height, unsubmitted>>
      /\ block'.height = last_height + 1
      /\ block'.parent_hash = ParentHash
      /\ block'.transactions = mempool
  BY DEF ProduceBlock, tables, bounds, Height
<1>2. ParentHash = Tip
  BY DEF ParentHash, Tip, Height, ChainInv
<1>3. ChainInv'
  <2>1. Tip' = Tip
    BY <1>1 DEF Tip
  <2>2. ChainLinked'
    BY <1>1 DEF ChainInv, ChainLinked
  <2>3. QED
    BY <1>1, <1>2, <2>1, <2>2 DEF ChainInv, Pending
<1>4. PlacesInv'
  BY <1>1 DEF PlacesInv, Pending, IncludedOnce
<1>5. QED
  BY <1>3, <1>4

LEMMA InsertKeeps ==
    ASSUME NodeInv, InsertBlock
    PROVE  NodeInv' /\ ChainKept
<1> USE DEF NodeInv
<1>1. /\ pc = "insert" /\ pc' = "height"
      /\ blocks' = Replaced(blocks, block.height, block)
      /\ UNCHANGED <<last_height, block, mempool, unsubmitted>>
  BY DEF InsertBlock, Following, memory, bounds
<1>2. block.height = last_height + 1 /\ block.parent_hash = Tip /\ last_height \in Nat
  BY <1>1 DEF ChainInv, Pending
<1>3. /\ DOMAIN blocks' = 1..(last_height + 1)
      /\ blocks'[last_height + 1] = block
      /\ \A h \in 1..last_height : blocks'[h] = blocks[h]
  BY <1>1, <1>2, RowAbove DEF ChainInv
<1>4. Tip' = Tip
  BY <1>1, <1>2, <1>3 DEF Tip
<1>5. ChainLinked'
  BY <1>1, <1>2, <1>3 DEF ChainInv, ChainLinked
<1>6. ChainInv'
  BY <1>1, <1>2, <1>3, <1>4, <1>5 DEF ChainInv, Pending
<1>7. PlacesInv'
  BY <1>1, <1>3 DEF PlacesInv, Pending, IncludedOnce
<1>8. QED
  BY <1>1, <1>3, <1>6, <1>7 DEF ChainKept

LEMMA SetHeightKeeps ==
    ASSUME NodeInv, SetHeight
    PROVE  /\ NodeInv'
           /\ last_height' = last_height + 1 /\ last_height \in Nat
           /\ blocks' = blocks
<1> USE DEF NodeInv
<1>1. /\ pc = "height" /\ pc' = "upsert"
      /\ last_height' = block.height
      /\ UNCHANGED <<blocks, block, mempool, unsubmitted>>
  BY DEF SetHeight, Following, memory, bounds
<1>2. /\ last_height \in Nat
      /\ block.height = last_height + 1 /\ block.parent_hash = Tip
      /\ DOMAIN blocks = 1..(last_height + 1)
      /\ blocks[last_height + 1] = block
  BY <1>1 DEF ChainInv, Pending
<1>3. ChainLinked'
  <2> SUFFICES ASSUME NEW h \in 1..(last_height + 1)
               PROVE  /\ blocks[h].height = h
                      /\ blocks[h].parent_hash = IF h = 1 THEN Zero ELSE blocks[h - 1].hash
    BY <1>1, <1>2 DEF ChainLinked
  <2>1. CASE h = last_height + 1
    BY <1>2, <2>1 DEF Tip
  <2>2. CASE h \in 1..last_height
    BY <2>2 DEF ChainInv, ChainLinked
  <2>3. QED
    BY <1>2, <2>1, <2>2
<1>4. ChainInv'
  BY <1>1, <1>2, <1>3 DEF ChainInv, Pending
<1>5. PlacesInv'
  <2>1. \A h \in 1..(last_height + 1) : h \in 1..last_height \/ blocks[h] = block
    BY <1>2
  <2>2. IncludedOnce'
    <3> SUFFICES ASSUME NEW g \in 1..(last_height + 1), NEW h \in 1..(last_height + 1), g # h
                 PROVE  blocks[g].transactions \cap blocks[h].transactions = {}
      BY <1>1, <1>2 DEF IncludedOnce
    <3>1. CASE g \in 1..last_height /\ h \in 1..last_height
      BY <3>1 DEF PlacesInv, IncludedOnce
    <3>2. CASE g = last_height + 1
      <4>1. h \in 1..last_height
        BY <1>2, <3>2
      <4>2. QED
        BY <1>1, <1>2, <3>2, <4>1 DEF PlacesInv, Pending
    <3>3. CASE h = last_height + 1
      <4>1. g \in 1..last_height
        BY <1>2, <3>3
      <4>2. QED
        BY <1>1, <1>2, <3>3, <4>1 DEF PlacesInv, Pending
    <3>4. QED
      BY <1>2, <3>1, <3>2, <3>3
  <2>3. \A h \in 1..(last_height + 1) : blocks[h].transactions \cap (mempool \cup unsubmitted) = {}
    BY <1>1, <2>1 DEF PlacesInv, Pending
  <2>4. QED
    BY <1>1, <1>2, <2>2, <2>3 DEF PlacesInv, Pending
<1>6. QED
  BY <1>1, <1>2, <1>4, <1>5

\* Every other step keeps the tables of the chain and pends no block.
LEMMA OtherKeeps ==
    ASSUME NodeInv,
           \/ RewardRefused
           \/ \E v \in todo : UpsertValidator(v)
           \/ Produced \/ StatementFails \/ Crash \/ Restart
    PROVE  NodeInv' /\ ChainKept
<1> USE DEF NodeInv
<1>1. /\ UNCHANGED <<blocks, last_height, unsubmitted>>
      /\ mempool' \in {mempool, {}}
      /\ pc' \in {"idle", "down", "upsert"}
  <2>1. CASE RewardRefused
    BY <2>1 DEF RewardRefused, tables, bounds
  <2>2. CASE \E v \in todo : UpsertValidator(v)
    BY <2>2 DEF UpsertValidator, bounds
  <2>3. CASE Produced
    BY <2>3 DEF Produced, Following, tables, bounds
  <2>4. CASE StatementFails
    BY <2>4 DEF StatementFails, tables
  <2>5. CASE Crash
    BY <2>5 DEF Crash, tables
  <2>6. CASE Restart
    BY <2>6 DEF Restart, tables, bounds
  <2>7. QED
    BY <2>1, <2>2, <2>3, <2>4, <2>5, <2>6
<1>2. ChainInv'
  BY <1>1, ChainSteady
<1>3. PlacesInv'
  BY <1>1 DEF PlacesInv, Pending, IncludedOnce
<1>4. QED
  BY <1>1, <1>2, <1>3 DEF ChainKept

--------------------------------------------------------------------------------
\* A step keeps the invariant and every confirmed block.
LEMMA NodeStep ==
    ASSUME NodeInv, [Next]_vars
    PROVE  /\ NodeInv'
           /\ last_height <= last_height'
           /\ \A h \in 1..last_height : blocks'[h] = blocks[h]
<1>1. last_height \in Nat
  BY DEF NodeInv, ChainInv
<1>2. CASE \E tx \in Tx : SubmitTransaction(tx)
  BY <1>1, <1>2, SubmitKeeps DEF SubmitTransaction, tables
<1>3. CASE ProduceBlock
  BY <1>1, <1>3, ProduceKeeps DEF ProduceBlock, tables
<1>4. CASE InsertBlock
  BY <1>1, <1>4, InsertKeeps DEF ChainKept
<1>5. CASE SetHeight
  BY <1>1, <1>5, SetHeightKeeps
<1>6. CASE RewardRefused \/ (\E v \in todo : UpsertValidator(v)) \/ Produced
             \/ StatementFails \/ Crash \/ Restart
  BY <1>1, <1>6, OtherKeeps DEF ChainKept
<1>7. CASE UNCHANGED vars
  <2>1. UNCHANGED <<pc, block, mempool, blocks, last_height, unsubmitted>>
    BY <1>7 DEF vars, memory, tables, bounds
  <2>2. ChainInv'
    BY <2>1 DEF NodeInv, ChainInv, Pending, ChainLinked, Tip
  <2>3. PlacesInv'
    BY <2>1 DEF NodeInv, PlacesInv, Pending, IncludedOnce
  <2>4. QED
    BY <1>1, <2>1, <2>2, <2>3 DEF NodeInv
<1>8. QED
  BY <1>2, <1>3, <1>4, <1>5, <1>6, <1>7 DEF Next

\* Whatever statement of produce_block fails and wherever the process ends, every
\* block of the stored chain has its height and names the hash of the block below
\* it, and no transaction is in two blocks of the chain.
THEOREM ChainIsLinked == Spec => [](ChainLinked /\ IncludedOnce)
<1>1. NodeInv /\ [Next]_vars => NodeInv'
  BY NodeStep
<1>2. NodeInv => ChainLinked /\ IncludedOnce
  BY DEF NodeInv, ChainInv, PlacesInv
<1>3. QED
  BY <1>1, <1>2, InitHolds, PTL DEF Spec

\* apply_block, an INSERT OR REPLACE, never replaces a block the height of the
\* chain has passed, and the height never falls.
THEOREM BlocksStand == Spec => ConfirmedBlocksStand
<1>1. NodeInv /\ [Next]_vars => NodeInv'
  BY NodeStep
<1>2. NodeInv /\ [Next]_vars =>
          [/\ last_height <= last_height'
           /\ \A h \in 1..last_height : blocks'[h] = blocks[h]]_vars
  BY NodeStep
<1>3. QED
  BY <1>1, <1>2, InitHolds, PTL DEF Spec, ConfirmedBlocksStand
================================================================================
