-------------------------------- MODULE BlockNode --------------------------------
(****************************************************************************)
(* Block production in koinon-node and the SQLite store behind it.          *)
(*                                                                          *)
(* produce_block runs under the producer's mutex, so no request comes       *)
(* between its steps.  Its writes are separate autocommitted statements,    *)
(* though: the block, the height of the chain, and one per validator.  A    *)
(* statement may fail, which ends the call with what memory and the tables  *)
(* hold by then, and the process may end between any two.                   *)
(*                                                                          *)
(* A validator is its identity (operator_did), stake and reward.  Accounts, *)
(* treasury, transactions, escrows and streams are never written to the     *)
(* tables by the node, and gas fees touch none of the state kept here.      *)
(****************************************************************************)
EXTENDS Conservation, FiniteSets, SequencesExt

CONSTANTS GenesisStake,         \* initial_validators: their stakes, in order
          Tx,                   \* transactions that clients submit, each once
          YEAR_1_EMISSION, DECAY_FACTOR_NUM, DECAY_FACTOR_DEN, EMISSION_HALT_YEAR,
          blocks_per_year,
          MaxHeight,            \* bound: height of the chain
          MaxFailures,          \* bound: statements that fail
          MaxCrashes            \* bound: process ends

Genesis == DOMAIN GenesisStake

\* The OIKOS a function of validators or heights adds up to
Total(f) == FoldFunction(LAMBDA a, b : a + b, 0, f)

--------------------------------------------------------------------------------
\* year_for_block, with 0 once emission has halted
YearForBlock(h) ==
    LET year == (h - 1) \div blocks_per_year + 1
    IN  IF year > EMISSION_HALT_YEAR THEN 0 ELSE year

\* The decay forgotten
EmissionAtYear_Mut(y) == IF y = 0 THEN 0 ELSE YEAR_1_EMISSION

EmissionAtYear(y) ==
    LET emission[n \in 1..EMISSION_HALT_YEAR] ==
            IF n = 1 THEN YEAR_1_EMISSION
            ELSE (emission[n - 1] * DECAY_FACTOR_NUM) \div DECAY_FACTOR_DEN
    IN  IF y = 0 THEN 0 ELSE emission[y]

BaseReward(h) == EmissionAtYear(YearForBlock(h)) \div blocks_per_year

\* What the chain up to height h is due
Emission(h) == Total([i \in 1..h |-> BaseReward(i)])

ASSUME BlockNodeAssumption ==
    /\ GenesisStake \in Seq(U128)
    /\ {YEAR_1_EMISSION, DECAY_FACTOR_NUM, MaxHeight, MaxFailures, MaxCrashes} \subseteq Nat
    /\ {DECAY_FACTOR_DEN, EMISSION_HALT_YEAR, blocks_per_year} \subseteq Nat \ {0}

--------------------------------------------------------------------------------
VARIABLES pc,           \* the next statement of produce_block, "idle" or "down"
          mempool,
          pool,         \* staking_pool.validators
          processor,    \* the reward processor's tracker
          block,        \* the block under production
          todo,         \* the validators still to be written
          blocks,       \* table blocks: height -> block
          last_height,  \* table chain_state: last_block_height
          rows,         \* table validators
          unsubmitted,  \* transactions no client has sent yet
          failures, crashes,
          repeated,     \* ghost: rewards of productions that did not raise the height
          saved         \* ghost: the genesis validators have all been written once

memory == <<mempool, pool, processor, block, todo>>
tables == <<blocks, last_height, rows>>
bounds == <<unsubmitted, failures, crashes>>
vars   == <<pc, memory, tables, bounds, repeated, saved>>

Validator == [did : Genesis, staked_amount : U128, reward_debt : Nat]

Block == [height : Nat, hash : Nat, parent_hash : Nat, transactions : SUBSET Tx, reward : Nat]

Zero == 0               \* [0u8; 32], the parent of the first block

NoBlock == [height |-> 0, hash |-> Zero, parent_hash |-> Zero, transactions |-> {}, reward |-> 0]

Registered(did) == [did |-> did, staked_amount |-> 0, reward_debt |-> 0]

\* genesis_state
GenesisPool ==
    [v \in Genesis |-> [Registered(v) EXCEPT !.staked_amount = GenesisStake[v]]]

--------------------------------------------------------------------------------
(****************************************************************************)
(* restore_state.  Every row is first registered, which gives it the next   *)
(* free id and not its own, and then copied over the validator that has the *)
(* row's id, if there is one.  SQLite lists the rows by their key.          *)
(****************************************************************************)
\* The stored validator is not copied over the registered one
Restored_Mut(p, id) == (p.next :> Registered(rows[id].did)) @@ p.pool

Restored(p, id) ==
    LET registered == (p.next :> Registered(rows[id].did)) @@ p.pool
    IN  IF id \in DOMAIN registered THEN [registered EXCEPT ![id] = rows[id]] ELSE registered

\* list_validators
ListValidators == SetToSortSeq(DOMAIN rows, <)

RestoredPool ==
    LET Restore(p, id) ==
            [pool |-> Restored(p, id),
             next |-> IF p.next + 1 > id + 1 THEN p.next + 1 ELSE id + 1]
    IN  FoldLeft(Restore, [pool |-> << >>, next |-> 1], ListValidators).pool

\* BlockProducer::new
Started(height) == IF height = 0 THEN GenesisPool ELSE RestoredPool

Init ==
    /\ pc = "idle"
    /\ mempool = {} /\ pool = GenesisPool /\ processor = NewTracker
    /\ block = NoBlock /\ todo = {}
    /\ blocks = << >> /\ last_height = 0 /\ rows = << >>
    /\ unsubmitted = Tx /\ failures = 0 /\ crashes = 0
    /\ repeated = 0 /\ saved = FALSE

Restart ==
    /\ pc = "down"
    /\ pc' = "idle"
    /\ pool' = Started(last_height)
    /\ UNCHANGED <<mempool, processor, block, todo, tables, bounds, repeated, saved>>

SubmitTransaction(tx) ==
    /\ pc = "idle"
    /\ tx \in unsubmitted
    /\ mempool' = mempool \cup {tx}
    /\ unsubmitted' = unsubmitted \ {tx}
    /\ UNCHANGED <<pc, pool, processor, block, todo, tables, failures, crashes, repeated, saved>>

--------------------------------------------------------------------------------
\* The last block built again
Height_Mut == IF last_height = 0 THEN 1 ELSE last_height

Height == last_height + 1

\* Looked up at the height of the new block
ParentHash_Mut ==
    IF Height \in DOMAIN blocks THEN blocks[Height].hash ELSE Zero

ParentHash ==
    IF Height - 1 \in DOMAIN blocks THEN blocks[Height - 1].hash ELSE Zero

\* SHA-256 of the contents with the time: no two blocks share a hash
FreshHash == 1 + last_height + failures + crashes

\* distribute_rewards gives out exactly the reward (Staking!RewardsConserved),
\* in shares that depend on stakes and on the order of a hash map.
Distributed(reward) ==
    IF Total([v \in DOMAIN pool |-> pool[v].staked_amount]) = 0 THEN {pool}
    ELSE {[v \in DOMAIN pool |-> [pool[v] EXCEPT !.reward_debt = @ + share[v]]] :
             share \in {s \in [DOMAIN pool -> 0..reward] : Total(s) = reward}}

\* produce_block up to the first statement
ProduceBlock ==
    LET reward == BaseReward(Height) IN
    /\ pc = "idle"
    /\ Height <= MaxHeight
    /\ reward > 0 => RecordMintOk(processor, reward)
    /\ processor' = RecordMint(processor, reward)
    /\ pool' \in Distributed(reward)
    /\ block' = [height |-> Height, hash |-> FreshHash, parent_hash |-> ParentHash,
                 transactions |-> mempool, reward |-> reward]
    /\ mempool' = {}
    /\ todo' = DOMAIN pool
    /\ pc' = "insert"
    /\ UNCHANGED <<tables, bounds, repeated, saved>>

\* The reward processor's error comes after the mempool was drained.
RewardRefused ==
    LET reward == BaseReward(Height) IN
    /\ pc = "idle"
    /\ Height <= MaxHeight
    /\ reward > 0 /\ ~RecordMintOk(processor, reward)
    /\ processor' = RecordMint(processor, reward)
    /\ mempool' = {}
    /\ UNCHANGED <<pc, pool, block, todo, tables, bounds, repeated, saved>>

--------------------------------------------------------------------------------
\* The height stored last
Following_Mut(statement) ==
    [insert |-> "upsert", upsert |-> "height", height |-> "idle"][statement]

\* The order of the statements: apply_block's two, then the validators
Following(statement) ==
    [insert |-> "height", height |-> "upsert", upsert |-> "idle"][statement]

\* INSERT OR REPLACE of the row with a key
Replaced(table, key, row) ==
    [k \in DOMAIN table \cup {key} |-> IF k = key THEN row ELSE table[k]]

InsertBlock ==
    /\ pc = "insert"
    /\ blocks' = Replaced(blocks, block.height, block)
    /\ pc' = Following(pc)
    /\ UNCHANGED <<memory, last_height, rows, bounds, repeated, saved>>

SetHeight ==
    /\ pc = "height"
    /\ last_height' = block.height
    /\ pc' = Following(pc)
    /\ UNCHANGED <<memory, blocks, rows, bounds, repeated, saved>>

UpsertValidator(v) ==
    /\ pc = "upsert"
    /\ rows' = Replaced(rows, v, pool[v])
    /\ todo' = todo \ {v}
    /\ UNCHANGED <<pc, mempool, pool, processor, block, blocks, last_height, bounds, repeated, saved>>

Produced ==
    /\ pc = "upsert" /\ todo = {}
    /\ pc' = Following(pc)
    /\ block' = NoBlock
    /\ saved' = (saved \/ \A v \in Genesis : v \in DOMAIN pool /\ pool[v].did = v)
    /\ UNCHANGED <<mempool, pool, processor, todo, tables, bounds, repeated>>

Repeats == IF last_height < block.height THEN block.reward ELSE 0

\* produce_block returns an error; the loop in main logs it and goes on.
StatementFails ==
    /\ pc \in {"insert", "height"} \/ (pc = "upsert" /\ todo # {})
    /\ failures < MaxFailures
    /\ failures' = failures + 1
    /\ pc' = "idle" /\ block' = NoBlock /\ todo' = {}
    /\ repeated' = repeated + Repeats
    /\ UNCHANGED <<mempool, pool, processor, tables, unsubmitted, crashes, saved>>

Crash ==
    /\ pc # "down"
    /\ crashes < MaxCrashes
    /\ crashes' = crashes + 1
    /\ pc' = "down"
    /\ mempool' = {} /\ pool' = << >> /\ processor' = NewTracker
    /\ block' = NoBlock /\ todo' = {}
    /\ UNCHANGED <<tables, unsubmitted, failures, repeated, saved>>

Next ==
    \/ \E tx \in Tx : SubmitTransaction(tx)
    \/ ProduceBlock \/ RewardRefused
    \/ InsertBlock \/ SetHeight
    \/ \E v \in todo : UpsertValidator(v)
    \/ Produced
    \/ StatementFails \/ Crash \/ Restart

Spec == Init /\ [][Next]_vars

--------------------------------------------------------------------------------
RewardsOf(validators) == Total([v \in DOMAIN validators |-> validators[v].reward_debt])

\* Memory and tables are well formed; blocks has a row for every height of the
\* chain, and at most one above it.
TypeOK ==
    /\ pc \in {"idle", "insert", "height", "upsert", "down"}
    /\ mempool \subseteq Tx /\ todo \subseteq DOMAIN pool
    /\ DOMAIN pool \subseteq Nat \ {0} /\ \A v \in DOMAIN pool : pool[v] \in Validator
    /\ DOMAIN rows \subseteq Nat \ {0} /\ \A v \in DOMAIN rows : rows[v] \in Validator
    /\ processor \in Tracker
    /\ block \in Block
    /\ DOMAIN blocks \in {1..last_height, 1..last_height + 1}
    /\ \A h \in DOMAIN blocks : blocks[h] \in Block

\* Across failed statements, crashes and restarts the stored chain stays linked:
\* every block names the hash of the one below it as its parent.
ChainLinked ==
    \A h \in 1..last_height :
        /\ blocks[h].height = h
        /\ blocks[h].parent_hash = IF h = 1 THEN Zero ELSE blocks[h - 1].hash

\* A block the height of the chain has passed is never replaced, although
\* apply_block says INSERT OR REPLACE, and the height never falls.
ConfirmedBlocksStand ==
    [][/\ last_height <= last_height'
       /\ \A h \in 1..last_height : blocks'[h] = blocks[h]]_vars

\* A submitted transaction is in at most one block of the chain.
IncludedOnce ==
    \A g, h \in 1..last_height :
        g # h => blocks[g].transactions \cap blocks[h].transactions = {}

\* The stored chain is sound whenever the process ends: well formed, linked, and
\* without a transaction in two blocks.
ChainSound == TypeOK /\ ChainLinked /\ IncludedOnce

\* A crash never makes the node pay a reward twice: the validators' stored
\* rewards stay within the emission of the stored chain and the rewards of
\* productions that a failing statement cut short.
RewardsWithinEmission == RewardsOf(rows) <= Emission(last_height) + repeated

\* Once the genesis validators have all been written, no crash, restart or
\* failure loses one of them, its identity or its stake.
StakesSurvive ==
    saved => /\ \A v \in Genesis : rows[v].did = v /\ rows[v].staked_amount = GenesisStake[v]
             /\ pc # "down" =>
                    /\ DOMAIN pool = Genesis
                    /\ \A v \in Genesis : pool[v].did = v /\ pool[v].staked_amount = GenesisStake[v]

\* The cap on the supply stops no block of the schedule, unless productions cut
\* short have used it up.
CapLeavesRoom ==
    (pc = "idle" /\ Height <= MaxHeight /\ repeated = 0)
        => processor.minted + BaseReward(Height) <= MAX_SUPPLY

\* Whatever statement fails and wherever the process ends, the chain is sound, no
\* stake is lost and the rewards stay within the emission and the cap.
NodeSound == ChainSound /\ RewardsWithinEmission /\ StakesSurvive /\ CapLeavesRoom
================================================================================
