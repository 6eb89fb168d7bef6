------------------------------- MODULE MCEconomy -------------------------------
(****************************************************************************)
(* The parts of koinon that hold value, side by side: part says whether the *)
(* block producer, the staking pool, the ledger's books, the treasury, a    *)
(* mandate with two sessions or the contracts (a stream and an escrow) run. *)
(*                                                                          *)
(* Amounts are small.  The pool's divisors and jail durations keep the      *)
(* code's order: double signing costs most and jails longest, downtime      *)
(* costs least and does not jail.  The ledger's u128 ends at 60 and its cap *)
(* is 6, so that every checked addition can fail; its prices reach nothing  *)
(* at all and three times the target, and its band is a quarter.            *)
(****************************************************************************)
EXTENDS BlockNode, Treasury, Mandate, Contracts

VARIABLES part,
          validators, total_staked, conservation, stakingBlock, deposited, stakingPaid, claimed,
          ledgerPart, tracker, calls, elastic, ledgerBlock, genesis, fees, answered

stakingVars  == <<validators, total_staked, conservation, stakingBlock, deposited, stakingPaid, claimed>>
ledgerVars   == <<ledgerPart, tracker, calls, elastic, ledgerBlock, genesis, fees, answered>>
contractVars == <<StreamVars, EscrowVars, now>>

--------------------------------------------------------------------------------
MCGenesisStake == <<2, 1>>

P == INSTANCE Staking WITH
        block <- stakingBlock, paid <- stakingPaid,
        MaxU128 <- 12, MAX_SUPPLY <- 12, MINIMUM_STAKE <- 4, Scale <- 2,
        Divisor      <- [DoubleSigning |-> 2, InvalidStateProof |-> 3, Downtime |-> 4],
        JailDuration <- [DoubleSigning |-> 2, InvalidStateProof |-> 1, Downtime |-> 0],
        Amounts <- {4, 5}, Rewards <- {3},
        MaxValidators <- 2, MaxBlock <- 1, MaxPaid <- 3, MaxDeposit <- 12

\* The last list of prices deviates by less than the band
MCPrices == {<< >>, <<0>>, <<0, 1>>, <<1, 2>>, <<3>>, <<1, 1, 2, 1, 1>>}

MCWeights == {<< >>, <<10000>>, <<10100>>, <<9900>>, <<5050, 5050>>, <<3333, 3333, 3334>>,
              <<5000, 5101>>, <<8000>>}

MCFeeConfigs == {[burn |-> 70, validator |-> 20, treasury |-> 10],
                 [burn |-> 33, validator |-> 33, treasury |-> 34],
                 [burn |-> 0, validator |-> 100, treasury |-> 0],
                 [burn |-> 50, validator |-> 50, treasury |-> 50]}

L == INSTANCE Ledger WITH
        part <- ledgerPart, block <- ledgerBlock,
        MaxU128 <- 60, MAX_SUPPLY <- 6, Amounts <- {1, 5, 35}, MaxCalls <- 4,
        InitialSupplies <- {1, 30, 50}, ADJUSTMENT_INTERVAL <- 2, TOLERANCE <- 4,
        Prices <- MCPrices, MaxBlock <- 6,
        TotalSupplies <- {0, 3, 7, 1000}, WeightLists <- MCWeights, TEAM_VESTING_MONTHS <- 4,
        FeeConfigs <- MCFeeConfigs, Fees <- {-1, 0, 1, 99, 101},
        GasConfig <- [base_cost |-> 1000, per_step |-> 10, per_storage_byte |-> 100],
        MaxU64 <- 5000, Steps <- {0, 1, 30, 5000}

\* A cost in KOIN may be negative
MCKoinCosts == {-1, 1}

\* Two time locks, a signature of both accounts, and an oracle
MCConditions ==
    [kind : {"TimeLock"}, lock_time : {1, 3}]
        \cup [kind : {"MultiSig"}, required : {2}, signers : {Account}]
        \cup [kind : {"Oracle"}]

ASSUME StakingAssumption == P!StakingAssumption

--------------------------------------------------------------------------------
\* A part that does not run is in one of its initial states
LedgerIdle == L!Init /\ ledgerPart = "fees"

MandateIdle ==
    /\ mandate = [oikos_budget |-> 0, oikos_spent |-> 0, koin_budget |-> 0, koin_spent |-> 0,
                  allowed_contracts |-> {}, time_bound |-> NoBound, active |-> TRUE]
    /\ current_time = 0
    /\ stage = [s \in Session |-> Idle]
    /\ cost = [s \in Session |-> [oikos |-> 0, koin |-> 1]]

ContractsIdle ==
    /\ stream = [total_amount |-> 0, rate |-> 2, streamed_amount |-> 0, state |-> "Active",
                 start_time |-> 0, pause_time |-> NoTime]
    /\ now = 0 /\ earning = 0
    /\ state = "Funded" /\ conditions = {} /\ met = {}

MCInit ==
    /\ part \in {"node", "staking", "ledger", "treasury", "mandate", "contracts"}
    /\ Init /\ P!Init /\ TreasuryInit
    /\ IF part = "ledger"    THEN L!Init        ELSE LedgerIdle
    /\ IF part = "mandate"   THEN MandateInit   ELSE MandateIdle
    /\ IF part = "contracts" THEN ContractsInit ELSE ContractsIdle

MCNext ==
    /\ UNCHANGED part
    /\ \/ /\ part = "node" /\ Next
          /\ UNCHANGED <<stakingVars, ledgerVars, treasuryVars, mandateVars, contractVars>>
       \/ /\ part = "staking" /\ P!Next
          /\ UNCHANGED <<vars, ledgerVars, treasuryVars, mandateVars, contractVars>>
       \/ /\ part = "ledger" /\ L!Next
          /\ UNCHANGED <<vars, stakingVars, treasuryVars, mandateVars, contractVars>>
       \/ /\ part = "treasury" /\ TreasuryNext
          /\ UNCHANGED <<vars, stakingVars, ledgerVars, mandateVars, contractVars>>
       \/ /\ part = "mandate" /\ MandateNext
          /\ UNCHANGED <<vars, stakingVars, ledgerVars, treasuryVars, contractVars>>
       \/ /\ part = "contracts" /\ ContractsNext
          /\ UNCHANGED <<vars, stakingVars, ledgerVars, treasuryVars, mandateVars>>

MCSpec ==
    MCInit /\ [][MCNext]_<<part, vars, stakingVars, ledgerVars, treasuryVars, mandateVars, contractVars>>

--------------------------------------------------------------------------------
(* The pool's total, its slashed column and its rewards add up, as Staking    *)
(* states it.                                                                 *)
StakingSound == part = "staking" => P!StakingSound

(* A jailed validator gains neither stake nor reward, as Staking states it.   *)
JailedAreFrozen == P!JailedAreFrozen

(* The books, the genesis distribution and the fees add up, as Ledger states  *)
(* it.                                                                        *)
LedgerSound == part = "ledger" => L!LedgerSound

(* The elastic supply never runs out and moves once in an interval, as Ledger *)
(* states it.                                                                 *)
SupplySteady == L!SupplySteady
================================================================================
