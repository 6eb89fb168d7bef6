--------------------------------- MODULE Ledger ---------------------------------
(****************************************************************************)
(* The token economics of koinon: the books of TotalValueConservation under *)
(* any sequence of recording calls, the elastic KOIN supply, the genesis    *)
(* distribution with its vesting, and what a block's gas and fees come to.  *)
(*                                                                          *)
(* The four share no state, so a behaviour exercises one of them, the       *)
(* `part'.  Floats are exact here: an average price is a fraction, and a    *)
(* weight is given in basis points, the precision the code keeps of it.     *)
(****************************************************************************)
EXTENDS Conservation, SequencesExt

CONSTANTS Amounts,              \* amounts that callers record
          MaxCalls,             \* bound: recording calls of a behaviour
          InitialSupplies,      \* KOIN an elastic supply starts with
          ADJUSTMENT_INTERVAL,
          TOLERANCE,            \* 1 / TOLERANCE_BAND
          Prices,               \* lists of recent gas prices
          MaxBlock,             \* bound: the last block
          TotalSupplies, WeightLists, TEAM_VESTING_MONTHS,
          FeeConfigs, Fees, GasConfig, MaxU64, Steps

Sum(s) == FoldLeft(LAMBDA a, b : a + b, 0, s)

Abs(n) == IF n < 0 THEN -n ELSE n

--------------------------------------------------------------------------------
\* calculate_average_gas_price as a fraction; the target price is 1
AverageGasPrice(recent) ==
    IF recent = << >> THEN [num |-> 1, den |-> 1]
    ELSE [num |-> Sum(recent), den |-> Len(recent)]

ShouldAdjust(e, block) == block >= e.last + ADJUSTMENT_INTERVAL

\* The correction is not damped
ComputeAdjustment_Mut(e, price, block) ==
    IF ~ShouldAdjust(e, block) THEN 0 ELSE (e.supply * (price.num - price.den)) \div price.den

\* compute_adjustment: what is minted, or burned when negative, or 0 for None.
\* A deviation within the band is tolerated, and a tenth of it is corrected.
ComputeAdjustment(e, price, block) ==
    LET deviation == price.num - price.den
        change    == (e.supply * Abs(deviation)) \div (price.den * 10)
    IN  IF ~ShouldAdjust(e, block) \/ TOLERANCE * Abs(deviation) < price.den THEN 0
        ELSE IF deviation > 0 THEN change ELSE -change

ApplyAdjustmentOk(e, a) == -a <= e.supply

ApplyAdjustment(e, a, block) ==
    IF a = 0 \/ ~ApplyAdjustmentOk(e, a) THEN e
    ELSE [supply |-> IF a > 0 THEN SatAdd(e.supply, a) ELSE e.supply + a, last |-> block]

--------------------------------------------------------------------------------
POOL_BP == [validators |-> 4000, treasury |-> 3000, ecosystem |-> 2000, team |-> 1000]

Pool(total, group) == (total * POOL_BP[group]) \div 10000

Groups == {"validators", "ecosystem", "team"}

\* validate_weights, with its tolerance of one hundredth
ValidWeights(ws) == ws = << >> \/ Abs(Sum(ws) - 10000) <= 100

\* The accounts of a group share its pool by weight, rounded down.
Shares(total, group, ws) == [i \in DOMAIN ws |-> (Pool(total, group) * ws[i]) \div 10000]

\* compute_genesis_distribution.  The treasury's pool goes to no account.
Distribution(total, weights) ==
    [pools  |-> [g \in DOMAIN POOL_BP |-> Pool(total, g)],
     shares |-> [g \in Groups |-> Shares(total, g, weights[g])],
     total  |-> Pool(total, "validators") + Pool(total, "treasury")
                    + Pool(total, "ecosystem") + Pool(total, "team"),
     months |-> 0]

VerifyGenesisInvariant(g) ==
    /\ g.total = g.pools.validators + g.pools.treasury + g.pools.ecosystem + g.pools.team
    /\ g.total <= MAX_SUPPLY

\* vested_amount of an allocation of the team; the others vest at once
VestedAmount(amount, months) ==
    IF TEAM_VESTING_MONTHS = 0 THEN amount
    ELSE (amount * (IF months < TEAM_VESTING_MONTHS THEN months ELSE TEAM_VESTING_MONTHS))
             \div TEAM_VESTING_MONTHS

\* claimable, which takes nothing as claimed so far
Claimable(g) == [i \in DOMAIN g.shares.team |-> VestedAmount(g.shares.team[i], g.months)]

--------------------------------------------------------------------------------
\* FeeConfig::validate, which new demands
ValidFees(c) == c.burn + c.validator + c.treasury = 100

\* from_config: the treasury takes what rounding leaves
FeeSplit(c, fee) ==
    IF fee < 0 THEN [burn |-> 0, validator |-> 0, treasury |-> 0]
    ELSE LET burn      == (fee * c.burn) \div 100
             validator == (fee * c.validator) \div 100
         IN  [burn |-> burn, validator |-> validator, treasury |-> fee - burn - validator]

CheckFeeConservation(split, fee) == split.burn + split.validator + split.treasury = fee

SatU64(n) == IF n > MaxU64 THEN MaxU64 ELSE n

\* calculate_gas_with_config
CalculateGas(steps, bytes) ==
    SatU64(SatU64(GasConfig.base_cost + SatU64(steps * GasConfig.per_step))
               + SatU64(bytes * GasConfig.per_storage_byte))

--------------------------------------------------------------------------------
VARIABLES part, tracker, calls, elastic, block, genesis, fees,
          answered      \* ghost: what the calls of each name recorded

vars == <<part, tracker, calls, elastic, block, genesis, fees, answered>>

Calls == {"mint", "burn", "stake", "unstake", "koin_mint", "koin_burn",
          "treasury", "treasuryKoin", "circKoin"}

NoGenesis == [months |-> -1]

NoFees == [paid |-> 0, split |-> [burn |-> 0, validator |-> 0, treasury |-> 0]]

Init ==
    /\ part \in {"books", "supply", "genesis", "fees"}
    /\ tracker = NewTracker /\ calls = 0 /\ answered = [n \in Calls |-> 0]
    /\ elastic \in (IF part = "supply" THEN [supply : InitialSupplies, last : {0}]
                    ELSE {[supply |-> 0, last |-> 0]})
    /\ block = 0 /\ genesis = NoGenesis /\ fees = NoFees

\* A recording call: its name, the amount, its answer and the books after it
Recorded(name, a, ok, after) ==
    /\ tracker' = after
    /\ calls' = calls + 1
    /\ answered' = [answered EXCEPT ![name] = IF ok THEN @ + a ELSE @]
    /\ UNCHANGED <<part, elastic, block, genesis, fees>>

Record ==
    /\ part = "books" /\ calls < MaxCalls
    /\ \E a \in Amounts :
          \/ Recorded("mint", a, RecordMintOk(tracker, a), RecordMint(tracker, a))
          \/ Recorded("burn", a, RecordBurnOk(tracker, a), RecordBurn(tracker, a))
          \/ Recorded("stake", a, RecordStakeOk(tracker, a), RecordStake(tracker, a))
          \/ Recorded("unstake", a, RecordUnstakeOk(tracker, a), RecordUnstake(tracker, a))
          \/ Recorded("koin_mint", a, RecordKoinMintOk(tracker, a), RecordKoinMint(tracker, a))
          \/ Recorded("koin_burn", a, RecordKoinBurnOk(tracker, a), RecordKoinBurn(tracker, a))
          \/ \E f \in {"treasury", "treasuryKoin", "circKoin"} :
                Recorded(f, a, RecordInOk(tracker, f, a), RecordIn(tracker, f, a))

\* At a block the average of the recent prices decides on an adjustment.
Adjust ==
    /\ part = "supply" /\ block < MaxBlock
    /\ block' = block + 1
    /\ \E recent \in Prices :
          elastic' = ApplyAdjustment(elastic,
                         ComputeAdjustment(elastic, AverageGasPrice(recent), block'), block')
    /\ UNCHANGED <<part, tracker, calls, answered, genesis, fees>>

Distribute ==
    /\ part = "genesis" /\ genesis = NoGenesis
    /\ \E total \in TotalSupplies, weights \in [Groups -> WeightLists] :
          /\ \A g \in Groups : ValidWeights(weights[g])
          /\ genesis' = Distribution(total, weights)
    /\ UNCHANGED <<part, tracker, calls, answered, elastic, block, fees>>

Vest ==
    /\ part = "genesis" /\ genesis.months \in 0..TEAM_VESTING_MONTHS
    /\ genesis' = [genesis EXCEPT !.months = @ + 1]
    /\ UNCHANGED <<part, tracker, calls, answered, elastic, block, fees>>

\* The gas of a block's transactions is its fee, and the fee is split.
Charge ==
    /\ part = "fees" /\ block < MaxBlock
    /\ block' = block + 1
    /\ \E c \in FeeConfigs, fee \in Fees \cup {CalculateGas(s, b) : s, b \in Steps} :
          /\ ValidFees(c)
          /\ fees' = [paid |-> fee, split |-> FeeSplit(c, fee)]
    /\ UNCHANGED <<part, tracker, calls, answered, elastic, genesis>>

Next == Record \/ Adjust \/ Distribute \/ Vest \/ Charge

Spec == Init /\ [][Next]_vars

--------------------------------------------------------------------------------
\* After any sequence of recording calls, refused ones included, the books hold
\* what the calls that were answered yes recorded: the supply minted is within
\* the cap and equals total_oikos, KOIN is out of balance by exactly what was
\* recorded without a mint, and the two full checks differ only once more has
\* been burned than minted.
BooksSound ==
    /\ tracker \in Tracker
    /\ tracker.minted = answered.mint /\ tracker.oikos = tracker.minted
    /\ tracker.minted <= MAX_SUPPLY
    /\ tracker.koin = answered.koin_mint - answered.koin_burn
    /\ KoinParts(tracker) = tracker.koin + answered.treasuryKoin + answered.circKoin
    /\ CheckFullInvariant(tracker) # CheckFullInvariantOk(tracker) => ~CheckInvariant(tracker)

\* No account list the weights' tolerance admits lets a group be given more than
\* a hundredth above its pool, or with exact weights less than the pool but for
\* the rounding of each account, and the team's claims reach its shares in full.
GenesisSound ==
    genesis # NoGenesis =>
        /\ VerifyGenesisInvariant(genesis) <=> genesis.total <= MAX_SUPPLY
        /\ \A g \in Groups :
              /\ 100 * Sum(genesis.shares[g]) <= 101 * genesis.pools[g]
              /\ genesis.shares[g] # << >> =>
                    100 * (Sum(genesis.shares[g]) + Len(genesis.shares[g])) >= 99 * genesis.pools[g]
        /\ Sum(Claimable(genesis)) <= Sum(genesis.shares.team)
        /\ genesis.months >= TEAM_VESTING_MONTHS => Claimable(genesis) = genesis.shares.team

\* Every fee that is not negative is given out to the last unit, no share being
\* negative.
FeesConserved ==
    /\ CheckFeeConservation(fees.split, IF fees.paid < 0 THEN 0 ELSE fees.paid)
    /\ \A r \in DOMAIN fees.split : fees.split[r] >= 0

\* The ledger's bookkeeping is right whatever is called in whatever order.
LedgerSound == BooksSound /\ GenesisSound /\ FeesConserved

\* An adjustment never burns more than a tenth of the supply, so that a supply
\* never runs out and no burn is refused, and comes at most once in an interval.
SupplySteady ==
    [][elastic' # elastic =>
          /\ elastic'.last = block' /\ elastic'.last - elastic.last >= ADJUSTMENT_INTERVAL
          /\ 10 * (elastic.supply - elastic'.supply) <= elastic.supply
          /\ elastic.supply > 0 /\ elastic'.supply > 0]_vars
================================================================================
