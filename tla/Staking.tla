--------------------------------- MODULE Staking ---------------------------------
(****************************************************************************)
(* The staking pool of koinon-staking: registration, staking, unstaking,    *)
(* reward distribution, claims, and slashing with jail.                     *)
(*                                                                          *)
(* Amounts are u128 values bounded by MaxU128.  The pool is not shared      *)
(* between threads: every operation takes &mut StakingPool and is a step.   *)
(* An operation that returns an error before its first write is not a step; *)
(* stake writes the validator before it finds out that the pool total       *)
(* overflows, and that error is one.  `active` is set at registration and   *)
(* never cleared, so it is left out.                                        *)
(*                                                                          *)
(* Operators ending in _Mut are faulty variants for testing the properties. *)
(****************************************************************************)
EXTENDS Conservation, FiniteSets

CONSTANTS MINIMUM_STAKE,
          Scale,            \* 10^18: base units in a token
          Divisor,          \* slashing reason -> the stake is divided by this
          JailDuration,     \* slashing reason -> blocks in jail, 0 for none
          Amounts,          \* amounts callers stake and unstake
          Rewards,          \* rewards callers distribute
          MaxValidators,    \* bound: registrations
          MaxBlock,         \* bound: block height
          MaxDeposit,       \* bound: OIKOS staked and not unstaked
          MaxPaid           \* bound: rewards distributed in total

StakingAssumption ==
    /\ MINIMUM_STAKE \in U128 \ {0}
    /\ Scale \in U128 \ {0}
    /\ Amounts \subseteq U128 /\ Rewards \subseteq U128 \ {0}
    /\ DOMAIN Divisor = DOMAIN JailDuration
    /\ \A r \in DOMAIN Divisor : Divisor[r] \in Nat \ {0} /\ JailDuration[r] \in Nat
    /\ MaxValidators \in Nat /\ MaxBlock \in Nat
    /\ MaxDeposit \in Nat /\ MaxPaid \in Nat

VARIABLES validators,       \* id -> the validator's fields
          total_staked,
          conservation,     \* the pool's TotalValueConservation
          block,            \* the block height callers pass to apply_slashing
          deposited,        \* ghost: OIKOS staked minus OIKOS unstaked
          paid,             \* ghost: rewards handed to distribute_rewards
          claimed           \* ghost: rewards claimed

vars == <<validators, total_staked, conservation, block, deposited, paid, claimed>>

Reason == DOMAIN Divisor

Validator == [staked_amount  : U128,
              reward_debt    : U128,
              slashed_amount : U128,
              jailed_until   : Nat]

Ids == DOMAIN validators

\* The sum of a function on 1..n, the validator ids given out so far
Sum(f) ==
    LET sum[n \in 0..Cardinality(DOMAIN f)] == IF n = 0 THEN 0 ELSE sum[n - 1] + f[n]
    IN  sum[Cardinality(DOMAIN f)]

SumOf(field) == Sum([v \in Ids |-> validators[v][field]])

\* active_validators and is_active
Active == {v \in Ids : validators[v].jailed_until = 0}

Init == /\ validators = [v \in {} |-> 0]
        /\ total_staked = 0
        /\ conservation = NewTracker
        /\ block = 0
        /\ deposited = 0 /\ paid = 0 /\ claimed = 0

\* next_validator_id starts at 1 and is raised by every registration.
RegisterValidator ==
    LET id == Cardinality(Ids) + 1 IN
    /\ id <= MaxValidators
    /\ validators' = [v \in Ids \cup {id} |->
                        IF v = id
                        THEN [staked_amount |-> 0, reward_debt |-> 0,
                              slashed_amount |-> 0, jailed_until |-> 0]
                        ELSE validators[v]]
    /\ UNCHANGED <<total_staked, conservation, block, deposited, paid, claimed>>

--------------------------------------------------------------------------------
\* The jail check dropped
StakeAllowed_Mut(v, a) ==
    LET new == validators[v].staked_amount + a
    IN  Fits(new) /\ new >= MINIMUM_STAKE

\* The checks of stake, in order: jail, overflow of the validator, minimum.
StakeAllowed(v, a) ==
    LET new == validators[v].staked_amount + a
    IN  v \in Active /\ Fits(new) /\ new >= MINIMUM_STAKE

Stake(v, a) ==
    /\ StakeAllowed(v, a)
    /\ deposited + a <= MaxDeposit
    /\ validators' = [validators EXCEPT ![v].staked_amount = @ + a]
    /\ IF Fits(total_staked + a)
       THEN /\ total_staked' = total_staked + a
            /\ conservation' = RecordStake(conservation, a)
       ELSE UNCHANGED <<total_staked, conservation>>
    /\ deposited' = deposited + a
    /\ UNCHANGED <<block, paid, claimed>>

\* unstake asks nothing about jail; it takes all or leaves the minimum.
UnstakeAllowed(v, left) == left = 0 \/ left >= MINIMUM_STAKE

Unstake(v, a) ==
    LET left == validators[v].staked_amount - a IN
    /\ UnstakeAllowed(v, left)
    /\ validators' = [validators EXCEPT ![v].staked_amount = left]
    /\ IF a <= total_staked
       THEN /\ total_staked' = total_staked - a
            /\ conservation' = RecordUnstake(conservation, a)
       ELSE UNCHANGED <<total_staked, conservation>>
    /\ deposited' = deposited - a
    /\ UNCHANGED <<block, paid, claimed>>

--------------------------------------------------------------------------------
(****************************************************************************)
(* distribute_rewards.  The validators come in the order of a HashMap, so   *)
(* any active one may be the last.  The others get their pro rata share of  *)
(* the whole pool's stake; the last gets what is left.                      *)
(****************************************************************************)
Served == Active

ProRataShare(stake, reward, total) ==
    IF stake * reward <= MaxU128 THEN (stake * reward) \div total
    ELSE IF total \div Scale = 0 THEN 0
    ELSE (((stake \div Scale) * (reward \div Scale)) \div (total \div Scale)) * Scale

\* The last validator treated like every other
Remainder_Mut(last, reward, given) ==
    ProRataShare(validators[last].staked_amount, reward, total_staked)

Remainder(last, reward, given) == SatSub(reward, given)

Share(v, last, reward) ==
    LET ProRata(w) == ProRataShare(validators[w].staked_amount, reward, total_staked)
        given == Sum([w \in Ids |-> IF w \in Served \ {last} THEN ProRata(w) ELSE 0])
    IN  IF v = last THEN Remainder(last, reward, given) ELSE ProRata(v)

DistributeRewards(reward) ==
    /\ total_staked # 0
    /\ paid + reward <= MaxPaid
    /\ \E last \in Served :
          validators' = [v \in Ids |->
                            IF v \in Served
                            THEN [validators[v] EXCEPT !.reward_debt = SatAdd(@, Share(v, last, reward))]
                            ELSE validators[v]]
    /\ paid' = paid + reward
    /\ UNCHANGED <<total_staked, conservation, block, deposited, claimed>>

ClaimRewards(v) ==
    /\ claimed' = claimed + validators[v].reward_debt
    /\ validators' = [validators EXCEPT ![v].reward_debt = 0]
    /\ UNCHANGED <<total_staked, conservation, block, deposited, paid>>

--------------------------------------------------------------------------------
(****************************************************************************)
(* apply_slashing.  A reason is a member of Reason; a downtime of at most   *)
(* 3600 blocks slashes nothing and jails nobody, so it changes nothing.     *)
(****************************************************************************)
CalculateSlash(v, reason) == validators[v].staked_amount \div Divisor[reason]

\* The pool total reduced by what is left instead of what is lost
TotalAfterSlash_Mut(v, reason) ==
    SatSub(total_staked, validators[v].staked_amount - CalculateSlash(v, reason))

TotalAfterSlash(v, reason) == SatSub(total_staked, CalculateSlash(v, reason))

\* The history overwritten instead of added to
SlashHistory_Mut(v, reason) == CalculateSlash(v, reason)

SlashHistory(v, reason) == SatAdd(validators[v].slashed_amount, CalculateSlash(v, reason))

ApplySlashing(v, reason) ==
    /\ validators' =
         [validators EXCEPT
            ![v].staked_amount  = SatSub(@, CalculateSlash(v, reason)),
            ![v].slashed_amount = SlashHistory(v, reason),
            ![v].jailed_until   = IF JailDuration[reason] > 0
                                  THEN block + JailDuration[reason] ELSE @]
    /\ total_staked' = TotalAfterSlash(v, reason)
    /\ UNCHANGED <<conservation, block, deposited, paid, claimed>>

\* The chain grows; nothing in the pool looks at it.
NextBlock ==
    /\ block < MaxBlock
    /\ block' = block + 1
    /\ UNCHANGED <<validators, total_staked, conservation, deposited, paid, claimed>>

Next ==
    \/ RegisterValidator
    \/ \E v \in Ids, a \in Amounts : Stake(v, a) \/ Unstake(v, a)
    \/ \E r \in Rewards : DistributeRewards(r)
    \/ \E v \in Ids : ClaimRewards(v)
    \/ \E v \in Ids, reason \in Reason : ApplySlashing(v, reason)
    \/ NextBlock

Spec == Init /\ [][Next]_vars

--------------------------------------------------------------------------------
\* Every field keeps its width.
TypeOK ==
    /\ Ids = 1..Cardinality(Ids)
    /\ validators \in [Ids -> Validator]
    /\ total_staked \in U128
    /\ conservation \in Tracker
    /\ block \in 0..MaxBlock
    /\ deposited \in Int /\ paid \in 0..MaxPaid /\ claimed \in Nat

\* StakingPool::check_invariant: total_staked is the sum of the stakes, through
\* every order of staking, unstaking and slashing.
TotalMatches == total_staked = SumOf("staked_amount")

\* The pool is well formed and its total is right after every call.
PoolConsistent == TypeOK /\ TotalMatches

\* Slashing only moves stake into the slashed column: what was staked and not
\* unstaked is still staked or was slashed.
SlashAccounting == SumOf("staked_amount") + SumOf("slashed_amount") = deposited

\* distribute_rewards hands out each reward exactly, whatever rounding does and
\* whoever is last: claimed and unclaimed rewards add up to what was paid in.
RewardsConserved == SumOf("reward_debt") + claimed = paid

\* The pool's books are right through every order of calls.
StakingSound == PoolConsistent /\ SlashAccounting /\ RewardsConserved

\* "Jailed validators cannot receive rewards or accept new stakes": while a
\* validator is jailed neither its stake nor its reward grows.
JailedAreFrozen ==
    [][\A v \in Ids \ Active :
          /\ validators'[v].staked_amount <= validators[v].staked_amount
          /\ validators'[v].reward_debt <= validators[v].reward_debt]_vars
================================================================================
