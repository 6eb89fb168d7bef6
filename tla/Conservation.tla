------------------------------ MODULE Conservation ------------------------------
(****************************************************************************)
(* TotalValueConservation of koinon-ledger: the tracker of OIKOS and KOIN   *)
(* totals that the staking pool, the reward processor and the node each     *)
(* keep a copy of.  A tracker is a record; every recording operation is an  *)
(* operator that gives the tracker after the call.  The boolean the code    *)
(* returns is the operator of the same name ending in Ok.                   *)
(****************************************************************************)
EXTENDS Integers

CONSTANTS MaxU128,         \* the largest u128
          MAX_SUPPLY       \* OIKOS_MAX_SUPPLY

ASSUME BoundsAssumption == MaxU128 \in Nat /\ MAX_SUPPLY \in 0..MaxU128

U128 == 0..MaxU128

Tracker == [minted      : U128, burned : U128, oikos    : U128,
            staked      : U128, circ   : U128, treasury : U128,
            koin        : U128, circKoin : U128, treasuryKoin : U128]

NewTracker == [minted |-> 0, burned |-> 0, oikos    |-> 0,
               staked |-> 0, circ   |-> 0, treasury |-> 0,
               koin   |-> 0, circKoin |-> 0, treasuryKoin |-> 0]

Fits(n) == n \in U128                   \* a checked operation succeeds

SatSub(a, b) == IF b > a THEN 0 ELSE a - b

SatAdd(a, b) == IF a + b > MaxU128 THEN MaxU128 ELSE a + b

--------------------------------------------------------------------------------
\* record_mint raises minted before it tries total_oikos.
RecordMintOk(c, a) == c.minted + a <= MAX_SUPPLY /\ Fits(c.oikos + a)

RecordMint(c, a) ==
    IF c.minted + a > MAX_SUPPLY THEN c
    ELSE [c EXCEPT !.minted = @ + a,
                   !.oikos  = IF Fits(@ + a) THEN @ + a ELSE @]

RecordStakeOk(c, a) == Fits(c.staked + a) /\ a <= c.circ

RecordStake(c, a) ==
    IF RecordStakeOk(c, a) THEN [c EXCEPT !.staked = @ + a, !.circ = @ - a] ELSE c

RecordUnstakeOk(c, a) == a <= c.staked /\ Fits(c.circ + a)

RecordUnstake(c, a) ==
    IF RecordUnstakeOk(c, a) THEN [c EXCEPT !.staked = @ - a, !.circ = @ + a] ELSE c

\* record_burn keeps what it burned even when it answers no, takes it out of
\* circulation as far as there is any, and leaves total_oikos alone.
RecordBurnOk(c, a) == Fits(c.burned + a) /\ c.burned + a <= c.minted

RecordBurn(c, a) ==
    IF Fits(c.burned + a)
    THEN [c EXCEPT !.burned = @ + a, !.circ = SatSub(@, a)] ELSE c

\* record_treasury_oikos, record_treasury_koin, record_circulating_koin
RecordInOk(c, field, a) == Fits(c[field] + a)

RecordIn(c, field, a) == IF RecordInOk(c, field, a) THEN [c EXCEPT ![field] = @ + a] ELSE c

\* The total is raised even when the circulation cannot be
RecordKoinMint_Mut(c, a) ==
    [c EXCEPT !.koin = SatAdd(@, a), !.circKoin = IF Fits(@ + a) THEN @ + a ELSE @]

RecordKoinMintOk(c, a) == Fits(c.koin + a) /\ Fits(c.circKoin + a)

RecordKoinMint(c, a) ==
    IF RecordKoinMintOk(c, a) THEN [c EXCEPT !.koin = @ + a, !.circKoin = @ + a] ELSE c

RecordKoinBurnOk(c, a) == a <= c.koin /\ a <= c.circKoin

RecordKoinBurn(c, a) ==
    IF RecordKoinBurnOk(c, a) THEN [c EXCEPT !.koin = @ - a, !.circKoin = @ - a] ELSE c

--------------------------------------------------------------------------------
CheckInvariant(c) == c.minted >= c.burned

OikosParts(c) == c.staked + c.circ + c.treasury

KoinParts(c) == c.circKoin + c.treasuryKoin

\* check_full_invariant: a sum that overflows is a mismatch
CheckFullInvariant(c) ==
    /\ Fits(OikosParts(c)) /\ c.oikos = OikosParts(c)
    /\ Fits(KoinParts(c))  /\ c.koin = KoinParts(c)
    /\ SatSub(c.minted, c.burned) <= MAX_SUPPLY

\* check_full_invariant_ok
CheckFullInvariantOk(c) ==
    /\ Fits(OikosParts(c)) /\ c.oikos = OikosParts(c)
    /\ Fits(KoinParts(c))  /\ c.koin = KoinParts(c)
    /\ c.burned <= c.minted /\ c.minted - c.burned <= MAX_SUPPLY
================================================================================
