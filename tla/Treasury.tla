-------------------------------- MODULE Treasury --------------------------------
(****************************************************************************)
(* The treasury pool of koinon-treasury: spend proposals, stake-weighted    *)
(* votes, and the tally that pays a proposal out or rejects it.             *)
(*                                                                          *)
(* create_proposal records the block at which the voting window closes;     *)
(* neither vote nor tally_and_execute looks at the block height, which the  *)
(* model keeps only to say what the window is.  A voter is known to vote    *)
(* only by its stake.  Checked additions on u64 cannot fail within the      *)
(* bounds, which stand in for the width of the counters.                    *)
(****************************************************************************)
EXTENDS Naturals, FiniteSets

CONSTANTS InitialBalance,
          quorum_pct,       \* 67 by default
          Amounts,          \* amounts of proposals
          Stakes,           \* the stake of one voter
          TotalStaked,      \* the total stake proposals are created with
          VotingPeriod,
          MaxProposals,     \* bound: proposals
          MaxVotes,         \* bound: votes_for and votes_against
          MaxBlock          \* bound: block height

ASSUME TreasuryAssumption ==
    /\ InitialBalance \in Nat /\ quorum_pct \in 0..100
    /\ Amounts \subseteq Nat /\ Stakes \subseteq Nat /\ TotalStaked \subseteq Nat
    /\ VotingPeriod \in Nat /\ MaxProposals \in Nat /\ MaxVotes \in Nat /\ MaxBlock \in Nat

VARIABLES balance,
          proposals,        \* id -> TreasuryProposal
          current_block,    \* the block height callers pass in
          paid              \* ghost: id -> what the treasury paid for it

treasuryVars == <<balance, proposals, current_block, paid>>

ProposalStatus == {"Pending", "Rejected", "Executed"}

TreasuryProposal == [amount        : Amounts,
                     status        : ProposalStatus,
                     votes_for     : 0..MaxVotes,
                     votes_against : 0..MaxVotes,
                     total_staked  : TotalStaked,
                     expires_at    : Nat]

Ids == DOMAIN proposals

TreasuryInit == /\ balance = InitialBalance
        /\ proposals = [id \in {} |-> 0]
        /\ current_block = 0
        /\ paid = [id \in {} |-> 0]

--------------------------------------------------------------------------------
CreateProposal(amount, staked) ==
    LET id == Cardinality(Ids) + 1
        new == [amount |-> amount, status |-> "Pending", votes_for |-> 0, votes_against |-> 0,
                total_staked |-> staked, expires_at |-> current_block + VotingPeriod]
    IN  /\ id <= MaxProposals
        /\ proposals' = [i \in Ids \cup {id} |-> IF i = id THEN new ELSE proposals[i]]
        /\ paid' = [i \in Ids \cup {id} |-> IF i = id THEN 0 ELSE paid[i]]
        /\ UNCHANGED <<balance, current_block>>

\* Votes counted on decided proposals too
Votable_Mut(id) == TRUE

Votable(id) == proposals[id].status = "Pending"

Vote(id, stake, in_favor) ==
    /\ Votable(id)
    /\ IF in_favor
       THEN /\ proposals[id].votes_for + stake <= MaxVotes
            /\ proposals' = [proposals EXCEPT ![id].votes_for = @ + stake]
       ELSE /\ proposals[id].votes_against + stake <= MaxVotes
            /\ proposals' = [proposals EXCEPT ![id].votes_against = @ + stake]
    /\ UNCHANGED <<balance, current_block, paid>>

--------------------------------------------------------------------------------
(****************************************************************************)
(* tally_and_execute.  The quorum is rounded down.  An undecided tally does *)
(* not exist: below the quorum, or short of funds, the proposal is rejected *)
(* for good.                                                                *)
(****************************************************************************)
QuorumMet(p) == p.votes_for >= (p.total_staked * quorum_pct) \div 100

Funded(p) == balance >= p.amount

\* No check of the status
Tallyable_Mut(id) == TRUE

Tallyable(id) == proposals[id].status = "Pending"

\* Votes against counted towards the quorum
Pays_Mut(p) == Funded(p) /\ QuorumMet([p EXCEPT !.votes_for = @ + p.votes_against])

Pays(p) == QuorumMet(p) /\ Funded(p)

TallyAndExecute(id) ==
    LET p == proposals[id] IN
    /\ Tallyable(id)
    /\ IF Pays(p)
       THEN /\ balance' = balance - p.amount
            /\ proposals' = [proposals EXCEPT ![id].status = "Executed"]
            /\ paid' = [paid EXCEPT ![id] = @ + p.amount]
       ELSE /\ proposals' = [proposals EXCEPT ![id].status = "Rejected"]
            /\ UNCHANGED <<balance, paid>>
    /\ UNCHANGED current_block

NextBlock ==
    /\ current_block < MaxBlock
    /\ current_block' = current_block + 1
    /\ UNCHANGED <<balance, proposals, paid>>

TreasuryNext ==
    \/ \E a \in Amounts, s \in TotalStaked : CreateProposal(a, s)
    \/ \E id \in Ids, stake \in Stakes, in_favor \in BOOLEAN : Vote(id, stake, in_favor)
    \/ \E id \in Ids : TallyAndExecute(id)
    \/ NextBlock

TreasurySpec == TreasuryInit /\ [][TreasuryNext]_treasuryVars

--------------------------------------------------------------------------------
\* "balance must never go negative", and every field is in range.
TreasuryTypeOK ==
    /\ balance \in Nat
    /\ proposals \in [Ids -> TreasuryProposal]
    /\ paid \in [Ids -> Nat]
    /\ current_block \in 0..MaxBlock

\* "Each proposal is executed at most once": what the treasury paid for a
\* proposal is its amount if it is Executed and nothing otherwise.
PaidAtMostOnce ==
    \A id \in Ids : paid[id] = IF proposals[id].status = "Executed" THEN proposals[id].amount ELSE 0

\* A payment has the quorum of the stake recorded at creation behind it, and
\* votes cast after the decision cannot undo that.
PaymentsHaveQuorum ==
    \A id \in Ids : proposals[id].status = "Executed" => QuorumMet(proposals[id])

\* Two proposals that compete for one balance overdraw it in no order of tallies,
\* each is paid at most once, and only with its quorum.
PaymentsSound == TreasuryTypeOK /\ PaidAtMostOnce /\ PaymentsHaveQuorum

\* tally_and_execute decides once: no vote and no tally touches a proposal that
\* is Executed or Rejected.
DecisionsAreFinal ==
    [][\A id \in Ids : proposals[id].status # "Pending" => proposals'[id] = proposals[id]]_treasuryVars

--------------------------------------------------------------------------------
\* A proposal "is open for voting until current_block + voting_period blocks have
\* elapsed": votes come before the window closes.
VotesInWindow ==
    [][\A id \in Ids :
          proposals'[id].votes_for # proposals[id].votes_for => current_block < proposals[id].expires_at]_treasuryVars
================================================================================
