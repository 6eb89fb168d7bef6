----------------------------- MODULE PaymentProofs -----------------------------
(****************************************************************************)
(* Proofs about what is paid on behalf of others, for any amounts, rates,   *)
(* quorum, stakes, accounts, conditions, times and bounds: by the sessions  *)
(* of an agent under its mandate, by the treasury pool on its proposals,    *)
(* and by streaming payments and escrows.                                   *)
(****************************************************************************)
EXTENDS Mandate, Treasury, Contracts, FiniteSetTheorems, TLAPS

\* The inductive invariant: besides the mandate, a record is made with the cost
\* that was checked, of which the OIKOS part is never negative.
MandateInv ==
    /\ mandate \in AgentMandate
    /\ WithinBudget
    /\ current_time \in Nat
    /\ cost \in [Session -> Cost]

\* What one call may do to the spending of a mandate
SpendingStep ==
    /\ (mandate \in AgentMandate /\ WithinBudget)'
    /\ mandate'.oikos_spent >= mandate.oikos_spent
    /\ mandate'.koin_spent >= mandate.koin_spent
    /\ ~mandate.active => /\ ~mandate'.active
                          /\ mandate'.oikos_spent = mandate.oikos_spent
                          /\ mandate'.koin_spent = mandate.koin_spent

\* create makes a mandate that has spent nothing.
LEMMA InitMandateInv ==
  MandateInit => MandateInv
  BY MandateAssumption DEF MandateInit, MandateInv, AgentMandate, WithinBudget

\* A call that leaves the mandate alone leaves its spending alone.
LEMMA IdleSpending ==
  ASSUME MandateInv, mandate' = mandate PROVE SpendingStep
  BY DEF MandateInv, SpendingStep, AgentMandate, WithinBudget

\* A record of an amount within the budget is a legal step.
LEMMA RecordedSpending ==
  ASSUME MandateInv, NEW o \in Nat, NEW k \in Nat, mandate.active,
         mandate.oikos_spent + o <= mandate.oikos_budget,
         mandate.koin_spent + k <= mandate.koin_budget,
         \/ mandate' = [mandate EXCEPT !.oikos_spent = @ + o] /\ k = 0
         \/ mandate' = [mandate EXCEPT !.koin_spent = @ + k] /\ o = 0
  PROVE  SpendingStep
  <1>1. mandate \in AgentMandate
    BY DEF MandateInv
  <1>2. /\ mandate' \in AgentMandate
        /\ mandate'.oikos_spent = mandate.oikos_spent + o /\ mandate'.koin_spent = mandate.koin_spent + k
        /\ mandate'.oikos_budget = mandate.oikos_budget /\ mandate'.koin_budget = mandate.koin_budget
    BY <1>1 DEF AgentMandate
  <1> QED  BY <1>1, <1>2 DEF SpendingStep, AgentMandate, WithinBudget

\* Every call keeps the invariant and takes a legal step.
LEMMA StepMandateInv ==
  ASSUME MandateInv, MandateNext PROVE MandateInv' /\ SpendingStep
  <1>0. mandate \in AgentMandate /\ WithinBudget /\ current_time \in Nat /\ cost \in [Session -> Cost]
    BY DEF MandateInv
  <1>1. ASSUME NEW s \in Session, NEW c \in Cost, NEW contract \in Contract, CheckAll(s, c, contract)
        PROVE  MandateInv' /\ SpendingStep
    <2>1. mandate' = mandate /\ current_time' = current_time /\ cost' \in [Session -> Cost]
      BY <1>0, <1>1 DEF CheckAll
    <2> QED  BY <1>0, <2>1, IdleSpending DEF MandateInv, SpendingStep
  <1>2. ASSUME NEW s \in Session, RecordOikosSpend(s) PROVE MandateInv' /\ SpendingStep
    <2>0. current_time' = current_time /\ cost' = cost
      BY <1>2 DEF RecordOikosSpend
    <2>1. CASE OikosAccepted(cost[s].oikos)
      <3>1. cost[s].oikos \in Nat
        BY <1>0, MandateAssumption DEF Cost
      <3>2. mandate.active /\ mandate.oikos_spent + cost[s].oikos <= mandate.oikos_budget
        BY <1>0, <2>1, <3>1 DEF OikosAccepted, AgentMandate
      <3>3. mandate.koin_spent + 0 <= mandate.koin_budget
        BY <1>0 DEF WithinBudget, AgentMandate
      <3>4. mandate' = [mandate EXCEPT !.oikos_spent = @ + cost[s].oikos]
        BY <1>2, <2>1 DEF RecordOikosSpend
      <3>5. SpendingStep
        BY <3>1, <3>2, <3>3, <3>4, RecordedSpending
      <3> QED  BY <1>0, <2>0, <3>5 DEF MandateInv, SpendingStep
    <2>2. CASE ~OikosAccepted(cost[s].oikos)
      <3>1. mandate' = mandate
        BY <1>2, <2>2 DEF RecordOikosSpend
      <3> QED  BY <1>0, <2>0, <3>1, IdleSpending DEF MandateInv, SpendingStep
    <2> QED  BY <2>1, <2>2
  <1>3. ASSUME NEW s \in Session, RecordKoinSpend(s) PROVE MandateInv' /\ SpendingStep
    <2>0. current_time' = current_time /\ cost' = cost
      BY <1>3 DEF RecordKoinSpend
    <2>1. CASE KoinAccepted(cost[s].koin)
      <3>1. cost[s].koin \in Nat
        <4>1. cost[s].koin \in Int
          BY <1>0, MandateAssumption DEF Cost
        <4> QED  BY <2>1, <4>1 DEF KoinAccepted
      <3>2. mandate.active /\ mandate.koin_spent + cost[s].koin <= mandate.koin_budget
        BY <2>1 DEF KoinAccepted
      <3>3. mandate.oikos_spent + 0 <= mandate.oikos_budget
        BY <1>0 DEF WithinBudget, AgentMandate
      <3>4. mandate' = [mandate EXCEPT !.koin_spent = @ + cost[s].koin]
        BY <1>3, <2>1 DEF RecordKoinSpend
      <3>5. SpendingStep
        BY <3>1, <3>2, <3>3, <3>4, RecordedSpending
      <3> QED  BY <1>0, <2>0, <3>5 DEF MandateInv, SpendingStep
    <2>2. CASE ~KoinAccepted(cost[s].koin)
      <3>1. mandate' = mandate
        BY <1>3, <2>2 DEF RecordKoinSpend
      <3> QED  BY <1>0, <2>0, <3>1, IdleSpending DEF MandateInv, SpendingStep
    <2> QED  BY <2>1, <2>2
  <1>4. CASE Revoke
    <2>1. /\ mandate' \in AgentMandate /\ mandate'.active = FALSE
          /\ mandate'.oikos_spent = mandate.oikos_spent /\ mandate'.koin_spent = mandate.koin_spent
          /\ mandate'.oikos_budget = mandate.oikos_budget /\ mandate'.koin_budget = mandate.koin_budget
      BY <1>0, <1>4 DEF Revoke, AgentMandate
    <2>2. SpendingStep
      BY <1>0, <2>1 DEF SpendingStep, AgentMandate, WithinBudget
    <2> QED  BY <1>0, <1>4, <2>2 DEF Revoke, MandateInv, SpendingStep
  <1>5. ASSUME NEW t \in 0..LastTime, SetTimeBound(t) PROVE MandateInv' /\ SpendingStep
    <2>1. t \in Nat
      BY MandateAssumption
    <2>2. /\ mandate' \in AgentMandate /\ mandate'.active = mandate.active
          /\ mandate'.oikos_spent = mandate.oikos_spent /\ mandate'.koin_spent = mandate.koin_spent
          /\ mandate'.oikos_budget = mandate.oikos_budget /\ mandate'.koin_budget = mandate.koin_budget
      BY <1>0, <1>5, <2>1 DEF SetTimeBound, AgentMandate
    <2>3. SpendingStep
      BY <1>0, <2>2 DEF SpendingStep, AgentMandate, WithinBudget
    <2> QED  BY <1>0, <1>5, <2>3 DEF SetTimeBound, MandateInv, SpendingStep
  <1>6. ASSUME NEW c \in Contract, AddAllowedContract(c) PROVE MandateInv' /\ SpendingStep
    <2>1. SpendingStep
      BY <1>0, <1>6 DEF AddAllowedContract, SpendingStep, AgentMandate, WithinBudget
    <2> QED  BY <1>0, <1>6, <2>1 DEF AddAllowedContract, MandateInv, SpendingStep
  <1>7. CASE ClockTicks
    <2>1. mandate' = mandate /\ cost' = cost /\ current_time' \in Nat
      BY <1>0, <1>7 DEF ClockTicks
    <2> QED  BY <1>0, <2>1, IdleSpending DEF MandateInv, SpendingStep
  <1> QED  BY <1>1, <1>2, <1>3, <1>4, <1>5, <1>6, <1>7 DEF MandateNext

\* However the checks and the records of any number of sessions interleave with
\* each other, with a revocation and with the clock: a mandate stays within its
\* budgets, spending is never taken back, and a revoked mandate records nothing
\* (AgentMandate::record_oikos_spend, record_koin_spend, revoke).
THEOREM SpendingIsSound == MandateSpec => SpendingSound
  <1>1. MandateInv /\ [MandateNext]_mandateVars => MandateInv'
    <2>1. MandateInv /\ UNCHANGED mandateVars => MandateInv'
      BY DEF mandateVars, MandateInv, WithinBudget
    <2> QED  BY <2>1, StepMandateInv
  <1>2. MandateInv /\ [MandateNext]_mandateVars => [SpendingStep]_mandateVars
    BY StepMandateInv
  <1>3. MandateSpec => [][SpendingStep]_mandateVars
    BY <1>1, <1>2, InitMandateInv, PTL DEF MandateSpec
  <1> QED  BY <1>3 DEF SpendingSound, SpendingStep

--------------------------------------------------------------------------------
\* A decided proposal could only be lost if create_proposal gave its number out
\* again.  Proposals are numbered by how many there are, so the invariant says
\* that the numbers in use are the first ones.
FirstNumbers == \E n \in Nat : Ids = 1..n

TreasuryInv == PaymentsSound /\ FirstNumbers

\* What every call leaves alone
Final == \A id \in Ids : proposals[id].status # "Pending" => proposals'[id] = proposals[id]

\* The number that create_proposal gives out is not in use.
LEMMA FreshNumber ==
  ASSUME FirstNumbers
  PROVE  \E n \in Nat : Ids = 1..n /\ Cardinality(Ids) + 1 = n + 1 /\ n + 1 \notin Ids
                        /\ Ids \cup {n + 1} = 1..n + 1
  <1>1. PICK n \in Nat : Ids = 1..n
    BY DEF FirstNumbers
  <1>2. Cardinality(1..n) = n
    <2>1. Cardinality(1..n) = IF 1 > n THEN 0 ELSE n - 1 + 1
      BY FS_Interval
    <2> QED  BY <2>1
  <1>3. Ids \cup {n + 1} = 1..n + 1 /\ n + 1 \notin Ids
    BY <1>1
  <1> QED  BY <1>1, <1>2, <1>3

LEMMA InitTreasuryInv ==
  TreasuryInit => TreasuryInv
  <1> SUFFICES ASSUME TreasuryInit PROVE TreasuryInv
    OBVIOUS
  <1>1. Ids = {}
    BY DEF TreasuryInit, Ids
  <1>2. FirstNumbers
    <2>1. 1..0 = {}
      OBVIOUS
    <2> QED  BY <1>1, <2>1 DEF FirstNumbers
  <1>3. TreasuryTypeOK
    BY <1>1, TreasuryAssumption DEF TreasuryInit, TreasuryTypeOK
  <1> QED  BY <1>1, <1>2, <1>3 DEF TreasuryInv, PaymentsSound, PaidAtMostOnce, PaymentsHaveQuorum

\* One proposal changes, and with it what was paid for it.
ProposalStep(id, p, x) ==
    /\ proposals' = [proposals EXCEPT ![id] = p]
    /\ paid' = [paid EXCEPT ![id] = x]
    /\ p \in TreasuryProposal /\ x \in Nat
    /\ x = IF p.status = "Executed" THEN p.amount ELSE 0
    /\ p.status = "Executed" => QuorumMet(p)
    /\ balance' \in Nat /\ current_block' = current_block
    /\ proposals[id].status = "Pending"

LEMMA ProposalStepSound ==
  ASSUME TreasuryInv, NEW id \in Ids, NEW p, NEW x, ProposalStep(id, p, x)
  PROVE  TreasuryInv' /\ Final
  <1>1. proposals \in [Ids -> TreasuryProposal] /\ paid \in [Ids -> Nat] /\ current_block \in 0..MaxBlock
    BY DEF TreasuryInv, PaymentsSound, TreasuryTypeOK
  <1>2. Ids' = Ids
    BY <1>1 DEF ProposalStep, Ids
  <1>3. /\ \A i \in Ids : proposals'[i] = IF i = id THEN p ELSE proposals[i]
        /\ \A i \in Ids : paid'[i] = IF i = id THEN x ELSE paid[i]
        /\ proposals' \in [Ids -> TreasuryProposal] /\ paid' \in [Ids -> Nat]
    BY <1>1 DEF ProposalStep
  <1>4. TreasuryTypeOK'
    BY <1>1, <1>2, <1>3 DEF TreasuryTypeOK, ProposalStep
  <1>5. PaidAtMostOnce'
    BY <1>2, <1>3 DEF PaidAtMostOnce, ProposalStep, TreasuryInv, PaymentsSound
  <1>6. PaymentsHaveQuorum'
    BY <1>2, <1>3 DEF PaymentsHaveQuorum, QuorumMet, ProposalStep, TreasuryInv, PaymentsSound
  <1>7. Final
    BY <1>3 DEF Final, ProposalStep
  <1> QED  BY <1>2, <1>4, <1>5, <1>6, <1>7 DEF TreasuryInv, PaymentsSound, FirstNumbers

\* create_proposal
LEMMA CreateSound ==
  ASSUME TreasuryInv, NEW a \in Amounts, NEW s \in TotalStaked, CreateProposal(a, s)
  PROVE  TreasuryInv' /\ Final
  <1> DEFINE new == [amount |-> a, status |-> "Pending", votes_for |-> 0, votes_against |-> 0,
                     total_staked |-> s, expires_at |-> current_block + VotingPeriod]
  <1>1. /\ proposals \in [Ids -> TreasuryProposal] /\ paid \in [Ids -> Nat]
        /\ current_block \in 0..MaxBlock /\ balance \in Nat
    BY DEF TreasuryInv, PaymentsSound, TreasuryTypeOK
  <1>2. PICK n \in Nat : /\ Ids = 1..n /\ Cardinality(Ids) + 1 = n + 1 /\ n + 1 \notin Ids
                         /\ Ids \cup {n + 1} = 1..n + 1
    BY FreshNumber DEF TreasuryInv
  <1>3. /\ proposals' = [i \in Ids \cup {n + 1} |-> IF i = n + 1 THEN new ELSE proposals[i]]
        /\ paid' = [i \in Ids \cup {n + 1} |-> IF i = n + 1 THEN 0 ELSE paid[i]]
        /\ balance' = balance /\ current_block' = current_block
    BY <1>2 DEF CreateProposal
  <1>4. new \in TreasuryProposal /\ new.status = "Pending"
    BY <1>1, TreasuryAssumption DEF TreasuryProposal, ProposalStatus
  <1> HIDE DEF new
  <1>5. Ids' = Ids \cup {n + 1}
    BY <1>3 DEF Ids
  <1>6. TreasuryTypeOK'
    BY <1>1, <1>3, <1>4, <1>5 DEF TreasuryTypeOK
  <1>7. PaidAtMostOnce'
    BY <1>2, <1>3, <1>4, <1>5 DEF PaidAtMostOnce, TreasuryInv, PaymentsSound
  <1>8. PaymentsHaveQuorum'
    BY <1>2, <1>3, <1>4, <1>5 DEF PaymentsHaveQuorum, QuorumMet, TreasuryInv, PaymentsSound
  <1>9. FirstNumbers'
    <2>1. Ids' = 1..n + 1 /\ n + 1 \in Nat
      BY <1>2, <1>5
    <2> QED  BY <2>1 DEF FirstNumbers
  <1>10. Final
    BY <1>2, <1>3 DEF Final
  <1> QED  BY <1>6, <1>7, <1>8, <1>9, <1>10 DEF TreasuryInv, PaymentsSound

\* vote counts on a pending proposal only.
LEMMA VoteSound ==
  ASSUME TreasuryInv, NEW id \in Ids, NEW stake \in Stakes, NEW in_favor \in BOOLEAN, Vote(id, stake, in_favor)
  PROVE  TreasuryInv' /\ Final
  <1>1. /\ proposals \in [Ids -> TreasuryProposal] /\ paid \in [Ids -> Nat] /\ balance \in Nat
        /\ paid[id] = 0 /\ proposals[id].status = "Pending" /\ stake \in Nat
        /\ UNCHANGED <<balance, current_block, paid>>
    BY TreasuryAssumption DEF TreasuryInv, PaymentsSound, TreasuryTypeOK, PaidAtMostOnce, Vote, Votable
  <1>2. PICK p \in TreasuryProposal : proposals' = [proposals EXCEPT ![id] = p] /\ p.status = "Pending"
    <2> DEFINE f == [proposals[id] EXCEPT !.votes_for = @ + stake]
               g == [proposals[id] EXCEPT !.votes_against = @ + stake]
    <2>1. proposals[id] \in TreasuryProposal
      BY <1>1
    <2>2. CASE in_favor
      <3>1. f \in TreasuryProposal /\ f.status = "Pending"
        BY <1>1, <2>1, <2>2 DEF Vote, TreasuryProposal
      <3>2. proposals' = [proposals EXCEPT ![id] = f]
        BY <2>2 DEF Vote
      <3> QED  BY <3>1, <3>2
    <2>3. CASE ~in_favor
      <3>1. g \in TreasuryProposal /\ g.status = "Pending"
        BY <1>1, <2>1, <2>3 DEF Vote, TreasuryProposal
      <3>2. proposals' = [proposals EXCEPT ![id] = g]
        BY <2>3 DEF Vote
      <3> QED  BY <3>1, <3>2
    <2> QED  BY <2>2, <2>3
  <1>3. paid' = [paid EXCEPT ![id] = 0]
    BY <1>1
  <1>4. ProposalStep(id, p, 0)
    BY <1>1, <1>2, <1>3 DEF ProposalStep
  <1> QED  BY <1>4, ProposalStepSound

\* tally_and_execute pays a pending proposal that has quorum and funds, once.
LEMMA TallySound ==
  ASSUME TreasuryInv, NEW id \in Ids, TallyAndExecute(id)
  PROVE  TreasuryInv' /\ Final
  <1> DEFINE p == proposals[id]
             e == [p EXCEPT !.status = "Executed"]
             r == [p EXCEPT !.status = "Rejected"]
  <1>1. /\ proposals \in [Ids -> TreasuryProposal] /\ paid \in [Ids -> Nat] /\ balance \in Nat
        /\ paid[id] = 0 /\ p.status = "Pending" /\ p \in TreasuryProposal /\ p.amount \in Nat
        /\ current_block' = current_block
    BY TreasuryAssumption DEF TreasuryInv, PaymentsSound, TreasuryTypeOK, PaidAtMostOnce, TallyAndExecute,
                              Tallyable, TreasuryProposal
  <1>2. CASE Pays(p)
    <2>1. /\ balance' = balance - p.amount /\ proposals' = [proposals EXCEPT ![id] = e]
          /\ paid' = [paid EXCEPT ![id] = p.amount]
      BY <1>1, <1>2 DEF TallyAndExecute
    <2>2. /\ e \in TreasuryProposal /\ e.status = "Executed" /\ e.amount = p.amount
          /\ e.votes_for = p.votes_for /\ e.total_staked = p.total_staked
      BY <1>1 DEF TreasuryProposal, ProposalStatus
    <2>3. QuorumMet(p) /\ balance >= p.amount
      BY <1>2 DEF Pays, Funded
    <2> HIDE DEF e
    <2>4. QuorumMet(e)
      BY <2>2, <2>3 DEF QuorumMet
    <2>5. balance' \in Nat
      BY <1>1, <2>1, <2>3
    <2>6. ProposalStep(id, e, p.amount)
      BY <1>1, <2>1, <2>2, <2>4, <2>5 DEF ProposalStep
    <2> QED  BY <2>6, ProposalStepSound
  <1>3. CASE ~Pays(p)
    <2>1. balance' = balance /\ proposals' = [proposals EXCEPT ![id] = r] /\ paid' = [paid EXCEPT ![id] = 0]
      BY <1>1, <1>3 DEF TallyAndExecute
    <2>2. r \in TreasuryProposal /\ r.status = "Rejected"
      BY <1>1 DEF TreasuryProposal, ProposalStatus
    <2> HIDE DEF r
    <2>3. ProposalStep(id, r, 0)
      BY <1>1, <2>1, <2>2 DEF ProposalStep
    <2> QED  BY <2>3, ProposalStepSound
  <1> QED  BY <1>2, <1>3

LEMMA StepTreasuryInv ==
  ASSUME TreasuryInv, TreasuryNext PROVE TreasuryInv' /\ Final
  <1>1. CASE NextBlock
    <2>1. current_block' \in 0..MaxBlock
      BY <1>1, TreasuryAssumption DEF NextBlock, TreasuryInv, PaymentsSound, TreasuryTypeOK
    <2>2. UNCHANGED <<balance, proposals, paid>> /\ Ids' = Ids
      BY <1>1 DEF NextBlock, Ids
    <2> QED  BY <2>1, <2>2 DEF TreasuryInv, PaymentsSound, TreasuryTypeOK, PaidAtMostOnce,
                               PaymentsHaveQuorum, QuorumMet, FirstNumbers, Final
  <1> QED  BY <1>1, CreateSound, VoteSound, TallySound DEF TreasuryNext

\* Every step keeps the invariant and what was decided.
LEMMA TreasuryInduction ==
  TreasuryInv /\ [TreasuryNext]_treasuryVars => TreasuryInv' /\ [Final]_treasuryVars
  <1>1. TreasuryInv /\ UNCHANGED treasuryVars => TreasuryInv'
    BY DEF treasuryVars, TreasuryInv, PaymentsSound, TreasuryTypeOK, PaidAtMostOnce,
           PaymentsHaveQuorum, QuorumMet, FirstNumbers, Ids
  <1> QED  BY <1>1, StepTreasuryInv

\* For any proposals, stakes and order of votes and tallies: the balance never
\* goes negative, a proposal is paid its amount exactly if it is Executed, and a
\* payment has the quorum behind it (TreasuryPool::tally_and_execute).
THEOREM PaymentsAreSound == TreasurySpec => []PaymentsSound
  <1>1. TreasuryInv => PaymentsSound
    BY DEF TreasuryInv
  <1> QED  BY <1>1, InitTreasuryInv, TreasuryInduction, PTL DEF TreasurySpec

\* A proposal that is Executed or Rejected never changes again: no vote and no
\* tally touches it, and its number is not given out a second time
\* (TreasuryPool::create_proposal, vote, tally_and_execute).
THEOREM DecisionsStand == TreasurySpec => DecisionsAreFinal
  <1>1. TreasurySpec => [][Final]_treasuryVars
    BY InitTreasuryInv, TreasuryInduction, PTL DEF TreasurySpec
  <1> QED  BY <1>1 DEF DecisionsAreFinal, Final

--------------------------------------------------------------------------------
(****************************************************************************)
(* A stream keeps no counter of the seconds it has to pay for: they are the *)
(* distance from start_time to now, or to pause_time.  The invariant says   *)
(* that this distance never exceeds the seconds the stream was active, and  *)
(* that where the rate divides the total it is those seconds exactly, until *)
(* the total is reached.  resume has to re-establish it by dividing what    *)
(* was captured by the rate.                                                *)
(****************************************************************************)
\* Multiplication by a rate is monotone.
LEMMA TimesMonotone ==
  ASSUME NEW x \in Nat, NEW y \in Nat, NEW r \in Nat, x <= y
  PROVE  x * r <= y * r /\ x * r \in Nat /\ y * r \in Nat
  OBVIOUS

LEMMA TimesStrict ==
  ASSUME NEW x \in Nat, NEW y \in Nat, NEW r \in Nat \ {0}, x < y
  PROVE  x * r + r <= y * r
  OBVIOUS

\* Division rounds down.
LEMMA Quotient ==
  ASSUME NEW a \in Nat, NEW r \in Nat \ {0}
  PROVE  /\ a \div r \in Nat /\ (a \div r) * r <= a /\ a < (a \div r) * r + r
         /\ a % r = 0 => (a \div r) * r = a
  OBVIOUS

\* The x seconds that are counted are no more than the e that the stream was
\* active, and these exactly where nothing is lost by rounding, unless they pay
\* the total already.
Counts(x, e, r, total) ==
    /\ x \in Nat /\ x <= e
    /\ total % r = 0 => x = e \/ x * r >= total

LEMMA CountedIsDue ==
  ASSUME NEW e \in Nat, NEW r \in Nat \ {0}, NEW total \in Nat, NEW x, Counts(x, e, r, total)
  PROVE  /\ Min2(x * r, total) \in Nat /\ Min2(e * r, total) \in Nat
         /\ Min2(x * r, total) <= Min2(e * r, total)
         /\ total % r = 0 => Min2(x * r, total) = Min2(e * r, total)
  <1>1. x \in Nat /\ x * r <= e * r /\ x * r \in Nat /\ e * r \in Nat
    BY TimesMonotone DEF Counts
  <1> QED  BY <1>1 DEF Counts, Min2

\* resume counts the seconds that the captured amount pays for.
LEMMA ResumeCounts ==
  ASSUME NEW e \in Nat, NEW r \in Nat \ {0}, NEW total \in Nat, NEW x, Counts(x, e, r, total),
         NEW n \in Nat, e <= n, NEW a, a = Min2(x * r, total)
  PROVE  /\ SaturatingSub(n, a \div r) \in Nat /\ SaturatingSub(n, a \div r) <= n
         /\ Counts(n - SaturatingSub(n, a \div r), e, r, total)
  <1> DEFINE k == a \div r
  <1>1. x \in Nat /\ x * r \in Nat /\ a \in Nat /\ a <= x * r /\ a <= total
    <2>1. x \in Nat /\ x * r \in Nat
      BY DEF Counts
    <2> QED  BY <2>1 DEF Min2
  <1>2. k \in Nat /\ k * r <= a /\ a < k * r + r /\ k * r \in Nat
    <2>1. k \in Nat /\ k * r <= a /\ a < k * r + r
      BY <1>1, Quotient
    <2> HIDE DEF k
    <2> QED  BY <2>1
  <1>3. a = x * r \/ a = total
    BY DEF Min2
  <1>4. total % r = 0 /\ a = total => k * r = total
    BY Quotient
  <1> HIDE DEF k
  <1>5. k <= x
    <2>1. CASE x < k
      BY <1>1, <1>2, <2>1, TimesStrict
    <2> QED  BY <1>1, <1>2, <2>1
  <1>6. a = x * r => k = x
    <2>1. CASE k < x
      BY <1>1, <1>2, <2>1, TimesStrict
    <2> QED  BY <1>1, <1>2, <1>5, <2>1
  <1>7. SaturatingSub(n, k) = n - k /\ k <= n /\ k <= e
    BY <1>1, <1>2, <1>5 DEF SaturatingSub, Counts
  <1>8. Counts(k, e, r, total)
    BY <1>1, <1>2, <1>3, <1>4, <1>6, <1>7 DEF Counts
  <1>9. n - SaturatingSub(n, k) = k /\ SaturatingSub(n, k) \in Nat /\ SaturatingSub(n, k) <= n
    BY <1>2, <1>7
  <1> QED  BY <1>8, <1>9 DEF k

--------------------------------------------------------------------------------
\* The inductive invariant of a stream
StreamInv ==
    /\ StreamTypeOK
    /\ now \in Nat /\ earning \in Nat /\ earning <= now
    /\ stream.streamed_amount <= Due
    /\ stream.state = "Active" =>
          Counts(now - stream.start_time, earning, stream.rate, stream.total_amount)
    /\ stream.state = "Paused" =>
          /\ stream.pause_time \in Nat /\ stream.start_time <= stream.pause_time
          /\ Counts(stream.pause_time - stream.start_time, earning, stream.rate, stream.total_amount)
          /\ stream.streamed_amount = Accrued(stream.pause_time)
    /\ stream.state = "Completed" => stream.streamed_amount = stream.total_amount

\* The inductive invariant of an escrow
EscrowInv ==
    /\ conditions \subseteq E!ReleaseCondition /\ met \subseteq E!ReleaseCondition
    /\ LocksRespected

ContractsInv == StreamInv /\ EscrowInv

LEMMA StreamTypes ==
  ASSUME StreamInv
  PROVE  /\ stream \in StreamingPayment /\ stream.total_amount \in Nat /\ stream.rate \in Nat \ {0}
         /\ stream.streamed_amount \in Nat /\ stream.start_time \in Nat /\ stream.start_time <= now
         /\ stream.state \in StreamState /\ now \in Nat /\ earning \in Nat /\ earning <= now
         /\ Due \in Nat /\ Due <= stream.total_amount
  <1>1. /\ stream \in StreamingPayment /\ stream.total_amount \in Nat /\ stream.rate \in Nat \ {0}
        /\ stream.streamed_amount \in Nat /\ stream.start_time \in Nat /\ stream.start_time <= now
        /\ stream.state \in StreamState /\ now \in Nat /\ earning \in Nat /\ earning <= now
    BY StreamAssumption DEF StreamInv, StreamTypeOK, StreamingPayment
  <1>2. earning * stream.rate \in Nat
    BY <1>1, TimesMonotone
  <1> QED  BY <1>1, <1>2 DEF Due, Min2

\* What streamed_so_far and the captured amount are, state by state
LEMMA StreamIsSound ==
  ASSUME StreamInv PROVE StreamSound /\ NothingLost
  <1>0. /\ stream.total_amount \in Nat /\ stream.rate \in Nat \ {0} /\ stream.streamed_amount \in Nat
        /\ stream.start_time \in Nat /\ stream.start_time <= now
        /\ stream.state \in StreamState /\ now \in Nat /\ earning \in Nat /\ Due \in Nat
    BY StreamTypes
  <1>1. CASE stream.state = "Active"
    <2>1. StreamedSoFar(now) = Min2((now - stream.start_time) * stream.rate, stream.total_amount)
      BY <1>0, <1>1 DEF StreamedSoFar, Accrued, SaturatingSub
    <2>2. Counts(now - stream.start_time, earning, stream.rate, stream.total_amount)
      BY <1>1 DEF StreamInv
    <2>3. /\ StreamedSoFar(now) <= Due
          /\ stream.total_amount % stream.rate = 0 => StreamedSoFar(now) = Due
      BY <1>0, <2>1, <2>2, CountedIsDue DEF Due
    <2> QED  BY <2>3 DEF StreamInv, StreamSound, NothingLost, NeverOverpays
  <1>2. CASE stream.state = "Paused"
    <2>1. /\ stream.pause_time \in Nat /\ stream.start_time <= stream.pause_time
          /\ Counts(stream.pause_time - stream.start_time, earning, stream.rate, stream.total_amount)
      BY <1>2 DEF StreamInv
    <2>2. StreamedSoFar(now) = Min2((stream.pause_time - stream.start_time) * stream.rate, stream.total_amount)
      BY <1>0, <1>2, <2>1, StreamAssumption DEF StreamedSoFar, Accrued, SaturatingSub
    <2>3. /\ StreamedSoFar(now) <= Due
          /\ stream.total_amount % stream.rate = 0 => StreamedSoFar(now) = Due
      BY <1>0, <2>1, <2>2, CountedIsDue DEF Due
    <2> QED  BY <2>3 DEF StreamInv, StreamSound, NothingLost, NeverOverpays
  <1>3. CASE stream.state \in {"Stopped", "Completed"}
    <2>1. StreamedSoFar(now) = stream.streamed_amount
      BY <1>3 DEF StreamedSoFar
    <2>2. stream.state = "Completed" => stream.streamed_amount = Due
      <3>1. Due <= stream.total_amount
        BY StreamTypes
      <3> QED  BY <1>0, <3>1 DEF StreamInv
    <2> QED  BY <1>3, <2>1, <2>2 DEF StreamInv, StreamSound, NothingLost, NeverOverpays
  <1> QED  BY <1>0, <1>1, <1>2, <1>3 DEF StreamState

--------------------------------------------------------------------------------
\* The amount an active stream reports is due, and is what accrued until now.
LEMMA ActiveReports ==
  ASSUME StreamInv, stream.state = "Active"
  PROVE  /\ StreamedSoFar(now) \in Nat /\ StreamedSoFar(now) <= Due
         /\ StreamedSoFar(now) = Accrued(now)
  <1>0. /\ stream.total_amount \in Nat /\ stream.rate \in Nat \ {0}
        /\ stream.start_time \in Nat /\ stream.start_time <= now /\ now \in Nat /\ earning \in Nat
    BY StreamTypes
  <1>1. StreamedSoFar(now) = Min2((now - stream.start_time) * stream.rate, stream.total_amount)
    BY <1>0 DEF StreamedSoFar, Accrued, SaturatingSub
  <1>2. Counts(now - stream.start_time, earning, stream.rate, stream.total_amount)
    BY DEF StreamInv
  <1>3. StreamedSoFar(now) = Accrued(now)
    BY DEF StreamedSoFar
  <1>4. StreamedSoFar(now) \in Nat /\ StreamedSoFar(now) <= Due
    BY <1>0, <1>1, <1>2, CountedIsDue DEF Due
  <1> QED  BY <1>3, <1>4

\* Every call of a stream keeps its invariant.
LEMMA StreamCallKeeps ==
  ASSUME StreamInv, StreamNext PROVE StreamInv'
  <1>0. /\ stream \in StreamingPayment /\ stream.total_amount \in Nat /\ stream.rate \in Nat \ {0}
        /\ stream.streamed_amount \in Nat /\ stream.start_time \in Nat /\ stream.start_time <= now
        /\ stream.state \in StreamState /\ now \in Nat /\ earning \in Nat /\ earning <= now
        /\ Due \in Nat /\ Due <= stream.total_amount
        /\ stream.pause_time # NoTime => stream.pause_time \in Nat /\ stream.pause_time <= now
        /\ stream.streamed_amount <= Due
    BY StreamTypes DEF StreamInv, StreamTypeOK, StreamingPayment
  <1>1. now' = now /\ earning' = earning
    BY DEF StreamNext, UpdateStreamed, TryComplete, Pause, Resume, Stop
  <1>2. CASE UpdateStreamed
    <2>1. /\ stream.state = "Active" /\ StreamedSoFar(now) \in Nat /\ StreamedSoFar(now) <= Due
      BY <1>2, ActiveReports DEF UpdateStreamed
    <2>2. /\ stream' \in StreamingPayment /\ stream'.streamed_amount = StreamedSoFar(now)
          /\ stream'.state = "Active" /\ stream'.start_time = stream.start_time
          /\ stream'.pause_time = stream.pause_time /\ stream'.rate = stream.rate
          /\ stream'.total_amount = stream.total_amount
      BY <1>0, <1>2, <2>1 DEF UpdateStreamed, StreamingPayment
    <2>3. Due' = Due
      BY <1>1, <2>2 DEF Due
    <2> QED  BY <1>0, <1>1, <2>1, <2>2, <2>3 DEF StreamInv, StreamTypeOK
  <1>3. CASE TryComplete
    <2>1. /\ stream.state = "Active" /\ StreamedSoFar(now) <= Due /\ StreamedSoFar(now) >= stream.total_amount
          /\ StreamedSoFar(now) \in Nat
      BY <1>3, ActiveReports DEF TryComplete, CanComplete
    <2>2. Due = stream.total_amount
      BY <1>0, <2>1
    <2>3. /\ stream' \in StreamingPayment /\ stream'.streamed_amount = stream.total_amount
          /\ stream'.state = "Completed" /\ stream'.start_time = stream.start_time
          /\ stream'.pause_time = stream.pause_time /\ stream'.rate = stream.rate
          /\ stream'.total_amount = stream.total_amount
      BY <1>0, <1>3 DEF TryComplete, StreamingPayment, StreamState
    <2>4. Due' = Due
      BY <1>1, <2>3 DEF Due
    <2> QED  BY <1>0, <1>1, <2>2, <2>3, <2>4 DEF StreamInv, StreamTypeOK
  <1>4. CASE Pause
    <2>1. /\ stream.state = "Active" /\ StreamedSoFar(now) \in Nat /\ StreamedSoFar(now) <= Due
          /\ StreamedSoFar(now) = Accrued(now)
      BY <1>4, ActiveReports DEF Pause
    <2>2. /\ stream' \in StreamingPayment /\ stream'.streamed_amount = StreamedSoFar(now)
          /\ stream'.state = "Paused" /\ stream'.start_time = stream.start_time
          /\ stream'.pause_time = now /\ stream'.rate = stream.rate
          /\ stream'.total_amount = stream.total_amount
      BY <1>0, <1>4, <2>1 DEF Pause, StreamingPayment, StreamState
    <2>3. Due' = Due /\ Accrued(now)' = Accrued(now)
      BY <1>1, <2>2 DEF Due, Accrued
    <2>4. Counts(now - stream.start_time, earning, stream.rate, stream.total_amount)
      BY <2>1 DEF StreamInv
    <2>5. stream'.streamed_amount = Accrued(stream.pause_time)'
      BY <1>1, <2>1, <2>2 DEF Accrued
    <2> QED  BY <1>0, <1>1, <2>1, <2>2, <2>3, <2>4, <2>5 DEF StreamInv, StreamTypeOK
  <1>5. CASE Resume
    <2> DEFINE x == stream.pause_time - stream.start_time
    <2>1. /\ stream.state = "Paused" /\ stream.pause_time \in Nat /\ stream.start_time <= stream.pause_time
          /\ Counts(x, earning, stream.rate, stream.total_amount)
          /\ stream.streamed_amount = Accrued(stream.pause_time)
      BY <1>5 DEF StreamInv, Resume
    <2>2. stream.streamed_amount = Min2(x * stream.rate, stream.total_amount)
      BY <1>0, <2>1 DEF Accrued, SaturatingSub
    <2> HIDE DEF x
    <2>3. /\ ResumedStart \in Nat /\ ResumedStart <= now
          /\ Counts(now - ResumedStart, earning, stream.rate, stream.total_amount)
      BY <1>0, <2>1, <2>2, ResumeCounts DEF ResumedStart
    <2>4. /\ stream' \in StreamingPayment /\ stream'.streamed_amount = stream.streamed_amount
          /\ stream'.state = "Active" /\ stream'.start_time = ResumedStart
          /\ stream'.pause_time = NoTime /\ stream'.rate = stream.rate
          /\ stream'.total_amount = stream.total_amount
      BY <1>0, <1>5, <2>3 DEF Resume, StreamingPayment, StreamState
    <2>5. Due' = Due
      BY <1>1, <2>4 DEF Due
    <2> QED  BY <1>0, <1>1, <2>3, <2>4, <2>5 DEF StreamInv, StreamTypeOK
  <1>6. CASE Stop
    <2>1. /\ stream' \in StreamingPayment /\ stream'.streamed_amount = stream.streamed_amount
          /\ stream'.state = "Stopped" /\ stream'.start_time = stream.start_time
          /\ stream'.pause_time = stream.pause_time /\ stream'.rate = stream.rate
          /\ stream'.total_amount = stream.total_amount
      BY <1>0, <1>6 DEF Stop, StreamingPayment, StreamState
    <2>2. Due' = Due
      BY <1>1, <2>1 DEF Due
    <2> QED  BY <1>0, <1>1, <2>1, <2>2 DEF StreamInv, StreamTypeOK
  <1> QED  BY <1>2, <1>3, <1>4, <1>5, <1>6 DEF StreamNext

\* A second passes: an active stream counts it and earns it.
LEMMA TickKeeps ==
  ASSUME StreamInv, Tick PROVE StreamInv'
  <1>0. /\ stream \in StreamingPayment /\ stream.total_amount \in Nat /\ stream.rate \in Nat \ {0}
        /\ stream.streamed_amount \in Nat /\ stream.start_time \in Nat /\ stream.start_time <= now
        /\ stream.state \in StreamState /\ now \in Nat /\ earning \in Nat /\ earning <= now
        /\ Due \in Nat /\ Due <= stream.total_amount
        /\ stream.pause_time # NoTime => stream.pause_time \in Nat /\ stream.pause_time <= now
        /\ stream.streamed_amount <= Due
    BY StreamTypes DEF StreamInv, StreamTypeOK, StreamingPayment
  <1>1. /\ stream' = stream /\ now' = now + 1
        /\ earning' = IF stream.state = "Active" THEN earning + 1 ELSE earning
    BY DEF Tick
  <1>2. Due' \in Nat /\ Due <= Due'
    <2>1. earning' \in Nat /\ earning <= earning'
      BY <1>0, <1>1
    <2>2. earning * stream.rate <= earning' * stream.rate /\ earning * stream.rate \in Nat /\ earning' * stream.rate \in Nat
      BY <1>0, <2>1, TimesMonotone
    <2>3. Due = Min2(earning * stream.rate, stream.total_amount) /\ Due' = Min2(earning' * stream.rate, stream.total_amount)
      BY <1>1 DEF Due
    <2> QED  BY <1>0, <2>2, <2>3 DEF Min2
  <1>3. ASSUME stream.state = "Active"
        PROVE  Counts(now' - stream.start_time, earning', stream.rate, stream.total_amount)
    <2> DEFINE x == now - stream.start_time
    <2>1. Counts(x, earning, stream.rate, stream.total_amount) /\ x \in Nat
      BY <1>0, <1>3 DEF StreamInv
    <2>2. now' - stream.start_time = x + 1 /\ earning' = earning + 1
      BY <1>0, <1>1, <1>3
    <2> HIDE DEF x
    <2>3. x * stream.rate <= (x + 1) * stream.rate /\ x * stream.rate \in Nat /\ (x + 1) * stream.rate \in Nat
      BY <1>0, <2>1, TimesMonotone
    <2> QED  BY <1>0, <2>1, <2>2, <2>3 DEF Counts
  <1>4. ASSUME stream.state = "Paused"
        PROVE  /\ stream.pause_time \in Nat /\ stream.start_time <= stream.pause_time
               /\ Counts(stream.pause_time - stream.start_time, earning', stream.rate, stream.total_amount)
               /\ stream.streamed_amount = Accrued(stream.pause_time)'
    BY <1>1, <1>4 DEF StreamInv, Accrued
  <1>5. now' \in Nat /\ earning' \in Nat /\ earning' <= now' /\ stream.start_time <= now'
        /\ stream.streamed_amount <= Due'
        /\ (stream.pause_time # NoTime => stream.pause_time <= now')
    BY <1>0, <1>1, <1>2
  <1> QED  BY <1>0, <1>1, <1>3, <1>4, <1>5 DEF StreamInv, StreamTypeOK

--------------------------------------------------------------------------------
\* Every call of an escrow keeps its invariant: the checked release evaluates the
\* locks it pays out under.
LEMMA EscrowCallKeeps ==
  ASSUME EscrowInv, now \in Nat, E!Next PROVE EscrowInv' /\ now' = now
  <1>1. CASE \E c \in Conditions : E!AddCondition(c)
    BY <1>1, ContractsAssumption DEF EscrowInv, E!AddCondition, LocksRespected, E!LocksRespected
  <1>2. CASE E!Dispute \/ E!Release \/ E!Refund
    BY <1>2 DEF EscrowInv, E!Dispute, E!Release, E!Refund, LocksRespected, E!LocksRespected
  <1>3. ASSUME NEW a \in E!Approvals, E!ReleaseChecked(a) PROVE EscrowInv' /\ now' = now
    <2>1. met' = conditions /\ conditions' = conditions /\ now' = now /\ E!EvaluateConditions(a)
      BY <1>3 DEF E!ReleaseChecked
    <2>2. ASSUME NEW c \in conditions, c.kind = "TimeLock" PROVE c.lock_time <= now
      <3>1. E!Holds(c, a)
        BY <2>1, <2>2 DEF E!EvaluateConditions
      <3>2. now >= c.lock_time
        BY <2>2, <3>1 DEF E!Holds
      <3>3. c.lock_time \in Nat
        BY <2>2 DEF EscrowInv, E!ReleaseCondition
      <3> QED  BY <3>2, <3>3
    <2> QED  BY <2>1, <2>2 DEF EscrowInv, LocksRespected, E!LocksRespected
  <1> QED  BY <1>1, <1>2, <1>3 DEF E!Next

\* A lock that is open stays open.
LEMMA TimeKeepsLocks ==
  ASSUME EscrowInv, now \in Nat, now' = now + 1, UNCHANGED EscrowVars PROVE EscrowInv'
  <1>1. conditions' = conditions /\ met' = met
    BY DEF EscrowVars
  <1>2. ASSUME NEW c \in met, c.kind = "TimeLock" PROVE c.lock_time <= now'
    <2>1. c.lock_time \in Nat /\ c.lock_time <= now
      BY <1>2 DEF EscrowInv, E!ReleaseCondition, LocksRespected, E!LocksRespected
    <2> QED  BY <2>1
  <1> QED  BY <1>1, <1>2 DEF EscrowInv, LocksRespected, E!LocksRespected

--------------------------------------------------------------------------------
LEMMA InitContractsInv ==
  ContractsInit => ContractsInv
  <1> SUFFICES ASSUME ContractsInit PROVE ContractsInv
    OBVIOUS
  <1>1. EscrowInv
    BY DEF ContractsInit, E!Init, EscrowInv, LocksRespected, E!LocksRespected
  <1>2. StreamInv
    <2>1. PICK total \in Totals, rate \in Rates, t \in 0..1 :
              /\ stream = [total_amount |-> total, rate |-> rate, streamed_amount |-> 0,
                           state |-> "Active", start_time |-> t, pause_time |-> NoTime]
              /\ now = t /\ earning = 0
      BY DEF ContractsInit, StreamInit
    <2>2. /\ stream \in StreamingPayment /\ stream.total_amount = total /\ stream.rate = rate
          /\ stream.streamed_amount = 0 /\ stream.state = "Active" /\ stream.start_time = now
          /\ stream.pause_time = NoTime
      BY <2>1 DEF StreamingPayment, StreamState
    <2>3. total \in Nat /\ rate \in Nat \ {0} /\ now \in Nat
      BY <2>1, StreamAssumption
    <2>4. Due = 0
      <3>1. Due = Min2(0 * rate, total)
        BY <2>1, <2>2 DEF Due
      <3>2. 0 * rate = 0
        BY <2>3
      <3> QED  BY <2>3, <3>1, <3>2 DEF Min2
    <2>5. Counts(now - stream.start_time, earning, stream.rate, stream.total_amount)
      BY <2>1, <2>2, <2>3 DEF Counts
    <2> QED  BY <2>1, <2>2, <2>3, <2>4, <2>5 DEF StreamInv, StreamTypeOK
  <1> QED  BY <1>1, <1>2 DEF ContractsInv

\* A step of one contract or of the clock keeps the invariants of both.
LEMMA StepContractsInv ==
  ASSUME ContractsInv, ContractsNext PROVE ContractsInv'
  <1>0. StreamInv /\ EscrowInv /\ now \in Nat
    BY DEF ContractsInv, StreamInv
  <1>1. CASE StreamCall
    <2>1. StreamInv'
      BY <1>0, <1>1, StreamCallKeeps DEF StreamCall
    <2>2. now' = now /\ conditions' = conditions /\ met' = met
      BY <1>1 DEF StreamCall, StreamNext, UpdateStreamed, TryComplete, Pause, Resume, Stop, EscrowVars
    <2>3. EscrowInv'
      BY <1>0, <2>2 DEF EscrowInv, LocksRespected, E!LocksRespected
    <2> QED  BY <2>1, <2>3 DEF ContractsInv
  <1>2. CASE EscrowCall
    <2>1. EscrowInv' /\ now' = now /\ stream' = stream /\ earning' = earning
      BY <1>0, <1>2, EscrowCallKeeps DEF EscrowCall, StreamVars
    <2>2. StreamInv'
      BY <1>0, <2>1 DEF StreamInv, StreamTypeOK, Due, Accrued
    <2> QED  BY <2>1, <2>2 DEF ContractsInv
  <1>3. CASE TimePasses
    <2>1. StreamInv'
      BY <1>0, <1>3, TickKeeps DEF TimePasses
    <2>2. EscrowInv'
      BY <1>0, <1>3, TimeKeepsLocks DEF TimePasses, Tick
    <2> QED  BY <2>1, <2>2 DEF ContractsInv
  <1> QED  BY <1>1, <1>2, <1>3 DEF ContractsNext

LEMMA ContractsInduction ==
  ContractsInv /\ [ContractsNext]_<<StreamVars, EscrowVars, now>> => ContractsInv'
  <1>1. ContractsInv /\ UNCHANGED <<StreamVars, EscrowVars, now>> => ContractsInv'
    BY DEF StreamVars, EscrowVars, ContractsInv, StreamInv, StreamTypeOK, Due, Accrued,
           EscrowInv, LocksRespected, E!LocksRespected
  <1> QED  BY <1>1, StepContractsInv

\* For any total, rate, conditions and times: a stream never pays more than its
\* rate times the seconds it was active, however often it is paused and resumed,
\* and exactly that where the rate divides the total; an escrow's checked release
\* pays out under open time locks only (StreamingPayment::streamed_so_far, pause,
\* resume; Escrow::release_checked).
THEOREM ContractsAreSound == ContractsSpec => []ContractsSound
  <1>1. ContractsInv => ContractsSound
    BY StreamIsSound DEF ContractsInv, EscrowInv, ContractsSound
  <1> QED  BY <1>1, InitContractsInv, ContractsInduction, PTL DEF ContractsSpec

\* No call moves a contract that has ended: a stream that is stopped or completed
\* keeps what it captured, an escrow that was released or refunded stays so, and a
\* disputed one can only be refunded (StreamingPayment::stop, try_complete;
\* Escrow::release, refund, dispute).
THEOREM ContractsEndOnce == ContractsSpec => EndedContractsStand
  <1>1. ASSUME ContractsNext PROVE EndedIsFinal /\ E!SettledOnce
    <2>1. CASE StreamCall
      <3>1. EndedIsFinal
        BY <2>1 DEF StreamCall, StreamNext, UpdateStreamed, TryComplete, CanComplete, Pause, Resume,
                    Stop, CanStop, EndedIsFinal
      <3> QED  BY <2>1, <3>1 DEF StreamCall, EscrowVars, E!SettledOnce
    <2>2. CASE EscrowCall
      <3>1. E!SettledOnce
        BY <2>2 DEF EscrowCall, E!Next, E!AddCondition, E!Dispute, E!Release, E!CanRelease,
                    E!ReleaseChecked, E!Refund, E!SettledOnce
      <3> QED  BY <2>2, <3>1 DEF EscrowCall, StreamVars, EndedIsFinal
    <2>3. CASE TimePasses
      BY <2>3 DEF TimePasses, Tick, EscrowVars, EndedIsFinal, E!SettledOnce
    <2> QED  BY <1>1, <2>1, <2>2, <2>3 DEF ContractsNext
  <1>2. [ContractsNext]_<<StreamVars, EscrowVars, now>> => [EndedIsFinal /\ E!SettledOnce]_<<stream, state>>
    BY <1>1 DEF StreamVars, EscrowVars
  <1> QED  BY <1>2, PTL DEF ContractsSpec, EndedContractsStand
================================================================================
