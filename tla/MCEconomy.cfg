SPECIFICATION MCSpec
CONSTANTS
    GenesisStake <- MCGenesisStake
    Tx = {t1, t2}
    YEAR_1_EMISSION = 4
    DECAY_FACTOR_NUM = 1
    DECAY_FACTOR_DEN = 2
    EMISSION_HALT_YEAR = 2
    blocks_per_year = 2
    MaxU128 = 31
    MAX_SUPPLY = 6
    MaxHeight = 4
    MaxFailures = 1
    MaxCrashes = 2
    InitialBalance = 4
    quorum_pct = 67
    Amounts = {2, 3}
    Stakes = {1, 2}
    TotalStaked = {2, 3}
    VotingPeriod = 1
    MaxProposals = 2
    MaxVotes = 3
    MaxBlock = 1
    Session = {a1, a2}
    Contract = {c1, c2}
    OikosBudgets = {0, 2}
    KoinBudgets = {0, 1}
    OikosCosts = {0, 1, 2}
    KoinCosts <- MCKoinCosts
    NoBound = NoBound
    LastTime = 1
    Totals = {0, 4, 5}
    Rates = {2, 6}
    MaxTime = 5
    Conditions <- MCConditions
    MaxApprovals = 2
    Account = {a, b}
    NoTime = NoTime
INVARIANTS NodeSound   PaymentsSound ContractsSound
PROPERTIES ConfirmedBlocksStand JailedAreFrozen  DecisionsAreFinal SpendingSound EndedContractsStand
CHECK_DEADLOCK FALSE
