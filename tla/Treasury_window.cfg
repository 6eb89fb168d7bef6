CONSTANTS
    InitialBalance = 5
    quorum_pct = 67
    Amounts = {2, 3}
    Stakes = {1, 2}
    TotalStaked = {2, 3}
    VotingPeriod = 1
    MaxProposals = 1
    MaxVotes = 2
    MaxBlock = 1
SPECIFICATION TreasurySpec
CHECK_DEADLOCK FALSE
PROPERTIES VotesInWindow
