SPECIFICATION FairSpec
CONSTANTS
    c1 = c1
    c2 = c2
    m = m
    k = k
    o1 = o1
    o2 = o2
    camp = camp
    rule = rule
    NotDeployed = NotDeployed
    NoResult = NoResult
    Contracts <- TwoContracts
    Users <- TwoUsers
    Campaigns <- OneCampaign
    Orders <- TwoOrders
    Rules <- OneRule
    SchemaVersion = 1
    ChainId = 114
    Results <- MCResults
    Configs <- LongAndShort
    InitialBalance <- TwoBalance
    Amounts <- OneOrTwo
    MaxTime = 3
    MaxFunded = 2
INVARIANTS TypeOK EscrowBacked EscrowConserved TotalIsSumOfReceipts WithdrawalStrandsNoResult
           GuardMatchesReceipts ReceiptsKeepTerms
PROPERTIES HonouredOnce OutflowsExplained SurplusNeverSpent DecidedOnceOnEvidence ImplementsEscrow
           EscrowRecoverable
