SPECIFICATION FairSpec
CONSTANTS
    w1 = w1  w2 = w2  c1 = c1  c2 = c2  o1 = o1  o2 = o2  k1 = k1  k2 = k2
    NoWallet = NoWallet  NoCampaign = NoCampaign  NoOrder = NoOrder
    Wallets = {w1}
    Exposed = {w1}
    Campaigns = {c1}
    Existing = {c1}
    Founder = w1
    InitialEscrow = 1
    Orders = {o1}
    DefaultOrder = o1
    Amount <- MCAmountOne
    Denied = {}
    FundAmounts = {}
    Answers = {"error"}
    Slots = {k1}
    CheckPolls = 1
    ResumePolls = 1
    MaxTxs = 1
PROPERTY CheckResolves
