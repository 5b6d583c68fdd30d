SPECIFICATION SystemSpec
CONSTANTS
    self = self  t1 = t1  t2 = t2  o1 = o1
    s1 = s1  merchant = merchant  creator = creator  id1 = id1
    Self = self
    Senders = {self}
    FirstId = 65536
    VerifierId = 65536
    Tees = {t1, t2}
    Orders = {o1}
    Terms <- MCTerms
    Rates = {1, 2}
    RecordLists <- MCRecordLists
    MaxExtensions = 1
    MaxSent = 2
    Off = Off
    Contracts = {s1}
    Users = {merchant, creator}
    Campaigns = {id1}
    Rules = {1, 2}
    SchemaVersion = 1
    ChainId = 114
    Results <- MCResults
    Configs <- MCConfigs
    InitialBalance <- MCInitialBalance
    Amounts = {3}
    MaxTime = 3
    MaxFunded = 3
    NotDeployed = NotDeployed
    NoResult = NoResult
SYMMETRY MCSymmetry
INVARIANT VerdictsComeFromRecords
PROPERTIES DecidedAsRequested
