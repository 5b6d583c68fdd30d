SPECIFICATION FairPipeline
CONSTANTS
    self = self  other = other  t1 = t1   o1 = o1  o2 = o2  m1 = m1
    Self = self
    Senders = {self, other}
    FirstId = 65536
    VerifierId = 65537
    Tees = {t1}
    Orders = {o1, o2}
    Terms = {m1}
    Rates = {1, 10001}
    RecordLists <- MCRecordLists
    MaxExtensions = 2
    MaxSent = 2
    Off = Off
INVARIANTS PipelineTypeOK ResultsAreExact OneAnswer ExtensionIsFirstOwn
PROPERTIES RunningMachineAnswers
