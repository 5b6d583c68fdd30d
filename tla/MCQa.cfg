SPECIFICATION FairSpec
CONSTANTS
    MaxRuns = 2
    Commands = {"test", "health", "flow run other", "report", "bad option"}
    Toolsets <- MCToolsets
    Pages <- MCPages
    SiteStates = {"current", "broken"}
INVARIANTS QaTypeOK ChecksDoNotOverlap SummaryIsNewest
PROPERTIES PassedInTime RunsEnd
