SPECIFICATION FairSpec
CONSTANTS
    c1 = c1  c2 = c2  k1 = k1  k2 = k2
    NoCampaign = NoCampaign
    Campaigns = {c1, c2}
    Saved = c1
    Slots = {k1, k2}
    Polls = 2
    MaxVisits = 2
INVARIANTS JourneyTypeOK BusyHasHandler
PROPERTIES OnlyEarlierVisitsPart BusyEnds
