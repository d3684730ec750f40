SPECIFICATION FairSpec
CONSTANTS
    Ratio <- Three
    Requests <- BothSides
    Rates = {1, 2}
    MaxQuotes = 1
    MaxAsks = 1
    MaxStops = 1
    MaxRequests = 1
    MaxLots = 2
INVARIANTS
    PendingIsAnswered
PROPERTIES
    LegSettles
CHECK_DEADLOCK FALSE
