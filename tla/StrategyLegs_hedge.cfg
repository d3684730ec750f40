SPECIFICATION Spec
CONSTANTS
    Ratio <- TwoToOne
    Requests <- OneSide
    Rates = {1, 2}
    MaxQuotes = 2
    MaxAsks = 1
    MaxStops = 1
    MaxRequests = 1
    MaxLots = 4
INVARIANTS
    TypeOK
    HedgeCovers
    HedgedOnce
    NoPhantomOrder
CHECK_DEADLOCK FALSE
