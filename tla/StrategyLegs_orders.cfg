SPECIFICATION Spec
CONSTANTS
    Ratio <- OneToOne
    Requests <- Uneven
    Rates = {r1, r2}
    MaxQuotes = 3
    MaxAsks = 1
    MaxStops = 0
    MaxRequests = 2
    MaxLots = 2
SYMMETRY AnyRates
INVARIANTS
    OneWorkingOrder
    WithinLimits
CHECK_DEADLOCK FALSE
