SPECIFICATION Spec
CONSTANTS
    MaxRatio = 12
    MaxTraded = 60
INVARIANTS
    HedgeFollowsRatio
CHECK_DEADLOCK FALSE
