SPECIFICATION Spec
CONSTANTS
    o1 = o1
    o2 = o2
    k1 = k1
    k2 = k2
    NewOrders = {o1, o2}
    MarketOrders = {o1, o2}
    Keys = {k1, k2}
    KeyOf <- OwnKeys
    Lots = 1
    MaxOm = 1
    Orphan = Orphan
INVARIANTS
    RoutedByKey
PROPERTIES
    OrphanOnlyBeforePush
    DeliversLikeAChannel
CHECK_DEADLOCK FALSE
