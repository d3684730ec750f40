SPECIFICATION FairSpec
CONSTANTS
    o1 = o1
    o2 = o2
    k1 = k1
    k2 = k2
    NewOrders = {o1, o2}
    MarketOrders = {o2}
    Keys = {k1, k2}
    KeyOf <- SameKey
    Lots = 1
    MaxOm = 0
    Orphan = Orphan
PROPERTIES
    QueuedIsSent
    OrphanIsCancelled
CHECK_DEADLOCK FALSE
