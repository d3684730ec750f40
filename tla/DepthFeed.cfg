SPECIFICATION Spec
CONSTANTS
    t1 = t1
    t2 = t2
    t3 = t3
    b1 = b1
    b2 = b2
    s1 = s1
    Tokens = {t1, t2, t3}
    Orders = {b1, b2, s1}
    TokenOf <- OneToken
    SideOf <- TwoBuyers
    MaxPrice = 2
    Pairs <- ThreeLegs
    MaxSeq = 4
INVARIANTS
    TypeOK
    BookFollowsExchange
    QuoteIsReal
SYMMETRY Buyers
CHECK_DEADLOCK FALSE
