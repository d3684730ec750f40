------------------------------ MODULE MCDepthFeed ------------------------------
(* Instances of DepthFeed for TLC. *)
EXTENDS DepthFeed, TLC

CONSTANTS t1, t2, t3, b1, b2, s1

\* Two buyers and a seller of one token; the others are only subscribed to.
OneToken == [o \in Orders |-> t1]
TwoBuyers == [o \in Orders |-> IF o = s1 THEN "sell" ELSE "buy"]

\* The two buyers are alike.
Buyers == Permutations({b1, b2})

\* The three legs of one strategy, asked for again and again.
ThreeLegs == {<<t2, t1, t3>>}
=============================================================================
