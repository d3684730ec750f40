---------------------------- MODULE MCHedgeSize ----------------------------
(* HitLots against the exact quotient, for all small ratios and counts. *)
EXTENDS HedgeSize

CONSTANTS MaxRatio, MaxTraded

\* The code sets no bound on the lots of a leg; 128 keeps the product below 2^22. The counts
\* of traded lots are shorts, the next one too.
ASSUME HedgeSizeAssumption == MaxRatio \in 1..128 /\ MaxTraded \in Nat /\ MaxTraded <= 32766

VARIABLES
    first, other,   \* lots of the first leg and of another one in a unit
    traded          \* lots of the first leg traded so far

Init == first \in 1..MaxRatio /\ other \in 1..MaxRatio /\ traded = 0

Trade == traded < MaxTraded /\ traded' = traded + 1 /\ UNCHANGED <<first, other>>

Spec == Init /\ [][Trade]_<<first, other, traded>>

\* The float product never asks for more lots than the ratio, for ratios up to six lots it
\* asks for exactly those, and for larger ones it may be one lot short for a while: one more
\* lot of the first leg makes up for it (Leg2HitQty, Leg3HitQty in TRADE_CONFIRMATION_TR).
HedgeFollowsRatio ==
    LET lots == HitLots(traded, other, first)
        exact == ExactLots(traded, other, first)
    IN /\ lots \in {exact - 1, exact}
       /\ first <= 6 /\ other <= 6 => lots = exact
       /\ HitLots(traded + 1, other, first) >= exact
=============================================================================
