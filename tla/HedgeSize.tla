------------------------------ MODULE HedgeSize ------------------------------
(***************************************************************************)
(* How many lots of a further leg the strategy wants for the lots of the   *)
(* first leg that were traded (TRADE_CONFIRMATION_TR): the floor of a      *)
(* float product.  A float is a mantissa of 24 bits and an exponent.       *)
(***************************************************************************)
EXTENDS Integers

TwoTo(n) == 2 ^ n

\* The quotient of two naturals rounded to nearest, ties to even.
Nearest(a, b) ==
    LET q == a \div b
        r == 2 * (a % b)
    IN IF r > b \/ (r = b /\ q % 2 = 1) THEN q + 1 ELSE q

\* (float)a / (float)b as m * 2^-e.
HitRatio(a, b) ==
    LET e == CHOOSE n \in 0..30 : TwoTo(23) * b <= a * TwoTo(n) /\ a * TwoTo(n) < TwoTo(24) * b
    IN [m |-> Nearest(a * TwoTo(e), b), e |-> e]

\* The float nearest to a natural, as a natural: its 24 highest bits.
Rounded(p) ==
    LET s == CHOOSE n \in 0..15 : p < TwoTo(24 + n) /\ (n > 0 => p >= TwoTo(23 + n))
    IN Nearest(p, TwoTo(s)) * TwoTo(s)

\* Mutant of HitLots: the product is not rounded to a float.
HitLotsUnrounded(traded, a, b) ==
    LET h == HitRatio(a, b) IN (traded * h.m) \div TwoTo(h.e)

\* floor(TradableQty * Leg2HitRatio), Leg3HitRatio alike.
HitLots(traded, a, b) ==
    LET h == HitRatio(a, b) IN Rounded(traded * h.m) \div TwoTo(h.e)

\* The lots the ratio of the portfolio asks for.
ExactLots(traded, a, b) == (traded * a) \div b
=============================================================================
