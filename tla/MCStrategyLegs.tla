--------------------------- MODULE MCStrategyLegs ---------------------------
(* Instances of StrategyLegs. *)
EXTENDS StrategyLegs

\* Two lots of the first leg to one of the second; two legs and three, one lot each.
TwoToOne == <<2, 1>>
OneToOne == <<1, 1>>
Three == <<1, 1, 1>>

Side(min, max, carried) == [min |-> min, max |-> max, carried |-> carried]
Off == Side(0, 0, 0)

\* One side is quoted, with and without a carried unit.
OneSide == {[create |-> Side(1, 2, c), reverse |-> Off] : c \in 0..1}
\* Limits that change: orders of one lot, two to the largest; one of two lots, which a modify can
\* make whole again after a fill; one carried unit that leaves no lot.
Uneven ==
    {[create |-> side, reverse |-> Off] : side \in {Side(1, 2, 0), Side(2, 2, 0), Side(1, 1, 1)}}
\* The rates only have to differ.
AnyRates == Permutations(Rates)
\* Both sides are quoted, each once.
BothSides == {[create |-> Side(1, 1, 0), reverse |-> Side(1, 1, 0)]}
=============================================================================
