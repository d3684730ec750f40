------------------------------- MODULE DepthBook -------------------------------
(***************************************************************************)
(* The book of one token in the depth server: BimapDataClass, with the     *)
(* messages TokenWiseClass applies to it.  A side of the book is the left  *)
(* view of a bimap, a function from order numbers to prices; its right view *)
(* sorts the same pairs by price.  Quantities are kept in no structure the  *)
(* code still uses.                                                        *)
(***************************************************************************)
EXTENDS Naturals, FiniteSetsExt, Functions

EmptySide == [o \in {} |-> 0]

\* MAXBID and MINASK are zero until a side has its first order.
EmptyBook == [buy |-> EmptySide, sell |-> EmptySide, MAXBID |-> 0, MINASK |-> 0]

\* bimap::insert leaves an order that is already there alone.
Insert(side, o, p) ==
    IF o \in DOMAIN side THEN side
    ELSE [x \in DOMAIN side \cup {o} |-> IF x = o THEN p ELSE side[x]]

\* replace_data, or Insert for an order the book does not know.
Upate(side, o, p) ==
    IF o \in DOMAIN side THEN [side EXCEPT ![o] = p] ELSE Insert(side, o, p)

Delete(side, o) == Restrict(side, DOMAIN side \ {o})

\* Mutant of ReturnPrice: both right views are read from the back.
ReturnPriceBack(b) ==
    [b EXCEPT !.MAXBID = IF b.buy = EmptySide THEN @ ELSE Min(Range(b.buy)),
              !.MINASK = IF b.sell = EmptySide THEN @ ELSE Min(Range(b.sell))]

\* The best price of each side; a side that is empty keeps its last one.  Both right views
\* have the one comparator std::greater<int>, so that both begin with their highest price: the
\* bids are read at begin(), the asks at rbegin(), which is their lowest.
ReturnPrice(b) ==
    [b EXCEPT !.MAXBID = IF b.buy = EmptySide THEN @ ELSE Max(Range(b.buy)),
              !.MINASK = IF b.sell = EmptySide THEN @ ELSE Min(Range(b.sell))]

\* BidAsk: an order message of one side, then the new best prices.
BidAsk(b, m) ==
    ReturnPrice([b EXCEPT ![m.side] =
        CASE m.type = "N" -> Insert(@, m.order, m.price)
          [] m.type = "M" -> Upate(@, m.order, m.price)
          [] m.type = "X" -> Delete(@, m.order)])

\* Mutant of TrdMsg: the seller's order stays.
TrdMsgBuyer(b, m) == ReturnPrice([b EXCEPT !.buy = Delete(@, m.buyer)])

\* TrdMsg: a trade takes both orders out, whatever quantity it was for.
TrdMsg(b, m) ==
    ReturnPrice([b EXCEPT !.buy = Delete(@, m.buyer), !.sell = Delete(@, m.seller)])

Apply(b, m) == IF m.type = "T" THEN TrdMsg(b, m) ELSE BidAsk(b, m)
=============================================================================
