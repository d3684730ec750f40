----------------------------- MODULE StrategyLegs -----------------------------
(***************************************************************************)
(* One strategy (StrategyClass): the first leg is quoted on two sides,     *)
(* create and reverse, and each fill of it is hedged in the other legs by  *)
(* market orders.  Three threads call in and share no lock: market data    *)
(* (OnDataEventHandler), exchange events (the ORDER_ and TRADE_ handlers)  *)
(* and client requests (OnDifferenceEventHandler).                         *)
(*                                                                         *)
(* Below the strategy are the queue of first-leg requests and the channel  *)
(* of events, both in order, which the order gateway provides, and the     *)
(* exchange.  Market orders of several legs need no order between them.    *)
(***************************************************************************)
EXTENDS HedgeSize, Sequences, FiniteSets, FiniteSetsExt, Bags

CONSTANTS
    Ratio,      \* lots of each leg in one unit: a function from 1..2 or 1..3
    Requests,   \* the difference requests of clients: for each side the least and
                \* the largest lots of the first leg, and the units carried over
    Rates,      \* quotes of the first leg
    MaxQuotes,  \* bound: new orders of the first leg
    MaxAsks,    \* bound: modify and cancel requests
    MaxStops,   \* bound: orders the exchange stops by itself, hedges it refuses
    MaxRequests,\* bound: difference requests
    MaxLots     \* bound: lots of the first leg that trade on a side, and that are carried

Sides == {"create", "reverse"}
Hedges == DOMAIN Ratio \ {1}
Last == Max(DOMAIN Ratio)

Statuses == {"NONE", "PENDING", "REPLACED", "OPEN", "CANCEL", "REJECTED", "TRADE"}

ASSUME StrategyAssumption ==
    /\ Ratio \in [1..2 -> Nat \ {0}] \cup [1..3 -> Nat \ {0}]
    /\ Requests \subseteq [Sides -> [min : Nat, max : Nat, carried : Nat]]
    /\ {MaxQuotes, MaxAsks, MaxStops, MaxRequests} \subseteq Nat

\* The floats are exact for these ratios and lots (MCHedgeSize checks a range of them).
ASSUME LotsAssumption ==
    /\ MaxLots \in Nat
    /\ \A req \in Requests, s \in Sides : req[s].carried * Ratio[1] <= MaxLots
    /\ \A l \in Hedges, lots \in 0..(2 * MaxLots) :
         HitLots(lots, Ratio[l], Ratio[1]) = ExactLots(lots, Ratio[l], Ratio[1])

VARIABLES
    status,     \* BuyFarStatus, SellFarStatus
    number,     \* OrderNumber of FARMONTHMODBUY, FARMONTHMODSELL; 0 if none
    volume,     \* Volume of FARMONTHMODBUY, FARMONTHMODSELL, which a modify sends
    rate,       \* iBuyModQuoteRate, iSellModQuoteRate
    limits,     \* least and largest lots: Token1Min..., Token1Max...Ratio
    traded,     \* BuyTradeCounter, BuyTradeCounterleg2, ...leg3 and their twins
    remaining,  \* _CreateRemainingQty, _ReverseRemainingQty
    quoter,     \* the data thread: what it does, on which side, at which rate
    hedger,     \* the event thread: inside a trade
    client,     \* the client thread: inside a difference request
    bid,        \* requests of the first leg, from the queue to the exchange
    mkt,        \* market orders, from the queue to their last fill: a bag
    book,       \* exchange: lots left of the first-leg orders; history: lots given back
    events,     \* what the exchange told and the event thread has not handled
    counts,     \* quotes, asks, stops and requests so far
    filled,     \* history: lots the exchange filled, per side and leg
    owed,       \* history: the legs whose hedge was refused and not made up since
    upset       \* history: what has crossed on each side, see Upsets

strategyVars == <<status, number, volume, rate, limits, traded, remaining>>
threadVars == <<quoter, hedger, client>>
exchangeVars == <<bid, mkt, book, events>>
historyVars == <<counts, filled, owed, upset>>
vars == <<strategyVars, threadVars, exchangeVars, historyVars>>

Idle == [act |-> "idle"]

\* The strategy after its subscription.
Init ==
    /\ status = [s \in Sides |-> "NONE"] /\ number = [s \in Sides |-> 0]
    /\ volume = [s \in Sides |-> 0] /\ rate = [s \in Sides |-> 0]
    /\ limits = [s \in Sides |-> [min |-> 0, max |-> 0]]
    /\ traded = [s \in Sides |-> [l \in DOMAIN Ratio |-> 0]]
    /\ remaining = [s \in Sides |-> 0]
    /\ quoter = Idle /\ hedger = Idle /\ client = Idle
    /\ bid = <<>> /\ mkt = EmptyBag /\ events = <<>>
    /\ book = [n \in {} |-> 0]
    /\ counts = [quotes |-> 0, asks |-> 0, stops |-> 0, requests |-> 0]
    /\ filled = [s \in Sides |-> [l \in DOMAIN Ratio |-> 0]]
    /\ owed = [s \in Sides |-> {}]
    /\ upset = [s \in Sides |-> {}]

-----------------------------------------------------------------------------
(* What is under way for a side.                                            *)

Market(s, l, lots, whole) == [side |-> s, leg |-> l, lots |-> lots, volume |-> whole]

EventsOf(s, kind) == {i \in DOMAIN events : events[i].side = s /\ events[i].kind = kind}
TradesOf(s, l) == {i \in EventsOf(s, "trade") : events[i].leg = l}

\* The sum of a function to the naturals, unit by unit.
Total(f) == Cardinality(UNION {{x} \X (1..f[x]) : x \in DOMAIN f})

LotsOf(is) == Total([i \in is |-> events[i].lots])
InMarket(s, l) ==
    Total([m \in {m \in BagToSet(mkt) : m.side = s /\ m.leg = l} |-> m.lots * mkt[m]])
Working(s) == Total([n \in {n \in DOMAIN book : book[n].side = s} |-> book[n].lots])
QuotesInQueue(s) == {i \in DOMAIN bid : bid[i].side = s /\ bid[i].kind = "new"}
AsksInQueue(s) == {i \in DOMAIN bid : bid[i].side = s /\ bid[i].kind # "new"}
Orders(s) == Cardinality({n \in DOMAIN book : book[n].side = s /\ book[n].lots > 0})
             + Cardinality(QuotesInQueue(s))

HedgeOutstanding(s) ==
    \/ \E m \in BagToSet(mkt) : m.side = s
    \/ \E l \in Hedges : TradesOf(s, l) # {}
    \/ EventsOf(s, "stopped") # {}
    \/ hedger # Idle /\ hedger.side = s /\ hedger.leg # 1
AskOutstanding(s) == AsksInQueue(s) # {} \/ EventsOf(s, "refused") # {}

Carrying(s) == client # Idle /\ client.side = s /\ client.act = "store"

\* Nothing is under way on the side.
AtRest(s) ==
    /\ Orders(s) = 0 /\ AsksInQueue(s) = {}
    /\ \A i \in DOMAIN events : events[i].side # s
    /\ \A l \in Hedges : InMarket(s, l) = 0
    /\ \A t \in {quoter, hedger} : t # Idle => t.side # s

\* "hasty": a quote was decided while a hedge or an ask of the side was outstanding.
\* "overlap": a fill was hedged while an earlier hedge of the leg was outstanding.
\* "stopped": the exchange stopped a hedge as a self-trade.
\* "limits": a request changed them while the side was not at rest.
\* "carried": a request wrote the counters then, or after lots of the side had traded, or a
\* quote was decided with only some of them written.
Upsets == {"hasty", "overlap", "stopped", "limits", "carried"}

UpsetIf(s, tag, cond) == upset' = IF cond THEN [upset EXCEPT ![s] = @ \cup {tag}] ELSE upset

-----------------------------------------------------------------------------
(* The data thread: one side's half of OnDataEventHandler.                  *)

Smaller(a, b) == IF a <= b THEN a ELSE b
Quoting == {"OPEN", "REPLACED"}

\* Mutant of Free: PENDING is forgotten.
FreeUnlessQuoting == Statuses \ Quoting

Free == {"TRADE", "CANCEL", "REJECTED", "NONE"}

Begin(what, s, r) ==
    /\ quoter = Idle
    /\ quoter' = [act |-> what, side |-> s, rate |-> r, marked |-> FALSE]
    /\ UNCHANGED <<strategyVars, hedger, client, exchangeVars, filled, owed>>

\* The market gives a rate to quote; the leg is free and below its largest lots.
LookNew(s, r) ==
    /\ counts.quotes < MaxQuotes
    /\ status[s] \in Free
    /\ limits[s].min > 0 /\ limits[s].max > 0 /\ traded[s][1] < limits[s].max
    /\ Begin("new", s, r)
    /\ counts' = [counts EXCEPT !.quotes = @ + 1]
    /\ upset' = [upset EXCEPT ![s] = @
         \cup (IF HedgeOutstanding(s) \/ AskOutstanding(s) THEN {"hasty"} ELSE {})
         \cup (IF Carrying(s) THEN {"carried"} ELSE {})]

\* The leg has an order, and the rate to quote is another one.
LookModify(s, r) ==
    /\ counts.asks < MaxAsks
    /\ status[s] \in Quoting /\ rate[s] # r
    /\ Begin("modify", s, r)
    /\ counts' = [counts EXCEPT !.asks = @ + 1]
    /\ UNCHANGED upset

\* The leg has an order and the market has gone away from it.
LookCancel(s) ==
    /\ counts.asks < MaxAsks
    /\ status[s] \in Quoting
    /\ Begin("cancel", s, rate[s])
    /\ counts' = [counts EXCEPT !.asks = @ + 1]
    /\ UNCHANGED upset

\* The status says that a request is on its way, before it is.
MarkPending ==
    /\ quoter # Idle /\ ~quoter.marked
    /\ status' = [status EXCEPT ![quoter.side] = "PENDING"]
    /\ quoter' = [quoter EXCEPT !.marked = TRUE]
    /\ UNCHANGED <<number, volume, rate, limits, traded, remaining, hedger, client, exchangeVars,
                   historyVars>>

Marked(what) == quoter # Idle /\ quoter.act = what /\ quoter.marked

\* Mutant of QuoteLots: the largest lots do not cap the order.
QuoteLotsUncapped(s) == limits[s].min

QuoteLots(s) == Smaller(limits[s].min, limits[s].max - traded[s][1])

\* BOARD_LOT_IN_TRBuy, BOARD_LOT_IN_TRSell.  The lots are worked out now, not at the guard.
Quote ==
    LET s == quoter.side IN
    /\ Marked("new")
    /\ bid' = Append(bid, [kind |-> "new", side |-> s, lots |-> QuoteLots(s)])
    /\ rate' = [rate EXCEPT ![s] = quoter.rate]
    /\ quoter' = Idle
    /\ UNCHANGED <<status, number, volume, limits, traded, remaining, hedger, client, mkt, book,
                   events, historyVars>>

\* ORDER_MOD_IN_TR_CR, ORDER_MOD_IN_TR_RV: the number and the volume the last confirmation
\* left, whatever has traded since.
Requote ==
    LET s == quoter.side IN
    /\ Marked("modify")
    /\ bid' = Append(bid, [kind |-> "modify", side |-> s, number |-> number[s], lots |-> volume[s]])
    /\ rate' = [rate EXCEPT ![s] = quoter.rate]
    /\ quoter' = Idle
    /\ UNCHANGED <<status, number, volume, limits, traded, remaining, hedger, client, mkt, book,
                   events, historyVars>>

\* ORDER_CANCEL_IN_TR sends nothing without a number.
Withdraw ==
    LET s == quoter.side IN
    /\ Marked("cancel")
    /\ bid' = IF number[s] = 0 THEN bid
              ELSE Append(bid, [kind |-> "cancel", side |-> s, number |-> number[s]])
    /\ quoter' = Idle
    /\ UNCHANGED <<strategyVars, hedger, client, mkt, book, events, historyVars>>

Quoter == MarkPending \/ Quote \/ Requote \/ Withdraw

-----------------------------------------------------------------------------
(* The event thread.  A handler is one step, except that a trade adds to a  *)
(* counter the client thread may also write.                                *)

\* The next event, if it is of this kind and the thread is between two events.
Handles(kind) == hedger = Idle /\ events # <<>> /\ Head(events).kind = kind

Settle(s, st) ==
    /\ status' = [status EXCEPT ![s] = st]
    /\ events' = Tail(events)
    /\ UNCHANGED <<rate, limits, traded, remaining, threadVars, bid, mkt, book, historyVars>>

\* Mutant of ORDER_CONFIRMATION_TR: the response is not kept.
ConfirmWithoutNumber ==
    /\ Handles("confirmed")
    /\ Settle(Head(events).side, "OPEN")
    /\ UNCHANGED <<number, volume>>

\* FARMONTHMODBUY, FARMONTHMODSELL take the number and the volume of a response over.
TakeOver(e) ==
    /\ number' = [number EXCEPT ![e.side] = e.number]
    /\ volume' = [volume EXCEPT ![e.side] = e.lots]

ORDER_CONFIRMATION_TR ==
    /\ Handles("confirmed")
    /\ Settle(Head(events).side, "OPEN")
    /\ TakeOver(Head(events))

ORDER_MOD_CONFIRMATION_TR ==
    /\ Handles("modified")
    /\ Settle(Head(events).side, "REPLACED")
    /\ TakeOver(Head(events))

ORDER_CXL_CONFIRMATION_TR ==
    /\ Handles("cancelled")
    /\ Settle(Head(events).side, "CANCEL")
    /\ UNCHANGED <<number, volume>>

ORDER_ERROR_OUT ==
    /\ Handles("error")
    /\ Settle(Head(events).side, "REJECTED")
    /\ UNCHANGED <<number, volume>>

\* Mutant of AfterRefusal: an order that still works keeps its status.
AfterRefusalUnsettled(s, gone) == IF gone THEN "CANCEL" ELSE status[s]

\* gone is the error 16273.
AfterRefusal(s, gone) ==
    IF gone THEN "CANCEL" ELSE IF status[s] = "TRADE" THEN "TRADE" ELSE "REPLACED"

\* ORDER_MOD_REJ_OUT, ORDER_CXL_REJ_OUT.
ORDER_REJ_OUT ==
    LET e == Head(events) IN
    /\ Handles("refused")
    /\ Settle(e.side, AfterRefusal(e.side, e.gone))
    /\ UNCHANGED <<number, volume>>

\* The other half of ORDER_CXL_CONFIRMATION_TR: a market order stopped as a self-trade
\* is sent again, with its whole volume.
SelfTradeStopped ==
    LET e == Head(events) IN
    /\ Handles("stopped")
    /\ mkt' = mkt (+) SetToBag({Market(e.side, e.leg, e.lots, e.lots)})
    /\ events' = Tail(events)
    /\ UNCHANGED <<strategyVars, threadVars, bid, book, historyVars>>

\* The other half of ORDER_ERROR_OUT: a refused market order changes nothing.
HedgeRefused ==
    /\ Handles("rejected")
    /\ events' = Tail(events)
    /\ UNCHANGED <<strategyVars, threadVars, bid, mkt, book, historyVars>>

\* TRADE_CONFIRMATION_TR begins: the counter is read.
TradeLoad ==
    LET e == Head(events) IN
    /\ Handles("trade")
    /\ hedger' = [act |-> "store", side |-> e.side, leg |-> e.leg, lots |-> e.lots, left |-> e.left,
                  reg |-> traded[e.side][e.leg]]
    /\ events' = Tail(events)
    /\ UNCHANGED <<strategyVars, quoter, client, bid, mkt, book, historyVars>>

Storing(leg) == hedger # Idle /\ hedger.act = "store" /\ (hedger.leg = 1 <=> leg = 1)
Stored == [traded EXCEPT ![hedger.side][hedger.leg] = hedger.reg + hedger.lots]

\* Of the first leg: written, and read again as TradableQty in the next step.
TradeStore ==
    /\ Storing(1)
    /\ traded' = Stored
    /\ hedger' = [hedger EXCEPT !.act = "size"]
    /\ UNCHANGED <<status, number, volume, rate, limits, remaining, quoter, client, exchangeVars,
                   historyVars>>

\* Mutant of LeftOf: the fill is taken off a volume that is without it already.
LeftOfTwice == hedger.left - hedger.lots

LeftOf == hedger.left

TradeSize ==
    /\ hedger # Idle /\ hedger.act = "size"
    /\ remaining' = [remaining EXCEPT ![hedger.side] = LeftOf]
    /\ hedger' = [act |-> "hedge", side |-> hedger.side, leg |-> 1, lots |-> hedger.lots,
                  tradable |-> traded[hedger.side][1], next |-> 2]
    /\ UNCHANGED <<status, number, volume, rate, limits, traded, quoter, client, exchangeVars,
                   historyVars>>

\* Mutant of ToHit: each fill is hedged for itself, and loses its fraction.
ToHitOfFill(s, l) == HitLots(hedger.lots, Ratio[l], Ratio[1])

\* Mutant of ToHit: what was hedged before is not taken off.
ToHitInAll(s, l) == HitLots(hedger.tradable, Ratio[l], Ratio[1])

\* Leg2HitQty, Leg3HitQty: what is not yet counted in the leg.
ToHit(s, l) == HitLots(hedger.tradable, Ratio[l], Ratio[1]) - traded[s][l]

\* The market order of the next leg.
TradeHedge ==
    LET s == hedger.side
        l == hedger.next
        lots == ToHit(s, l)
    IN /\ hedger # Idle /\ hedger.act = "hedge"
       /\ mkt' = IF lots > 0 THEN mkt (+) SetToBag({Market(s, l, lots, lots)}) ELSE mkt
       /\ hedger' = IF l = Last THEN Idle ELSE [hedger EXCEPT !.next = l + 1]
       /\ UpsetIf(s, "overlap", InMarket(s, l) > 0 \/ TradesOf(s, l) # {})
       /\ owed' = [owed EXCEPT ![s] = @ \ {l}]
       /\ UNCHANGED <<strategyVars, quoter, client, bid, book, events, counts, filled>>

\* Mutant of EndsRound: a strategy of two legs is forgotten.
EndsRoundOfThree(s) == hedger.leg = 3 /\ remaining[s] = 0

EndsRound(s) == hedger.leg = Last /\ remaining[s] = 0

\* Of another leg: the last leg ends the round when nothing remains of the first.
HedgeStore ==
    LET s == hedger.side IN
    /\ Storing(2)
    /\ traded' = Stored
    /\ status' = IF EndsRound(s) THEN [status EXCEPT ![s] = "TRADE"] ELSE status
    /\ hedger' = Idle
    /\ UNCHANGED <<number, volume, rate, limits, remaining, quoter, client, exchangeVars,
                   historyVars>>

EventHandler ==
    \/ ORDER_CONFIRMATION_TR \/ ORDER_MOD_CONFIRMATION_TR \/ ORDER_CXL_CONFIRMATION_TR
    \/ ORDER_ERROR_OUT \/ ORDER_REJ_OUT \/ SelfTradeStopped \/ HedgeRefused
    \/ TradeLoad \/ TradeStore \/ TradeSize \/ TradeHedge \/ HedgeStore

-----------------------------------------------------------------------------
(* The client thread: OnDifferenceEventHandler.  The limits, then for each  *)
(* side the counters, if the first of them is not positive.                 *)

Difference(req) ==
    /\ client = Idle /\ counts.requests < MaxRequests
    /\ limits' = [s \in Sides |-> [min |-> Ratio[1] * req[s].min, max |-> Ratio[1] * req[s].max]]
    /\ client' = [act |-> "test", side |-> "create", req |-> req, leg |-> 1]
    /\ counts' = [counts EXCEPT !.requests = @ + 1]
    /\ upset' = [s \in Sides |-> upset[s] \cup IF AtRest(s) THEN {} ELSE {"limits"}]
    /\ UNCHANGED <<status, number, volume, rate, traded, remaining, quoter, hedger, exchangeVars,
                   filled, owed>>

NextSide == IF client.side = "create"
            THEN [client EXCEPT !.act = "test", !.side = "reverse", !.leg = 1]
            ELSE Idle

DiffTest ==
    /\ client # Idle /\ client.act = "test"
    /\ client' = IF traded[client.side][1] <= 0 THEN [client EXCEPT !.act = "store"] ELSE NextSide
    /\ UNCHANGED <<strategyVars, quoter, hedger, exchangeVars, historyVars>>

DiffStore ==
    LET s == client.side
        l == client.leg
    IN /\ client # Idle /\ client.act = "store"
       /\ traded' = [traded EXCEPT ![s][l] = client.req[s].carried * Ratio[l]]
       /\ client' = IF l = Last THEN NextSide ELSE [client EXCEPT !.leg = l + 1]
       /\ UpsetIf(s, "carried", ~AtRest(s) \/ filled[s][1] > 0)
       /\ UNCHANGED <<status, number, volume, rate, limits, remaining, quoter, hedger, exchangeVars,
                      counts, filled, owed>>

Client == (\E req \in Requests : Difference(req)) \/ DiffTest \/ DiffStore

-----------------------------------------------------------------------------
(* The exchange.                                                            *)

Answer(e) == events' = Append(events, e)

\* The next request of the first leg.
AcceptNew ==
    LET r == Head(bid)
        n == 1 + Cardinality(DOMAIN book)
    IN /\ bid # <<>> /\ r.kind = "new" /\ r.lots > 0
       /\ book' = [k \in DOMAIN book \cup {n} |->
                     IF k = n THEN [side |-> r.side, lots |-> r.lots, given |-> 0] ELSE book[k]]
       /\ Answer([kind |-> "confirmed", side |-> r.side, number |-> n, lots |-> r.lots])
       /\ bid' = Tail(bid)
       /\ UNCHANGED <<strategyVars, threadVars, mkt, historyVars>>

RefuseNew ==
    LET r == Head(bid) IN
    /\ bid # <<>> /\ r.kind = "new"
    /\ Answer([kind |-> "error", side |-> r.side])
    /\ bid' = Tail(bid)
    /\ UNCHANGED <<strategyVars, threadVars, mkt, book, historyVars>>

Works(n) == n \in DOMAIN book /\ book[n].lots > 0

Excess(a, b) == IF a > b THEN a - b ELSE 0

\* The lots of the request are what is left of the order now, as the simulator reads them, or
\* its whole volume, of which what is left does not change.  The answer repeats them.
DoModify ==
    LET r == Head(bid)
        o == book[r.number]
    IN /\ bid # <<>> /\ r.kind = "modify" /\ r.lots > 0 /\ Works(r.number)
       /\ \E left \in {r.lots, o.lots} :
            book' = [book EXCEPT ![r.number].lots = left, ![r.number].given = @ + Excess(left, o.lots)]
       /\ Answer([kind |-> "modified", side |-> r.side, number |-> r.number, lots |-> r.lots])
       /\ bid' = Tail(bid)
       /\ UNCHANGED <<strategyVars, threadVars, mkt, historyVars>>

DoCancel ==
    LET r == Head(bid) IN
    /\ bid # <<>> /\ r.kind = "cancel" /\ Works(r.number)
    /\ Answer([kind |-> "cancelled", side |-> r.side])
    /\ book' = [book EXCEPT ![r.number].lots = 0]
    /\ bid' = Tail(bid)
    /\ UNCHANGED <<strategyVars, threadVars, mkt, historyVars>>

RefuseAsk ==
    LET r == Head(bid) IN
    /\ bid # <<>> /\ r.kind # "new"
    /\ Answer([kind |-> "refused", side |-> r.side, gone |-> ~Works(r.number)])
    /\ bid' = Tail(bid)
    /\ UNCHANGED <<strategyVars, threadVars, mkt, book, historyVars>>

Count(s, l, k) == filled' = [filled EXCEPT ![s][l] = @ + k]
Report(s, l, k, left) == Answer([kind |-> "trade", side |-> s, leg |-> l, lots |-> k, left |-> left])

\* A working order trades, in part or whole.
Fill(n, k) ==
    /\ Works(n) /\ k <= book[n].lots /\ filled[book[n].side][1] + k <= MaxLots
    /\ book' = [book EXCEPT ![n].lots = @ - k]
    /\ Count(book[n].side, 1, k)
    /\ Report(book[n].side, 1, k, book[n].lots - k)
    /\ UNCHANGED <<strategyVars, threadVars, bid, mkt, counts, owed, upset>>

\* A market order trades, in part or whole.
Without(m) == mkt (-) SetToBag({m})

FillMarket(m, k) ==
    /\ k <= m.lots
    /\ mkt' = IF k = m.lots THEN Without(m)
              ELSE Without(m) (+) SetToBag({[m EXCEPT !.lots = @ - k]})
    /\ Count(m.side, m.leg, k)
    /\ Report(m.side, m.leg, k, m.lots - k)
    /\ UNCHANGED <<strategyVars, threadVars, bid, book, counts, owed, upset>>

\* The exchange cancels by itself what it finds to be a self-trade.
Stops == counts.stops < MaxStops /\ counts' = [counts EXCEPT !.stops = @ + 1]

StopQuote(n) ==
    /\ Stops /\ Works(n)
    /\ book' = [book EXCEPT ![n].lots = 0]
    /\ Answer([kind |-> "cancelled", side |-> book[n].side])
    /\ UNCHANGED <<strategyVars, threadVars, bid, mkt, filled, owed, upset>>

StopMarket(m) ==
    /\ Stops
    /\ mkt' = Without(m)
    /\ Answer([kind |-> "stopped", side |-> m.side, leg |-> m.leg, lots |-> m.volume])
    /\ UpsetIf(m.side, "stopped", TRUE)
    /\ UNCHANGED <<strategyVars, threadVars, bid, book, filled, owed>>

\* A market order is refused on entry.
RefuseMarket(m) ==
    /\ Stops /\ m.lots = m.volume
    /\ mkt' = Without(m)
    /\ Answer([kind |-> "rejected", side |-> m.side, leg |-> m.leg])
    /\ owed' = [owed EXCEPT ![m.side] = @ \cup {m.leg}]
    /\ UNCHANGED <<strategyVars, threadVars, bid, book, filled, upset>>

Answers == AcceptNew \/ RefuseNew \/ DoModify \/ DoCancel \/ RefuseAsk

Trading ==
    \/ \E n \in DOMAIN book : StopQuote(n) \/ \E k \in 1..book[n].lots : Fill(n, k)
    \/ \E m \in BagToSet(mkt) :
         StopMarket(m) \/ RefuseMarket(m) \/ \E k \in 1..m.lots : FillMarket(m, k)

-----------------------------------------------------------------------------
MarketData ==
    \/ \E s \in Sides, r \in Rates : LookNew(s, r) \/ LookModify(s, r)
    \/ \E s \in Sides : LookCancel(s)

Next == MarketData \/ Quoter \/ EventHandler \/ Client \/ Answers \/ Trading

Spec == Init /\ [][Next]_vars

\* The event thread and the exchange go on; the data thread ends what it has begun.
Fairness == WF_vars(Quoter) /\ WF_vars(EventHandler) /\ WF_vars(Answers)
FairSpec == Spec /\ Fairness

-----------------------------------------------------------------------------
(* Properties.                                                              *)

Legs == DOMAIN Ratio
Activity(acts) == {Idle} \cup [act : acts, side : Sides, rate : Rates \cup {0}, marked : BOOLEAN]

Event ==
    [kind : {"confirmed", "modified"}, side : Sides, number : Nat, lots : Nat]
    \cup [kind : {"cancelled", "error"}, side : Sides]
    \cup [kind : {"refused"}, side : Sides, gone : BOOLEAN]
    \cup [kind : {"stopped"}, side : Sides, leg : Hedges, lots : Nat]
    \cup [kind : {"rejected"}, side : Sides, leg : Hedges]
    \cup [kind : {"trade"}, side : Sides, leg : Legs, lots : Nat, left : Nat]

\* Type invariant.
TypeOK ==
    /\ status \in [Sides -> Statuses]
    /\ number \in [Sides -> Nat] /\ volume \in [Sides -> Nat] /\ rate \in [Sides -> Rates \cup {0}]
    /\ limits \in [Sides -> [min : Nat, max : Nat]]
    /\ traded \in [Sides -> [Legs -> Nat]] /\ filled \in [Sides -> [Legs -> Nat]]
    /\ remaining \in [Sides -> Nat]
    /\ quoter \in Activity({"new", "modify", "cancel"})
    /\ hedger \in {Idle}
         \cup [act : {"store", "size"}, side : Sides, leg : Legs, lots : Nat, left : Nat, reg : Nat]
         \cup [act : {"hedge"}, side : Sides, leg : {1}, lots : Nat, tradable : Nat, next : Hedges]
    /\ client \in {Idle} \cup [act : {"test", "store"}, side : Sides, req : Requests, leg : Legs]
    /\ \A i \in DOMAIN bid :
         \/ bid[i] \in [kind : {"new"}, side : Sides, lots : Int]
         \/ bid[i] \in [kind : {"modify"}, side : Sides, number : Nat, lots : Nat]
         \/ bid[i] \in [kind : {"cancel"}, side : Sides, number : Nat]
    /\ \A m \in BagToSet(mkt) : m \in [side : Sides, leg : Hedges, lots : Nat, volume : Nat]
    /\ \A n \in DOMAIN book : book[n] \in [side : Sides, lots : Nat, given : Nat]
    /\ events \in Seq(Event)
    /\ counts \in [{"quotes", "asks", "stops", "requests"} -> Nat]
    /\ owed \in [Sides -> SUBSET Hedges] /\ upset \in [Sides -> SUBSET Upsets]

\* The lots of the first leg whose fill has not reached the hedge of leg l.
Unhedged(s, l) ==
    LotsOf(TradesOf(s, 1))
    + IF /\ hedger # Idle /\ hedger.side = s /\ hedger.leg = 1
         /\ hedger.act = "hedge" => hedger.next <= l
      THEN hedger.lots ELSE 0

\* What is or will be bought or sold in leg l without a further fill of the first leg.
HedgedLots(s, l) == filled[s][l] + InMarket(s, l)
    + LotsOf({i \in EventsOf(s, "stopped") : events[i].leg = l})
Wanted(s, l) == HitLots(filled[s][1] - Unhedged(s, l), Ratio[l], Ratio[1])

\* The fills that were processed are covered in every other leg by what traded there or is in
\* the market, through partial fills, self-trade stops and overlapping rounds
\* (TRADE_CONFIRMATION_TR), unless a carried position was written over a running count.  A
\* hedge that is refused is made up for by the next fill.
HedgeCovers ==
    \A s \in Sides, l \in Hedges :
        "carried" \notin upset[s] /\ l \notin owed[s] => HedgedLots(s, l) >= Wanted(s, l)

\* They are covered once: only a fill that overlaps an unconfirmed hedge, or the repetition of
\* a stopped order with its whole volume, can buy the hedge again.
HedgedOnce ==
    \A s \in Sides, l \in Hedges :
        upset[s] \cap {"carried", "overlap", "stopped"} = {} => HedgedLots(s, l) <= Wanted(s, l)

\* A side has one order of the first leg at a time, queued or working: the statuses PENDING,
\* OPEN and REPLACED keep the data thread from a second one while answers, fills and rejects
\* cross, provided each order found the hedges and asks of the one before settled.
OneWorkingOrder == \A s \in Sides : "hasty" \notin upset[s] => Orders(s) <= 1

\* The lots of an order count against the largest lots together with all that has traded, and
\* are never zero or less, though they are worked out after the guard was passed.  A modify
\* sends the volume of the last confirmation again, traded or not: what it gives back to its
\* order is all that passes the largest lots.
Position(s) ==
    traded[s][1] + LotsOf(TradesOf(s, 1)) + IF Storing(1) /\ hedger.side = s THEN hedger.lots ELSE 0
WithinLimits ==
    \A s \in Sides :
        upset[s] \cap {"hasty", "carried", "limits"} = {} =>
            /\ \A n \in DOMAIN book :
                 book[n].side = s /\ book[n].lots > 0 =>
                     Position(s) + Working(s) <= limits[s].max + book[n].given
            /\ \A i \in QuotesInQueue(s) :
                 bid[i].lots > 0 /\ Position(s) + Working(s) + bid[i].lots <= limits[s].max

\* PENDING has an author that will end it: the data thread has a request to send, or a request
\* or an answer to it is on the way.
PendingIsAnswered ==
    \A s \in Sides :
        status[s] = "PENDING" =>
            \/ quoter # Idle /\ quoter.side = s
            \/ QuotesInQueue(s) # {} \/ AsksInQueue(s) # {}
            \/ \E k \in {"confirmed", "modified", "cancelled", "error", "refused"} :
                 EventsOf(s, k) # {}

\* A side at rest whose status says that an order is quoted has that order, once whole units
\* have traded: the hedge of the last lot sets TRADE, a cancel CANCEL.  A leg that was hedged
\* twice asks for no hedge of a later lot, and a refused one never trades.
NoPhantomOrder ==
    \A s \in Sides :
        (/\ status[s] \in Quoting /\ hedger = Idle
         /\ \A i \in DOMAIN events : events[i].side # s
         /\ \A l \in Hedges : InMarket(s, l) = 0
         /\ traded[s][1] % Ratio[1] = 0
         /\ upset[s] \cap {"carried", "overlap", "stopped"} = {} /\ Last \notin owed[s])
        => Working(s) > 0

\* A side never stays PENDING: the exchange answers and the answer is handled.
LegSettles == \A s \in Sides : status[s] = "PENDING" ~> status[s] # "PENDING"
=============================================================================
