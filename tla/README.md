# TLA+ models of the 11jansan order and depth servers

This directory holds the formal models of the repository: TLA+ modules, the
TLC configurations that check them, and theorems proved with TLAPS. Paths
are relative to the repository root; `OS/` stands for
`OrderServer-20151216-AtHome/`, `DD/` for `Depth Data 20151224/` and `SIM` for
`SimWithData/simuletionconsole/simuletionconsole/Program.cs`.

## 1. The system

Three programs. The **order server** (`OS/`, C++) takes portfolio
subscriptions from client terminals, watches the market depth, and works
two- or three-legged option strategies by sending orders to the exchange. The
**depth server** (`DD/`, C++) rebuilds the order book of each subscribed token
from a multicast tick-by-tick stream and publishes best prices. The
**simulator** (`SimWithData/`, C#) plays the exchange during tests.

```
 terminals --nanomsg--> ClientHandler -> AutoClient -> StrategyClass (one per portfolio)
                                             ^   ^            |
             best prices (PUB/SUB) ----------+   |            | FillData::BidQueue / MktQueue
 multicast -> BindStreamAlternate -> book        |            v
              (depth server)              event socket   two concurrent_queues
                                                 |            |
                                           reader thread   sender thread
                                           (BindConnection) (SendToExchange)
                                                 ^            |
                                                 +--- TCP ----+---> exchange
```

### Components

| component | state | operations | hard behaviour | what makes it correct |
|---|---|---|---|---|
| Order gateway, `OS/src/TapSignOn.cpp` | `SeqNo`, `InvitationCount`, `_QueueHolder` (sent orders without a number), `_PFHashMap._OutPF` (order number -> owner), the sign-on counter | sender loop, reader's cases, `GetPF`, `ReturnCancelPack`, sign-on | two threads, shared counters and a vector with no common lock, packets about orders in any interleaving with fills, rejects by key | no working order without an owner or a cancel, packets to the right owner, no invitation lost or minted, every queued order sent once and in order |
| Request queues, `OS/include/StaticClass.h` | two `concurrent_queue`s | push, try_pop, size | priority of one over the other | FIFO per queue, nothing lost |
| Strategy, `OS/src/StrategyClass.cpp` | per leg: status, order number, price, traded volume, counters | market data handler, one handler per exchange event, subscription changes | called from three threads, a try-lock whose result is ignored, cancel/modify racing fills | never two live orders on a leg, hedge equals what was filled, no leg stuck |
| Client, `OS/src/AutoClient.cpp` | the client's strategies and signal connections | subscribe, unsubscribe, difference, event dispatch, manual orders, dispose | events after an unsubscription, double subscription, tags decoded by digit position | each event handled once, by the strategy it is for |
| Client handler, `OS/src/ClientHandler.cpp` | the logged-in clients | login, logout, dispatch | second login, thread started before `main` | one session per client |
| Tags, `concat` and its decoders | none | concatenate and split decimal numbers | numbers of another width | the decoder inverts the encoder, no two subscriptions share a tag |
| Depth feed, `DD/main.cpp` | last sequence number of a stream, the token map | subscription thread, one thread per stream | lost datagrams, a map shared with no lock | the book of a token is the exchange's book |
| Depth book, `DD/TokenWiseClass.h` | two bimaps order -> price, last published prices | insert, update, delete, trade | partial trades, empty sides | published prices are the best prices of the book |
| Simulator, `SIM` | sequence number, order numbers | answers of sign-on, new, modify, cancel | none of its own; it documents the protocol | - |

Not modelled at all: the packet layouts and byte order (`OS/Packets.cpp`,
`OS/include/structure.h`), MD5, the socket wrapper, the parsing of the settings and
contract files (`CiniRW`, `ContractStore.h`), `PF_On_Queue` and `2LStg` (unused), the
older copies (`DD/CPPDataServer`, `*.save`) and build products. `PROJECT.json`
lists every component with its status and every hazard with its line.

## 2. Plan

In this order, most important behaviour first:

1. `OrderGateway` with `OrderChannel` (**done**, section 3): the threads where
   an order can get lost, doubled or mis-owned.
2. `DepthBook` and `DepthFeed` (**done**, section 4): the books of the subscribed
   tokens against the exchange's, with lost, repeated and reordered datagrams.
3. `StrategyLegs` with `HedgeSize` (**done**, section 5): the legs of one strategy
   under its three calling threads: one live order per side, hedged volume follows
   filled volume, no side stuck in a transient state.
4. `SubscriptionTags` and `ClientSession` (**done**, section 6): the numbers that
   address events, and the sessions, subscriptions and signal connections that
   depend on them.
5. `TradingServer`, gateway and strategy composed through the queues and the event
   socket: not built, see section 10.

Every safety property the runs check is stated by a theorem; the liveness properties are
only model-checked (section 9).

## 3. The order gateway

`OrderGateway.tla` models `TapSignOn` whole: both threads, the two request
queues, both directions of the TCP connection and the exchange.

| model | code |
|---|---|
| `Bidqueue`, `Mktqueue` | the two `concurrent_queue`s (every operation holds the queue's mutex) |
| `SeqNo`, `InvitationCount` | `pkt.SeqNo`, `pkt.InvitationCount`, plain ints shared by the threads |
| `QueueHolder` | `_QueueHolder`, the holders of new orders sent and not yet confirmed |
| `OutPF`, `AddRecord`, `GetRecordByOrder` | `_PFHashMap` (`PFMap.h`) |
| `spc`, `hand`, `sreg`, `stamp` | the sender: control point, `_out`, the register of a load/store pair, the stamped number |
| `rpc`, `rreg`, `counter` | the reader: control point, register, sign-on counter |
| `Poll` ... `PushBack` | one pass of `SendToExchange` (84-223), one step per access to shared state |
| `RecvInvitation` ... `StoreSpend` | one packet of `BindConnection` (225-611), `EndOfPacket` being the counter's `switch` |
| `GetPF`, `Match`, `TornErase` | `GetPF` (613-658) and its overlap with `push_back` |
| `AnswerSignOn` ... `Fill` | the exchange: an invitation per packet received (`SIM` 219), then the answer |
| `disturbed`, `lostUpdate` | history variables, read by no action |

**Atomicity.** `SeqNo++`, `InvitationCount--` and `+= 1` are load and store
steps: in the Release object file in `OS/obj` (gcc 4.4.7, `-O0`) they are
separate instructions on memory. The vector is the exception: a `push_back`
that overlaps `GetPF`'s find and erase is undefined behaviour, and `TornErase`
gives the outcomes this build can produce when freed storage stays readable: each
slot copied before or after its shift, and either end pointer surviving. A
crash and a holder torn in the middle of its bytes are not modelled.
The fields `FindByToken` compares (token, price, volume, side) are one `key`.

**`PFMap`.** `AddRecord` inserts if the number is absent: the bimap's right side
orders `PFHolder`s with an `operator<` that returns nothing, and in the build at
hand the insertion never fails on that side.

**Packets.** The reader's cases become `RecvConfirm` (20073), `RecvReject` (2042,
2072, 2231), `RecvUpdate` (20074, 20075), `RecvTrade` (20222), `RecvSignOnReply`
and `RecvInvitation` (15000). 17071/17101 only print and are left out. Publishing
to the event socket changes no state of the gateway and is the lookup that chooses
the address. A reject echoes the request's price and volume, which a modify
has changed, so its key is any key.

**Bounds.** `NewOrders` (each submitted once), `Lots` fills per order and `MaxOm`
modify and cancel requests bound a behaviour; auto-cancels are bounded by the
orders. There is no bound on the wire or the queues beyond that.

**Abstract specification.** `OrderChannel` is what the strategies rely on: two
FIFO lanes and a hand that holds one request at a time, in front of one wire;
each new order enters its lane once, a modify or cancel names an order the
exchange has taken, and the two sign-on requests are written once each. The
gateway implements it (`DeliversLikeAChannel`) under the mapping that takes the
two queues for the lanes, `_out` from the pop to the send for the hand, and the
direction to the exchange for the wire. Everything else (sequence numbers,
invitations, the vector and the records, both threads' control points) is a
stutter of the channel.

### Runs

| run | instance | shows |
|---|---|---|
| `gateway_same_key` | two orders for the same key, one per queue, two fills each (1.5 M states) | types, `EveryLiveOrderIsManaged`, `OneOrderPerHolder`, `CreditConserved`, `OverdraftBounded` |
| `gateway_own_keys` | two orders with their own keys, one modify or cancel (4.1 M states) | `RoutedByKey`, `OrphanOnlyBeforePush`, `DeliversLikeAChannel` |
| `gateway_liveness` | two orders for the same key, one fill, fairness (0.4 M states) | `QueuedIsSent`, `OrphanIsCancelled` |
| `gateway_sequence` | violation | the sequence numbers on the wire are not consecutive (finding) |
| `gateway_unknown` | violation | an order of this process is cancelled as of an unknown client (finding) |

Two orders are enough for the interesting cases: a holder of one taken for the
other, both in the vector while the first is confirmed, one auto-cancelled while
the other is pushed, a modify of one rejected while the other is unconfirmed.
`Lots = 2` separates a partial from a last fill. Deadlock checking is off: with
every request sent and nothing to trade the system stops.

Several properties have an antecedent. `OneOrderPerHolder` and
`OrphanOnlyBeforePush` exclude behaviours where the vector was disturbed, and
`CreditConserved`, `QueuedIsSent` and `OrphanIsCancelled` those where one store to
`InvitationCount` overwrote another: in those the code gives no guarantee,
and dropping the antecedent makes TLC report it. `EveryLiveOrderIsManaged` and
`RoutedByKey` hold without any such condition.

**Fairness.** `WF` of the sender and of the reader: both are endless loops on
threads of their own with no lock between them. `WF` of the exchange's answers:
the protocol answers every packet. Nothing is assumed of submissions and fills.

## 4. The depth server

`DepthBook.tla` holds the operations of one token's book, `DepthFeed.tla` the two
threads that share the books and the exchange.

| model | code |
|---|---|
| `buy`, `sell` of a book | the left views of `_BidData`, `_AskData`: order number -> price |
| `MAXBID`, `MINASK` | the same fields of `_FP`, published after every message |
| `Insert`, `Upate`, `Delete`, `ReturnPrice` | the methods of `BimapDataClass` (`DD/TokenWiseClass.h`) |
| `BidAsk`, `TrdMsg`, `Apply` | the methods of `TokenWiseClass` and their dispatch (`DD/main.cpp` 359-397) |
| `map` | `_map`, the tokens whose node has its pointer |
| `LastSeq`, `Arrives` ... `NullBook` | one datagram of `BindStreamAlternate` (268-420) |
| `todo`, `subpc`, `RecvPair` ... `StoreBook` | one request of `Eventsubscriber` (120-265), one token at a time |
| `sent`, `past` | the exchange's numbered messages and its book around each (external) |
| `since` | history: whether a token's book should be in step, and with what |

**The network.** Multicast may lose, repeat and reorder, so any message already
sent may be the next to arrive. Heartbeats (`msg_len` up to 13) and messages of
other lengths change nothing and are left out.

**Atomicity.** Each message to a book runs under the token's mutex and is one step. The
map has no lock: `_map[token] = new ...` first links a node with a NULL pointer
(`LinkToken`), then stores the book (`StoreBook`). `find` of the other thread may
meet the NULL (`NullBook`, the process ends: `up`), or, while the insertion
rotates nodes, miss a token that is there (`Overlook`, at least two nodes).
Worse outcomes of the torn tree are not modelled.

**Undefined behaviour.** `Upate` compares `it->first` without testing for `end()`
(143). The header node of the bimap holds the bytes its memory had before the
book was made: no order number that arrives for this token later, unless order
numbers repeat between tokens. So the comparison fails and the order is inserted.

**Best prices.** A comment on the bimap's type says "std:greater is not working as expected. Need
to check and fix it." (`TokenWiseClass.h` 26), and the model takes the prices read by
`ReturnPrice` for the best ones all the same. The right view is `multiset_of<int,
std::greater<int>>`: boost keeps it in the order of that comparator, a strict order on ints fixed
at compile time, through `insert`, `erase` and `replace_data` (which moves the pair to its new place;
a multiset refuses no price). So it begins with the highest price and ends with the lowest, and
`ReturnPrice` reads the bids at `begin()` (335) and the asks at `rbegin()` (356): the highest bid
and the lowest ask, `Max` and `Min` in the model. What the comparator does not do is what its
one typedef for both sides might suggest: the asks, too, come highest first, and `begin()` would
give the worst of them. The code no longer reads that end, so the comment is out of date; the
mutant `ReturnPriceBack`, which reads each side from its other end, is what it would be like.
`QuoteIsReal` is about sides that have orders. When a side empties, its loop in `ReturnPrice`
does not run and the price of the last order goes on being published: the property does not
catch that, and it is listed as a hazard without one.

**Abstraction.** Quantities: the maps of quantities are only ever used in commented-out
code, and a trade deletes both orders whatever its quantity. So the exchange says
of each order only whether a trade took part of it (`touched`) and the trade
chooses which order survives. The traded price and the day's range in `_FP` are left
out, and so is a second stream, whose tokens would be others.

**What is in step.** `since[t]` is `"lost"` once a datagram of the stream was lost or
a lookup missed; `"part"` while the book began when the exchange already
had orders of the token; `"whole"` if it had none. After a gap a book that is
empty counts as a new beginning: that is the only way back, since nothing clears
the books.

### Runs

| run | instance | shows |
|---|---|---|
| `depth_feed` | two buyers and a seller of one token, three tokens requested again and again, two prices, four messages (656 K states) | types, `BookFollowsExchange`, `QuoteIsReal` |
| `depth_gap` | the same, violation | the books survive a gap (finding) |

Two buyers at two prices make the best price change hands; the seller trades with
either; the other two tokens put the insertion of the first between two nodes.
Four messages are enough for an order to be entered, modified, traded in part and
lost, or entered during the subscription and traded after it. The buyers are
interchangeable (`SYMMETRY`, safety properties only). The exchange stops after
`MaxSeq` messages, so deadlock checking is off.

## 5. The strategy

`StrategyLegs.tla` models one `StrategyClass`: both sides of its first leg and
the market orders of the others, for two legs or three. `HedgeSize.tla` is the
float arithmetic that sizes a hedge.

| model | code |
|---|---|
| `status`, `number`, `volume`, `rate` | `BuyFarStatus`/`SellFarStatus`, `OrderNumber` and `Volume` of the modify packets, `iBuyModQuoteRate`/`iSellModQuoteRate` |
| `limits`, `traded`, `remaining` | `Token1Min...`/`Token1Max...Ratio`, the six trade counters, `_CreateRemainingQty`/`_ReverseRemainingQty` |
| `LookNew`, `LookModify`, `LookCancel` | the branches of `OnDataEventHandler` (400-665), one side at a time |
| `MarkPending`, `Quote`, `Requote`, `Withdraw` | the status written, then `BOARD_LOT_IN_TR...`, `ORDER_MOD_IN_TR_...`, `ORDER_CANCEL_IN_TR` |
| `ORDER_...` | the handlers of the same name |
| `TradeLoad` ... `HedgeStore` | `TRADE_CONFIRMATION_TR` (1204-1357) |
| `Difference`, `DiffTest`, `DiffStore` | `OnDifferenceEventHandler` (679-730) |
| `bid`, `mkt` | requests between the strategy and the exchange: the first leg's in order, market orders as a bag |
| `AcceptNew` ... `RefuseMarket` | the exchange (external) |
| `filled`, `owed`, `upset` | history variables, read by no action's guard |

**Threads.** Market data, exchange events and client requests call in on three
threads. The try-lock of `OnDataEventHandler` excludes none of the others (they
take no lock) and its result is ignored, so it is not in the model. The data
thread looks, marks the side PENDING and sends in three steps; status and
counters can change between them. An event handler is one step, except for a
trade: `+=` on a counter is a load and a store in the Release object, and the
client thread writes the same counters. A difference request sets the limits in
one step and each counter in a step of its own.

**Prices** are reduced to which branch is taken and to the rate to quote, any
member of `Rates`: the market decides both. One invocation of
`OnDataEventHandler` for two sides is two actions one after the other. The
code's `CreateSide` and the subscription's `TokenFarSide` are the same side.

**Hedges.** `HitLots` computes `floor(traded * ratio)` as the build does: the ratio
and the product are rounded to 24 bits. `MCHedgeSize` compares it with the exact
quotient. `LotsAssumption` asks that the two agree for the ratios of an instance and for up to
`2 * MaxLots` lots, the most a side can count: `MaxLots` bounds the lots of the first leg that
trade on a side (a guard of `Fill`) and the lots that a request carries. TLC evaluates the
assumption for each instance. `Total` counts a sum of lots unit by unit, as the number of
pairs (order, lot).

**Modifies.** The packet of a modify is the one the last confirmation or modify response filled
(`TakeOver`), with its volume: the lines that would set the volume are commented out (844, 893), and
`TRADE_CONFIRMATION_TR` does not touch it. So after a partial fill a modify asks for the
whole volume again. What the exchange makes of it is not in `OS/`: the simulator takes the
request's volume over (`SIM` 872-900), an exchange that reads it as the order's whole volume
leaves the rest as it is. `DoModify` allows both. `given` is history: the lots that modifies
gave back to an order that had traded them.

**Left out:** a second subscription and the unsubscription (section 6),
manual orders, the 16-bit width of the counters, and the gateway below (orders of
a strategy arrive and are answered in order, as section 3 shows for orders that are
not auto-cancelled).

### Runs

| run | instance | shows |
|---|---|---|
| `legs_hedge` | two lots of the first leg to one of the second, two quotes, a modify or cancel, one self-trade stop or refused hedge, a request that carries a unit or none (1.4 M states) | types, `HedgeCovers`, `HedgedOnce`, `NoPhantomOrder` |
| `legs_orders` | one lot each, three quotes of a side, a modify or cancel, two requests: orders of one lot, one of two, a carried unit (2.2 M states, the two rates interchangeable) | `OneWorkingOrder`, `WithinLimits` |
| `legs_liveness` | three legs, both sides quoted, fairness (68 K states) | `PendingIsAnswered`, `LegSettles` |
| `hedge_size` | ratios up to 12 lots, 60 lots traded (9 K states) | `HedgeFollowsRatio` |

Two quotes of a side are needed for what is left of the first to meet the second:
a late hedge, a refusal, a cancel that crosses a fill; a third for two orders to
work at a time. An order of two lots is what a modify can make whole after a partial fill. The
ratio 2:1 makes a fill
that hedges nothing yet; three legs tell the last leg from the second. Deadlock
checking is off: with its quotes and requests spent the system stops.

**What the properties exclude.** A fill or an answer may cross a decision of the
data thread in ways the code does not guard against. `upset` records that this
happened to a side, and a property names the tags under which it makes no claim:
`hasty` (a quote decided while a hedge or an ask of the order before is outstanding;
the late answer then changes the status of the new order), `overlap` (a fill hedged
before the last hedge was confirmed, which buys it again), `stopped` (a hedge
stopped as a self-trade is repeated with its whole volume), `limits` and `carried` (a
request that writes limits or counters under a running order). `owed` is a leg
whose hedge was refused: nothing repeats it until the next fill. In `WithinLimits` the lots `given`
back to the working order are added to the largest lots: a modify after a partial fill may pass
them by these, as the code does nothing against it, and by no more. On the very
instances of these runs TLC reports each property when any one of its antecedents
is dropped; `PendingIsAnswered` and
`LegSettles` have none.

`HedgeFollowsRatio`: the float product is exact for ratios up to six lots; it can be
one lot short beyond (7 to 3 at 27 lots), which the next lot makes up for, and it
never asks for more. Section 9 proves this for ratios of up to 128 lots.

**Fairness.** `WF` of the data thread's remaining steps, of the event thread's loop,
and of the exchange's answers. Nothing is assumed of market data, trades, stops or
client requests.

## 6. Sessions and tags

`ClientSession.tla` models `ClientHandler` and every `AutoClient` it makes, from
login to the end of `Dispose`; `SubscriptionTags.tla` the numbers by which events find
their session and strategy.

| model | code |
|---|---|
| `IniMap`, `ContMap`, `LoadSettings`, `LoadContract` | `main` (22-105), which runs beside the threads that global constructors started |
| `cimlist`, `loadCimList`, `StgMap` | members of `ClientHandler`; `StgMap[c] = 0` is a client without an entry |
| `session` | the `AutoClient` objects: `cim`, `SubStatus` (`_SubStatus`), `Datasock` (whether the data thread has made the socket), `feed` (the tokens subscribed on it), `SymbolDictionary`, `DataPack` (the connections of its signals), `manual` (`ManualOrderStore`), `inbox`/`listens` (the event thread's socket), `hand` (what the data thread is about to send), `phase` (`IsExit` and how far `Dispose` is) |
| `strategy` | the `StrategyClass` objects; `live` while `_StgClass` holds it, `by` what made it, `gen` its number of subscriptions |
| `Login`, `Dispose` | `ClientHandler::Login` (103-197) |
| `HandleOnFOPair...`, `ManualOrder...` | the requests dispatched by `RecieveDataAsServer` (245-403), same names |
| `StopAllOrder`, `EraseAll` | the rest of `Dispose` (1326-1495), in the handler's thread |
| `SubscribeTokens` | `SubscribeTokenOnFalse` (663-680): the flag in `_SubStatus`, then the subscription |
| `Datasubscriber` | the data thread makes `Datasock` (606-618) |
| `Look`, `Send`, `CallErased` | the loop of `Datasubscriber` and `OnDataEventHandler`, for a token of `feed`: decide, then send |
| `Eventsubscriber`, `After` | the loop of that name (783-974) and the handlers it calls |
| `orders`, `asked`, `Publish`, `Accept` ... `Refuse` | gateway and exchange (external) |
| `Concat`, `Tag`, `Decode` | the three `concat`s, `SubscriptionTag`, the decoding by digit positions |
| `heard`, `known`, `shadowed`, `early` | history variables, read by no action's guard |

**Threads.** The handler's thread takes one request at a time, and is busy while
a `Dispose` runs (`HandlerReady`): that sets `IsExit`, sleeps, cancels
(`StopAllOrder`), erases. The sleeps promise nothing, so the session's own threads
may act between these steps: the data thread may send what it had in hand, the
event thread handle what it was waiting for. It does so once: its socket is a local
variable that shadows the member `sock` (792), which is what `Dispose` shuts down.

**Start-up.** The constructor of `AutoClient` only starts its two threads (59, 65). The data thread makes
`Datasock` in a step of its own (612), which may come after the session's first requests. A
subscription before that is made on no socket; its result is ignored (765), while
the flag in `_SubStatus`, set first (673), keeps every later one from being made: the token
is lost to the session for good. `early` remembers these tokens. The three tokens
of a portfolio are subscribed in one step; a socket that comes between two of them loses some of
the legs, as happens in the model when a portfolio shares a leg with an earlier one. The event
thread's start-up is folded into `Login`: missing an event would take the request, the order and the
exchange's confirmation all before the thread's first calls.

**Abstraction.** A strategy has one order at a time and its market data
decides nothing but that an order is due; modifications, the two sides,
hedges and refused new orders are in `StrategyLegs`. The exchange tells each order's
events in order, as `OrderGateway` shows for orders of this process. Packets to the
terminals carry no state.

**Undefined behaviour.** The number of an order not yet confirmed and the
`ClientID` of a strategy that a difference request made are uninitialised: 0 here, a
tag nobody listens to. The lot size of a token without contract is zero or junk. A
connection that outlives its strategy calls freed memory (`CallErased`, the process
ends). Three threads use a session's maps without a lock; what a torn tree
does is not modelled.

### Run

`client_session`: one client, portfolios 1 and 12 with a leg in common, 12 also with
its legs exchanged, a file of two contracts, read in its order, any five requests, two orders
(992 K states). Portfolio 12 has two digits, so that both decodings are used; the
common leg makes one portfolio take the other's entry in `SymbolDictionary`; the
exchanged legs make a later subscription disagree with the templates. Five
requests are a login, a logout and three more in any order (subscribe twice and
unsubscribe; difference, subscribe, unsubscribe; a login after a logout); two
orders are one of each portfolio, or one that crosses its cancel and one after
it. One client is enough for the tags, since `TagsDiffer` is proved for all. A
system without requests left may stop, so deadlock checking is off.

| property | says |
|---|---|
| `TypeOK` | types, and every reference leads to an object there is |
| `OneSessionPerClient` | a session not told to exit is the one `ClientHandler` knows |
| `EventsReachTheirSender` | an event is handled by its sender, or by another strategy of the same client and portfolio only if one of them has gone; no confirmation is lost |
| `LegsAreFed` | every leg of a live subscription was published and is subscribed on the data thread's socket, unless its one subscription came before the socket |
| `CalledOnce` | a strategy subscribed once is called once for a tick; only a second subscription leaves connections to an erased one |
| `LotsAreTheContracts` | lot sizes are the contracts' once the file was read in full first |
| `NoKnownOrderForgotten` | a working order whose number its strategy took is cancelled when the strategy goes, with two exceptions |
| `DividesOnlyForStrangers` | the division by a lot size of zero takes a trade of a strategy that is no more |
| `LogoutClears` | after a logout such an order leaves the market in the end |

The exceptions are what the code gets wrong. `early` tokens are those that were subscribed before there
was a socket, and never are again. `shadowed` strategies are those that
`StopAllOrder` does not find because it looks up portfolios by first leg. A strategy that was
given a stranger's event (not `HeardItsOwn`) is one subscribed after another of its
portfolio was erased: `Eventsubscriber` finds strategies by portfolio, so a late event of the
erased one's order overwrites the new one's status and number, and its own order then gets no
cancel. TLC reports the properties when an exception is dropped, the second one from seven
requests on.

`known` are the orders whose number their strategy took. A confirmation that arrives while the
portfolio is subscribed with another first leg is ignored, since an event is compared with the
present legs and orders are made from the templates of the first ones: such an order has no
number at its strategy and no request will ever cancel it. Larger instances of the
invariants (one portfolio, seven requests and two orders; one portfolio with its legs exchanged,
seven requests) were run once and hold.

**Fairness.** `WF` of the steps of `Dispose`: straight-line code of the handler's
thread. `WF` of the exchange's answer to the cancel of a working order. Nothing is
assumed of requests, market data, fills or the event thread.

**Seen while modelling**, without a run of their own:

* A second login of a running client disposes of its session and starts none.
* The tag of a client's manual orders, `65CCC999`, decodes to message types 651 to 659,
  never to 65 (`ManualOrdersUnknown`): nothing ever fills `ManualOrderStore`, so manual
  orders can be neither modified nor cancelled. The branch for 999 and the decoding
  by substrings that is commented out (850-852) show that this was not meant.
* `CancelAllOrder` looks at tables nothing fills. `eCANCELALL`, `eSTOP_ALL` and `eDelete`
  requests change nothing.
* A trade that comes back after its portfolio was unsubscribed makes a new
  `StrategyClass` with `BLQ = 0` and divides by it; a confirmation makes one that a
  later subscription finds, still without a lot size.
* A difference request before the subscription leaves a strategy whose orders' events
  nobody hears.
* `Dispose` sets the data socket to 0 before it unsubscribes through it, so that its unsubscriptions
  reach no feed.
* A token subscribed before the data thread made its socket is never fed.

## 7. Findings

* `SequenceVerified` is violated. The sign-on writes the constants 1 and 2 and sets
  `SeqNo` while the sender, started first, may be between increment and send
  (`OS/src/TapSignOn.cpp` 135-159 and 551-572). The simulator's `verifySeqNo` and the
  sender's disabled check say that numbers are consecutive.
* `OnlyUnknownIsCancelled` is violated. The holder is pushed after the send
  (159, 165); a confirmation read in between is answered with a cancel "client
  unknown" (472), and the holder stays in the vector.
* `GapClearsBooks` is violated. Where the sequence breaks, `DD/main.cpp` 404-405 says
  that all classes are told to clear their data; the call is commented out (401)
  and `ClearData` clears nothing. The book keeps orders the exchange no longer has.

## 8. Mutants

Each property of a passing run has a mutant in the module it speaks about
(`StoreInvAnySize`, `RecvTradeEarly`, `GetPFKeep`, ...), written beside the
definition it replaces, that makes TLC report the property.

## 9. Proofs

`OrderGateway_proofs` and `OrderGatewayOwnership_proofs` hold for every set of
orders and keys, every assignment of keys, every number of fills and requests
(`GatewayAssumption` is the only assumption).

* `TypeCorrect`: `Spec => []TypeOK`, one lemma per group of actions; `TornErase`
  is shown to give sequences of holders.
* `LiveOrdersManaged`: `Spec => []EveryLiveOrderIsManaged`.
* `LiveOrdersRoutedByKey`: `Spec => []RoutedByKey`.
* `OneOwner`: `Spec => []OneOrderPerHolder`.
* `Credit`: `Spec => []CreditConserved`.
* `Overdraft`: `Spec => []OverdraftBounded`.
* `OrphansOnlyBeforePush`: `Spec => OrphanOnlyBeforePush`, an action property.
* `GatewayImplementsChannel`: `Spec => DeliversLikeAChannel`, the refinement of `OrderChannel`.

`LiveOrdersManaged` and `LiveOrdersRoutedByKey` follow from `OwnershipInvariant`. Neither is inductive alone: a
reject or a trade that names an order could remove or pre-empt its record. So
`OwnershipInv` adds that an order is confirmed once and with its own key
(`ConfirmsMatchBook`), that whatever names an order that is not new (a request
in a queue, in the sender's hand or on the wire, a reject, a record) comes after
its confirmation was read (`RequestsSettled`, `RejectsSettled`,
`RecordsSettled`), and that the report of a last fill comes after that fill
(`LastFillIsLast`). `OwnershipInv` was checked by TLC on both instances first.

`OneOwner` needs to know where a request is before it is recorded: `PlaceInv` says that
until the vector is disturbed a new order is pending, in one of the queues, in the
sender's hand, in the vector or in a record, in one of these only (`Apart`) and there
once. `CreditConserved` is inductive given the types; its proof counts the invitations
on the wire (`GrantedAppend`, `GrantedTail`). `Overdraft` needs `OverdraftInv`, which holds
whatever update is lost: past its poll the sender has an invitation more than the
sign-on requests can have spent, and neither thread's register is low enough to store
less than that. A reader's register loaded before the poll is no exception: if the
counter has not changed since, the poll saw the same positive value.

`GatewayImplementsChannel` goes action by action: a submission, an auto-cancel, a modify or cancel
and each of the sender's pops, its send and the exchange's read of the wire map to the
channel's action of that name, every other step leaves what the mapping names
unchanged. `OwnershipInv` gives that an auto-cancel names an order the exchange took: its
confirmation was on the wire. `OverdraftInv` ties the reader's control points to the
sign-on counter, so that the two sign-on requests are written once each, in order.

`OrphansOnlyBeforePush` is a matter of counting. For every key, `HolderInv` (theorem
`HoldersSuffice`) says that the new orders on the wire and the packets that will be matched
by the key are no more than the holders with the key on the vector, plus one while the
sender is between the send and the push_back of such an order. Each confirmation or reject
moves a request from one side of the wire to the other and then takes a holder; a reject
of a modify or cancel is not counted, because `OwnershipInv` gives its order a number. So
a confirmation that finds no holder leaves only the sender's hand. TLC checked
`HolderInv` on both instances first. It is an inequality: a holder that comes too late
stays on the vector, and a late reject (`disturbed`) can take what belongs to another.

`DepthFeed_proofs` holds for every set of tokens and
orders, every largest price and any number of messages (`FeedAssumption`).

* `FeedTypeCorrect`: `Spec => []TypeOK`. `LeastPrice` and `BestPrices` show that `Max` and
  `Min` are defined: prices are ints, so every set of them has both.
* `BooksFollow`: `Spec => []BookFollowsExchange`.
* `QuotesAreReal`: `Spec => []QuoteIsReal`.

`BookFollowsExchange` is not inductive: applying message `k + 1` to a book in step
with the exchange after `k` is right only because that message is what led the
exchange from there to its next book. `FeedInv` adds that (`MessagesExplain`), that a
token being inserted has no book yet (`NewIsUnlinked`, without which a dispatch
through NULL could skip a message of a book in step), and that the quotes are
those of the sides (`QuotesAreBest`, from which `QuoteIsReal` follows). One message
is treated by lemmas on constants alone (`MessageEffect`, `OtherToken`,
`OwnToken`). `FeedInv` was checked by TLC first.

`StrategyLegs_proofs` holds for every ratio of two or three legs, every set of
requests and any number of quotes, asks, stops and requests
(`StrategyAssumption`).

* `PendingAnswered`: `Spec => []PendingIsAnswered`.
* `OneOrderAtATime`: `Spec => []OneWorkingOrder`.

`PendingIsAnswered` is not inductive: a cancel decided for a side without an order
number is not sent, though the side is PENDING. `LegInv` (theorem `LegInvariant`)
adds that this cannot be: whatever needs a number (`NeedsNumber`: an open status, a
modify or cancel in hand or in the queue, a refusal on the way) comes after a
confirmation that left one (`NumbersKnown`). `LegInv` was checked by TLC first.
`status` is written by two threads, so each lemma shows for one writer that what it
overwrites still has its author.

`OneWorkingOrder` rests on `OneOrderInv` (theorem `OneOrderInvariant`). The code keeps no count of
its orders: it has only the status, which says that the last order is over when it is
NONE, TRADE or CANCEL. That is true (`FreeIsOver`) because the exchange tells an order's events in
order (`InOrder`), the event that ends it comes once and last (`EndsOnce`, `LastLotIsOver`),
and a side that decides a quote does so when nothing about an earlier order is left in
a thread's hands, in the queue or unheard (`DecidesWhenOver`, `UnheardWaits`,
`QueuedIsNext`). The restriction to sides that are not `"hasty"` is needed: a quote decided while
a hedge or an ask of the side is outstanding is answered by TRADE or CANCEL of something
else. `OneOrderInv` was checked by TLC first.

`StrategyHedges_proofs` counts lots, for every ratio, any sizes of fills, stops and carried units, and
every `MaxLots` for which the float product is exact (`LotsAssumption`; where it is not, the
hedge may be one lot short, as `hedge_size` shows).

* `LegTypes`: `Spec => []TypeOK`.
* `FillsAreCovered`: `Spec => []HedgeCovers`.
* `FillsAreCoveredOnce`: `Spec => []HedgedOnce`.
* `OrdersStayWithinLimits`: `Spec => []WithinLimits`.
* `QuotedOrdersWork`: `Spec => []NoPhantomOrder`.

The properties speak of sums over the queue of events and over the bag of market orders. First comes
what each step does to those sums: an event joins or leaves the queue (`Told`, `Halted`), an
order joins, leaves or shrinks in the market (`InMarket`). The argument has five
layers, each an inductive invariant given the ones before.

1. `LotsInv`, the types and `Bounded`: what a side heard of, and what it counted, is within
   `MaxLots` and `2 * MaxLots`. Types need the bound, because the size of a hedge is a number
   only where the float product is one.
2. `CountInv`, counters against the market: for every leg, what is counted, what is in the
   event thread's hands and what is still to be told is what traded plus `c` times the
   ratio, with the same `c` in each leg (`CountsOnce`). A difference request moves `c` from 0 to the
   carried units one leg at a time, by a test and a store; `Untraded` and `TestsFirst` show
   that a store which follows its test without a fill in between finds nothing counted.
   `"carried"` is the tag of a side where a fill came in between.
3. `HedgeInv`, hedges against counters: a hedge tops up what is counted of its leg to what the
   first leg's count asks for. Both counts hold the carried units, and the floor moves by whole
   hedges with them (`HitLotsShift`), so that what was ordered covers what was met
   (`Covered`); an order counted before the last was confirmed is the only way to exceed
   it (`NotOver`).
4. `LimitInv`, orders against limits: a quote is decided below the largest lots
   (`DecidedBelow`), and then nothing else of the side is queued, works or is unheard
   (`OneOrderInv`), so that the counter it is capped by when it is sent is the whole position
   (`QueuedWithin`), and a fill moves lots from the order to the position (`WorksWithin`). What a
   modify adds to the order it adds to `given`, and only an order that already works has
   any. The theorem says nothing of sides with the tags `"hasty"`, `"carried"` (a unit carried
   under a quote) and `"limits"` (limits changed under one).
5. `PhantomInv`, statuses against the book. While a side's status says that its order is quoted
   and the exchange has no such order, the event of its end is in the queue, in
   the event thread's hands, or was handled (`Ended`). Nothing that speaks of the order comes
   behind that event (`EndComes`), so no confirmation or refusal sets the status
   again. When it was the fill of the last lot, TRADE is set by the last leg's trade; that this
   trade comes needs `HedgeInv`: once whole units have traded, the hedge of the last
   fill asks the last leg for at least one lot more (`HitLotsWhole`, `LastHedgeSends`).
   Without whole units the floor may ask for none, and the status stays OPEN.

TLC checked each invariant before it was proved.

`HedgeSize_proofs`, of the float product:

* `HedgesFollowTheRatio`: `Spec => []HedgeFollowsRatio`, for all ratios of up to 128 lots and all
  counts of traded lots a short holds (`HedgeSizeAssumption`). With these the exact product stays
  below 2^22. The ratio and the product are each rounded by one part in 2^24 at most
  (`NearestIs`, `RoundedNear`), which together moves the quotient by less than one
  (`FloatProduct`, `FloorBounds`): it never reaches the next lot, and misses a lot only where the
  exact quotient is a whole number (`WithinOne`, `OneMoreMakesUp`).
* `SmallRatiosAreExact`: up to six lots it misses none. At a whole quotient the product of a ratio
  that was rounded down is less than half a step below it, so that the second rounding brings it
  back (`SmallMantissa`, `MultipleReached`). `LotsAssumption`, on which the
  strategy's proofs rest, holds for such ratios, whatever `MaxLots` up to 16383.

The code bounds no ratio. Beyond 2^22 a float is coarser than the argument allows, and nothing is
claimed.

The first part of `ClientSession_proofs`, for every three-digit client and every portfolio from 1 to 99:

* `DecodeInvertsTag`: decoding a tag gives back message type, client and portfolio.
* `TagsDiffer`: no two clients or portfolios share a tag.
* `ManualOrdersUnknown`: the tag of manual orders never decodes as an order's.

`ClientSession_proofs` and `ClientSessionSafety_proofs` hold for all clients, portfolios,
contracts and any number of requests and orders (`SessionAssumption`).

* `TypeCorrect`: `Spec => []TypeOK`. Every object refers to others by their position in
  a sequence, so each action is first shown to say how it changes each
  sequence (`LoginStep` ... `EventStep`), and then that references stay inside.
  `NextSafe` also collects what no step changes (`Kept`): whose a session, a strategy or
  an order is, that a session opens once, that what is erased stays erased.
* `OneSession`: `Spec => []OneSessionPerClient`. The invariant `Handled` covers
  sessions that are being disposed of: until the last step of `Dispose` they are still
  their client's entry, which is why a login in between does not make a second one.
* `LegsFed`: `Spec => []LegsAreFed`. The code knows of a subscription only what the flag in `_SubStatus`
  says, so the invariant adds what a flag of a running session is worth (`FlagsTell`): its token
  is in `feed`, or was too `early`. It is kept because the socket is made once and an
  unsubscription leaves the tokens subscribed.
* `NoDivision`: `Spec => []DividesOnlyForStrangers`. `LotsKnown` adds the strategies that the
  data thread has in hand: the lot size is tested when an order is decided and holds
  when it is sent.
* `ContractLots`: `Spec => []LotsAreTheContracts`, if the contract file lists the first legs.
  `ContractsCopied` adds that every session has `ClientHandler`'s copy.

* `EventsFindSender`: `Spec => []EventsReachTheirSender`. `SenderInv` adds that an order carries
  its sender's tag (`Addressed`), that `_StgClass` holds one strategy for a portfolio
  (`OneStrategy`), that the thread of a running session listens (`Listening`), and
  `Handled`. That the tag of an order leads back to its portfolio is `DecodeInvertsTag`,
  that it leads nowhere else `TagsDiffer`, and that a manual order's event is never
  taken for a strategy's `ManualOrdersUnknown`.
* `OneCall`: `Spec => []CalledOnce`. `CallInv` says of each strategy of a running session how
  its connections follow from its record: none before its first subscription, one for each
  leg while it is live after one, none once it was erased then; after a second subscription
  nothing is said, because the first connections are lost. It adds that a session is
  connected to strategies of its own only.

* `NoneForgotten`: `Spec => []NoKnownOrderForgotten`. `MindInv` is about the strategies that can
  answer for their orders (`Minded`: held, in a session that did not stop, given no
  stranger's event). Such a strategy has at most one unsettled order (not done, or with an event on
  the way), none when it may send the next, and of the order it knows it has status OPEN and
  the number, so that `CancelsOf` names it (`Clear`). This needs that the number of a strategy is
  of an order it heard of (`NumberInv`), so that a cancel sent for one strategy is never of
  another's order and none is outstanding while the strategy runs (`Unasked`); that the events of
  an order come in order, with nothing but a refusal after the last (`EventsOrderly`); that only the
  session's own data thread has a strategy in hand (`HandInv`); and that `ManualOrderStore` is never filled
  (`NoManuals`), because the tag of manual orders is decoded to no order. The last steps are that a
  session stops by `StopAllOrder` only (`PhaseLost`) and a strategy of a running one goes by an
  unsubscription (`LiveLost`). TLC checked each part first.

Only model-checked, of the sessions: the liveness of `LogoutClears`.

Only model-checked, of the strategy: the liveness of `LegSettles`.

Only model-checked, of the gateway: the two liveness properties, which are out of the
prover's reach.

## 10. Not modelled

* **Gateway and strategy in one state space.** Each module assumes of the other what the
  other's runs show: the strategy that requests reach the exchange in order
  (`OrderChannel`), the gateway and the sessions that requests come in any order. What
  is lost is the strategy's view of an order that the gateway cancels as unknown. The
  gateway alone has millions of states for two orders; the product with the legs of a
  strategy is out of TLC's reach at any size where both have something to do.
* **Races on `std::map` and `std::vector`** beyond `TornErase`, `NullBook` and `Overlook`: the
  outcomes of a torn tree are not bounded by the code.
* **Reconnection**: a lost connection ends the process (`TapSignOn.cpp` 293-299). Nothing is
  persisted, so there is no recovery to model.
* **Bytes**: sizes, byte order and checksums of packets, MD5, the socket wrapper, the
  parsing of `settings.ini` and `contract.txt`. They keep no state.
* **Packets to the terminals**, and a terminal that is not there when a login is answered.
* **Of the gateway**: publishing, beyond its address; the duplicate `FillData` objects
  (the class is `static` in a header, so each translation unit has its own mutex, but the
  queues have theirs and exclusion does not depend on it); `LastSeq`, `HashKey` and the
  other members nothing reads.
* **Unused code**: `PF_On_Queue`, `2LStg`, `CPPDataServer`, `*.save`.
