--------------------------- MODULE DepthFeed_proofs ---------------------------
(***************************************************************************)
(* Proofs about DepthFeed, for every set of tokens, orders and prices and  *)
(* any number of messages.                                                 *)
(***************************************************************************)
EXTENDS DepthFeed, TLAPS, WellFoundedInduction, NaturalsInduction

USE FeedAssumption

\* A side is a function from some orders to prices.
LEMMA SideTypes ==
    ASSUME NEW f
    PROVE  f \in Sides <=> DOMAIN f \subseteq Orders /\ f \in [DOMAIN f -> Prices]
  BY DEF Sides

\* So is a book of the exchange, with the touched mark.
LEMMA ExchangeBookTypes ==
    ASSUME NEW f
    PROVE  f \in ExchangeBooks <=>
             DOMAIN f \subseteq Orders /\ f \in [DOMAIN f -> [price : Prices, touched : BOOLEAN]]
  BY DEF ExchangeBooks

\* A set of prices that is not empty has a least one.
LEMMA LeastPrice ==
    ASSUME NEW S \in SUBSET Nat, S # {}
    PROVE  \E x \in S : \A y \in S : x <= y
<1>1. IsWellFoundedOn(OpToRel(<, Nat), Nat)
  BY NatLessThanWellFounded
<1>2. PICK x \in S : \A y \in S : ~ (<<y, x>> \in OpToRel(<, Nat))
  BY <1>1, WFMin
<1>3. \A y \in S : ~ (y < x)
  BY <1>2 DEF OpToRel
<1> QED
  BY <1>3

\* Max and Min pick prices of the set: an int has a largest value.
LEMMA BestPrices ==
    ASSUME NEW S \in SUBSET Prices, S # {}
    PROVE  /\ Max(S) \in S /\ \A y \in S : Max(S) >= y
           /\ Min(S) \in S /\ \A y \in S : Min(S) <= y
<1>1. \E x \in S : \A y \in S : x =< y
  BY LeastPrice DEF Prices
<1>2. \E x \in S : \A y \in S : x >= y
  <2> DEFINE T == {MaxPrice - y : y \in S}
  <2>1. T \in SUBSET Nat /\ T # {}
    BY DEF Prices
  <2>2. PICK m \in T : \A y \in T : m <= y
    BY <2>1, LeastPrice
  <2>3. PICK x \in S : m = MaxPrice - x
    BY <2>2
  <2>4. \A y \in S : MaxPrice - y \in T
    OBVIOUS
  <2>5. \A y \in S : m <= MaxPrice - y
    BY <2>2, <2>4
  <2> QED
    BY <2>3, <2>5 DEF Prices
<1> QED
  BY <1>1, <1>2 DEF Max, Min

-----------------------------------------------------------------------------
(* The operations of a book.                                                *)

\* A side is empty when it has no order.
LEMMA SideIsEmpty ==
    /\ EmptySide \in Sides /\ DOMAIN EmptySide = {}
    /\ \A f \in Sides : f = EmptySide <=> DOMAIN f = {}
<1>1. DOMAIN EmptySide = {} /\ EmptySide \in Sides
  BY SideTypes DEF EmptySide
<1>2. ASSUME NEW f \in Sides, DOMAIN f = {} PROVE f = EmptySide
  BY <1>2, SideTypes DEF EmptySide
<1> QED
  BY <1>1, <1>2

\* Insert keeps the price of an order it knows, Upate replaces it, Delete takes the
\* order out; no other order is touched.
LEMMA SideOperations ==
    ASSUME NEW f \in Sides, NEW o \in Orders, NEW p \in Prices
    PROVE  /\ Insert(f, o, p) \in Sides /\ DOMAIN Insert(f, o, p) = DOMAIN f \cup {o}
           /\ \A x \in DOMAIN f : Insert(f, o, p)[x] = f[x]
           /\ o \notin DOMAIN f => Insert(f, o, p)[o] = p
           /\ Upate(f, o, p) \in Sides /\ DOMAIN Upate(f, o, p) = DOMAIN f \cup {o}
           /\ Upate(f, o, p)[o] = p
           /\ \A x \in DOMAIN f \ {o} : Upate(f, o, p)[x] = f[x]
           /\ Delete(f, o) \in Sides /\ DOMAIN Delete(f, o) = DOMAIN f \ {o}
           /\ \A x \in DOMAIN f \ {o} : Delete(f, o)[x] = f[x]
<1>1. DOMAIN f \subseteq Orders /\ f \in [DOMAIN f -> Prices]
  BY SideTypes
<1>2. /\ Insert(f, o, p) \in Sides /\ DOMAIN Insert(f, o, p) = DOMAIN f \cup {o}
      /\ \A x \in DOMAIN f : Insert(f, o, p)[x] = f[x]
      /\ o \notin DOMAIN f => Insert(f, o, p)[o] = p
  BY <1>1, SideTypes DEF Insert
<1>3. /\ Upate(f, o, p) \in Sides /\ DOMAIN Upate(f, o, p) = DOMAIN f \cup {o}
      /\ Upate(f, o, p)[o] = p
      /\ \A x \in DOMAIN f \ {o} : Upate(f, o, p)[x] = f[x]
  BY <1>1, <1>2, SideTypes DEF Upate
<1>4. /\ Delete(f, o) \in Sides /\ DOMAIN Delete(f, o) = DOMAIN f \ {o}
      /\ \A x \in DOMAIN f \ {o} : Delete(f, o)[x] = f[x]
  BY <1>1, SideTypes DEF Delete, Restrict
<1> QED
  BY <1>2, <1>3, <1>4

\* The quotes of a book: zero or a price at first, the best price when a side has
\* orders.
QuotesOf(b) ==
    /\ b.buy # EmptySide => b.MAXBID = Max(Range(b.buy))
    /\ b.sell # EmptySide => b.MINASK = Min(Range(b.sell))

\* ReturnPrice sets the quotes and leaves the sides alone.
LEMMA Quotes ==
    ASSUME NEW b \in Books
    PROVE  /\ ReturnPrice(b) \in Books /\ QuotesOf(ReturnPrice(b))
           /\ ReturnPrice(b).buy = b.buy /\ ReturnPrice(b).sell = b.sell
<1>1. b.buy \in Sides /\ b.sell \in Sides
  BY DEF Books
<1>2. ASSUME NEW f \in Sides, f # EmptySide
      PROVE  Max(Range(f)) \in Prices /\ Min(Range(f)) \in Prices
  <2>1. Range(f) \subseteq Prices /\ Range(f) # {}
    BY <1>2, SideTypes, SideIsEmpty DEF Range
  <2> QED
    BY <2>1, BestPrices
<1> QED
  BY <1>1, <1>2 DEF ReturnPrice, Books, QuotesOf

\* A trade takes an order out of each side.
LEMMA ApplyTrade ==
    ASSUME NEW b \in Books, NEW m \in Messages, m.type = "T"
    PROVE  /\ Apply(b, m) \in Books /\ QuotesOf(Apply(b, m))
           /\ Apply(b, m).buy = Delete(b.buy, m.buyer)
           /\ Apply(b, m).sell = Delete(b.sell, m.seller)
<1>1. m.buyer \in Orders /\ m.seller \in Orders
  BY DEF Messages
<1>3. \A f \in Sides, o \in Orders : Delete(f, o) \in Sides
  BY SideTypes DEF Delete, Restrict
<1>2. [b EXCEPT !.buy = Delete(b.buy, m.buyer), !.sell = Delete(b.sell, m.seller)] \in Books
  BY <1>1, <1>3 DEF Books
<1> QED
  BY <1>2, Quotes DEF Apply, TrdMsg, Books

\* An order message changes one side of the book, by one order.
LEMMA ApplyOrder ==
    ASSUME NEW b \in Books, NEW m \in Messages, m.type # "T"
    PROVE  LET f == b[m.side]
               g == CASE m.type = "N" -> Insert(f, m.order, m.price)
                      [] m.type = "M" -> Upate(f, m.order, m.price)
                      [] m.type = "X" -> Delete(f, m.order)
           IN  /\ m.side \in {"buy", "sell"} /\ f \in Sides /\ g \in Sides
               /\ Apply(b, m) \in Books /\ QuotesOf(Apply(b, m))
               /\ Apply(b, m).buy = IF m.side = "buy" THEN g ELSE b.buy
               /\ Apply(b, m).sell = IF m.side = "sell" THEN g ELSE b.sell
<1> DEFINE f == b[m.side]
           g == CASE m.type = "N" -> Insert(f, m.order, m.price)
                  [] m.type = "M" -> Upate(f, m.order, m.price)
                  [] m.type = "X" -> Delete(f, m.order)
<1>1. /\ m.type \in {"N", "M", "X"} /\ m.side \in {"buy", "sell"}
      /\ m.order \in Orders /\ m.price \in Prices
  BY DEF Messages
<1>2. f \in Sides
  BY <1>1 DEF Books
<1>3. g \in Sides
  BY <1>1, <1>2, SideOperations
<1>4. Apply(b, m) = ReturnPrice([b EXCEPT ![m.side] = g])
  BY DEF Apply, BidAsk
<1> HIDE DEF f, g
<1>5. CASE m.side = "buy"
  <2>1. /\ [b EXCEPT ![m.side] = g] \in Books /\ [b EXCEPT ![m.side] = g].buy = g
        /\ [b EXCEPT ![m.side] = g].sell = b.sell
    BY <1>3, <1>5 DEF Books
  <2> QED
    BY <1>1, <1>2, <1>3, <1>4, <1>5, <2>1, Quotes DEF f, g
<1>6. CASE m.side = "sell"
  <2>1. /\ [b EXCEPT ![m.side] = g] \in Books /\ [b EXCEPT ![m.side] = g].sell = g
        /\ [b EXCEPT ![m.side] = g].buy = b.buy
    BY <1>3, <1>6 DEF Books
  <2> QED
    BY <1>1, <1>2, <1>3, <1>4, <1>6, <2>1, Quotes DEF f, g
<1> QED
  BY <1>1, <1>5, <1>6

-----------------------------------------------------------------------------
(* Type correctness.                                                        *)

\* An empty server and an exchange without orders are well typed.
LEMMA FeedTypeInit == Init => TypeOK
<1> SUFFICES ASSUME Init PROVE TypeOK
  OBVIOUS
<1>1. [o \in {} |-> 0] \in ExchangeBooks
  BY ExchangeBookTypes
<1> QED
  BY <1>1 DEF Init, TypeOK

\* The exchange's book and messages as the properties use them.
LEMMA PastFacts ==
    ASSUME TypeOK
    PROVE  /\ Len(sent) \in Nat /\ DOMAIN sent = 1..Len(sent)
           /\ DOMAIN past = 1..(Len(sent) + 1) /\ Current = past[Len(sent) + 1]
           /\ \A k \in 1..Len(sent) : sent[k] \in Messages
           /\ \A k \in 1..(Len(sent) + 1) :
                 /\ past[k] \in ExchangeBooks /\ DOMAIN past[k] \subseteq Orders
                 /\ \A o \in DOMAIN past[k] : past[k][o] \in [price : Prices, touched : BOOLEAN]
<1>1. /\ Len(sent) \in Nat /\ DOMAIN sent = 1..Len(sent)
      /\ DOMAIN past = 1..(Len(sent) + 1) /\ Current = past[Len(sent) + 1]
      /\ \A k \in 1..Len(sent) : sent[k] \in Messages
      /\ \A k \in 1..(Len(sent) + 1) : past[k] \in ExchangeBooks
  BY DEF TypeOK, Current
<1> QED
  BY <1>1, ExchangeBookTypes

\* Entering, modifying, cancelling and trading give books again.
LEMMA ExchangeOperations ==
    ASSUME NEW book \in ExchangeBooks
    PROVE  /\ \A o \in Orders, p \in Prices : Entered(book, o, p) \in ExchangeBooks
           /\ \A o : Restrict(book, DOMAIN book \ {o}) \in ExchangeBooks
           /\ \A b, s : \A rest \in SUBSET (DOMAIN book) : Traded(book, b, s, rest) \in ExchangeBooks
<1>1. /\ DOMAIN book \subseteq Orders
      /\ \A o \in DOMAIN book : book[o] \in [price : Prices, touched : BOOLEAN]
  BY ExchangeBookTypes
<1>2. ASSUME NEW o \in Orders, NEW p \in Prices PROVE Entered(book, o, p) \in ExchangeBooks
  <2>1. [price |-> p, touched |-> FALSE] \in [price : Prices, touched : BOOLEAN]
    OBVIOUS
  <2>2. DOMAIN Entered(book, o, p) = DOMAIN book \cup {o}
    BY DEF Entered
  <2>3. \A x \in DOMAIN book \cup {o} :
          Entered(book, o, p)[x] \in [price : Prices, touched : BOOLEAN]
    BY <1>1, <2>1 DEF Entered
  <2>4. Entered(book, o, p) \in [DOMAIN book \cup {o} -> [price : Prices, touched : BOOLEAN]]
    BY <2>2, <2>3 DEF Entered
  <2> QED
    BY <1>1, <2>2, <2>4, ExchangeBookTypes
<1>3. \A o : Restrict(book, DOMAIN book \ {o}) \in ExchangeBooks
  BY <1>1, ExchangeBookTypes DEF Restrict
<1>4. ASSUME NEW b, NEW s, NEW rest \in SUBSET (DOMAIN book)
      PROVE  Traded(book, b, s, rest) \in ExchangeBooks
  <2>1. \A o \in DOMAIN book : [book[o] EXCEPT !.touched = TRUE] \in [price : Prices, touched : BOOLEAN]
    BY <1>1
  <2> QED
    BY <1>1, <2>1, ExchangeBookTypes DEF Traded
<1> QED
  BY <1>2, <1>3, <1>4

\* A message goes to the end of the log with the book after it.
LEMMA EmitTypes ==
    ASSUME TypeOK, NEW m \in Messages, NEW book \in ExchangeBooks, Emit(m, book)
    PROVE  /\ TypeOK' /\ Len(sent') = Len(sent) + 1 /\ DOMAIN sent' = 1..(Len(sent) + 1)
           /\ \A k \in 1..Len(sent) : sent'[k] = sent[k]
           /\ \A k \in 1..(Len(sent) + 1) : past'[k] = past[k]
           /\ sent'[Len(sent) + 1] = m /\ past'[Len(sent) + 2] = book
           /\ UNCHANGED <<LastSeq, up, todo, subpc, map, since>>
<1>1. /\ sent' \in Seq(Messages) /\ past' \in Seq(ExchangeBooks)
      /\ Len(sent') = Len(sent) + 1 /\ DOMAIN sent' = 1..(Len(sent) + 1)
      /\ Len(past') = Len(sent') + 1
      /\ \A k \in 1..Len(sent) : sent'[k] = sent[k]
      /\ \A k \in 1..(Len(sent) + 1) : past'[k] = past[k]
      /\ sent'[Len(sent) + 1] = m /\ past'[Len(sent) + 2] = book
  BY DEF TypeOK, Emit
<1>2. UNCHANGED <<LastSeq, up, todo, subpc, map, since>>
  BY DEF Emit, streamVars, subVars
<1>3. LastSeq' \in 0..Len(sent')
  BY <1>1, <1>2 DEF TypeOK
<1> QED
  BY <1>1, <1>2, <1>3 DEF TypeOK

\* Every message the exchange emits is labelled with its token and side, and
\* explains the change of the book.
LEMMA ExchangeEmits ==
    ASSUME TypeOK, Exchange
    PROVE  \E m \in Messages, book \in ExchangeBooks :
              Emit(m, book) /\ Explains(Current, m, book) /\ Labelled(m)
<1>1. Current \in ExchangeBooks /\ DOMAIN Current \subseteq Orders
  BY PastFacts
<1>2. ASSUME NEW o \in Orders, NEW p \in Prices, NewOrder(o, p)
      PROVE  \E m \in Messages, book \in ExchangeBooks :
               Emit(m, book) /\ Explains(Current, m, book) /\ Labelled(m)
  <2> DEFINE m == OrderMsg("N", o, p)
  <2>1. m \in Messages /\ Labelled(m) /\ m.type = "N" /\ m.order = o /\ m.price = p
    BY DEF OrderMsg, Messages, Labelled
  <2>2. o \notin DOMAIN Current
    <3>1. Len(sent) + 1 \in DOMAIN past /\ Current = past[Len(sent) + 1]
      BY PastFacts
    <3> QED
      BY <1>2, <3>1 DEF NewOrder, Unused
  <2> QED
    BY <1>1, <1>2, <2>1, <2>2, ExchangeOperations DEF NewOrder, Explains
<1>3. ASSUME NEW o \in Orders, NEW p \in Prices, ModifyOrder(o, p)
      PROVE  \E m \in Messages, book \in ExchangeBooks :
               Emit(m, book) /\ Explains(Current, m, book) /\ Labelled(m)
  <2> DEFINE m == OrderMsg("M", o, p)
  <2>1. m \in Messages /\ Labelled(m) /\ m.type = "M" /\ m.order = o /\ m.price = p
    BY DEF OrderMsg, Messages, Labelled
  <2> QED
    BY <1>1, <1>3, <2>1, ExchangeOperations DEF ModifyOrder, Explains
<1>4. ASSUME NEW o \in Orders, CancelOrder(o)
      PROVE  \E m \in Messages, book \in ExchangeBooks :
               Emit(m, book) /\ Explains(Current, m, book) /\ Labelled(m)
  <2> DEFINE m == OrderMsg("X", o, Current[o].price)
  <2>1. Current[o].price \in Prices
    BY <1>1, <1>4, ExchangeBookTypes DEF CancelOrder
  <2>2. m \in Messages /\ Labelled(m) /\ m.type = "X" /\ m.order = o
    BY <2>1 DEF OrderMsg, Messages, Labelled
  <2> QED
    BY <1>1, <1>4, <2>2, ExchangeOperations DEF CancelOrder, Explains
<1>5. ASSUME NEW b \in Orders, NEW s \in Orders, NEW rest \in SUBSET Orders, TradeOrders(b, s, rest)
      PROVE  \E m \in Messages, book \in ExchangeBooks :
               Emit(m, book) /\ Explains(Current, m, book) /\ Labelled(m)
  <2> DEFINE m == TradeMsg(b, s)
  <2>1. m \in Messages /\ Labelled(m) /\ m.type = "T" /\ m.buyer = b /\ m.seller = s
    BY <1>5 DEF TradeMsg, Messages, Labelled, TradeOrders
  <2>2. {b, s} \subseteq DOMAIN Current /\ rest \in SUBSET {b, s}
    BY <1>5 DEF TradeOrders
  <2> QED
    BY <1>1, <1>5, <2>1, <2>2, ExchangeOperations DEF TradeOrders, Explains
<1> QED
  BY <1>2, <1>3, <1>4, <1>5 DEF Exchange

\* A step of the subscription thread keeps the types.
LEMMA TypeSubscription ==
    ASSUME TypeOK, Subscription
    PROVE  TypeOK'
<1> USE DEF TypeOK, exchangeVars, streamVars, subVars
<1>1. ASSUME NEW r \in Pairs, RecvPair(r) PROVE TypeOK'
  BY <1>1 DEF RecvPair
<1>2. CASE FindToken
  <2>1. todo \in Seq(Tokens) /\ todo # <<>>
    BY <1>2 DEF FindToken
  <2>2. CASE Head(todo) \in DOMAIN map
    <3>1. todo' = Tail(todo) /\ subpc' = "recv"
      BY <1>2, <2>2 DEF FindToken
    <3>2. todo' \in Seq(Tokens)
      BY <2>1, <3>1
    <3> QED
      BY <1>2, <3>1, <3>2 DEF FindToken
  <2>3. CASE Head(todo) \notin DOMAIN map
    BY <1>2, <2>1, <2>3 DEF FindToken
  <2> QED
    BY <2>2, <2>3
<1>3. CASE LinkToken
  BY <1>3 DEF LinkToken
<1>4. CASE StoreBook
  <2>1. todo # <<>> /\ Head(todo) \in Tokens /\ Tail(todo) \in Seq(Tokens)
    BY <1>4 DEF StoreBook
  <2>2. EmptyBook \in Books
    BY SideIsEmpty DEF EmptyBook, Books
  <2>3. DOMAIN map' \subseteq Tokens /\ map' \in [DOMAIN map' -> Books]
    BY <1>4, <2>1, <2>2 DEF StoreBook
  <2>4. since' \in [Tokens -> {"lost", "part", "whole"}]
    BY <1>4 DEF StoreBook, Joined
  <2> QED
    BY <1>4, <2>1, <2>3, <2>4 DEF StoreBook
<1> QED
  BY <1>1, <1>2, <1>3, <1>4 DEF Subscription

\* A datagram keeps the types.
LEMMA TypeStream ==
    ASSUME TypeOK, Stream
    PROVE  TypeOK'
<1> USE DEF TypeOK, exchangeVars, streamVars, subVars
<1> PICK k \in 1..MaxSeq : OutOfSequence(k) \/ Process(k) \/ Overlook(k) \/ NullBook(k)
  BY DEF Stream
<1>1. k \in 1..Len(sent) /\ LastSeq' = k /\ sent' = sent /\ past' = past
  BY DEF OutOfSequence, Process, Overlook, NullBook, InSequence, Arrives
<1>2. sent[k] \in Messages /\ sent[k].token \in Tokens
  BY <1>1, PastFacts DEF Messages
<1>3. CASE OutOfSequence(k)
  <2>1. since' \in [Tokens -> {"lost", "part", "whole"}]
    BY <1>3 DEF OutOfSequence, Joined
  <2> QED
    BY <1>1, <1>3, <2>1 DEF OutOfSequence, Arrives
<1>4. CASE Process(k)
  <2>1. Apply(map[sent[k].token], sent[k]) \in Books
    BY <1>2, <1>4, ApplyTrade, ApplyOrder DEF Process
  <2>2. DOMAIN map' = DOMAIN map /\ map' \in [DOMAIN map' -> Books]
    BY <1>4, <2>1 DEF Process
  <2> QED
    BY <1>1, <1>4, <2>2 DEF Process
<1>5. CASE Overlook(k)
  <2>1. since' = [since EXCEPT ![sent[k].token] = "lost"]
    BY <1>5 DEF Overlook
  <2>2. since' \in [Tokens -> {"lost", "part", "whole"}]
    BY <2>1
  <2>3. UNCHANGED <<up, map, todo, subpc>>
    BY <1>5 DEF Overlook
  <2> QED
    BY <1>1, <2>2, <2>3
<1>6. CASE NullBook(k)
  <2>1. up' \in BOOLEAN
    BY <1>6, Zenon DEF NullBook
  <2>2. UNCHANGED <<map, since, todo, subpc>>
    BY <1>6 DEF NullBook
  <2> QED
    BY <1>1, <2>1, <2>2
<1> QED
  BY <1>3, <1>4, <1>5, <1>6

\* Type correctness of the depth server: the books hold orders at prices, the
\* quotes are prices or zero, and the stream thread's number was really sent.
THEOREM FeedTypeCorrect == Spec => []TypeOK
<1>1. TypeOK /\ [Next]_vars => TypeOK'
  <2> SUFFICES ASSUME TypeOK, [Next]_vars PROVE TypeOK'
    OBVIOUS
  <2>1. CASE Exchange
    BY <2>1, ExchangeEmits, EmitTypes
  <2>2. CASE Subscription
    BY <2>2, TypeSubscription
  <2>3. CASE Stream
    BY <2>3, TypeStream
  <2>4. CASE UNCHANGED vars
    BY <2>4 DEF vars, exchangeVars, streamVars, subVars, TypeOK
  <2> QED
    BY <2>1, <2>2, <2>3, <2>4 DEF Next
<1> QED
  BY <1>1, FeedTypeInit, PTL DEF Spec

-----------------------------------------------------------------------------
(* The books against the exchange: BookFollowsExchange and QuoteIsReal, by *)
(* way of FeedInv.                                                          *)

\* Untouched and FollowsExchange, of a book of the exchange and a side of a token.
UntouchedIn(book, t, s) ==
    {o \in DOMAIN book : TokenOf[o] = t /\ SideOf[o] = s /\ ~book[o].touched}

Agrees(side, book, t, s, what) ==
    what # "lost" =>
        /\ DOMAIN side \subseteq UntouchedIn(book, t, s)
        /\ \A o \in DOMAIN side : side[o] = book[o].price
        /\ what = "whole" => DOMAIN side = UntouchedIn(book, t, s)

\* The two ways to say it are the same, in this state and in the next.
LEMMA AgreesFollows ==
    /\ \A t, s : FollowsExchange(t, s) <=> Agrees(map[t][s], past[LastSeq + 1], t, s, since[t])
    /\ \A t, s : FollowsExchange(t, s)'
                  <=> Agrees(map'[t][s], past'[LastSeq' + 1], t, s, since'[t])
<1>1. \A k, t, s : Untouched(k, t, s) = UntouchedIn(past[k + 1], t, s)
  BY DEF Untouched, UntouchedIn, Live, AsOf
<1>2. \A k, t, s : Untouched(k, t, s)' = UntouchedIn(past'[k' + 1], t', s')
  BY DEF Untouched, UntouchedIn, Live, AsOf
<1> QED
  BY <1>1, <1>2 DEF FollowsExchange, Agrees, AsOf

-----------------------------------------------------------------------------
(* One message.                                                             *)

\* The orders a message is about.
Named(m) == IF m.type = "T" THEN {m.buyer, m.seller} ELSE {m.order}

\* What a message does to the exchange's book: an order is entered or modified, it
\* is gone, it is touched, or it stays as it was.
Effect(m, old, new) ==
    /\ \A o : o \notin Named(m) => (o \in DOMAIN new <=> o \in DOMAIN old)
    /\ \A o \in DOMAIN old \ Named(m) : new[o] = old[o]
    /\ m.type = "N" => m.order \notin DOMAIN old
    /\ m.type \in {"N", "M"} =>
         m.order \in DOMAIN new /\ new[m.order] = [price |-> m.price, touched |-> FALSE]
    /\ m.type = "X" => m.order \notin DOMAIN new
    /\ m.type = "T" => \A o \in Named(m) : o \in DOMAIN new => new[o].touched

\* A message that explains the change of the exchange's book has that effect.
LEMMA MessageEffect ==
    ASSUME NEW m \in Messages, NEW old \in ExchangeBooks, NEW new, Explains(old, m, new)
    PROVE  Effect(m, old, new)
<1>1. \A x \in DOMAIN old : old[x] \in [price : Prices, touched : BOOLEAN]
  BY ExchangeBookTypes
<1>2. CASE m.type \in {"N", "M"} /\ new = Entered(old, m.order, m.price)
  <2>1. /\ DOMAIN new = DOMAIN old \cup {m.order}
        /\ new[m.order] = [price |-> m.price, touched |-> FALSE]
        /\ \A x \in DOMAIN old \ {m.order} : new[x] = old[x]
    BY <1>2 DEF Entered
  <2>2. m.type = "N" => m.order \notin DOMAIN old
    BY DEF Explains
  <2> QED
    BY <1>2, <2>1, <2>2 DEF Named, Effect
<1>3. CASE m.type = "X" /\ new = Restrict(old, DOMAIN old \ {m.order})
  <2>1. DOMAIN new = DOMAIN old \ {m.order} /\ \A x \in DOMAIN new : new[x] = old[x]
    BY <1>3 DEF Restrict
  <2> QED
    BY <1>3, <2>1 DEF Named, Effect
<1>4. CASE /\ m.type = "T" /\ {m.buyer, m.seller} \subseteq DOMAIN old
           /\ \E rest \in SUBSET {m.buyer, m.seller} : new = Traded(old, m.buyer, m.seller, rest)
  <2>1. PICK rest \in SUBSET {m.buyer, m.seller} : new = Traded(old, m.buyer, m.seller, rest)
    BY <1>4
  <2>2. /\ DOMAIN new = (DOMAIN old \ {m.buyer, m.seller}) \cup rest
        /\ \A x \in DOMAIN new \ rest : new[x] = old[x]
        /\ \A x \in rest : new[x] = [old[x] EXCEPT !.touched = TRUE]
    BY <2>1 DEF Traded
  <2>3. \A x \in rest : new[x].touched
    BY <1>1, <1>4, <2>2
  <2> QED
    BY <1>4, <2>2, <2>3 DEF Named, Effect
<1> QED
  BY <1>2, <1>3, <1>4 DEF Explains

\* A message leaves a book in step if it is about another token.
LEMMA OtherToken ==
    ASSUME NEW m \in Messages, Labelled(m), NEW old \in ExchangeBooks, NEW new,
           Explains(old, m, new), NEW t, t # m.token, NEW s, NEW side, NEW what,
           Agrees(side, old, t, s, what)
    PROVE  Agrees(side, new, t, s, what)
<1>1. \A o : TokenOf[o] = t => o \notin Named(m)
  BY DEF Named, Labelled
<1>2. Effect(m, old, new)
  BY MessageEffect
<1>3. \A o \in UntouchedIn(old, t, s) : new[o] = old[o]
  BY <1>1, <1>2 DEF UntouchedIn, Effect
<1>4. UntouchedIn(new, t, s) = UntouchedIn(old, t, s)
  BY <1>1, <1>2 DEF UntouchedIn, Effect
<1> QED
  BY <1>3, <1>4 DEF Agrees

\* A message leaves a book in step if it is applied to it.
LEMMA OwnToken ==
    ASSUME NEW m \in Messages, Labelled(m), NEW old \in ExchangeBooks, NEW new,
           Explains(old, m, new), NEW b \in Books, NEW s \in {"buy", "sell"}, NEW what,
           Agrees(b[s], old, m.token, s, what)
    PROVE  Agrees(Apply(b, m)[s], new, m.token, s, what)
<1>1. b[s] \in Sides /\ Effect(m, old, new)
  BY MessageEffect DEF Books
<1>2. CASE m.type = "T"
  <2>1. /\ SideOf[m.buyer] = "buy" /\ SideOf[m.seller] = "sell" /\ Named(m) = {m.buyer, m.seller}
    BY <1>2 DEF Labelled, Named
  <2>2. PICK o : o = IF s = "buy" THEN m.buyer ELSE m.seller
    OBVIOUS
  <2>3. o \in Orders /\ Apply(b, m)[s] = Delete(b[s], o)
    BY <1>2, <2>2, ApplyTrade DEF Messages
  <2>4. /\ DOMAIN Delete(b[s], o) = DOMAIN b[s] \ {o}
        /\ \A x \in DOMAIN b[s] \ {o} : Delete(b[s], o)[x] = b[s][x]
    BY DEF Delete, Restrict
  <2>5. /\ UntouchedIn(new, m.token, s) = UntouchedIn(old, m.token, s) \ {o}
        /\ \A x \in UntouchedIn(old, m.token, s) \ {o} : new[x] = old[x]
    <3>1. \A x : SideOf[x] = s /\ x # o => x \notin Named(m)
      BY <2>1, <2>2
    <3>2. o \in DOMAIN new => new[o].touched
      BY <1>1, <1>2, <2>1, <2>2 DEF Effect
    <3> QED
      BY <1>1, <3>1, <3>2 DEF UntouchedIn, Effect
  <2> QED
    BY <2>3, <2>4, <2>5 DEF Agrees
<1>3. CASE m.type # "T"
  <2>1. /\ m.type \in {"N", "M", "X"} /\ m.side \in {"buy", "sell"}
        /\ m.order \in Orders /\ m.price \in Prices
        /\ SideOf[m.order] = m.side /\ TokenOf[m.order] = m.token /\ Named(m) = {m.order}
    BY <1>3 DEF Messages, Labelled, Named
  <2>2. /\ \A x : x # m.order => (x \in DOMAIN new <=> x \in DOMAIN old)
        /\ \A x \in DOMAIN old \ {m.order} : new[x] = old[x]
    BY <1>1, <2>1 DEF Effect
  <2>3. \A x \in UntouchedIn(old, m.token, s) \ {m.order} : new[x] = old[x]
    BY <2>2 DEF UntouchedIn
  <2>4. CASE s # m.side
    <3>1. Apply(b, m)[s] = b[s]
      BY <1>3, <2>1, <2>4, ApplyOrder
    <3>2. m.order \notin UntouchedIn(old, m.token, s) /\ m.order \notin UntouchedIn(new, m.token, s)
      BY <2>1, <2>4 DEF UntouchedIn
    <3>3. UntouchedIn(new, m.token, s) = UntouchedIn(old, m.token, s)
      BY <2>1, <2>2, <2>4 DEF UntouchedIn
    <3> QED
      BY <2>3, <3>1, <3>2, <3>3 DEF Agrees
  <2>5. CASE s = m.side
    <3>1. CASE m.type \in {"N", "M"}
      <4>1. /\ m.type = "N" => Apply(b, m)[s] = Insert(b[s], m.order, m.price)
            /\ m.type = "M" => Apply(b, m)[s] = Upate(b[s], m.order, m.price)
        BY <1>3, <2>1, <2>5, <3>1, ApplyOrder
      <4>2. UntouchedIn(new, m.token, s) = UntouchedIn(old, m.token, s) \cup {m.order}
        BY <1>1, <2>1, <2>2, <2>5, <3>1 DEF UntouchedIn, Effect
      <4>3. new[m.order].price = m.price
        BY <1>1, <3>1 DEF Effect
      <4>4. what # "lost" /\ m.type = "N" => m.order \notin DOMAIN b[s]
        BY <1>1 DEF Agrees, UntouchedIn, Effect
      <4>5. what # "lost" => /\ DOMAIN Apply(b, m)[s] = DOMAIN b[s] \cup {m.order}
                             /\ Apply(b, m)[s][m.order] = m.price
                             /\ \A x \in DOMAIN b[s] \ {m.order} : Apply(b, m)[s][x] = b[s][x]
        <5>1. CASE m.type = "N"
          <6>1. /\ DOMAIN Insert(b[s], m.order, m.price) = DOMAIN b[s] \cup {m.order}
                /\ \A x \in DOMAIN b[s] : Insert(b[s], m.order, m.price)[x] = b[s][x]
                /\ m.order \notin DOMAIN b[s] => Insert(b[s], m.order, m.price)[m.order] = m.price
            BY <1>1, SideTypes DEF Insert
          <6> QED
            BY <4>1, <4>4, <5>1, <6>1
        <5>2. CASE m.type = "M"
          <6>1. /\ DOMAIN Upate(b[s], m.order, m.price) = DOMAIN b[s] \cup {m.order}
                /\ Upate(b[s], m.order, m.price)[m.order] = m.price
                /\ \A x \in DOMAIN b[s] \ {m.order} : Upate(b[s], m.order, m.price)[x] = b[s][x]
            BY <1>1, SideTypes DEF Upate, Insert
          <6> QED
            BY <4>1, <5>2, <6>1
        <5> QED
          BY <3>1, <5>1, <5>2
      <4>6. CASE what = "lost"
        BY <4>6 DEF Agrees
      <4>7. CASE what # "lost"
        BY <2>3, <4>2, <4>3, <4>5, <4>7 DEF Agrees
      <4> QED
        BY <4>6, <4>7
    <3>2. CASE m.type = "X"
      <4>1. Apply(b, m)[s] = Delete(b[s], m.order)
        BY <1>3, <2>1, <2>5, <3>2, ApplyOrder
      <4>2. UntouchedIn(new, m.token, s) = UntouchedIn(old, m.token, s) \ {m.order}
        BY <1>1, <2>1, <2>2, <3>2 DEF UntouchedIn, Effect
      <4>3. /\ DOMAIN Delete(b[s], m.order) = DOMAIN b[s] \ {m.order}
            /\ \A x \in DOMAIN b[s] \ {m.order} : Delete(b[s], m.order)[x] = b[s][x]
        BY DEF Delete, Restrict
      <4> QED
        BY <2>3, <4>1, <4>2, <4>3 DEF Agrees
    <3> QED
      BY <2>1, <3>1, <3>2
  <2> QED
    BY <2>4, <2>5
<1> QED
  BY <1>2, <1>3

-----------------------------------------------------------------------------
(* Steps.                                                                   *)

\* At the start there is no message and no book.
LEMMA FeedInit == Init => FeedInv
  BY DEF Init, FeedInv, MessagesExplain, NewIsUnlinked, BookFollowsExchange, QuotesAreBest

\* The exchange goes on; what was true of the messages read so far stays true.
LEMMA FeedExchange ==
    ASSUME TypeOK, FeedInv, Exchange
    PROVE  FeedInv'
<1>1. PICK m \in Messages, book \in ExchangeBooks :
        Emit(m, book) /\ Explains(Current, m, book) /\ Labelled(m)
  BY ExchangeEmits
<1>2. /\ Len(sent) \in Nat /\ DOMAIN sent = 1..Len(sent) /\ DOMAIN sent' = 1..(Len(sent) + 1)
      /\ \A k \in 1..Len(sent) : sent'[k] = sent[k]
      /\ \A k \in 1..(Len(sent) + 1) : past'[k] = past[k]
      /\ sent'[Len(sent) + 1] = m /\ past'[Len(sent) + 2] = book
      /\ UNCHANGED <<LastSeq, up, todo, subpc, map, since>>
      /\ Current = past[Len(sent) + 1] /\ LastSeq \in 0..Len(sent)
  BY <1>1, EmitTypes, PastFacts DEF TypeOK
<1>3. MessagesExplain'
  <2> SUFFICES ASSUME NEW k \in 1..(Len(sent) + 1)
               PROVE  Explains(past'[k], sent'[k], past'[k + 1]) /\ Labelled(sent'[k])
    BY <1>2 DEF MessagesExplain, Explains, Labelled, Entered, Traded
  <2>1. CASE k \in 1..Len(sent)
    <3>1. k \in 1..(Len(sent) + 1) /\ k + 1 \in 1..(Len(sent) + 1)
      BY <1>2, <2>1
    <3> QED
      BY <1>2, <2>1, <3>1 DEF FeedInv, MessagesExplain
  <2>2. CASE k = Len(sent) + 1
    <3>1. k + 1 = Len(sent) + 2 /\ past'[k] = Current
      BY <1>2, <2>2
    <3> QED
      BY <1>1, <1>2, <2>2, <3>1
  <2> QED
    BY <1>2, <2>1, <2>2
<1>4. past'[LastSeq + 1] = past[LastSeq + 1]
  BY <1>2
<1>5. ASSUME NEW t \in DOMAIN map, NEW s \in {"buy", "sell"}
      PROVE  FollowsExchange(t, s)'
  <2>1. FollowsExchange(t, s)
    BY <1>5 DEF FeedInv, BookFollowsExchange
  <2> QED
    BY <1>2, <1>4, <2>1 DEF FollowsExchange, Untouched, Live, AsOf
<1>6. BookFollowsExchange'
  BY <1>2, <1>5 DEF BookFollowsExchange
<1>7. NewIsUnlinked' /\ QuotesAreBest'
  BY <1>2 DEF FeedInv, NewIsUnlinked, QuotesAreBest
<1> QED
  BY <1>3, <1>6, <1>7 DEF FeedInv

\* A subscription adds an empty book, which knows all of its token if the exchange
\* has no order of it.
LEMMA FeedSubscription ==
    ASSUME TypeOK, FeedInv, Subscription
    PROVE  FeedInv'
<1>1. UNCHANGED <<sent, past, LastSeq>>
  BY DEF Subscription, RecvPair, FindToken, LinkToken, StoreBook, exchangeVars, streamVars
<1>2. MessagesExplain'
  BY <1>1 DEF FeedInv, MessagesExplain
<1>3. CASE UNCHANGED <<map, since>> /\ NewIsUnlinked'
  BY <1>1, <1>2, <1>3 DEF FeedInv, BookFollowsExchange, FollowsExchange, Untouched, Live, AsOf,
                          QuotesAreBest
<1>4. ASSUME NEW r \in Pairs, RecvPair(r) PROVE FeedInv'
  BY <1>3, <1>4 DEF RecvPair, NewIsUnlinked
<1>5. CASE FindToken
  BY <1>3, <1>5 DEF FindToken, NewIsUnlinked
<1>6. CASE LinkToken
  BY <1>3, <1>6 DEF LinkToken, NewIsUnlinked, FeedInv
<1>7. CASE StoreBook
  <2> PICK u : u = Head(todo)
    OBVIOUS
  <2>1. /\ u \in Tokens /\ DOMAIN map' = DOMAIN map \cup {u} /\ subpc' = "recv"
        /\ map'[u] = EmptyBook /\ since'[u] = Joined(LastSeq, u)
        /\ \A t \in DOMAIN map \ {u} : map'[t] = map[t] /\ since'[t] = since[t]
    BY <1>7 DEF StoreBook, TypeOK
  <2>2. ASSUME NEW t \in DOMAIN map \ {u}, NEW s \in {"buy", "sell"} PROVE FollowsExchange(t, s)'
    <3>1. FollowsExchange(t, s)
      BY DEF FeedInv, BookFollowsExchange
    <3> QED
      BY <1>1, <2>1, <3>1 DEF FollowsExchange, Untouched, Live, AsOf
  <2>3. ASSUME NEW s \in {"buy", "sell"} PROVE FollowsExchange(u, s)'
    <3>1. map'[u][s] = EmptySide /\ DOMAIN EmptySide = {}
      BY <2>1, SideIsEmpty DEF EmptyBook
    <3>2. since'[u] = "whole" => Untouched(LastSeq, u, s) = {}
      BY <2>1 DEF Joined, Untouched
    <3>3. Untouched(LastSeq, u, s)' = Untouched(LastSeq, u, s)
      BY <1>1 DEF Untouched, Live, AsOf
    <3> QED
      BY <3>1, <3>2, <3>3 DEF FollowsExchange
  <2>4. BookFollowsExchange'
    BY <2>1, <2>2, <2>3 DEF BookFollowsExchange
  <2>5. QuotesAreBest'
    BY <2>1 DEF FeedInv, QuotesAreBest, EmptyBook
  <2> QED
    BY <1>2, <2>1, <2>4, <2>5 DEF FeedInv, NewIsUnlinked
<1> QED
  BY <1>4, <1>5, <1>6, <1>7 DEF Subscription

\* A datagram: after a gap only an empty book can be in step, by coming to know all
\* of its token again; a message in sequence is applied or the token is lost.
LEMMA FeedStream ==
    ASSUME TypeOK, FeedInv, Stream
    PROVE  FeedInv'
<1> PICK k \in 1..MaxSeq : OutOfSequence(k) \/ Process(k) \/ Overlook(k) \/ NullBook(k)
  BY DEF Stream
<1>1. /\ k \in 1..Len(sent) /\ LastSeq' = k /\ sent' = sent /\ past' = past
      /\ UNCHANGED <<todo, subpc>> /\ DOMAIN map' = DOMAIN map
  BY DEF OutOfSequence, Process, Overlook, NullBook, InSequence, Arrives, exchangeVars, subVars
<1>2. MessagesExplain' /\ NewIsUnlinked'
  BY <1>1 DEF FeedInv, MessagesExplain, NewIsUnlinked
<1>3. CASE OutOfSequence(k)
  <2>1. map' = map /\ \A t \in DOMAIN map :
          \/ since'[t] = "lost"
          \/ /\ since'[t] = Joined(k, t)
             /\ map[t].buy = EmptySide /\ map[t].sell = EmptySide
    BY <1>3 DEF OutOfSequence, TypeOK
  <2>2. ASSUME NEW t \in DOMAIN map, NEW s \in {"buy", "sell"} PROVE FollowsExchange(t, s)'
    <3>1. CASE since'[t] = "lost"
      BY <3>1 DEF FollowsExchange
    <3>2. CASE since'[t] = Joined(k, t) /\ map[t].buy = EmptySide /\ map[t].sell = EmptySide
      <4>1. DOMAIN map'[t][s] = {}
        BY <2>1, <3>2, SideIsEmpty
      <4>2. since'[t] = "whole" => Untouched(k, t, s) = {}
        BY <3>2 DEF Joined, Untouched
      <4>3. Untouched(LastSeq, t, s)' = Untouched(k, t, s)
        BY <1>1 DEF Untouched, Live, AsOf
      <4> QED
        BY <4>1, <4>2, <4>3 DEF FollowsExchange
    <3> QED
      BY <2>1, <3>1, <3>2
  <2> QED
    BY <1>2, <2>1, <2>2 DEF FeedInv, BookFollowsExchange, QuotesAreBest
<1>4. CASE InSequence(k)
  <2>1. /\ LastSeq \in Nat /\ k = LastSeq + 1 /\ sent[k] \in Messages /\ Labelled(sent[k])
        /\ past[LastSeq + 1] \in ExchangeBooks
        /\ Explains(past[LastSeq + 1], sent[k], past[k + 1])
    BY <1>1, <1>4, PastFacts DEF InSequence, FeedInv, MessagesExplain, TypeOK
  <2> PICK u : u = sent[k].token
    OBVIOUS
  <2>2. ASSUME NEW t \in DOMAIN map, t # u, map'[t] = map[t], since'[t] = since[t],
               NEW s \in {"buy", "sell"}
        PROVE  FollowsExchange(t, s)'
    <3>1. Agrees(map[t][s], past[LastSeq + 1], t, s, since[t])
      BY AgreesFollows DEF FeedInv, BookFollowsExchange
    <3>2. Agrees(map[t][s], past[k + 1], t, s, since[t])
      BY <2>1, <2>2, <3>1, OtherToken
    <3> QED
      BY <1>1, <2>2, <3>2, AgreesFollows
  <2>3. CASE Process(k)
    <3>1. /\ u \in DOMAIN map /\ map[u] \in Books /\ map'[u] = Apply(map[u], sent[k])
          /\ since' = since /\ \A t \in DOMAIN map \ {u} : map'[t] = map[t]
      BY <2>3 DEF Process, TypeOK
    <3>2. ASSUME NEW s \in {"buy", "sell"} PROVE FollowsExchange(u, s)'
      <4>1. Agrees(map[u][s], past[LastSeq + 1], u, s, since[u])
        BY <3>1, AgreesFollows DEF FeedInv, BookFollowsExchange
      <4>2. Agrees(Apply(map[u], sent[k])[s], past[k + 1], u, s, since[u])
        <5> PICK b \in Books : b = map[u]
          BY <3>1
        <5> PICK m \in Messages : m = sent[k]
          BY <2>1
        <5> PICK old \in ExchangeBooks : old = past[LastSeq + 1]
          BY <2>1
        <5> PICK new, what : new = past[k + 1] /\ what = since[u]
          OBVIOUS
        <5>1. Agrees(b[s], old, m.token, s, what)
          BY <4>1
        <5>2. Labelled(m) /\ Explains(old, m, new)
          BY <2>1
        <5>3. Agrees(Apply(b, m)[s], new, m.token, s, what)
          BY ONLY <3>2, <5>1, <5>2, OwnToken
        <5> QED
          BY <5>3
      <4> QED
        BY <1>1, <3>1, <4>2, AgreesFollows
    <3>3. BookFollowsExchange'
      BY <1>1, <2>2, <3>1, <3>2 DEF BookFollowsExchange
    <3>4. QuotesOf(map'[u])
      BY <2>1, <3>1, ApplyTrade, ApplyOrder
    <3>5. QuotesAreBest'
      BY <1>1, <3>1, <3>4 DEF QuotesAreBest, QuotesOf, FeedInv
    <3> QED
      BY <1>2, <3>3, <3>5 DEF FeedInv
  <2>4. CASE Overlook(k)
    <3>1. map' = map /\ since' = [since EXCEPT ![u] = "lost"]
      BY <2>4 DEF Overlook
    <3>2. \A t \in DOMAIN map : since'[t] = IF t = u THEN "lost" ELSE since[t]
      BY <3>1 DEF TypeOK
    <3>3. \A s : u \in DOMAIN map => FollowsExchange(u, s)'
      BY <3>2 DEF FollowsExchange
    <3>4. BookFollowsExchange'
      BY <1>1, <2>2, <3>1, <3>2, <3>3 DEF BookFollowsExchange
    <3> QED
      BY <1>2, <3>1, <3>4 DEF FeedInv, QuotesAreBest
  <2>5. CASE NullBook(k)
    <3>1. map' = map /\ since' = since /\ u \notin DOMAIN map
      BY <2>5 DEF NullBook, FeedInv, NewIsUnlinked
    <3>2. BookFollowsExchange'
      BY <1>1, <2>2, <3>1 DEF BookFollowsExchange
    <3> QED
      BY <1>2, <3>1, <3>2 DEF FeedInv, QuotesAreBest
  <2> QED
    BY <1>4, <2>3, <2>4, <2>5 DEF OutOfSequence, InSequence
<1> QED
  BY <1>3, <1>4 DEF Process, Overlook, NullBook

\* FeedInv holds always.
THEOREM FeedInvariant == Spec => []FeedInv
<1>1. TypeOK /\ FeedInv /\ [Next]_vars => FeedInv'
  <2> SUFFICES ASSUME TypeOK, FeedInv, [Next]_vars PROVE FeedInv'
    OBVIOUS
  <2>1. CASE UNCHANGED vars
    BY <2>1 DEF vars, exchangeVars, streamVars, subVars, FeedInv, MessagesExplain, NewIsUnlinked,
                BookFollowsExchange, FollowsExchange, Untouched, Live, AsOf, QuotesAreBest
  <2> QED
    BY <2>1, FeedExchange, FeedSubscription, FeedStream DEF Next
<1> QED
  BY <1>1, FeedInit, FeedTypeCorrect, PTL DEF Spec

\* As long as a token's datagrams come in sequence and find its book, that book
\* says of the exchange only what is so, and all of it when it began from nothing.
THEOREM BooksFollow == Spec => []BookFollowsExchange
<1>1. FeedInv => BookFollowsExchange
  BY DEF FeedInv
<1> QED
  BY <1>1, FeedInvariant, PTL

\* What the quotes say is what the sides say, so it is true of the exchange too.
THEOREM QuotesAreReal == Spec => []QuoteIsReal
<1>1. TypeOK /\ FeedInv => QuoteIsReal
  <2> SUFFICES ASSUME TypeOK, FeedInv, NEW t \in DOMAIN map, since[t] # "lost"
               PROVE  /\ map[t].buy # EmptySide =>
                           /\ \E o \in Untouched(LastSeq, t, "buy") : AsOf(LastSeq)[o].price = map[t].MAXBID
                           /\ since[t] = "whole" => \A o \in Untouched(LastSeq, t, "buy") :
                                                       AsOf(LastSeq)[o].price <= map[t].MAXBID
                      /\ map[t].sell # EmptySide =>
                           /\ \E o \in Untouched(LastSeq, t, "sell") : AsOf(LastSeq)[o].price = map[t].MINASK
                           /\ since[t] = "whole" => \A o \in Untouched(LastSeq, t, "sell") :
                                                       AsOf(LastSeq)[o].price >= map[t].MINASK
    BY DEF QuoteIsReal
  <2>1. map[t].buy \in Sides /\ map[t].sell \in Sides
    BY DEF TypeOK, Books
  <2>2. ASSUME NEW f \in Sides, f # EmptySide
        PROVE  /\ \E o \in DOMAIN f : f[o] = Max(Range(f))
               /\ \E o \in DOMAIN f : f[o] = Min(Range(f))
               /\ \A o \in DOMAIN f : f[o] <= Max(Range(f)) /\ f[o] >= Min(Range(f))
    <3>1. Range(f) \subseteq Prices /\ Range(f) # {}
      BY <2>2, SideTypes, SideIsEmpty DEF Range
    <3>2. /\ Max(Range(f)) \in Range(f) /\ Min(Range(f)) \in Range(f)
          /\ \A y \in Range(f) : y <= Max(Range(f)) /\ Min(Range(f)) <= y
      <4>1. \A y \in Range(f) : Max(Range(f)) >= y /\ Min(Range(f)) <= y
        BY <3>1, BestPrices
      <4>2. Max(Range(f)) \in Range(f) /\ Min(Range(f)) \in Range(f)
        BY <3>1, BestPrices
      <4> QED
        BY <3>1, <4>1, <4>2 DEF Prices
    <3> QED
      BY <3>2 DEF Range
  <2>3. FollowsExchange(t, "buy") /\ FollowsExchange(t, "sell")
    BY DEF FeedInv, BookFollowsExchange
  <2>4. map[t].buy # EmptySide =>
          /\ \E o \in Untouched(LastSeq, t, "buy") : AsOf(LastSeq)[o].price = map[t].MAXBID
          /\ since[t] = "whole" => \A o \in Untouched(LastSeq, t, "buy") :
                                      AsOf(LastSeq)[o].price <= map[t].MAXBID
    BY <2>1, <2>2, <2>3 DEF FollowsExchange, FeedInv, QuotesAreBest
  <2>5. map[t].sell # EmptySide =>
          /\ \E o \in Untouched(LastSeq, t, "sell") : AsOf(LastSeq)[o].price = map[t].MINASK
          /\ since[t] = "whole" => \A o \in Untouched(LastSeq, t, "sell") :
                                      AsOf(LastSeq)[o].price >= map[t].MINASK
    BY <2>1, <2>2, <2>3 DEF FollowsExchange, FeedInv, QuotesAreBest
  <2> QED
    BY <2>4, <2>5
<1> QED
  BY <1>1, FeedInvariant, FeedTypeCorrect, PTL
=============================================================================
