------------------------------- MODULE DepthFeed -------------------------------
(***************************************************************************)
(* The depth server: a thread that reads one multicast stream              *)
(* (BindStreamAlternate) and keeps the books of the subscribed tokens, and *)
(* the thread that subscribes tokens (Eventsubscriber).  They share the    *)
(* std::map _map with no lock.                                             *)
(*                                                                         *)
(* The exchange is external: it numbers its messages and sends each once;  *)
(* the network may lose, repeat and reorder datagrams, so the server may   *)
(* receive any message already sent at any time.                           *)
(***************************************************************************)
EXTENDS DepthBook, Sequences, FiniteSets

CONSTANTS
    Tokens,
    Orders,     \* order numbers of the exchange
    TokenOf, SideOf,
    MaxPrice,   \* the largest price, an int
    Pairs,      \* the requests clients send: the tokens of each, in handling order
    MaxSeq      \* bound: messages of the exchange

ASSUME FeedAssumption ==
    /\ TokenOf \in [Orders -> Tokens]
    /\ SideOf \in [Orders -> {"buy", "sell"}]
    /\ MaxPrice \in Nat
    /\ Pairs \subseteq Seq(Tokens)
    /\ MaxSeq \in Nat

Prices == 1..MaxPrice

VARIABLES
    sent,       \* exchange: the messages by sequence number
    past,       \* exchange: its book before any message and after each one
    LastSeq,    \* the stream thread's LastSeq
    map,        \* _map: token -> book
    todo,       \* subscription thread: tokens of the request in hand
    subpc,      \* subscription thread: where it is
    up,         \* the process runs
    since       \* history: how a token's book came to be, see Joined

exchangeVars == <<sent, past>>
streamVars == <<LastSeq, up>>
subVars == <<todo, subpc>>
vars == <<exchangeVars, streamVars, subVars, map, since>>

\* The exchange's book after message k: each order with its price, and whether a
\* trade took part of it since it was last entered or modified.
AsOf(k) == past[k + 1]
Live(k, t) == {o \in DOMAIN AsOf(k) : TokenOf[o] = t}

Init ==
    /\ sent = <<>> /\ past = << [o \in {} |-> 0] >>
    /\ LastSeq = 0 /\ up = TRUE
    /\ map = [t \in {} |-> EmptyBook]
    /\ todo = <<>> /\ subpc = "recv"
    /\ since = [t \in Tokens |-> "lost"]

-----------------------------------------------------------------------------
(* The exchange (external).                                                 *)

OrderMsg(type, o, p) ==
    [type |-> type, token |-> TokenOf[o], side |-> SideOf[o], order |-> o, price |-> p]
TradeMsg(b, s) == [type |-> "T", token |-> TokenOf[b], buyer |-> b, seller |-> s]

Current == past[Len(past)]
Entered(book, o, p) ==
    [x \in DOMAIN book \cup {o} |-> IF x = o THEN [price |-> p, touched |-> FALSE] ELSE book[x]]

\* Order numbers are not reused.
Unused == {o \in Orders : \A k \in DOMAIN past : o \notin DOMAIN past[k]}

Emit(m, book) ==
    /\ Len(sent) < MaxSeq
    /\ sent' = Append(sent, m) /\ past' = Append(past, book)
    /\ UNCHANGED <<streamVars, subVars, map, since>>

NewOrder(o, p) ==
    /\ o \in Unused
    /\ Emit(OrderMsg("N", o, p), Entered(Current, o, p))

ModifyOrder(o, p) ==
    /\ o \in DOMAIN Current
    /\ Emit(OrderMsg("M", o, p), Entered(Current, o, p))

CancelOrder(o) ==
    /\ o \in DOMAIN Current
    /\ Emit(OrderMsg("X", o, Current[o].price), Restrict(Current, DOMAIN Current \ {o}))

\* A trade fills at least one of the two orders; part of the other may stay.
Traded(book, b, s, rest) ==
    [o \in (DOMAIN book \ {b, s}) \cup rest |->
       IF o \in rest THEN [book[o] EXCEPT !.touched = TRUE] ELSE book[o]]

TradeOrders(b, s, rest) ==
    /\ {b, s} \subseteq DOMAIN Current /\ TokenOf[b] = TokenOf[s]
    /\ SideOf[b] = "buy" /\ SideOf[s] = "sell"
    /\ rest \in {{}, {b}, {s}}
    /\ Emit(TradeMsg(b, s), Traded(Current, b, s, rest))

-----------------------------------------------------------------------------
(* The subscription thread.                                                 *)

\* A request for a pair (eFOPAIR) or for two or three legs (eIOCPAIR).
RecvPair(tokens) ==
    /\ up /\ subpc = "recv" /\ todo = <<>>
    /\ todo' = tokens
    /\ UNCHANGED <<exchangeVars, streamVars, subpc, map, since>>

\* Mutant of FindToken: the token leaves the request before its book is made.
FindTokenPop ==
    /\ up /\ subpc = "recv" /\ todo # <<>>
    /\ todo' = Tail(todo)
    /\ subpc' = IF Head(todo) \in DOMAIN map THEN "recv" ELSE "link"
    /\ UNCHANGED <<exchangeVars, streamVars, map, since>>

\* A token that has a book is skipped; another is about to be inserted.
FindToken ==
    /\ up /\ subpc = "recv" /\ todo # <<>>
    /\ IF Head(todo) \in DOMAIN map
       THEN todo' = Tail(todo) /\ UNCHANGED subpc
       ELSE subpc' = "link" /\ UNCHANGED todo
    /\ UNCHANGED <<exchangeVars, streamVars, map, since>>

\* _map[token]: the node is in the tree, its pointer is still NULL.
LinkToken ==
    /\ up /\ subpc = "link"
    /\ subpc' = "null"
    /\ UNCHANGED <<exchangeVars, streamVars, todo, map, since>>

\* What the server may know of a token from message k on: all of it, if the
\* exchange had no order then, or a part.
Joined(k, t) == IF Live(k, t) = {} THEN "whole" ELSE "part"

\* = new TokenWiseClass(...).
StoreBook ==
    /\ up /\ subpc = "null"
    /\ map' = [t \in DOMAIN map \cup {Head(todo)} |-> IF t = Head(todo) THEN EmptyBook ELSE map[t]]
    /\ since' = [since EXCEPT ![Head(todo)] = Joined(LastSeq, Head(todo))]
    /\ todo' = Tail(todo) /\ subpc' = "recv"
    /\ UNCHANGED <<exchangeVars, streamVars>>

-----------------------------------------------------------------------------
(* The stream thread: one datagram.  Heartbeats change nothing.             *)

Arrives(k) == up /\ k \in DOMAIN sent /\ LastSeq' = k

\* Any number but the next one is taken over and its message dropped; nothing is
\* cleared.
OutOfSequence(k) ==
    /\ Arrives(k) /\ k # LastSeq + 1
    /\ since' = [t \in Tokens |->
                   IF t \in DOMAIN map /\ map[t].buy = EmptySide /\ map[t].sell = EmptySide
                   THEN Joined(k, t) ELSE "lost"]
    /\ UNCHANGED <<exchangeVars, subVars, up, map>>

InSequence(k) == Arrives(k) /\ k = LastSeq + 1

Process(k) ==
    /\ InSequence(k) /\ sent[k].token \in DOMAIN map
    /\ map' = [map EXCEPT ![sent[k].token] = Apply(@, sent[k])]
    /\ UNCHANGED <<exchangeVars, subVars, up, since>>

\* The token has no book, or the tree is being rebalanced and find misses it (an
\* insertion rotates only nodes of a tree of two or more).
Overlook(k) ==
    LET t == sent[k].token IN
    /\ InSequence(k)
    /\ \/ t \notin DOMAIN map /\ ~(subpc = "null" /\ t = Head(todo))
       \/ t \in DOMAIN map /\ subpc = "link" /\ Cardinality(DOMAIN map) >= 2
    /\ since' = [since EXCEPT ![t] = "lost"]
    /\ UNCHANGED <<exchangeVars, subVars, up, map>>

\* The token's node was found with its NULL pointer.
NullBook(k) ==
    /\ InSequence(k)
    /\ subpc \in {"link", "null"} /\ sent[k].token = Head(todo)
    /\ up' = FALSE
    /\ UNCHANGED <<exchangeVars, subVars, map, since>>

-----------------------------------------------------------------------------
Exchange ==
    \/ \E o \in Orders, p \in Prices : NewOrder(o, p) \/ ModifyOrder(o, p)
    \/ \E o \in Orders : CancelOrder(o)
    \/ \E b, s \in Orders, rest \in SUBSET Orders : TradeOrders(b, s, rest)

Subscription == FindToken \/ LinkToken \/ StoreBook \/ \E r \in Pairs : RecvPair(r)

Stream ==
    \E k \in 1..MaxSeq : OutOfSequence(k) \/ Process(k) \/ Overlook(k) \/ NullBook(k)

Next == Exchange \/ Subscription \/ Stream

Spec == Init /\ [][Next]_vars

-----------------------------------------------------------------------------
(* Properties.                                                              *)

Messages ==
    [type : {"N", "M", "X"}, token : Tokens, side : {"buy", "sell"}, order : Orders, price : Prices]
      \cup [type : {"T"}, token : Tokens, buyer : Orders, seller : Orders]
Sides == UNION {[S -> Prices] : S \in SUBSET Orders}
ExchangeBooks == UNION {[S -> [price : Prices, touched : BOOLEAN]] : S \in SUBSET Orders}
Books == [buy : Sides, sell : Sides, MAXBID : Prices \cup {0}, MINASK : Prices \cup {0}]

\* The values every variable keeps to; a token is about to be inserted only while a
\* request is in hand.
TypeOK ==
    /\ sent \in Seq(Messages) /\ Len(past) = Len(sent) + 1
    /\ past \in Seq(ExchangeBooks)
    /\ LastSeq \in 0..Len(sent) /\ up \in BOOLEAN
    /\ DOMAIN map \subseteq Tokens /\ map \in [DOMAIN map -> Books]
    /\ todo \in Seq(Tokens) /\ subpc \in {"recv", "link", "null"}
    /\ subpc # "recv" => todo # <<>>
    /\ since \in [Tokens -> {"lost", "part", "whole"}]

\* The orders of one side of a token that the exchange has after message k and no
\* trade has touched since they were entered or modified.
Untouched(k, t, s) == {o \in Live(k, t) : SideOf[o] = s /\ ~AsOf(k)[o].touched}

FollowsExchange(t, s) ==
    since[t] # "lost" =>
        /\ DOMAIN map[t][s] \subseteq Untouched(LastSeq, t, s)
        /\ \A o \in DOMAIN map[t][s] : map[t][s][o] = AsOf(LastSeq)[o].price
        /\ since[t] = "whole" => DOMAIN map[t][s] = Untouched(LastSeq, t, s)

\* As long as datagrams came in sequence and no lookup was disturbed, a token's
\* book holds orders of the exchange's book at their prices, never one that is
\* gone or on the other side; and exactly the untouched ones if the exchange had
\* none when the book began.  A partly traded order is in the book again only
\* after a modification.
BookFollowsExchange == \A t \in DOMAIN map, s \in {"buy", "sell"} : FollowsExchange(t, s)

\* A message accounts for the difference of the exchange's books around it.
Explains(old, m, new) ==
    \/ m.type = "N" /\ m.order \notin DOMAIN old /\ new = Entered(old, m.order, m.price)
    \/ m.type = "M" /\ m.order \in DOMAIN old /\ new = Entered(old, m.order, m.price)
    \/ m.type = "X" /\ new = Restrict(old, DOMAIN old \ {m.order})
    \/ /\ m.type = "T" /\ {m.buyer, m.seller} \subseteq DOMAIN old
       /\ \E rest \in SUBSET {m.buyer, m.seller} : new = Traded(old, m.buyer, m.seller, rest)

Labelled(m) ==
    IF m.type = "T"
    THEN /\ TokenOf[m.buyer] = m.token /\ TokenOf[m.seller] = m.token
         /\ SideOf[m.buyer] = "buy" /\ SideOf[m.seller] = "sell"
    ELSE m.token = TokenOf[m.order] /\ m.side = SideOf[m.order]

MessagesExplain ==
    \A k \in DOMAIN sent : Explains(past[k], sent[k], past[k + 1]) /\ Labelled(sent[k])
NewIsUnlinked == subpc # "recv" => Head(todo) \notin DOMAIN map

QuotesAreBest ==
    \A t \in DOMAIN map :
        /\ map[t].buy # EmptySide => map[t].MAXBID = Max(Range(map[t].buy))
        /\ map[t].sell # EmptySide => map[t].MINASK = Min(Range(map[t].sell))

\* The inductive form of BookFollowsExchange and QuoteIsReal: the message numbered
\* k + 1 leads from the exchange's book after k to the next one, a token whose
\* node is without a book has none, and the quotes are those of the book.
FeedInv == MessagesExplain /\ NewIsUnlinked /\ BookFollowsExchange /\ QuotesAreBest

\* A best price published for a side that has orders is the price of an order at
\* the exchange, and none of the untouched orders is better if the book is whole.
\* Says nothing of a side that is empty, which keeps its last price (ReturnPrice).  That
\* "std:greater is not working as expected" (TokenWiseClass.h:26) does not bear on it: see
\* ReturnPrice.
QuoteIsReal ==
    \A t \in DOMAIN map : since[t] # "lost" =>
        LET bids == Untouched(LastSeq, t, "buy")
            asks == Untouched(LastSeq, t, "sell")
            price(o) == AsOf(LastSeq)[o].price
        IN /\ map[t].buy # EmptySide =>
                /\ \E o \in bids : price(o) = map[t].MAXBID
                /\ since[t] = "whole" => \A o \in bids : price(o) <= map[t].MAXBID
           /\ map[t].sell # EmptySide =>
                /\ \E o \in asks : price(o) = map[t].MINASK
                /\ since[t] = "whole" => \A o \in asks : price(o) >= map[t].MINASK

(* What the repository says and the code does not do.                       *)

\* "Raise event from here to clear all the Data from Holder" (main.cpp:405), where
\* the sequence is broken.
GapClearsBooks ==
    [][LastSeq' \notin {LastSeq, LastSeq + 1} =>
         \A t \in DOMAIN map : map'[t].buy = EmptySide /\ map'[t].sell = EmptySide]_vars
=============================================================================
