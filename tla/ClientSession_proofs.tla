------------------------- MODULE ClientSession_proofs -------------------------
(***************************************************************************)
(* Proofs about the tags of SubscriptionTags, for all three-digit clients  *)
(* and all portfolios, and about ClientSession, for every set of clients   *)
(* and of packets and any number of requests and orders.                   *)
(***************************************************************************)
EXTENDS ClientSession, TLAPS, SequenceTheorems

-----------------------------------------------------------------------------
(* Tags: the receiver gets back what the sender wrote, no two senders share  *)
(* a tag, and a manual order is never recognised.                            *)

Digit == 1..9
TwoDigits == 10..99

\* The three forms of a tag, in closed form.
ShortTag(c, p) == 650000 + 10 * c + p
LongTag(c, p) == 6500000 + 100 * c + p
ManualTag(c) == 65000000 + 1000 * c + 999

LEMMA Portfolios == \A p \in Portfolio : p \in Digit \/ p \in TwoDigits
  BY SMT DEF Portfolio, Digit, TwoDigits

LEMMA ShiftDigit == \A y \in 1..9 : Shift(y) = 10
  BY SMT DEF Shift, Powers

LEMMA ShiftTwoDigits == \A y \in 10..99 : Shift(y) = 100
  BY SMT DEF Shift, Powers

LEMMA ShiftThreeDigits == \A y \in 100..999 : Shift(y) = 1000
  BY SMT DEF Shift, Powers

LEMMA TagOfClient ==
  ASSUME NEW c \in Client
  PROVE  Concat(eORDER, c) = 65000 + c
  BY ShiftThreeDigits, SMT DEF Concat, eORDER, Client

LEMMA TagDigit ==
  ASSUME NEW c \in Client, NEW p \in Digit
  PROVE  Tag(c, p) = ShortTag(c, p)
  <1>1. Tag(c, p) = Concat(65000 + c, p)
    BY TagOfClient, SMT DEF Tag
  <1>2. Concat(65000 + c, p) = 650000 + 10 * c + p
    BY ShiftDigit, SMT DEF Concat, Client, Digit
  <1>3. QED
    BY <1>1, <1>2, SMT DEF ShortTag

LEMMA TagTwoDigits ==
  ASSUME NEW c \in Client, NEW p \in TwoDigits
  PROVE  Tag(c, p) = LongTag(c, p)
  <1>1. Tag(c, p) = Concat(65000 + c, p)
    BY TagOfClient, SMT DEF Tag
  <1>2. Concat(65000 + c, p) = 6500000 + 100 * c + p
    BY ShiftTwoDigits, SMT DEF Concat, Client, TwoDigits
  <1>3. QED
    BY <1>1, <1>2, SMT DEF LongTag

LEMMA TagManual ==
  ASSUME NEW c \in Client
  PROVE  Tag(c, Manual) = ManualTag(c)
  <1>1. Tag(c, Manual) = Concat(65000 + c, 999)
    BY TagOfClient, SMT DEF Tag, Manual
  <1>2. Concat(65000 + c, 999) = 65000000 + 1000 * c + 999
    BY ShiftThreeDigits, SMT DEF Concat, Client
  <1>3. QED
    BY <1>1, <1>2, SMT DEF ManualTag

LEMMA DecodeShort ==
  ASSUME NEW c \in Client, NEW p \in Digit
  PROVE  Decode(ShortTag(c, p)) = [MsgType |-> eORDER, CID |-> c, PFNum |-> p]
  <1> DEFINE t == 650000 + 10 * c + p
  <1>1. ShortTag(c, p) = t
    BY SMT DEF ShortTag
  <1>2. t < 999999
    BY SMT DEF Client, Digit
  <1>3. t \div 10000 = 65
    BY SMT DEF Client, Digit
  <1>4. (t - 65 * 10000) \div 10 = c
    BY SMT DEF Client, Digit
  <1>5. t - (t \div 10) * 10 = p
    BY SMT DEF Client, Digit
  <1> HIDE DEF t
  <1>6. QED
    BY <1>1, <1>2, <1>3, <1>4, <1>5, SMT DEF Decode, DigitsDecode, eORDER

LEMMA DecodeLong ==
  ASSUME NEW c \in Client, NEW p \in TwoDigits
  PROVE  Decode(LongTag(c, p)) = [MsgType |-> eORDER, CID |-> c, PFNum |-> p]
  <1> DEFINE t == 6500000 + 100 * c + p
  <1>1. LongTag(c, p) = t
    BY SMT DEF LongTag
  <1>2. ~(t < 999999)
    BY SMT DEF Client, TwoDigits
  <1>3. t \div 100000 = 65
    BY SMT DEF Client, TwoDigits
  <1>4. (t - 65 * 100000) \div 100 = c
    BY SMT DEF Client, TwoDigits
  <1>5. t - (t \div 100) * 100 = p
    BY SMT DEF Client, TwoDigits
  <1> HIDE DEF t
  <1>6. QED
    BY <1>1, <1>2, <1>3, <1>4, <1>5, SMT DEF Decode, DigitsDecode, eORDER

LEMMA DecodeManual ==
  ASSUME NEW c \in Client
  PROVE  Decode(ManualTag(c)).MsgType # eORDER
  <1> DEFINE t == 65000000 + 1000 * c + 999
  <1>1. ManualTag(c) = t
    BY SMT DEF ManualTag
  <1>2. ~(t < 999999)
    BY SMT DEF Client
  <1>3. t \div 100000 # 65
    BY SMT DEF Client
  <1> HIDE DEF t
  <1>4. QED
    BY <1>1, <1>2, <1>3, SMT DEF Decode, DigitsDecode, eORDER

\* Eventsubscriber takes a tag apart into what OnSubscriptionEventHandler put into it.
THEOREM DecodeInvertsTag ==
  \A c \in Client, p \in Portfolio :
    Decode(Tag(c, p)) = [MsgType |-> eORDER, CID |-> c, PFNum |-> p]
  BY Portfolios, TagDigit, TagTwoDigits, DecodeShort, DecodeLong, Zenon

\* The tag of a manual order decodes to no message type of an order: Eventsubscriber never
\* comes to the code for portfolio 999, and ManualOrderStore stays empty.
THEOREM ManualOrdersUnknown ==
  \A c \in Client : Decode(Tag(c, Manual)).MsgType # eORDER
  BY TagManual, DecodeManual, Zenon

\* No two clients and no two portfolios of a client have one tag: the event of an order is
\* published to the thread of its client and to no other.
THEOREM TagsDiffer ==
  \A c1, c2 \in Client, p1, p2 \in Portfolio :
    Tag(c1, p1) = Tag(c2, p2) => c1 = c2 /\ p1 = p2
  <1> SUFFICES ASSUME NEW c1 \in Client, NEW c2 \in Client,
                      NEW p1 \in Portfolio, NEW p2 \in Portfolio, Tag(c1, p1) = Tag(c2, p2)
               PROVE  c1 = c2 /\ p1 = p2
    BY Zenon
  <1>1. [MsgType |-> eORDER, CID |-> c1, PFNum |-> p1] = [MsgType |-> eORDER, CID |-> c2, PFNum |-> p2]
    BY DecodeInvertsTag, Zenon
  <1> DEFINE d(c, p) == [MsgType |-> eORDER, CID |-> c, PFNum |-> p]
  <1>2. d(c1, p1).CID = c1 /\ d(c2, p2).CID = c2 /\ d(c1, p1).PFNum = p1 /\ d(c2, p2).PFNum = p2
    BY SMT
  <1>3. QED
    BY <1>1, <1>2, Zenon

USE SessionAssumption

-----------------------------------------------------------------------------
(* Sequences of records seen as functions.                                  *)

LEMMA Elements ==
    ASSUME NEW S, NEW q \in Seq(S)
    PROVE  /\ Len(q) \in Nat /\ DOMAIN q = 1..Len(q)
           /\ \A i \in 1..Len(q) : q[i] \in S
  OBVIOUS

LEMMA Updated ==
    ASSUME NEW S, NEW q \in Seq(S), NEW i \in 1..Len(q), NEW e \in S
    PROVE  /\ [q EXCEPT ![i] = e] \in Seq(S) /\ Len([q EXCEPT ![i] = e]) = Len(q)
           /\ \A j \in 1..Len(q) : [q EXCEPT ![i] = e][j] = IF j = i THEN e ELSE q[j]
  BY ExceptSeq

LEMMA Appended ==
    ASSUME NEW S, NEW q \in Seq(S), NEW e \in S
    PROVE  /\ Append(q, e) \in Seq(S) /\ Len(Append(q, e)) = Len(q) + 1
           /\ \A j \in 1..Len(q) : Append(q, e)[j] = q[j]
           /\ Append(q, e)[Len(q) + 1] = e
  OBVIOUS

LEMMA Mapped ==
    ASSUME NEW S, NEW q, NEW n \in Nat, q \in [1..n -> S]
    PROVE  q \in Seq(S) /\ Len(q) = n
  BY SeqDef

-----------------------------------------------------------------------------
(* Types and references of one session, one strategy, one order, where there *)
(* are n strategies, m orders and k sessions.                                *)

GoodSession(r, n, m) ==
    /\ r \in SessionRecords /\ r.hand \in {0} \cup 1..n /\ r.manual \subseteq 1..m
    /\ \A d \in r.DataPack : d.obj \in 1..n
    /\ \A i \in DOMAIN r.inbox : r.inbox[i].order \in 1..m

GoodStrategy(st, k, m) ==
    /\ st \in StrategyRecords /\ st.ses \in 1..k
    /\ st.NMPack.FARMONTHMOD.OrderNumber \in {0} \cup 1..m

GoodOrder(r, n) == r \in OrderRecords /\ r.obj \in {0} \cup 1..n

SessionsGood == /\ session \in Seq(SessionRecords)
                /\ \A s \in Sessions : GoodSession(session[s], Len(strategy), Len(orders))
StrategiesGood == /\ strategy \in Seq(StrategyRecords)
                  /\ \A x \in Strategies : GoodStrategy(strategy[x], Len(session), Len(orders))
OrdersGood == /\ orders \in Seq(OrderRecords)
              /\ \A o \in 1..Len(orders) : GoodOrder(orders[o], Len(strategy))

LEMMA TypeSplit ==
    TypeOK <=> /\ BootTypes /\ HandlerTypes /\ ProcessTypes /\ HistoryTypes
               /\ SessionsGood /\ StrategiesGood /\ OrdersGood /\ asked \subseteq DOMAIN orders
<1>1. ASSUME orders \in Seq(OrderRecords) PROVE DOMAIN orders = 1..Len(orders)
  BY <1>1
<1>2. ASSUME TypeOK
      PROVE  /\ BootTypes /\ HandlerTypes /\ ProcessTypes /\ HistoryTypes
             /\ SessionsGood /\ StrategiesGood /\ OrdersGood /\ asked \subseteq DOMAIN orders
  <2>1. DOMAIN orders = 1..Len(orders)
    BY <1>1, <1>2 DEF TypeOK
  <2>2. SessionsGood
    <3>1. \A s \in Sessions : session[s] \in SessionRecords
      BY <1>2, SMT DEF TypeOK, Sessions
    <3> QED
      BY <1>2, <2>1, <3>1, Zenon DEF TypeOK, References, SessionsGood, GoodSession, Strategies
  <2>3. StrategiesGood
    <3>1. \A x \in Strategies : strategy[x] \in StrategyRecords
      BY <1>2, SMT DEF TypeOK, Strategies
    <3> QED
      BY <1>2, <2>1, <3>1, Zenon DEF TypeOK, References, StrategiesGood, GoodStrategy, Sessions,
         OrderNumber
  <2>4. OrdersGood
    <3>1. \A o \in 1..Len(orders) : orders[o] \in OrderRecords
      BY <1>2, SMT DEF TypeOK
    <3> QED
      BY <1>2, <2>1, <3>1, Zenon DEF TypeOK, References, OrdersGood, GoodOrder, Strategies
  <2> QED
    BY <1>2, <2>2, <2>3, <2>4, Zenon DEF TypeOK
<1>3. ASSUME BootTypes, HandlerTypes, ProcessTypes, HistoryTypes,
             SessionsGood, StrategiesGood, OrdersGood, asked \subseteq DOMAIN orders
      PROVE  TypeOK
  <2>1. DOMAIN orders = 1..Len(orders)
    BY <1>1, <1>3 DEF OrdersGood
  <2>2. References
    BY <1>3, <2>1, Zenon DEF References, SessionsGood, StrategiesGood, OrdersGood, GoodSession,
       GoodStrategy, GoodOrder, Sessions, Strategies, OrderNumber
  <2> QED
    BY <1>3, <2>2, Zenon DEF TypeOK, SessionsGood, StrategiesGood, OrdersGood
<1> QED
  BY <1>2, <1>3, Zenon

LEMMA TypeInit == Init => TypeOK
<1> SUFFICES ASSUME Init PROVE TypeOK
  OBVIOUS
<1>1. session = <<>> /\ strategy = <<>> /\ orders = <<>>
  BY Zenon DEF Init
<1>2. Len(session) = 0 /\ Len(strategy) = 0 /\ Len(orders) = 0
  BY <1>1, SMT
<1>3. SessionsGood /\ StrategiesGood /\ OrdersGood
  BY <1>1, <1>2, SMT DEF SessionsGood, StrategiesGood, OrdersGood, Sessions, Strategies
<1>4. /\ IniMap = FALSE /\ ContMap = {} /\ cimlist = {} /\ loadCimList = FALSE
      /\ StgMap = [c \in Clients |-> 0] /\ asked = {} /\ told = {} /\ requests = 0 /\ died = "no"
      /\ heard = {} /\ known = {} /\ shadowed = {}
  BY Zenon DEF Init
<1>5. BootTypes /\ HistoryTypes /\ asked \subseteq DOMAIN orders
  BY <1>4, Zenon DEF BootTypes, HistoryTypes
<1>6. ProcessTypes
  BY <1>4, SMT DEF ProcessTypes
<1>7. HandlerTypes
  BY <1>4, Zenon DEF HandlerTypes
<1> QED
  BY <1>3, <1>5, <1>6, <1>7, TypeSplit, Zenon

LEMMA SessionMonotone ==
    ASSUME NEW n \in Nat, NEW m \in Nat, NEW n1 \in Nat, NEW m1 \in Nat, n <= n1, m <= m1,
           NEW r, GoodSession(r, n, m)
    PROVE  GoodSession(r, n1, m1)
<1>1. 1..n \subseteq 1..n1 /\ 1..m \subseteq 1..m1
  BY SMT
<1> QED
  BY <1>1, Zenon DEF GoodSession

LEMMA StrategyMonotone ==
    ASSUME NEW k \in Nat, NEW m \in Nat, NEW k1 \in Nat, NEW m1 \in Nat, k <= k1, m <= m1,
           NEW st, GoodStrategy(st, k, m)
    PROVE  GoodStrategy(st, k1, m1)
<1>1. 1..k \subseteq 1..k1 /\ 1..m \subseteq 1..m1
  BY SMT
<1> QED
  BY <1>1, Zenon DEF GoodStrategy

LEMMA OrderMonotone ==
    ASSUME NEW n \in Nat, NEW n1 \in Nat, n <= n1, NEW r, GoodOrder(r, n)
    PROVE  GoodOrder(r, n1)
<1>1. 1..n \subseteq 1..n1
  BY SMT
<1> QED
  BY <1>1, Zenon DEF GoodOrder

-----------------------------------------------------------------------------
(* What a step does to one session or one strategy.                          *)

LEMMA Dictionary ==
    \A D : D \in Dictionaries <=> DOMAIN D \subseteq AllTokens /\ D \in [DOMAIN D -> Packs]
  BY Zenon DEF Dictionaries

LEMMA EmptyDictionary == <<>> \in Dictionaries
<1>1. <<>> \in [{} -> Packs]
  BY SMT
<1> QED
  BY <1>1, Zenon DEF Dictionaries

LEMMA SessionFields ==
    ASSUME NEW n, NEW m, NEW r, GoodSession(r, n, m)
    PROVE  /\ r.client \in Clients /\ r.cim \subseteq Contracts
           /\ r.phase \in {"open", "exiting", "stopped", "erased"}
           /\ r.SubStatus \subseteq AllTokens /\ r.SymbolDictionary \in Dictionaries
           /\ r.feed \subseteq AllTokens /\ r.early \subseteq AllTokens
           /\ r.DataPack \subseteq Slots /\ r.inbox \in Seq(Events) /\ r.listens \in BOOLEAN
  BY DEF GoodSession, SessionRecords

LEMMA PhaseSet ==
    ASSUME NEW n, NEW m, NEW r, GoodSession(r, n, m),
           NEW ph \in {"open", "exiting", "stopped", "erased"}
    PROVE  GoodSession([r EXCEPT !.phase = ph], n, m)
  BY DEF GoodSession, SessionRecords

LEMMA HandSet ==
    ASSUME NEW n, NEW m, NEW r, GoodSession(r, n, m), NEW x \in {0} \cup 1..n, n \in Nat
    PROVE  GoodSession([r EXCEPT !.hand = x], n, m)
<1> DEFINE q == [r EXCEPT !.hand = x]
<1>1. x \in Nat
  BY SMT
<1>2. q \in SessionRecords
  BY <1>1 DEF GoodSession, SessionRecords
<1>3. q.hand = x /\ q.manual = r.manual /\ q.DataPack = r.DataPack /\ q.inbox = r.inbox
  BY DEF GoodSession, SessionRecords
<1> HIDE DEF q
<1>4. GoodSession(q, n, m)
  BY <1>2, <1>3, Zenon DEF GoodSession
<1> QED
  BY <1>4 DEF q

LEMMA DictionarySet ==
    ASSUME NEW n, NEW m, NEW r, GoodSession(r, n, m), NEW D \in Dictionaries
    PROVE  GoodSession([r EXCEPT !.SymbolDictionary = D], n, m)
  BY DEF GoodSession, SessionRecords

LEMMA DataPackSet ==
    ASSUME NEW n, NEW m, NEW r, GoodSession(r, n, m), NEW P \in SUBSET Slots,
           \A d \in P : d.obj \in 1..n
    PROVE  GoodSession([r EXCEPT !.DataPack = P], n, m)
  BY DEF GoodSession, SessionRecords

LEMMA SubStatusSet ==
    ASSUME NEW n, NEW m, NEW r, GoodSession(r, n, m), NEW T \in SUBSET AllTokens
    PROVE  GoodSession([r EXCEPT !.SubStatus = T], n, m)
  BY DEF GoodSession, SessionRecords

LEMMA FeedSet ==
    ASSUME NEW n, NEW m, NEW r, GoodSession(r, n, m), NEW T \in SUBSET AllTokens,
           NEW U \in SUBSET AllTokens, NEW V \in SUBSET AllTokens
    PROVE  GoodSession([r EXCEPT !.SubStatus = T, !.feed = U, !.early = V], n, m)
  BY DEF GoodSession, SessionRecords

LEMMA SocketSet ==
    ASSUME NEW n, NEW m, NEW r, GoodSession(r, n, m), NEW b \in BOOLEAN
    PROVE  GoodSession([r EXCEPT !.Datasock = b], n, m)
  BY DEF GoodSession, SessionRecords

LEMMA InboxSet ==
    ASSUME NEW n, NEW m, NEW r, GoodSession(r, n, m), NEW q \in Seq(Events),
           \A i \in DOMAIN q : q[i].order \in 1..m
    PROVE  GoodSession([r EXCEPT !.inbox = q], n, m)
  BY DEF GoodSession, SessionRecords

LEMMA ListensSet ==
    ASSUME NEW n, NEW m, NEW r, GoodSession(r, n, m), NEW b \in BOOLEAN
    PROVE  GoodSession([r EXCEPT !.listens = b], n, m)
  BY DEF GoodSession, SessionRecords

LEMMA ManualSet ==
    ASSUME NEW n, NEW m, NEW r, GoodSession(r, n, m), NEW M \in SUBSET (1..m), m \in Nat
    PROVE  GoodSession([r EXCEPT !.manual = M], n, m)
<1> DEFINE q == [r EXCEPT !.manual = M]
<1>1. M \in SUBSET Nat
  BY SMT
<1>2. q \in SessionRecords
  BY <1>1 DEF GoodSession, SessionRecords
<1>3. q.hand = r.hand /\ q.manual = M /\ q.DataPack = r.DataPack /\ q.inbox = r.inbox
  BY DEF GoodSession, SessionRecords
<1> HIDE DEF q
<1>4. GoodSession(q, n, m)
  BY <1>2, <1>3, Zenon DEF GoodSession
<1> QED
  BY <1>4 DEF q

-----------------------------------------------------------------------------
(* The lengths of the sequences only grow, and what is there stays good.     *)

Grows ==
    /\ Len(session') \in Nat /\ Len(strategy') \in Nat /\ Len(orders') \in Nat
    /\ Len(session) <= Len(session') /\ Len(strategy) <= Len(strategy')
    /\ Len(orders) <= Len(orders')

LEMMA Lengths ==
    ASSUME TypeOK
    PROVE  /\ Len(session) \in Nat /\ Len(strategy) \in Nat /\ Len(orders) \in Nat
           /\ DOMAIN orders = 1..Len(orders)
  BY TypeSplit, SMT DEF SessionsGood, StrategiesGood, OrdersGood

LEMMA StillGood ==
    ASSUME TypeOK, Grows
    PROVE  /\ \A s \in Sessions : GoodSession(session[s], Len(strategy)', Len(orders)')
           /\ \A x \in Strategies : GoodStrategy(strategy[x], Len(session)', Len(orders)')
           /\ \A o \in 1..Len(orders) : GoodOrder(orders[o], Len(strategy)')
<1>1. ASSUME NEW s \in Sessions PROVE GoodSession(session[s], Len(strategy)', Len(orders)')
  <2>1. GoodSession(session[s], Len(strategy), Len(orders))
    BY TypeSplit, Zenon DEF SessionsGood
  <2> QED
    BY <2>1, SessionMonotone, Lengths, Zenon DEF Grows
<1>2. ASSUME NEW x \in Strategies PROVE GoodStrategy(strategy[x], Len(session)', Len(orders)')
  <2>1. GoodStrategy(strategy[x], Len(session), Len(orders))
    BY TypeSplit, Zenon DEF StrategiesGood
  <2> QED
    BY <2>1, StrategyMonotone, Lengths, Zenon DEF Grows
<1>3. ASSUME NEW o \in 1..Len(orders) PROVE GoodOrder(orders[o], Len(strategy)')
  <2>1. GoodOrder(orders[o], Len(strategy))
    BY TypeSplit, Zenon DEF OrdersGood
  <2> QED
    BY <2>1, OrderMonotone, Lengths, Zenon DEF Grows
<1> QED
  BY <1>1, <1>2, <1>3, Zenon

LEMMA SessionsKept ==
    ASSUME TypeOK, Grows, session' = session
    PROVE  SessionsGood'
  BY StillGood, TypeSplit, Zenon DEF SessionsGood, Sessions

LEMMA StrategiesKept ==
    ASSUME TypeOK, Grows, strategy' = strategy
    PROVE  StrategiesGood'
  BY StillGood, TypeSplit, Zenon DEF StrategiesGood, Strategies

LEMMA OrdersKept ==
    ASSUME TypeOK, Grows, orders' = orders
    PROVE  OrdersGood'
  BY StillGood, TypeSplit, Zenon DEF OrdersGood

LEMMA SessionUpdated ==
    ASSUME TypeOK, Grows, NEW s \in Sessions, NEW r, GoodSession(r, Len(strategy)', Len(orders)'),
           session' = [session EXCEPT ![s] = r]
    PROVE  /\ SessionsGood' /\ Len(session') = Len(session)
           /\ \A j \in Sessions : session'[j] = IF j = s THEN r ELSE session[j]
<1>1. r \in SessionRecords /\ session \in Seq(SessionRecords) /\ s \in 1..Len(session)
  BY TypeSplit, Zenon DEF GoodSession, SessionsGood, Sessions
<1>2. /\ session' \in Seq(SessionRecords) /\ Len(session') = Len(session)
      /\ \A j \in 1..Len(session) : session'[j] = IF j = s THEN r ELSE session[j]
  BY <1>1, Updated
<1> QED
  BY <1>2, StillGood, Zenon DEF SessionsGood, Sessions

LEMMA StrategyUpdated ==
    ASSUME TypeOK, Grows, NEW x \in Strategies, NEW st,
           GoodStrategy(st, Len(session)', Len(orders)'), strategy' = [strategy EXCEPT ![x] = st]
    PROVE  /\ StrategiesGood' /\ Len(strategy') = Len(strategy)
           /\ \A y \in Strategies : strategy'[y] = IF y = x THEN st ELSE strategy[y]
<1>1. st \in StrategyRecords /\ strategy \in Seq(StrategyRecords) /\ x \in 1..Len(strategy)
  BY TypeSplit, Zenon DEF GoodStrategy, StrategiesGood, Strategies
<1>2. /\ strategy' \in Seq(StrategyRecords) /\ Len(strategy') = Len(strategy)
      /\ \A y \in 1..Len(strategy) : strategy'[y] = IF y = x THEN st ELSE strategy[y]
  BY <1>1, Updated
<1> QED
  BY <1>2, StillGood, Zenon DEF StrategiesGood, Strategies

LEMMA StrategyAppended ==
    ASSUME TypeOK, Grows, NEW st, GoodStrategy(st, Len(session)', Len(orders)'),
           strategy' = Append(strategy, st)
    PROVE  /\ StrategiesGood' /\ Len(strategy') = Len(strategy) + 1
           /\ \A y \in Strategies : strategy'[y] = strategy[y]
           /\ strategy'[Len(strategy) + 1] = st
<1>1. st \in StrategyRecords /\ strategy \in Seq(StrategyRecords)
  BY TypeSplit, Zenon DEF GoodStrategy, StrategiesGood
<1>2. /\ strategy' \in Seq(StrategyRecords) /\ Len(strategy') = Len(strategy) + 1
      /\ \A y \in 1..Len(strategy) : strategy'[y] = strategy[y]
      /\ strategy'[Len(strategy) + 1] = st
  BY <1>1, Appended, ZenonT(40)
<1>3. \A y \in 1..Len(strategy') : y \in Strategies \/ y = Len(strategy) + 1
  BY <1>2, Lengths, SMT DEF Strategies
<1> QED
  BY <1>2, <1>3, StillGood, Zenon DEF StrategiesGood, Strategies

LEMMA StrategiesMapped ==
    ASSUME TypeOK, Grows, strategy' = [x \in Strategies |-> strategy'[x]],
           \A x \in Strategies : GoodStrategy(strategy'[x], Len(session)', Len(orders)')
    PROVE  StrategiesGood' /\ Len(strategy') = Len(strategy)
<1>1. strategy' \in [1..Len(strategy) -> StrategyRecords]
  BY Zenon DEF GoodStrategy, Strategies
<1>2. strategy' \in Seq(StrategyRecords) /\ Len(strategy') = Len(strategy)
  BY <1>1, Mapped, Lengths, Zenon
<1> QED
  BY <1>2, Zenon DEF StrategiesGood, Strategies

LEMMA LengthUpdated ==
    ASSUME NEW S, NEW q \in Seq(S), NEW i, NEW e
    PROVE  Len([q EXCEPT ![i] = e]) = Len(q)
  BY SMT

LEMMA HandlerKept ==
    ASSUME TypeOK, Grows, UNCHANGED handler
    PROVE  HandlerTypes'
<1>1. {0} \cup Sessions \subseteq {0} \cup Sessions'
  BY Lengths, SMT DEF Grows, Sessions
<1>2. StgMap \in [Clients -> {0} \cup Sessions']
  BY <1>1, TypeSplit, SMT DEF HandlerTypes
<1> QED
  BY <1>2, TypeSplit, Zenon DEF HandlerTypes, handler

LEMMA HistoryKept ==
    ASSUME TypeOK, Grows, UNCHANGED history, OrdersGood'
    PROVE  HistoryTypes'
<1>1. Strategies \subseteq Strategies'
  BY Lengths, SMT DEF Grows, Strategies
<1>2. DOMAIN orders \subseteq DOMAIN orders'
  BY Lengths, SMT DEF Grows, OrdersGood
<1> QED
  BY <1>1, <1>2, TypeSplit, Zenon DEF HistoryTypes, history

LEMMA AskedKept ==
    ASSUME TypeOK, Grows, OrdersGood', asked' \subseteq DOMAIN orders
    PROVE  asked' \subseteq DOMAIN orders'
  BY Lengths, SMT DEF Grows, OrdersGood

-----------------------------------------------------------------------------
(* The operations on a session.                                              *)

LEMMA PacketTypes ==
    ASSUME NEW p \in Packets
    PROVE  /\ p.PORTFOLIONAME \in Portfolio /\ p.TokenFar \in Nat \ {0}
           /\ p \in Packs /\ Tokens(p) \subseteq AllTokens /\ p.TokenFar \in AllTokens
<1>1. p.PORTFOLIONAME \in Portfolio /\ p.TokenFar \in Nat \ {0}
  BY Zenon DEF SessionAssumption
<1>2. p \in Packs
  BY Zenon DEF Packs
<1>3. Tokens(p) \subseteq AllTokens /\ p.TokenFar \in Tokens(p)
  BY SMT DEF AllTokens, Tokens
<1> QED
  BY <1>1, <1>2, <1>3, Zenon

LEMMA ConnectGood ==
    ASSUME NEW n \in Nat, NEW m \in Nat, NEW r, GoodSession(r, n, m), NEW x \in 1..n, NEW gen \in Nat,
           NEW p \in Packets
    PROVE  GoodSession(Connect(r, x, gen, p), n, m)
<1> DEFINE P == r.DataPack \cup Connections(x, gen, p)
           D == [t \in DOMAIN r.SymbolDictionary \cup Tokens(p) |->
                    IF t \in Tokens(p) THEN p ELSE r.SymbolDictionary[t]]
           new == Tokens(p) \ r.SubStatus
           T == r.SubStatus \cup new
           U == IF r.Datasock THEN r.feed \cup new ELSE r.feed
           V == IF r.Datasock THEN r.early ELSE r.early \cup new
           r1 == [r EXCEPT !.DataPack = P]
           r2 == [r1 EXCEPT !.SymbolDictionary = D]
           r3 == [r2 EXCEPT !.SubStatus = T, !.feed = U, !.early = V]
<1>1. P \in SUBSET Slots /\ \A d \in P : d.obj \in 1..n
  <2>1. Connections(x, gen, p) \subseteq Slots /\ \A d \in Connections(x, gen, p) : d.obj = x
    BY PacketTypes, SMT DEF Connections, Slots
  <2> QED
    BY <2>1, SessionFields, Zenon DEF GoodSession
<1>2. D \in Dictionaries
  <2>1. r.SymbolDictionary \in Dictionaries
    BY SessionFields, Zenon
  <2>2. DOMAIN D \subseteq AllTokens
    BY <2>1, Dictionary, PacketTypes, Zenon
  <2>3. \A t \in DOMAIN D : D[t] \in Packs
    BY <2>1, Dictionary, PacketTypes, Zenon
  <2> QED
    BY <2>2, <2>3, Dictionary, Zenon
<1>3. T \in SUBSET AllTokens /\ U \in SUBSET AllTokens /\ V \in SUBSET AllTokens
  BY SessionFields, PacketTypes, Zenon
<1>4. r3 = Connect(r, x, gen, p)
  <2>1. /\ r2 = [r EXCEPT !.DataPack = P, !.SymbolDictionary = D]
        /\ r2.SubStatus = r.SubStatus /\ r2.feed = r.feed /\ r2.early = r.early
        /\ r2.Datasock = r.Datasock
    BY SMT DEF GoodSession, SessionRecords
  <2> HIDE DEF r2
  <2>2. r3 = SubscribeTokens(r2, Tokens(p))
    BY <2>1, Zenon DEF SubscribeTokens
  <2> QED
    BY <2>1, <2>2, Zenon DEF Connect
<1> HIDE DEF P, D, T, U, V
<1>5. GoodSession(r1, n, m)
  BY <1>1, DataPackSet, Zenon
<1> HIDE DEF r1
<1>6. GoodSession(r2, n, m)
  BY <1>2, <1>5, DictionarySet, Zenon
<1> HIDE DEF r2
<1>7. GoodSession(r3, n, m)
  BY <1>3, <1>6, FeedSet, Zenon
<1> QED
  BY <1>4, <1>7, Zenon

LEMMA DisconnectGood ==
    ASSUME NEW n, NEW m, NEW r, GoodSession(r, n, m), NEW x, NEW gen
    PROVE  GoodSession(Disconnect(r, x, gen), n, m)
<1> DEFINE P == {d \in r.DataPack : d.obj # x \/ d.gen # gen}
<1>1. P \in SUBSET Slots /\ \A d \in P : d.obj \in 1..n
  BY SessionFields, Zenon DEF GoodSession
<1> QED
  BY <1>1, DataPackSet, Zenon DEF Disconnect

LEMMA StoppedGood ==
    ASSUME NEW n, NEW m, NEW r, GoodSession(r, n, m), NEW T
    PROVE  GoodSession([r EXCEPT !.phase = "stopped", !.SubStatus = r.SubStatus \ T,
                                 !.Datasock = FALSE], n, m)
<1> DEFINE r1 == [r EXCEPT !.phase = "stopped"]
           r2 == [r1 EXCEPT !.SubStatus = r.SubStatus \ T]
           r3 == [r2 EXCEPT !.Datasock = FALSE]
<1>1. r3 = [r EXCEPT !.phase = "stopped", !.SubStatus = r.SubStatus \ T, !.Datasock = FALSE]
  BY SMT DEF GoodSession, SessionRecords
<1>2. r.SubStatus \ T \in SUBSET AllTokens
  BY SessionFields, Zenon
<1>3. GoodSession(r1, n, m)
  BY PhaseSet, Zenon
<1> HIDE DEF r1
<1>4. GoodSession(r2, n, m)
  BY <1>2, <1>3, SubStatusSet, Zenon
<1> HIDE DEF r2
<1>5. GoodSession(r3, n, m)
  BY <1>4, SocketSet, Zenon
<1> QED
  BY <1>1, <1>5, Zenon

LEMMA ErasedGood ==
    ASSUME NEW n, NEW m, NEW r, GoodSession(r, n, m), NEW T
    PROVE  GoodSession([r EXCEPT !.phase = "erased", !.SymbolDictionary = <<>>,
                                 !.DataPack = {d \in r.DataPack : d.token \notin T}], n, m)
<1> DEFINE P == {d \in r.DataPack : d.token \notin T}
           r1 == [r EXCEPT !.phase = "erased"]
           r2 == [r1 EXCEPT !.SymbolDictionary = <<>>]
           r3 == [r2 EXCEPT !.DataPack = P]
<1>1. r3 = [r EXCEPT !.phase = "erased", !.SymbolDictionary = <<>>, !.DataPack = P]
  BY SMT DEF GoodSession, SessionRecords
<1>2. P \in SUBSET Slots /\ \A d \in P : d.obj \in 1..n
  BY SessionFields, Zenon DEF GoodSession
<1>3. <<>> \in Dictionaries
  BY EmptyDictionary
<1> HIDE DEF P
<1>4. GoodSession(r1, n, m)
  BY PhaseSet, Zenon
<1> HIDE DEF r1
<1>5. GoodSession(r2, n, m)
  BY <1>3, <1>4, DictionarySet, Zenon
<1> HIDE DEF r2
<1>6. GoodSession(r3, n, m)
  BY <1>2, <1>5, DataPackSet, Zenon
<1> QED
  BY <1>1, <1>6, Zenon DEF P

LEMMA HeardGood ==
    ASSUME NEW n, NEW m \in Nat, NEW r, GoodSession(r, n, m), NEW d, r.inbox # <<>>
    PROVE  GoodSession(Heard(r, d), n, m)
<1> DEFINE q == IF r.phase = "open" THEN Tail(r.inbox) ELSE <<>>
           M == ManualOrderStore(r.manual, d, Head(r.inbox))
           r1 == [r EXCEPT !.inbox = q]
           r2 == [r1 EXCEPT !.listens = (r.phase = "open")]
           r3 == [r2 EXCEPT !.manual = M]
<1>0. r.inbox \in Seq(Events) /\ (\A i \in DOMAIN r.inbox : r.inbox[i].order \in 1..m)
      /\ r.manual \in SUBSET (1..m)
  BY SessionFields, Zenon DEF GoodSession
<1>1. r3 = Heard(r, d)
  BY SMT DEF GoodSession, SessionRecords, Heard
<1>2. q \in Seq(Events) /\ \A i \in DOMAIN q : q[i].order \in 1..m
  <2>1. CASE r.phase = "open"
    <3>1. Tail(r.inbox) \in Seq(Events) /\ Len(Tail(r.inbox)) = Len(r.inbox) - 1
          /\ DOMAIN Tail(r.inbox) = 1..(Len(r.inbox) - 1) /\ DOMAIN r.inbox = 1..Len(r.inbox)
          /\ Len(r.inbox) \in Nat
      BY <1>0, SMT
    <3>2. \A i \in 1..(Len(r.inbox) - 1) : Tail(r.inbox)[i] = r.inbox[i + 1] /\ i + 1 \in DOMAIN r.inbox
      BY <1>0, <3>1, SMT
    <3> QED
      BY <1>0, <2>1, <3>1, <3>2, Zenon
  <2>2. CASE r.phase # "open"
    BY <2>2, SMT
  <2> QED
    BY <2>1, <2>2, Zenon
<1>3. M \in SUBSET (1..m)
  <2>1. Head(r.inbox) = r.inbox[1] /\ 1 \in DOMAIN r.inbox
    BY <1>0, SMT
  <2> QED
    BY <1>0, <2>1, Zenon DEF ManualOrderStore
<1> HIDE DEF q, M
<1>4. GoodSession(r1, n, m)
  BY <1>2, InboxSet, Zenon
<1> HIDE DEF r1
<1>5. GoodSession(r2, n, m)
  BY <1>4, ListensSet, Zenon
<1> HIDE DEF r2
<1>6. GoodSession(r3, n, m)
  BY <1>3, <1>5, ManualSet, Zenon
<1> QED
  BY <1>1, <1>6, Zenon

LEMMA NewSessionGood ==
    ASSUME NEW c \in Clients, NEW cim \in SUBSET Contracts, NEW n \in Nat, NEW m \in Nat
    PROVE  GoodSession(NewSession(c, cim), n, m)
<1>1. NewSession(c, cim) \in SessionRecords
  <2>1. <<>> \in Seq(Events)
    BY SMT
  <2> QED
    BY <2>1, EmptyDictionary, SMT DEF NewSession, SessionRecords
<1>2. /\ NewSession(c, cim).hand = 0 /\ NewSession(c, cim).manual = {}
      /\ NewSession(c, cim).DataPack = {} /\ NewSession(c, cim).inbox = <<>>
  BY SMT DEF NewSession
<1>3. DOMAIN <<>> = {}
  BY SMT
<1> QED
  BY <1>1, <1>2, <1>3, Zenon DEF GoodSession

-----------------------------------------------------------------------------
(* The operations on a strategy.                                             *)

LEMMA StrategyFields ==
    ASSUME NEW k, NEW m, NEW st, GoodStrategy(st, k, m)
    PROVE  /\ st.live \in BOOLEAN /\ st.pf \in Portfolio /\ st.by \in {"sub", "diff", "event"}
           /\ st.BLQ \in {"lot", "zero", "junk"} /\ st.pack \in Packs /\ st.gen \in Nat
           /\ st.ses \in 1..k /\ st.NMPack.FARMONTH.TokenNo \in FirstLegs
           /\ st.NMPack.FARMONTHMOD.OrderNumber \in {0} \cup 1..m
  BY DEF GoodStrategy, StrategyRecords

LEMMA NewStrategyGood ==
    ASSUME NEW k \in Nat, NEW m \in Nat, NEW s \in 1..k, NEW PF \in Portfolio,
           NEW by \in {"sub", "diff", "event"}, NEW BLQ \in {"lot", "zero", "junk"}
    PROVE  GoodStrategy(NewStrategy(s, PF, by, BLQ), k, m)
<1>1. NoPacket \in Packs /\ s \in Nat
  BY SMT DEF Packs
<1>2. NewStrategy(s, PF, by, BLQ) \in StrategyRecords
  BY <1>1, SMT DEF NewStrategy, StrategyRecords, Templates, ReturnNearPack,
     ReturnModificationPack, FirstLegs, Numbers
<1> QED
  BY <1>2, SMT DEF GoodStrategy, NewStrategy, Templates, ReturnModificationPack

LEMMA StatusSet ==
    ASSUME NEW k, NEW m, NEW st, GoodStrategy(st, k, m),
           NEW v \in {"NONE", "PENDING", "OPEN", "TRADE", "CANCEL"}
    PROVE  GoodStrategy([st EXCEPT !.status = v], k, m)
  BY SMT DEF GoodStrategy, StrategyRecords

LEMMA FlagSet ==
    ASSUME NEW k, NEW m, NEW st, GoodStrategy(st, k, m), NEW b \in BOOLEAN
    PROVE  /\ GoodStrategy([st EXCEPT !.stop = b], k, m)
           /\ GoodStrategy([st EXCEPT !.quotes = b], k, m)
           /\ GoodStrategy([st EXCEPT !.live = b], k, m)
  BY SMT DEF GoodStrategy, StrategyRecords

LEMMA GenSet ==
    ASSUME NEW k, NEW m, NEW st, GoodStrategy(st, k, m), NEW g \in Nat
    PROVE  GoodStrategy([st EXCEPT !.gen = g], k, m)
  BY SMT DEF GoodStrategy, StrategyRecords

LEMMA PackSet ==
    ASSUME NEW k, NEW m, NEW st, GoodStrategy(st, k, m), NEW p \in Packs
    PROVE  GoodStrategy([st EXCEPT !.pack = p], k, m)
  BY SMT DEF GoodStrategy, StrategyRecords

OrderPacks == [FARMONTH : [TokenNo : FirstLegs], FARMONTHMOD : Numbers]

LEMMA TemplatesSet ==
    ASSUME NEW k, NEW m, NEW st, GoodStrategy(st, k, m), NEW N \in OrderPacks,
           N.FARMONTHMOD.OrderNumber \in {0} \cup 1..m
    PROVE  GoodStrategy([st EXCEPT !.NMPack = N], k, m)
  BY SMT DEF GoodStrategy, StrategyRecords, OrderPacks

LEMMA NewTemplates ==
    ASSUME NEW t \in FirstLegs
    PROVE  Templates(t) \in OrderPacks /\ Templates(t).FARMONTHMOD.OrderNumber = 0
  BY SMT DEF Templates, ReturnNearPack, ReturnModificationPack, Numbers, OrderPacks

LEMMA OrderNumberSet ==
    ASSUME NEW k, NEW m \in Nat, NEW st, GoodStrategy(st, k, m), NEW o \in 1..m
    PROVE  GoodStrategy([st EXCEPT !.NMPack.FARMONTHMOD.OrderNumber = o], k, m)
<1> DEFINE N == [st.NMPack EXCEPT !.FARMONTHMOD.OrderNumber = o]
<1>1. N \in [FARMONTH : [TokenNo : FirstLegs], FARMONTHMOD : Numbers]
  BY SMT DEF GoodStrategy, StrategyRecords, Numbers
<1>2. N.FARMONTHMOD.OrderNumber = o
  BY SMT DEF GoodStrategy, StrategyRecords, Numbers
<1>3. [st EXCEPT !.NMPack.FARMONTHMOD.OrderNumber = o] = [st EXCEPT !.NMPack = N]
  BY SMT DEF GoodStrategy, StrategyRecords
<1> HIDE DEF N
<1>4. GoodStrategy([st EXCEPT !.NMPack = N], k, m)
  BY <1>1, <1>2, SMT DEF GoodStrategy, StrategyRecords
<1> QED
  BY <1>3, <1>4, Zenon

LEMMA UnSubscribedGood ==
    ASSUME NEW k, NEW m, NEW st, GoodStrategy(st, k, m)
    PROVE  /\ GoodStrategy(OnUnSubscription(st), k, m)
           /\ GoodStrategy([OnUnSubscription(st) EXCEPT !.live = FALSE], k, m)
<1> DEFINE s1 == [st EXCEPT !.status = "NONE"]
           s2 == [s1 EXCEPT !.stop = TRUE]
           s3 == [s2 EXCEPT !.quotes = FALSE]
<1>1. s3 = OnUnSubscription(st)
  BY SMT DEF GoodStrategy, StrategyRecords, OnUnSubscription
<1>2. GoodStrategy(s1, k, m)
  BY StatusSet, Zenon
<1> HIDE DEF s1
<1>3. GoodStrategy(s2, k, m)
  BY <1>2, FlagSet, Zenon
<1> HIDE DEF s2
<1>4. GoodStrategy(s3, k, m)
  BY <1>3, FlagSet, Zenon
<1>5. GoodStrategy(OnUnSubscription(st), k, m)
  BY <1>1, <1>4, Zenon
<1> QED
  BY <1>5, FlagSet, Zenon

LEMMA SubscribedGood ==
    ASSUME NEW k, NEW m, NEW st, GoodStrategy(st, k, m), NEW p \in Packets
    PROVE  GoodStrategy(OnSubscription(st, p), k, m)
<1> DEFINE N == IF st.NMPack = Templates(0) THEN Templates(p.TokenFar) ELSE st.NMPack
           s1 == [st EXCEPT !.pack = p]
           s2 == [s1 EXCEPT !.NMPack = N]
           s3 == [s2 EXCEPT !.stop = FALSE]
           s4 == [s3 EXCEPT !.quotes = FALSE]
           s5 == [s4 EXCEPT !.gen = st.gen + 1]
<1>1. s5 = OnSubscription(st, p)
  BY SMT DEF GoodStrategy, StrategyRecords, OnSubscription
<1>2. st.gen + 1 \in Nat
  BY StrategyFields, SMT
<1>3. GoodStrategy(s1, k, m)
  BY PacketTypes, PackSet, Zenon
<1>4. N \in OrderPacks /\ N.FARMONTHMOD.OrderNumber \in {0} \cup 1..m
  <2>1. st.NMPack \in OrderPacks /\ st.NMPack.FARMONTHMOD.OrderNumber \in {0} \cup 1..m
    BY SMT DEF GoodStrategy, StrategyRecords, OrderPacks
  <2>2. p.TokenFar \in FirstLegs
    BY PacketTypes, Zenon DEF FirstLegs
  <2> QED
    BY <2>1, <2>2, NewTemplates, Zenon
<1> HIDE DEF N, s1
<1>9. GoodStrategy(s2, k, m)
  BY <1>3, <1>4, TemplatesSet, Zenon
<1> HIDE DEF s2
<1>5. GoodStrategy(s3, k, m)
  BY <1>9, FlagSet, Zenon
<1> HIDE DEF s3
<1>6. GoodStrategy(s4, k, m)
  BY <1>5, FlagSet, Zenon
<1> HIDE DEF s4
<1>7. GoodStrategy(s5, k, m)
  BY <1>2, <1>6, GenSet, Zenon
<1> QED
  BY <1>1, <1>7, Zenon

LEMMA AfterGood ==
    ASSUME NEW k, NEW m \in Nat, NEW st, GoodStrategy(st, k, m), NEW o \in 1..m,
           NEW kind \in {"confirmed", "traded", "cancelled", "refused"}
    PROVE  GoodStrategy(After(st, o, kind), k, m)
<1>1. CASE st.pack.TokenFar # orders[o].far
  BY <1>1, Zenon DEF After
<1>2. CASE st.pack.TokenFar = orders[o].far /\ kind = "confirmed"
  <2> DEFINE s1 == [st EXCEPT !.status = "OPEN"]
  <2>1. After(st, o, kind) = [s1 EXCEPT !.NMPack.FARMONTHMOD.OrderNumber = o]
    BY <1>2, SMT DEF After, GoodStrategy, StrategyRecords
  <2>2. GoodStrategy(s1, k, m)
    BY StatusSet, Zenon
  <2> HIDE DEF s1
  <2>3. GoodStrategy([s1 EXCEPT !.NMPack.FARMONTHMOD.OrderNumber = o], k, m)
    BY <2>2, OrderNumberSet
  <2> QED
    BY <2>1, <2>3
<1>3. CASE st.pack.TokenFar = orders[o].far /\ kind # "confirmed"
  <2>1. PICK v \in {"NONE", "PENDING", "OPEN", "TRADE", "CANCEL"} :
             After(st, o, kind) = [st EXCEPT !.status = v]
    BY <1>3, SMT DEF After
  <2>2. GoodStrategy([st EXCEPT !.status = v], k, m)
    BY StatusSet
  <2> QED
    BY <2>1, <2>2, Zenon
<1> QED
  BY <1>1, <1>2, <1>3, Zenon

-----------------------------------------------------------------------------
(* Tags.                                                                     *)

LEMMA TagIsNat ==
    ASSUME NEW c \in Client, NEW PF \in Portfolio \cup {Manual}
    PROVE  Tag(c, PF) \in Nat
<1>1. CASE PF \in Digit
  <2>1. Tag(c, PF) = ShortTag(c, PF)
    BY <1>1, TagDigit, Zenon
  <2> QED
    BY <1>1, <2>1, SMT DEF ShortTag, Client, Digit
<1>2. CASE PF \in TwoDigits
  <2>1. Tag(c, PF) = LongTag(c, PF)
    BY <1>2, TagTwoDigits, Zenon
  <2> QED
    BY <1>2, <2>1, SMT DEF LongTag, Client, TwoDigits
<1>3. CASE PF = Manual
  <2>1. Tag(c, Manual) = ManualTag(c)
    BY TagManual, Zenon
  <2> QED
    BY <1>3, <2>1, SMT DEF ManualTag, Client
<1> QED
  BY <1>1, <1>2, <1>3, Portfolios, Zenon

\* Every event a thread has not read yet is for one of the tags it subscribed to.
InboxTags ==
    \A s \in Sessions : \A i \in DOMAIN session[s].inbox :
        orders[session[s].inbox[i].order].tag \in SubscribedTags(session[s].client)

\* What the receiver makes of a tag it subscribed to.
LEMMA DecodeSubscribed ==
    ASSUME NEW c \in Client, NEW t \in SubscribedTags(c), Decode(t).MsgType = eORDER
    PROVE  Decode(t).PFNum \in Portfolio /\ t = Tag(c, Decode(t).PFNum)
<1>1. PICK PF \in Portfolio \cup {Manual} : t = Tag(c, PF)
  BY Zenon DEF SubscribedTags
<1>2. PF \in Portfolio
  BY <1>1, ManualOrdersUnknown, Zenon
<1>3. Decode(t).PFNum = PF
  <2>1. Decode(t) = [MsgType |-> eORDER, CID |-> c, PFNum |-> PF]
    BY <1>1, <1>2, DecodeInvertsTag, Zenon
  <2> QED
    BY <2>1, SMT
<1> QED
  BY <1>1, <1>2, <1>3, Zenon

-----------------------------------------------------------------------------
(* The steps of main and of the login keep the types.                        *)

LEMMA ClientTypes ==
    ASSUME TypeOK
    PROVE  /\ \A s \in Sessions : session[s].client \in Client /\ session[s].client \in Clients
           /\ \A c \in Clients : StgMap[c] \in {0} \cup Sessions
<1>1. \A s \in Sessions : session[s].client \in Clients
  BY TypeSplit, SessionFields, Zenon DEF SessionsGood
<1> QED
  BY <1>1, TypeSplit, Zenon DEF HandlerTypes, SessionAssumption

LEMMA TypeStutter == TypeOK /\ UNCHANGED vars => TypeOK'
  BY Zenon DEF TypeOK, vars, boot, handler, history, BootTypes, HandlerTypes, ProcessTypes, HistoryTypes, References,
     Sessions, Strategies, OrderNumber

LEMMA SettingsType == TypeOK /\ LoadSettings => TypeOK'
  BY Zenon DEF LoadSettings, TypeOK, handler, history, BootTypes, HandlerTypes, ProcessTypes, HistoryTypes, References,
     Sessions, Strategies, OrderNumber

LEMMA ContractType == TypeOK /\ LoadContract => TypeOK'
<1> SUFFICES ASSUME TypeOK, LoadContract PROVE TypeOK'
  OBVIOUS
<1>1. BootTypes'
  BY Zenon DEF TypeOK, LoadContract, BootTypes, Contracts
<1> QED
  BY <1>1, Zenon DEF LoadContract, TypeOK, handler, history, HandlerTypes, ProcessTypes, HistoryTypes, References,
     Sessions, Strategies, OrderNumber

\* What a step that keeps the rest has to show.
LEMMA QuietTypes ==
    ASSUME TypeOK, Grows, SessionsGood', ProcessTypes',
           UNCHANGED <<boot, handler, strategy, orders, asked, history>>
    PROVE  TypeOK'
<1>1. StrategiesGood' /\ OrdersGood'
  BY StrategiesKept, OrdersKept, Zenon
<1>2. HandlerTypes' /\ HistoryTypes'
  BY <1>1, HandlerKept, HistoryKept, Zenon
<1>3. BootTypes' /\ (asked \subseteq DOMAIN orders)'
  BY TypeSplit, Zenon DEF BootTypes, boot
<1> QED
  BY <1>1, <1>2, <1>3, TypeSplit, PTL

LEMMA ActiveTypes ==
    ASSUME TypeOK, Grows, SessionsGood', StrategiesGood', OrdersGood', ProcessTypes',
           (asked \subseteq DOMAIN orders)', UNCHANGED <<boot, handler, history>>
    PROVE  TypeOK'
<1>1. HandlerTypes' /\ HistoryTypes'
  BY HandlerKept, HistoryKept, Zenon
<1>2. BootTypes'
  BY TypeSplit, Zenon DEF BootTypes, boot
<1> QED
  BY <1>1, <1>2, TypeSplit, PTL

LEMMA LoginStep ==
    ASSUME TypeOK, NEW c \in Clients, Login(c), IniMap
    PROVE  /\ TypeOK' /\ Len(session') = Len(session) + 1
           /\ \A j \in Sessions : session'[j] = session[j]
           /\ session'[Len(session) + 1] = NewSession(c, cimlist')
<1>1. /\ cimlist' = (IF loadCimList THEN cimlist ELSE ContMap) /\ loadCimList' = TRUE
      /\ session' = Append(session, NewSession(c, cimlist'))
      /\ StgMap' = [StgMap EXCEPT ![c] = Len(session) + 1]
      /\ UNCHANGED <<boot, strategy, orders, asked, told, died, history>>
  BY Zenon DEF Login
<1>2. cimlist' \in SUBSET Contracts
  BY <1>1, TypeSplit, Zenon DEF BootTypes, HandlerTypes
<1> PICK r : r = NewSession(c, cimlist')
  OBVIOUS
<1>3. GoodSession(r, Len(strategy), Len(orders))
  BY <1>2, NewSessionGood, Lengths, Zenon
<1>4. /\ session' \in Seq(SessionRecords) /\ Len(session') = Len(session) + 1
      /\ \A j \in 1..Len(session) : session'[j] = session[j]
      /\ session'[Len(session) + 1] = r
  <2>1. session \in Seq(SessionRecords) /\ r \in SessionRecords
    BY <1>3, TypeSplit, Zenon DEF SessionsGood, GoodSession
  <2>2. session' = Append(session, r)
    BY <1>1, Zenon
  <2> QED
    BY <2>1, <2>2, Appended
<1>5. Grows
  BY <1>1, <1>4, Lengths, SMT DEF Grows
<1>6. SessionsGood'
  <2>1. \A j \in 1..Len(session') : j \in Sessions \/ j = Len(session) + 1
    BY <1>4, Lengths, SMT DEF Sessions
  <2> QED
    BY <1>1, <1>3, <1>4, <2>1, TypeSplit, Zenon DEF SessionsGood, Sessions
<1>7. HandlerTypes'
  <2>1. {0} \cup Sessions \subseteq {0} \cup Sessions' /\ Len(session) + 1 \in Sessions'
    BY <1>4, Lengths, SMT DEF Sessions
  <2>2. StgMap \in [Clients -> {0} \cup Sessions]
    BY TypeSplit, Zenon DEF HandlerTypes
  <2>3. StgMap' \in [Clients -> {0} \cup Sessions']
    BY <1>1, <2>1, <2>2, Zenon
  <2> QED
    BY <1>1, <1>2, <2>3, Zenon DEF HandlerTypes
<1>8. ProcessTypes'
  BY <1>1, TypeSplit, SMT DEF ProcessTypes, Login, Request
<1>9. TypeOK'
  <2>1. StrategiesGood' /\ OrdersGood'
    BY <1>1, <1>5, StrategiesKept, OrdersKept, Zenon
  <2>2. HistoryTypes'
    BY <1>1, <1>5, <2>1, HistoryKept, Zenon
  <2>3. BootTypes' /\ (asked \subseteq DOMAIN orders)'
    BY <1>1, TypeSplit, Zenon DEF BootTypes, boot
  <2> QED
    BY <1>6, <1>7, <1>8, <2>1, <2>2, <2>3, TypeSplit, PTL
<1> QED
  BY <1>4, <1>9, Zenon DEF Sessions

LEMMA DisposeStep ==
    ASSUME TypeOK, NEW c \in Clients, Dispose(c)
    PROVE  /\ TypeOK' /\ Len(session') = Len(session)
           /\ \A j \in Sessions : session'[j] = IF j = StgMap[c] THEN [session[j] EXCEPT !.phase = "exiting"]
                                                ELSE session[j]
<1> DEFINE s == StgMap[c]
           r == [session[s] EXCEPT !.phase = "exiting"]
<1>1. /\ session' = [session EXCEPT ![s] = r]
      /\ UNCHANGED <<boot, handler, strategy, orders, asked, told, died, history>>
  BY Zenon DEF Dispose
<1>2. s \in Sessions
  BY TypeSplit, Zenon DEF Dispose, HandlerTypes
<1>3. Len(session') = Len(session)
  BY <1>1, LengthUpdated, TypeSplit, Zenon DEF SessionsGood
<1>4. Grows
  BY <1>1, <1>3, Lengths, SMT DEF Grows
<1>5. GoodSession(r, Len(strategy)', Len(orders)')
  BY <1>2, <1>4, StillGood, PhaseSet, Zenon
<1> HIDE DEF s, r
<1>6. SessionsGood' /\ \A j \in Sessions : session'[j] = IF j = s THEN r ELSE session[j]
  BY <1>1, <1>2, <1>4, <1>5, SessionUpdated
<1>7. ProcessTypes'
  BY <1>1, TypeSplit, SMT DEF ProcessTypes, Dispose, Request
<1>8. TypeOK'
  BY <1>1, <1>4, <1>6, <1>7, QuietTypes, Zenon
<1> QED
  BY <1>3, <1>6, <1>8, Zenon DEF s, r

-----------------------------------------------------------------------------
(* The requests about portfolios.                                            *)

LEMMA LotKinds == \A s, t : LotSizes(s, t) \subseteq {"lot", "zero", "junk"}
  BY SMT DEF LotSizes

\* A subscription: the strategy is st before and OnSubscription(st, p) after it.
\* A subscription by session s, of the strategies found for its portfolio.
SubscriptionEffect(s, p, found) ==
    \E x, st :
        /\ x \in Strategies'
        /\ \/ x \in found /\ st = strategy[x] /\ Strategies' = Strategies
           \/ /\ found = {} /\ x = Len(strategy) + 1
              /\ Len(strategy') = Len(strategy) + 1
              /\ \E BLQ \in LotSizes(s, p.TokenFar) :
                   st = NewStrategy(s, p.PORTFOLIONAME, "sub", BLQ)
        /\ GoodStrategy(st, Len(session), Len(orders))
        /\ strategy'[x] = OnSubscription(st, p)
        /\ \A y \in Strategies : y # x => strategy'[y] = strategy[y]
        /\ \A j \in Sessions : session'[j] =
             IF j = s THEN Connect(session[j], x, OnSubscription(st, p).gen, p)
             ELSE session[j]

LEMMA SubscriptionStep ==
    ASSUME TypeOK, NEW c \in Clients, NEW p \in Packets, HandleOnFOPairSubscription(c, p),
           NEW s, s = StgMap[c], NEW found, found = Find(s, p.PORTFOLIONAME)
    PROVE  /\ TypeOK' /\ s \in Sessions /\ Len(session') = Len(session)
           /\ SubscriptionEffect(s, p, found)
<1>2. s \in Sessions
  BY TypeSplit, Zenon DEF HandleOnFOPairSubscription, HandlerTypes
<1>1. PICK BLQ \in LotSizes(s, p.TokenFar) :
         LET x == IF found = {} THEN Len(strategy) + 1 ELSE CHOOSE y \in found : TRUE
             all == IF found = {} THEN Append(strategy, NewStrategy(s, p.PORTFOLIONAME, "sub", BLQ))
                                  ELSE strategy
         IN /\ strategy' = [all EXCEPT ![x] = OnSubscription(all[x], p)]
            /\ session' = [session EXCEPT ![s] = Connect(session[s], x, strategy'[x].gen, p)]
  BY ZenonT(40) DEF HandleOnFOPairSubscription
<1>4. PICK x, all :
        /\ x = IF found = {} THEN Len(strategy) + 1 ELSE CHOOSE y \in found : TRUE
        /\ all = IF found = {} THEN Append(strategy, NewStrategy(s, p.PORTFOLIONAME, "sub", BLQ))
                               ELSE strategy
        /\ strategy' = [all EXCEPT ![x] = OnSubscription(all[x], p)]
        /\ session' = [session EXCEPT ![s] = Connect(session[s], x, strategy'[x].gen, p)]
  BY <1>1, Zenon
<1>5. /\ told' = told \cup Tokens(p) /\ requests' = requests + 1
      /\ UNCHANGED <<boot, handler, orders, asked, died, history>>
  BY Zenon DEF HandleOnFOPairSubscription, Request
<1>6. found # {} => x \in found
  BY <1>4, Zenon
<1>7. found \subseteq Strategies
  BY Zenon DEF Find
<1>8. PICK st : st = all[x]
  OBVIOUS
<1>9. PICK sn : sn = OnSubscription(st, p)
  OBVIOUS
<1>10. PICK n : n = Len(all)
  OBVIOUS
<1>11. /\ all \in Seq(StrategyRecords) /\ x \in 1..Len(all) /\ Len(all) \in Nat
       /\ Len(strategy) <= Len(all)
       /\ GoodStrategy(st, Len(session), Len(orders))
       /\ \A y \in Strategies : all[y] = strategy[y]
       /\ \A y \in 1..Len(all) : y \in Strategies \/ y = x
       /\ (found # {} => Len(all) = Len(strategy) /\ st = strategy[x])
       /\ (found = {} => Len(all) = Len(strategy) + 1
                        /\ st = NewStrategy(s, p.PORTFOLIONAME, "sub", BLQ))
  <2>1. CASE found # {}
    <3>1. all = strategy /\ x \in Strategies
      BY <1>4, <1>6, <1>7, <2>1, Zenon
    <3> QED
      BY <1>8, <2>1, <3>1, TypeSplit, Lengths, SMT DEF StrategiesGood, Strategies
  <2>2. CASE found = {}
    <3>1. PICK sx : sx = NewStrategy(s, p.PORTFOLIONAME, "sub", BLQ)
      OBVIOUS
    <3>2. x = Len(strategy) + 1 /\ all = Append(strategy, sx)
      BY <1>4, <2>2, <3>1, Zenon
    <3>3. GoodStrategy(sx, Len(session), Len(orders))
      BY <1>2, <3>1, LotKinds, PacketTypes, NewStrategyGood, Lengths, Zenon DEF Sessions
    <3>4. sx \in StrategyRecords /\ strategy \in Seq(StrategyRecords)
      BY <3>3, TypeSplit, Zenon DEF GoodStrategy, StrategiesGood
    <3>5. /\ all \in Seq(StrategyRecords) /\ Len(all) = Len(strategy) + 1
          /\ \A y \in 1..Len(strategy) : all[y] = strategy[y]
          /\ all[Len(strategy) + 1] = sx
      BY <3>2, <3>4, Appended
    <3> QED
      BY <1>8, <2>2, <3>1, <3>2, <3>3, <3>5, Lengths, SMT DEF Strategies
  <2> QED
    BY <2>1, <2>2, Zenon
<1>12. GoodStrategy(sn, Len(session), Len(orders))
  BY <1>9, <1>11, SubscribedGood, Zenon
<1>13. /\ strategy' \in Seq(StrategyRecords) /\ Len(strategy') = Len(all)
       /\ \A y \in 1..Len(all) : strategy'[y] = IF y = x THEN sn ELSE all[y]
  <2>1. sn \in StrategyRecords /\ strategy' = [all EXCEPT ![x] = sn]
    BY <1>4, <1>8, <1>9, <1>12, Zenon DEF GoodStrategy
  <2> QED
    BY <1>11, <2>1, Updated
<1>14. PICK r : r = Connect(session[s], x, sn.gen, p)
  OBVIOUS
<1>15. session' = [session EXCEPT ![s] = r] /\ Len(session') = Len(session)
  <2>1. session' = [session EXCEPT ![s] = r]
    BY <1>4, <1>11, <1>13, <1>14, Zenon
  <2> QED
    BY <2>1, LengthUpdated, TypeSplit, Zenon DEF SessionsGood
<1>16. Grows
  BY <1>5, <1>11, <1>13, <1>15, Lengths, SMT DEF Grows
<1>17. GoodSession(r, Len(strategy)', Len(orders)')
  <2>1. GoodSession(session[s], Len(strategy)', Len(orders)')
    BY <1>2, <1>16, StillGood, Zenon
  <2>2. sn.gen \in Nat /\ x \in 1..Len(strategy')
    BY <1>11, <1>12, <1>13, StrategyFields, Zenon
  <2> QED
    BY <1>14, <1>16, <2>1, <2>2, ConnectGood, Zenon DEF Grows
<1>18. SessionsGood' /\ \A j \in Sessions : session'[j] = IF j = s THEN r ELSE session[j]
  BY <1>2, <1>15, <1>16, <1>17, SessionUpdated
<1>19. StrategiesGood'
  <2>1. \A y \in 1..Len(all) : GoodStrategy(strategy'[y], Len(session), Len(orders))
    BY <1>11, <1>12, <1>13, TypeSplit, Zenon DEF StrategiesGood
  <2>2. Len(orders') = Len(orders)
    BY <1>5, Zenon
  <2> QED
    BY <1>13, <1>15, <2>1, <2>2, Zenon DEF StrategiesGood, Strategies
<1>20. TypeOK'
  <2>1. OrdersGood'
    BY <1>5, <1>16, OrdersKept, Zenon
  <2>2. HandlerTypes' /\ HistoryTypes'
    BY <1>5, <1>16, <2>1, HandlerKept, HistoryKept, Zenon
  <2>3. BootTypes' /\ (asked \subseteq DOMAIN orders)'
    BY <1>5, TypeSplit, Zenon DEF BootTypes, boot
  <2>4. ProcessTypes'
    BY <1>5, PacketTypes, TypeSplit, SMT DEF ProcessTypes
  <2> QED
    BY <1>18, <1>19, <2>1, <2>2, <2>3, <2>4, TypeSplit, PTL
<1>21. Strategies' = 1..Len(all)
  BY <1>13, Zenon DEF Strategies
<1>22. strategy'[x] = OnSubscription(st, p) /\ \A y \in Strategies : y # x => strategy'[y] = strategy[y]
  BY <1>9, <1>11, <1>13, Lengths, SMT DEF Strategies
<1>23. \A j \in Sessions : session'[j] =
         IF j = s THEN Connect(session[j], x, OnSubscription(st, p).gen, p) ELSE session[j]
  BY <1>9, <1>14, <1>18, Zenon
<1>24. \/ x \in found /\ st = strategy[x] /\ Strategies' = Strategies
       \/ /\ found = {} /\ x = Len(strategy) + 1 /\ Len(strategy') = Len(strategy) + 1
          /\ \E BLQ1 \in LotSizes(s, p.TokenFar) : st = NewStrategy(s, p.PORTFOLIONAME, "sub", BLQ1)
  BY <1>4, <1>6, <1>11, <1>13, <1>21, Zenon DEF Strategies
<1>25. x \in Strategies' /\ GoodStrategy(st, Len(session), Len(orders))
  BY <1>11, <1>21, Zenon
<1> QED
  BY <1>2, <1>15, <1>20, <1>22, <1>23, <1>24, <1>25 DEF SubscriptionEffect

LEMMA CancelsAreOrders ==
    ASSUME TypeOK, NEW x \in Strategies
    PROVE  CancelsOf(x) \subseteq DOMAIN orders
<1>1. OrderNumber(x) \in {0} \cup 1..Len(orders)
  BY TypeSplit, Zenon DEF StrategiesGood, GoodStrategy, OrderNumber
<1> QED
  BY <1>1, Lengths, Zenon DEF CancelsOf

LEMMA FoundStrategies == \A s, PF : Find(s, PF) \subseteq Strategies
  BY Zenon DEF Find

\* Strategy x of session s goes.
UnSubscriptionEffect(s, x) ==
    /\ \A y \in Strategies : strategy'[y] =
         IF y = x THEN [OnUnSubscription(strategy[y]) EXCEPT !.live = FALSE] ELSE strategy[y]
    /\ \A j \in Sessions : session'[j] =
         IF j = s THEN Disconnect(session[j], x, strategy[x].gen) ELSE session[j]

LEMMA UnSubscriptionStep ==
    ASSUME TypeOK, NEW c \in Clients, NEW PF, HandleOnFOPairUnSubscription(c, PF),
           NEW s, s = StgMap[c]
    PROVE  /\ TypeOK' /\ s \in Sessions /\ Len(session') = Len(session) /\ Len(strategy') = Len(strategy)
           /\ \E x \in Find(s, PF) : UnSubscriptionEffect(s, x)
<1>1. PICK x \in Find(s, PF) :
        /\ asked' = asked \cup CancelsOf(x)
        /\ strategy' = [strategy EXCEPT ![x] = [OnUnSubscription(strategy[x]) EXCEPT !.live = FALSE]]
        /\ session' = [session EXCEPT ![s] = Disconnect(session[s], x, strategy[x].gen)]
  BY Zenon DEF HandleOnFOPairUnSubscription
<1>2. requests' = requests + 1 /\ UNCHANGED <<boot, handler, orders, told, died, history>>
  BY Zenon DEF HandleOnFOPairUnSubscription, Request
<1>3. s \in Sessions /\ x \in Strategies
  BY FoundStrategies, TypeSplit, Zenon DEF HandleOnFOPairUnSubscription, HandlerTypes
<1>4. Len(session') = Len(session) /\ Len(strategy') = Len(strategy)
  BY <1>1, LengthUpdated, TypeSplit, ZenonT(40) DEF SessionsGood, StrategiesGood
<1>5. Grows
  BY <1>2, <1>4, Lengths, SMT DEF Grows
<1>6. GoodSession(Disconnect(session[s], x, strategy[x].gen), Len(strategy)', Len(orders)')
  BY <1>3, <1>5, StillGood, DisconnectGood, Zenon
<1>7. GoodStrategy([OnUnSubscription(strategy[x]) EXCEPT !.live = FALSE], Len(session)', Len(orders)')
  BY <1>3, <1>5, StillGood, UnSubscribedGood, Zenon
<1>8. SessionsGood' /\ \A j \in Sessions : session'[j] =
        IF j = s THEN Disconnect(session[s], x, strategy[x].gen) ELSE session[j]
  BY <1>1, <1>3, <1>5, <1>6, SessionUpdated
<1>9. StrategiesGood' /\ \A y \in Strategies : strategy'[y] =
        IF y = x THEN [OnUnSubscription(strategy[x]) EXCEPT !.live = FALSE] ELSE strategy[y]
  BY <1>1, <1>3, <1>5, <1>7, StrategyUpdated
<1>10. TypeOK'
  <2>1. OrdersGood'
    BY <1>2, <1>5, OrdersKept, Zenon
  <2>2. asked' \subseteq DOMAIN orders'
    BY <1>1, <1>2, <1>3, CancelsAreOrders, TypeSplit, Zenon
  <2>3. ProcessTypes'
    BY <1>2, TypeSplit, SMT DEF ProcessTypes
  <2> QED
    BY <1>2, <1>5, <1>8, <1>9, <2>1, <2>2, <2>3, ActiveTypes, Zenon
<1> QED
  BY <1>3, <1>4, <1>8, <1>9, <1>10, Zenon DEF UnSubscriptionEffect

LEMMA DiffStep ==
    ASSUME TypeOK, NEW c \in Clients, NEW p \in Packets, HandleOnFOPairDiff(c, p),
           NEW s, s = StgMap[c], NEW found, found = Find(s, p.PORTFOLIONAME)
    PROVE  /\ TypeOK' /\ s \in Sessions /\ session' = session
           /\ \/ /\ found = {} /\ Len(strategy') = Len(strategy) + 1
                 /\ \A y \in Strategies : strategy'[y] = strategy[y]
                 /\ \E BLQ \in LotSizes(s, p.TokenFar) : strategy'[Len(strategy) + 1] =
                      [NewStrategy(s, p.PORTFOLIONAME, "diff", BLQ) EXCEPT !.quotes = TRUE]
              \/ /\ found # {} /\ Len(strategy') = Len(strategy)
                 /\ \A y \in Strategies : strategy'[y] =
                      [strategy[y] EXCEPT !.quotes = strategy[y].quotes \/ y \in found]
<1>1. PICK BLQ \in LotSizes(s, p.TokenFar) :
        strategy' = IF found = {}
                    THEN Append(strategy, [NewStrategy(s, p.PORTFOLIONAME, "diff", BLQ)
                                           EXCEPT !.quotes = TRUE])
                    ELSE [x \in Strategies |-> [strategy[x] EXCEPT !.quotes = strategy[x].quotes \/ x \in found]]
  BY Zenon DEF HandleOnFOPairDiff
<1>2. requests' = requests + 1 /\ UNCHANGED <<boot, handler, session, orders, asked, told, died, history>>
  BY Zenon DEF HandleOnFOPairDiff, Request
<1>3. s \in Sessions
  BY TypeSplit, Zenon DEF HandleOnFOPairDiff, HandlerTypes
<1>4. ASSUME Grows, StrategiesGood' PROVE TypeOK'
  <2>1. SessionsGood' /\ OrdersGood'
    BY <1>2, <1>4, SessionsKept, OrdersKept, Zenon
  <2>2. asked' \subseteq DOMAIN orders'
    BY <1>2, TypeSplit, Zenon
  <2>3. ProcessTypes'
    BY <1>2, TypeSplit, SMT DEF ProcessTypes
  <2> QED
    BY <1>2, <1>4, <2>1, <2>2, <2>3, ActiveTypes, Zenon
<1>5. CASE found = {}
  <2>1. PICK sx : sx = [NewStrategy(s, p.PORTFOLIONAME, "diff", BLQ) EXCEPT !.quotes = TRUE]
    OBVIOUS
  <2>2. strategy' = Append(strategy, sx)
    BY <1>1, <1>5, <2>1, Zenon
  <2>3. GoodStrategy(sx, Len(session), Len(orders))
    <3>1. GoodStrategy(NewStrategy(s, p.PORTFOLIONAME, "diff", BLQ), Len(session), Len(orders))
      BY <1>3, LotKinds, PacketTypes, NewStrategyGood, Lengths, Zenon DEF Sessions
    <3> QED
      BY <2>1, <3>1, FlagSet, Zenon
  <2>4. Len(strategy') = Len(strategy) + 1
    <3>1. sx \in StrategyRecords /\ strategy \in Seq(StrategyRecords)
      BY <2>3, TypeSplit, Zenon DEF GoodStrategy, StrategiesGood
    <3> QED
      BY <2>2, <3>1, Appended
  <2>5. Grows
    BY <1>2, <2>4, Lengths, SMT DEF Grows
  <2>6. /\ StrategiesGood' /\ \A y \in Strategies : strategy'[y] = strategy[y]
        /\ strategy'[Len(strategy) + 1] = sx
    BY <1>2, <2>2, <2>3, <2>5, StrategyAppended
  <2> QED
    BY <1>2, <1>3, <1>4, <1>5, <2>1, <2>4, <2>5, <2>6, Zenon
<1>6. CASE found # {}
  <2>1. strategy' = [x \in Strategies |-> [strategy[x] EXCEPT !.quotes = strategy[x].quotes \/ x \in found]]
    BY <1>1, <1>6, Zenon
  <2>2. ASSUME NEW y \in Strategies
        PROVE  GoodStrategy([strategy[y] EXCEPT !.quotes = strategy[y].quotes \/ y \in found],
                            Len(session), Len(orders))
    <3>1. (strategy[y].quotes \/ y \in found) \in BOOLEAN
      BY Zenon
    <3>2. GoodStrategy(strategy[y], Len(session), Len(orders))
      BY TypeSplit, Zenon DEF StrategiesGood
    <3> QED
      BY <3>1, <3>2, FlagSet, Zenon
  <2>3. /\ strategy' = [x \in Strategies |-> strategy'[x]]
        /\ \A y \in Strategies : strategy'[y] =
             [strategy[y] EXCEPT !.quotes = strategy[y].quotes \/ y \in found]
    BY <2>1, Zenon
  <2>4. Len(strategy') = Len(strategy)
    <3>1. strategy' \in [1..Len(strategy) -> StrategyRecords]
      BY <2>2, <2>3, ZenonT(40) DEF GoodStrategy, Strategies
    <3> QED
      BY <3>1, Mapped, Lengths
  <2>5. Grows
    BY <1>2, <2>4, Lengths, SMT DEF Grows
  <2>6. StrategiesGood'
    BY <1>2, <2>2, <2>3, <2>5, StrategiesMapped, Zenon
  <2> QED
    BY <1>2, <1>3, <1>4, <1>6, <2>3, <2>4, <2>5, <2>6, Zenon
<1> QED
  BY <1>5, <1>6, Zenon

-----------------------------------------------------------------------------
(* Manual orders.                                                            *)

LEMMA OrderAppended ==
    ASSUME TypeOK, Grows, NEW o, GoodOrder(o, Len(strategy)'), orders' = Append(orders, o)
    PROVE  /\ OrdersGood' /\ Len(orders') = Len(orders) + 1
           /\ \A i \in DOMAIN orders : orders'[i] = orders[i]
           /\ orders'[Len(orders) + 1] = o
<1>1. o \in OrderRecords /\ orders \in Seq(OrderRecords)
  BY TypeSplit, Zenon DEF GoodOrder, OrdersGood
<1>2. /\ orders' \in Seq(OrderRecords) /\ Len(orders') = Len(orders) + 1
      /\ \A y \in 1..Len(orders) : orders'[y] = orders[y]
      /\ orders'[Len(orders) + 1] = o
  BY <1>1, Appended
<1>3. \A y \in 1..Len(orders') : y \in 1..Len(orders) \/ y = Len(orders) + 1
  BY <1>2, Lengths, SMT
<1> QED
  BY <1>2, <1>3, StillGood, Lengths, Zenon DEF OrdersGood

\* The length of the orders, before Grows is known.
LEMMA OrderSent ==
    ASSUME TypeOK, NEW o, GoodOrder(o, Len(strategy)), orders' = Append(orders, o)
    PROVE  Len(orders') = Len(orders) + 1
<1>1. o \in OrderRecords /\ orders \in Seq(OrderRecords)
  BY TypeSplit, Zenon DEF GoodOrder, OrdersGood
<1> QED
  BY <1>1, Appended

\* The order itself.
Sent(tag, far, x) == [tag |-> tag, far |-> far, obj |-> x, state |-> "sent"]

LEMMA SentGood ==
    ASSUME NEW n \in Nat, NEW tag \in Nat, NEW far \in FirstLegs, NEW x \in {0} \cup 1..n
    PROVE  GoodOrder(Sent(tag, far, x), n)
  BY SMT DEF GoodOrder, OrderRecords, Sent

LEMMA EntryPacks ==
    ASSUME NEW D \in Dictionaries, NEW t
    PROVE  Entry(D, t) \in Packs
  BY Dictionary, Zenon DEF Entry, Packs

\* Session s becomes r.
OnlySession(s, r) == \A j \in Sessions : session'[j] = IF j = s THEN r ELSE session[j]

LEMMA ManualOrderStep ==
    ASSUME TypeOK, NEW c \in Clients, NEW token \in AllTokens, ManualOrderEntry(c, token),
           NEW s, s = StgMap[c]
    PROVE  /\ TypeOK' /\ s \in Sessions /\ strategy' = strategy /\ Len(session') = Len(session)
           /\ Len(orders') = Len(orders) + 1 /\ \A o \in DOMAIN orders : orders'[o] = orders[o]
           /\ orders'[Len(orders) + 1] = Sent(Tag(c, Manual), token, 0)
           /\ \E D \in Dictionaries : OnlySession(s, [session[s] EXCEPT !.SymbolDictionary = D])
<1>1. PICK D : D = [t \in DOMAIN session[s].SymbolDictionary \cup {token} |->
                        Entry(session[s].SymbolDictionary, t)]
  OBVIOUS
<1>2. PICK r : r = [session[s] EXCEPT !.SymbolDictionary = D]
  OBVIOUS
<1>3. PICK o : o = Sent(Tag(c, Manual), token, 0)
  OBVIOUS
<1>4. /\ orders' = Append(orders, o) /\ requests' = requests + 1
      /\ UNCHANGED <<boot, handler, strategy, asked, told, died, history>>
  BY <1>3, Zenon DEF ManualOrderEntry, SendOrder, Request, Sent
<1>5. session' = [session EXCEPT ![s] = r]
  BY <1>1, <1>2, Zenon DEF ManualOrderEntry
<1>6. s \in Sessions
  BY TypeSplit, Zenon DEF ManualOrderEntry, HandlerTypes
<1>7. D \in Dictionaries
  <2>1. session[s].SymbolDictionary \in Dictionaries
    BY <1>6, TypeSplit, SessionFields, Zenon DEF SessionsGood
  <2>2. DOMAIN D \subseteq AllTokens /\ \A t \in DOMAIN D : D[t] \in Packs
    BY <1>1, <2>1, Dictionary, EntryPacks, Zenon
  <2>3. D \in [DOMAIN D -> Packs]
    BY <1>1, <2>2, Zenon
  <2> QED
    BY <2>2, <2>3, Dictionary, Zenon
<1>8. GoodOrder(o, Len(strategy))
  <2>1. Tag(c, Manual) \in Nat
    BY TagIsNat, Zenon DEF SessionAssumption
  <2> QED
    BY <1>3, <2>1, SentGood, Lengths, Zenon DEF FirstLegs
<1>9. Len(orders') = Len(orders) + 1
  BY <1>4, <1>8, OrderSent, Zenon
<1>10. Len(session') = Len(session)
  BY <1>5, LengthUpdated, TypeSplit, Zenon DEF SessionsGood
<1>11. Grows
  BY <1>4, <1>9, <1>10, Lengths, SMT DEF Grows
<1>12. OrdersGood' /\ (\A i \in DOMAIN orders : orders'[i] = orders[i]) /\ orders'[Len(orders) + 1] = o
  BY <1>4, <1>8, <1>11, OrderAppended
<1>13. GoodSession(r, Len(strategy)', Len(orders)')
  BY <1>2, <1>6, <1>7, <1>11, StillGood, DictionarySet, Zenon
<1>14. SessionsGood' /\ \A j \in Sessions : session'[j] = IF j = s THEN r ELSE session[j]
  BY <1>5, <1>6, <1>11, <1>13, SessionUpdated
<1>15. TypeOK'
  <2>1. StrategiesGood'
    BY <1>4, <1>11, StrategiesKept, Zenon
  <2>2. (asked \subseteq DOMAIN orders)'
    BY <1>4, <1>11, <1>12, AskedKept, TypeSplit, Zenon
  <2>3. ProcessTypes'
    BY <1>4, TypeSplit, SMT DEF ProcessTypes
  <2> QED
    BY <1>4, <1>11, <1>12, <1>14, <2>1, <2>2, <2>3, ActiveTypes, Zenon
<1> QED
  BY <1>2, <1>3, <1>4, <1>6, <1>7, <1>9, <1>10, <1>12, <1>14, <1>15, Zenon DEF OnlySession

LEMMA ManualChangeStep ==
    ASSUME TypeOK, NEW c \in Clients, NEW o \in DOMAIN orders, ManualOrder_Mod_CNclEntry(c, o)
    PROVE  TypeOK' /\ session' = session /\ strategy' = strategy /\ orders' = orders
<1>1. requests' = requests + 1 /\ asked' \subseteq asked \cup {o}
      /\ UNCHANGED <<boot, handler, session, strategy, orders, told, died, history>>
  BY Zenon DEF ManualOrder_Mod_CNclEntry, Request
<1>2. Grows
  BY <1>1, Lengths, SMT DEF Grows
<1>3. SessionsGood' /\ StrategiesGood' /\ OrdersGood'
  BY <1>1, <1>2, SessionsKept, StrategiesKept, OrdersKept, Zenon
<1>4. (asked \subseteq DOMAIN orders)'
  BY <1>1, TypeSplit, Zenon
<1>5. ProcessTypes'
  BY <1>1, TypeSplit, SMT DEF ProcessTypes
<1> QED
  BY <1>1, <1>2, <1>3, <1>4, <1>5, ActiveTypes, Zenon

-----------------------------------------------------------------------------
(* Dispose.                                                                  *)

\* The session after StopAllOrder, and after EraseAll.
Halted(r, T) == [r EXCEPT !.phase = "stopped", !.SubStatus = r.SubStatus \ T,
                          !.Datasock = FALSE]
Cleared(r, T) == [r EXCEPT !.phase = "erased", !.SymbolDictionary = <<>>,
                           !.DataPack = {d \in r.DataPack : d.token \notin T}]

LEMMA StopAllOrderStep ==
    ASSUME TypeOK, NEW s \in Sessions, StopAllOrder(s)
    PROVE  /\ TypeOK' /\ Len(session') = Len(session) /\ Len(strategy') = Len(strategy)
           /\ session[s].phase = "exiting"
           /\ \A x \in Strategies : strategy'[x] \in {strategy[x], OnUnSubscription(strategy[x])}
           /\ \E T : OnlySession(s, Halted(session[s], T))
<1>1. PICK reached : reached = Held(s, StoppedPFs(s))
  OBVIOUS
<1>2. PICK T : T = UNION {Tokens(session[s].SymbolDictionary[t]) :
                             t \in DOMAIN session[s].SymbolDictionary}
  OBVIOUS
<1>3. PICK r : r = Halted(session[s], T)
  OBVIOUS
<1>4. /\ session[s].phase = "exiting"
      /\ asked' = asked \cup UNION {CancelsOf(x) : x \in reached}
      /\ strategy' = [x \in Strategies |->
                        IF x \in reached THEN OnUnSubscription(strategy[x]) ELSE strategy[x]]
      /\ shadowed' = shadowed \cup {x \in Strategies \ reached : strategy[x].ses = s}
      /\ UNCHANGED <<boot, handler, orders, told, requests, died, heard, known>>
  BY <1>1, Zenon DEF StopAllOrder
<1>5. session' = [session EXCEPT ![s] = r]
  BY <1>2, <1>3, Zenon DEF StopAllOrder, Halted
<1>6. reached \subseteq Strategies
  BY <1>1, FoundStrategies, Zenon DEF Held
<1>7. Len(session') = Len(session)
  BY <1>5, LengthUpdated, TypeSplit, Zenon DEF SessionsGood
<1>8. /\ strategy' = [x \in Strategies |-> strategy'[x]]
      /\ \A x \in Strategies : strategy'[x] =
           IF x \in reached THEN OnUnSubscription(strategy[x]) ELSE strategy[x]
  BY <1>4, Zenon
<1>9. ASSUME NEW x \in Strategies PROVE GoodStrategy(strategy'[x], Len(session), Len(orders))
  <2>1. GoodStrategy(strategy[x], Len(session), Len(orders))
    BY TypeSplit, Zenon DEF StrategiesGood
  <2>2. GoodStrategy(OnUnSubscription(strategy[x]), Len(session), Len(orders))
    BY <2>1, UnSubscribedGood, Zenon
  <2> QED
    BY <1>8, <2>1, <2>2, Zenon
<1>10. Len(strategy') = Len(strategy)
  <2>1. strategy' \in [1..Len(strategy) -> StrategyRecords]
    BY <1>8, <1>9, Zenon DEF GoodStrategy, Strategies
  <2> QED
    BY <2>1, Mapped, Lengths
<1>11. Grows
  <2>1. orders' = orders
    BY <1>4, Zenon
  <2> QED
    BY <1>7, <1>10, <2>1, Lengths, SMT DEF Grows
<1>12. StrategiesGood'
  BY <1>4, <1>7, <1>8, <1>9, <1>11, StrategiesMapped, Zenon
<1>13. GoodSession(r, Len(strategy)', Len(orders)')
  BY <1>3, <1>11, StillGood, StoppedGood, Zenon DEF Halted
<1>14. SessionsGood' /\ \A j \in Sessions : session'[j] = IF j = s THEN r ELSE session[j]
  BY <1>5, <1>11, <1>13, SessionUpdated
<1>15. OrdersGood'
  BY <1>4, <1>11, OrdersKept, Zenon
<1>16. (asked \subseteq DOMAIN orders)'
  BY <1>4, <1>6, CancelsAreOrders, TypeSplit, Zenon
<1>17. ProcessTypes'
  BY <1>4, TypeSplit, Zenon DEF ProcessTypes
<1>18. HistoryTypes'
  <2>1. Strategies' = Strategies /\ DOMAIN orders' = DOMAIN orders
    BY <1>4, <1>10, Zenon DEF Strategies
  <2> QED
    BY <1>4, <2>1, TypeSplit, Zenon DEF HistoryTypes
<1>19. HandlerTypes' /\ BootTypes'
  BY <1>4, <1>11, HandlerKept, TypeSplit, Zenon DEF BootTypes, boot
<1>20. TypeOK'
  BY <1>12, <1>14, <1>15, <1>16, <1>17, <1>18, <1>19, TypeSplit, PTL
<1> QED
  BY <1>3, <1>4, <1>7, <1>8, <1>10, <1>14, <1>20, Zenon DEF OnlySession

LEMMA EraseAllStep ==
    ASSUME TypeOK, NEW s \in Sessions, EraseAll(s)
    PROVE  /\ TypeOK' /\ Len(session') = Len(session) /\ Len(strategy') = Len(strategy)
           /\ session[s].phase = "stopped"
           /\ \E gone \in SUBSET Strategies :
                /\ \A x \in Strategies : strategy'[x] =
                     [strategy[x] EXCEPT !.live = strategy[x].live /\ x \notin gone]
                /\ \A x \in gone : strategy[x].ses = s
           /\ \E T : OnlySession(s, Cleared(session[s], T))
<1>1. PICK gone : gone = Held(s, {session[s].SymbolDictionary[t].PORTFOLIONAME :
                                     t \in DOMAIN session[s].SymbolDictionary})
  OBVIOUS
<1>2. PICK T : T = UNION {{session[s].SymbolDictionary[t].TokenFar,
                           session[s].SymbolDictionary[t].TokenNear} :
                             t \in DOMAIN session[s].SymbolDictionary}
  OBVIOUS
<1>3. PICK r : r = Cleared(session[s], T)
  OBVIOUS
<1>4. /\ session[s].phase = "stopped"
      /\ strategy' = [x \in Strategies |-> [strategy[x] EXCEPT !.live = strategy[x].live /\ x \notin gone]]
      /\ StgMap' = [StgMap EXCEPT ![session[s].client] = 0]
      /\ UNCHANGED <<boot, cimlist, loadCimList, orders, asked, told, requests, died, history>>
  BY <1>1, Zenon DEF EraseAll
<1>5. session' = [session EXCEPT ![s] = r]
  BY <1>2, <1>3, Zenon DEF EraseAll, Cleared
<1>6. gone \subseteq Strategies /\ \A x \in gone : strategy[x].ses = s
  BY <1>1, Zenon DEF Held, Find
<1>7. Len(session') = Len(session)
  BY <1>5, LengthUpdated, TypeSplit, Zenon DEF SessionsGood
<1>8. /\ strategy' = [x \in Strategies |-> strategy'[x]]
      /\ \A x \in Strategies : strategy'[x] =
           [strategy[x] EXCEPT !.live = strategy[x].live /\ x \notin gone]
  BY <1>4, Zenon
<1>9. ASSUME NEW x \in Strategies PROVE GoodStrategy(strategy'[x], Len(session), Len(orders))
  <2>1. PICK b \in BOOLEAN : b = (strategy[x].live /\ x \notin gone)
    OBVIOUS
  <2>2. GoodStrategy(strategy[x], Len(session), Len(orders))
    BY TypeSplit, Zenon DEF StrategiesGood
  <2>3. GoodStrategy([strategy[x] EXCEPT !.live = b], Len(session), Len(orders))
    BY <2>2, FlagSet, Zenon
  <2>4. strategy'[x] = [strategy[x] EXCEPT !.live = b]
    BY <1>8, <2>1, Zenon
  <2> QED
    BY <2>3, <2>4, Zenon
<1>10. Len(strategy') = Len(strategy)
  <2>1. strategy' \in [1..Len(strategy) -> StrategyRecords]
    BY <1>8, <1>9, Zenon DEF GoodStrategy, Strategies
  <2> QED
    BY <2>1, Mapped, Lengths
<1>11. Grows
  <2>1. orders' = orders
    BY <1>4, Zenon
  <2> QED
    BY <1>7, <1>10, <2>1, Lengths, SMT DEF Grows
<1>12. StrategiesGood'
  BY <1>4, <1>7, <1>8, <1>9, <1>11, StrategiesMapped, Zenon
<1>13. GoodSession(r, Len(strategy)', Len(orders)')
  BY <1>3, <1>11, StillGood, ErasedGood, Zenon DEF Cleared
<1>14. SessionsGood' /\ \A j \in Sessions : session'[j] = IF j = s THEN r ELSE session[j]
  BY <1>5, <1>11, <1>13, SessionUpdated
<1>15. OrdersGood'
  BY <1>4, <1>11, OrdersKept, Zenon
<1>16. HistoryTypes'
  BY <1>4, <1>11, <1>15, HistoryKept, Zenon
<1>17. ProcessTypes' /\ BootTypes' /\ (asked \subseteq DOMAIN orders)'
  BY <1>4, TypeSplit, Zenon DEF ProcessTypes, BootTypes, boot
<1>18. HandlerTypes'
  <2>1. Sessions' = Sessions
    BY <1>7, Zenon DEF Sessions
  <2>2. StgMap' \in [Clients -> {0} \cup Sessions']
    BY <1>4, <2>1, TypeSplit, Zenon DEF HandlerTypes
  <2> QED
    BY <1>4, <2>2, TypeSplit, Zenon DEF HandlerTypes
<1>19. TypeOK'
  BY <1>12, <1>14, <1>15, <1>16, <1>17, <1>18, TypeSplit, PTL
<1>20. OnlySession(s, Cleared(session[s], T))
  BY <1>3, <1>14, Zenon DEF OnlySession
<1>21. /\ gone \in SUBSET Strategies
       /\ \A x \in Strategies : strategy'[x] =
            [strategy[x] EXCEPT !.live = strategy[x].live /\ x \notin gone]
       /\ \A x \in gone : strategy[x].ses = s
  BY <1>6, <1>8, Zenon
<1> QED
  BY <1>4, <1>7, <1>10, <1>19, <1>20, <1>21, Zenon

-----------------------------------------------------------------------------
(* The data thread.                                                          *)

LEMMA DatasubscriberStep ==
    ASSUME TypeOK, NEW s \in Sessions, Datasubscriber(s)
    PROVE  /\ TypeOK' /\ Len(session') = Len(session) /\ strategy' = strategy
           /\ OnlySession(s, [session[s] EXCEPT !.Datasock = TRUE])
<1>1. session' = [session EXCEPT ![s] = [session[s] EXCEPT !.Datasock = TRUE]]
  BY Zenon DEF Datasubscriber
<1>2. UNCHANGED <<boot, handler, strategy, orders, asked, told, requests, died, history>>
  BY Zenon DEF Datasubscriber
<1>3. Len(session') = Len(session)
  BY <1>1, LengthUpdated, TypeSplit, Zenon DEF SessionsGood
<1>4. Grows
  BY <1>2, <1>3, Lengths, SMT DEF Grows
<1>5. GoodSession([session[s] EXCEPT !.Datasock = TRUE], Len(strategy)', Len(orders)')
  <2>1. GoodSession([session[s] EXCEPT !.Datasock = TRUE], Len(strategy), Len(orders))
    BY SocketSet, TypeSplit, Zenon DEF SessionsGood
  <2> QED
    BY <1>2, <2>1, Zenon
<1>6. SessionsGood' /\ \A j \in Sessions : session'[j] =
        IF j = s THEN [session[s] EXCEPT !.Datasock = TRUE] ELSE session[j]
  BY <1>1, <1>4, <1>5, SessionUpdated
<1>7. ProcessTypes'
  BY <1>2, TypeSplit, Zenon DEF ProcessTypes
<1>8. TypeOK'
  BY <1>2, <1>4, <1>6, <1>7, QuietTypes, Zenon
<1> QED
  BY <1>2, <1>3, <1>6, <1>8, Zenon DEF OnlySession

LEMMA LookStep ==
    ASSUME TypeOK, NEW s \in Sessions, Look(s)
    PROVE  /\ TypeOK' /\ Len(session') = Len(session) /\ strategy' = strategy
           /\ \E d \in session[s].DataPack :
                /\ d.obj \in Strategies /\ strategy[d.obj].live /\ MayQuote(strategy[d.obj])
                /\ \A j \in Sessions : session'[j] =
                     IF j = s THEN [session[s] EXCEPT !.hand = d.obj] ELSE session[j]
<1>1. PICK d \in session[s].DataPack :
        /\ strategy[d.obj].live /\ MayQuote(strategy[d.obj])
        /\ session' = [session EXCEPT ![s] = [session[s] EXCEPT !.hand = d.obj]]
  BY Zenon DEF Look
<1>2. UNCHANGED <<boot, handler, strategy, orders, asked, told, requests, died, history>>
  BY Zenon DEF Look
<1>3. GoodSession(session[s], Len(strategy), Len(orders)) /\ d.obj \in Strategies
  BY TypeSplit, Zenon DEF SessionsGood, GoodSession, Strategies
<1>4. Len(session') = Len(session)
  BY <1>1, LengthUpdated, TypeSplit, Zenon DEF SessionsGood
<1>5. Grows
  BY <1>2, <1>4, Lengths, SMT DEF Grows
<1>6. GoodSession([session[s] EXCEPT !.hand = d.obj], Len(strategy)', Len(orders)')
  <2>1. GoodSession([session[s] EXCEPT !.hand = d.obj], Len(strategy), Len(orders))
    BY <1>3, HandSet, Lengths, Zenon DEF Strategies
  <2> QED
    BY <1>2, <2>1, Zenon
<1>7. SessionsGood' /\ \A j \in Sessions : session'[j] =
        IF j = s THEN [session[s] EXCEPT !.hand = d.obj] ELSE session[j]
  BY <1>1, <1>5, <1>6, SessionUpdated
<1>8. ProcessTypes'
  BY <1>2, TypeSplit, Zenon DEF ProcessTypes
<1>9. TypeOK'
  BY <1>2, <1>5, <1>7, <1>8, QuietTypes, Zenon
<1> QED
  BY <1>1, <1>2, <1>3, <1>4, <1>7, <1>9, Zenon

LEMMA SendStep ==
    ASSUME TypeOK, NEW s \in Sessions, Send(s), NEW x, x = session[s].hand
    PROVE  /\ TypeOK' /\ Len(session') = Len(session) /\ Len(strategy') = Len(strategy)
           /\ x \in Strategies /\ Len(orders') = Len(orders) + 1
           /\ \A o \in DOMAIN orders : orders'[o] = orders[o]
           /\ orders'[Len(orders) + 1] =
                 Sent(AddressOf(strategy[x]), strategy[x].NMPack.FARMONTH.TokenNo, x)
           /\ \A y \in Strategies : strategy'[y] =
                IF y = x
                THEN [strategy[x] EXCEPT !.status = IF strategy[x].live THEN "PENDING" ELSE strategy[x].status]
                ELSE strategy[y]
           /\ \A j \in Sessions : session'[j] =
                IF j = s THEN [session[s] EXCEPT !.hand = 0] ELSE session[j]
<1>1. PICK o : o = Sent(AddressOf(strategy[x]), strategy[x].NMPack.FARMONTH.TokenNo, x)
  OBVIOUS
<1>2. PICK v : v = IF strategy[x].live THEN "PENDING" ELSE strategy[x].status
  OBVIOUS
<1>3. PICK st : st = [strategy[x] EXCEPT !.status = v]
  OBVIOUS
<1>4. /\ x # 0 /\ orders' = Append(orders, o)
      /\ session' = [session EXCEPT ![s] = [session[s] EXCEPT !.hand = 0]]
      /\ UNCHANGED <<boot, handler, asked, told, requests, died, history>>
  BY <1>1, Zenon DEF Send, SendOrder, Sent
<1>5. strategy' = [strategy EXCEPT ![x] = st]
  BY <1>2, <1>3, Zenon DEF Send
<1>6. /\ x \in Strategies
      /\ GoodSession(session[s], Len(strategy), Len(orders))
      /\ GoodStrategy(strategy[x], Len(session), Len(orders))
  <2>1. GoodSession(session[s], Len(strategy), Len(orders))
    BY TypeSplit, Zenon DEF SessionsGood
  <2>2. x \in 1..Len(strategy)
    BY <1>4, <2>1, Zenon DEF GoodSession
  <2> QED
    BY <2>1, <2>2, TypeSplit, Zenon DEF StrategiesGood, Strategies
<1>7. GoodStrategy(st, Len(session), Len(orders))
  <2>1. strategy[x].status \in {"NONE", "PENDING", "OPEN", "TRADE", "CANCEL"}
    BY <1>6, SMT DEF GoodStrategy, StrategyRecords
  <2>2. v \in {"NONE", "PENDING", "OPEN", "TRADE", "CANCEL"}
    BY <1>2, <2>1, Zenon
  <2> QED
    BY <1>3, <1>6, <2>2, StatusSet, Zenon
<1>8. GoodOrder(o, Len(strategy))
  <2>1. AddressOf(strategy[x]) \in Nat
    <3>1. strategy[x].pf \in Portfolio /\ strategy[x].ses \in Sessions
      BY <1>6, StrategyFields, Zenon DEF Sessions
    <3>2. Tag(session[strategy[x].ses].client, strategy[x].pf) \in Nat
      BY <3>1, ClientTypes, TagIsNat, Zenon
    <3> QED
      BY <3>2, SMT DEF AddressOf
  <2>2. strategy[x].NMPack.FARMONTH.TokenNo \in FirstLegs
    BY <1>6, StrategyFields, Zenon
  <2> QED
    BY <1>1, <1>6, <2>1, <2>2, SentGood, Lengths, Zenon DEF Strategies
<1>9. Len(orders') = Len(orders) + 1
  BY <1>4, <1>8, OrderSent, Zenon
<1>10. Len(session') = Len(session) /\ Len(strategy') = Len(strategy)
  BY <1>4, <1>5, LengthUpdated, TypeSplit, Zenon DEF SessionsGood, StrategiesGood
<1>11. Grows
  BY <1>9, <1>10, Lengths, SMT DEF Grows
<1>12. OrdersGood' /\ (\A i \in DOMAIN orders : orders'[i] = orders[i]) /\ orders'[Len(orders) + 1] = o
  <2>1. GoodOrder(o, Len(strategy)')
    BY <1>8, <1>10, Zenon
  <2> QED
    BY <1>4, <2>1, <1>11, OrderAppended
<1>13. GoodSession([session[s] EXCEPT !.hand = 0], Len(strategy)', Len(orders)')
  BY <1>11, StillGood, HandSet, Zenon DEF Grows
<1>14. SessionsGood' /\ \A j \in Sessions : session'[j] =
         IF j = s THEN [session[s] EXCEPT !.hand = 0] ELSE session[j]
  BY <1>4, <1>11, <1>13, SessionUpdated
<1>15. StrategiesGood' /\ \A y \in Strategies : strategy'[y] = IF y = x THEN st ELSE strategy[y]
  <2>1. GoodStrategy(st, Len(session)', Len(orders)')
    BY <1>7, <1>11, StrategyMonotone, Lengths, Zenon DEF Grows
  <2> QED
    BY <1>5, <1>6, <2>1, <1>11, StrategyUpdated
<1>16. TypeOK'
  <2>1. (asked \subseteq DOMAIN orders)'
    BY <1>4, <1>11, <1>12, AskedKept, TypeSplit, Zenon
  <2>2. ProcessTypes'
    BY <1>4, TypeSplit, Zenon DEF ProcessTypes
  <2> QED
    BY <1>4, <1>11, <1>12, <1>14, <1>15, <2>1, <2>2, ActiveTypes, Zenon
<1> QED
  BY <1>1, <1>2, <1>3, <1>6, <1>9, <1>10, <1>12, <1>14, <1>15, <1>16, Zenon

LEMMA CallErasedStep ==
    ASSUME TypeOK, NEW s \in Sessions, CallErased(s)
    PROVE  TypeOK' /\ session' = session /\ strategy' = strategy /\ orders' = orders
<1>1. died' = "erased" /\ UNCHANGED <<boot, handler, session, strategy, orders, asked, told, requests, history>>
  BY Zenon DEF CallErased
<1>2. Grows
  BY <1>1, Lengths, SMT DEF Grows
<1>3. SessionsGood'
  BY <1>1, <1>2, SessionsKept, Zenon
<1>4. ProcessTypes'
  BY <1>1, TypeSplit, SMT DEF ProcessTypes
<1>5. TypeOK'
  BY <1>1, <1>2, <1>3, <1>4, QuietTypes, Zenon
<1> QED
  BY <1>1, <1>5, Zenon

-----------------------------------------------------------------------------
(* The exchange.                                                             *)

\* The order changes its state and the sessions that subscribed to its tag get an event.
MovesEffect(o, to, kind) ==
    /\ TypeOK' /\ strategy' = strategy /\ Len(session') = Len(session)
    /\ Len(orders') = Len(orders)
    /\ \A i \in DOMAIN orders : orders'[i] =
         IF i = o THEN [orders[o] EXCEPT !.state = to] ELSE orders[i]
    /\ \A j \in Sessions : session'[j] =
         IF session[j].listens /\ orders[o].tag \in SubscribedTags(session[j].client)
         THEN [session[j] EXCEPT !.inbox = Append(session[j].inbox, [order |-> o, kind |-> kind])]
         ELSE session[j]

LEMMA MovesStep ==
    ASSUME TypeOK, NEW o \in DOMAIN orders, NEW from, NEW to \in {"working", "done"},
           NEW kind \in {"confirmed", "traded", "cancelled", "refused"}, Moves(o, from, to, kind),
           asked' \subseteq asked
    PROVE  MovesEffect(o, to, kind)
<1>1. PICK r : r = [orders[o] EXCEPT !.state = to]
  OBVIOUS
<1>2. /\ orders' = [orders EXCEPT ![o] = r]
      /\ UNCHANGED <<boot, handler, strategy, told, requests, died, history>>
  BY <1>1, Zenon DEF Moves
<1>3. /\ session' = [j \in Sessions |-> session'[j]]
      /\ \A j \in Sessions : session'[j] =
           IF session[j].listens /\ orders[o].tag \in SubscribedTags(session[j].client)
           THEN [session[j] EXCEPT !.inbox = Append(session[j].inbox, [order |-> o, kind |-> kind])]
           ELSE session[j]
  <2>1. \A j \in Sessions : TagsOf[session[j].client] = SubscribedTags(session[j].client)
    BY ClientTypes, Zenon DEF TagsOf
  <2>2. session' = [j \in Sessions |->
          IF session[j].listens /\ orders[o].tag \in TagsOf[session[j].client]
          THEN [session[j] EXCEPT !.inbox = Append(session[j].inbox, [order |-> o, kind |-> kind])]
          ELSE session[j]]
    BY Zenon DEF Moves, Publish
  <2> QED
    BY <2>1, <2>2, Zenon
<1>4. o \in 1..Len(orders) /\ r \in OrderRecords /\ GoodOrder(r, Len(strategy))
  <2>1. GoodOrder(orders[o], Len(strategy)) /\ o \in 1..Len(orders)
    BY TypeSplit, Lengths, Zenon DEF OrdersGood
  <2> QED
    BY <1>1, <2>1, SMT DEF GoodOrder, OrderRecords
<1>5. /\ orders' \in Seq(OrderRecords) /\ Len(orders') = Len(orders)
      /\ \A i \in 1..Len(orders) : orders'[i] = IF i = o THEN r ELSE orders[i]
  <2>1. orders \in Seq(OrderRecords)
    BY TypeSplit, Zenon DEF OrdersGood
  <2> QED
    BY <1>2, <1>4, <2>1, Updated
<1>6. OrdersGood'
  BY <1>2, <1>4, <1>5, TypeSplit, Zenon DEF OrdersGood
<1>7. ASSUME NEW j \in Sessions PROVE GoodSession(session'[j], Len(strategy), Len(orders))
  <2>1. GoodSession(session[j], Len(strategy), Len(orders))
    BY TypeSplit, Zenon DEF SessionsGood
  <2>2. PICK e : e = [order |-> o, kind |-> kind]
    OBVIOUS
  <2>3. PICK q : q = Append(session[j].inbox, e)
    OBVIOUS
  <2>4. q \in Seq(Events) /\ \A i \in DOMAIN q : q[i].order \in 1..Len(orders)
    <3>1. e \in Events /\ e.order \in 1..Len(orders)
      BY <1>4, <2>2, SMT DEF Events
    <3>2. session[j].inbox \in Seq(Events)
      BY <2>1, SessionFields, Zenon
    <3>3. /\ q \in Seq(Events) /\ DOMAIN q = 1..(Len(session[j].inbox) + 1)
          /\ \A i \in 1..Len(session[j].inbox) : q[i] = session[j].inbox[i]
          /\ q[Len(session[j].inbox) + 1] = e /\ Len(session[j].inbox) \in Nat
          /\ DOMAIN session[j].inbox = 1..Len(session[j].inbox)
      BY <2>3, <3>1, <3>2, SMT
    <3>4. \A i \in DOMAIN q : i \in 1..Len(session[j].inbox) \/ i = Len(session[j].inbox) + 1
      BY <3>3, SMT
    <3> QED
      BY <2>1, <3>1, <3>3, <3>4, Zenon DEF GoodSession
  <2>5. GoodSession([session[j] EXCEPT !.inbox = q], Len(strategy), Len(orders))
    BY <2>1, <2>4, InboxSet, Zenon
  <2> QED
    BY <1>3, <2>1, <2>2, <2>3, <2>5, Zenon
<1>8. SessionsGood' /\ Len(session') = Len(session)
  <2>1. session' \in [1..Len(session) -> SessionRecords]
    BY <1>3, <1>7, Zenon DEF GoodSession, Sessions
  <2>2. session' \in Seq(SessionRecords) /\ Len(session') = Len(session)
    BY <2>1, Mapped, Lengths
  <2> QED
    BY <1>2, <1>5, <1>7, <2>2, Zenon DEF SessionsGood, Sessions
<1>9. Grows
  BY <1>2, <1>5, <1>8, Lengths, SMT DEF Grows
<1>10. TypeOK'
  <2>1. StrategiesGood'
    BY <1>2, <1>9, StrategiesKept, Zenon
  <2>2. (asked \subseteq DOMAIN orders)'
    <3>1. asked' \subseteq DOMAIN orders
      BY TypeSplit, Zenon
    <3> QED
      BY <3>1, <1>6, <1>9, AskedKept, Zenon
  <2>3. ProcessTypes'
    BY <1>2, TypeSplit, Zenon DEF ProcessTypes
  <2> QED
    BY <1>2, <1>6, <1>8, <1>9, <2>1, <2>2, <2>3, ActiveTypes, Zenon
<1> QED
  BY <1>1, <1>2, <1>3, <1>5, <1>8, <1>10, Lengths, Zenon DEF MovesEffect

-----------------------------------------------------------------------------
(* The event thread.                                                         *)

LEMMA Products == \A A, B, C : B \subseteq C => A \X B \subseteq A \X C
  BY SMT

LEMMA FirstEvent ==
    ASSUME TypeOK, InboxTags, NEW s \in Sessions, session[s].inbox # <<>>, NEW e, e = Head(session[s].inbox)
    PROVE  /\ e.order \in DOMAIN orders /\ e.kind \in {"confirmed", "traded", "cancelled", "refused"}
           /\ orders[e.order].tag \in SubscribedTags(session[s].client)
<1>1. GoodSession(session[s], Len(strategy), Len(orders))
  BY TypeSplit, Zenon DEF SessionsGood
<1>2. session[s].inbox \in Seq(Events)
  BY <1>1, SessionFields, Zenon
<1>3. e = session[s].inbox[1] /\ 1 \in DOMAIN session[s].inbox /\ e \in Events
  BY <1>2, SMT
<1>4. e.order \in 1..Len(orders)
  BY <1>1, <1>3, Zenon DEF GoodSession
<1>5. e.kind \in {"confirmed", "traded", "cancelled", "refused"}
  BY <1>3, SMT DEF Events
<1> QED
  BY <1>3, <1>4, <1>5, Lengths, Zenon DEF InboxTags

\* What the handling of event e, decoded to d, does.
EventEffect(s, e, d, found) ==
    /\ TypeOK' /\ Len(session') = Len(session) /\ orders' = orders
    /\ session[s].listens /\ session[s].inbox # <<>>
    /\ \A j \in Sessions : session'[j] = IF j = s THEN Heard(session[s], d) ELSE session[j]
    /\ \/ d.MsgType # eORDER /\ UNCHANGED <<strategy, heard>>
       \/ /\ d.MsgType = eORDER
          /\ \E x, st :
               /\ x \in Strategies'
               /\ \/ x \in found /\ st = strategy[x] /\ Strategies' = Strategies
                  \/ /\ found = {} /\ x = Len(strategy) + 1
                     /\ Len(strategy') = Len(strategy) + 1
                     /\ st = NewStrategy(s, d.PFNum, "event", "zero")
               /\ strategy'[x] = After(st, e.order, e.kind)
               /\ GoodStrategy(st, Len(session), Len(orders))
               /\ \A y \in Strategies : y # x => strategy'[y] = strategy[y]
               /\ heard' = heard \cup {<<e.order, x>>}

LEMMA EventStep ==
    ASSUME TypeOK, InboxTags, NEW s \in Sessions, Eventsubscriber(s)
    PROVE  \A e, d, found :
             e = Head(session[s].inbox) /\ d = Decode(orders[e.order].tag) /\ found = Find(s, d.PFNum) =>
               EventEffect(s, e, d, found)
<1>0. SUFFICES ASSUME NEW e, NEW d, NEW found, e = Head(session[s].inbox),
                      d = Decode(orders[e.order].tag), found = Find(s, d.PFNum)
               PROVE  EventEffect(s, e, d, found)
  BY Zenon
<1>1. PICK x, all :
        /\ x = IF found = {} THEN Len(strategy) + 1 ELSE CHOOSE y \in found : TRUE
        /\ all = IF found = {} THEN Append(strategy, NewStrategy(s, d.PFNum, "event", "zero"))
                               ELSE strategy
  OBVIOUS
<1>2. /\ session[s].listens /\ session[s].inbox # <<>>
      /\ session' = [session EXCEPT ![s] = Heard(session[s], d)]
      /\ UNCHANGED <<boot, handler, orders, asked, told, requests, shadowed>>
  BY <1>0, Zenon DEF Eventsubscriber
<1>3. \/ d.MsgType # eORDER /\ UNCHANGED <<strategy, died, heard, known>>
      \/ /\ d.MsgType = eORDER
         /\ strategy' = [all EXCEPT ![x] = After(all[x], e.order, e.kind)]
         /\ died' = IF e.kind = "traded" /\ all[x].BLQ = "zero" THEN "division" ELSE died
         /\ heard' = heard \cup {<<e.order, x>>}
         /\ known' \in {known, known \cup {e.order}}
  BY <1>0, <1>1, Zenon DEF Eventsubscriber
<1>4. /\ e.order \in DOMAIN orders /\ e.kind \in {"confirmed", "traded", "cancelled", "refused"}
      /\ orders[e.order].tag \in SubscribedTags(session[s].client)
  BY <1>0, <1>2, FirstEvent, Zenon
<1>5. Len(session') = Len(session)
  BY <1>2, LengthUpdated, TypeSplit, Zenon DEF SessionsGood
<1>6. ASSUME Grows
      PROVE  /\ SessionsGood' /\ OrdersGood' /\ HandlerTypes' /\ BootTypes' /\ (asked \subseteq DOMAIN orders)'
             /\ \A j \in Sessions : session'[j] = IF j = s THEN Heard(session[s], d) ELSE session[j]
  <2>1. GoodSession(Heard(session[s], d), Len(strategy)', Len(orders)')
    BY <1>2, <1>6, StillGood, HeardGood, Zenon DEF Grows
  <2>2. SessionsGood' /\ \A j \in Sessions : session'[j] = IF j = s THEN Heard(session[s], d) ELSE session[j]
    BY <1>2, <1>6, <2>1, SessionUpdated
  <2>3. OrdersGood' /\ HandlerTypes'
    BY <1>2, <1>6, OrdersKept, HandlerKept, Zenon
  <2>4. BootTypes' /\ (asked \subseteq DOMAIN orders)'
    BY <1>2, TypeSplit, Zenon DEF BootTypes, boot
  <2> QED
    BY <2>2, <2>3, <2>4, Zenon
<1>7. CASE d.MsgType # eORDER
  <2>1. UNCHANGED <<strategy, died, heard, known>>
    BY <1>3, <1>7, Zenon
  <2>2. Grows
    BY <1>2, <1>5, <2>1, Lengths, SMT DEF Grows
  <2>3. StrategiesGood'
    BY <2>1, <2>2, StrategiesKept, Zenon
  <2>4. HistoryTypes'
    BY <1>2, <1>6, <2>1, <2>2, HistoryKept, Zenon DEF history
  <2>5. ProcessTypes'
    BY <1>2, <2>1, TypeSplit, Zenon DEF ProcessTypes
  <2>6. TypeOK'
    BY <1>6, <2>2, <2>3, <2>4, <2>5, TypeSplit, PTL
  <2> QED
    BY <1>2, <1>5, <1>6, <1>7, <2>1, <2>2, <2>6, Zenon DEF EventEffect
<1>8. CASE d.MsgType = eORDER
  <2>1. PICK st : st = all[x]
    OBVIOUS
  <2>2. PICK sn : sn = After(st, e.order, e.kind)
    OBVIOUS
  <2>3. /\ all \in Seq(StrategyRecords) /\ x \in 1..Len(all) /\ Len(all) \in Nat
        /\ Len(strategy) <= Len(all)
        /\ GoodStrategy(st, Len(session), Len(orders))
        /\ \A y \in Strategies : all[y] = strategy[y]
        /\ \A y \in 1..Len(all) : y \in Strategies \/ y = x
        /\ (found # {} => x \in found /\ Len(all) = Len(strategy) /\ st = strategy[x])
        /\ (found = {} => /\ x = Len(strategy) + 1 /\ Len(all) = Len(strategy) + 1
                          /\ st = NewStrategy(s, d.PFNum, "event", "zero"))
    <3>1. CASE found # {}
      <4>1. all = strategy /\ x \in found
        BY <1>1, <3>1, Zenon
      <4>2. x \in Strategies
        BY <1>0, <4>1, FoundStrategies, Zenon
      <4> QED
        BY <2>1, <3>1, <4>1, <4>2, TypeSplit, Lengths, SMT DEF StrategiesGood, Strategies
    <3>2. CASE found = {}
      <4>1. PICK sx : sx = NewStrategy(s, d.PFNum, "event", "zero")
        OBVIOUS
      <4>2. x = Len(strategy) + 1 /\ all = Append(strategy, sx)
        BY <1>1, <3>2, <4>1, Zenon
      <4>3. GoodStrategy(sx, Len(session), Len(orders))
        <5>1. d.PFNum \in Portfolio
          BY <1>0, <1>4, <1>8, ClientTypes, DecodeSubscribed, Zenon
        <5> QED
          BY <4>1, <5>1, NewStrategyGood, Lengths, Zenon DEF Sessions
      <4>4. sx \in StrategyRecords /\ strategy \in Seq(StrategyRecords)
        BY <4>3, TypeSplit, Zenon DEF GoodStrategy, StrategiesGood
      <4>5. /\ all \in Seq(StrategyRecords) /\ Len(all) = Len(strategy) + 1
            /\ \A y \in 1..Len(strategy) : all[y] = strategy[y]
            /\ all[Len(strategy) + 1] = sx
        BY <4>2, <4>4, Appended
      <4> QED
        BY <2>1, <3>2, <4>1, <4>2, <4>3, <4>5, Lengths, SMT DEF Strategies
    <3> QED
      BY <3>1, <3>2, Zenon
  <2>4. GoodStrategy(sn, Len(session), Len(orders))
    BY <1>4, <2>2, <2>3, AfterGood, Lengths, Zenon
  <2>5. /\ strategy' \in Seq(StrategyRecords) /\ Len(strategy') = Len(all)
        /\ \A y \in 1..Len(all) : strategy'[y] = IF y = x THEN sn ELSE all[y]
    <3>1. sn \in StrategyRecords /\ strategy' = [all EXCEPT ![x] = sn]
      BY <1>3, <1>8, <2>1, <2>2, <2>4, Zenon DEF GoodStrategy
    <3> QED
      BY <2>3, <3>1, Updated
  <2>6. Grows
    BY <1>2, <1>5, <2>3, <2>5, Lengths, SMT DEF Grows
  <2>7. StrategiesGood'
    <3>1. \A y \in 1..Len(all) : GoodStrategy(strategy'[y], Len(session), Len(orders))
      BY <2>3, <2>4, <2>5, TypeSplit, Zenon DEF StrategiesGood
    <3>2. Len(orders') = Len(orders)
      BY <1>2, Zenon
    <3> QED
      BY <1>5, <2>5, <3>1, <3>2, Zenon DEF StrategiesGood, Strategies
  <2>8. Strategies' = 1..Len(all) /\ Strategies \subseteq Strategies' /\ x \in Strategies'
    BY <2>3, <2>5, Lengths, SMT DEF Strategies
  <2>9. HistoryTypes'
    <3>1. orders' = orders /\ shadowed' = shadowed
      BY <1>2, Zenon
    <3>2. heard' = heard \cup {<<e.order, x>>} /\ known' \in {known, known \cup {e.order}}
      BY <1>3, <1>8, Zenon
    <3>3. /\ heard \subseteq (DOMAIN orders) \X Strategies /\ known \subseteq DOMAIN orders
          /\ shadowed \subseteq Strategies
      BY TypeSplit, Zenon DEF HistoryTypes
    <3>4. heard' \subseteq (DOMAIN orders) \X Strategies'
      <4>1. (DOMAIN orders) \X Strategies \subseteq (DOMAIN orders) \X Strategies'
        BY <2>8, Products, Zenon
      <4>2. <<e.order, x>> \in (DOMAIN orders) \X Strategies'
        BY <1>4, <2>8, SMT
      <4> QED
        BY <3>2, <3>3, <4>1, <4>2, Zenon
    <3>5. known' \subseteq DOMAIN orders /\ shadowed' \subseteq Strategies'
      BY <1>4, <2>8, <3>1, <3>2, <3>3, Zenon
    <3> QED
      BY <3>1, <3>4, <3>5, Zenon DEF HistoryTypes
  <2>10. ProcessTypes'
    <3>1. told' = told /\ requests' = requests /\ died' \in {died, "division"}
      BY <1>2, <1>3, <1>8, Zenon
    <3> QED
      BY <3>1, TypeSplit, SMT DEF ProcessTypes
  <2>11. TypeOK'
    BY <1>6, <2>6, <2>7, <2>9, <2>10, TypeSplit, PTL
  <2>12. \A y \in Strategies : y # x => strategy'[y] = strategy[y]
    BY <2>3, <2>5, Lengths, SMT DEF Strategies
  <2>13. \/ x \in found /\ st = strategy[x] /\ Strategies' = Strategies
         \/ /\ found = {} /\ x = Len(strategy) + 1 /\ Len(strategy') = Len(strategy) + 1
            /\ st = NewStrategy(s, d.PFNum, "event", "zero")
    BY <2>3, <2>5, <2>8, Zenon DEF Strategies
  <2>14. strategy'[x] = After(st, e.order, e.kind) /\ heard' = heard \cup {<<e.order, x>>}
    BY <1>3, <1>8, <2>2, <2>3, <2>5, Zenon
  <2> QED
    BY <1>2, <1>5, <1>6, <1>8, <2>3, <2>6, <2>8, <2>11, <2>12, <2>13, <2>14 DEF EventEffect
<1> QED
  BY <1>7, <1>8, Zenon

-----------------------------------------------------------------------------
(* The fields of a session after each kind of change.                        *)

\* What is subscribed, or was too early, still is, and a flag says so still.
MoreFed(r, q) ==
    /\ r.feed \cup r.early \subseteq q.feed \cup q.early
    /\ r.SubStatus \subseteq r.feed \cup r.early => q.SubStatus \subseteq q.feed \cup q.early

LEMMA SameFed == \A r : MoreFed(r, r)
  BY Zenon DEF MoreFed

LEMMA SocketFields ==
    ASSUME NEW r \in SessionRecords, NEW q, q = [r EXCEPT !.Datasock = TRUE]
    PROVE  /\ MoreFed(r, q) /\ q.client = r.client /\ q.cim = r.cim /\ q.phase = r.phase
           /\ q.SymbolDictionary = r.SymbolDictionary /\ q.DataPack = r.DataPack
           /\ q.hand = r.hand /\ q.inbox = r.inbox /\ q.listens = r.listens
           /\ q.manual = r.manual
  BY SMT DEF SessionRecords, MoreFed

LEMMA PhaseFields ==
    ASSUME NEW r \in SessionRecords, NEW v, NEW q, q = [r EXCEPT !.phase = v]
    PROVE  /\ q.phase = v /\ q.client = r.client /\ q.cim = r.cim
           /\ MoreFed(r, q) /\ q.SymbolDictionary = r.SymbolDictionary
           /\ q.DataPack = r.DataPack /\ q.hand = r.hand /\ q.inbox = r.inbox
           /\ q.listens = r.listens /\ q.manual = r.manual
  BY SMT DEF SessionRecords, MoreFed

LEMMA HandFields ==
    ASSUME NEW r \in SessionRecords, NEW v, NEW q, q = [r EXCEPT !.hand = v]
    PROVE  /\ q.hand = v /\ q.client = r.client /\ q.cim = r.cim /\ q.phase = r.phase
           /\ MoreFed(r, q) /\ q.SymbolDictionary = r.SymbolDictionary
           /\ q.DataPack = r.DataPack /\ q.inbox = r.inbox /\ q.listens = r.listens
           /\ q.manual = r.manual
  BY SMT DEF SessionRecords, MoreFed

LEMMA DictionaryFields ==
    ASSUME NEW r \in SessionRecords, NEW v, NEW q, q = [r EXCEPT !.SymbolDictionary = v]
    PROVE  /\ q.SymbolDictionary = v /\ q.client = r.client /\ q.cim = r.cim
           /\ q.phase = r.phase /\ MoreFed(r, q)
           /\ q.DataPack = r.DataPack /\ q.hand = r.hand /\ q.inbox = r.inbox
           /\ q.listens = r.listens /\ q.manual = r.manual
  BY SMT DEF SessionRecords, MoreFed

LEMMA InboxFields ==
    ASSUME NEW r \in SessionRecords, NEW v, NEW q, q = [r EXCEPT !.inbox = v]
    PROVE  /\ q.inbox = v /\ q.client = r.client /\ q.cim = r.cim
           /\ q.phase = r.phase /\ MoreFed(r, q)
           /\ q.SymbolDictionary = r.SymbolDictionary /\ q.DataPack = r.DataPack
           /\ q.hand = r.hand /\ q.listens = r.listens /\ q.manual = r.manual
  BY SMT DEF SessionRecords, MoreFed

LEMMA DisconnectFields ==
    ASSUME NEW r \in SessionRecords, NEW x, NEW g, NEW q, q = Disconnect(r, x, g)
    PROVE  /\ q.DataPack = {d \in r.DataPack : d.obj # x \/ d.gen # g}
           /\ q.client = r.client /\ q.cim = r.cim /\ q.phase = r.phase
           /\ MoreFed(r, q) /\ q.SymbolDictionary = r.SymbolDictionary
           /\ q.hand = r.hand /\ q.inbox = r.inbox /\ q.listens = r.listens /\ q.manual = r.manual
  BY SMT DEF SessionRecords, MoreFed, Disconnect

LEMMA ConnectFields ==
    ASSUME NEW r \in SessionRecords, NEW x, NEW g, NEW p, NEW q, q = Connect(r, x, g, p)
    PROVE  /\ q.DataPack = r.DataPack \cup Connections(x, g, p)
           /\ MoreFed(r, q) /\ q.client = r.client
           /\ r.SubStatus \subseteq r.feed \cup r.early => Tokens(p) \subseteq q.feed \cup q.early
           /\ q.cim = r.cim /\ q.phase = r.phase /\ q.hand = r.hand
           /\ q.inbox = r.inbox /\ q.listens = r.listens /\ q.manual = r.manual
<1> DEFINE new == Tokens(p) \ r.SubStatus
<1>1. /\ q.DataPack = r.DataPack \cup Connections(x, g, p) /\ q.client = r.client
      /\ q.cim = r.cim /\ q.phase = r.phase /\ q.hand = r.hand
      /\ q.inbox = r.inbox /\ q.listens = r.listens /\ q.manual = r.manual
      /\ q.SubStatus = r.SubStatus \cup new
      /\ q.feed = IF r.Datasock THEN r.feed \cup new ELSE r.feed
      /\ q.early = IF r.Datasock THEN r.early ELSE r.early \cup new
  BY SMT DEF SessionRecords, Connect, SubscribeTokens
<1>2. q.feed \cup q.early = r.feed \cup r.early \cup new
  BY <1>1, Zenon
<1> QED
  BY <1>1, <1>2, Zenon DEF MoreFed

LEMMA StoppedFields ==
    ASSUME NEW r \in SessionRecords, NEW T, NEW q, q = Halted(r, T)
    PROVE  /\ q.phase = "stopped" /\ q.SubStatus = r.SubStatus \ T
           /\ q.client = r.client /\ q.cim = r.cim
           /\ q.SymbolDictionary = r.SymbolDictionary /\ q.DataPack = r.DataPack
           /\ q.hand = r.hand /\ q.inbox = r.inbox /\ q.listens = r.listens /\ q.manual = r.manual
  BY SMT DEF SessionRecords, Halted

LEMMA ErasedFields ==
    ASSUME NEW r \in SessionRecords, NEW T, NEW q, q = Cleared(r, T)
    PROVE  /\ q.phase = "erased" /\ q.SymbolDictionary = <<>> /\ q.DataPack = {d \in r.DataPack : d.token \notin T}
           /\ q.client = r.client /\ q.cim = r.cim /\ MoreFed(r, q)
           /\ q.hand = r.hand /\ q.inbox = r.inbox /\ q.listens = r.listens /\ q.manual = r.manual
  BY SMT DEF SessionRecords, MoreFed, Cleared

LEMMA HeardFields ==
    ASSUME NEW r \in SessionRecords, NEW d, NEW q, q = Heard(r, d)
    PROVE  /\ q.inbox = (IF r.phase = "open" THEN Tail(r.inbox) ELSE <<>>)
           /\ q.listens = (r.phase = "open") /\ q.client = r.client /\ q.cim = r.cim
           /\ q.phase = r.phase /\ MoreFed(r, q)
           /\ q.SymbolDictionary = r.SymbolDictionary /\ q.DataPack = r.DataPack
           /\ q.hand = r.hand /\ q.manual = ManualOrderStore(r.manual, d, Head(r.inbox))
  BY SMT DEF SessionRecords, MoreFed, Heard

LEMMA NewSessionFields ==
    ASSUME NEW c, NEW cim, NEW q, q = NewSession(c, cim)
    PROVE  /\ q.client = c /\ q.cim = cim /\ q.phase = "open" /\ q.DataPack = {} /\ q.hand = 0
           /\ q.inbox = <<>> /\ q.listens = TRUE /\ q.manual = {} /\ q.SubStatus = {}
  BY SMT DEF NewSession

-----------------------------------------------------------------------------
(* The fields of a strategy after each kind of change.                       *)

\* The strategy is still the one that was made.
SameMaking(q, st) == q.ses = st.ses /\ q.pf = st.pf /\ q.by = st.by /\ q.BLQ = st.BLQ

LEMMA SubscribedFields ==
    ASSUME NEW st \in StrategyRecords, NEW p, NEW q, q = OnSubscription(st, p)
    PROVE  SameMaking(q, st) /\ q.live = st.live /\ q.pack = p /\ q.gen = st.gen + 1
  BY SMT DEF StrategyRecords, OnSubscription, SameMaking

LEMMA UnSubscribedFields ==
    ASSUME NEW st \in StrategyRecords, NEW q, q = OnUnSubscription(st)
    PROVE  SameMaking(q, st) /\ q.live = st.live /\ q.pack = st.pack /\ q.gen = st.gen
  BY SMT DEF StrategyRecords, OnUnSubscription, SameMaking

LEMMA GoneFields ==
    ASSUME NEW st \in StrategyRecords, NEW q, q = [OnUnSubscription(st) EXCEPT !.live = FALSE]
    PROVE  SameMaking(q, st) /\ q.live = FALSE /\ q.pack = st.pack /\ q.gen = st.gen
  BY SMT DEF StrategyRecords, OnUnSubscription, SameMaking

LEMMA FlagFields ==
    ASSUME NEW st \in StrategyRecords, NEW b, NEW q, q = [st EXCEPT !.quotes = b]
    PROVE  SameMaking(q, st) /\ q.live = st.live /\ q.pack = st.pack /\ q.gen = st.gen
  BY SMT DEF StrategyRecords, SameMaking

LEMMA StatusFields ==
    ASSUME NEW st \in StrategyRecords, NEW v, NEW q, q = [st EXCEPT !.status = v]
    PROVE  SameMaking(q, st) /\ q.live = st.live /\ q.pack = st.pack /\ q.gen = st.gen
  BY SMT DEF StrategyRecords, SameMaking

LEMMA LiveFields ==
    ASSUME NEW st \in StrategyRecords, NEW b, NEW q, q = [st EXCEPT !.live = b]
    PROVE  SameMaking(q, st) /\ q.live = b /\ q.pack = st.pack /\ q.gen = st.gen
  BY SMT DEF StrategyRecords, SameMaking

LEMMA NumberFields ==
    ASSUME NEW st \in StrategyRecords, NEW o, NEW q,
           q = [st EXCEPT !.NMPack.FARMONTHMOD.OrderNumber = o]
    PROVE  SameMaking(q, st) /\ q.live = st.live /\ q.pack = st.pack /\ q.gen = st.gen
<1> DEFINE N == [st.NMPack EXCEPT !.FARMONTHMOD.OrderNumber = o]
<1>1. q = [st EXCEPT !.NMPack = N]
  BY SMT DEF StrategyRecords
<1> HIDE DEF N
<1> QED
  BY <1>1, SMT DEF StrategyRecords, SameMaking

LEMMA AfterFields ==
    ASSUME NEW st \in StrategyRecords, NEW o, NEW kind, NEW q, q = After(st, o, kind)
    PROVE  SameMaking(q, st) /\ q.live = st.live /\ q.pack = st.pack /\ q.gen = st.gen
<1>1. CASE st.pack.TokenFar # orders[o].far
  BY <1>1, Zenon DEF After, SameMaking
<1>2. CASE st.pack.TokenFar = orders[o].far /\ kind = "confirmed"
  <2> DEFINE s1 == [st EXCEPT !.status = "OPEN"]
  <2>1. q = [s1 EXCEPT !.NMPack.FARMONTHMOD.OrderNumber = o]
    BY <1>2, SMT DEF After, StrategyRecords
  <2>2. s1 \in StrategyRecords
    BY SMT DEF StrategyRecords
  <2>3. SameMaking(s1, st) /\ s1.live = st.live /\ s1.pack = st.pack /\ s1.gen = st.gen
    BY StatusFields
  <2> HIDE DEF s1
  <2>4. SameMaking(q, s1) /\ q.live = s1.live /\ q.pack = s1.pack /\ q.gen = s1.gen
    BY <2>1, <2>2, NumberFields
  <2> QED
    BY <2>3, <2>4, Zenon DEF SameMaking
<1>3. CASE st.pack.TokenFar = orders[o].far /\ kind = "traded"
  BY <1>3, SMT DEF After, SameMaking, StrategyRecords
<1>4. CASE st.pack.TokenFar = orders[o].far /\ kind # "confirmed" /\ kind # "traded"
  BY <1>4, SMT DEF After, SameMaking, StrategyRecords
<1> QED
  BY <1>1, <1>2, <1>3, <1>4, Zenon

LEMMA NewStrategyFields ==
    ASSUME NEW s, NEW PF, NEW by, NEW BLQ, NEW q, q = NewStrategy(s, PF, by, BLQ)
    PROVE  /\ q.live = TRUE /\ q.ses = s /\ q.pf = PF /\ q.by = by /\ q.BLQ = BLQ /\ q.gen = 0
           /\ q.pack = NoPacket
  BY SMT DEF NewStrategy

LEMMA NewQuotingFields ==
    ASSUME NEW s, NEW PF, NEW by, NEW BLQ, NEW q,
           q = [NewStrategy(s, PF, by, BLQ) EXCEPT !.quotes = TRUE]
    PROVE  /\ q.live = TRUE /\ q.ses = s /\ q.pf = PF /\ q.by = by /\ q.BLQ = BLQ /\ q.gen = 0
           /\ q.pack = NoPacket
  BY SMT DEF NewStrategy

LEMMA Records ==
    ASSUME TypeOK
    PROVE  /\ \A s \in Sessions : session[s] \in SessionRecords
           /\ \A x \in Strategies : strategy[x] \in StrategyRecords
           /\ \A o \in DOMAIN orders : orders[o] \in OrderRecords
  BY TypeSplit, Lengths, Zenon DEF SessionsGood, GoodSession, StrategiesGood, GoodStrategy,
     OrdersGood, GoodOrder

LEMMA Referred ==
    ASSUME TypeOK
    PROVE  /\ \A s \in Sessions : /\ \A d \in session[s].DataPack : d.obj \in Strategies
                                  /\ session[s].hand \in {0} \cup Strategies
                                  /\ \A i \in DOMAIN session[s].inbox :
                                       session[s].inbox[i].order \in DOMAIN orders
           /\ \A x \in Strategies : strategy[x].ses \in Sessions
           /\ \A o \in DOMAIN orders : orders[o].obj \in {0} \cup Strategies
  BY TypeSplit, Lengths, Zenon DEF SessionsGood, GoodSession, StrategiesGood, GoodStrategy,
     OrdersGood, GoodOrder, Strategies, Sessions

-----------------------------------------------------------------------------
(* What no step changes: who a session, a strategy and an order are.         *)

SessionKept(s) ==
    /\ s \in Sessions' /\ session'[s].client = session[s].client /\ session'[s].cim = session[s].cim
    /\ session'[s].phase = "open" => session[s].phase = "open" /\ (session[s].listens => session'[s].listens)

StrategyKept(x) ==
    /\ x \in Strategies' /\ SameMaking(strategy'[x], strategy[x])
    /\ strategy'[x].live => strategy[x].live

OrderKept(o) ==
    o \in DOMAIN orders' /\ orders'[o].tag = orders[o].tag /\ orders'[o].obj = orders[o].obj

\* A strategy is made for a portfolio that has none, by a request or for an event.
Fresh ==
    \A x \in Strategies' :
        \/ x \in Strategies
        \/ /\ x = Len(strategy) + 1 /\ strategy'[x].ses \in Sessions
           /\ Find(strategy'[x].ses, strategy'[x].pf) = {}
           /\ \/ strategy'[x].by = "event"
              \/ \E p \in Packets : strategy'[x].BLQ \in LotSizes(strategy'[x].ses, p.TokenFar)

Kept ==
    /\ \A s \in Sessions : SessionKept(s)
    /\ \A x \in Strategies : StrategyKept(x)
    /\ \A o \in DOMAIN orders : OrderKept(o)
    /\ Fresh

(* What most steps do not change. *)
PhasesKept == Sessions' = Sessions /\ \A s \in Sessions : session'[s].phase = session[s].phase
FeedsKept == \A s \in Sessions : MoreFed(session[s], session'[s])
HandsKept == \A s \in Sessions' :
                 session'[s].hand = 0 \/ (s \in Sessions /\ session'[s].hand = session[s].hand)
InboxesKept == \A s \in Sessions : session'[s].inbox = session[s].inbox
LegsKept ==
    \A x \in Strategies' :
        \/ x \notin Strategies /\ strategy'[x].gen = 0
        \/ x \in Strategies /\ strategy'[x].pack = strategy[x].pack /\ strategy'[x].gen = strategy[x].gen

LEMMA SameSessions ==
    session' = session =>
        /\ \A s \in Sessions : SessionKept(s)
        /\ PhasesKept /\ FeedsKept /\ HandsKept /\ InboxesKept /\ Sessions' = Sessions
  BY SameFed, Zenon DEF SessionKept, Sessions, PhasesKept, FeedsKept, HandsKept, InboxesKept

LEMMA SameStrategies ==
    strategy' = strategy => (\A x \in Strategies : StrategyKept(x)) /\ Fresh /\ LegsKept
  BY Zenon DEF StrategyKept, Strategies, SameMaking, Fresh, LegsKept

LEMMA OldStrategies == Strategies' = Strategies => Fresh
  BY Zenon DEF Fresh

LEMMA SameOrders == orders' = orders => \A o \in DOMAIN orders : OrderKept(o)
  BY Zenon DEF OrderKept

LEMMA InboxKept ==
    ASSUME TypeOK, InboxTags, \A o \in DOMAIN orders : OrderKept(o),
           \A j \in Sessions' : \/ session'[j].inbox = <<>>
                               \/ /\ j \in Sessions /\ session'[j].inbox = session[j].inbox
                                  /\ session'[j].client = session[j].client
    PROVE  InboxTags'
<1>2. DOMAIN <<>> = {}
  BY SMT
<1>3. ASSUME NEW j \in Sessions', NEW i \in DOMAIN session'[j].inbox
      PROVE  orders'[session'[j].inbox[i].order].tag \in SubscribedTags(session'[j].client)
  <2>1. /\ j \in Sessions /\ session'[j].inbox = session[j].inbox
        /\ session'[j].client = session[j].client
    BY <1>2, <1>3, Zenon
  <2>2. orders[session[j].inbox[i].order].tag \in SubscribedTags(session[j].client)
    BY <1>3, <2>1, Zenon DEF InboxTags
  <2>3. session[j].inbox[i].order \in DOMAIN orders
    BY <1>3, <2>1, Referred, Zenon
  <2> QED
    BY <2>1, <2>2, <2>3, Zenon DEF OrderKept
<1> QED
  BY <1>3, Zenon DEF InboxTags

\* A step that changes neither sessions nor orders, as far as InboxTags sees them.
LEMMA InboxUntouched ==
    ASSUME TypeOK, InboxTags, session' = session, \A o \in DOMAIN orders : OrderKept(o)
    PROVE  InboxTags'
<1>1. \A j \in Sessions' : j \in Sessions
  BY Zenon DEF Sessions
<1> QED
  BY <1>1, InboxKept, Zenon

Safe == TypeOK /\ InboxTags

LEMMA NextLengths ==
    ASSUME TypeOK'
    PROVE  /\ Len(session') \in Nat /\ Len(strategy') \in Nat /\ Len(orders') \in Nat
           /\ DOMAIN orders' = 1..Len(orders')
<1>1. SessionsGood' /\ StrategiesGood' /\ OrdersGood'
  BY TypeSplit, PTL
<1> QED
  BY <1>1, SMT DEF SessionsGood, StrategiesGood, OrdersGood

LEMMA LoginSafe ==
    ASSUME Safe, NEW c \in Clients, Login(c)
    PROVE  Safe' /\ Kept /\ FeedsKept /\ HandsKept /\ InboxesKept /\ LegsKept
<1>0. TypeOK /\ InboxTags
  BY Zenon DEF Safe
<1>1. (\A x \in Strategies : StrategyKept(x)) /\ Fresh /\ LegsKept
  BY SameStrategies, Zenon DEF Login
<1>2. \A o \in DOMAIN orders : OrderKept(o)
  BY SameOrders, Zenon DEF Login
<1>3. CASE ~IniMap
  <2>1. /\ died' = "settings" /\ requests' = requests + 1
        /\ UNCHANGED <<boot, handler, session, strategy, orders, asked, told, history>>
    BY <1>3, Zenon DEF Login, Request
  <2>2. Grows
    BY <1>0, <2>1, Lengths, SMT DEF Grows
  <2>3. SessionsGood'
    BY <1>0, <2>1, <2>2, SessionsKept, Zenon
  <2>4. ProcessTypes'
    BY <1>0, <2>1, TypeSplit, SMT DEF ProcessTypes
  <2>5. TypeOK'
    BY <1>0, <2>1, <2>2, <2>3, <2>4, QuietTypes, Zenon
  <2>6. InboxTags'
    BY <1>0, <1>2, <2>1, InboxUntouched, Zenon
  <2> QED
    BY <1>1, <1>2, <2>1, <2>5, <2>6, SameSessions, Zenon DEF Kept, Safe
<1>4. CASE IniMap
  <2>1. /\ TypeOK' /\ Len(session') = Len(session) + 1
        /\ \A j \in Sessions : session'[j] = session[j]
        /\ session'[Len(session) + 1] = NewSession(c, cimlist')
    BY <1>0, <1>4, LoginStep, Zenon
  <2>2. (\A j \in Sessions' : j \in Sessions \/ j = Len(session) + 1) /\ \A j \in Sessions : j \in Sessions'
    BY <1>0, <2>1, Lengths, SMT DEF Sessions
  <2>3. session'[Len(session) + 1].inbox = <<>> /\ session'[Len(session) + 1].hand = 0
    <3>1. NewSession(c, cimlist').inbox = <<>> /\ NewSession(c, cimlist').hand = 0
      BY SMT DEF NewSession
    <3> QED
      BY <2>1, <3>1, Zenon
  <2>4. InboxTags'
    BY <1>0, <1>2, <2>1, <2>2, <2>3, InboxKept, Zenon
  <2>5. \A s \in Sessions : SessionKept(s)
    BY <2>1, <2>2, Zenon DEF SessionKept
  <2>6. FeedsKept /\ HandsKept /\ InboxesKept
    <3>1. FeedsKept /\ InboxesKept
      BY <2>1, <2>2, SameFed, Zenon DEF FeedsKept, InboxesKept
    <3>2. ASSUME NEW j \in Sessions'
          PROVE  session'[j].hand = 0 \/ (j \in Sessions /\ session'[j].hand = session[j].hand)
      <4>1. CASE j \in Sessions
        BY <2>1, <4>1, Zenon
      <4>2. CASE j = Len(session) + 1
        BY <2>3, <4>2
      <4> QED
        BY <2>2, <4>1, <4>2, Zenon
    <3> QED
      BY <3>1, <3>2, Zenon DEF HandsKept
  <2> QED
    BY <1>1, <1>2, <2>1, <2>4, <2>5, <2>6, Zenon DEF Kept, Safe
<1> QED
  BY <1>3, <1>4, Zenon

LEMMA DisposeSafe ==
    ASSUME Safe, NEW c \in Clients, Dispose(c)
    PROVE  Safe' /\ Kept /\ FeedsKept /\ HandsKept /\ InboxesKept /\ LegsKept
<1>0. TypeOK /\ InboxTags
  BY Zenon DEF Safe
<1>1. /\ TypeOK' /\ Len(session') = Len(session)
      /\ \A j \in Sessions : session'[j] = IF j = StgMap[c] THEN [session[j] EXCEPT !.phase = "exiting"]
                                           ELSE session[j]
  BY <1>0, DisposeStep, Zenon
<1>2. Sessions' = Sessions
  BY <1>1, Zenon DEF Sessions
<1>3. (\A x \in Strategies : StrategyKept(x)) /\ Fresh /\ LegsKept
  BY SameStrategies, Zenon DEF Dispose
<1>4. \A o \in DOMAIN orders : OrderKept(o)
  BY SameOrders, Zenon DEF Dispose
<1>5. \A j \in Sessions : /\ session'[j].inbox = session[j].inbox /\ session'[j].client = session[j].client
                          /\ session'[j].cim = session[j].cim
                          /\ session'[j].hand = session[j].hand /\ MoreFed(session[j], session'[j])
                          /\ session'[j].phase = "open" => /\ session[j].phase = "open"
                                                           /\ session'[j].listens = session[j].listens
  <2>1. SUFFICES ASSUME NEW j \in Sessions, session'[j] = [session[j] EXCEPT !.phase = "exiting"]
                 PROVE  /\ session'[j].inbox = session[j].inbox /\ session'[j].client = session[j].client
                        /\ session'[j].cim = session[j].cim /\ session'[j].phase = "exiting"
                        /\ session'[j].hand = session[j].hand /\ MoreFed(session[j], session'[j])
    BY <1>1, SameFed, Zenon
  <2> QED
    BY <1>0, <2>1, Records, PhaseFields
<1>6. InboxTags'
  BY <1>0, <1>2, <1>4, <1>5, InboxKept, Zenon
<1>7. FeedsKept /\ HandsKept /\ InboxesKept
  BY <1>2, <1>5, Zenon DEF FeedsKept, HandsKept, InboxesKept
<1> QED
  BY <1>7, <1>1, <1>2, <1>3, <1>4, <1>5, <1>6, Zenon DEF Kept, Safe, SessionKept

LEMMA SubscriptionSafe ==
    ASSUME Safe, NEW c \in Clients, NEW p \in Packets, HandleOnFOPairSubscription(c, p)
    PROVE  Safe' /\ Kept /\ PhasesKept /\ FeedsKept /\ HandsKept /\ InboxesKept
<1>0. TypeOK /\ InboxTags
  BY Zenon DEF Safe
<1>1. PICK s : s = StgMap[c]
  OBVIOUS
<1>2. PICK found : found = Find(s, p.PORTFOLIONAME)
  OBVIOUS
<1>3. TypeOK' /\ s \in Sessions /\ Len(session') = Len(session)
  BY <1>0, <1>1, <1>2, SubscriptionStep
<1>12. SubscriptionEffect(s, p, found)
  BY <1>0, <1>1, <1>2, SubscriptionStep
<1>4. PICK x, st :
        /\ x \in Strategies'
        /\ \/ x \in found /\ st = strategy[x] /\ Strategies' = Strategies
           \/ /\ found = {} /\ x = Len(strategy) + 1 /\ Len(strategy') = Len(strategy) + 1
              /\ \E BLQ \in LotSizes(s, p.TokenFar) :
                   st = NewStrategy(s, p.PORTFOLIONAME, "sub", BLQ)
        /\ GoodStrategy(st, Len(session), Len(orders))
        /\ strategy'[x] = OnSubscription(st, p)
        /\ \A y \in Strategies : y # x => strategy'[y] = strategy[y]
        /\ \A j \in Sessions : session'[j] =
             IF j = s THEN Connect(session[j], x, OnSubscription(st, p).gen, p) ELSE session[j]
  BY <1>12, ZenonT(40) DEF SubscriptionEffect
<1>5. \A o \in DOMAIN orders : OrderKept(o)
  BY SameOrders, Zenon DEF HandleOnFOPairSubscription
<1>6. Sessions' = Sessions
  BY <1>3, Zenon DEF Sessions
<1>7. \A j \in Sessions : /\ session'[j].inbox = session[j].inbox /\ session'[j].client = session[j].client
                          /\ session'[j].cim = session[j].cim /\ session'[j].phase = session[j].phase
                          /\ session'[j].listens = session[j].listens /\ session'[j].hand = session[j].hand /\ MoreFed(session[j], session'[j])
  <2>1. SUFFICES ASSUME NEW j \in Sessions, session'[j] = Connect(session[j], x, OnSubscription(st, p).gen, p)
                 PROVE  /\ session'[j].inbox = session[j].inbox /\ session'[j].client = session[j].client
                        /\ session'[j].cim = session[j].cim /\ session'[j].phase = session[j].phase
                        /\ session'[j].listens = session[j].listens /\ session'[j].hand = session[j].hand /\ MoreFed(session[j], session'[j])
    BY <1>4, SameFed, Zenon
  <2> QED
    BY <1>0, <2>1, Records, ConnectFields
<1>8. \A y \in Strategies : StrategyKept(y)
  <2>1. st \in StrategyRecords
    BY <1>4, Zenon DEF GoodStrategy
  <2>2. SameMaking(OnSubscription(st, p), st) /\ OnSubscription(st, p).live = st.live
    BY <2>1, SubscribedFields
  <2>3. \A y \in Strategies : y \in Strategies' /\ (y = x => st = strategy[x])
    BY <1>0, <1>4, Lengths, SMT DEF Strategies
  <2> QED
    BY <1>4, <2>2, <2>3, Zenon DEF StrategyKept, SameMaking
<1>11. Fresh
  <2>1. CASE Strategies' = Strategies
    BY <2>1, OldStrategies, Zenon
  <2>2. CASE found = {} /\ x = Len(strategy) + 1 /\ Len(strategy') = Len(strategy) + 1
    <3>1. PICK BLQ \in LotSizes(s, p.TokenFar) : st = NewStrategy(s, p.PORTFOLIONAME, "sub", BLQ)
      BY <1>0, <1>4, <2>2, Lengths, SMT DEF Strategies
    <3>2. st.ses = s /\ st.pf = p.PORTFOLIONAME /\ st.BLQ = BLQ
      BY <3>1, SMT DEF NewStrategy
    <3>3. st \in StrategyRecords
      BY <1>4, Zenon DEF GoodStrategy
    <3>4. SameMaking(OnSubscription(st, p), st)
      BY <3>3, SubscribedFields
    <3>5. \A y \in Strategies' : y \in Strategies \/ y = x
      BY <1>0, <2>2, Lengths, SMT DEF Strategies
    <3> QED
      BY <1>2, <1>3, <1>4, <2>2, <3>1, <3>2, <3>4, <3>5, ZenonT(40) DEF Fresh, SameMaking
  <2> QED
    BY <1>4, <2>1, <2>2, Zenon
<1>9. InboxTags'
  BY <1>0, <1>5, <1>6, <1>7, InboxKept, Zenon
<1>10. PhasesKept /\ FeedsKept /\ HandsKept /\ InboxesKept
  BY <1>6, <1>7, Zenon DEF PhasesKept, FeedsKept, HandsKept, InboxesKept
<1> QED
  BY <1>10, <1>11, <1>3, <1>5, <1>6, <1>7, <1>8, <1>9, Zenon DEF Kept, Safe, SessionKept

LEMMA UnSubscriptionSafe ==
    ASSUME Safe, NEW c \in Clients, NEW PF, HandleOnFOPairUnSubscription(c, PF)
    PROVE  Safe' /\ Kept /\ PhasesKept /\ FeedsKept /\ HandsKept /\ InboxesKept /\ LegsKept
<1>0. TypeOK /\ InboxTags
  BY Zenon DEF Safe
<1>1. PICK s : s = StgMap[c]
  OBVIOUS
<1>2. TypeOK' /\ s \in Sessions /\ Len(session') = Len(session) /\ Len(strategy') = Len(strategy)
  BY <1>0, <1>1, UnSubscriptionStep
<1>9. PICK x \in Find(s, PF) : UnSubscriptionEffect(s, x)
  BY <1>0, <1>1, UnSubscriptionStep, Zenon
<1>3. /\ \A y \in Strategies : strategy'[y] =
           IF y = x THEN [OnUnSubscription(strategy[y]) EXCEPT !.live = FALSE] ELSE strategy[y]
      /\ \A j \in Sessions : session'[j] =
           IF j = s THEN Disconnect(session[j], x, strategy[x].gen) ELSE session[j]
  BY <1>9, Zenon DEF UnSubscriptionEffect
<1>4. \A o \in DOMAIN orders : OrderKept(o)
  BY SameOrders, Zenon DEF HandleOnFOPairUnSubscription
<1>5. Sessions' = Sessions /\ Strategies' = Strategies
  BY <1>2, Zenon DEF Sessions, Strategies
<1>6. \A j \in Sessions : /\ session'[j].inbox = session[j].inbox /\ session'[j].client = session[j].client
                          /\ session'[j].cim = session[j].cim /\ session'[j].phase = session[j].phase
                          /\ session'[j].listens = session[j].listens /\ session'[j].hand = session[j].hand /\ MoreFed(session[j], session'[j])
  <2>1. SUFFICES ASSUME NEW j \in Sessions, session'[j] = Disconnect(session[j], x, strategy[x].gen)
                 PROVE  /\ session'[j].inbox = session[j].inbox /\ session'[j].client = session[j].client
                        /\ session'[j].cim = session[j].cim /\ session'[j].phase = session[j].phase
                        /\ session'[j].listens = session[j].listens /\ session'[j].hand = session[j].hand /\ MoreFed(session[j], session'[j])
    BY <1>3, SameFed, Zenon
  <2> QED
    BY <1>0, <2>1, Records, DisconnectFields
<1>7. (\A y \in Strategies : StrategyKept(y)) /\ LegsKept
  <2>1. SUFFICES ASSUME NEW y \in Strategies,
                        strategy'[y] = [OnUnSubscription(strategy[y]) EXCEPT !.live = FALSE]
                 PROVE  /\ SameMaking(strategy'[y], strategy[y]) /\ strategy'[y].live = FALSE
                        /\ strategy'[y].pack = strategy[y].pack /\ strategy'[y].gen = strategy[y].gen
    BY <1>3, <1>5, Zenon DEF StrategyKept, SameMaking, LegsKept
  <2> QED
    BY <1>0, <2>1, Records, GoneFields
<1>8. InboxTags'
  BY <1>0, <1>4, <1>5, <1>6, InboxKept, Zenon
<1>10. PhasesKept /\ FeedsKept /\ HandsKept /\ InboxesKept
  BY <1>5, <1>6, Zenon DEF PhasesKept, FeedsKept, HandsKept, InboxesKept
<1> QED
  BY <1>10, <1>5, OldStrategies, <1>2, <1>4, <1>5, <1>6, <1>7, <1>8, Zenon DEF Kept, Safe, SessionKept

LEMMA DiffSafe ==
    ASSUME Safe, NEW c \in Clients, NEW p \in Packets, HandleOnFOPairDiff(c, p)
    PROVE  Safe' /\ Kept /\ PhasesKept /\ FeedsKept /\ HandsKept /\ InboxesKept /\ LegsKept
<1>0. TypeOK /\ InboxTags
  BY Zenon DEF Safe
<1>1. PICK found : found = Find(StgMap[c], p.PORTFOLIONAME)
  OBVIOUS
<1>2. TypeOK' /\ session' = session /\ StgMap[c] \in Sessions
  BY <1>0, DiffStep
<1>3. \/ /\ found = {} /\ Len(strategy') = Len(strategy) + 1
         /\ \A y \in Strategies : strategy'[y] = strategy[y]
         /\ \E BLQ \in LotSizes(StgMap[c], p.TokenFar) : strategy'[Len(strategy) + 1] =
              [NewStrategy(StgMap[c], p.PORTFOLIONAME, "diff", BLQ) EXCEPT !.quotes = TRUE]
      \/ /\ Len(strategy') = Len(strategy)
         /\ \A y \in Strategies : strategy'[y] =
              [strategy[y] EXCEPT !.quotes = strategy[y].quotes \/ y \in found]
  BY <1>0, <1>1, DiffStep, SMTT(40)
<1>4. \A o \in DOMAIN orders : OrderKept(o)
  BY SameOrders, Zenon DEF HandleOnFOPairDiff
<1>5. \A y \in Strategies : /\ StrategyKept(y) /\ strategy'[y].pack = strategy[y].pack
                            /\ strategy'[y].gen = strategy[y].gen
  <2>1. Strategies \subseteq Strategies'
    BY <1>0, <1>3, Lengths, SMT DEF Strategies
  <2>2. ASSUME NEW y \in Strategies, NEW b, strategy'[y] = [strategy[y] EXCEPT !.quotes = b]
        PROVE  /\ SameMaking(strategy'[y], strategy[y]) /\ strategy'[y].live = strategy[y].live
               /\ strategy'[y].pack = strategy[y].pack /\ strategy'[y].gen = strategy[y].gen
    BY <1>0, <2>2, Records, FlagFields
  <2>3. ASSUME NEW y \in Strategies
        PROVE  /\ SameMaking(strategy'[y], strategy[y]) /\ strategy'[y].live = strategy[y].live
               /\ strategy'[y].pack = strategy[y].pack /\ strategy'[y].gen = strategy[y].gen
    <3>1. CASE strategy'[y] = strategy[y]
      BY <3>1, Zenon DEF SameMaking
    <3>2. CASE strategy'[y] = [strategy[y] EXCEPT !.quotes = strategy[y].quotes \/ y \in found]
      BY <2>2, <3>2, Zenon
    <3> QED
      BY <1>3, <3>1, <3>2, Zenon
  <2> QED
    BY <2>1, <2>3, Zenon DEF StrategyKept
<1>7. Fresh /\ LegsKept
  <2>1. CASE Strategies' = Strategies
    BY <1>5, <2>1, OldStrategies, Zenon DEF LegsKept
  <2>2. CASE /\ found = {} /\ Len(strategy') = Len(strategy) + 1
             /\ \E BLQ \in LotSizes(StgMap[c], p.TokenFar) : strategy'[Len(strategy) + 1] =
                  [NewStrategy(StgMap[c], p.PORTFOLIONAME, "diff", BLQ) EXCEPT !.quotes = TRUE]
    <3>1. PICK x : x = Len(strategy) + 1
      OBVIOUS
    <3>2. PICK BLQ \in LotSizes(StgMap[c], p.TokenFar) :
            strategy'[x] = [NewStrategy(StgMap[c], p.PORTFOLIONAME, "diff", BLQ) EXCEPT !.quotes = TRUE]
      BY <2>2, <3>1, Zenon
    <3>3. /\ strategy'[x].ses = StgMap[c] /\ strategy'[x].pf = p.PORTFOLIONAME
          /\ strategy'[x].BLQ = BLQ /\ strategy'[x].gen = 0
      BY <3>2, SMT DEF NewStrategy
    <3>4. /\ \A y \in Strategies' : y \in Strategies \/ y = x
          /\ x \notin Strategies
      BY <1>0, <2>2, <3>1, Lengths, SMT DEF Strategies
    <3>5. Fresh
      BY <1>1, <1>2, <2>2, <3>1, <3>2, <3>3, <3>4, Zenon DEF Fresh
    <3> QED
      BY <1>5, <3>3, <3>4, <3>5, Zenon DEF LegsKept
  <2> QED
    BY <1>3, <2>1, <2>2, Zenon DEF Strategies
<1>6. InboxTags'
  BY <1>0, <1>2, <1>4, InboxUntouched, Zenon
<1> QED
  BY <1>2, <1>4, <1>5, <1>6, <1>7, SameSessions, Zenon DEF Kept, Safe

LEMMA ManualOrderSafe ==
    ASSUME Safe, NEW c \in Clients, NEW token \in AllTokens, ManualOrderEntry(c, token)
    PROVE  Safe' /\ Kept /\ PhasesKept /\ FeedsKept /\ HandsKept /\ InboxesKept /\ LegsKept
<1>0. TypeOK /\ InboxTags
  BY Zenon DEF Safe
<1>1. PICK s : s = StgMap[c]
  OBVIOUS
<1>2. /\ TypeOK' /\ s \in Sessions /\ strategy' = strategy /\ Len(session') = Len(session)
      /\ Len(orders') = Len(orders) + 1 /\ \A o \in DOMAIN orders : orders'[o] = orders[o]
  BY <1>0, <1>1, ManualOrderStep
<1>3. PICK D \in Dictionaries : OnlySession(s, [session[s] EXCEPT !.SymbolDictionary = D])
  BY <1>0, <1>1, ManualOrderStep, Zenon
<1>4. \A o \in DOMAIN orders : OrderKept(o)
  <2>1. DOMAIN orders' = 1..Len(orders')
    BY <1>2, NextLengths, Zenon
  <2>2. DOMAIN orders \subseteq DOMAIN orders'
    BY <1>0, <1>2, <2>1, Lengths, SMT
  <2> QED
    BY <1>2, <2>2, Zenon DEF OrderKept
<1>5. Sessions' = Sessions
  BY <1>2, Zenon DEF Sessions
<1>6. \A j \in Sessions : /\ session'[j].inbox = session[j].inbox /\ session'[j].client = session[j].client
                          /\ session'[j].cim = session[j].cim /\ session'[j].phase = session[j].phase
                          /\ session'[j].listens = session[j].listens /\ session'[j].hand = session[j].hand /\ MoreFed(session[j], session'[j])
  <2>1. SUFFICES ASSUME NEW j \in Sessions, session'[j] = [session[j] EXCEPT !.SymbolDictionary = D]
                 PROVE  /\ session'[j].inbox = session[j].inbox /\ session'[j].client = session[j].client
                        /\ session'[j].cim = session[j].cim /\ session'[j].phase = session[j].phase
                        /\ session'[j].listens = session[j].listens /\ session'[j].hand = session[j].hand /\ MoreFed(session[j], session'[j])
    BY <1>3, SameFed, Zenon DEF OnlySession
  <2> QED
    BY <1>0, <2>1, Records, DictionaryFields
<1>7. InboxTags'
  BY <1>0, <1>4, <1>5, <1>6, InboxKept, Zenon
<1>10. PhasesKept /\ FeedsKept /\ HandsKept /\ InboxesKept
  BY <1>5, <1>6, Zenon DEF PhasesKept, FeedsKept, HandsKept, InboxesKept
<1> QED
  BY <1>10, <1>2, <1>4, <1>5, <1>6, <1>7, SameStrategies, Zenon DEF Kept, Safe, SessionKept

LEMMA ManualChangeSafe ==
    ASSUME Safe, NEW c \in Clients, NEW o \in DOMAIN orders, ManualOrder_Mod_CNclEntry(c, o)
    PROVE  Safe' /\ Kept /\ PhasesKept /\ FeedsKept /\ HandsKept /\ InboxesKept /\ LegsKept
<1>1. TypeOK' /\ session' = session /\ strategy' = strategy /\ orders' = orders
  BY ManualChangeStep, Zenon DEF Safe
<1> QED
  BY <1>1, SameSessions, SameStrategies, SameOrders, InboxUntouched, Zenon DEF Safe, Kept

LEMMA CallErasedSafe ==
    ASSUME Safe, NEW s \in Sessions, CallErased(s)
    PROVE  Safe' /\ Kept /\ PhasesKept /\ FeedsKept /\ HandsKept /\ InboxesKept /\ LegsKept
<1>1. TypeOK' /\ session' = session /\ strategy' = strategy /\ orders' = orders
  BY CallErasedStep, Zenon DEF Safe
<1> QED
  BY <1>1, SameSessions, SameStrategies, SameOrders, InboxUntouched, Zenon DEF Safe, Kept

LEMMA StopAllOrderSafe ==
    ASSUME Safe, NEW s \in Sessions, StopAllOrder(s)
    PROVE  Safe' /\ Kept /\ HandsKept /\ InboxesKept /\ LegsKept
<1>0. TypeOK /\ InboxTags
  BY Zenon DEF Safe
<1>1. /\ TypeOK' /\ Len(session') = Len(session) /\ Len(strategy') = Len(strategy)
      /\ \A x \in Strategies : strategy'[x] \in {strategy[x], OnUnSubscription(strategy[x])}
  BY <1>0, StopAllOrderStep
<1>2. PICK T : OnlySession(s, Halted(session[s], T))
  BY <1>0, StopAllOrderStep
<1>3. \A o \in DOMAIN orders : OrderKept(o)
  BY SameOrders, Zenon DEF StopAllOrder
<1>4. Sessions' = Sessions /\ Strategies' = Strategies
  BY <1>1, Zenon DEF Sessions, Strategies
<1>5. \A j \in Sessions : /\ session'[j].inbox = session[j].inbox /\ session'[j].client = session[j].client
                          /\ session'[j].cim = session[j].cim
                          /\ session'[j].hand = session[j].hand
                          /\ session'[j].phase = "open" => /\ session[j].phase = "open"
                                                           /\ session'[j].listens = session[j].listens
  <2>1. SUFFICES ASSUME NEW j \in Sessions, session'[j] = Halted(session[j], T)
                 PROVE  /\ session'[j].inbox = session[j].inbox /\ session'[j].client = session[j].client
                        /\ session'[j].cim = session[j].cim /\ session'[j].phase = "stopped"
                        /\ session'[j].hand = session[j].hand
    BY <1>2, Zenon DEF OnlySession
  <2> QED
    BY <1>0, <2>1, Records, StoppedFields
<1>6. (\A y \in Strategies : StrategyKept(y)) /\ LegsKept
  <2>1. SUFFICES ASSUME NEW y \in Strategies, strategy'[y] = OnUnSubscription(strategy[y])
                 PROVE  /\ SameMaking(strategy'[y], strategy[y]) /\ strategy'[y].live = strategy[y].live
                        /\ strategy'[y].pack = strategy[y].pack /\ strategy'[y].gen = strategy[y].gen
    BY <1>1, <1>4, Zenon DEF StrategyKept, SameMaking, LegsKept
  <2> QED
    BY <1>0, <2>1, Records, UnSubscribedFields
<1>7. InboxTags'
  BY <1>0, <1>3, <1>4, <1>5, InboxKept, Zenon
<1>8. HandsKept /\ InboxesKept
  BY <1>4, <1>5, Zenon DEF HandsKept, InboxesKept
<1> QED
  BY <1>8, OldStrategies, <1>1, <1>3, <1>4, <1>5, <1>6, <1>7, Zenon DEF Kept, Safe, SessionKept

LEMMA EraseAllSafe ==
    ASSUME Safe, NEW s \in Sessions, EraseAll(s)
    PROVE  Safe' /\ Kept /\ FeedsKept /\ HandsKept /\ InboxesKept /\ LegsKept
<1>0. TypeOK /\ InboxTags
  BY Zenon DEF Safe
<1>1. TypeOK' /\ Len(session') = Len(session) /\ Len(strategy') = Len(strategy)
  BY <1>0, EraseAllStep
<1>2. PICK T : OnlySession(s, Cleared(session[s], T))
  BY <1>0, EraseAllStep
<1>3. PICK gone \in SUBSET Strategies :
        \A x \in Strategies : strategy'[x] =
             [strategy[x] EXCEPT !.live = strategy[x].live /\ x \notin gone]
  BY <1>0, EraseAllStep
<1>4. \A o \in DOMAIN orders : OrderKept(o)
  BY SameOrders, Zenon DEF EraseAll
<1>5. Sessions' = Sessions /\ Strategies' = Strategies
  BY <1>1, Zenon DEF Sessions, Strategies
<1>6. \A j \in Sessions : /\ session'[j].inbox = session[j].inbox /\ session'[j].client = session[j].client
                          /\ session'[j].cim = session[j].cim
                          /\ session'[j].hand = session[j].hand /\ MoreFed(session[j], session'[j])
                          /\ session'[j].phase = "open" => /\ session[j].phase = "open"
                                                           /\ session'[j].listens = session[j].listens
  <2>1. SUFFICES ASSUME NEW j \in Sessions, session'[j] = Cleared(session[j], T)
                 PROVE  /\ session'[j].inbox = session[j].inbox /\ session'[j].client = session[j].client
                        /\ session'[j].cim = session[j].cim /\ session'[j].phase = "erased"
                        /\ session'[j].hand = session[j].hand /\ MoreFed(session[j], session'[j])
    BY <1>2, SameFed, Zenon DEF OnlySession
  <2> QED
    BY <1>0, <2>1, Records, ErasedFields
<1>7. (\A y \in Strategies : StrategyKept(y)) /\ LegsKept
  <2>1. SUFFICES ASSUME NEW y \in Strategies, NEW b, b = (strategy[y].live /\ y \notin gone),
                        strategy'[y] = [strategy[y] EXCEPT !.live = b]
                 PROVE  /\ SameMaking(strategy'[y], strategy[y]) /\ strategy'[y].live = b
                        /\ strategy'[y].pack = strategy[y].pack /\ strategy'[y].gen = strategy[y].gen
    BY <1>3, <1>5, ZenonT(40) DEF StrategyKept, SameMaking, LegsKept
  <2> QED
    BY <1>0, <2>1, Records, LiveFields
<1>8. InboxTags'
  BY <1>0, <1>4, <1>5, <1>6, InboxKept, Zenon
<1>9. FeedsKept /\ HandsKept /\ InboxesKept
  BY <1>5, <1>6, Zenon DEF FeedsKept, HandsKept, InboxesKept
<1> QED
  BY <1>9, OldStrategies, <1>1, <1>4, <1>5, <1>6, <1>7, <1>8, Zenon DEF Kept, Safe, SessionKept

LEMMA DatasubscriberSafe ==
    ASSUME Safe, NEW s \in Sessions, Datasubscriber(s)
    PROVE  Safe' /\ Kept /\ PhasesKept /\ FeedsKept /\ HandsKept /\ InboxesKept /\ LegsKept
<1>0. TypeOK /\ InboxTags
  BY Zenon DEF Safe
<1>1. TypeOK' /\ Len(session') = Len(session) /\ strategy' = strategy
  BY <1>0, DatasubscriberStep
<1>2. OnlySession(s, [session[s] EXCEPT !.Datasock = TRUE])
  BY <1>0, DatasubscriberStep
<1>3. \A o \in DOMAIN orders : OrderKept(o)
  BY SameOrders, Zenon DEF Datasubscriber
<1>4. Sessions' = Sessions
  BY <1>1, Zenon DEF Sessions
<1>5. \A j \in Sessions : /\ session'[j].inbox = session[j].inbox /\ session'[j].client = session[j].client
                          /\ session'[j].cim = session[j].cim /\ session'[j].phase = session[j].phase
                          /\ session'[j].hand = session[j].hand
                          /\ session'[j].listens = session[j].listens /\ MoreFed(session[j], session'[j])
  <2>1. SUFFICES ASSUME NEW j \in Sessions, session'[j] = [session[j] EXCEPT !.Datasock = TRUE]
                 PROVE  /\ session'[j].inbox = session[j].inbox /\ session'[j].client = session[j].client
                        /\ session'[j].cim = session[j].cim /\ session'[j].phase = session[j].phase
                        /\ session'[j].hand = session[j].hand
                        /\ session'[j].listens = session[j].listens /\ MoreFed(session[j], session'[j])
    BY <1>2, SameFed, Zenon DEF OnlySession
  <2> QED
    BY <1>0, <2>1, Records, SocketFields
<1>6. InboxTags'
  BY <1>0, <1>3, <1>4, <1>5, InboxKept, Zenon
<1>7. PhasesKept /\ FeedsKept /\ HandsKept /\ InboxesKept
  BY <1>4, <1>5, Zenon DEF PhasesKept, FeedsKept, HandsKept, InboxesKept
<1> QED
  BY <1>7, <1>1, <1>3, <1>4, <1>5, <1>6, SameStrategies, Zenon DEF Kept, Safe, SessionKept

LEMMA LookSafe ==
    ASSUME Safe, NEW s \in Sessions, Look(s)
    PROVE  Safe' /\ Kept /\ PhasesKept /\ FeedsKept /\ InboxesKept /\ LegsKept
<1>0. TypeOK /\ InboxTags
  BY Zenon DEF Safe
<1>1. TypeOK' /\ Len(session') = Len(session) /\ strategy' = strategy
  BY <1>0, LookStep
<1>2. PICK x : \A j \in Sessions : session'[j] =
                 IF j = s THEN [session[s] EXCEPT !.hand = x] ELSE session[j]
  BY <1>0, LookStep
<1>3. \A o \in DOMAIN orders : OrderKept(o)
  BY SameOrders, Zenon DEF Look
<1>4. Sessions' = Sessions
  BY <1>1, Zenon DEF Sessions
<1>5. \A j \in Sessions : /\ session'[j].inbox = session[j].inbox /\ session'[j].client = session[j].client
                          /\ session'[j].cim = session[j].cim /\ session'[j].phase = session[j].phase
                          /\ session'[j].listens = session[j].listens /\ MoreFed(session[j], session'[j])
  <2>1. SUFFICES ASSUME NEW j \in Sessions, session'[j] = [session[j] EXCEPT !.hand = x]
                 PROVE  /\ session'[j].inbox = session[j].inbox /\ session'[j].client = session[j].client
                        /\ session'[j].cim = session[j].cim /\ session'[j].phase = session[j].phase
                        /\ session'[j].listens = session[j].listens /\ MoreFed(session[j], session'[j])
    BY <1>2, SameFed, Zenon
  <2> QED
    BY <1>0, <2>1, Records, HandFields
<1>6. InboxTags'
  BY <1>0, <1>3, <1>4, <1>5, InboxKept, Zenon
<1>7. PhasesKept /\ FeedsKept /\ InboxesKept
  BY <1>4, <1>5, Zenon DEF PhasesKept, FeedsKept, InboxesKept
<1> QED
  BY <1>7, <1>1, <1>3, <1>4, <1>5, <1>6, SameStrategies, Zenon DEF Kept, Safe, SessionKept

\* The orders there were are still there when one is appended.
LEMMA OrdersStay ==
    ASSUME TypeOK, TypeOK', Len(orders') = Len(orders) + 1, \A o \in DOMAIN orders : orders'[o] = orders[o]
    PROVE  \A o \in DOMAIN orders : OrderKept(o)
<1>1. DOMAIN orders' = 1..Len(orders')
  BY NextLengths, Zenon
<1>2. DOMAIN orders \subseteq DOMAIN orders'
  BY <1>1, Lengths, SMT
<1> QED
  BY <1>2, Zenon DEF OrderKept

LEMMA SendSafe ==
    ASSUME Safe, NEW s \in Sessions, Send(s)
    PROVE  Safe' /\ Kept /\ PhasesKept /\ FeedsKept /\ HandsKept /\ InboxesKept /\ LegsKept
<1>0. TypeOK /\ InboxTags
  BY Zenon DEF Safe
<1>1. PICK x : x = session[s].hand
  OBVIOUS
<1>2. /\ TypeOK' /\ Len(session') = Len(session) /\ Len(strategy') = Len(strategy)
      /\ Len(orders') = Len(orders) + 1 /\ \A o \in DOMAIN orders : orders'[o] = orders[o]
      /\ \A y \in Strategies : strategy'[y] =
           IF y = x
           THEN [strategy[x] EXCEPT !.status = IF strategy[x].live THEN "PENDING" ELSE strategy[x].status]
           ELSE strategy[y]
      /\ \A j \in Sessions : session'[j] =
           IF j = s THEN [session[s] EXCEPT !.hand = 0] ELSE session[j]
  BY <1>0, <1>1, SendStep
<1>8. PICK v : v = IF strategy[x].live THEN "PENDING" ELSE strategy[x].status
  OBVIOUS
<1>3. \A o \in DOMAIN orders : OrderKept(o)
  BY <1>0, <1>2, OrdersStay, Zenon
<1>4. Sessions' = Sessions /\ Strategies' = Strategies
  BY <1>2, Zenon DEF Sessions, Strategies
<1>5. \A j \in Sessions : /\ session'[j].inbox = session[j].inbox /\ session'[j].client = session[j].client
                          /\ session'[j].cim = session[j].cim /\ session'[j].phase = session[j].phase
                          /\ session'[j].listens = session[j].listens /\ MoreFed(session[j], session'[j])
                          /\ session'[j].hand \in {0, session[j].hand}
  <2>1. SUFFICES ASSUME NEW j \in Sessions, session'[j] = [session[j] EXCEPT !.hand = 0]
                 PROVE  /\ session'[j].inbox = session[j].inbox /\ session'[j].client = session[j].client
                        /\ session'[j].cim = session[j].cim /\ session'[j].phase = session[j].phase
                        /\ session'[j].listens = session[j].listens /\ MoreFed(session[j], session'[j])
                        /\ session'[j].hand \in {0, session[j].hand}
    BY <1>2, SameFed, Zenon
  <2> QED
    BY <1>0, <2>1, Records, HandFields
<1>6. (\A y \in Strategies : StrategyKept(y)) /\ LegsKept
  <2>1. ASSUME NEW y \in Strategies, strategy'[y] = [strategy[y] EXCEPT !.status = v]
        PROVE  /\ SameMaking(strategy'[y], strategy[y]) /\ strategy'[y].live = strategy[y].live
               /\ strategy'[y].pack = strategy[y].pack /\ strategy'[y].gen = strategy[y].gen
    BY <1>0, <2>1, Records, StatusFields
  <2>2. ASSUME NEW y \in Strategies
        PROVE  /\ SameMaking(strategy'[y], strategy[y]) /\ strategy'[y].live = strategy[y].live
               /\ strategy'[y].pack = strategy[y].pack /\ strategy'[y].gen = strategy[y].gen
    <3>1. CASE y = x
      BY <1>2, <1>8, <2>1, <3>1, Zenon
    <3>2. CASE y # x
      BY <1>2, <3>2, Zenon DEF SameMaking
    <3> QED
      BY <3>1, <3>2, Zenon
  <2>3. \A y \in Strategies : StrategyKept(y)
    BY <1>4, <2>2, Zenon DEF StrategyKept
  <2> QED
    BY <1>4, <2>2, <2>3, Zenon DEF LegsKept
<1>7. InboxTags'
  BY <1>0, <1>3, <1>4, <1>5, InboxKept, Zenon
<1>9. PhasesKept /\ FeedsKept /\ HandsKept /\ InboxesKept
  <2>1. PhasesKept /\ FeedsKept /\ InboxesKept
    BY <1>4, <1>5, Zenon DEF PhasesKept, FeedsKept, InboxesKept
  <2>2. HandsKept
    <3>1. SUFFICES ASSUME NEW j \in Sessions
                   PROVE  session'[j].hand = 0 \/ session'[j].hand = session[j].hand
      BY <1>4, Zenon DEF HandsKept
    <3> QED
      BY <1>5, SMT
  <2> QED
    BY <2>1, <2>2, Zenon
<1> QED
  BY <1>9, <1>4, OldStrategies, <1>2, <1>3, <1>4, <1>5, <1>6, <1>7, Zenon DEF Kept, Safe, SessionKept

LEMMA TailElements ==
    ASSUME NEW q \in Seq(Events), q # <<>>
    PROVE  \A i \in DOMAIN Tail(q) : i + 1 \in DOMAIN q /\ Tail(q)[i] = q[i + 1]
  BY HeadTailProperties, SMT

\* A session that loses the first of its events, or all of them.
LEMMA InboxShrinks ==
    ASSUME TypeOK, InboxTags, \A o \in DOMAIN orders : OrderKept(o),
           \A j \in Sessions' : /\ j \in Sessions /\ session'[j].client = session[j].client
                               /\ \A i \in DOMAIN session'[j].inbox : \E k \in DOMAIN session[j].inbox :
                                    session'[j].inbox[i] = session[j].inbox[k]
    PROVE  InboxTags'
<1>1. ASSUME NEW j \in Sessions', NEW i \in DOMAIN session'[j].inbox
      PROVE  orders'[session'[j].inbox[i].order].tag \in SubscribedTags(session'[j].client)
  <2>1. PICK k \in DOMAIN session[j].inbox : session'[j].inbox[i] = session[j].inbox[k]
    BY <1>1, Zenon
  <2>2. j \in Sessions /\ session'[j].client = session[j].client
    BY <1>1, Zenon
  <2>3. /\ orders[session[j].inbox[k].order].tag \in SubscribedTags(session[j].client)
        /\ session[j].inbox[k].order \in DOMAIN orders
    BY <2>1, <2>2, Referred, Zenon DEF InboxTags
  <2> QED
    BY <2>1, <2>2, <2>3, Zenon DEF OrderKept
<1> QED
  BY <1>1, Zenon DEF InboxTags

LEMMA EventSafe ==
    ASSUME Safe, NEW s \in Sessions, Eventsubscriber(s)
    PROVE  Safe' /\ Kept /\ PhasesKept /\ FeedsKept /\ HandsKept /\ LegsKept
<1>0. TypeOK /\ InboxTags
  BY Zenon DEF Safe
<1>1. PICK e : e = Head(session[s].inbox)
  OBVIOUS
<1>2. PICK d : d = Decode(orders[e.order].tag)
  OBVIOUS
<1>3. PICK found : found = Find(s, d.PFNum)
  OBVIOUS
<1>4. EventEffect(s, e, d, found)
  BY <1>0, <1>1, <1>2, <1>3, EventStep, Zenon
<1>5. /\ TypeOK' /\ Len(session') = Len(session) /\ orders' = orders
      /\ session[s].listens /\ session[s].inbox # <<>>
      /\ \A j \in Sessions : session'[j] = IF j = s THEN Heard(session[s], d) ELSE session[j]
  BY <1>4, Zenon DEF EventEffect
<1>6. \A o \in DOMAIN orders : OrderKept(o)
  BY <1>5, SameOrders, Zenon
<1>7. Sessions' = Sessions
  BY <1>5, Zenon DEF Sessions
<1>8. \A j \in Sessions : /\ session'[j].client = session[j].client
                          /\ session'[j].cim = session[j].cim /\ session'[j].phase = session[j].phase
                          /\ session'[j].hand = session[j].hand /\ MoreFed(session[j], session'[j])
                          /\ session'[j].phase = "open" /\ session[j].listens => session'[j].listens
                          /\ \A i \in DOMAIN session'[j].inbox : \E k \in DOMAIN session[j].inbox :
                               session'[j].inbox[i] = session[j].inbox[k]
  <2>1. ASSUME NEW j \in Sessions, session'[j] = Heard(session[j], d), session[j].inbox # <<>>
        PROVE  /\ session'[j].client = session[j].client
               /\ session'[j].cim = session[j].cim /\ session'[j].phase = session[j].phase
               /\ session'[j].hand = session[j].hand /\ MoreFed(session[j], session'[j])
               /\ session'[j].phase = "open" /\ session[j].listens => session'[j].listens
               /\ session'[j].inbox = IF session[j].phase = "open" THEN Tail(session[j].inbox) ELSE <<>>
    <3>1. session'[j].listens = (session[j].phase = "open")
      BY <1>0, <2>1, Records, HeardFields
    <3>2. /\ session'[j].client = session[j].client
          /\ session'[j].cim = session[j].cim /\ session'[j].phase = session[j].phase
          /\ session'[j].hand = session[j].hand /\ MoreFed(session[j], session'[j])
          /\ session'[j].inbox = IF session[j].phase = "open" THEN Tail(session[j].inbox) ELSE <<>>
      BY <1>0, <2>1, Records, HeardFields
    <3> QED
      BY <3>1, <3>2, Zenon
  <2>2. ASSUME NEW j \in Sessions, session[j].inbox # <<>>, NEW i \in DOMAIN Tail(session[j].inbox)
        PROVE  \E k \in DOMAIN session[j].inbox : Tail(session[j].inbox)[i] = session[j].inbox[k]
    <3>1. session[j].inbox \in Seq(Events)
      BY <1>0, TypeSplit, SessionFields, Zenon DEF SessionsGood
    <3> QED
      BY <2>2, <3>1, TailElements, Zenon
  <2>3. DOMAIN <<>> = {}
    BY SMT
  <2>4. SUFFICES ASSUME NEW j \in Sessions
                 PROVE  /\ session'[j].client = session[j].client
                        /\ session'[j].cim = session[j].cim /\ session'[j].phase = session[j].phase
                        /\ session'[j].hand = session[j].hand /\ MoreFed(session[j], session'[j])
                        /\ session'[j].phase = "open" /\ session[j].listens => session'[j].listens
                        /\ \A i \in DOMAIN session'[j].inbox : \E k \in DOMAIN session[j].inbox :
                             session'[j].inbox[i] = session[j].inbox[k]
    BY Zenon
  <2>5. CASE j = s
    <3>1. session'[j] = Heard(session[j], d) /\ session[j].inbox # <<>>
      BY <1>5, <2>5, Zenon
    <3>2. session'[j].inbox = Tail(session[j].inbox) \/ session'[j].inbox = <<>>
      BY <2>1, <3>1, Zenon
    <3>3. CASE session'[j].inbox = Tail(session[j].inbox)
      <4>1. SUFFICES ASSUME NEW i \in DOMAIN session'[j].inbox
                     PROVE  \E k \in DOMAIN session[j].inbox : session'[j].inbox[i] = session[j].inbox[k]
        BY <2>1, <3>1, Zenon
      <4>2. i \in DOMAIN Tail(session[j].inbox) /\ session'[j].inbox[i] = Tail(session[j].inbox)[i]
        BY <3>3, <4>1, Zenon
      <4> QED
        BY <2>2, <3>1, <4>2, Zenon
    <3>4. CASE session'[j].inbox = <<>>
      BY <2>1, <2>3, <3>1, <3>4, Zenon
    <3> QED
      BY <3>2, <3>3, <3>4, Zenon
  <2>6. CASE j # s
    BY <1>5, <2>6, SameFed, Zenon
  <2> QED
    BY <2>5, <2>6, Zenon
<1>9. InboxTags'
  BY <1>0, <1>6, <1>7, <1>8, InboxShrinks, Zenon
<1>10. (\A y \in Strategies : StrategyKept(y)) /\ Fresh /\ LegsKept
  <2>1. CASE strategy' = strategy
    BY <2>1, SameStrategies, Zenon
  <2>2. CASE strategy' # strategy
    <3>1. PICK x, st :
               /\ x \in Strategies'
               /\ \/ x \in found /\ st = strategy[x] /\ Strategies' = Strategies
                  \/ /\ found = {} /\ x = Len(strategy) + 1
                     /\ Len(strategy') = Len(strategy) + 1
                     /\ st = NewStrategy(s, d.PFNum, "event", "zero")
               /\ strategy'[x] = After(st, e.order, e.kind)
               /\ GoodStrategy(st, Len(session), Len(orders))
               /\ \A y \in Strategies : y # x => strategy'[y] = strategy[y]
      BY <1>4, <2>2, Zenon DEF EventEffect
    <3>2. st \in StrategyRecords
      BY <3>1, Zenon DEF GoodStrategy
    <3>3. PICK sn : sn = After(st, e.order, e.kind)
      OBVIOUS
    <3>4. SameMaking(sn, st) /\ sn.live = st.live /\ sn.pack = st.pack /\ sn.gen = st.gen
      BY <3>2, <3>3, AfterFields
    <3>5. \A y \in Strategies : y \in Strategies' /\ (y = x => st = strategy[x])
      BY <1>0, <3>1, Lengths, SMT DEF Strategies
    <3>6. \A y \in Strategies : /\ StrategyKept(y) /\ strategy'[y].pack = strategy[y].pack
                                /\ strategy'[y].gen = strategy[y].gen
      BY <3>1, <3>3, <3>4, <3>5, Zenon DEF StrategyKept, SameMaking
    <3>7. CASE Strategies' = Strategies
      BY <3>6, <3>7, OldStrategies, Zenon DEF LegsKept
    <3>8. CASE /\ found = {} /\ x = Len(strategy) + 1 /\ Len(strategy') = Len(strategy) + 1
               /\ st = NewStrategy(s, d.PFNum, "event", "zero")
      <4>1. st.ses = s /\ st.pf = d.PFNum /\ st.by = "event" /\ st.gen = 0
        BY <3>8, SMT DEF NewStrategy
      <4>2. /\ \A y \in Strategies' : y \in Strategies \/ y = x
            /\ x \notin Strategies
        BY <1>0, <3>8, Lengths, SMT DEF Strategies
      <4>3. Fresh
        BY <1>3, <3>1, <3>3, <3>4, <3>8, <4>1, <4>2, Zenon DEF Fresh, SameMaking
      <4>4. LegsKept
        BY <3>1, <3>3, <3>4, <3>6, <4>1, <4>2, Zenon DEF LegsKept
      <4> QED
        BY <3>6, <4>3, <4>4, Zenon
    <3> QED
      BY <3>1, <3>7, <3>8, Zenon
  <2> QED
    BY <2>1, <2>2, Zenon
<1>11. PhasesKept /\ FeedsKept /\ HandsKept
  BY <1>7, <1>8, Zenon DEF PhasesKept, FeedsKept, HandsKept
<1> QED
  BY <1>11, <1>5, <1>6, <1>7, <1>8, <1>9, <1>10, Zenon DEF Kept, Safe, SessionKept

LEMMA MovesSafe ==
    ASSUME Safe, NEW o \in DOMAIN orders, NEW from, NEW to \in {"working", "done"},
           NEW kind \in {"confirmed", "traded", "cancelled", "refused"}, Moves(o, from, to, kind),
           asked' \subseteq asked
    PROVE  Safe' /\ Kept /\ PhasesKept /\ FeedsKept /\ HandsKept /\ LegsKept
<1>0. TypeOK /\ InboxTags
  BY Zenon DEF Safe
<1>1. /\ TypeOK' /\ strategy' = strategy /\ Len(session') = Len(session)
      /\ Len(orders') = Len(orders)
      /\ \A i \in DOMAIN orders : orders'[i] =
           IF i = o THEN [orders[o] EXCEPT !.state = to] ELSE orders[i]
      /\ \A j \in Sessions : session'[j] =
           IF session[j].listens /\ orders[o].tag \in SubscribedTags(session[j].client)
           THEN [session[j] EXCEPT !.inbox = Append(session[j].inbox, [order |-> o, kind |-> kind])]
           ELSE session[j]
  <2>1. MovesEffect(o, to, kind)
    BY <1>0, MovesStep
  <2> QED
    BY <2>1, Zenon DEF MovesEffect
<1>2. \A i \in DOMAIN orders : OrderKept(i)
  <2>1. DOMAIN orders' = DOMAIN orders
    BY <1>0, <1>1, NextLengths, Lengths, Zenon
  <2>2. [orders[o] EXCEPT !.state = to].tag = orders[o].tag /\ [orders[o] EXCEPT !.state = to].obj = orders[o].obj
    <3>1. orders[o] \in OrderRecords
      BY <1>0, Records, Zenon
    <3> QED
      BY <3>1, SMT DEF OrderRecords
  <2> QED
    BY <1>1, <2>1, <2>2, Zenon DEF OrderKept
<1>3. Sessions' = Sessions
  BY <1>1, Zenon DEF Sessions
<1>4. \A j \in Sessions :
        /\ session'[j].client = session[j].client
        /\ session'[j].cim = session[j].cim /\ session'[j].phase = session[j].phase
        /\ session'[j].listens = session[j].listens /\ session'[j].hand = session[j].hand /\ MoreFed(session[j], session'[j])
        /\ \/ session'[j].inbox = session[j].inbox
           \/ /\ orders[o].tag \in SubscribedTags(session[j].client)
              /\ session'[j].inbox = Append(session[j].inbox, [order |-> o, kind |-> kind])
  <2>1. ASSUME NEW j \in Sessions, NEW q, session'[j] = [session[j] EXCEPT !.inbox = q]
        PROVE  /\ session'[j].client = session[j].client
               /\ session'[j].cim = session[j].cim /\ session'[j].phase = session[j].phase
               /\ session'[j].listens = session[j].listens /\ session'[j].hand = session[j].hand /\ MoreFed(session[j], session'[j])
               /\ session'[j].inbox = q
    BY <1>0, <2>1, Records, InboxFields
  <2>2. SUFFICES ASSUME NEW j \in Sessions
                 PROVE  /\ session'[j].client = session[j].client
                        /\ session'[j].cim = session[j].cim /\ session'[j].phase = session[j].phase
                        /\ session'[j].listens = session[j].listens /\ session'[j].hand = session[j].hand /\ MoreFed(session[j], session'[j])
                        /\ \/ session'[j].inbox = session[j].inbox
                           \/ /\ orders[o].tag \in SubscribedTags(session[j].client)
                              /\ session'[j].inbox = Append(session[j].inbox, [order |-> o, kind |-> kind])
    BY Zenon
  <2>3. PICK q : q = Append(session[j].inbox, [order |-> o, kind |-> kind])
    OBVIOUS
  <2>4. \/ session'[j] = session[j]
        \/ /\ orders[o].tag \in SubscribedTags(session[j].client)
           /\ session'[j] = [session[j] EXCEPT !.inbox = q]
    BY <1>1, <2>3, Zenon
  <2> QED
    BY <2>1, <2>3, <2>4, SameFed, Zenon
<1>5. ASSUME NEW j \in Sessions', NEW i \in DOMAIN session'[j].inbox
      PROVE  orders'[session'[j].inbox[i].order].tag \in SubscribedTags(session'[j].client)
  <2>1. /\ j \in Sessions /\ session'[j].client = session[j].client
    BY <1>3, <1>4, <1>5, Zenon
  <2>2. ASSUME NEW k \in DOMAIN session[j].inbox
        PROVE  orders'[session[j].inbox[k].order].tag \in SubscribedTags(session[j].client)
    BY <1>0, <1>2, <2>1, Referred, Zenon DEF InboxTags, OrderKept
  <2>3. CASE session'[j].inbox = session[j].inbox
    BY <1>5, <2>1, <2>2, <2>3, Zenon
  <2>4. CASE /\ orders[o].tag \in SubscribedTags(session[j].client)
             /\ session'[j].inbox = Append(session[j].inbox, [order |-> o, kind |-> kind])
    <3>1. session[j].inbox \in Seq(Events)
      BY <1>0, <2>1, TypeSplit, SessionFields, Zenon DEF SessionsGood
    <3>2. \/ i \in DOMAIN session[j].inbox /\ session'[j].inbox[i] = session[j].inbox[i]
          \/ session'[j].inbox[i].order = o
      <4>1. PICK q, n, e : q = session[j].inbox /\ n = session'[j].inbox /\ e = [order |-> o, kind |-> kind]
        OBVIOUS
      <4>2. q \in Seq(Events) /\ n = Append(q, e) /\ i \in DOMAIN n
        BY <1>5, <2>4, <3>1, <4>1, Zenon
      <4>3. (i \in DOMAIN q /\ n[i] = q[i]) \/ n[i] = e
        BY <4>2, SMT
      <4>4. e.order = o
        BY <4>1, SMT
      <4> QED
        BY <4>1, <4>3, <4>4, Zenon
    <3> QED
      BY <1>2, <2>1, <2>2, <2>4, <3>2, Zenon DEF OrderKept
  <2> QED
    BY <1>4, <2>1, <2>3, <2>4, Zenon
<1>6. InboxTags'
  BY <1>5, Zenon DEF InboxTags
<1>7. PhasesKept /\ FeedsKept /\ HandsKept
  BY <1>3, <1>4, Zenon DEF PhasesKept, FeedsKept, HandsKept
<1> QED
  BY <1>7, <1>1, <1>2, <1>3, <1>4, <1>6, SameStrategies, Zenon DEF Kept, Safe, SessionKept

LEMMA ExchangeSafe ==
    ASSUME Safe, NEW o \in DOMAIN orders, Exchange(o)
    PROVE  Safe' /\ Kept /\ PhasesKept /\ FeedsKept /\ HandsKept /\ LegsKept
<1>1. ASSUME NEW from, NEW to \in {"working", "done"},
             NEW kind \in {"confirmed", "traded", "cancelled", "refused"},
             Moves(o, from, to, kind), asked' \subseteq asked
      PROVE  Safe' /\ Kept /\ PhasesKept /\ FeedsKept /\ HandsKept /\ LegsKept
  BY <1>1, MovesSafe
<1>2. CASE Accept(o)
  BY <1>1, <1>2, Zenon DEF Accept
<1>3. CASE Fill(o)
  BY <1>1, <1>3, Zenon DEF Fill
<1>4. CASE Withdraw(o)
  BY <1>1, <1>4, Zenon DEF Withdraw
<1>5. CASE Refuse(o)
  BY <1>1, <1>5, Zenon DEF Refuse
<1> QED
  BY <1>2, <1>3, <1>4, <1>5, Zenon DEF Exchange

LEMMA MainSafe ==
    ASSUME Safe, LoadSettings \/ LoadContract \/ UNCHANGED vars
    PROVE  Safe' /\ Kept /\ PhasesKept /\ FeedsKept /\ HandsKept /\ InboxesKept /\ LegsKept
<1>0. TypeOK /\ InboxTags
  BY Zenon DEF Safe
<1>1. session' = session /\ strategy' = strategy /\ orders' = orders
  BY Zenon DEF LoadSettings, LoadContract, vars
<1>2. TypeOK'
  BY <1>0, SettingsType, ContractType, TypeStutter, Zenon
<1> QED
  BY <1>0, <1>1, <1>2, SameSessions, SameStrategies, SameOrders, InboxUntouched, Zenon DEF Safe, Kept

LEMMA RequestsSafe ==
    ASSUME Safe, NEW c \in Clients, Requests(c)
    PROVE  Safe' /\ Kept
<1>1. CASE Login(c) \/ Dispose(c)
  BY <1>1, LoginSafe, DisposeSafe, Zenon
<1>2. ASSUME NEW p \in Packets,
             \/ HandleOnFOPairSubscription(c, p) \/ HandleOnFOPairUnSubscription(c, p.PORTFOLIONAME)
             \/ HandleOnFOPairDiff(c, p) \/ ManualOrderEntry(c, p.TokenFar)
      PROVE  Safe' /\ Kept
  BY <1>2, PacketTypes, SubscriptionSafe, UnSubscriptionSafe, DiffSafe, ManualOrderSafe, Zenon
<1>3. ASSUME NEW o \in DOMAIN orders, ManualOrder_Mod_CNclEntry(c, o)
      PROVE  Safe' /\ Kept
  BY <1>3, ManualChangeSafe, Zenon
<1> QED
  BY <1>1, <1>2, <1>3, Zenon DEF Requests

\* No step makes anything ill-typed or puts a foreign event into an inbox.
LEMMA NextSafe == Safe /\ [Next]_vars => Safe' /\ Kept
<1> SUFFICES ASSUME Safe, [Next]_vars PROVE Safe' /\ Kept
  OBVIOUS
<1>1. ASSUME NEW s \in Sessions, Disposal(s) \/ DataThread(s) \/ Eventsubscriber(s)
      PROVE  Safe' /\ Kept
  BY <1>1, StopAllOrderSafe, EraseAllSafe, DatasubscriberSafe, LookSafe, SendSafe,
     CallErasedSafe, EventSafe, Zenon DEF Disposal, DataThread
<1> QED
  BY <1>1, MainSafe, RequestsSafe, ExchangeSafe, Zenon DEF Next, Step

LEMMA SafeInit == Init => Safe
<1> SUFFICES ASSUME Init PROVE Safe
  OBVIOUS
<1>1. Sessions = {}
  <2>1. session = <<>>
    BY Zenon DEF Init
  <2> QED
    BY <2>1, SMT DEF Sessions
<1> QED
  BY <1>1, TypeInit, Zenon DEF Safe, InboxTags

LEMMA AlwaysSafe == Spec => []Safe
<1>1. Safe /\ [Next]_vars => Safe'
  BY NextSafe, Zenon
<1> QED
  BY <1>1, SafeInit, PTL DEF Spec

\* ClientSession: what ClientHandler, the sessions and their threads hold is of its type,
\* and every session, strategy and order they refer to exists.
THEOREM TypeCorrect == Spec => []TypeOK
<1>1. Safe => TypeOK
  BY Zenon DEF Safe
<1> QED
  BY <1>1, AlwaysSafe, PTL
=============================================================================
