---------------------------- MODULE ClientSession ----------------------------
(***************************************************************************)
(* The sessions of the order server: ClientHandler, whose one thread       *)
(* handles the requests of all clients in order, and the AutoClient of     *)
(* each session with its two threads: one hands market data to the         *)
(* strategies of the subscribed portfolios, one the events of their        *)
(* orders.  A strategy is reduced to one order at a time (StrategyLegs     *)
(* has its legs); the gateway and the exchange to the life of an order     *)
(* (OrderGateway shows that its events reach its address, in order).       *)
(***************************************************************************)
EXTENDS Integers, Sequences, FiniteSets, SubscriptionTags

CONSTANTS
    Clients,      \* client numbers
    Packets,      \* the portfolios a client may subscribe
    ContractFile, \* the tokens in the contract file, line by line
    MaxRequests,  \* bound: requests handled
    MaxOrders     \* bound: orders sent

VARIABLES
    IniMap,       \* _IniMap holds the settings
    ContMap,      \* the contracts main has put into _ContMap
    cimlist,      \* ClientHandler's copy of them
    loadCimList,  \* the copy was made
    StgMap,       \* client -> its session, 0 if none
    session,      \* the AutoClient objects, in order of creation
    strategy,     \* the StrategyClass objects, in order of creation
    orders,       \* the orders sent, in order
    asked,        \* orders whose cancel was sent
    told,         \* tokens published to the data server
    requests,     \* requests handled so far
    died,         \* what ended the process, or "no"
    heard,        \* history: <<order, strategy>> of the events handled
    known,        \* history: orders whose number their strategy took, in its session
    shadowed      \* history: strategies that StopAllOrder did not reach

boot == <<IniMap, ContMap>>
handler == <<cimlist, loadCimList, StgMap>>
history == <<heard, known, shadowed>>
vars == <<boot, handler, session, strategy, orders, asked, told, requests, died, history>>

Tokens(p) == {p.TokenFar, p.TokenNear, p.TokenThree}
Contracts == {ContractFile[i] : i \in DOMAIN ContractFile}
AllTokens == UNION {Tokens(p) : p \in Packets}

\* A packet of zeros: what operator[] of SymbolDictionary makes for a token that has none,
\* and a strategy that is not subscribed.
NoPacket == [PORTFOLIONAME |-> 0, TokenFar |-> 0, TokenNear |-> 0, TokenThree |-> 0]

\* Clients have three digits, portfolios one or two (the comment in Eventsubscriber).
SessionAssumption ==
    /\ Clients \subseteq Client
    /\ \A p \in Packets : /\ p.PORTFOLIONAME \in Portfolio /\ p.TokenFar \in Nat \ {0}
                          /\ p.TokenNear \in Nat \ {0} /\ p.TokenThree \in Nat
                          /\ DOMAIN p = DOMAIN NoPacket
    /\ MaxRequests \in Nat /\ MaxOrders \in Nat
ASSUME SessionAssumption

Sessions == 1..Len(session)
Strategies == 1..Len(strategy)
IsExit(s) == session[s].phase # "open"

\* ClientHandler's thread is inside Dispose while a session is half stopped.
HandlerReady == \A s \in Sessions : session[s].phase \in {"open", "erased"}

Request == HandlerReady /\ requests < MaxRequests /\ requests' = requests + 1

\* SymbolDictionary is a function on the tokens it has an entry for.
Entry(SD, t) == IF t \in DOMAIN SD THEN SD[t] ELSE NoPacket

\* What find(PF) on _StgClass of session s returns, as a set of at most one object.
Find(s, PF) == {x \in Strategies : strategy[x].live /\ strategy[x].ses = s /\ strategy[x].pf = PF}

\* The templates of an order and of its modification: their token, and the number of the
\* order once it is confirmed (0: none; the code leaves it uninitialised).
ReturnNearPack(Token) == [TokenNo |-> Token]
ReturnModificationPack(Token) == [TokenNo |-> Token, OrderNumber |-> 0]

Templates(Token) ==
    [FARMONTH |-> ReturnNearPack(Token), FARMONTHMOD |-> ReturnModificationPack(Token)]

NewStrategy(s, PF, by, BLQ) ==
    [live |-> TRUE, ses |-> s, pf |-> PF, by |-> by, BLQ |-> BLQ, pack |-> NoPacket,
     NMPack |-> Templates(0), status |-> "NONE", stop |-> FALSE, quotes |-> FALSE, gen |-> 0]

\* InitTokenDetails: the lot size of a token without contract is whatever the stack held.
LotSizes(s, token) == IF token \in session[s].cim THEN {"lot"} ELSE {"zero", "junk"}

\* Of the two threads of a session the data thread is still to make its socket, Datasock.
\* The event thread is taken as started: an event is missed only if a request, an order and
\* its confirmation all come before the thread's first calls.  feed: the tokens subscribed
\* on Datasock; early: history, those whose one subscription came before it.
NewSession(c, cim) ==
    [client |-> c, phase |-> "open", cim |-> cim, SubStatus |-> {},
     Datasock |-> FALSE, feed |-> {}, early |-> {},
     SymbolDictionary |-> <<>>, DataPack |-> {},
     hand |-> 0, inbox |-> <<>>, listens |-> TRUE, manual |-> {}]

Init ==
    /\ IniMap = FALSE /\ ContMap = {} /\ cimlist = {} /\ loadCimList = FALSE
    /\ StgMap = [c \in Clients |-> 0] /\ session = <<>> /\ strategy = <<>>
    /\ orders = <<>> /\ asked = {} /\ told = {} /\ requests = 0 /\ died = "no"
    /\ heard = {} /\ known = {} /\ shadowed = {}

-----------------------------------------------------------------------------
(* main, beside the threads its global objects have started already. *)

LoadSettings ==
    /\ ~IniMap /\ IniMap' = TRUE
    /\ UNCHANGED <<ContMap, handler, session, strategy, orders, asked, told, requests, died, history>>

LoadContract ==
    /\ IniMap
    /\ \E i \in DOMAIN ContractFile :
         /\ ContMap = {ContractFile[j] : j \in 1..(i - 1)}
         /\ ContMap' = ContMap \cup {ContractFile[i]}
    /\ UNCHANGED <<IniMap, handler, session, strategy, orders, asked, told, requests, died, history>>

-----------------------------------------------------------------------------
(* Requests: login and logout. *)

\* Mutant of Login: a login does not look for the session of its client.
LoginAgain(c) ==
    /\ Request /\ IniMap
    /\ cimlist' = (IF loadCimList THEN cimlist ELSE ContMap) /\ loadCimList' = TRUE
    /\ session' = Append(session, NewSession(c, cimlist'))
    /\ StgMap' = [StgMap EXCEPT ![c] = Len(session) + 1]
    /\ UNCHANGED <<boot, strategy, orders, asked, told, died, history>>

\* Mutant of Login: InItCim before Contract_Filefun.
LoginThenContracts(c) ==
    /\ Request /\ StgMap[c] = 0 /\ IniMap
    /\ cimlist' = (IF loadCimList THEN cimlist ELSE ContMap) /\ loadCimList' = TRUE
    /\ session' = Append(session, NewSession(c, cimlist))
    /\ StgMap' = [StgMap EXCEPT ![c] = Len(session) + 1]
    /\ UNCHANGED <<boot, strategy, orders, asked, told, died, history>>

\* A login of a client that has no session.  InItClass reads _IniMap[0].
Login(c) ==
    /\ Request /\ StgMap[c] = 0
    /\ IF IniMap
       THEN /\ cimlist' = IF loadCimList THEN cimlist ELSE ContMap
            /\ loadCimList' = TRUE
            /\ session' = Append(session, NewSession(c, cimlist'))
            /\ StgMap' = [StgMap EXCEPT ![c] = Len(session) + 1]
            /\ UNCHANGED died
       ELSE died' = "settings" /\ UNCHANGED <<handler, session>>
    /\ UNCHANGED <<boot, strategy, orders, asked, told, history>>

\* A logout, or another login, of a client that has one: Dispose begins.
Dispose(c) ==
    /\ Request /\ StgMap[c] # 0
    /\ session' = [session EXCEPT ![StgMap[c]].phase = "exiting"]
    /\ UNCHANGED <<boot, handler, strategy, orders, asked, told, died, history>>

-----------------------------------------------------------------------------
(* Requests about portfolios. *)

OrderNumber(x) == strategy[x].NMPack.FARMONTHMOD.OrderNumber

\* Mutant of CancelsOf: a cancel goes out for an order that has no number yet.
CancelsUnnumbered(x) ==
    IF strategy[x].status \in {"OPEN", "PENDING"} THEN {OrderNumber(x)} ELSE {}

\* Mutant of CancelsOf: an order that was just modified or cancelled only.
CancelsPending(x) == IF strategy[x].status = "PENDING" THEN {OrderNumber(x)} \ {0} ELSE {}

\* The cancel that OnUnSubscriptionEventHandler sends: none without an order number.
CancelsOf(x) ==
    IF strategy[x].status \in {"OPEN", "PENDING"} THEN {OrderNumber(x)} \ {0} ELSE {}

OnUnSubscription(st) == [st EXCEPT !.status = "NONE", !.stop = TRUE, !.quotes = FALSE]

\* The templates of a strategy's orders are made once, for the legs it had then.
OnSubscription(st, p) ==
    [st EXCEPT !.pack = p, !.NMPack = IF @ = Templates(0) THEN Templates(p.TokenFar) ELSE @,
               !.stop = FALSE, !.quotes = FALSE, !.gen = @ + 1]

Connections(x, gen, p) == {[token |-> t, obj |-> x, gen |-> gen] : t \in Tokens(p)}

\* SubscribeTokenOnFalse for the three tokens: the flag is set first, nobody looks at what
\* nn_setsockopt returns, and without Datasock the subscription is lost.  (A socket that
\* comes between two tokens loses some of the legs, as it does for legs in common.)
SubscribeTokens(r, tokens) ==
    LET new == tokens \ r.SubStatus
    IN [r EXCEPT !.SubStatus = @ \cup new,
                 !.feed = IF r.Datasock THEN @ \cup new ELSE @,
                 !.early = IF r.Datasock THEN @ ELSE @ \cup new]

\* Strategy x of the session is connected to the signals of its tokens.
Connect(r, x, gen, p) ==
    SubscribeTokens([r EXCEPT !.DataPack = @ \cup Connections(x, gen, p),
                              !.SymbolDictionary = [t \in DOMAIN @ \cup Tokens(p) |->
                                  IF t \in Tokens(p) THEN p ELSE @[t]]],
                    Tokens(p))

Disconnect(r, x, gen) ==
    [r EXCEPT !.DataPack = {d \in @ : d.obj # x \/ d.gen # gen}]

HandleOnFOPairSubscription(c, p) ==
    LET s == StgMap[c] IN
    /\ Request /\ s # 0
    /\ \E BLQ \in LotSizes(s, p.TokenFar) :
         LET found == Find(s, p.PORTFOLIONAME)
             x == IF found = {} THEN Len(strategy) + 1 ELSE CHOOSE y \in found : TRUE
             all == IF found = {} THEN Append(strategy, NewStrategy(s, p.PORTFOLIONAME, "sub", BLQ))
                                  ELSE strategy
         IN /\ strategy' = [all EXCEPT ![x] = OnSubscription(@, p)]
            /\ session' = [session EXCEPT ![s] = Connect(@, x, strategy'[x].gen, p)]
    /\ told' = told \cup Tokens(p)
    /\ UNCHANGED <<boot, handler, orders, asked, died, history>>

\* Mutant of HandleOnFOPairUnSubscription: the tokens of the portfolio are unsubscribed.
UnSubscribesTokens(c, PF) ==
    LET s == StgMap[c] IN
    /\ Request /\ s # 0
    /\ \E x \in Find(s, PF) :
         /\ asked' = asked \cup CancelsOf(x)
         /\ strategy' = [strategy EXCEPT ![x] = [OnUnSubscription(@) EXCEPT !.live = FALSE]]
         /\ session' = [session EXCEPT
              ![s] = [Disconnect(@, x, strategy[x].gen) EXCEPT
                         !.SubStatus = @ \ Tokens(strategy[x].pack),
                         !.feed = @ \ Tokens(strategy[x].pack)]]
    /\ UNCHANGED <<boot, handler, orders, told, died, history>>

\* Mutant of HandleOnFOPairUnSubscription: the connections are left.
LeavesConnected(c, PF) ==
    LET s == StgMap[c] IN
    /\ Request /\ s # 0
    /\ \E x \in Find(s, PF) :
         /\ asked' = asked \cup CancelsOf(x)
         /\ strategy' = [strategy EXCEPT ![x] = [OnUnSubscription(@) EXCEPT !.live = FALSE]]
    /\ UNCHANGED <<boot, handler, session, orders, told, died, history>>

\* The connections of the last subscription are cut; older ones are nowhere remembered.
HandleOnFOPairUnSubscription(c, PF) ==
    LET s == StgMap[c] IN
    /\ Request /\ s # 0
    /\ \E x \in Find(s, PF) :
         /\ asked' = asked \cup CancelsOf(x)
         /\ strategy' = [strategy EXCEPT ![x] = [OnUnSubscription(@) EXCEPT !.live = FALSE]]
         /\ session' = [session EXCEPT ![s] = Disconnect(@, x, strategy[x].gen)]
    /\ UNCHANGED <<boot, handler, orders, told, died, history>>

\* The quantities and differences of a portfolio, which need not be subscribed.
HandleOnFOPairDiff(c, p) ==
    LET s == StgMap[c] IN
    /\ Request /\ s # 0
    /\ \E BLQ \in LotSizes(s, p.TokenFar) :
         LET found == Find(s, p.PORTFOLIONAME) IN
         strategy' = IF found = {}
                     THEN Append(strategy, [NewStrategy(s, p.PORTFOLIONAME, "diff", BLQ)
                                            EXCEPT !.quotes = TRUE])
                     ELSE [x \in Strategies |-> [strategy[x] EXCEPT !.quotes = @ \/ x \in found]]
    /\ UNCHANGED <<boot, handler, session, orders, asked, told, died, history>>

-----------------------------------------------------------------------------
(* Manual orders of a client. *)

SendOrder(tag, far, x) ==
    orders' = Append(orders, [tag |-> tag, far |-> far, obj |-> x, state |-> "sent"])

\* The lot size is looked up with operator[], which leaves an entry for the token.
ManualOrderEntry(c, token) ==
    /\ Request /\ StgMap[c] # 0 /\ Len(orders) < MaxOrders
    /\ SendOrder(Tag(c, Manual), token, 0)
    /\ session' = [session EXCEPT ![StgMap[c]].SymbolDictionary =
                     [t \in DOMAIN @ \cup {token} |-> Entry(@, t)]]
    /\ UNCHANGED <<boot, handler, strategy, asked, told, died, history>>

\* Only an order in ManualOrderStore can be cancelled (or modified).
ManualOrder_Mod_CNclEntry(c, o) ==
    /\ Request /\ StgMap[c] # 0
    /\ asked' = IF o \in session[StgMap[c]].manual THEN asked \cup {o} ELSE asked
    /\ UNCHANGED <<boot, handler, session, strategy, orders, told, died, history>>

-----------------------------------------------------------------------------
(* Dispose, after its first second of sleep. *)

\* The portfolio that SymbolDictionary has for the first leg of an entry.
StoppedPFs(s) ==
    LET SD == session[s].SymbolDictionary
    IN {Entry(SD, SD[t].TokenFar).PORTFOLIONAME : t \in DOMAIN SD}

Held(s, PFs) == UNION {Find(s, PF) : PF \in PFs}

\* Mutant of StopAllOrder: Dispose first waits for the event thread to end.
JoinsFirst(s) ==
    /\ session[s].phase = "exiting" /\ ~session[s].listens
    /\ asked' = asked \cup UNION {CancelsOf(x) : x \in Held(s, StoppedPFs(s))}
    /\ session' = [session EXCEPT ![s].phase = "stopped"]
    /\ UNCHANGED <<boot, handler, strategy, orders, told, requests, died, history>>

\* Datasock is set to NULL first: the unsubscriptions reach no feed.
\* CancelAllOrder follows; it sends nothing, for nothing fills the tables it looks at.
StopAllOrder(s) ==
    LET reached == Held(s, StoppedPFs(s))
        SD == session[s].SymbolDictionary
        tokens == UNION {Tokens(SD[t]) : t \in DOMAIN SD}
    IN
    /\ session[s].phase = "exiting"
    /\ asked' = asked \cup UNION {CancelsOf(x) : x \in reached}
    /\ strategy' = [x \in Strategies |->
                      IF x \in reached THEN OnUnSubscription(strategy[x]) ELSE strategy[x]]
    /\ session' = [session EXCEPT ![s] =
                     [@ EXCEPT !.phase = "stopped", !.SubStatus = session[s].SubStatus \ tokens,
                               !.Datasock = FALSE]]
    /\ shadowed' = shadowed \cup {x \in Strategies \ reached : strategy[x].ses = s}
    /\ UNCHANGED <<boot, handler, orders, told, requests, died, heard, known>>

\* The strategies and signals named in SymbolDictionary go (not the signals of third
\* legs), then the client's session.
EraseAll(s) ==
    LET SD == session[s].SymbolDictionary
        gone == Held(s, {SD[t].PORTFOLIONAME : t \in DOMAIN SD})
        signals == UNION {{SD[t].TokenFar, SD[t].TokenNear} : t \in DOMAIN SD}
    IN
    /\ session[s].phase = "stopped"
    /\ strategy' = [x \in Strategies |-> [strategy[x] EXCEPT !.live = @ /\ x \notin gone]]
    /\ session' = [session EXCEPT ![s] =
         [@ EXCEPT !.phase = "erased", !.SymbolDictionary = <<>>,
                   !.DataPack = {d \in session[s].DataPack : d.token \notin signals}]]
    /\ StgMap' = [StgMap EXCEPT ![session[s].client] = 0]
    /\ UNCHANGED <<boot, cimlist, loadCimList, orders, asked, told, requests, died, history>>

-----------------------------------------------------------------------------
(* The data thread of a session: a tick runs the handlers connected to its token. *)

\* The thread makes its socket (one that comes after IsExit ends at once).
Datasubscriber(s) ==
    /\ ~IsExit(s) /\ ~session[s].Datasock
    /\ session' = [session EXCEPT ![s].Datasock = TRUE]
    /\ UNCHANGED <<boot, handler, strategy, orders, asked, told, requests, died, history>>

\* Mutant of MayQuote: OnDataEventHandler does not look at the lot size.
QuotesAnyLot(st) == ~st.stop /\ st.quotes /\ st.status \in {"NONE", "TRADE", "CANCEL"}

MayQuote(st) ==
    /\ st.BLQ # "zero" /\ ~st.stop /\ st.quotes
    /\ st.status \in {"NONE", "TRADE", "CANCEL"}

Busy == {s \in Sessions : session[s].hand # 0}

\* The handler decides to send an order.
Look(s) ==
    /\ ~IsExit(s) /\ session[s].hand = 0 /\ Len(orders) + Cardinality(Busy) < MaxOrders
    /\ \E d \in session[s].DataPack :
         /\ d.token \in session[s].feed /\ strategy[d.obj].live /\ MayQuote(strategy[d.obj])
         /\ session' = [session EXCEPT ![s].hand = d.obj]
    /\ UNCHANGED <<boot, handler, strategy, orders, asked, told, requests, died, history>>

\* A strategy's tag holds the client number it was given when it was subscribed first.
AddressOf(st) == IF st.by = "sub" THEN Tag(session[st.ses].client, st.pf) ELSE 0

\* It sends it, for a strategy that may have been erased meanwhile.
Send(s) ==
    LET x == session[s].hand IN
    /\ x # 0
    /\ SendOrder(AddressOf(strategy[x]), strategy[x].NMPack.FARMONTH.TokenNo, x)
    /\ strategy' = [strategy EXCEPT ![x].status = IF strategy[x].live THEN "PENDING" ELSE @]
    /\ session' = [session EXCEPT ![s].hand = 0]
    /\ UNCHANGED <<boot, handler, asked, told, requests, died, history>>

\* A connection to an erased strategy calls into freed memory.
CallErased(s) ==
    /\ ~IsExit(s) /\ session[s].hand = 0
    /\ \E d \in session[s].DataPack : d.token \in session[s].feed /\ ~strategy[d.obj].live
    /\ died' = "erased"
    /\ UNCHANGED <<boot, handler, session, strategy, orders, asked, told, requests, history>>

-----------------------------------------------------------------------------
(* The event thread of a session. *)

\* What the handlers of StrategyClass make of an event of order o.
After(st, o, kind) ==
    IF st.pack.TokenFar # orders[o].far THEN st
    ELSE CASE kind = "confirmed" -> [st EXCEPT !.status = "OPEN",
                                                 !.NMPack.FARMONTHMOD.OrderNumber = o]
           [] kind = "traded"    -> [st EXCEPT !.status = "TRADE"]
           [] OTHER              -> [st EXCEPT !.status = "CANCEL"]

\* A manual order is stored when it is confirmed (or its modification is).
ManualOrderStore(manual, d, e) ==
    IF d.MsgType = eORDER /\ d.PFNum >= Manual /\ e.kind = "confirmed"
    THEN manual \cup {e.order} ELSE manual

\* A thread told to exit ends after the event it was waiting for.
Heard(r, d) ==
    [r EXCEPT !.inbox = IF r.phase = "open" THEN Tail(@) ELSE <<>>,
              !.listens = r.phase = "open",
              !.manual = ManualOrderStore(@, d, Head(r.inbox))]

\* An event for a portfolio that has no strategy makes one, of lot size 0; a trade then
\* divides by it.
Eventsubscriber(s) ==
    LET e == Head(session[s].inbox)
        d == Decode(orders[e.order].tag)
        found == Find(s, d.PFNum)
        x == IF found = {} THEN Len(strategy) + 1 ELSE CHOOSE y \in found : TRUE
        all == IF found = {} THEN Append(strategy, NewStrategy(s, d.PFNum, "event", "zero"))
                             ELSE strategy
    IN
    /\ session[s].listens /\ session[s].inbox # <<>>
    /\ IF d.MsgType = eORDER
       THEN /\ strategy' = [all EXCEPT ![x] = After(@, e.order, e.kind)]
            /\ died' = IF e.kind = "traded" /\ all[x].BLQ = "zero" THEN "division" ELSE died
            /\ heard' = heard \cup {<<e.order, x>>}
            /\ known' = IF /\ e.kind = "confirmed" /\ orders[e.order].obj = x /\ ~IsExit(s)
                           /\ all[x].pack.TokenFar = orders[e.order].far
                        THEN known \cup {e.order} ELSE known
       ELSE UNCHANGED <<strategy, died, heard, known>>
    /\ session' = [session EXCEPT ![s] = Heard(@, d)]
    /\ UNCHANGED <<boot, handler, orders, asked, told, requests, shadowed>>

-----------------------------------------------------------------------------
(* The exchange, through the gateway; each event goes to the threads that asked for it. *)

TagsOf == [c \in Clients |-> SubscribedTags(c)]

\* The event socket is a local of its thread: Dispose shuts another one down, and the
\* thread hears events until it ends.
Publish(o, kind) ==
    session' = [s \in Sessions |->
        IF session[s].listens /\ orders[o].tag \in TagsOf[session[s].client]
        THEN [session[s] EXCEPT !.inbox = Append(@, [order |-> o, kind |-> kind])]
        ELSE session[s]]

Moves(o, from, to, kind) ==
    /\ orders[o].state = from
    /\ orders' = [orders EXCEPT ![o].state = to]
    /\ Publish(o, kind)
    /\ UNCHANGED <<boot, handler, strategy, told, requests, died, history>>

Accept(o) == Moves(o, "sent", "working", "confirmed") /\ UNCHANGED asked
Fill(o) == Moves(o, "working", "done", "traded") /\ UNCHANGED asked
Withdraw(o) == o \in asked /\ Moves(o, "working", "done", "cancelled") /\ asked' = asked \ {o}
Refuse(o) == o \in asked /\ Moves(o, "done", "done", "refused") /\ asked' = asked \ {o}

-----------------------------------------------------------------------------

Requests(c) ==
    \/ Login(c) \/ Dispose(c)
    \/ \E p \in Packets : \/ HandleOnFOPairSubscription(c, p)
                          \/ HandleOnFOPairUnSubscription(c, p.PORTFOLIONAME)
                          \/ HandleOnFOPairDiff(c, p)
                          \/ ManualOrderEntry(c, p.TokenFar)
    \/ \E o \in DOMAIN orders : ManualOrder_Mod_CNclEntry(c, o)

Disposal(s) == StopAllOrder(s) \/ EraseAll(s)
DataThread(s) == Datasubscriber(s) \/ Look(s) \/ Send(s) \/ CallErased(s)
Exchange(o) == Accept(o) \/ Fill(o) \/ Withdraw(o) \/ Refuse(o)

Step ==
    \/ LoadSettings \/ LoadContract
    \/ \E c \in Clients : Requests(c)
    \/ \E s \in Sessions : Disposal(s) \/ DataThread(s) \/ Eventsubscriber(s)
    \/ \E o \in DOMAIN orders : Exchange(o)

Next == died = "no" /\ Step

\* Dispose runs to its end, and the exchange answers the cancels of working orders.
Fairness ==
    /\ WF_vars(died = "no" /\ \E s \in Sessions : Disposal(s))
    /\ \A o \in 1..MaxOrders : WF_vars(died = "no" /\ o \in DOMAIN orders /\ Withdraw(o))

Spec == Init /\ [][Next]_vars /\ Fairness

-----------------------------------------------------------------------------
(* Properties. *)

Events == [order : Nat, kind : {"confirmed", "traded", "cancelled", "refused"}]
Packs == Packets \cup {NoPacket}
Dictionaries == UNION {[T -> Packs] : T \in SUBSET AllTokens}
Slots == [token : AllTokens, obj : Nat, gen : Nat]

SessionRecords ==
    [client : Clients, phase : {"open", "exiting", "stopped", "erased"}, cim : SUBSET Contracts,
     SubStatus : SUBSET AllTokens, Datasock : BOOLEAN, feed : SUBSET AllTokens,
     early : SUBSET AllTokens, SymbolDictionary : Dictionaries, DataPack : SUBSET Slots,
     hand : Nat, inbox : Seq(Events), listens : BOOLEAN, manual : SUBSET Nat]

FirstLegs == {0} \cup AllTokens
Numbers == [TokenNo : FirstLegs, OrderNumber : Nat]

StrategyRecords ==
    [live : BOOLEAN, ses : Nat, pf : Portfolio, by : {"sub", "diff", "event"},
     BLQ : {"lot", "zero", "junk"}, pack : Packs,
     NMPack : [FARMONTH : [TokenNo : FirstLegs], FARMONTHMOD : Numbers],
     status : {"NONE", "PENDING", "OPEN", "TRADE", "CANCEL"},
     stop : BOOLEAN, quotes : BOOLEAN, gen : Nat]

OrderRecords ==
    [tag : Nat, far : FirstLegs, obj : Nat, state : {"sent", "working", "done"}]

\* What refers to a session, a strategy or an order refers to one there is.
References ==
    /\ \A s \in Sessions :
         /\ session[s].hand \in {0} \cup Strategies /\ session[s].manual \subseteq DOMAIN orders
         /\ \A d \in session[s].DataPack : d.obj \in Strategies
         /\ \A i \in DOMAIN session[s].inbox : session[s].inbox[i].order \in DOMAIN orders
    /\ \A x \in Strategies :
         /\ strategy[x].ses \in Sessions /\ OrderNumber(x) \in {0} \cup DOMAIN orders
    /\ \A o \in DOMAIN orders : orders[o].obj \in {0} \cup Strategies

BootTypes == IniMap \in BOOLEAN /\ ContMap \subseteq Contracts

HandlerTypes ==
    /\ cimlist \subseteq Contracts /\ loadCimList \in BOOLEAN
    /\ StgMap \in [Clients -> {0} \cup Sessions]

ProcessTypes ==
    /\ told \subseteq AllTokens /\ requests \in Nat
    /\ died \in {"no", "settings", "erased", "division"}

HistoryTypes ==
    /\ heard \subseteq (DOMAIN orders) \X Strategies
    /\ known \subseteq DOMAIN orders /\ shadowed \subseteq Strategies

\* The types of the state of ClientHandler, AutoClient and StrategyClass.
TypeOK ==
    /\ BootTypes /\ HandlerTypes /\ ProcessTypes /\ HistoryTypes
    /\ session \in Seq(SessionRecords) /\ strategy \in Seq(StrategyRecords)
    /\ orders \in Seq(OrderRecords) /\ asked \subseteq DOMAIN orders
    /\ References

\* A client has at most one session that trades: whichever login, logout and Dispose came
\* before, a session that was not told to exit is the one ClientHandler knows.
OneSessionPerClient ==
    \A s \in Sessions : ~IsExit(s) => StgMap[session[s].client] = s

\* An event is handled by a strategy of the client and the portfolio that sent the order, by
\* the sender itself unless it was erased or the session of one of them ended; and while
\* the sender's session runs, no confirmation is lost on the way (Tag, Eventsubscriber).
EventsReachTheirSender ==
    /\ \A h \in heard :
         LET x == orders[h[1]].obj IN
         /\ x # 0 /\ strategy[h[2]].pf = strategy[x].pf
         /\ session[strategy[h[2]].ses].client = session[strategy[x].ses].client
         /\ h[2] = x \/ ~strategy[x].live \/ \E y \in {x, h[2]} : IsExit(strategy[y].ses)
    /\ \A o \in DOMAIN orders :
         LET x == orders[o].obj IN
         x # 0 /\ strategy[x].live /\ strategy[x].by = "sub" /\ ~IsExit(strategy[x].ses) =>
             \/ orders[o].state = "sent" \/ <<o, x>> \in heard
             \/ \E i \in DOMAIN session[strategy[x].ses].inbox :
                  session[strategy[x].ses].inbox[i] = [order |-> o, kind |-> "confirmed"]

\* Each leg of a subscribed portfolio was published to the data server and is subscribed on
\* the socket of the session's data thread, however portfolios that share tokens come and
\* go, unless its one subscription was made before the thread had made the socket: the flag
\* says then that it is subscribed, and it never is (SubscribeTokenOnFalse, Datasubscriber).
LegsAreFed ==
    \A x \in Strategies :
        LET r == session[strategy[x].ses] IN
        strategy[x].live /\ strategy[x].gen > 0 /\ ~IsExit(strategy[x].ses) =>
            Tokens(strategy[x].pack) \subseteq told \cap (r.feed \cup r.early)

\* While a session runs, a strategy subscribed once is called once for a tick of one of its
\* legs, and nothing calls a strategy that was erased, unless it was subscribed again.
CalledOnce ==
    \A s \in Sessions : ~IsExit(s) =>
        /\ \A d \in session[s].DataPack : ~strategy[d.obj].live => strategy[d.obj].gen > 1
        /\ \A x \in Strategies :
             strategy[x].live /\ strategy[x].ses = s /\ strategy[x].gen = 1 =>
                {d \in session[s].DataPack : d.obj = x} = Connections(x, 1, strategy[x].pack)

\* A strategy made by a request has the lot size of its contract once the file was read
\* in full before the first login (Contract_Filefun runs once, InItCim after it).
LotsAreTheContracts ==
    cimlist = Contracts =>
        \A x \in Strategies : strategy[x].by # "event" => strategy[x].BLQ = "lot"

\* The strategy was never given an event of another strategy's order: that is what the late
\* events of an erased strategy do to the next one of its portfolio.
HeardItsOwn(x) == \A h \in heard : h[2] = x => orders[h[1]].obj = x

\* No order that works and whose number its strategy took is forgotten: when the strategy is
\* erased or its session has stopped, a cancel was sent, unless another portfolio took the
\* entry of its first leg or a stranger's event changed the strategy's status
\* (UnSubscription, StopAllOrder, CancelAllOrder).
NoKnownOrderForgotten ==
    \A o \in known :
        LET x == orders[o].obj IN
        /\ orders[o].state = "working" /\ HeardItsOwn(x)
        /\ ~strategy[x].live \/ session[strategy[x].ses].phase \in {"stopped", "erased"}
        => o \in asked \/ x \in shadowed

\* The process dies of a division only when the trade is of an order of a strategy that
\* is no more: a strategy that sent an order has a lot size when its events come back.
DividesOnlyForStrangers ==
    \A h \in heard : orders[h[1]].obj = h[2] => strategy[h[2]].BLQ # "zero"

Leaves(o) ==
    /\ o \in known /\ orders[o].state = "working"
    /\ IsExit(strategy[orders[o].obj].ses) /\ HeardItsOwn(orders[o].obj)
    /\ orders[o].obj \notin shadowed

\* A logout takes the client's orders off the market: an order known to its strategy when
\* the session exits is filled or withdrawn in the end, unless another portfolio took the
\* entry of its first leg, the strategy was given a stranger's event or the process dies
\* (Dispose, StopAllOrder).
LogoutClears ==
    \A o \in 1..MaxOrders :
        (o \in DOMAIN orders /\ Leaves(o)) ~> (died # "no" \/ ~Leaves(o))
=============================================================================
