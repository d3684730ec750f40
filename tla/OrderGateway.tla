---------------------------- MODULE OrderGateway ----------------------------
(***************************************************************************)
(* TapSignOn: the two threads that stand between the strategies and the    *)
(* exchange.  SendToExchange ("the sender") takes requests from the market *)
(* queue and the bid queue and writes them to the socket; BindConnection   *)
(* ("the reader") reads the exchange's packets, finds the owner of each    *)
(* one and publishes it on the event socket.  They share, with no lock in  *)
(* common, SeqNo, InvitationCount and the vector _QueueHolder.             *)
(*                                                                         *)
(* A shared integer is read and written in separate steps, because the     *)
(* build keeps them apart (gcc -O0: load, add, store).  The exchange is    *)
(* external; it is modelled from the packet codes the reader handles and   *)
(* from the simulator under SimWithData, which grants one invitation on    *)
(* connection and one for each packet it receives.                         *)
(***************************************************************************)
EXTENDS Integers, Sequences, FiniteSets, SequencesExt

CONSTANTS
    NewOrders,      \* the new-order requests the strategies submit
    MarketOrders,   \* those sent as hits, through the market queue
    Keys,           \* the (token, price, volume, side) combinations in use
    KeyOf,          \* the combination each new order carries
    Lots,           \* the fills it takes to complete an order
    MaxOm,          \* bound: modify and cancel requests of the strategies
    Orphan          \* the zeroed PFHolder (PF = 0): no owner is known

ASSUME GatewayAssumption ==
    /\ NewOrders # {}
    /\ MarketOrders \subseteq NewOrders
    /\ KeyOf \in [NewOrders -> Keys]
    /\ Lots \in Nat \ {0}
    /\ MaxOm \in Nat
    /\ Orphan \notin NewOrders

VARIABLES
    pending,            \* new orders the strategies have not submitted yet
    omCount,            \* modify and cancel requests submitted so far
    Bidqueue, Mktqueue, \* the two concurrent_queue objects
    SeqNo,              \* pkt.SeqNo
    InvitationCount,    \* pkt.InvitationCount
    QueueHolder,        \* _QueueHolder: sent new orders that await a number
    OutPF,              \* _PFHashMap._OutPF: order number -> holder
    spc, hand, sreg, stamp,     \* sender: control point, _out, register, stamp
    rpc, rreg, counter,         \* reader: control point, register, counter
    toExch, toGw,       \* the two directions of the TCP connection
    book,               \* exchange: the order behind each order number
    lastSeq,            \* sequence number of the last packet written
    disturbed,          \* history: a holder left the vector irregularly
    lostUpdate          \* history: a store to InvitationCount undid another

queueVars == <<pending, omCount, Bidqueue, Mktqueue>>
senderVars == <<spc, hand, sreg, stamp>>
readerVars == <<rpc, rreg, counter>>
sharedVars == <<SeqNo, InvitationCount, lostUpdate>>
tableVars == <<QueueHolder, OutPF, disturbed>>
wireVars == <<toExch, toGw, lastSeq>>
vars == <<queueVars, senderVars, readerVars, sharedVars, tableVars, wireVars, book>>

-----------------------------------------------------------------------------
(* Requests and packets.  A request is _size = 136 exactly when op = "new". *)

NewRequest(o) == [op |-> "new", id |-> o, order |-> 0]
OmRequest(op, n) == [op |-> op, id |-> Orphan, order |-> n]
CancelOf(n) == OmRequest("cancel", n)
SignOnRequest(op) == [op |-> op, id |-> Orphan, order |-> 0]

Request ==
    [op : {"new"}, id : NewOrders, order : {0}]
      \cup [op : {"modify", "cancel"}, id : {Orphan}, order : Nat]
      \cup [op : {"login", "sysinfo"}, id : {Orphan}, order : {0}]

Invitation == [code |-> 15000]
SignOnReply == [code |-> 2301]
Confirm(n, k) == [code |-> 20073, order |-> n, key |-> k]
Reject(c, n, k) == [code |-> c, order |-> n, key |-> k]
Update(c, n) == [code |-> c, order |-> n]
LateReject(m) == m.code # 20073 /\ m.order > 0
Trade(n, r) == [code |-> 20222, order |-> n, rem |-> r]

Packet ==
    [code : {15000, 2301}]
      \cup [code : {20073, 2042, 2072, 2231}, order : Nat, key : Keys]
      \cup [code : {20074, 20075}, order : Nat]
      \cup [code : {20222}, order : Nat, rem : Nat]

OrderNumbers == 1..Len(book)
IsLive(n) == n \in OrderNumbers /\ book[n].rem > 0

-----------------------------------------------------------------------------
Init ==
    /\ pending = NewOrders /\ omCount = 0
    /\ Bidqueue = <<>> /\ Mktqueue = <<>>
    /\ SeqNo = 0 /\ InvitationCount = 0 /\ lostUpdate = FALSE
    /\ QueueHolder = <<>> /\ OutPF = [n \in {} |-> Orphan] /\ disturbed = FALSE
    /\ spc = "poll" /\ hand = SignOnRequest("login") /\ sreg = 0 /\ stamp = 0
    /\ rpc = "recv" /\ rreg = 0 /\ counter = 0
    /\ toExch = <<>> /\ toGw = <<Invitation>> /\ lastSeq = 0
    /\ book = <<>>

-----------------------------------------------------------------------------
(* The strategies, seen from the gateway: FillData::BidQueue and MktQueue.  *)

Submit(o) ==
    /\ o \in pending
    /\ pending' = pending \ {o}
    /\ IF o \in MarketOrders
       THEN Mktqueue' = Append(Mktqueue, NewRequest(o)) /\ UNCHANGED Bidqueue
       ELSE Bidqueue' = Append(Bidqueue, NewRequest(o)) /\ UNCHANGED Mktqueue
    /\ UNCHANGED <<omCount, senderVars, readerVars, sharedVars, tableVars, wireVars, book>>

\* A strategy knows the number of an order once the gateway has published it.
SubmitOm(op, n) ==
    /\ omCount < MaxOm
    /\ n \in DOMAIN OutPF \ {0} /\ OutPF[n] # Orphan
    /\ omCount' = omCount + 1
    /\ Bidqueue' = Append(Bidqueue, OmRequest(op, n))
    /\ UNCHANGED <<pending, Mktqueue, senderVars, readerVars, sharedVars, tableVars,
                   wireVars, book>>

-----------------------------------------------------------------------------
(* The sender: one iteration of the loop of SendToExchange.                 *)

SenderUnchanged == UNCHANGED <<readerVars, book, toGw, OutPF, disturbed, pending, omCount>>

\* Mutant of Poll: the invitation count is not asked for.
PollUninvited ==
    /\ spc = "poll"
    /\ spc' = "size"
    /\ SenderUnchanged
    /\ UNCHANGED <<Bidqueue, Mktqueue, hand, sreg, stamp, sharedVars, QueueHolder, toExch,
                   lastSeq>>

\* The invitation count is read first; the queues are looked at after it.
Poll ==
    /\ spc = "poll" /\ InvitationCount > 0
    /\ spc' = "size"
    /\ SenderUnchanged
    /\ UNCHANGED <<Bidqueue, Mktqueue, hand, sreg, stamp, sharedVars, QueueHolder, toExch,
                   lastSeq>>

\* Mutant of PollSizes: the size of the market queue is asked for twice.
PollMarketOnly ==
    /\ spc = "size"
    /\ spc' = IF Mktqueue = <<>> THEN "poll" ELSE "choose"
    /\ SenderUnchanged
    /\ UNCHANGED <<Bidqueue, Mktqueue, hand, sreg, stamp, sharedVars, QueueHolder, toExch,
                   lastSeq>>

PollSizes ==
    /\ spc = "size"
    /\ spc' = IF Bidqueue = <<>> /\ Mktqueue = <<>> THEN "poll" ELSE "choose"
    /\ SenderUnchanged
    /\ UNCHANGED <<Bidqueue, Mktqueue, hand, sreg, stamp, sharedVars, QueueHolder, toExch,
                   lastSeq>>

\* Mutant of PopMkt: the queue is read and not popped.
PeekMkt ==
    /\ spc = "choose" /\ Mktqueue # <<>>
    /\ hand' = Head(Mktqueue)
    /\ spc' = "loadSeq"
    /\ SenderUnchanged
    /\ UNCHANGED <<Bidqueue, Mktqueue, sreg, stamp, sharedVars, QueueHolder, toExch, lastSeq>>

PopMkt ==
    /\ spc = "choose" /\ Mktqueue # <<>>
    /\ hand' = Head(Mktqueue) /\ Mktqueue' = Tail(Mktqueue)
    /\ spc' = "loadSeq"
    /\ SenderUnchanged
    /\ UNCHANGED <<Bidqueue, sreg, stamp, sharedVars, QueueHolder, toExch, lastSeq>>

\* The market queue was seen empty; a market request pushed after that waits.
ChooseBid ==
    /\ spc = "choose" /\ Mktqueue = <<>>
    /\ spc' = "popBid"
    /\ SenderUnchanged
    /\ UNCHANGED <<Bidqueue, Mktqueue, hand, sreg, stamp, sharedVars, QueueHolder, toExch,
                   lastSeq>>

PopBid ==
    /\ spc = "popBid" /\ Bidqueue # <<>>
    /\ hand' = Head(Bidqueue) /\ Bidqueue' = Tail(Bidqueue)
    /\ spc' = "loadSeq"
    /\ SenderUnchanged
    /\ UNCHANGED <<Mktqueue, sreg, stamp, sharedVars, QueueHolder, toExch, lastSeq>>

LoadSeq ==
    /\ spc = "loadSeq"
    /\ sreg' = SeqNo /\ spc' = "storeSeq"
    /\ SenderUnchanged
    /\ UNCHANGED <<Bidqueue, Mktqueue, hand, stamp, sharedVars, QueueHolder, toExch, lastSeq>>

StoreSeq ==
    /\ spc = "storeSeq"
    /\ SeqNo' = sreg + 1 /\ spc' = "stamp"
    /\ SenderUnchanged
    /\ UNCHANGED <<Bidqueue, Mktqueue, hand, sreg, stamp, InvitationCount, lostUpdate,
                   QueueHolder, toExch, lastSeq>>

\* SequenceNumber = ntohl(pkt.SeqNo): a second read of the shared counter.
Stamp ==
    /\ spc = "stamp"
    /\ stamp' = SeqNo /\ spc' = "send"
    /\ SenderUnchanged
    /\ UNCHANGED <<Bidqueue, Mktqueue, hand, sreg, sharedVars, QueueHolder, toExch, lastSeq>>

Write(req, seq) == toExch' = Append(toExch, req) /\ lastSeq' = seq

Send ==
    /\ spc = "send"
    /\ Write(hand, stamp)
    /\ spc' = "loadInv"
    /\ SenderUnchanged
    /\ UNCHANGED <<Bidqueue, Mktqueue, hand, sreg, stamp, sharedVars, QueueHolder>>

LoadInv ==
    /\ spc = "loadInv"
    /\ sreg' = InvitationCount /\ spc' = "storeInv"
    /\ SenderUnchanged
    /\ UNCHANGED <<Bidqueue, Mktqueue, hand, stamp, sharedVars, QueueHolder, toExch, lastSeq>>

\* Mutant of StoreInv: a request of either size is remembered.
StoreInvAnySize ==
    /\ spc = "storeInv"
    /\ InvitationCount' = sreg - 1
    /\ lostUpdate' = (lostUpdate \/ InvitationCount # sreg)
    /\ spc' = "push"
    /\ SenderUnchanged
    /\ UNCHANGED <<Bidqueue, Mktqueue, hand, sreg, stamp, SeqNo, QueueHolder, toExch, lastSeq>>

\* Mutant of StoreInv: a modify or cancel spends no invitation.
StoreInvNewOnly ==
    /\ spc = "storeInv"
    /\ InvitationCount' = IF hand.op = "new" THEN sreg - 1 ELSE sreg
    /\ lostUpdate' = (lostUpdate \/ InvitationCount # sreg)
    /\ spc' = IF hand.op = "new" THEN "push" ELSE "poll"
    /\ SenderUnchanged
    /\ UNCHANGED <<Bidqueue, Mktqueue, hand, sreg, stamp, SeqNo, QueueHolder, toExch, lastSeq>>

\* Only a new order is remembered, and only now, after it was sent.
StoreInv ==
    /\ spc = "storeInv"
    /\ InvitationCount' = sreg - 1
    /\ lostUpdate' = (lostUpdate \/ InvitationCount # sreg)
    /\ spc' = IF hand.op = "new" THEN "push" ELSE "poll"
    /\ SenderUnchanged
    /\ UNCHANGED <<Bidqueue, Mktqueue, hand, sreg, stamp, SeqNo, QueueHolder, toExch, lastSeq>>

PushBack ==
    /\ spc = "push"
    /\ QueueHolder' = Append(QueueHolder, hand.id)
    /\ spc' = "poll"
    /\ SenderUnchanged
    /\ UNCHANGED <<Bidqueue, Mktqueue, hand, sreg, stamp, sharedVars, toExch, lastSeq>>

Sender ==
    \/ Poll \/ PollSizes \/ PopMkt \/ ChooseBid \/ PopBid \/ LoadSeq \/ StoreSeq
    \/ Stamp \/ Send \/ LoadInv \/ StoreInv \/ PushBack

-----------------------------------------------------------------------------
(* The reader: one packet of the loop of BindConnection.                    *)

ReaderUnchanged == UNCHANGED <<pending, omCount, Bidqueue, hand, sreg, stamp, book>>

\* The first two packets, whatever they are, trigger the two sign-on requests.
EndOfPacket ==
    IF counter < 2
    THEN counter' = counter + 1 /\ rpc' = "signOn"
    ELSE UNCHANGED counter /\ rpc' = "recv"

Receives(m) ==
    /\ rpc = "recv" /\ toGw # <<>>
    /\ m = Head(toGw) /\ toGw' = Tail(toGw)
    /\ UNCHANGED <<toExch, lastSeq>>

\* case 15000: InvitationCount += 1.
RecvInvitation ==
    /\ Receives(Invitation)
    /\ rreg' = InvitationCount /\ rpc' = "grant"
    /\ ReaderUnchanged
    /\ UNCHANGED <<counter, Mktqueue, spc, sharedVars, tableVars>>

Grant ==
    /\ rpc = "grant"
    /\ InvitationCount' = rreg + 1
    /\ lostUpdate' = (lostUpdate \/ InvitationCount # rreg)
    /\ EndOfPacket
    /\ ReaderUnchanged
    /\ UNCHANGED <<rreg, Mktqueue, spc, SeqNo, tableVars, wireVars>>

RecvSignOnReply ==
    /\ Receives(SignOnReply)
    /\ EndOfPacket
    /\ ReaderUnchanged
    /\ UNCHANGED <<rreg, Mktqueue, spc, sharedVars, tableVars>>

\* PFHashMap: a number already present keeps its record.
AddRecord(n, h) ==
    OutPF' = IF n \in DOMAIN OutPF THEN OutPF
             ELSE [m \in DOMAIN OutPF \cup {n} |-> IF m = n THEN h ELSE OutPF[m]]

GetRecordByOrder(n) == IF n \in DOMAIN OutPF THEN OutPF[n] ELSE Orphan

\* Mutants of Match: the comparison is dropped; the search starts one too late.
MatchAnything(k) == DOMAIN QueueHolder
MatchFromSecond(k) == {i \in DOMAIN QueueHolder : i > 1 /\ KeyOf[QueueHolder[i]] = k}

Match(k) == {i \in DOMAIN QueueHolder : KeyOf[QueueHolder[i]] = k}

\* What an erase of slot i leaves when it overlaps the push_back of x: each slot
\* from i on is copied (by the reallocation) before or after it is shifted, and
\* one of the two updates of the end pointer may be lost.
TornErase(v, i, x) ==
    LET copies == {c \in [DOMAIN v -> Range(v)] :
                     \A j \in DOMAIN v :
                       \/ c[j] = v[j]
                       \/ i <= j /\ j < Len(v) /\ c[j] = v[j + 1]}
    IN {RemoveAt(v, i)} \cup copies \cup {Append(c, x) : c \in copies}

\* Mutant of GetPF: the holder found is not erased.
GetPFKeep(m, h) ==
    /\ AddRecord(m.order, h)
    /\ \/ Match(m.key) = {} /\ h = Orphan
       \/ \E i \in Match(m.key) : (\A j \in Match(m.key) : i <= j) /\ h = QueueHolder[i]
    /\ UNCHANGED <<QueueHolder, spc, disturbed>>

\* GetPF: the first holder with the packet's key, if any, moves to the record of
\* the packet's order number; without one the number is recorded with no owner.
GetPF(m, h) ==
    /\ AddRecord(m.order, h)
    /\ \/ /\ Match(m.key) = {} /\ h = Orphan
          /\ UNCHANGED <<QueueHolder, spc, disturbed>>
       \/ \E i \in Match(m.key) :
            /\ \A j \in Match(m.key) : i <= j
            /\ h = QueueHolder[i]
            /\ \/ /\ QueueHolder' = RemoveAt(QueueHolder, i)
                  /\ disturbed' = (disturbed \/ LateReject(m)) /\ UNCHANGED spc
               \/ /\ spc = "push" /\ spc' = "poll"
                  /\ QueueHolder' \in TornErase(QueueHolder, i, hand.id)
                  /\ disturbed' = TRUE

\* Mutant of RecvConfirm: the cancel is pushed only if the order is known.
RecvConfirmNoCancel ==
    LET m == Head(toGw) IN
    /\ Receives(m) /\ m.code = 20073
    /\ \E h \in NewOrders \cup {Orphan} : GetPF(m, h)
    /\ EndOfPacket
    /\ ReaderUnchanged /\ UNCHANGED <<rreg, Mktqueue, sharedVars>>

\* case 20073: a confirmation nobody owns is answered with a cancel.
RecvConfirm ==
    LET m == Head(toGw) IN
    /\ Receives(m) /\ m.code = 20073
    /\ \E h \in NewOrders \cup {Orphan} :
         /\ GetPF(m, h)
         /\ Mktqueue' = IF h = Orphan THEN Append(Mktqueue, CancelOf(m.order)) ELSE Mktqueue
    /\ EndOfPacket
    /\ ReaderUnchanged /\ UNCHANGED <<rreg, sharedVars>>

\* case 2042, 2072, 2231: by order number and, failing that, by key.
RecvReject ==
    LET m == Head(toGw) IN
    /\ Receives(m) /\ m.code \in {2042, 2072, 2231}
    /\ IF m.order > 0 /\ GetRecordByOrder(m.order) # Orphan
       THEN UNCHANGED <<spc, tableVars>>
       ELSE \E h \in NewOrders \cup {Orphan} : GetPF(m, h)
    /\ EndOfPacket
    /\ ReaderUnchanged /\ UNCHANGED <<rreg, Mktqueue, sharedVars>>

\* case 20074, 20075: looked up and published; no record changes.
RecvUpdate ==
    LET m == Head(toGw) IN
    /\ Receives(m) /\ m.code \in {20074, 20075}
    /\ EndOfPacket
    /\ ReaderUnchanged /\ UNCHANGED <<rreg, Mktqueue, spc, sharedVars, tableVars>>

\* Mutant of RecvTrade: the record goes one fill too early.
RecvTradeEarly ==
    LET m == Head(toGw) IN
    /\ Receives(m) /\ m.code = 20222
    /\ OutPF' = IF m.rem <= 1 THEN Restrict(OutPF, DOMAIN OutPF \ {m.order}) ELSE OutPF
    /\ EndOfPacket
    /\ ReaderUnchanged
    /\ UNCHANGED <<rreg, Mktqueue, spc, sharedVars, QueueHolder, disturbed>>

\* case 20222: the record goes with the last fill.
RecvTrade ==
    LET m == Head(toGw) IN
    /\ Receives(m) /\ m.code = 20222
    /\ OutPF' = IF m.rem <= 0 THEN Restrict(OutPF, DOMAIN OutPF \ {m.order}) ELSE OutPF
    /\ EndOfPacket
    /\ ReaderUnchanged
    /\ UNCHANGED <<rreg, Mktqueue, spc, sharedVars, QueueHolder, disturbed>>

\* Sign-on: SeqNo is set, the request is written with the constant 1 or 2, and
\* an invitation is spent, all while the sender may be running.
SetSeq ==
    /\ rpc = "signOn"
    /\ SeqNo' = counter /\ rpc' = "signOnSend"
    /\ ReaderUnchanged
    /\ UNCHANGED <<rreg, counter, Mktqueue, spc, InvitationCount, lostUpdate, tableVars,
                   wireVars>>

SendSignOn ==
    /\ rpc = "signOnSend"
    /\ Write(SignOnRequest(IF counter = 1 THEN "login" ELSE "sysinfo"), counter)
    /\ rpc' = "spend"
    /\ ReaderUnchanged
    /\ UNCHANGED <<rreg, counter, Mktqueue, spc, sharedVars, tableVars, toGw>>

LoadSpend ==
    /\ rpc = "spend"
    /\ rreg' = InvitationCount /\ rpc' = "storeSpend"
    /\ ReaderUnchanged
    /\ UNCHANGED <<counter, Mktqueue, spc, sharedVars, tableVars, wireVars>>

StoreSpend ==
    /\ rpc = "storeSpend"
    /\ InvitationCount' = rreg - 1
    /\ lostUpdate' = (lostUpdate \/ InvitationCount # rreg)
    /\ rpc' = "recv"
    /\ ReaderUnchanged
    /\ UNCHANGED <<rreg, counter, Mktqueue, spc, SeqNo, tableVars, wireVars>>

Reader ==
    \/ RecvInvitation \/ Grant \/ RecvSignOnReply \/ RecvConfirm \/ RecvReject
    \/ RecvUpdate \/ RecvTrade \/ SetSeq \/ SendSignOn \/ LoadSpend \/ StoreSpend

-----------------------------------------------------------------------------
(* The exchange (external).                                                 *)

ExchangeUnchanged ==
    UNCHANGED <<queueVars, senderVars, readerVars, sharedVars, tableVars, lastSeq>>

Asked(op) == toExch # <<>> /\ Head(toExch).op = op

\* A packet is taken from the wire, granted an invitation and answered.
Answer(reply) ==
    /\ toExch' = Tail(toExch)
    /\ toGw' = toGw \o <<Invitation, reply>>
    /\ ExchangeUnchanged

AnswerSignOn ==
    /\ Asked("login") \/ Asked("sysinfo")
    /\ Answer(SignOnReply)
    /\ UNCHANGED book

AcceptNew ==
    /\ Asked("new")
    /\ book' = Append(book, [id |-> Head(toExch).id, rem |-> Lots])
    /\ Answer(Confirm(Len(book) + 1, KeyOf[Head(toExch).id]))

RejectNew ==
    /\ Asked("new")
    /\ Answer(Reject(2231, 0, KeyOf[Head(toExch).id]))
    /\ UNCHANGED book

AcceptModify ==
    /\ Asked("modify") /\ IsLive(Head(toExch).order)
    /\ Answer(Update(20074, Head(toExch).order))
    /\ UNCHANGED book

\* A reject echoes the price and volume of the request, which a modify has
\* changed: any key.
RejectModify ==
    /\ Asked("modify")
    /\ \E k \in Keys : Answer(Reject(2042, Head(toExch).order, k))
    /\ UNCHANGED book

AcceptCancel ==
    /\ Asked("cancel") /\ IsLive(Head(toExch).order)
    /\ book' = [book EXCEPT ![Head(toExch).order].rem = 0]
    /\ Answer(Update(20075, Head(toExch).order))

RejectCancel ==
    /\ Asked("cancel") /\ ~IsLive(Head(toExch).order)
    /\ \E k \in Keys : Answer(Reject(2072, Head(toExch).order, k))
    /\ UNCHANGED book

Fill(n) ==
    /\ IsLive(n)
    /\ book' = [book EXCEPT ![n].rem = @ - 1]
    /\ toGw' = Append(toGw, Trade(n, book[n].rem - 1))
    /\ ExchangeUnchanged /\ UNCHANGED toExch

ExchangeAnswers ==
    \/ AnswerSignOn \/ AcceptNew \/ RejectNew \/ AcceptModify \/ RejectModify
    \/ AcceptCancel \/ RejectCancel

-----------------------------------------------------------------------------
Next ==
    \/ Sender
    \/ Reader
    \/ ExchangeAnswers
    \/ \E o \in NewOrders : Submit(o)
    \/ \E op \in {"modify", "cancel"}, n \in OrderNumbers : SubmitOm(op, n)
    \/ \E n \in OrderNumbers : Fill(n)

Spec == Init /\ [][Next]_vars

\* Both threads loop for ever and the exchange answers what it receives; nobody
\* is obliged to submit an order or to trade.
FairSpec ==
    Spec /\ WF_vars(Sender) /\ WF_vars(Reader) /\ WF_vars(ExchangeAnswers)

-----------------------------------------------------------------------------
(* Properties.                                                              *)

SenderPoints == {"poll", "size", "choose", "popBid", "loadSeq", "storeSeq", "stamp", "send",
                 "loadInv", "storeInv", "push"}
ReaderPoints == {"recv", "grant", "signOn", "signOnSend", "spend", "storeSpend"}

QueueTypes ==
    /\ pending \subseteq NewOrders /\ omCount \in Nat
    /\ Bidqueue \in Seq(Request) /\ Mktqueue \in Seq(Request)
SenderTypes ==
    /\ spc \in SenderPoints /\ hand \in Request /\ sreg \in Int /\ stamp \in Int
    /\ spc = "push" => hand.op = "new"
ReaderTypes == rpc \in ReaderPoints /\ rreg \in Int /\ counter \in 0..2
SharedTypes == SeqNo \in Int /\ InvitationCount \in Int /\ lostUpdate \in BOOLEAN
TableTypes ==
    /\ QueueHolder \in Seq(NewOrders)
    /\ DOMAIN OutPF \subseteq Nat /\ OutPF \in [DOMAIN OutPF -> NewOrders \cup {Orphan}]
    /\ disturbed \in BOOLEAN
WireTypes == toExch \in Seq(Request) /\ toGw \in Seq(Packet) /\ lastSeq \in Int
BookTypes == book \in Seq([id : NewOrders, rem : 0..Lots])

\* The values every variable keeps to, the contents of both queues, of the two
\* tables of TapSignOn and of both directions of the connection included; the
\* sender is about to remember a request only if it is a new order.
TypeOK ==
    /\ QueueTypes /\ SenderTypes /\ ReaderTypes /\ SharedTypes
    /\ TableTypes /\ WireTypes /\ BookTypes

\* A cancel of order n is on its way from a queue to the exchange.
CancelUnderWay(n) ==
    \/ CancelOf(n) \in Range(Bidqueue) \cup Range(Mktqueue) \cup Range(toExch)
    \/ hand = CancelOf(n) /\ spc \in {"loadSeq", "storeSeq", "stamp", "send"}

IsConfirm(m) == m.code = 20073
ConfirmComing(n) == \E m \in Range(toGw) : IsConfirm(m) /\ m.order = n

\* No order works at the exchange without somebody in charge of it: once its
\* confirmation has been read, its number leads to a holder, or to the orphan
\* record with the cancel GetPF's caller queued still under way.  Record and
\* cancel are made in one handler and undone in others (a full fill, a queue
\* pop, the send), on two threads and across the connection.
EveryLiveOrderIsManaged ==
    \A n \in OrderNumbers :
        IsLive(n) /\ ~ConfirmComing(n) =>
            /\ n \in DOMAIN OutPF
            /\ OutPF[n] = Orphan => CancelUnderWay(n)

\* While an order works, the packets about it go to a holder that asked for the
\* same token, price, volume and side (that is all GetPF compares).
RoutedByKey ==
    \A n \in DOMAIN OutPF \ {0} :
        IsLive(n) /\ OutPF[n] # Orphan => KeyOf[OutPF[n]] = KeyOf[book[n].id]

\* Order n is known to the exchange and its confirmation has been read; no step
\* takes that back.
Settled(n) == n \in OrderNumbers /\ ~ConfirmComing(n)

IsReject(m) == m.code \in {2042, 2072, 2231}
IsOm(r) == r.op \in {"modify", "cancel"}
InFlight == Range(Bidqueue) \cup Range(Mktqueue) \cup Range(toExch) \cup {hand}

ConfirmsMatchBook ==
    /\ \A m \in Range(toGw) : IsConfirm(m) =>
          m.order \in OrderNumbers /\ m.key = KeyOf[book[m.order].id]
    /\ \A i, j \in DOMAIN toGw :
          IsConfirm(toGw[i]) /\ IsConfirm(toGw[j]) /\ toGw[i].order = toGw[j].order => i = j
RequestsSettled == \A r \in InFlight : IsOm(r) => Settled(r.order)
RejectsSettled == \A m \in Range(toGw) : IsReject(m) => m.order = 0 \/ Settled(m.order)
RecordsSettled == \A n \in DOMAIN OutPF : n = 0 \/ Settled(n)
LastFillIsLast ==
    \A m \in Range(toGw) : m.code = 20222 /\ m.rem <= 0 =>
        m.order \in OrderNumbers /\ book[m.order].rem = 0

\* The inductive form of EveryLiveOrderIsManaged and RoutedByKey: an order is
\* confirmed once, with its own key; whatever names an order that is not new (a
\* request, a reject, a record) comes after its confirmation was read; and the
\* report of a last fill comes after the fill.
OwnershipInv ==
    /\ ConfirmsMatchBook /\ RequestsSettled /\ RejectsSettled /\ RecordsSettled
    /\ LastFillIsLast /\ EveryLiveOrderIsManaged /\ RoutedByKey

\* One request never becomes the owner of two working orders, unless an erase
\* overlapped a push_back or a late reject was matched by key: GetPF takes a
\* holder out of the vector in the step that records it.
OneOrderPerHolder ==
    ~disturbed =>
        \A m, n \in DOMAIN OutPF \ {0} :
            OutPF[m] = OutPF[n] /\ OutPF[n] # Orphan => m = n

\* An order is auto-cancelled only in the window between the sender's send and
\* its push_back of an order with the same key: no other order of the two
\* threads leaves a confirmation without a holder, unless the vector was
\* disturbed.
OrphanOnlyBeforePush ==
    [][\A n \in OrderNumbers :
         (CancelOf(n) \in Range(Mktqueue') \ Range(Mktqueue)) =>
            \/ disturbed
            \/ /\ spc \in {"loadInv", "storeInv", "push"}
               /\ hand.op = "new" /\ KeyOf[hand.id] = KeyOf[book[n].id]]_vars

\* Invitations are neither lost nor minted: what is on the wire, in the counter
\* or between the two steps of an update always adds up to the one invitation of
\* the connection, as long as no store to the counter undid another.
CreditConserved ==
    ~lostUpdate =>
        InvitationCount
          + Cardinality({i \in DOMAIN toGw : toGw[i] = Invitation}) + Len(toExch)
          + (IF rpc = "grant" THEN 1 ELSE 0)
          - (IF rpc \in {"spend", "storeSpend"} THEN 1 ELSE 0)
          - (IF spc \in {"loadInv", "storeInv"} THEN 1 ELSE 0) = 1

\* The counter is overdrawn by at most two: one request the sender had already
\* polled for and the sign-on requests, for which nobody polls.
OverdraftBounded == InvitationCount >= -2

\* A queued order is written to the socket in the end: queues, market priority
\* and flow control cannot hold it for ever, unless an invitation was lost to a
\* torn update of the counter.
QueuedIsSent ==
    \A o \in NewOrders :
        NewRequest(o) \in Range(Bidqueue) \cup Range(Mktqueue)
            ~> NewRequest(o) \in Range(toExch) \/ lostUpdate

\* An order nobody owns does not go on working: its cancel reaches the exchange
\* in the end (or it is filled), unless an invitation was lost.
OrphanIsCancelled ==
    \A n \in 1..Cardinality(NewOrders) :
        n \in DOMAIN OutPF /\ OutPF[n] = Orphan /\ IsLive(n) ~> ~IsLive(n) \/ lostUpdate

\* What the sender has popped and not written yet.
Popped == IF spc \in {"loadSeq", "storeSeq", "stamp", "send"} THEN <<hand>> ELSE <<>>

SignOnsWritten == IF rpc \in {"signOn", "signOnSend"} THEN counter - 1 ELSE counter

Channel == INSTANCE OrderChannel WITH
    lanes <- [mkt |-> Mktqueue, bid |-> Bidqueue], held <- Popped, wire <- toExch,
    taken <- Len(book), signOns <- SignOnsWritten

\* The gateway implements OrderChannel: between the two threads, the flow control
\* and the sign-on that share the queues and the socket, no request is lost, sent
\* twice or overtaken by a later one of its own queue, no new order is submitted
\* twice, and what is not new names an order the exchange has taken.
DeliversLikeAChannel == Channel!Spec

(* What the repository says and the code does not do.                       *)

\* The simulator's verifySeqNo (Program.cs:235, "++LastSeqNo == SeqNo") and the
\* check commented out at TapSignOn.cpp:137 ("Seq Error"): every packet carries
\* the successor of the previous packet's sequence number.
SequenceVerified ==
    [][Len(toExch') > Len(toExch) => lastSeq' = lastSeq + 1]_wireVars

\* "Cancelling Order client unknown" (TapSignOn.cpp:472): the order cancelled is
\* one no client of this process asked for.
OnlyUnknownIsCancelled ==
    \A n \in OrderNumbers :
        CancelOf(n) \in Range(Mktqueue) =>
            ~(hand = NewRequest(book[n].id) \/ book[n].id \in Range(QueueHolder))
=============================================================================
