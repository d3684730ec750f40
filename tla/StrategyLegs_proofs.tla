------------------------- MODULE StrategyLegs_proofs -------------------------
(***************************************************************************)
(* Proofs about StrategyLegs, for every ratio, every set of requests and   *)
(* any number of quotes, asks, stops and requests.                         *)
(***************************************************************************)
EXTENDS StrategyLegs, TLAPS, FiniteSetTheorems, SequenceTheorems

USE StrategyAssumption

\* The events that end what is PENDING.
Settling == {"confirmed", "modified", "cancelled", "error", "refused"}

IsSeq(q) == q \in Seq(Range(q))

-----------------------------------------------------------------------------
(* A queue seen as the set of what is in it.                                *)

LEMMA EmptyQueue == IsSeq(<<>>) /\ Range(<<>>) = {}
  BY DEF IsSeq, Range

\* The last of a queue joins the others.
LEMMA AppendToQueue ==
    ASSUME NEW q, NEW e, IsSeq(q)
    PROVE  IsSeq(Append(q, e)) /\ Range(Append(q, e)) = Range(q) \cup {e}
<1> DEFINE S == Range(q) \cup {e}
<1>1. q \in Seq(S)
  BY DEF IsSeq
<1>2. /\ Append(q, e) \in Seq(S) /\ Len(Append(q, e)) = Len(q) + 1 /\ Len(q) \in Nat
      /\ \A i \in 1..Len(q) : Append(q, e)[i] = q[i]
      /\ Append(q, e)[Len(q) + 1] = e
      /\ DOMAIN q = 1..Len(q) /\ DOMAIN Append(q, e) = 1..(Len(q) + 1)
  BY <1>1
<1>3. Range(Append(q, e)) = S
  BY <1>2 DEF Range
<1> QED
  BY <1>2, <1>3 DEF IsSeq

\* A function on 1..n is a sequence.
LEMMA FunctionIsSeq ==
    ASSUME NEW S, NEW n \in Nat, NEW f \in [1..n -> S]
    PROVE  f \in Seq(S)
<1>1. Seq(S) = UNION {[1..k -> S] : k \in Nat}
  BY SeqDef
<1> QED
  BY <1>1

\* The first of a queue leaves the others.
LEMMA TailOfQueue ==
    ASSUME NEW q, IsSeq(q), q # <<>>
    PROVE  IsSeq(Tail(q)) /\ Range(q) = Range(Tail(q)) \cup {Head(q)}
<1>1. /\ Len(q) \in Nat \ {0} /\ DOMAIN q = 1..Len(q) /\ Head(q) = q[1]
      /\ Tail(q) \in Seq(Range(q)) /\ Len(Tail(q)) = Len(q) - 1 /\ DOMAIN Tail(q) = 1..(Len(q) - 1)
      /\ \A i \in 1..(Len(q) - 1) : Tail(q)[i] = q[i + 1]
  BY DEF IsSeq
<1>2. Tail(q) \in Seq(Range(Tail(q)))
  <2> DEFINE n == Len(q) - 1
  <2>0. Tail(q) \in [1..Len(Tail(q)) -> Range(q)]
    BY <1>1, LenProperties, Zenon
  <2>1. n \in Nat /\ Tail(q) \in [1..n -> Range(q)]
    BY <1>1, <2>0
  <2>2. \A i \in 1..n : Tail(q)[i] \in Range(Tail(q))
    BY <1>1 DEF Range
  <2>3. Tail(q) \in [1..n -> Range(Tail(q))]
    BY <2>1, <2>2
  <2> QED
    BY <2>1, <2>3, FunctionIsSeq
<1>3. ASSUME NEW i \in DOMAIN q
      PROVE  q[i] \in Range(Tail(q)) \cup {Head(q)}
  <2>1. CASE i = 1
    BY <2>1, <1>1
  <2>2. CASE i # 1
    <3>1. i - 1 \in DOMAIN Tail(q) /\ Tail(q)[i - 1] = q[i]
      BY <2>2, <1>1
    <3> QED
      BY <3>1 DEF Range
  <2> QED
    BY <2>1, <2>2
<1>4. ASSUME NEW i \in DOMAIN Tail(q)
      PROVE  Tail(q)[i] \in Range(q)
  <2>1. i + 1 \in DOMAIN q /\ Tail(q)[i] = q[i + 1]
    BY <1>1
  <2> QED
    BY <2>1 DEF Range
<1>5. Head(q) \in Range(q)
  BY <1>1 DEF Range
<1> QED
  BY <1>2, <1>3, <1>4, <1>5 DEF IsSeq, Range

-----------------------------------------------------------------------------
(* The inductive invariant.                                                 *)

\* The data thread is idle, or has a request in hand.
QuoterTyped ==
    \/ quoter = Idle
    \/ /\ DOMAIN quoter = {"act", "side", "rate", "marked"}
       /\ quoter.act \in {"new", "modify", "cancel"} /\ quoter.side \in Sides

Typed ==
    /\ status \in [Sides -> Statuses] /\ number \in [Sides -> Nat]
    /\ QuoterTyped
    /\ IsFiniteSet(DOMAIN book)
    /\ IsSeq(bid) /\ IsSeq(events)

RequestsTyped == \A r \in Range(bid) : r.kind # "new" => r.number \in Nat \ {0}

EventsTyped ==
    \A e \in Range(events) : e.kind \in {"confirmed", "modified"} => e.number \in Nat \ {0}

\* What needs an order number is there only when the side has one.
NeedsNumber(s) ==
    \/ status[s] \in Quoting
    \/ quoter # Idle /\ quoter.side = s /\ quoter.act # "new"
    \/ \E r \in Range(bid) : r.side = s /\ r.kind # "new"
    \/ \E e \in Range(events) : e.side = s /\ e.kind = "refused"
NumbersKnown == \A s \in Sides : NeedsNumber(s) => number[s] # 0

\* Who ends what is PENDING.
Awaited(s) ==
    \/ quoter # Idle /\ quoter.side = s
    \/ \E r \in Range(bid) : r.side = s
    \/ \E e \in Range(events) : e.side = s /\ e.kind \in Settling
PendingAwaited == \A s \in Sides : status[s] = "PENDING" => Awaited(s)

LegInv == Typed /\ RequestsTyped /\ EventsTyped /\ NumbersKnown /\ PendingAwaited

LEMMA InitLegInv == Init => LegInv
<1> SUFFICES ASSUME Init PROVE LegInv
  OBVIOUS
<1>1. DOMAIN book = {} /\ IsFiniteSet(DOMAIN book)
  BY FS_EmptySet DEF Init
<1>2. Typed
  BY <1>1, EmptyQueue DEF Init, Typed, QuoterTyped, Statuses
<1>3. Range(bid) = {} /\ Range(events) = {} /\ quoter = Idle /\ \A s \in Sides : status[s] = "NONE"
  BY EmptyQueue DEF Init
<1> QED
  BY <1>2, <1>3 DEF LegInv, RequestsTyped, EventsTyped, NumbersKnown, NeedsNumber,
                    PendingAwaited, Quoting

-----------------------------------------------------------------------------
(* The data thread.                                                         *)

\* It looks at a side and takes a request in hand.
LEMMA BeginStep ==
    ASSUME LegInv, NEW what \in {"new", "modify", "cancel"}, NEW s \in Sides, NEW r,
           Begin(what, s, r), what # "new" => status[s] \in Quoting
    PROVE  LegInv'
<1>1. /\ quoter = Idle /\ quoter' # Idle /\ quoter'.side = s /\ quoter'.act = what
      /\ UNCHANGED <<status, number, bid, events, book>>
  BY DEF Begin, Idle, strategyVars, exchangeVars
<1>2. Typed'
  BY <1>1 DEF Begin, LegInv, Typed, QuoterTyped, IsSeq, Range
<1>3. RequestsTyped' /\ EventsTyped'
  BY <1>1 DEF LegInv, RequestsTyped, EventsTyped, Range
<1>4. NumbersKnown'
  BY <1>1 DEF LegInv, NumbersKnown, NeedsNumber, Range, Typed
<1>5. PendingAwaited'
  BY <1>1 DEF LegInv, PendingAwaited, Awaited, Range
<1> QED
  BY <1>2, <1>3, <1>4, <1>5 DEF LegInv

LEMMA MarketDataStep == LegInv /\ MarketData => LegInv'
<1>1. ASSUME LegInv, NEW s \in Sides, NEW r \in Rates, LookNew(s, r) PROVE LegInv'
  BY <1>1, BeginStep DEF LookNew
<1>2. ASSUME LegInv, NEW s \in Sides, NEW r \in Rates, LookModify(s, r) PROVE LegInv'
  BY <1>2, BeginStep DEF LookModify
<1>3. ASSUME LegInv, NEW s \in Sides, LookCancel(s) PROVE LegInv'
  <2>1. Begin("cancel", s, rate[s]) /\ status[s] \in Quoting
    BY <1>3 DEF LookCancel
  <2> QED
    BY <1>3, <2>1, BeginStep
<1> QED
  BY <1>1, <1>2, <1>3 DEF MarketData

LEMMA MarkPendingStep == LegInv /\ MarkPending => LegInv'
<1> SUFFICES ASSUME LegInv, MarkPending PROVE LegInv'
  OBVIOUS
<1>1. /\ quoter # Idle /\ quoter.side \in Sides /\ UNCHANGED <<number, bid, events, book>>
      /\ status' = [status EXCEPT ![quoter.side] = "PENDING"]
      /\ quoter' = [quoter EXCEPT !.marked = TRUE]
  BY DEF MarkPending, exchangeVars, LegInv, Typed, QuoterTyped
<1>2. /\ DOMAIN quoter' = DOMAIN quoter /\ quoter'.side = quoter.side /\ quoter'.act = quoter.act
      /\ quoter'.act # "idle"
  BY <1>1 DEF LegInv, Typed, QuoterTyped
<1>3. quoter' # Idle
  BY <1>2 DEF Idle
<1>4. Typed'
  BY <1>1, <1>2 DEF LegInv, Typed, QuoterTyped, IsSeq, Range, Statuses
<1>5. RequestsTyped' /\ EventsTyped'
  BY <1>1 DEF LegInv, RequestsTyped, EventsTyped, Range
<1>6. NumbersKnown'
  BY <1>1, <1>2 DEF LegInv, NumbersKnown, NeedsNumber, Range, Typed, Quoting
<1>7. PendingAwaited'
  BY <1>1, <1>2, <1>3 DEF LegInv, PendingAwaited, Awaited, Range, Typed
<1> QED
  BY <1>4, <1>5, <1>6, <1>7 DEF LegInv

\* It puts the request in its hand into the queue.
LEMMA SendStep ==
    ASSUME LegInv, quoter # Idle, quoter' = Idle,
           NEW r, r.side = quoter.side, bid' = Append(bid, r),
           r.kind # "new" => quoter.act # "new" /\ r.number = number[quoter.side],
           UNCHANGED <<status, number, events, book>>
    PROVE  LegInv'
<1>1. IsSeq(bid') /\ Range(bid') = Range(bid) \cup {r}
  BY AppendToQueue DEF LegInv, Typed
<1>2. Range(events') = Range(events) /\ quoter.side \in Sides
  BY DEF LegInv, Typed, QuoterTyped
<1>3. r.kind # "new" => r.number \in Nat \ {0} /\ number[r.side] # 0
  BY <1>2 DEF LegInv, NumbersKnown, NeedsNumber, Typed
<1>4. Typed'
  BY <1>1 DEF LegInv, Typed, QuoterTyped
<1>5. RequestsTyped' /\ EventsTyped'
  BY <1>1, <1>2, <1>3 DEF LegInv, RequestsTyped, EventsTyped
<1>6. NumbersKnown'
  BY <1>1, <1>2, <1>3 DEF LegInv, NumbersKnown, NeedsNumber
<1>7. PendingAwaited'
  BY <1>1, <1>2 DEF LegInv, PendingAwaited, Awaited
<1> QED
  BY <1>4, <1>5, <1>6, <1>7 DEF LegInv

LEMMA QuoterStep == LegInv /\ Quoter => LegInv'
<1>1. ASSUME LegInv, Quote PROVE LegInv'
  <2> DEFINE r == [kind |-> "new", side |-> quoter.side, lots |-> QuoteLots(quoter.side)]
  <2>1. r.side = quoter.side /\ r.kind = "new"
    OBVIOUS
  <2>2. /\ quoter # Idle /\ quoter' = Idle /\ bid' = Append(bid, r)
        /\ UNCHANGED <<status, number, events, book>>
    BY <1>1 DEF Quote, Marked
  <2> HIDE DEF r
  <2> QED
    BY <1>1, <2>1, <2>2, SendStep
<1>2. ASSUME LegInv, Requote PROVE LegInv'
  <2> DEFINE r == [kind |-> "modify", side |-> quoter.side, number |-> number[quoter.side],
                    lots |-> volume[quoter.side]]
  <2>1. r.side = quoter.side /\ r.number = number[quoter.side]
    OBVIOUS
  <2>2. /\ quoter # Idle /\ quoter.act # "new" /\ quoter' = Idle /\ bid' = Append(bid, r)
        /\ UNCHANGED <<status, number, events, book>>
    BY <1>2 DEF Requote, Marked
  <2> HIDE DEF r
  <2> QED
    BY <1>2, <2>1, <2>2, SendStep
<1>3. ASSUME LegInv, Withdraw PROVE LegInv'
  <2> DEFINE r == [kind |-> "cancel", side |-> quoter.side, number |-> number[quoter.side]]
  <2>1. r.side = quoter.side /\ r.number = number[quoter.side]
    OBVIOUS
  <2>2. quoter # Idle /\ quoter.act = "cancel" /\ quoter.side \in Sides
    BY <1>3 DEF Withdraw, Marked, LegInv, Typed, QuoterTyped
  <2>3. number[quoter.side] # 0
    BY <1>3, <2>2 DEF LegInv, NumbersKnown, NeedsNumber
  <2>4. /\ quoter' = Idle /\ bid' = Append(bid, r)
        /\ UNCHANGED <<status, number, events, book>>
    BY <1>3, <2>3 DEF Withdraw, strategyVars
  <2> HIDE DEF r
  <2> QED
    BY <1>3, <2>1, <2>2, <2>4, SendStep
<1> QED
  BY <1>1, <1>2, <1>3, MarkPendingStep DEF Quoter

-----------------------------------------------------------------------------
(* The event thread.                                                        *)

\* A status is set by an answer, which leaves the queue.
LEMMA SettleStep ==
    ASSUME LegInv, events # <<>>, NEW e, e = Head(events),
           NEW st \in Statuses \ {"PENDING"}, Settle(e.side, st),
           st \in Quoting => e.kind \in {"confirmed", "modified", "refused"},
           \/ e.kind \notin {"confirmed", "modified"} /\ UNCHANGED number
           \/ e.kind \in {"confirmed", "modified"} /\ number' = [number EXCEPT ![e.side] = e.number]
    PROVE  LegInv'
<1>1. /\ status' = [status EXCEPT ![e.side] = st] /\ events' = Tail(events)
      /\ UNCHANGED <<quoter, bid, book>>
  BY DEF Settle, threadVars
<1>2. IsSeq(events') /\ Range(events) = Range(events') \cup {e}
  BY <1>1, TailOfQueue DEF LegInv, Typed
<1>3. e.kind \in {"confirmed", "modified"} => e.number \in Nat \ {0}
  BY <1>2 DEF LegInv, EventsTyped
<1>4. Typed'
  BY <1>1, <1>2, <1>3 DEF LegInv, Typed, QuoterTyped
<1>5. RequestsTyped' /\ EventsTyped'
  BY <1>1, <1>2 DEF LegInv, RequestsTyped, EventsTyped
<1>6. ASSUME NEW s \in Sides, NeedsNumber(s)' PROVE number'[s] # 0
  <2>1. CASE s = e.side /\ e.kind \in {"confirmed", "modified"}
    BY <2>1, <1>3 DEF LegInv, Typed
  <2>2. CASE ~ (s = e.side /\ e.kind \in {"confirmed", "modified"})
    <3>1. number'[s] = number[s]
      BY <2>2 DEF LegInv, Typed
    <3>2. NeedsNumber(s)
      BY <1>1, <1>2, <1>6, <2>2 DEF NeedsNumber, LegInv, Typed
    <3> QED
      BY <3>1, <3>2 DEF LegInv, NumbersKnown
  <2> QED
    BY <2>1, <2>2
<1>7. PendingAwaited'
  BY <1>1, <1>2 DEF LegInv, PendingAwaited, Awaited, Typed
<1> QED
  BY <1>4, <1>5, <1>6, <1>7 DEF LegInv, NumbersKnown

\* An event that is no answer leaves the queue.
LEMMA OtherEventStep ==
    ASSUME LegInv, events # <<>>, Head(events).kind \notin Settling, events' = Tail(events),
           UNCHANGED <<status, number, quoter, bid, book>>
    PROVE  LegInv'
<1>1. IsSeq(events') /\ Range(events) = Range(events') \cup {Head(events)}
  BY TailOfQueue DEF LegInv, Typed
<1>2. Typed'
  BY <1>1 DEF LegInv, Typed, QuoterTyped
<1>3. RequestsTyped' /\ EventsTyped'
  BY <1>1 DEF LegInv, RequestsTyped, EventsTyped
<1>4. NumbersKnown'
  BY <1>1 DEF LegInv, NumbersKnown, NeedsNumber
<1>5. PendingAwaited'
  BY <1>1 DEF LegInv, PendingAwaited, Awaited
<1> QED
  BY <1>2, <1>3, <1>4, <1>5 DEF LegInv

\* A round that ends, or nothing the invariant speaks of.
LEMMA RoundStep ==
    ASSUME LegInv, NEW s, status' \in {status, [status EXCEPT ![s] = "TRADE"]},
           UNCHANGED <<number, quoter, bid, events, book>>
    PROVE  LegInv'
<1>1. Typed'
  BY DEF LegInv, Typed, QuoterTyped, Statuses
<1>2. RequestsTyped' /\ EventsTyped'
  BY DEF LegInv, RequestsTyped, EventsTyped
<1>3. NumbersKnown'
  BY DEF LegInv, Typed, NumbersKnown, NeedsNumber, Quoting
<1>4. PendingAwaited'
  BY DEF LegInv, Typed, PendingAwaited, Awaited
<1> QED
  BY <1>1, <1>2, <1>3, <1>4 DEF LegInv

LEMMA EventHandlerStep == LegInv /\ EventHandler => LegInv'
<1> DEFINE e == Head(events)
<1>1. ASSUME LegInv, ORDER_CONFIRMATION_TR PROVE LegInv'
  <2>1. /\ events # <<>> /\ e.kind = "confirmed" /\ Settle(e.side, "OPEN")
        /\ number' = [number EXCEPT ![e.side] = e.number]
    BY <1>1 DEF ORDER_CONFIRMATION_TR, Handles, TakeOver
  <2> HIDE DEF e
  <2> QED
    BY <1>1, <2>1, SettleStep DEF Statuses, e
<1>2. ASSUME LegInv, ORDER_MOD_CONFIRMATION_TR PROVE LegInv'
  <2>1. /\ events # <<>> /\ e.kind = "modified" /\ Settle(e.side, "REPLACED")
        /\ number' = [number EXCEPT ![e.side] = e.number]
    BY <1>2 DEF ORDER_MOD_CONFIRMATION_TR, Handles, TakeOver
  <2> QED
    BY <1>2, <2>1, SettleStep DEF Statuses
<1>3. ASSUME LegInv, ORDER_CXL_CONFIRMATION_TR PROVE LegInv'
  <2>1. events # <<>> /\ e.kind = "cancelled" /\ Settle(e.side, "CANCEL") /\ UNCHANGED number
    BY <1>3 DEF ORDER_CXL_CONFIRMATION_TR, Handles
  <2> QED
    BY <1>3, <2>1, SettleStep DEF Statuses, Quoting
<1>4. ASSUME LegInv, ORDER_ERROR_OUT PROVE LegInv'
  <2>1. events # <<>> /\ e.kind = "error" /\ Settle(e.side, "REJECTED") /\ UNCHANGED number
    BY <1>4 DEF ORDER_ERROR_OUT, Handles
  <2> QED
    BY <1>4, <2>1, SettleStep DEF Statuses, Quoting
<1>5. ASSUME LegInv, ORDER_REJ_OUT PROVE LegInv'
  <2> DEFINE st == AfterRefusal(e.side, e.gone)
  <2>1. events # <<>> /\ e.kind = "refused" /\ Settle(e.side, st) /\ UNCHANGED number
    BY <1>5 DEF ORDER_REJ_OUT, Handles
  <2>2. st \in Statuses \ {"PENDING"}
    BY DEF AfterRefusal, Statuses
  <2> HIDE DEF st
  <2> QED
    BY <1>5, <2>1, <2>2, SettleStep
<1>6. ASSUME LegInv, SelfTradeStopped PROVE LegInv'
  <2>1. /\ events # <<>> /\ e.kind = "stopped" /\ events' = Tail(events)
        /\ UNCHANGED <<status, number, quoter, bid, book>>
    BY <1>6 DEF SelfTradeStopped, Handles, strategyVars, threadVars
  <2> QED
    BY <1>6, <2>1, OtherEventStep DEF Settling
<1>7. ASSUME LegInv, TradeLoad PROVE LegInv'
  <2>1. /\ events # <<>> /\ e.kind = "trade" /\ events' = Tail(events)
        /\ UNCHANGED <<status, number, quoter, bid, book>>
    BY <1>7 DEF TradeLoad, Handles, strategyVars
  <2> QED
    BY <1>7, <2>1, OtherEventStep DEF Settling
<1>8. ASSUME LegInv, TradeStore \/ TradeSize \/ TradeHedge PROVE LegInv'
  <2>1. UNCHANGED <<status, number, quoter, bid, events, book>>
    BY <1>8 DEF TradeStore, TradeSize, TradeHedge, strategyVars, exchangeVars
  <2> QED
    BY <1>8, <2>1, RoundStep
<1>9. ASSUME LegInv, HedgeStore PROVE LegInv'
  <2>1. /\ status' \in {status, [status EXCEPT ![hedger.side] = "TRADE"]}
        /\ UNCHANGED <<number, quoter, bid, events, book>>
    BY <1>9 DEF HedgeStore, exchangeVars
  <2> QED
    BY <1>9, <2>1, RoundStep
<1>10. ASSUME LegInv, HedgeRefused PROVE LegInv'
  <2>1. /\ events # <<>> /\ e.kind = "rejected" /\ events' = Tail(events)
        /\ UNCHANGED <<status, number, quoter, bid, book>>
    BY <1>10 DEF HedgeRefused, Handles, strategyVars, threadVars
  <2> QED
    BY <1>10, <2>1, OtherEventStep DEF Settling
<1> QED
  BY <1>1, <1>2, <1>3, <1>4, <1>5, <1>6, <1>7, <1>8, <1>9, <1>10 DEF EventHandler

LEMMA ClientStep == LegInv /\ Client => LegInv'
<1>1. ASSUME Client PROVE UNCHANGED <<status, number, quoter, bid, events, book>>
  BY <1>1 DEF Client, Difference, DiffTest, DiffStore, strategyVars, exchangeVars
<1> QED
  BY <1>1, RoundStep

-----------------------------------------------------------------------------
(* The exchange.                                                            *)

\* An answer to the next request follows the earlier events.
LEMMA AnswerStep ==
    ASSUME LegInv, bid # <<>>, NEW r, r = Head(bid), NEW e, e.side = r.side, e.kind \in Settling,
           e.kind \in {"confirmed", "modified"} => e.number \in Nat \ {0},
           e.kind = "refused" => r.kind # "new",
           events' = Append(events, e), bid' = Tail(bid), IsFiniteSet(DOMAIN book'),
           UNCHANGED <<status, number, quoter>>
    PROVE  LegInv'
<1>1. IsSeq(bid') /\ Range(bid) = Range(bid') \cup {r}
  BY TailOfQueue DEF LegInv, Typed
<1>2. IsSeq(events') /\ Range(events') = Range(events) \cup {e}
  BY AppendToQueue DEF LegInv, Typed
<1>3. Typed'
  BY <1>1, <1>2 DEF LegInv, Typed, QuoterTyped
<1>4. RequestsTyped' /\ EventsTyped'
  BY <1>1, <1>2 DEF LegInv, RequestsTyped, EventsTyped
<1>5. NumbersKnown'
  BY <1>1, <1>2 DEF LegInv, NumbersKnown, NeedsNumber
<1>6. PendingAwaited'
  BY <1>1, <1>2 DEF LegInv, PendingAwaited, Awaited
<1> QED
  BY <1>3, <1>4, <1>5, <1>6 DEF LegInv

\* A report nobody asked for follows the earlier events.
LEMMA ReportStep ==
    ASSUME LegInv, NEW e, e.kind \in {"trade", "stopped", "rejected", "cancelled"},
           events' = Append(events, e), DOMAIN book' = DOMAIN book,
           UNCHANGED <<status, number, quoter, bid>>
    PROVE  LegInv'
<1>1. IsSeq(events') /\ Range(events') = Range(events) \cup {e}
  BY AppendToQueue DEF LegInv, Typed
<1>2. Typed'
  BY <1>1 DEF LegInv, Typed, QuoterTyped
<1>3. RequestsTyped' /\ EventsTyped'
  BY <1>1 DEF LegInv, RequestsTyped, EventsTyped
<1>4. NumbersKnown'
  BY <1>1 DEF LegInv, NumbersKnown, NeedsNumber
<1>5. PendingAwaited'
  BY <1>1 DEF LegInv, PendingAwaited, Awaited
<1> QED
  BY <1>2, <1>3, <1>4, <1>5 DEF LegInv

LEMMA AnswersStep == LegInv /\ Answers => LegInv'
<1> DEFINE r == Head(bid)
<1>1. ASSUME LegInv, AcceptNew PROVE LegInv'
  <2> DEFINE n == 1 + Cardinality(DOMAIN book)
             e == [kind |-> "confirmed", side |-> r.side, number |-> n, lots |-> r.lots]
  <2>1. n \in Nat \ {0} /\ IsFiniteSet(DOMAIN book \cup {n})
    <3>1. IsFiniteSet(DOMAIN book)
      BY <1>1 DEF LegInv, Typed
    <3>2. Cardinality(DOMAIN book) \in Nat
      BY <3>1, FS_CardinalityType, Zenon
    <3>3. n \in Nat \ {0}
      BY <3>2
    <3> HIDE DEF n
    <3>4. IsFiniteSet(DOMAIN book \cup {n})
      BY <3>1, FS_AddElement, Zenon
    <3> QED
      BY <3>3, <3>4
  <2>2. e.side = r.side /\ e.kind = "confirmed" /\ e.number = n
    OBVIOUS
  <2>3. /\ bid # <<>> /\ events' = Append(events, e) /\ bid' = Tail(bid)
        /\ DOMAIN book' = DOMAIN book \cup {n} /\ UNCHANGED <<status, number, quoter>>
    BY <1>1 DEF AcceptNew, Answer, strategyVars, threadVars
  <2> HIDE DEF n, e, r
  <2> QED
    BY <1>1, <2>1, <2>2, <2>3, AnswerStep DEF Settling, r
<1>2. ASSUME LegInv, RefuseNew PROVE LegInv'
  <2> DEFINE e == [kind |-> "error", side |-> r.side]
  <2>1. e.side = r.side /\ e.kind = "error"
    OBVIOUS
  <2>2. /\ bid # <<>> /\ events' = Append(events, e) /\ bid' = Tail(bid)
        /\ IsFiniteSet(DOMAIN book') /\ UNCHANGED <<status, number, quoter>>
    BY <1>2 DEF RefuseNew, Answer, strategyVars, threadVars, LegInv, Typed
  <2> HIDE DEF e
  <2> QED
    BY <1>2, <2>1, <2>2, AnswerStep DEF Settling
<1>3. ASSUME LegInv, DoModify PROVE LegInv'
  <2> DEFINE e == [kind |-> "modified", side |-> r.side, number |-> r.number, lots |-> r.lots]
  <2>1. e.side = r.side /\ e.kind = "modified" /\ e.number = r.number
    OBVIOUS
  <2>2. /\ bid # <<>> /\ events' = Append(events, e) /\ bid' = Tail(bid) /\ r.kind = "modify"
        /\ IsFiniteSet(DOMAIN book') /\ UNCHANGED <<status, number, quoter>>
    BY <1>3 DEF DoModify, Answer, strategyVars, threadVars, LegInv, Typed
  <2>3. r.number \in Nat \ {0}
    BY <1>3, <2>2, TailOfQueue DEF LegInv, Typed, RequestsTyped
  <2> HIDE DEF e
  <2> QED
    BY <1>3, <2>1, <2>2, <2>3, AnswerStep DEF Settling
<1>4. ASSUME LegInv, DoCancel PROVE LegInv'
  <2> DEFINE e == [kind |-> "cancelled", side |-> r.side]
  <2>1. e.side = r.side /\ e.kind = "cancelled"
    OBVIOUS
  <2>2. /\ bid # <<>> /\ events' = Append(events, e) /\ bid' = Tail(bid)
        /\ DOMAIN book' = DOMAIN book /\ UNCHANGED <<status, number, quoter>>
    BY <1>4 DEF DoCancel, Answer, strategyVars, threadVars
  <2> HIDE DEF e
  <2> QED
    BY <1>4, <2>1, <2>2, AnswerStep DEF Settling, LegInv, Typed
<1>5. ASSUME LegInv, RefuseAsk PROVE LegInv'
  <2> DEFINE e == [kind |-> "refused", side |-> r.side, gone |-> ~Works(r.number)]
  <2>1. e.side = r.side /\ e.kind = "refused"
    OBVIOUS
  <2>2. /\ bid # <<>> /\ events' = Append(events, e) /\ bid' = Tail(bid) /\ r.kind # "new"
        /\ IsFiniteSet(DOMAIN book') /\ UNCHANGED <<status, number, quoter>>
    BY <1>5 DEF RefuseAsk, Answer, strategyVars, threadVars, LegInv, Typed
  <2> HIDE DEF e
  <2> QED
    BY <1>5, <2>1, <2>2, AnswerStep DEF Settling
<1> QED
  BY <1>1, <1>2, <1>3, <1>4, <1>5 DEF Answers

LEMMA TradingStep == LegInv /\ Trading => LegInv'
<1>1. ASSUME LegInv, NEW n, StopQuote(n) PROVE LegInv'
  <2> DEFINE e == [kind |-> "cancelled", side |-> book[n].side]
  <2>1. /\ events' = Append(events, e) /\ DOMAIN book' = DOMAIN book
        /\ UNCHANGED <<status, number, quoter, bid>>
    BY <1>1 DEF StopQuote, Answer, strategyVars, threadVars
  <2>2. e.kind = "cancelled"
    OBVIOUS
  <2> HIDE DEF e
  <2> QED
    BY <1>1, <2>1, <2>2, ReportStep
<1>2. ASSUME LegInv, NEW n, NEW k, Fill(n, k) PROVE LegInv'
  <2> DEFINE e == [kind |-> "trade", side |-> book[n].side, leg |-> 1, lots |-> k,
                   left |-> book[n].lots - k]
  <2>1. /\ events' = Append(events, e) /\ DOMAIN book' = DOMAIN book
        /\ UNCHANGED <<status, number, quoter, bid>>
    BY <1>2 DEF Fill, Report, Answer, strategyVars, threadVars
  <2>2. e.kind = "trade"
    OBVIOUS
  <2> HIDE DEF e
  <2> QED
    BY <1>2, <2>1, <2>2, ReportStep
<1>3. ASSUME LegInv, NEW m, StopMarket(m) PROVE LegInv'
  <2> DEFINE e == [kind |-> "stopped", side |-> m.side, leg |-> m.leg, lots |-> m.volume]
  <2>1. events' = Append(events, e) /\ UNCHANGED <<status, number, quoter, bid, book>>
    BY <1>3 DEF StopMarket, Answer, strategyVars, threadVars
  <2>2. e.kind = "stopped"
    OBVIOUS
  <2> HIDE DEF e
  <2> QED
    BY <1>3, <2>1, <2>2, ReportStep
<1>4. ASSUME LegInv, NEW m, NEW k, FillMarket(m, k) PROVE LegInv'
  <2> DEFINE e == [kind |-> "trade", side |-> m.side, leg |-> m.leg, lots |-> k,
                   left |-> m.lots - k]
  <2>1. events' = Append(events, e) /\ UNCHANGED <<status, number, quoter, bid, book>>
    BY <1>4 DEF FillMarket, Report, Answer, strategyVars, threadVars
  <2>2. e.kind = "trade"
    OBVIOUS
  <2> HIDE DEF e
  <2> QED
    BY <1>4, <2>1, <2>2, ReportStep
<1>5. ASSUME LegInv, NEW m, RefuseMarket(m) PROVE LegInv'
  <2> DEFINE e == [kind |-> "rejected", side |-> m.side, leg |-> m.leg]
  <2>1. events' = Append(events, e) /\ UNCHANGED <<status, number, quoter, bid, book>>
    BY <1>5 DEF RefuseMarket, Answer, strategyVars, threadVars
  <2>2. e.kind = "rejected"
    OBVIOUS
  <2> HIDE DEF e
  <2> QED
    BY <1>5, <2>1, <2>2, ReportStep
<1> QED
  BY <1>1, <1>2, <1>3, <1>4, <1>5 DEF Trading

-----------------------------------------------------------------------------
(* The theorems.                                                            *)

\* Whatever crosses, a side that is PENDING has someone who ends it, and whatever names an
\* order names one.
THEOREM LegInvariant == Spec => []LegInv
<1>1. ASSUME LegInv, UNCHANGED vars PROVE LegInv'
  <2>1. UNCHANGED <<status, number, quoter, bid, events, book>>
    BY <1>1 DEF vars, strategyVars, threadVars, exchangeVars
  <2> QED
    BY <1>1, <2>1, RoundStep
<1>2. LegInv /\ [Next]_vars => LegInv'
  BY <1>1, MarketDataStep, QuoterStep, EventHandlerStep, ClientStep, AnswersStep, TradingStep
     DEF Next
<1> QED
  BY <1>2, InitLegInv, PTL DEF Spec

\* PENDING is always answered (PENDING in OnDataEventHandler, the handlers of Eventsubscriber).
THEOREM PendingAnswered == Spec => []PendingIsAnswered
<1>1. LegInv => PendingIsAnswered
  <2> SUFFICES ASSUME LegInv, NEW s \in Sides, status[s] = "PENDING", quoter = Idle \/ quoter.side # s
               PROVE  \/ QuotesInQueue(s) # {} \/ AsksInQueue(s) # {}
                      \/ \E k \in Settling : EventsOf(s, k) # {}
    BY DEF PendingIsAnswered, Settling
  <2>1. CASE \E r \in Range(bid) : r.side = s
    <3>1. PICK i \in DOMAIN bid : bid[i].side = s
      BY <2>1 DEF Range
    <3> QED
      BY <3>1 DEF QuotesInQueue, AsksInQueue
  <2>2. CASE \E e \in Range(events) : e.side = s /\ e.kind \in Settling
    <3>1. PICK i \in DOMAIN events : events[i].side = s /\ events[i].kind \in Settling
      BY <2>2 DEF Range
    <3> QED
      BY <3>1 DEF EventsOf
  <2> QED
    BY <2>1, <2>2 DEF LegInv, PendingAwaited, Awaited
<1> QED
  BY <1>1, LegInvariant, PTL

-----------------------------------------------------------------------------
(* One order at a time: the inductive invariant.                            *)

\* The shapes of the records the steps below change in part.
HedgerTyped ==
    \/ hedger = Idle
    \/ /\ DOMAIN hedger = {"act", "side", "leg", "lots", "left", "reg"}
       /\ hedger.act \in {"store", "size"} /\ hedger.leg \in Legs
       /\ hedger.act = "size" => hedger.leg = 1
    \/ /\ DOMAIN hedger = {"act", "side", "leg", "lots", "tradable", "next"}
       /\ hedger.act = "hedge" /\ hedger.leg = 1 /\ hedger.next \in Hedges
QuoterMarks == quoter = Idle \/ quoter.marked \in BOOLEAN
MarketTyped ==
    \A m \in BagToSet(mkt) : DOMAIN m = {"side", "leg", "lots", "volume"} /\ m.leg \in Hedges
LegsTold ==
    \A e \in Range(events) :
        /\ e.kind = "trade" => e.leg \in Legs
        /\ e.kind = "stopped" => e.leg \in Hedges
BookTyped ==
    /\ \A n \in DOMAIN book : DOMAIN book[n] = {"side", "lots", "given"}
    /\ DOMAIN book = 1..Cardinality(DOMAIN book)

\* A number is none, or that of an order of its side.
Own(s, n) == n = 0 \/ (n \in DOMAIN book /\ book[n].side = s)
NumbersOwn ==
    /\ \A s \in Sides : Own(s, number[s])
    /\ \A r \in Range(bid) : r.kind # "new" => Own(r.side, r.number)
    /\ \A e \in Range(events) : e.kind \in {"confirmed", "modified"} => Own(e.side, e.number)

Shapes ==
    /\ HedgerTyped /\ QuoterMarks /\ MarketTyped /\ LegsTold /\ BookTyped /\ NumbersOwn
    /\ DOMAIN remaining = Sides /\ DOMAIN upset = Sides

\* What an event says of the order of the first leg, and the events that end it.
FirstLeg(e) ==
    e.kind \in {"confirmed", "modified", "cancelled", "error"} \/ (e.kind = "trade" /\ e.leg = 1)
Ends(e) ==
    \/ e.kind \in {"cancelled", "error"}
    \/ e.kind = "refused" /\ e.gone
    \/ e.kind = "trade" /\ e.leg = 1 /\ e.left = 0

\* The beginning of an order is told first, its end last.
Before(a, b) ==
    FirstLeg(b) => ~Ends(a) /\ (b.kind \in {"confirmed", "error"} => ~FirstLeg(a))
InOrder(s) ==
    \A i, j \in DOMAIN events :
        i < j /\ events[i].side = s /\ events[j].side = s => Before(events[i], events[j])

WorksFor(s, n) == n \in DOMAIN book /\ book[n].side = s /\ book[n].lots > 0
Gone(s) == \A n \in DOMAIN book : ~WorksFor(s, n)
Queued(s) == \E r \in Range(bid) : r.side = s /\ r.kind = "new"
Silent(s) == \A e \in Range(events) : e.side = s => ~FirstLeg(e)
\* The last order of the side is no more, and all that was told of it is handled.
Over(s) == Gone(s) /\ ~Queued(s) /\ Silent(s)

QuoterOn(s) == quoter # Idle /\ quoter.side = s
Deciding(s) == QuoterOn(s) /\ quoter.act = "new"
Asking(s) ==
    \/ \E r \in Range(bid) : r.side = s /\ r.kind # "new"
    \/ \E e \in Range(events) : e.side = s /\ e.kind = "refused"
InTrade(s) == hedger # Idle /\ hedger.side = s /\ hedger.leg = 1
Hedging(s) ==
    \/ \E m \in BagToSet(mkt) : m.side = s
    \/ \E e \in Range(events) :
         e.side = s /\ (e.kind = "stopped" \/ (e.kind = "trade" /\ e.leg # 1))
    \/ hedger # Idle /\ hedger.side = s /\ hedger.leg # 1
\* An order is on its way of which the strategy has heard nothing.
Unheard(s) ==
    \/ Queued(s)
    \/ \E e \in Range(events) : e.side = s /\ e.kind \in {"confirmed", "error"}
\* The last lot of the order was the last to be taken off an event.
LastLot(s) ==
    \/ InTrade(s) /\ hedger.act # "hedge" /\ hedger.left = 0
    \/ InTrade(s) /\ hedger.act = "hedge" /\ remaining[s] = 0
    \/ Hedging(s) /\ remaining[s] = 0

OneQuote(s) ==
    \A i, j \in DOMAIN bid :
        /\ bid[i].side = s /\ bid[i].kind = "new"
        /\ bid[j].side = s /\ bid[j].kind = "new"
        => i = j
OneOrder(s) == \A m, n \in DOMAIN book : WorksFor(s, m) /\ WorksFor(s, n) => m = n

\* All that speaks of the working order names it.
Named(s) ==
    \A n \in DOMAIN book : WorksFor(s, n) =>
        /\ \A r \in Range(bid) : r.side = s /\ r.kind # "new" => r.number = n
        /\ \A e \in Range(events) :
             e.side = s /\ e.kind \in {"confirmed", "modified"} => e.number = n
        /\ Unheard(s) \/ number[s] = n

FreeIsOver(s) == status[s] \in Free => Over(s) /\ ~InTrade(s)
DecidesWhenOver(s) ==
    Deciding(s) =>
        /\ Over(s) /\ ~InTrade(s) /\ ~Asking(s) /\ ~Hedging(s)
        /\ quoter.marked => status[s] = "PENDING"
UnheardWaits(s) ==
    Unheard(s) =>
        /\ status[s] = "PENDING" /\ ~QuoterOn(s) /\ ~Asking(s) /\ ~Hedging(s) /\ ~InTrade(s)
        /\ \A e \in Range(events) : e.side = s => e.kind # "modified"
QueuedIsNext(s) == Queued(s) => Gone(s) /\ Silent(s)
EndsOnce(s) == \A e \in Range(events) : e.side = s /\ Ends(e) => Gone(s) /\ ~Queued(s)
LastLotIsOver(s) == LastLot(s) => Over(s)

SideInv(s) ==
    /\ InOrder(s) /\ OneQuote(s) /\ OneOrder(s) /\ Named(s)
    /\ FreeIsOver(s) /\ DecidesWhenOver(s) /\ UnheardWaits(s) /\ QueuedIsNext(s)
    /\ EndsOnce(s) /\ LastLotIsOver(s)

OneOrderInv == Shapes /\ \A s \in Sides : "hasty" \notin upset[s] => SideInv(s)

-----------------------------------------------------------------------------
(* Queues: who stands where.                                                *)

\* The events stay in order when one joins them that may follow those of its side.
LEMMA InOrderAppend ==
    ASSUME NEW s, NEW e, IsSeq(events), InOrder(s), events' = Append(events, e),
           e.side = s => \A f \in Range(events) : f.side = s => Before(f, e)
    PROVE  InOrder(s)'
<1>1. /\ Len(events) \in Nat /\ DOMAIN events = 1..Len(events)
      /\ DOMAIN events' = 1..(Len(events) + 1)
      /\ \A i \in 1..Len(events) : events'[i] = events[i]
      /\ events'[Len(events) + 1] = e
  BY DEF IsSeq
<1>2. ASSUME NEW i \in DOMAIN events', NEW j \in DOMAIN events', i < j,
             events'[i].side = s, events'[j].side = s
      PROVE  Before(events'[i], events'[j])
  <2>1. i \in DOMAIN events /\ events'[i] = events[i]
    BY <1>1, <1>2
  <2>2. CASE j \in DOMAIN events
    <3>1. events'[j] = events[j]
      BY <1>1, <2>2
    <3> QED
      BY <1>2, <2>1, <2>2, <3>1 DEF InOrder
  <2>3. CASE j \notin DOMAIN events
    <3>1. events'[j] = e
      BY <1>1, <2>3
    <3>2. events[i] \in Range(events)
      BY <2>1 DEF Range
    <3> QED
      BY <1>2, <2>1, <3>1, <3>2
  <2> QED
    BY <2>2, <2>3
<1> QED
  BY <1>2 DEF InOrder, Before, FirstLeg, Ends

\* They stay in order when the first is taken, which the rest could follow.
LEMMA InOrderTail ==
    ASSUME NEW s, IsSeq(events), events # <<>>, InOrder(s), events' = Tail(events)
    PROVE  /\ InOrder(s)'
           /\ Head(events).side = s =>
                \A f \in Range(events') : f.side = s => Before(Head(events), f)
<1>1. /\ Len(events) \in Nat \ {0} /\ DOMAIN events = 1..Len(events) /\ Head(events) = events[1]
      /\ DOMAIN events' = 1..(Len(events) - 1)
      /\ \A i \in 1..(Len(events) - 1) : events'[i] = events[i + 1]
  BY DEF IsSeq
<1>2. ASSUME NEW i \in DOMAIN events', NEW j \in DOMAIN events', i < j,
             events'[i].side = s, events'[j].side = s
      PROVE  Before(events'[i], events'[j])
  <2>1. /\ i + 1 \in DOMAIN events /\ j + 1 \in DOMAIN events /\ i + 1 < j + 1
        /\ events'[i] = events[i + 1] /\ events'[j] = events[j + 1]
    BY <1>1, <1>2
  <2> QED
    BY <1>2, <2>1 DEF InOrder
<1>3. ASSUME Head(events).side = s, NEW f \in Range(events'), f.side = s
      PROVE  Before(Head(events), f)
  <2>1. PICK i \in DOMAIN events' : events'[i] = f
    BY DEF Range
  <2>2. /\ 1 \in DOMAIN events /\ i + 1 \in DOMAIN events /\ 1 < i + 1
        /\ f = events[i + 1] /\ Head(events) = events[1]
    BY <1>1, <2>1
  <2> QED
    BY <1>3, <2>2 DEF InOrder
<1> QED
  BY <1>2, <1>3 DEF InOrder, Before, FirstLeg, Ends

\* A side has one order in the queue, if the one that joins is the first of its side there.
LEMMA OneQuoteAppend ==
    ASSUME NEW s, NEW r, IsSeq(bid), OneQuote(s), bid' = Append(bid, r),
           r.side = s /\ r.kind = "new" => ~Queued(s)
    PROVE  OneQuote(s)'
<1>1. /\ Len(bid) \in Nat /\ DOMAIN bid = 1..Len(bid) /\ DOMAIN bid' = 1..(Len(bid) + 1)
      /\ \A i \in 1..Len(bid) : bid'[i] = bid[i]
      /\ bid'[Len(bid) + 1] = r
  BY DEF IsSeq
<1>2. ASSUME r.side = s, r.kind = "new", NEW i \in 1..Len(bid), bid[i].side = s, bid[i].kind = "new"
      PROVE  FALSE
  <2>1. bid[i] \in Range(bid)
    BY <1>1 DEF Range
  <2> QED
    BY <1>2, <2>1 DEF Queued
<1> QED
  BY <1>1, <1>2 DEF OneQuote

\* Its one order is gone from the queue once it is taken.
LEMMA OneQuoteTail ==
    ASSUME NEW s, IsSeq(bid), bid # <<>>, OneQuote(s), bid' = Tail(bid)
    PROVE  /\ OneQuote(s)'
           /\ Head(bid).side = s /\ Head(bid).kind = "new" => ~Queued(s)'
<1>1. /\ Len(bid) \in Nat \ {0} /\ DOMAIN bid = 1..Len(bid) /\ Head(bid) = bid[1]
      /\ DOMAIN bid' = 1..(Len(bid) - 1)
      /\ \A i \in 1..(Len(bid) - 1) : bid'[i] = bid[i + 1]
  BY DEF IsSeq
<1>2. OneQuote(s)'
  BY <1>1 DEF OneQuote
<1>3. ASSUME Head(bid).side = s, Head(bid).kind = "new", NEW r \in Range(bid'),
             r.side = s, r.kind = "new"
      PROVE  FALSE
  <2>1. PICK i \in DOMAIN bid' : bid'[i] = r
    BY DEF Range
  <2>2. /\ 1 \in DOMAIN bid /\ i + 1 \in DOMAIN bid /\ 1 # i + 1
        /\ bid[i + 1] = r /\ Head(bid) = bid[1]
    BY <1>1, <2>1
  <2> QED
    BY <1>3, <2>2 DEF OneQuote
<1> QED
  BY <1>2, <1>3 DEF Queued

-----------------------------------------------------------------------------
(* The market: a bag seen as the set of what is in it.                      *)

\* Adding an order, taking one away.
LEMMA BagPlusOne ==
    ASSUME NEW B, NEW m
    PROVE  BagToSet(B (+) SetToBag({m})) = BagToSet(B) \cup {m}
  BY DEF BagToSet, (+), SetToBag
LEMMA BagMinusOne ==
    ASSUME NEW B, NEW m
    PROVE  BagToSet(B (-) SetToBag({m})) \subseteq BagToSet(B)
  BY DEF BagToSet, (-), SetToBag

\* The legs of a strategy are numbered.
LEMMA LegsAreNumbered ==
    /\ DOMAIN Ratio = 1..2 \/ DOMAIN Ratio = 1..3
    /\ Last \in Hedges /\ \A k \in DOMAIN Ratio : k <= Last
<1>1. DOMAIN Ratio = 1..2 \/ DOMAIN Ratio = 1..3
  BY DEF StrategyAssumption
<1>2. Last \in DOMAIN Ratio /\ \A k \in DOMAIN Ratio : k <= Last
  <2>1. \E m \in DOMAIN Ratio : \A k \in DOMAIN Ratio : k <= m
    <3>1. CASE DOMAIN Ratio = 1..2
      BY <3>1
    <3>2. CASE DOMAIN Ratio = 1..3
      BY <3>2
    <3> QED
      BY <1>1, <3>1, <3>2
  <2> DEFINE D == DOMAIN Ratio
  <2>2. \A k \in D : k \in Int
    BY <1>1
  <2>3. Last = CHOOSE x \in D : \A y \in D : x >= y
    BY DEF Last, Max
  <2>4. \E x \in D : \A y \in D : x >= y
    BY <2>1, <2>2
  <2> QED
    BY <2>2, <2>3, <2>4
<1> QED
  BY <1>1, <1>2 DEF Hedges

\* The next leg of a round.
LEMMA NextLeg ==
    ASSUME NEW l \in Hedges, l # Last
    PROVE  l + 1 \in Hedges
  BY LegsAreNumbered DEF Hedges

LEMMA FirstHedge == 2 \in Hedges
<1>1. DOMAIN Ratio = 1..2 \/ DOMAIN Ratio = 1..3
  BY DEF StrategyAssumption
<1> QED
  BY <1>1 DEF Hedges

-----------------------------------------------------------------------------
(* The data thread.                                                         *)

\* It takes a request in hand.
LEMMA BeginSide ==
    ASSUME Shapes, NEW s \in Sides, SideInv(s), NEW t \in Sides, NEW r,
           NEW what \in {"new", "modify", "cancel"}, Begin(what, t, r),
           what = "new" => status[t] \in Free,
           what = "new" /\ t = s => ~Asking(s) /\ ~Hedging(s),
           what # "new" => status[t] \in Quoting
    PROVE  SideInv(s)'
<1>1. /\ quoter = Idle /\ quoter' # Idle /\ quoter'.side = t /\ quoter'.act = what
      /\ ~quoter'.marked
      /\ UNCHANGED <<status, number, remaining, hedger, bid, mkt, book, events>>
  BY DEF Begin, Idle, strategyVars, exchangeVars
<1>2. status[t] # "PENDING"
  BY DEF Free, Quoting
<1>3. InOrder(s)' /\ OneQuote(s)' /\ OneOrder(s)' /\ FreeIsOver(s)' /\ QueuedIsNext(s)' /\ EndsOnce(s)'
  BY <1>1 DEF SideInv, InOrder, OneQuote, OneOrder, WorksFor, FreeIsOver, InTrade, Over, Gone, Queued,
              Silent, QueuedIsNext, EndsOnce, Range
<1>4. Named(s)' /\ LastLotIsOver(s)'
  BY <1>1 DEF SideInv, Named, WorksFor, Unheard, Queued, LastLotIsOver, LastLot, InTrade, Hedging, Over,
              Gone, Silent, Range
<1>5. DecidesWhenOver(s)'
  BY <1>1 DEF SideInv, DecidesWhenOver, Deciding, QuoterOn, FreeIsOver, Over, Gone, Queued, Silent,
              WorksFor, InTrade, Asking, Hedging, Range
<1>6. UnheardWaits(s)'
  BY <1>1, <1>2 DEF SideInv, UnheardWaits, Unheard, Queued, QuoterOn, Asking, Hedging, InTrade, Range
<1> QED
  BY <1>3, <1>4, <1>5, <1>6 DEF SideInv

LEMMA MarketDataSide ==
    ASSUME LegInv, Shapes, NEW s \in Sides, SideInv(s), "hasty" \notin upset'[s], MarketData
    PROVE  SideInv(s)'
<1>1. ASSUME NEW t \in Sides, NEW r \in Rates, LookNew(t, r) PROVE SideInv(s)'
  <2>1. Begin("new", t, r) /\ status[t] \in Free
    BY <1>1 DEF LookNew
  <2>2. ASSUME t = s PROVE ~Asking(s) /\ ~Hedging(s)
    <3>1. ~HedgeOutstanding(s) /\ ~AskOutstanding(s)
      <4>1. upset' = [upset EXCEPT ![s] = @
                \cup (IF HedgeOutstanding(s) \/ AskOutstanding(s) THEN {"hasty"} ELSE {})
                \cup (IF Carrying(s) THEN {"carried"} ELSE {})]
        BY <1>1, <2>2 DEF LookNew
      <4>2. s \in DOMAIN upset
        BY DEF Shapes
      <4> QED
        BY <4>1, <4>2
    <3>2. ~Asking(s)
      <4>1. AsksInQueue(s) = {} /\ EventsOf(s, "refused") = {}
        BY <3>1 DEF AskOutstanding
      <4> QED
        BY <4>1 DEF Asking, AsksInQueue, EventsOf, Range
    <3>3. ~Hedging(s)
      <4>1. /\ \A m \in BagToSet(mkt) : m.side # s
            /\ EventsOf(s, "stopped") = {} /\ \A l \in Hedges : TradesOf(s, l) = {}
            /\ ~ (hedger # Idle /\ hedger.side = s /\ hedger.leg # 1)
        BY <3>1 DEF HedgeOutstanding
      <4>2. \A i \in DOMAIN events : events[i].side = s => events[i].kind # "stopped"
        BY <4>1 DEF EventsOf
      <4>3. ASSUME NEW i \in DOMAIN events, events[i].side = s, events[i].kind = "trade"
            PROVE  events[i].leg = 1
        <5>1. events[i].leg \in Legs
          BY <4>3 DEF Shapes, LegsTold, Range
        <5>2. events[i].leg \notin Hedges
          BY <4>1, <4>3 DEF TradesOf, EventsOf
        <5> QED
          BY <5>1, <5>2 DEF Hedges, Legs
      <4> QED
        BY <4>1, <4>2, <4>3 DEF Hedging, Range
    <3> QED
      BY <3>2, <3>3
  <2> QED
    BY <2>1, <2>2, BeginSide
<1>2. ASSUME NEW t \in Sides, NEW r \in Rates, LookModify(t, r) PROVE SideInv(s)'
  BY <1>2, BeginSide DEF LookModify
<1>3. ASSUME NEW t \in Sides, LookCancel(t) PROVE SideInv(s)'
  <2>1. Begin("cancel", t, rate[t]) /\ status[t] \in Quoting
    BY <1>3 DEF LookCancel
  <2> QED
    BY <2>1, BeginSide
<1> QED
  BY <1>1, <1>2, <1>3 DEF MarketData

LEMMA MarkPendingSide ==
    ASSUME LegInv, Shapes, NEW s \in Sides, SideInv(s), MarkPending
    PROVE  SideInv(s)'
<1>1. /\ quoter # Idle /\ quoter.side \in Sides
      /\ status' = [status EXCEPT ![quoter.side] = "PENDING"]
      /\ quoter' = [quoter EXCEPT !.marked = TRUE]
      /\ UNCHANGED <<number, remaining, hedger, bid, mkt, book, events>>
  BY DEF MarkPending, exchangeVars, LegInv, Typed, QuoterTyped
<1>2. quoter'.side = quoter.side /\ quoter'.act = quoter.act /\ quoter' # Idle
  BY <1>1 DEF LegInv, Typed, QuoterTyped, Idle
<1>3. status'[s] = IF s = quoter.side THEN "PENDING" ELSE status[s]
  BY <1>1 DEF LegInv, Typed
<1>4. InOrder(s)' /\ OneQuote(s)' /\ OneOrder(s)' /\ QueuedIsNext(s)' /\ EndsOnce(s)'
  BY <1>1 DEF SideInv, InOrder, OneQuote, OneOrder, WorksFor, Gone, Queued,
              Silent, QueuedIsNext, EndsOnce, Range
<1>5. FreeIsOver(s)'
  BY <1>1, <1>3 DEF SideInv, FreeIsOver, InTrade, Over, Gone, WorksFor, Queued, Silent, Range, Free
<1>6. Named(s)' /\ LastLotIsOver(s)'
  BY <1>1 DEF SideInv, Named, WorksFor, Unheard, Queued, LastLotIsOver, LastLot, InTrade, Hedging, Over,
              Gone, Silent, Range
<1>7. DecidesWhenOver(s)'
  BY <1>1, <1>2, <1>3 DEF SideInv, DecidesWhenOver, Deciding, QuoterOn, Over, Gone, Queued, Silent,
              WorksFor, InTrade, Asking, Hedging, Range
<1>8. UnheardWaits(s)'
  BY <1>1, <1>2, <1>3 DEF SideInv, UnheardWaits, Unheard, Queued, QuoterOn, Asking, Hedging, InTrade,
              Range
<1> QED
  BY <1>4, <1>5, <1>6, <1>7, <1>8 DEF SideInv

\* It is done with the request in its hand, which may join the queue.
LEMMA SendSide ==
    ASSUME LegInv, Shapes, NEW s \in Sides, SideInv(s), quoter # Idle, quoter' = Idle,
           NEW r, r.side = quoter.side, bid' \in {bid, Append(bid, r)},
           r.kind = "new" => quoter.act = "new" /\ quoter.marked,
           r.kind # "new" => quoter.act # "new" /\ r.number = number[quoter.side],
           UNCHANGED <<status, number, remaining, hedger, mkt, book, events>>
    PROVE  SideInv(s)'
<1>1. /\ Range(bid) \subseteq Range(bid') /\ Range(bid') \subseteq Range(bid) \cup {r}
      /\ Range(events') = Range(events)
  <2>1. CASE bid' = bid
    BY <2>1
  <2>2. CASE bid' = Append(bid, r)
    BY <2>2, AppendToQueue DEF LegInv, Typed
  <2> QED
    BY <2>1, <2>2
<1>2. ASSUME r.side = s, r.kind = "new"
      PROVE  /\ Over(s) /\ ~InTrade(s) /\ ~Asking(s) /\ ~Hedging(s) /\ status[s] = "PENDING"
  BY <1>2 DEF SideInv, DecidesWhenOver, Deciding, QuoterOn
<1>3. ASSUME r.side = s, r.kind # "new"
      PROVE  ~Unheard(s) /\ ~Deciding(s)
  BY <1>3 DEF SideInv, UnheardWaits, QuoterOn, Deciding
<1>4. InOrder(s)' /\ OneOrder(s)'
  BY DEF SideInv, InOrder, OneOrder, WorksFor
<1>5. OneQuote(s)'
  <2>1. CASE bid' = bid
    BY <2>1 DEF SideInv, OneQuote
  <2>2. CASE bid' = Append(bid, r)
    BY <1>2, <2>2, OneQuoteAppend DEF SideInv, LegInv, Typed, Over
  <2> QED
    BY <2>1, <2>2
<1>6. Named(s)'
  BY <1>1, <1>2, <1>3 DEF SideInv, Named, WorksFor, Unheard, Queued, Over, Gone
<1>7. FreeIsOver(s)'
  BY <1>1, <1>2, <1>3 DEF SideInv, FreeIsOver, InTrade, Over, Gone, WorksFor, Queued, Silent, Free
<1>8. DecidesWhenOver(s)'
  BY DEF DecidesWhenOver, Deciding, QuoterOn
<1>9. UnheardWaits(s)'
  BY <1>1, <1>2, <1>3 DEF SideInv, UnheardWaits, Unheard, Queued, QuoterOn, Asking, Hedging, InTrade,
              Over, Silent, FirstLeg
<1>10. QueuedIsNext(s)' /\ EndsOnce(s)'
  BY <1>1, <1>2 DEF SideInv, QueuedIsNext, EndsOnce, Queued, Gone, WorksFor, Silent, Over, Asking,
              FirstLeg, Ends
<1>11. LastLotIsOver(s)'
  BY <1>1, <1>2 DEF SideInv, LastLotIsOver, LastLot, InTrade, Hedging, Over, Gone, WorksFor, Queued,
              Silent
<1> QED
  BY <1>4, <1>5, <1>6, <1>7, <1>8, <1>9, <1>10, <1>11 DEF SideInv

LEMMA QuoterSide ==
    ASSUME LegInv, Shapes, NEW s \in Sides, SideInv(s), Quoter
    PROVE  SideInv(s)'
<1>1. ASSUME Quote PROVE SideInv(s)'
  <2> DEFINE r == [kind |-> "new", side |-> quoter.side, lots |-> QuoteLots(quoter.side)]
  <2>1. r.side = quoter.side /\ r.kind = "new"
    OBVIOUS
  <2>2. /\ quoter # Idle /\ quoter' = Idle /\ bid' = Append(bid, r)
        /\ quoter.act = "new" /\ quoter.marked
        /\ UNCHANGED <<status, number, remaining, hedger, mkt, book, events>>
    BY <1>1 DEF Quote, Marked
  <2> HIDE DEF r
  <2> QED
    BY <2>1, <2>2, SendSide
<1>2. ASSUME Requote PROVE SideInv(s)'
  <2> DEFINE r == [kind |-> "modify", side |-> quoter.side, number |-> number[quoter.side],
                    lots |-> volume[quoter.side]]
  <2>1. r.side = quoter.side /\ r.number = number[quoter.side] /\ r.kind = "modify"
    OBVIOUS
  <2>2. /\ quoter # Idle /\ quoter.act = "modify" /\ quoter' = Idle /\ bid' = Append(bid, r)
        /\ UNCHANGED <<status, number, remaining, hedger, mkt, book, events>>
    BY <1>2 DEF Requote, Marked
  <2> HIDE DEF r
  <2> QED
    BY <2>1, <2>2, SendSide
<1>3. ASSUME Withdraw PROVE SideInv(s)'
  <2> DEFINE r == [kind |-> "cancel", side |-> quoter.side, number |-> number[quoter.side]]
  <2>1. r.side = quoter.side /\ r.number = number[quoter.side] /\ r.kind = "cancel"
    OBVIOUS
  <2>2. /\ quoter # Idle /\ quoter.act = "cancel" /\ quoter' = Idle /\ bid' \in {bid, Append(bid, r)}
        /\ UNCHANGED <<status, number, remaining, hedger, mkt, book, events>>
    BY <1>3 DEF Withdraw, Marked, strategyVars
  <2> HIDE DEF r
  <2> QED
    BY <2>1, <2>2, SendSide
<1> QED
  BY <1>1, <1>2, <1>3, MarkPendingSide DEF Quoter

-----------------------------------------------------------------------------
(* The event thread.                                                        *)

\* An answer is handled: what was told of the order after it could follow it.
LEMMA SettleSide ==
    ASSUME LegInv, Shapes, NEW s \in Sides, SideInv(s), hedger = Idle, events # <<>>,
           NEW e, e = Head(events), e.kind \in Settling,
           NEW st \in Statuses \ {"PENDING"}, Settle(e.side, st),
           st \in Free => Ends(e) \/ status[e.side] \in Free,
           \/ e.kind \notin {"confirmed", "modified"} /\ UNCHANGED number
           \/ e.kind \in {"confirmed", "modified"} /\ number' = [number EXCEPT ![e.side] = e.number]
    PROVE  SideInv(s)'
<1>1. /\ status' = [status EXCEPT ![e.side] = st] /\ events' = Tail(events)
      /\ UNCHANGED <<remaining, quoter, hedger, bid, mkt, book>>
  BY DEF Settle, threadVars
<1>2. /\ Range(events) = Range(events') \cup {e} /\ Range(bid') = Range(bid)
      /\ InOrder(s)'
      /\ e.side = s => \A f \in Range(events') : f.side = s => Before(e, f)
  BY <1>1, TailOfQueue, InOrderTail DEF LegInv, Typed, SideInv
<1>3. /\ status'[s] = IF s = e.side THEN st ELSE status[s]
      /\ number'[s] = IF s = e.side /\ e.kind \in {"confirmed", "modified"} THEN e.number ELSE number[s]
  BY <1>1 DEF LegInv, Typed
<1>4. OneQuote(s)' /\ OneOrder(s)'
  BY <1>1 DEF SideInv, OneQuote, OneOrder, WorksFor
<1>5. /\ Gone(s)' <=> Gone(s)
      /\ \A n : WorksFor(s, n)' <=> WorksFor(s, n)
      /\ Queued(s)' <=> Queued(s)
      /\ Silent(s) => Silent(s)'
      /\ Deciding(s)' <=> Deciding(s)
      /\ QuoterOn(s)' <=> QuoterOn(s)
      /\ Asking(s)' => Asking(s)
      /\ Hedging(s)' => Hedging(s)
      /\ ~InTrade(s) /\ ~InTrade(s)'
  BY <1>1, <1>2 DEF Gone, WorksFor, Queued, Silent, FirstLeg, Deciding, QuoterOn, Asking, Hedging, InTrade
<1>6. FreeIsOver(s)'
  <2>1. ASSUME s = e.side, Ends(e) PROVE Over(s)'
    <3>1. Silent(s)'
      BY <1>2, <2>1 DEF Silent, Before, FirstLeg, Ends
    <3>2. Gone(s) /\ ~Queued(s)
      BY <1>2, <2>1 DEF SideInv, EndsOnce
    <3> QED
      BY <1>5, <3>1, <3>2 DEF Over
  <2> QED
    BY <1>3, <1>5, <2>1 DEF SideInv, FreeIsOver, Over
<1>7. DecidesWhenOver(s)'
  <2>1. Deciding(s) => e.side # s
    BY <1>2 DEF SideInv, DecidesWhenOver, Over, Silent, FirstLeg, Asking, Settling
  <2> QED
    BY <1>1, <1>3, <1>5, <2>1 DEF SideInv, DecidesWhenOver, Over
<1>8. ASSUME Unheard(s)' PROVE Unheard(s) /\ e.side # s
  <2>1. Unheard(s)
    BY <1>2, <1>5, <1>8 DEF Unheard
  <2>2. ASSUME e.side = s PROVE FALSE
    <3>1. e.kind \in {"confirmed", "cancelled", "error"}
      BY <1>2, <2>1, <2>2 DEF SideInv, UnheardWaits, Asking, Settling
    <3>2. ~Queued(s)
      BY <1>2, <2>2, <3>1 DEF SideInv, QueuedIsNext, Silent, FirstLeg
    <3>3. PICK f \in Range(events') : f.side = s /\ f.kind \in {"confirmed", "error"}
      BY <1>5, <1>8, <3>2 DEF Unheard
    <3> QED
      BY <1>2, <2>2, <3>1, <3>3 DEF Before, FirstLeg
  <2> QED
    BY <2>1, <2>2
<1>9. UnheardWaits(s)'
  BY <1>2, <1>3, <1>5, <1>8 DEF SideInv, UnheardWaits
<1>10. Named(s)'
  <2> SUFFICES ASSUME NEW n \in DOMAIN book, WorksFor(s, n)
               PROVE  /\ \A r \in Range(bid) : r.side = s /\ r.kind # "new" => r.number = n
                      /\ \A f \in Range(events') :
                           f.side = s /\ f.kind \in {"confirmed", "modified"} => f.number = n
                      /\ Unheard(s)' \/ number'[s] = n
    BY <1>1, <1>2, <1>5 DEF Named
  <2>1. /\ \A r \in Range(bid) : r.side = s /\ r.kind # "new" => r.number = n
        /\ \A f \in Range(events) :
             f.side = s /\ f.kind \in {"confirmed", "modified"} => f.number = n
        /\ Unheard(s) \/ number[s] = n
    BY DEF SideInv, Named
  <2>2. e.side = s => ~Ends(e)
    BY <1>2 DEF SideInv, EndsOnce, Gone
  <2>3. Unheard(s)' \/ number'[s] = n
    BY <1>2, <1>3, <1>5, <2>1, <2>2 DEF Unheard, Ends
  <2> QED
    BY <1>2, <2>1, <2>3
<1>11. QueuedIsNext(s)' /\ EndsOnce(s)'
  BY <1>2, <1>5 DEF SideInv, QueuedIsNext, EndsOnce, Ends
<1>12. LastLotIsOver(s)'
  BY <1>1, <1>5 DEF SideInv, LastLotIsOver, LastLot, Over
<1> QED
  BY <1>2, <1>4, <1>6, <1>7, <1>9, <1>10, <1>11, <1>12 DEF SideInv

\* An event that is no answer leaves the queue: a fill is taken up, a market order repeated.
LEMMA OtherEventSide ==
    ASSUME LegInv, Shapes, NEW s \in Sides, SideInv(s), hedger = Idle, events # <<>>,
           NEW e, e = Head(events), e.kind \notin Settling, events' = Tail(events),
           \A m \in BagToSet(mkt') :
             m \in BagToSet(mkt) \/ (m.side = e.side /\ e.kind = "stopped"),
           \/ hedger' = Idle
           \/ /\ e.kind = "trade" /\ hedger'.side = e.side /\ hedger'.leg = e.leg
              /\ hedger'.act = "store" /\ hedger'.left = e.left,
           UNCHANGED <<status, number, remaining, quoter, bid, book>>
    PROVE  SideInv(s)'
<1>1. /\ Range(events) = Range(events') \cup {e} /\ Range(bid') = Range(bid)
      /\ InOrder(s)'
      /\ e.side = s => \A f \in Range(events') : f.side = s => Before(e, f)
  BY TailOfQueue, InOrderTail DEF LegInv, Typed, SideInv
<1>2. OneQuote(s)' /\ OneOrder(s)'
  BY DEF SideInv, OneQuote, OneOrder, WorksFor
<1>3. /\ Gone(s)' <=> Gone(s)
      /\ \A n : WorksFor(s, n)' <=> WorksFor(s, n)
      /\ Queued(s)' <=> Queued(s)
      /\ Silent(s) => Silent(s)'
      /\ Deciding(s)' <=> Deciding(s)
      /\ QuoterOn(s)' <=> QuoterOn(s)
      /\ Unheard(s)' <=> Unheard(s)
      /\ Asking(s)' => Asking(s)
  BY <1>1 DEF Gone, WorksFor, Queued, Silent, FirstLeg, Deciding, QuoterOn, Asking, Unheard, Settling
<1>4. Hedging(s)' => Hedging(s)
  BY <1>1 DEF Hedging
<1>5. InTrade(s)' => e.side = s /\ FirstLeg(e) /\ hedger'.act = "store" /\ (hedger'.left = 0 => Ends(e))
  BY DEF InTrade, FirstLeg, Ends
<1>6. FreeIsOver(s)' /\ DecidesWhenOver(s)'
  BY <1>1, <1>3, <1>4, <1>5 DEF SideInv, FreeIsOver, DecidesWhenOver, Over, Silent
<1>7. Unheard(s) => ~InTrade(s)'
  BY <1>1, <1>3, <1>5 DEF SideInv, Unheard, QueuedIsNext, Silent, Before, FirstLeg
<1>8. UnheardWaits(s)'
  BY <1>1, <1>3, <1>4, <1>7 DEF SideInv, UnheardWaits
<1>9. Named(s)'
  BY <1>1, <1>3 DEF SideInv, Named
<1>10. QueuedIsNext(s)' /\ EndsOnce(s)'
  BY <1>1, <1>3 DEF SideInv, QueuedIsNext, EndsOnce, Ends
<1>11. LastLotIsOver(s)'
  <2>1. ASSUME e.side = s, Ends(e) PROVE Over(s)'
    <3>1. Silent(s)'
      BY <1>1, <2>1 DEF Silent, Before, FirstLeg, Ends
    <3>2. Gone(s) /\ ~Queued(s)
      BY <1>1, <2>1 DEF SideInv, EndsOnce
    <3> QED
      BY <1>3, <3>1, <3>2 DEF Over
  <2> QED
    BY <1>3, <1>4, <1>5, <2>1 DEF SideInv, LastLotIsOver, LastLot, Over
<1> QED
  BY <1>1, <1>2, <1>6, <1>8, <1>9, <1>10, <1>11 DEF SideInv

\* A trade goes on, round the legs: nothing new is read or told.
LEMMA RoundSide ==
    ASSUME Shapes, NEW s \in Sides, SideInv(s),
           \/ status'[s] = status[s]
           \/ status'[s] = "TRADE" /\ Hedging(s) /\ remaining[s] = 0 /\ ~InTrade(s)',
           InTrade(s)' => InTrade(s), Hedging(s)' => Hedging(s) \/ InTrade(s),
           LastLot(s)' => LastLot(s),
           UNCHANGED <<number, quoter, bid, events, book>>
    PROVE  SideInv(s)'
<1>1. Range(events') = Range(events) /\ Range(bid') = Range(bid)
  OBVIOUS
<1>2. InOrder(s)' /\ OneQuote(s)' /\ OneOrder(s)'
  BY DEF SideInv, InOrder, OneQuote, OneOrder, WorksFor
<1>3. /\ Gone(s)' <=> Gone(s)
      /\ \A n : WorksFor(s, n)' <=> WorksFor(s, n)
      /\ Queued(s)' <=> Queued(s)
      /\ Silent(s)' <=> Silent(s)
      /\ Deciding(s)' <=> Deciding(s)
      /\ QuoterOn(s)' <=> QuoterOn(s)
      /\ Unheard(s)' <=> Unheard(s)
      /\ Asking(s)' <=> Asking(s)
  BY <1>1 DEF Gone, WorksFor, Queued, Silent, FirstLeg, Deciding, QuoterOn, Asking, Unheard
<1>4. Hedging(s) /\ remaining[s] = 0 => Over(s)
  BY DEF SideInv, LastLotIsOver, LastLot
<1>5. FreeIsOver(s)' /\ DecidesWhenOver(s)' /\ UnheardWaits(s)'
  BY <1>1, <1>3, <1>4 DEF SideInv, FreeIsOver, DecidesWhenOver, UnheardWaits, Over
<1>6. Named(s)' /\ QueuedIsNext(s)' /\ EndsOnce(s)' /\ LastLotIsOver(s)'
  BY <1>1, <1>3 DEF SideInv, Named, QueuedIsNext, EndsOnce, Ends, LastLotIsOver, Over
<1> QED
  BY <1>2, <1>5, <1>6 DEF SideInv

\* A step of a thread that touches none of it.
LEMMA StutterSide ==
    ASSUME Shapes, NEW s \in Sides, SideInv(s),
           UNCHANGED <<status, number, remaining, quoter, hedger, bid, mkt, events, book>>
    PROVE  SideInv(s)'
<1>1. /\ InTrade(s)' <=> InTrade(s)
      /\ Hedging(s)' <=> Hedging(s)
      /\ LastLot(s)' <=> LastLot(s)
  BY DEF InTrade, Hedging, LastLot, Range
<1> QED
  BY <1>1, RoundSide

LEMMA EventHandlerSide ==
    ASSUME LegInv, Shapes, NEW s \in Sides, SideInv(s), EventHandler
    PROVE  SideInv(s)'
<1> DEFINE e == Head(events)
<1>1. ASSUME ORDER_CONFIRMATION_TR PROVE SideInv(s)'
  <2>1. /\ hedger = Idle /\ events # <<>> /\ e.kind = "confirmed" /\ Settle(e.side, "OPEN")
        /\ number' = [number EXCEPT ![e.side] = e.number]
    BY <1>1 DEF ORDER_CONFIRMATION_TR, Handles, TakeOver
  <2> QED
    BY <2>1, SettleSide DEF Statuses, Settling, Free
<1>2. ASSUME ORDER_MOD_CONFIRMATION_TR PROVE SideInv(s)'
  <2>1. /\ hedger = Idle /\ events # <<>> /\ e.kind = "modified" /\ Settle(e.side, "REPLACED")
        /\ number' = [number EXCEPT ![e.side] = e.number]
    BY <1>2 DEF ORDER_MOD_CONFIRMATION_TR, Handles, TakeOver
  <2> QED
    BY <2>1, SettleSide DEF Statuses, Settling, Free
<1>3. ASSUME ORDER_CXL_CONFIRMATION_TR PROVE SideInv(s)'
  <2>1. /\ hedger = Idle /\ events # <<>> /\ e.kind = "cancelled" /\ Settle(e.side, "CANCEL")
        /\ UNCHANGED number
    BY <1>3 DEF ORDER_CXL_CONFIRMATION_TR, Handles
  <2> QED
    BY <2>1, SettleSide DEF Statuses, Settling, Ends
<1>4. ASSUME ORDER_ERROR_OUT PROVE SideInv(s)'
  <2>1. /\ hedger = Idle /\ events # <<>> /\ e.kind = "error" /\ Settle(e.side, "REJECTED")
        /\ UNCHANGED number
    BY <1>4 DEF ORDER_ERROR_OUT, Handles
  <2> QED
    BY <2>1, SettleSide DEF Statuses, Settling, Ends
<1>5. ASSUME ORDER_REJ_OUT PROVE SideInv(s)'
  <2> DEFINE st == AfterRefusal(e.side, e.gone)
  <2>1. /\ hedger = Idle /\ events # <<>> /\ e.kind = "refused" /\ Settle(e.side, st)
        /\ UNCHANGED number
    BY <1>5 DEF ORDER_REJ_OUT, Handles
  <2>2. st \in Statuses \ {"PENDING"}
    BY DEF AfterRefusal, Statuses
  <2>3. st \in Free => Ends(e) \/ status[e.side] \in Free
    BY <2>1 DEF AfterRefusal, Ends, Free
  <2> HIDE DEF st
  <2> QED
    BY <2>1, <2>2, <2>3, SettleSide DEF Settling
<1>6. ASSUME SelfTradeStopped PROVE SideInv(s)'
  <2> DEFINE m == Market(e.side, e.leg, e.lots, e.lots)
  <2>1. /\ hedger = Idle /\ hedger' = Idle /\ events # <<>> /\ e.kind = "stopped"
        /\ events' = Tail(events) /\ mkt' = mkt (+) SetToBag({m})
        /\ UNCHANGED <<status, number, remaining, quoter, bid, book>>
    BY <1>6 DEF SelfTradeStopped, Handles, strategyVars, threadVars
  <2>2. m.side = e.side
    BY DEF Market
  <2> HIDE DEF m
  <2>3. BagToSet(mkt') = BagToSet(mkt) \cup {m}
    BY <2>1, BagPlusOne
  <2> QED
    BY <2>1, <2>2, <2>3, OtherEventSide DEF Settling
<1>7. ASSUME HedgeRefused PROVE SideInv(s)'
  <2>1. /\ hedger = Idle /\ hedger' = Idle /\ events # <<>> /\ e.kind = "rejected"
        /\ events' = Tail(events) /\ mkt' = mkt
        /\ UNCHANGED <<status, number, remaining, quoter, bid, book>>
    BY <1>7 DEF HedgeRefused, Handles, strategyVars, threadVars
  <2> QED
    BY <2>1, OtherEventSide DEF Settling
<1>8. ASSUME TradeLoad PROVE SideInv(s)'
  <2>1. /\ hedger = Idle /\ events # <<>> /\ e.kind = "trade"
        /\ events' = Tail(events) /\ mkt' = mkt
        /\ hedger'.side = e.side /\ hedger'.leg = e.leg
        /\ hedger'.act = "store" /\ hedger'.left = e.left
        /\ UNCHANGED <<status, number, remaining, quoter, bid, book>>
    BY <1>8 DEF TradeLoad, Handles, strategyVars
  <2> QED
    BY <2>1, OtherEventSide DEF Settling
<1>9. ASSUME TradeStore PROVE SideInv(s)'
  <2>1. /\ hedger # Idle /\ hedger.act = "store" /\ hedger.leg = 1
        /\ hedger' = [hedger EXCEPT !.act = "size"]
        /\ UNCHANGED <<status, number, remaining, quoter, bid, mkt, events, book>>
    BY <1>9 DEF TradeStore, Storing, exchangeVars
  <2>2. /\ hedger'.side = hedger.side /\ hedger'.leg = hedger.leg /\ hedger'.left = hedger.left
        /\ hedger'.act = "size"
    BY <2>1 DEF Shapes, HedgerTyped
  <2>3. (InTrade(s)' => InTrade(s)) /\ (Hedging(s)' => Hedging(s))
    BY <2>1, <2>2 DEF InTrade, Hedging, Range
  <2>4. LastLot(s)' => LastLot(s)
    BY <2>1, <2>2, <2>3 DEF LastLot, InTrade
  <2> QED
    BY <2>1, <2>3, <2>4, RoundSide
<1>10. ASSUME TradeSize PROVE SideInv(s)'
  <2>1. /\ hedger # Idle /\ hedger.act = "size"
        /\ remaining' = [remaining EXCEPT ![hedger.side] = hedger.left]
        /\ hedger'.side = hedger.side /\ hedger'.leg = 1 /\ hedger'.act = "hedge"
        /\ UNCHANGED <<status, number, quoter, bid, mkt, events, book>>
    BY <1>10 DEF TradeSize, LeftOf, exchangeVars
  <2>2. hedger.leg = 1
    BY <2>1 DEF Shapes, HedgerTyped
  <2>3. (InTrade(s)' => InTrade(s)) /\ (Hedging(s)' => Hedging(s))
    BY <2>1, <2>2 DEF InTrade, Hedging, Range
  <2>4. remaining'[s] = IF s = hedger.side THEN hedger.left ELSE remaining[s]
    BY <2>1 DEF Shapes
  <2>5. LastLot(s)' => LastLot(s)
    BY <2>1, <2>2, <2>3, <2>4 DEF LastLot, InTrade
  <2> QED
    BY <2>1, <2>3, <2>5, RoundSide
<1>11. ASSUME TradeHedge PROVE SideInv(s)'
  <2> DEFINE m == Market(hedger.side, hedger.next, ToHit(hedger.side, hedger.next),
                         ToHit(hedger.side, hedger.next))
  <2>1. /\ hedger # Idle /\ hedger.act = "hedge"
        /\ mkt' \in {mkt, mkt (+) SetToBag({m})}
        /\ hedger' \in {Idle, [hedger EXCEPT !.next = hedger.next + 1]}
        /\ UNCHANGED <<status, number, remaining, quoter, bid, events, book>>
    BY <1>11 DEF TradeHedge, strategyVars
  <2>2. hedger.leg = 1
    BY <2>1 DEF Shapes, HedgerTyped
  <2>3. \/ hedger' = Idle
        \/ hedger'.side = hedger.side /\ hedger'.leg = 1 /\ hedger'.act = "hedge"
    BY <2>1, <2>2 DEF Shapes, HedgerTyped
  <2>4. m.side = hedger.side
    BY DEF Market
  <2> HIDE DEF m
  <2>5. \A k \in BagToSet(mkt') : k \in BagToSet(mkt) \/ k.side = hedger.side
    <3>1. CASE mkt' = mkt
      BY <3>1
    <3>2. CASE mkt' = mkt (+) SetToBag({m})
      <4>1. BagToSet(mkt (+) SetToBag({m})) = BagToSet(mkt) \cup {m}
        BY BagPlusOne
      <4> QED
        BY <2>4, <3>2, <4>1
    <3> QED
      BY <2>1, <3>1, <3>2
  <2>6. (InTrade(s)' => InTrade(s)) /\ (Hedging(s)' => Hedging(s) \/ InTrade(s))
    BY <2>1, <2>2, <2>3, <2>5 DEF InTrade, Hedging, Range
  <2>7. LastLot(s)' => LastLot(s)
    BY <2>1, <2>3, <2>6 DEF LastLot, InTrade
  <2> QED
    BY <2>1, <2>6, <2>7, RoundSide
<1>12. ASSUME HedgeStore PROVE SideInv(s)'
  <2>1. /\ hedger # Idle /\ hedger.act = "store" /\ hedger.leg # 1 /\ hedger' = Idle
        /\ status' = IF hedger.leg = Last /\ remaining[hedger.side] = 0
                     THEN [status EXCEPT ![hedger.side] = "TRADE"] ELSE status
        /\ UNCHANGED <<number, remaining, quoter, bid, mkt, events, book>>
    BY <1>12 DEF HedgeStore, Storing, EndsRound, exchangeVars
  <2>2. ~InTrade(s)' /\ (Hedging(s)' => Hedging(s))
    BY <2>1 DEF InTrade, Hedging, Range
  <2>3. \/ status'[s] = status[s]
        \/ status'[s] = "TRADE" /\ Hedging(s) /\ remaining[s] = 0
    BY <2>1 DEF Hedging, LegInv, Typed
  <2>4. LastLot(s)' => LastLot(s)
    BY <2>1, <2>2 DEF LastLot
  <2> QED
    BY <2>1, <2>2, <2>3, <2>4, RoundSide
<1> QED
  BY <1>1, <1>2, <1>3, <1>4, <1>5, <1>6, <1>7, <1>8, <1>9, <1>10, <1>11, <1>12 DEF EventHandler

LEMMA ClientSide ==
    ASSUME Shapes, NEW s \in Sides, SideInv(s), Client
    PROVE  SideInv(s)'
<1>1. UNCHANGED <<status, number, remaining, quoter, hedger, bid, mkt, events, book>>
  BY DEF Client, Difference, DiffTest, DiffStore, strategyVars, exchangeVars
<1> QED
  BY <1>1, StutterSide

-----------------------------------------------------------------------------
(* The exchange.                                                            *)

\* It reports on an order that worked: a change, a fill, its end.
LEMMA OrderReportSide ==
    ASSUME LegInv, Shapes, NEW s \in Sides, SideInv(s),
           NEW e, events' = Append(events, e), e.kind \in {"modified", "cancelled", "trade"},
           e.kind = "trade" => e.leg = 1,
           NEW n, e.side = s => WorksFor(s, n) /\ (Ends(e) => Gone(s)'),
           e.kind = "modified" => e.number = n /\ (e.side = s => ~Unheard(s)),
           DOMAIN book' = DOMAIN book, \A k : WorksFor(s, k)' => WorksFor(s, k),
           Range(bid') \subseteq Range(bid), Queued(s)' <=> Queued(s), OneQuote(s)',
           UNCHANGED <<status, number, remaining, quoter, hedger, mkt>>
    PROVE  SideInv(s)'
<1>1. Range(events') = Range(events) \cup {e}
  BY AppendToQueue DEF LegInv, Typed
<1>2. ASSUME e.side = s
      PROVE  /\ ~Gone(s) /\ ~Queued(s) /\ \A f \in Range(events) : f.side = s => ~Ends(f)
             /\ status[s] \notin Free /\ ~Deciding(s) /\ ~LastLot(s)
  <2>1. ~Gone(s)
    BY <1>2 DEF Gone, WorksFor
  <2> QED
    BY <2>1 DEF SideInv, QueuedIsNext, EndsOnce, FreeIsOver, DecidesWhenOver, LastLotIsOver, Over
<1>3. InOrder(s)'
  <2>1. ASSUME e.side = s, NEW f \in Range(events), f.side = s PROVE Before(f, e)
    BY <1>2, <2>1 DEF Before
  <2> QED
    BY <2>1, InOrderAppend DEF SideInv, LegInv, Typed
<1>4. OneOrder(s)'
  BY DEF SideInv, OneOrder
<1>5. /\ Gone(s) => Gone(s)'
      /\ e.side # s => (Silent(s) => Silent(s)')
      /\ Deciding(s)' <=> Deciding(s)
      /\ QuoterOn(s)' <=> QuoterOn(s)
      /\ Unheard(s)' <=> Unheard(s)
      /\ Asking(s)' => Asking(s)
      /\ InTrade(s)' <=> InTrade(s)
      /\ Hedging(s)' <=> Hedging(s)
  BY <1>1 DEF Gone, WorksFor, Silent, FirstLeg, Deciding, QuoterOn, Unheard, Asking, InTrade, Hedging
<1>6. LastLot(s)' <=> LastLot(s)
  BY <1>5 DEF LastLot
<1>7. FreeIsOver(s)' /\ DecidesWhenOver(s)' /\ LastLotIsOver(s)'
  BY <1>2, <1>5, <1>6 DEF SideInv, FreeIsOver, DecidesWhenOver, LastLotIsOver, Over
<1>8. UnheardWaits(s)'
  BY <1>1, <1>5 DEF SideInv, UnheardWaits
<1>9. Named(s)'
  <2> SUFFICES ASSUME NEW k \in DOMAIN book, WorksFor(s, k)
               PROVE  /\ \A r \in Range(bid') : r.side = s /\ r.kind # "new" => r.number = k
                      /\ \A f \in Range(events') :
                           f.side = s /\ f.kind \in {"confirmed", "modified"} => f.number = k
                      /\ Unheard(s) \/ number[s] = k
    BY <1>5 DEF Named
  <2>1. /\ \A r \in Range(bid) : r.side = s /\ r.kind # "new" => r.number = k
        /\ \A f \in Range(events) :
             f.side = s /\ f.kind \in {"confirmed", "modified"} => f.number = k
        /\ Unheard(s) \/ number[s] = k
    BY DEF SideInv, Named
  <2>2. e.side = s => n = k
    BY DEF SideInv, OneOrder, WorksFor
  <2> QED
    BY <1>1, <2>1, <2>2
<1>10. QueuedIsNext(s)' /\ EndsOnce(s)'
  BY <1>1, <1>2, <1>5 DEF SideInv, QueuedIsNext, EndsOnce, Ends
<1> QED
  BY <1>3, <1>4, <1>7, <1>8, <1>9, <1>10 DEF SideInv

\* It says something else: a refusal, or of a market order.
LEMMA OtherReportSide ==
    ASSUME LegInv, Shapes, NEW s \in Sides, SideInv(s),
           NEW e, events' = Append(events, e), ~FirstLeg(e),
           e.side = s /\ Ends(e) => Gone(s) /\ ~Queued(s),
           e.side = s /\ e.kind = "refused" => Asking(s),
           Hedging(s)' => Hedging(s),
           Range(bid') \subseteq Range(bid), Queued(s)' <=> Queued(s), OneQuote(s)',
           UNCHANGED <<status, number, remaining, quoter, hedger, book>>
    PROVE  SideInv(s)'
<1>1. Range(events') = Range(events) \cup {e}
  BY AppendToQueue DEF LegInv, Typed
<1>2. InOrder(s)'
  <2>1. ASSUME NEW f \in Range(events) PROVE Before(f, e)
    BY DEF Before
  <2> QED
    BY <2>1, InOrderAppend DEF SideInv, LegInv, Typed
<1>3. OneOrder(s)'
  BY DEF SideInv, OneOrder, WorksFor
<1>4. e.kind \notin {"confirmed", "modified", "cancelled", "error"}
  BY DEF FirstLeg
<1>5. /\ Gone(s)' <=> Gone(s)
      /\ \A n : WorksFor(s, n)' <=> WorksFor(s, n)
      /\ Silent(s)' <=> Silent(s)
      /\ Deciding(s)' <=> Deciding(s)
      /\ QuoterOn(s)' <=> QuoterOn(s)
      /\ Unheard(s)' <=> Unheard(s)
      /\ Asking(s)' => Asking(s)
      /\ InTrade(s)' <=> InTrade(s)
  BY <1>1, <1>4 DEF Gone, WorksFor, Silent, FirstLeg, Deciding, QuoterOn, Unheard, Asking, InTrade
<1>6. LastLot(s)' => LastLot(s)
  BY <1>5 DEF LastLot
<1>7. FreeIsOver(s)' /\ DecidesWhenOver(s)' /\ LastLotIsOver(s)'
  BY <1>5, <1>6 DEF SideInv, FreeIsOver, DecidesWhenOver, LastLotIsOver, Over
<1>8. UnheardWaits(s)' /\ Named(s)'
  BY <1>1, <1>4, <1>5 DEF SideInv, UnheardWaits, Named
<1>9. QueuedIsNext(s)' /\ EndsOnce(s)'
  BY <1>1, <1>5 DEF SideInv, QueuedIsNext, EndsOnce, Ends
<1> QED
  BY <1>2, <1>3, <1>7, <1>8, <1>9 DEF SideInv

\* It takes a new order out of the queue, and works it or not.
LEMMA NewOrderSide ==
    ASSUME LegInv, Shapes, NEW s \in Sides, SideInv(s),
           bid # <<>>, NEW r, r = Head(bid), r.kind = "new", bid' = Tail(bid),
           NEW e, e.side = r.side, e.kind \in {"confirmed", "error"}, events' = Append(events, e),
           NEW n, n \notin DOMAIN book, DOMAIN book \subseteq DOMAIN book',
           \A k : WorksFor(s, k)' =>
             WorksFor(s, k) \/ (k = n /\ s = r.side /\ e.kind = "confirmed" /\ e.number = n),
           UNCHANGED <<status, number, remaining, quoter, hedger, mkt>>
    PROVE  SideInv(s)'
<1>1. /\ Range(events') = Range(events) \cup {e}
      /\ Range(bid) = Range(bid') \cup {r} /\ OneQuote(s)'
      /\ r.side = s => ~Queued(s)'
  BY AppendToQueue, TailOfQueue, OneQuoteTail DEF LegInv, Typed, SideInv
<1>2. ASSUME r.side = s
      PROVE  /\ Gone(s) /\ Silent(s) /\ \A f \in Range(events) : f.side = s => ~Ends(f)
             /\ status[s] = "PENDING" /\ ~QuoterOn(s) /\ ~Asking(s) /\ ~Hedging(s) /\ ~InTrade(s)
  <2>1. Queued(s)
    BY <1>1, <1>2 DEF Queued
  <2> QED
    BY <2>1 DEF SideInv, QueuedIsNext, EndsOnce, UnheardWaits, Unheard
<1>3. InOrder(s)'
  <2>1. ASSUME e.side = s, NEW f \in Range(events), f.side = s PROVE Before(f, e)
    BY <1>2, <2>1 DEF Before, Silent
  <2> QED
    BY <2>1, InOrderAppend DEF SideInv, LegInv, Typed
<1>4. OneOrder(s)'
  <2>1. r.side = s => \A k : ~WorksFor(s, k)
    BY <1>2 DEF Gone, WorksFor
  <2> QED
    BY <2>1 DEF SideInv, OneOrder, WorksFor
<1>5. /\ QuoterOn(s)' <=> QuoterOn(s)
      /\ Deciding(s)' <=> Deciding(s)
      /\ Asking(s)' => Asking(s)
      /\ InTrade(s)' <=> InTrade(s)
      /\ Hedging(s)' <=> Hedging(s)
  BY <1>1 DEF QuoterOn, Deciding, Asking, InTrade, Hedging
<1>6. LastLot(s)' <=> LastLot(s)
  BY <1>5 DEF LastLot
<1>7. ASSUME r.side # s
      PROVE  /\ Gone(s) => Gone(s)'
             /\ Silent(s) => Silent(s)'
             /\ Queued(s)' <=> Queued(s)
             /\ Unheard(s)' <=> Unheard(s)
  BY <1>1, <1>7 DEF Gone, WorksFor, Silent, FirstLeg, Queued, Unheard
<1>8. FreeIsOver(s)' /\ DecidesWhenOver(s)' /\ LastLotIsOver(s)'
  BY <1>2, <1>5, <1>6, <1>7
     DEF SideInv, FreeIsOver, DecidesWhenOver, LastLotIsOver, LastLot, Over, Deciding, Free
<1>9. UnheardWaits(s)'
  BY <1>1, <1>2, <1>5, <1>7 DEF SideInv, UnheardWaits, Silent, FirstLeg
<1>10. Named(s)'
  <2>1. CASE r.side # s
    BY <1>1, <1>7, <2>1 DEF SideInv, Named, WorksFor
  <2>2. CASE r.side = s
    <3>1. \A k : WorksFor(s, k)' => k = n /\ e.kind = "confirmed" /\ e.number = n
      BY <1>2, <2>2 DEF Gone, WorksFor
    <3>2. \A q \in Range(bid') : q.side = s => q.kind = "new"
      BY <1>1, <1>2, <2>2 DEF Asking
    <3>3. \A f \in Range(events) : f.side = s => f.kind \notin {"confirmed", "modified"}
      BY <1>2, <2>2 DEF Silent, FirstLeg
    <3>4. e.kind = "confirmed" => Unheard(s)'
      BY <1>1, <2>2 DEF Unheard
    <3> QED
      BY <1>1, <3>1, <3>2, <3>3, <3>4 DEF Named
  <2> QED
    BY <2>1, <2>2
<1>11. QueuedIsNext(s)'
  BY <1>1, <1>7 DEF SideInv, QueuedIsNext
<1>12. EndsOnce(s)'
  <2>1. CASE r.side # s
    BY <1>1, <1>7, <2>1 DEF SideInv, EndsOnce, Ends
  <2>2. CASE r.side = s
    <3>1. e.kind = "error" => Gone(s)'
      BY <1>2, <2>2 DEF Gone, WorksFor
    <3> QED
      BY <1>1, <1>2, <2>2, <3>1 DEF EndsOnce, Ends
  <2> QED
    BY <2>1, <2>2
<1> QED
  BY <1>1, <1>3, <1>4, <1>8, <1>9, <1>10, <1>11, <1>12 DEF SideInv

\* The orders of the book are counted from 1.
LEMMA BookCounted ==
    ASSUME LegInv, Shapes
    PROVE  Cardinality(DOMAIN book) \in Nat /\ DOMAIN book = 1..Cardinality(DOMAIN book)
<1>1. IsFiniteSet(DOMAIN book)
  BY DEF LegInv, Typed
<1>2. Cardinality(DOMAIN book) \in Nat
  BY <1>1, FS_CardinalityType, Zenon
<1> QED
  BY <1>2 DEF Shapes, BookTyped

\* A working order that is asked about belongs to the side that asks.
LEMMA WorksIsOwn ==
    ASSUME LegInv, Shapes, NEW t, NEW n, Own(t, n), Works(n)
    PROVE  WorksFor(t, n)
<1>1. n # 0
  BY BookCounted DEF Works
<1> QED
  BY <1>1 DEF Own, Works, WorksFor

\* A modify changes the lots of an order that works, and what is given back to it.
LEMMA ModifiedBook ==
    ASSUME BookTyped, DoModify
    PROVE  /\ Head(bid).number \in DOMAIN book /\ DOMAIN book' = DOMAIN book
           /\ \A k \in DOMAIN book : k # Head(bid).number => book'[k] = book[k]
           /\ book[Head(bid).number].lots > 0 /\ book'[Head(bid).number].lots > 0
           /\ book'[Head(bid).number].lots \in {Head(bid).lots, book[Head(bid).number].lots}
           /\ book'[Head(bid).number].side = book[Head(bid).number].side
           /\ DOMAIN book'[Head(bid).number] = {"side", "lots", "given"}
           /\ book'[Head(bid).number].given = book[Head(bid).number].given
                + Excess(book'[Head(bid).number].lots, book[Head(bid).number].lots)
<1> DEFINE r == Head(bid)
           n == r.number
<1>1. PICK left \in {r.lots, book[n].lots} :
        book' = [book EXCEPT ![n].lots = left, ![n].given = @ + Excess(left, book[n].lots)]
  BY DEF DoModify
<1>2. n \in DOMAIN book /\ book[n].lots > 0 /\ r.lots > 0
  BY DEF DoModify, Works
<1>3. DOMAIN book[n] = {"side", "lots", "given"}
  BY <1>2 DEF BookTyped
<1> HIDE DEF n, r
<1>4. /\ DOMAIN book' = DOMAIN book /\ \A k \in DOMAIN book : k # n => book'[k] = book[k]
      /\ book'[n] = [book[n] EXCEPT !.lots = left, !.given = @ + Excess(left, book[n].lots)]
  BY <1>1, <1>2
<1>5. /\ book'[n].lots = left /\ book'[n].side = book[n].side
      /\ book'[n].given = book[n].given + Excess(left, book[n].lots)
      /\ DOMAIN book'[n] = {"side", "lots", "given"}
  BY <1>3, <1>4
<1>6. left > 0 /\ left \in {r.lots, book[n].lots}
  BY <1>1, <1>2
<1> QED
  BY <1>2, <1>4, <1>5, <1>6 DEF n, r

\* The orders that work are the same.
LEMMA ModifiedWorks ==
    ASSUME BookTyped, DoModify
    PROVE  \A s, n : WorksFor(s, n)' <=> WorksFor(s, n)
  BY ModifiedBook DEF WorksFor

\* An order that is ended: the others of the side work on, and it was the only one.
LEMMA EndOrder ==
    ASSUME Shapes, NEW s \in Sides, SideInv(s), NEW n \in DOMAIN book,
           book' = [book EXCEPT ![n].lots = 0]
    PROVE  /\ DOMAIN book' = DOMAIN book
           /\ \A k : WorksFor(s, k)' => WorksFor(s, k)
           /\ WorksFor(s, n) => Gone(s)'
<1>1. /\ DOMAIN book' = DOMAIN book /\ \A k \in DOMAIN book \ {n} : book'[k] = book[k]
      /\ book'[n].lots = 0 /\ book'[n].side = book[n].side
  BY DEF Shapes, BookTyped
<1>2. \A k : WorksFor(s, k)' => WorksFor(s, k) /\ k # n
  BY <1>1 DEF WorksFor
<1> QED
  BY <1>1, <1>2 DEF SideInv, OneOrder, Gone, WorksFor

LEMMA AnswersSide ==
    ASSUME LegInv, Shapes, NEW s \in Sides, SideInv(s), Answers
    PROVE  SideInv(s)'
<1> DEFINE r == Head(bid)
<1>1. ASSUME AcceptNew PROVE SideInv(s)'
  <2> DEFINE n == 1 + Cardinality(DOMAIN book)
             e == [kind |-> "confirmed", side |-> r.side, number |-> n, lots |-> r.lots]
  <2>1. n \notin DOMAIN book
    BY BookCounted
  <2>2. e.side = r.side /\ e.kind = "confirmed" /\ e.number = n
    OBVIOUS
  <2>3. /\ bid # <<>> /\ r.kind = "new" /\ events' = Append(events, e) /\ bid' = Tail(bid)
        /\ book' = [k \in DOMAIN book \cup {n} |->
                      IF k = n THEN [side |-> r.side, lots |-> r.lots, given |-> 0] ELSE book[k]]
        /\ UNCHANGED <<status, number, remaining, quoter, hedger, mkt>>
    BY <1>1 DEF AcceptNew, Answer, strategyVars, threadVars
  <2> HIDE DEF n, e, r
  <2>4. /\ DOMAIN book' = DOMAIN book \cup {n} /\ \A k \in DOMAIN book : book'[k] = book[k]
        /\ book'[n].side = r.side
    BY <2>1, <2>3
  <2>5. /\ DOMAIN book \subseteq DOMAIN book'
        /\ \A k : WorksFor(s, k)' =>
             WorksFor(s, k) \/ (k = n /\ s = r.side /\ e.kind = "confirmed" /\ e.number = n)
    BY <2>2, <2>4 DEF WorksFor
  <2>6. r = Head(bid)
    BY DEF r
  <2> QED
    BY <2>1, <2>2, <2>3, <2>5, <2>6, NewOrderSide
<1>2. ASSUME RefuseNew PROVE SideInv(s)'
  <2> DEFINE n == 1 + Cardinality(DOMAIN book)
             e == [kind |-> "error", side |-> r.side]
  <2>1. n \notin DOMAIN book
    BY BookCounted
  <2>2. e.side = r.side /\ e.kind = "error"
    OBVIOUS
  <2>3. /\ bid # <<>> /\ r.kind = "new" /\ events' = Append(events, e) /\ bid' = Tail(bid)
        /\ UNCHANGED <<status, number, remaining, quoter, hedger, mkt, book>>
    BY <1>2 DEF RefuseNew, Answer, strategyVars, threadVars
  <2> HIDE DEF n, e, r
  <2>4. \A k : WorksFor(s, k)' => WorksFor(s, k)
    BY <2>3 DEF WorksFor
  <2> QED
    BY <2>1, <2>2, <2>3, <2>4, NewOrderSide DEF r
\* What the next request is, when it asks about an order.
<1>3. ASSUME bid # <<>>, r.kind # "new", bid' = Tail(bid)
      PROVE  /\ Range(bid') \subseteq Range(bid) /\ (Queued(s)' <=> Queued(s)) /\ OneQuote(s)'
             /\ Own(r.side, r.number)
             /\ r.side = s => Asking(s) /\ ~Unheard(s)
  <2>1. Range(bid) = Range(bid') \cup {r}
    BY <1>3, TailOfQueue DEF LegInv, Typed
  <2>2. OneQuote(s)'
    BY <1>3, OneQuoteTail DEF LegInv, Typed, SideInv
  <2>3. Queued(s)' <=> Queued(s)
    BY <1>3, <2>1 DEF Queued
  <2>4. Own(r.side, r.number)
    BY <1>3, <2>1 DEF Shapes, NumbersOwn
  <2>5. r.side = s => Asking(s) /\ ~Unheard(s)
    BY <1>3, <2>1 DEF Asking, SideInv, UnheardWaits
  <2> QED
    BY <2>1, <2>2, <2>3, <2>4, <2>5
<1>4. ASSUME DoModify PROVE SideInv(s)'
  <2> DEFINE e == [kind |-> "modified", side |-> r.side, number |-> r.number, lots |-> r.lots]
  <2>1. e.side = r.side /\ e.kind = "modified" /\ e.number = r.number
    OBVIOUS
  <2>2. /\ bid # <<>> /\ r.kind = "modify" /\ Works(r.number)
        /\ events' = Append(events, e) /\ bid' = Tail(bid)
        /\ UNCHANGED <<status, number, remaining, quoter, hedger, mkt>>
    BY <1>4 DEF DoModify, Answer, strategyVars, threadVars
  <2>3. r.side = s => WorksFor(s, r.number)
    BY <1>3, <2>2, WorksIsOwn
  <2>4. DOMAIN book' = DOMAIN book /\ \A k : WorksFor(s, k)' => WorksFor(s, k)
    BY <1>4, ModifiedBook, ModifiedWorks DEF Shapes
  <2> HIDE DEF e, r
  <2>5. ~Ends(e)
    BY <2>1 DEF Ends
  <2> QED
    BY <1>3, <2>1, <2>2, <2>3, <2>4, <2>5, OrderReportSide
<1>5. ASSUME DoCancel PROVE SideInv(s)'
  <2> DEFINE e == [kind |-> "cancelled", side |-> r.side]
  <2>1. e.side = r.side /\ e.kind = "cancelled"
    OBVIOUS
  <2>2. /\ bid # <<>> /\ r.kind = "cancel" /\ Works(r.number)
        /\ events' = Append(events, e) /\ bid' = Tail(bid)
        /\ book' = [book EXCEPT ![r.number].lots = 0]
        /\ UNCHANGED <<status, number, remaining, quoter, hedger, mkt>>
    BY <1>5 DEF DoCancel, Answer, strategyVars, threadVars
  <2>3. r.side = s => WorksFor(s, r.number)
    BY <1>3, <2>2, WorksIsOwn
  <2> HIDE DEF e, r
  <2>4. /\ DOMAIN book' = DOMAIN book /\ \A k : WorksFor(s, k)' => WorksFor(s, k)
        /\ WorksFor(s, r.number) => Gone(s)'
    BY <2>2, EndOrder DEF Works
  <2> QED
    BY <1>3, <2>1, <2>2, <2>3, <2>4, OrderReportSide
<1>6. ASSUME RefuseAsk PROVE SideInv(s)'
  <2> DEFINE e == [kind |-> "refused", side |-> r.side, gone |-> ~Works(r.number)]
  <2>1. e.side = r.side /\ e.kind = "refused" /\ (e.gone <=> ~Works(r.number))
    OBVIOUS
  <2>2. /\ bid # <<>> /\ r.kind # "new" /\ events' = Append(events, e) /\ bid' = Tail(bid)
        /\ UNCHANGED <<status, number, remaining, quoter, hedger, mkt, book>>
    BY <1>6 DEF RefuseAsk, Answer, strategyVars, threadVars
  <2>3. r \in Range(bid)
    BY <2>2, TailOfQueue DEF LegInv, Typed
  <2>4. r.side = s /\ ~Works(r.number) => Gone(s) /\ ~Queued(s)
    BY <1>3, <2>2, <2>3 DEF SideInv, Named, Gone, WorksFor, Works, Unheard
  <2> HIDE DEF e, r
  <2>5. ~FirstLeg(e) /\ (Ends(e) => e.gone)
    BY <2>1 DEF FirstLeg, Ends
  <2>6. Hedging(s)' => Hedging(s)
    <3>1. Range(events') = Range(events) \cup {e}
      BY <2>2, AppendToQueue DEF LegInv, Typed
    <3> QED
      BY <2>1, <2>2, <3>1 DEF Hedging
  <2> QED
    BY <1>3, <2>1, <2>2, <2>4, <2>5, <2>6, OtherReportSide
<1> QED
  BY <1>1, <1>2, <1>4, <1>5, <1>6 DEF Answers

\* A market order leaves the market, or part of it, and this is told.
LEMMA MarketReportSide ==
    ASSUME LegInv, Shapes, NEW s \in Sides, SideInv(s), NEW m \in BagToSet(mkt),
           \A k \in BagToSet(mkt') : k \in BagToSet(mkt) \/ k.side = m.side,
           NEW e, e.side = m.side, e.kind \in {"trade", "stopped", "rejected"}, e.leg = m.leg,
           events' = Append(events, e),
           UNCHANGED <<status, number, remaining, quoter, hedger, bid, book>>
    PROVE  SideInv(s)'
<1>1. e.leg # 1
  BY DEF Shapes, MarketTyped, Hedges
<1>2. ~FirstLeg(e) /\ ~Ends(e)
  BY <1>1 DEF FirstLeg, Ends
<1>3. Range(events') = Range(events) \cup {e}
  BY AppendToQueue DEF LegInv, Typed
<1>4. Hedging(s)' => Hedging(s)
  BY <1>1, <1>3 DEF Hedging
<1>5. Range(bid') = Range(bid) /\ (Queued(s)' <=> Queued(s)) /\ OneQuote(s)'
  BY DEF Queued, SideInv, OneQuote, Range
<1> QED
  BY <1>2, <1>4, <1>5, OtherReportSide

LEMMA TradingSide ==
    ASSUME LegInv, Shapes, NEW s \in Sides, SideInv(s), Trading
    PROVE  SideInv(s)'
<1>1. ASSUME bid' = bid
      PROVE  Range(bid') \subseteq Range(bid) /\ (Queued(s)' <=> Queued(s)) /\ OneQuote(s)'
  BY <1>1 DEF Queued, SideInv, OneQuote, Range
<1>2. ASSUME NEW n \in DOMAIN book, StopQuote(n) PROVE SideInv(s)'
  <2> DEFINE e == [kind |-> "cancelled", side |-> book[n].side]
  <2>1. e.side = book[n].side /\ e.kind = "cancelled"
    OBVIOUS
  <2>2. /\ Works(n) /\ events' = Append(events, e) /\ book' = [book EXCEPT ![n].lots = 0]
        /\ UNCHANGED <<status, number, remaining, quoter, hedger, bid, mkt>>
    BY <1>2 DEF StopQuote, Answer, strategyVars, threadVars
  <2> HIDE DEF e
  <2>3. /\ DOMAIN book' = DOMAIN book /\ \A k : WorksFor(s, k)' => WorksFor(s, k)
        /\ WorksFor(s, n) => Gone(s)'
    BY <2>2, EndOrder
  <2>4. e.side = s => WorksFor(s, n)
    BY <2>1, <2>2 DEF Works, WorksFor
  <2> QED
    BY <1>1, <2>1, <2>2, <2>3, <2>4, OrderReportSide
<1>3. ASSUME NEW n \in DOMAIN book, NEW k, Fill(n, k) PROVE SideInv(s)'
  <2> DEFINE left == book[n].lots - k
             e == [kind |-> "trade", side |-> book[n].side, leg |-> 1, lots |-> k, left |-> left]
  <2>1. e.side = book[n].side /\ e.kind = "trade" /\ e.leg = 1 /\ e.left = left
    OBVIOUS
  <2>2. /\ Works(n) /\ events' = Append(events, e) /\ book' = [book EXCEPT ![n].lots = left]
        /\ UNCHANGED <<status, number, remaining, quoter, hedger, bid, mkt>>
    BY <1>3 DEF Fill, Report, Answer, strategyVars, threadVars
  <2> HIDE DEF e, left
  <2>3. /\ DOMAIN book' = DOMAIN book /\ \A j \in DOMAIN book \ {n} : book'[j] = book[j]
        /\ book'[n].lots = left /\ book'[n].side = book[n].side
    BY <2>2 DEF Shapes, BookTyped
  <2>4. \A j : WorksFor(s, j)' => WorksFor(s, j)
    BY <2>2, <2>3 DEF WorksFor, Works
  <2>5. e.side = s => WorksFor(s, n)
    BY <2>1, <2>2 DEF Works, WorksFor
  <2>6. e.side = s /\ Ends(e) => Gone(s)'
    <3>1. Ends(e) => left = 0
      BY <2>1 DEF Ends
    <3>2. left = 0 => ~WorksFor(s, n)'
      BY <2>3 DEF WorksFor
    <3> QED
      BY <2>3, <2>4, <2>5, <3>1, <3>2 DEF SideInv, OneOrder, Gone, WorksFor
  <2> QED
    BY <1>1, <2>1, <2>2, <2>3, <2>4, <2>5, <2>6, OrderReportSide
<1>4. ASSUME NEW m \in BagToSet(mkt) PROVE BagToSet(Without(m)) \subseteq BagToSet(mkt)
  BY BagMinusOne DEF Without
<1>5. ASSUME NEW m \in BagToSet(mkt), StopMarket(m) PROVE SideInv(s)'
  <2> DEFINE e == [kind |-> "stopped", side |-> m.side, leg |-> m.leg, lots |-> m.volume]
  <2>1. e.side = m.side /\ e.leg = m.leg /\ e.kind = "stopped"
    OBVIOUS
  <2>2. /\ events' = Append(events, e) /\ mkt' = Without(m)
        /\ UNCHANGED <<status, number, remaining, quoter, hedger, bid, book>>
    BY <1>5 DEF StopMarket, Answer, strategyVars, threadVars
  <2> HIDE DEF e
  <2>3. \A k \in BagToSet(mkt') : k \in BagToSet(mkt)
    BY <1>4, <2>2
  <2> QED
    BY <2>1, <2>2, <2>3, MarketReportSide
<1>6. ASSUME NEW m \in BagToSet(mkt), RefuseMarket(m) PROVE SideInv(s)'
  <2> DEFINE e == [kind |-> "rejected", side |-> m.side, leg |-> m.leg]
  <2>1. e.side = m.side /\ e.leg = m.leg /\ e.kind = "rejected"
    OBVIOUS
  <2>2. /\ events' = Append(events, e) /\ mkt' = Without(m)
        /\ UNCHANGED <<status, number, remaining, quoter, hedger, bid, book>>
    BY <1>6 DEF RefuseMarket, Answer, strategyVars, threadVars
  <2> HIDE DEF e
  <2>3. \A k \in BagToSet(mkt') : k \in BagToSet(mkt)
    BY <1>4, <2>2
  <2> QED
    BY <2>1, <2>2, <2>3, MarketReportSide
<1>7. ASSUME NEW m \in BagToSet(mkt), NEW k, FillMarket(m, k) PROVE SideInv(s)'
  <2> DEFINE e == [kind |-> "trade", side |-> m.side, leg |-> m.leg, lots |-> k, left |-> m.lots - k]
             rest == [m EXCEPT !.lots = @ - k]
  <2>1. e.side = m.side /\ e.leg = m.leg /\ e.kind = "trade"
    OBVIOUS
  <2>2. /\ events' = Append(events, e) /\ mkt' \in {Without(m), Without(m) (+) SetToBag({rest})}
        /\ UNCHANGED <<status, number, remaining, quoter, hedger, bid, book>>
    BY <1>7 DEF FillMarket, Report, Answer, strategyVars, threadVars
  <2>3. rest.side = m.side
    BY DEF Shapes, MarketTyped
  <2> HIDE DEF e, rest
  <2>4. \A j \in BagToSet(mkt') : j \in BagToSet(mkt) \/ j.side = m.side
    <3>1. BagToSet(Without(m) (+) SetToBag({rest})) = BagToSet(Without(m)) \cup {rest}
      BY BagPlusOne
    <3>2. CASE mkt' = Without(m)
      BY <1>4, <3>2
    <3>3. CASE mkt' = Without(m) (+) SetToBag({rest})
      BY <1>4, <2>3, <3>1, <3>3
    <3> QED
      BY <2>2, <3>2, <3>3
  <2> QED
    BY <2>1, <2>2, <2>4, MarketReportSide
<1> QED
  BY <1>2, <1>3, <1>5, <1>6, <1>7 DEF Trading

-----------------------------------------------------------------------------
(* The shapes.                                                              *)

\* Orders are never taken out of the book, and numbers are passed on as they are.
LEMMA NumbersStayOwn ==
    ASSUME LegInv, NumbersOwn,
           \A n \in DOMAIN book : n \in DOMAIN book' /\ book'[n].side = book[n].side,
           \A r \in Range(bid') : r \in Range(bid) \/ r.kind = "new" \/ Own(r.side, r.number),
           \A e \in Range(events') :
             e \in Range(events) \/ e.kind \notin {"confirmed", "modified"} \/ Own(e.side, e.number)',
           \/ number' = number
           \/ \E e \in Range(events) : e.kind \in {"confirmed", "modified"}
                                       /\ number' = [number EXCEPT ![e.side] = e.number]
    PROVE  NumbersOwn'
<1>1. \A t, n : Own(t, n) => Own(t, n)'
  BY DEF Own
<1>2. ASSUME NEW s \in Sides PROVE Own(s, number[s])'
  <2>1. CASE number' = number
    BY <1>1, <2>1 DEF NumbersOwn, Own
  <2>2. ASSUME NEW e \in Range(events), e.kind \in {"confirmed", "modified"},
               number' = [number EXCEPT ![e.side] = e.number]
        PROVE  Own(s, number[s])'
    <3>1. number'[s] = IF s = e.side THEN e.number ELSE number[s]
      BY <2>2 DEF LegInv, Typed
    <3>2. Own(e.side, e.number) /\ Own(s, number[s])
      BY <2>2 DEF NumbersOwn
    <3> QED
      BY <1>1, <3>1, <3>2 DEF Own
  <2> QED
    BY <2>1, <2>2
<1>3. \A r \in Range(bid') : r.kind # "new" => Own(r.side, r.number)'
  BY <1>1 DEF NumbersOwn
<1>4. \A e \in Range(events') : e.kind \in {"confirmed", "modified"} => Own(e.side, e.number)'
  BY <1>1 DEF NumbersOwn
<1> QED
  BY <1>2, <1>3, <1>4 DEF NumbersOwn, Own

\* A step of one of the threads: the book stays.
LEMMA ThreadShapes ==
    ASSUME LegInv, Shapes, UNCHANGED book, DOMAIN remaining' = Sides, DOMAIN upset' = Sides,
           HedgerTyped', QuoterMarks', MarketTyped',
           Range(events') \subseteq Range(events),
           \A r \in Range(bid') : r \in Range(bid) \/ r.kind = "new" \/ Own(r.side, r.number),
           \/ number' = number
           \/ \E e \in Range(events) : e.kind \in {"confirmed", "modified"}
                                       /\ number' = [number EXCEPT ![e.side] = e.number]
    PROVE  Shapes'
<1>1. NumbersOwn'
  BY NumbersStayOwn DEF Shapes
<1>2. LegsTold' /\ BookTyped'
  BY DEF Shapes, LegsTold, BookTyped
<1> QED
  BY <1>1, <1>2 DEF Shapes

\* A step of the exchange: the threads stay.
LEMMA ExchangeShapes ==
    ASSUME LegInv, Shapes, UNCHANGED <<number, remaining, quoter, hedger>>, DOMAIN upset' = Sides,
           \A m \in BagToSet(mkt') :
             m \in BagToSet(mkt) \/ (DOMAIN m = {"side", "leg", "lots", "volume"} /\ m.leg \in Hedges),
           BookTyped', \A n \in DOMAIN book : n \in DOMAIN book' /\ book'[n].side = book[n].side,
           Range(bid') \subseteq Range(bid), NEW e, events' = Append(events, e),
           e.kind = "trade" => e.leg \in Legs, e.kind = "stopped" => e.leg \in Hedges,
           e.kind \in {"confirmed", "modified"} => Own(e.side, e.number)'
    PROVE  Shapes'
<1>1. Range(events') = Range(events) \cup {e}
  BY AppendToQueue DEF LegInv, Typed
<1>2. NumbersOwn'
  BY <1>1, NumbersStayOwn DEF Shapes
<1>3. HedgerTyped' /\ QuoterMarks' /\ MarketTyped' /\ LegsTold'
  BY <1>1 DEF Shapes, HedgerTyped, QuoterMarks, MarketTyped, LegsTold
<1> QED
  BY <1>2, <1>3 DEF Shapes

LEMMA InitShapes == Init => Shapes
<1> SUFFICES ASSUME Init PROVE Shapes
  OBVIOUS
<1>1. /\ hedger = Idle /\ quoter = Idle /\ Range(bid) = {} /\ Range(events) = {}
      /\ DOMAIN book = {} /\ DOMAIN remaining = Sides /\ DOMAIN upset = Sides
      /\ \A s \in Sides : number[s] = 0
  BY EmptyQueue DEF Init
<1>2. BagToSet(mkt) = {}
  BY DEF Init, EmptyBag, SetToBag, BagToSet
<1>3. BookTyped
  <2>1. Cardinality(DOMAIN book) = 0
    BY <1>1, FS_EmptySet
  <2> QED
    BY <1>1, <2>1 DEF BookTyped
<1> QED
  BY <1>1, <1>2, <1>3 DEF Shapes, HedgerTyped, QuoterMarks, MarketTyped, LegsTold, NumbersOwn, Own

LEMMA StutterShapes ==
    ASSUME LegInv, Shapes, DOMAIN upset' = Sides,
           UNCHANGED <<number, remaining, quoter, hedger, bid, mkt, events, book>>
    PROVE  Shapes'
  BY DEF Shapes, HedgerTyped, QuoterMarks, MarketTyped, LegsTold, BookTyped, NumbersOwn, Own, Range

LEMMA MarketDataShapes == LegInv /\ Shapes /\ MarketData => Shapes'
<1> SUFFICES ASSUME LegInv, Shapes, MarketData PROVE Shapes'
  OBVIOUS
<1>1. /\ UNCHANGED <<number, remaining, hedger, bid, mkt, events, book>>
      /\ quoter'.marked = FALSE
  BY DEF MarketData, LookNew, LookModify, LookCancel, Begin, strategyVars, exchangeVars
<1>2. DOMAIN upset' = Sides
  BY DEF MarketData, LookNew, LookModify, LookCancel, Shapes
<1>3. QuoterMarks' /\ HedgerTyped' /\ MarketTyped'
  BY <1>1 DEF QuoterMarks, Shapes, HedgerTyped, MarketTyped
<1> QED
  BY <1>1, <1>2, <1>3, ThreadShapes DEF Shapes

LEMMA QuoterShapes == LegInv /\ Shapes /\ Quoter => Shapes'
<1> SUFFICES ASSUME LegInv, Shapes, Quoter PROVE Shapes'
  OBVIOUS
<1>1. UNCHANGED <<number, remaining, hedger, mkt, events, book, upset>>
  BY DEF Quoter, MarkPending, Quote, Requote, Withdraw, strategyVars, exchangeVars, historyVars
<1>2. HedgerTyped' /\ MarketTyped'
  BY <1>1 DEF Shapes, HedgerTyped, MarketTyped
<1>3. CASE MarkPending
  <2>1. bid' = bid /\ quoter # Idle /\ quoter' = [quoter EXCEPT !.marked = TRUE]
    BY <1>3 DEF MarkPending, exchangeVars
  <2>2. quoter'.marked = TRUE
    BY <2>1 DEF LegInv, Typed, QuoterTyped
  <2>3. QuoterMarks'
    BY <2>2 DEF QuoterMarks
  <2> QED
    BY <1>1, <1>2, <2>1, <2>3, ThreadShapes DEF Shapes
<1>4. ASSUME NEW r, bid' \in {bid, Append(bid, r)}, quoter' = Idle,
             r.kind = "new" \/ Own(r.side, r.number)
      PROVE  Shapes'
  <2>1. Range(bid') \subseteq Range(bid) \cup {r}
    <3>1. CASE bid' = bid
      BY <3>1
    <3>2. CASE bid' = Append(bid, r)
      BY <3>2, AppendToQueue DEF LegInv, Typed
    <3> QED
      BY <1>4, <3>1, <3>2
  <2>2. QuoterMarks'
    BY <1>4 DEF QuoterMarks
  <2> QED
    BY <1>1, <1>2, <1>4, <2>1, <2>2, ThreadShapes DEF Shapes
<1>5. CASE Quote
  <2> DEFINE r == [kind |-> "new", side |-> quoter.side, lots |-> QuoteLots(quoter.side)]
  <2>1. r.kind = "new" /\ bid' = Append(bid, r) /\ quoter' = Idle
    BY <1>5 DEF Quote
  <2> HIDE DEF r
  <2> QED
    BY <1>4, <2>1
<1>6. ASSUME Marked("modify") \/ Marked("cancel")
      PROVE  Own(quoter.side, number[quoter.side])
  BY <1>6 DEF Marked, LegInv, Typed, QuoterTyped, Shapes, NumbersOwn
<1>7. CASE Requote
  <2> DEFINE r == [kind |-> "modify", side |-> quoter.side, number |-> number[quoter.side],
                    lots |-> volume[quoter.side]]
  <2>1. bid' = Append(bid, r) /\ quoter' = Idle
    BY <1>7 DEF Requote
  <2>2. Own(r.side, r.number)
    BY <1>6, <1>7 DEF Requote
  <2> HIDE DEF r
  <2> QED
    BY <1>4, <2>1, <2>2
<1>8. CASE Withdraw
  <2> DEFINE r == [kind |-> "cancel", side |-> quoter.side, number |-> number[quoter.side]]
  <2>1. bid' \in {bid, Append(bid, r)} /\ quoter' = Idle
    BY <1>8 DEF Withdraw
  <2>2. Own(r.side, r.number)
    BY <1>6, <1>8 DEF Withdraw
  <2> HIDE DEF r
  <2> QED
    BY <1>4, <2>1, <2>2
<1> QED
  BY <1>3, <1>5, <1>7, <1>8 DEF Quoter

LEMMA EventHandlerShapes == LegInv /\ Shapes /\ EventHandler => Shapes'
<1> SUFFICES ASSUME LegInv, Shapes, EventHandler PROVE Shapes'
  OBVIOUS
<1> DEFINE e == Head(events)
<1>1. ASSUME events # <<>> PROVE e \in Range(events) /\ Range(Tail(events)) \subseteq Range(events)
  BY <1>1, TailOfQueue DEF LegInv, Typed
\* A handler that sets a status.
<1>2. ASSUME events # <<>>, NEW st, Settle(e.side, st),
             \/ number' = number
             \/ e.kind \in {"confirmed", "modified"} /\ number' = [number EXCEPT ![e.side] = e.number]
      PROVE  Shapes'
  <2>1. UNCHANGED <<remaining, quoter, hedger, bid, mkt, book, upset>> /\ events' = Tail(events)
    BY <1>2 DEF Settle, threadVars, historyVars
  <2>2. HedgerTyped' /\ QuoterMarks' /\ MarketTyped'
    BY <2>1 DEF Shapes, HedgerTyped, QuoterMarks, MarketTyped
  <2>3. Range(bid') = Range(bid)
    BY <2>1
  <2>4. \/ number' = number
        \/ \E f \in Range(events) : f.kind \in {"confirmed", "modified"}
                                    /\ number' = [number EXCEPT ![f.side] = f.number]
    BY <1>1, <1>2
  <2> HIDE DEF e
  <2> QED
    BY <1>1, <1>2, <2>1, <2>2, <2>3, <2>4, ThreadShapes DEF Shapes
<1>3. CASE ORDER_CONFIRMATION_TR
  BY <1>2, <1>3 DEF ORDER_CONFIRMATION_TR, Handles, TakeOver
<1>4. CASE ORDER_MOD_CONFIRMATION_TR
  BY <1>2, <1>4 DEF ORDER_MOD_CONFIRMATION_TR, Handles, TakeOver
<1>5. CASE ORDER_CXL_CONFIRMATION_TR
  BY <1>2, <1>5 DEF ORDER_CXL_CONFIRMATION_TR, Handles
<1>6. CASE ORDER_ERROR_OUT
  BY <1>2, <1>6 DEF ORDER_ERROR_OUT, Handles
<1>7. CASE ORDER_REJ_OUT
  BY <1>2, <1>7 DEF ORDER_REJ_OUT, Handles
<1>8. CASE SelfTradeStopped
  <2> DEFINE m == Market(e.side, e.leg, e.lots, e.lots)
  <2>1. /\ events # <<>> /\ e.kind = "stopped" /\ events' = Tail(events)
        /\ mkt' = mkt (+) SetToBag({m})
        /\ UNCHANGED <<number, remaining, quoter, hedger, bid, book, upset>>
    BY <1>8 DEF SelfTradeStopped, Handles, strategyVars, threadVars, historyVars
  <2>2. BagToSet(mkt (+) SetToBag({m})) = BagToSet(mkt) \cup {m}
    BY BagPlusOne
  <2>3. DOMAIN m = {"side", "leg", "lots", "volume"} /\ m.leg = e.leg
    BY DEF Market
  <2>4. e.leg \in Hedges
    BY <1>1, <2>1 DEF Shapes, LegsTold
  <2> HIDE DEF m, e
  <2>5. MarketTyped'
    BY <2>1, <2>2, <2>3, <2>4 DEF Shapes, MarketTyped
  <2>6. HedgerTyped' /\ QuoterMarks' /\ Range(bid') = Range(bid)
    BY <2>1 DEF Shapes, HedgerTyped, QuoterMarks
  <2> QED
    BY <1>1, <2>1, <2>5, <2>6, ThreadShapes DEF Shapes
<1>9. CASE HedgeRefused
  <2>1. /\ events # <<>> /\ events' = Tail(events)
        /\ UNCHANGED <<number, remaining, quoter, hedger, bid, mkt, book, upset>>
    BY <1>9 DEF HedgeRefused, Handles, strategyVars, threadVars, historyVars
  <2> HIDE DEF e
  <2>2. HedgerTyped' /\ QuoterMarks' /\ MarketTyped' /\ Range(bid') = Range(bid)
    BY <2>1 DEF Shapes, HedgerTyped, QuoterMarks, MarketTyped
  <2> QED
    BY <1>1, <2>1, <2>2, ThreadShapes DEF Shapes
<1>10. CASE TradeLoad
  <2>1. /\ events # <<>> /\ e.kind = "trade" /\ events' = Tail(events)
        /\ hedger' = [act |-> "store", side |-> e.side, leg |-> e.leg, lots |-> e.lots,
                      left |-> e.left, reg |-> traded[e.side][e.leg]]
        /\ UNCHANGED <<number, remaining, quoter, bid, mkt, book, upset>>
    BY <1>10 DEF TradeLoad, Handles, strategyVars, historyVars
  <2>2. e.leg \in Legs
    BY <1>1, <2>1 DEF Shapes, LegsTold
  <2> HIDE DEF e
  <2>3. HedgerTyped'
    BY <2>1, <2>2 DEF HedgerTyped
  <2>4. QuoterMarks' /\ MarketTyped' /\ Range(bid') = Range(bid)
    BY <2>1 DEF Shapes, QuoterMarks, MarketTyped
  <2> QED
    BY <1>1, <2>1, <2>3, <2>4, ThreadShapes DEF Shapes
\* A step inside a trade, which handles no further event.
<1>11. ASSUME UNCHANGED <<number, quoter, bid, events, book>>, HedgerTyped', MarketTyped',
              DOMAIN remaining' = Sides, DOMAIN upset' = Sides
       PROVE  Shapes'
  <2>1. QuoterMarks' /\ Range(bid') = Range(bid) /\ Range(events') = Range(events)
    BY <1>11 DEF Shapes, QuoterMarks
  <2> HIDE DEF e
  <2> QED
    BY <1>11, <2>1, ThreadShapes
<1>12. CASE TradeStore
  <2>1. /\ hedger # Idle /\ hedger.act = "store" /\ hedger.leg = 1
        /\ hedger' = [hedger EXCEPT !.act = "size"]
        /\ UNCHANGED <<number, remaining, quoter, bid, mkt, events, book, upset>>
    BY <1>12 DEF TradeStore, Storing, exchangeVars, historyVars
  <2>2. HedgerTyped'
    BY <2>1 DEF Shapes, HedgerTyped
  <2> QED
    BY <1>11, <2>1, <2>2 DEF Shapes, MarketTyped
<1>13. CASE TradeSize
  <2>1. /\ remaining' = [remaining EXCEPT ![hedger.side] = LeftOf]
        /\ hedger' = [act |-> "hedge", side |-> hedger.side, leg |-> 1, lots |-> hedger.lots,
                      tradable |-> traded[hedger.side][1], next |-> 2]
        /\ UNCHANGED <<number, quoter, bid, mkt, events, book, upset>>
    BY <1>13 DEF TradeSize, exchangeVars, historyVars
  <2>2. HedgerTyped'
    BY <2>1, FirstHedge DEF HedgerTyped
  <2> QED
    BY <1>11, <2>1, <2>2 DEF Shapes, MarketTyped
<1>14. CASE TradeHedge
  <2> DEFINE m == Market(hedger.side, hedger.next, ToHit(hedger.side, hedger.next),
                         ToHit(hedger.side, hedger.next))
  <2>1. /\ hedger # Idle /\ hedger.act = "hedge"
        /\ mkt' \in {mkt, mkt (+) SetToBag({m})}
        /\ hedger' = IF hedger.next = Last THEN Idle ELSE [hedger EXCEPT !.next = hedger.next + 1]
        /\ DOMAIN upset' = DOMAIN upset
        /\ UNCHANGED <<number, remaining, quoter, bid, events, book>>
    BY <1>14 DEF TradeHedge, UpsetIf, strategyVars
  <2>2. /\ DOMAIN hedger = {"act", "side", "leg", "lots", "tradable", "next"}
        /\ hedger.leg = 1 /\ hedger.next \in Hedges
    BY <2>1 DEF Shapes, HedgerTyped
  <2>3. HedgerTyped'
    BY <2>1, <2>2, NextLeg DEF HedgerTyped
  <2>4. BagToSet(mkt (+) SetToBag({m})) = BagToSet(mkt) \cup {m}
    BY BagPlusOne
  <2>5. DOMAIN m = {"side", "leg", "lots", "volume"} /\ m.leg = hedger.next
    BY DEF Market
  <2> HIDE DEF m
  <2>6. MarketTyped'
    BY <2>1, <2>2, <2>4, <2>5 DEF Shapes, MarketTyped
  <2> QED
    BY <1>11, <2>1, <2>3, <2>6 DEF Shapes
<1>15. CASE HedgeStore
  <2>1. hedger' = Idle /\ UNCHANGED <<number, remaining, quoter, bid, mkt, events, book, upset>>
    BY <1>15 DEF HedgeStore, exchangeVars, historyVars
  <2>2. HedgerTyped'
    BY <2>1 DEF HedgerTyped
  <2> QED
    BY <1>11, <2>1, <2>2 DEF Shapes, MarketTyped
<1> QED
  BY <1>3, <1>4, <1>5, <1>6, <1>7, <1>8, <1>9, <1>10, <1>12, <1>13, <1>14, <1>15 DEF EventHandler

LEMMA ClientShapes == LegInv /\ Shapes /\ Client => Shapes'
<1>1. ASSUME Client, Shapes
      PROVE  /\ UNCHANGED <<number, remaining, quoter, hedger, bid, mkt, events, book>>
             /\ DOMAIN upset' = Sides
  BY <1>1 DEF Client, Difference, DiffTest, DiffStore, UpsetIf, strategyVars, exchangeVars, historyVars,
              Shapes
<1> QED
  BY <1>1, StutterShapes

LEMMA AnswersShapes == LegInv /\ Shapes /\ Answers => Shapes'
<1> SUFFICES ASSUME LegInv, Shapes, Answers PROVE Shapes'
  OBVIOUS
<1> DEFINE r == Head(bid)
<1>1. /\ bid # <<>> /\ bid' = Tail(bid)
      /\ UNCHANGED <<number, remaining, quoter, hedger, mkt, upset>>
  BY DEF Answers, AcceptNew, RefuseNew, DoModify, DoCancel, RefuseAsk, strategyVars, threadVars, historyVars
<1>2. Range(bid') \subseteq Range(bid) /\ (r.kind # "new" => Own(r.side, r.number))
  BY <1>1, TailOfQueue DEF LegInv, Typed, Shapes, NumbersOwn
\* The book is as it was, but for the lots.
<1>3. ASSUME NEW e, events' = Append(events, e), e.kind \notin {"trade", "stopped"},
             e.kind \in {"confirmed", "modified"} => Own(e.side, e.number)',
             BookTyped', \A n \in DOMAIN book : n \in DOMAIN book' /\ book'[n].side = book[n].side
      PROVE  Shapes'
  <2> HIDE DEF r
  <2> QED
    BY <1>1, <1>2, <1>3, ExchangeShapes DEF Shapes, MarketTyped
<1>4. CASE AcceptNew
  <2> DEFINE n == 1 + Cardinality(DOMAIN book)
             e == [kind |-> "confirmed", side |-> r.side, number |-> n, lots |-> r.lots]
  <2>1. /\ events' = Append(events, e)
        /\ book' = [k \in DOMAIN book \cup {n} |->
                      IF k = n THEN [side |-> r.side, lots |-> r.lots, given |-> 0] ELSE book[k]]
    BY <1>4 DEF AcceptNew, Answer
  <2>2. Cardinality(DOMAIN book) \in Nat /\ n = 1 + Cardinality(DOMAIN book)
        /\ DOMAIN book = 1..Cardinality(DOMAIN book)
    BY BookCounted
  <2>3. e.kind = "confirmed" /\ e.side = r.side /\ e.number = n
    OBVIOUS
  <2> HIDE DEF n, e, r
  <2>4. n \notin DOMAIN book /\ DOMAIN book' = 1..n
    BY <2>1, <2>2
  <2>5. n \in Nat
    BY <2>2
  <2>6. Cardinality(DOMAIN book') = n
    BY <2>4, <2>5, FS_Interval
  <2>7. \A k \in DOMAIN book : k \in DOMAIN book' /\ book'[k] = book[k]
    BY <2>1, <2>4
  <2>8. n \in DOMAIN book' /\ book'[n].side = r.side /\ DOMAIN book'[n] = {"side", "lots", "given"}
    BY <2>1
  <2>9. BookTyped'
    BY <2>1, <2>4, <2>6, <2>7, <2>8 DEF Shapes, BookTyped
  <2> QED
    BY <1>3, <2>1, <2>3, <2>7, <2>8, <2>9 DEF Own
<1>5. ASSUME UNCHANGED book
      PROVE  BookTyped' /\ \A n \in DOMAIN book : n \in DOMAIN book' /\ book'[n].side = book[n].side
  BY <1>5 DEF Shapes, BookTyped
<1>6. CASE RefuseNew
  <2> DEFINE e == [kind |-> "error", side |-> r.side]
  <2>1. events' = Append(events, e) /\ UNCHANGED book /\ e.kind = "error"
    BY <1>6 DEF RefuseNew, Answer
  <2> HIDE DEF e, r
  <2> QED
    BY <1>3, <1>5, <2>1
<1>7. CASE DoModify
  <2> DEFINE e == [kind |-> "modified", side |-> r.side, number |-> r.number, lots |-> r.lots]
  <2>1. /\ events' = Append(events, e) /\ r.kind # "new"
        /\ e.kind = "modified" /\ e.side = r.side /\ e.number = r.number
    BY <1>7 DEF DoModify, Answer
  <2>2. /\ r.number \in DOMAIN book /\ DOMAIN book' = DOMAIN book
        /\ \A k \in DOMAIN book : k # r.number => book'[k] = book[k]
        /\ book'[r.number].side = book[r.number].side
        /\ DOMAIN book'[r.number] = {"side", "lots", "given"}
    BY <1>7, ModifiedBook DEF Shapes
  <2> HIDE DEF e, r
  <2>3. BookTyped' /\ \A n \in DOMAIN book : n \in DOMAIN book' /\ book'[n].side = book[n].side
    BY <2>2 DEF Shapes, BookTyped
  <2>4. e.number = 0 \/ (e.number \in DOMAIN book' /\ book'[e.number].side = e.side)
    BY <1>2, <2>1, <2>3 DEF Own
  <2> QED
    BY <1>3, <2>1, <2>3, <2>4 DEF Own
<1>8. CASE DoCancel
  <2> DEFINE e == [kind |-> "cancelled", side |-> r.side]
  <2>1. /\ events' = Append(events, e) /\ e.kind = "cancelled"
        /\ book' = [book EXCEPT ![r.number].lots = 0]
    BY <1>8 DEF DoCancel, Answer
  <2> HIDE DEF e, r
  <2>2. BookTyped' /\ \A n \in DOMAIN book : n \in DOMAIN book' /\ book'[n].side = book[n].side
    BY <2>1 DEF Shapes, BookTyped
  <2> QED
    BY <1>3, <2>1, <2>2
<1>9. CASE RefuseAsk
  <2> DEFINE e == [kind |-> "refused", side |-> r.side, gone |-> ~Works(r.number)]
  <2>1. events' = Append(events, e) /\ UNCHANGED book /\ e.kind = "refused"
    BY <1>9 DEF RefuseAsk, Answer
  <2> HIDE DEF e, r
  <2> QED
    BY <1>3, <1>5, <2>1
<1> QED
  BY <1>4, <1>6, <1>7, <1>8, <1>9 DEF Answers

LEMMA TradingShapes == LegInv /\ Shapes /\ Trading => Shapes'
<1> SUFFICES ASSUME LegInv, Shapes, Trading PROVE Shapes'
  OBVIOUS
\* Of an order of the first leg.
<1>1. ASSUME NEW n \in DOMAIN book, NEW left, book' = [book EXCEPT ![n].lots = left],
             UNCHANGED <<number, remaining, quoter, hedger, bid, mkt, upset>>,
             NEW e, events' = Append(events, e), e.kind \in {"cancelled", "trade"},
             e.kind = "trade" => e.leg \in Legs
      PROVE  Shapes'
  <2>1. BookTyped' /\ \A k \in DOMAIN book : k \in DOMAIN book' /\ book'[k].side = book[k].side
    BY <1>1 DEF Shapes, BookTyped
  <2>2. Range(bid') \subseteq Range(bid)
    BY <1>1
  <2> QED
    BY <1>1, <2>1, <2>2, ExchangeShapes DEF Shapes, MarketTyped
<1>2. ASSUME NEW n \in DOMAIN book, StopQuote(n) PROVE Shapes'
  <2> DEFINE e == [kind |-> "cancelled", side |-> book[n].side]
  <2>1. /\ events' = Append(events, e) /\ book' = [book EXCEPT ![n].lots = 0] /\ e.kind = "cancelled"
        /\ UNCHANGED <<number, remaining, quoter, hedger, bid, mkt, upset>>
    BY <1>2 DEF StopQuote, Answer, strategyVars, threadVars
  <2> HIDE DEF e
  <2> QED
    BY <1>1, <2>1
<1>3. 1 \in Legs
  BY DEF StrategyAssumption, Legs
<1>4. ASSUME NEW n \in DOMAIN book, NEW k, Fill(n, k) PROVE Shapes'
  <2> DEFINE left == book[n].lots - k
             e == [kind |-> "trade", side |-> book[n].side, leg |-> 1, lots |-> k, left |-> left]
  <2>1. /\ events' = Append(events, e) /\ book' = [book EXCEPT ![n].lots = left]
        /\ e.kind = "trade" /\ e.leg = 1
        /\ UNCHANGED <<number, remaining, quoter, hedger, bid, mkt, upset>>
    BY <1>4 DEF Fill, Report, Answer, strategyVars, threadVars
  <2> HIDE DEF e, left
  <2> QED
    BY <1>1, <1>3, <2>1
\* Of a market order.
<1>5. ASSUME NEW m \in BagToSet(mkt), DOMAIN upset' = Sides,
             UNCHANGED <<number, remaining, quoter, hedger, bid, book>>,
             \A k \in BagToSet(mkt') :
               k \in BagToSet(mkt) \/ (DOMAIN k = {"side", "leg", "lots", "volume"} /\ k.leg = m.leg),
             NEW e, events' = Append(events, e), e.kind \in {"trade", "stopped", "rejected"},
             e.leg = m.leg
      PROVE  Shapes'
  <2>1. m.leg \in Hedges /\ m.leg \in Legs
    BY DEF Shapes, MarketTyped, Hedges, Legs
  <2>2. BookTyped' /\ \A n \in DOMAIN book : n \in DOMAIN book' /\ book'[n].side = book[n].side
    BY <1>5 DEF Shapes, BookTyped
  <2>3. Range(bid') \subseteq Range(bid)
    BY <1>5
  <2> QED
    BY <1>5, <2>1, <2>2, <2>3, ExchangeShapes
<1>6. ASSUME NEW m \in BagToSet(mkt) PROVE BagToSet(Without(m)) \subseteq BagToSet(mkt)
  BY BagMinusOne DEF Without
<1>7. ASSUME NEW m \in BagToSet(mkt), StopMarket(m) PROVE Shapes'
  <2> DEFINE e == [kind |-> "stopped", side |-> m.side, leg |-> m.leg, lots |-> m.volume]
  <2>1. /\ events' = Append(events, e) /\ mkt' = Without(m) /\ DOMAIN upset' = Sides
        /\ e.kind = "stopped" /\ e.leg = m.leg
        /\ UNCHANGED <<number, remaining, quoter, hedger, bid, book>>
    BY <1>7 DEF StopMarket, Answer, UpsetIf, strategyVars, threadVars, Shapes
  <2> HIDE DEF e
  <2>2. \A k \in BagToSet(mkt') : k \in BagToSet(mkt)
    BY <1>6, <2>1
  <2> QED
    BY <1>5, <2>1, <2>2
<1>8. ASSUME NEW m \in BagToSet(mkt), RefuseMarket(m) PROVE Shapes'
  <2> DEFINE e == [kind |-> "rejected", side |-> m.side, leg |-> m.leg]
  <2>1. /\ events' = Append(events, e) /\ mkt' = Without(m) /\ DOMAIN upset' = Sides
        /\ e.kind = "rejected" /\ e.leg = m.leg
        /\ UNCHANGED <<number, remaining, quoter, hedger, bid, book>>
    BY <1>8 DEF RefuseMarket, Answer, strategyVars, threadVars, Shapes
  <2> HIDE DEF e
  <2>2. \A k \in BagToSet(mkt') : k \in BagToSet(mkt)
    BY <1>6, <2>1
  <2> QED
    BY <1>5, <2>1, <2>2
<1>9. ASSUME NEW m \in BagToSet(mkt), NEW k, FillMarket(m, k) PROVE Shapes'
  <2> DEFINE e == [kind |-> "trade", side |-> m.side, leg |-> m.leg, lots |-> k, left |-> m.lots - k]
             rest == [m EXCEPT !.lots = @ - k]
  <2>1. /\ events' = Append(events, e) /\ mkt' \in {Without(m), Without(m) (+) SetToBag({rest})}
        /\ DOMAIN upset' = Sides /\ e.kind = "trade" /\ e.leg = m.leg
        /\ UNCHANGED <<number, remaining, quoter, hedger, bid, book>>
    BY <1>9 DEF FillMarket, Report, Answer, strategyVars, threadVars, Shapes
  <2>2. DOMAIN rest = {"side", "leg", "lots", "volume"} /\ rest.leg = m.leg
    BY DEF Shapes, MarketTyped
  <2> HIDE DEF e, rest
  <2>3. \A j \in BagToSet(mkt') :
          j \in BagToSet(mkt) \/ (DOMAIN j = {"side", "leg", "lots", "volume"} /\ j.leg = m.leg)
    <3>1. BagToSet(Without(m) (+) SetToBag({rest})) = BagToSet(Without(m)) \cup {rest}
      BY BagPlusOne
    <3>2. CASE mkt' = Without(m)
      BY <1>6, <3>2
    <3>3. CASE mkt' = Without(m) (+) SetToBag({rest})
      BY <1>6, <2>2, <3>1, <3>3
    <3> QED
      BY <2>1, <3>2, <3>3
  <2> QED
    BY <1>5, <2>1, <2>3
<1> QED
  BY <1>2, <1>4, <1>7, <1>8, <1>9 DEF Trading

-----------------------------------------------------------------------------
(* One order at a time: the theorem.                                        *)

LEMMA InitSides == Init => OneOrderInv
<1> SUFFICES ASSUME Init PROVE OneOrderInv
  OBVIOUS
<1>1. /\ bid = <<>> /\ events = <<>> /\ Range(bid) = {} /\ Range(events) = {} /\ DOMAIN book = {}
      /\ hedger = Idle /\ quoter = Idle
  BY EmptyQueue DEF Init
<1>2. DOMAIN bid = {} /\ DOMAIN events = {}
  BY <1>1
<1>3. BagToSet(mkt) = {}
  BY DEF Init, EmptyBag, SetToBag, BagToSet
<1>4. ASSUME NEW s \in Sides PROVE SideInv(s)
  <2>1. InOrder(s) /\ OneQuote(s) /\ OneOrder(s) /\ Named(s)
    BY <1>1, <1>2 DEF InOrder, OneQuote, OneOrder, Named
  <2>2. Over(s) /\ ~InTrade(s) /\ ~Deciding(s) /\ ~Unheard(s) /\ Gone(s) /\ Silent(s) /\ ~LastLot(s)
    BY <1>1, <1>3 DEF Over, Gone, Queued, Silent, InTrade, Deciding, QuoterOn, Unheard, LastLot, Hedging
  <2>3. EndsOnce(s)
    BY <1>1 DEF EndsOnce
  <2> QED
    BY <2>1, <2>2, <2>3 DEF SideInv, FreeIsOver, DecidesWhenOver, UnheardWaits, QueuedIsNext, LastLotIsOver
<1> QED
  BY <1>4, InitShapes DEF OneOrderInv

\* A side that was hasty stays so, and whatever else has crossed on it.
LEMMA UpsetStays ==
    ASSUME Shapes, [Next]_vars, NEW s \in Sides, NEW tag \in upset[s]
    PROVE  tag \in upset'[s]
<1>1. CASE UNCHANGED vars
  BY <1>1 DEF vars, historyVars
<1>2. CASE MarketData
  BY <1>2 DEF MarketData, LookNew, LookModify, LookCancel, Shapes
<1>3. CASE Quoter
  BY <1>3 DEF Quoter, MarkPending, Quote, Requote, Withdraw, historyVars
<1>4. CASE EventHandler
  <2>1. CASE TradeHedge
    BY <2>1 DEF TradeHedge, UpsetIf, Shapes
  <2>2. CASE ~TradeHedge
    BY <1>4, <2>2 DEF EventHandler, ORDER_CONFIRMATION_TR, ORDER_MOD_CONFIRMATION_TR,
       ORDER_CXL_CONFIRMATION_TR, ORDER_ERROR_OUT, ORDER_REJ_OUT, SelfTradeStopped, HedgeRefused,
       TradeLoad, TradeStore, TradeSize, HedgeStore, Settle, historyVars
  <2> QED
    BY <2>1, <2>2
<1>5. CASE Client
  <2>1. CASE \E req \in Requests : Difference(req)
    BY <2>1 DEF Difference
  <2>2. CASE DiffTest
    BY <2>2 DEF DiffTest, historyVars
  <2>3. CASE DiffStore
    BY <2>3 DEF DiffStore, UpsetIf, Shapes
  <2> QED
    BY <1>5, <2>1, <2>2, <2>3 DEF Client
<1>6. CASE Answers
  BY <1>6 DEF Answers, AcceptNew, RefuseNew, DoModify, DoCancel, RefuseAsk, historyVars
<1>7. CASE Trading
  BY <1>7 DEF Trading, StopQuote, Fill, StopMarket, RefuseMarket, FillMarket, UpsetIf, Shapes
<1> QED
  BY <1>1, <1>2, <1>3, <1>4, <1>5, <1>6, <1>7 DEF Next

\* Whatever crosses, what is said of an order of the first leg is said in order and of the
\* one order of its side, and the status keeps the data thread from a second one.
THEOREM OneOrderInvariant == Spec => []OneOrderInv
<1>1. LegInv /\ OneOrderInv /\ [Next]_vars => OneOrderInv'
  <2> SUFFICES ASSUME LegInv, Shapes, \A s \in Sides : "hasty" \notin upset[s] => SideInv(s), [Next]_vars
               PROVE  OneOrderInv'
    BY DEF OneOrderInv
  <2>1. CASE UNCHANGED vars
    <3>1. UNCHANGED <<status, number, remaining, quoter, hedger, bid, mkt, events, book, upset>>
      BY <2>1 DEF vars, strategyVars, threadVars, exchangeVars, historyVars
    <3> QED
      BY <3>1, StutterShapes, StutterSide DEF OneOrderInv, Shapes
  <2>2. CASE Next
    <3>1. Shapes'
      BY <2>2, MarketDataShapes, QuoterShapes, EventHandlerShapes, ClientShapes, AnswersShapes,
         TradingShapes DEF Next
    <3>2. ASSUME NEW s \in Sides, "hasty" \notin upset'[s] PROVE SideInv(s)'
      <4>1. SideInv(s)
        BY <3>2, UpsetStays
      <4> QED
        BY <2>2, <3>2, <4>1, MarketDataSide, QuoterSide, EventHandlerSide, ClientSide, AnswersSide,
           TradingSide DEF Next
    <3> QED
      BY <3>1, <3>2 DEF OneOrderInv
  <2> QED
    BY <2>1, <2>2
<1> QED
  BY <1>1, InitSides, LegInvariant, PTL DEF Spec

\* Two orders of a side, or one and a quote, never coexist (the guards of OnDataEventHandler
\* and the statuses the handlers of Eventsubscriber set).
THEOREM OneOrderAtATime == Spec => []OneWorkingOrder
<1>1. ASSUME LegInv, OneOrderInv PROVE OneWorkingOrder
  <2> SUFFICES ASSUME NEW s \in Sides, "hasty" \notin upset[s] PROVE Orders(s) <= 1
    BY DEF OneWorkingOrder
  <2> DEFINE W == {n \in DOMAIN book : book[n].side = s /\ book[n].lots > 0}
             Q == QuotesInQueue(s)
  <2>1. SideInv(s)
    BY <1>1 DEF OneOrderInv
  <2>2. W = {} \/ \E n \in W : W = {n}
    BY <2>1 DEF SideInv, OneOrder, WorksFor
  <2>3. Q = {} \/ \E i \in Q : Q = {i}
    BY <2>1 DEF SideInv, OneQuote, QuotesInQueue
  <2>4. Q # {} => W = {}
    BY <2>1 DEF SideInv, QueuedIsNext, Queued, Gone, WorksFor, QuotesInQueue, Range
  <2>5. Cardinality({}) = 0 /\ \A x : Cardinality({x}) = 1
    BY FS_EmptySet, FS_Singleton
  <2>6. Orders(s) = Cardinality(W) + Cardinality(Q)
    BY DEF Orders
  <2> HIDE DEF W, Q
  <2>7. Cardinality(W) \in {0, 1} /\ Cardinality(Q) \in {0, 1}
    BY <2>2, <2>3, <2>5, Zenon
  <2>8. Cardinality(W) = 0 \/ Cardinality(Q) = 0
    BY <2>4, <2>5, Zenon
  <2> QED
    BY <2>6, <2>7, <2>8
<1> QED
  BY <1>1, LegInvariant, OneOrderInvariant, PTL
=============================================================================
