--------------------- MODULE OrderGatewayOwnership_proofs ---------------------
(***************************************************************************)
(* Who is in charge of a working order: EveryLiveOrderIsManaged and        *)
(* RoutedByKey are invariants of the gateway, by way of OwnershipInv, and  *)
(* OneOrderPerHolder, by way of PlaceInv.  Then what the two threads own   *)
(* of the invitations, CreditConserved and OverdraftBounded; that the      *)
(* gateway implements OrderChannel; and OrphanOnlyBeforePush, by way of a  *)
(* count of the holders and of the packets that will ask for one.          *)
(***************************************************************************)
EXTENDS OrderGateway_proofs, FiniteSetTheorems

USE GatewayAssumption

\* What Append, Head, Tail and \o do to the elements of a sequence.
LEMMA RangeFacts ==
    ASSUME NEW S, NEW s \in Seq(S)
    PROVE  /\ \A e \in S : Range(Append(s, e)) = Range(s) \cup {e}
           /\ s # <<>> => Range(s) = {Head(s)} \cup Range(Tail(s))
           /\ \A a, b \in S : Range(s \o <<a, b>>) = Range(s) \cup {a, b}
<1>1. ASSUME NEW e \in S PROVE Range(Append(s, e)) = Range(s) \cup {e}
  <2>1. Append(s, e) \in Seq(S) /\ Len(Append(s, e)) = Len(s) + 1
    OBVIOUS
  <2>2. /\ \A i \in 1..Len(s) : Append(s, e)[i] = s[i]
        /\ Append(s, e)[Len(s) + 1] = e
    OBVIOUS
  <2> QED
    BY <2>1, <2>2 DEF Range
<1>2. ASSUME s # <<>> PROVE Range(s) = {Head(s)} \cup Range(Tail(s))
  <2>1. /\ Tail(s) \in Seq(S) /\ Len(Tail(s)) = Len(s) - 1 /\ Len(s) \in Nat \ {0}
        /\ Head(s) = s[1]
    BY <1>2
  <2>2. \A i \in 1..Len(s) - 1 : Tail(s)[i] = s[i + 1]
    BY <1>2
  <2>3. ASSUME NEW i \in 1..Len(s), i # 1 PROVE i - 1 \in 1..Len(s) - 1 /\ s[i] = Tail(s)[i - 1]
    BY <2>1, <2>2, <2>3
  <2>4. Range(s) \subseteq {Head(s)} \cup Range(Tail(s))
    <3> SUFFICES ASSUME NEW i \in 1..Len(s) PROVE s[i] \in {Head(s)} \cup Range(Tail(s))
      BY DEF Range
    <3>1. CASE i = 1
      BY <2>1, <3>1
    <3>2. CASE i # 1
      <4>1. i - 1 \in DOMAIN Tail(s) /\ s[i] = Tail(s)[i - 1]
        BY <2>1, <2>3, <3>2
      <4> QED
        BY <4>1 DEF Range
    <3> QED
      BY <3>1, <3>2
  <2>5. Head(s) \in Range(s)
    BY <2>1 DEF Range
  <2>6. Range(Tail(s)) \subseteq Range(s)
    <3> SUFFICES ASSUME NEW i \in 1..Len(s) - 1 PROVE Tail(s)[i] \in Range(s)
      BY <2>1 DEF Range
    <3> QED
      BY <2>1, <2>2 DEF Range
  <2> QED
    BY <2>4, <2>5, <2>6
<1>3. ASSUME NEW a \in S, NEW b \in S PROVE Range(s \o <<a, b>>) = Range(s) \cup {a, b}
  <2>1. s \o <<a, b>> \in Seq(S) /\ Len(s \o <<a, b>>) = Len(s) + 2
    OBVIOUS
  <2>2. /\ \A i \in 1..Len(s) : (s \o <<a, b>>)[i] = s[i]
        /\ (s \o <<a, b>>)[Len(s) + 1] = a
        /\ (s \o <<a, b>>)[Len(s) + 2] = b
    OBVIOUS
  <2> QED
    BY <2>1, <2>2, SMTT(60) DEF Range
<1> QED
  BY <1>1, <1>2, <1>3

-----------------------------------------------------------------------------
(* Steps of the sender and of the strategies: queues and hands move.        *)

\* A step that leaves the exchange's book, its packets and the records alone, puts
\* no new modify or cancel in flight and stops no cancel keeps OwnershipInv.
LEMMA OwnershipFrame ==
    ASSUME OwnershipInv, UNCHANGED <<book, toGw, OutPF>>,
           \A r \in InFlight' : IsOm(r) => r \in InFlight \/ Settled(r.order),
           \A n \in OrderNumbers : CancelUnderWay(n) => CancelUnderWay(n)'
    PROVE  OwnershipInv'
<1> USE DEF OwnershipInv, Settled, ConfirmComing, IsLive, OrderNumbers
<1>1. ConfirmsMatchBook'
  BY DEF ConfirmsMatchBook
<1>2. RejectsSettled'
  BY DEF RejectsSettled
<1>3. RecordsSettled'
  BY DEF RecordsSettled
<1>4. LastFillIsLast'
  BY DEF LastFillIsLast
<1>5. RoutedByKey'
  BY DEF RoutedByKey
<1>6. RequestsSettled'
  BY DEF RequestsSettled
<1>7. EveryLiveOrderIsManaged'
  BY DEF EveryLiveOrderIsManaged
<1> QED
  BY <1>1, <1>2, <1>3, <1>4, <1>5, <1>6, <1>7

\* Before the first packet there is no order to own.
LEMMA OwnershipInit == Init => OwnershipInv
<1> SUFFICES ASSUME Init PROVE OwnershipInv
  OBVIOUS
<1>1. OrderNumbers = {} /\ DOMAIN OutPF = {}
  BY DEF Init, OrderNumbers
<1>2. Range(toGw) = {Invitation} /\ DOMAIN toGw = {1}
  BY DEF Init, Range
<1>3. InFlight = {SignOnRequest("login")}
  BY DEF Init, InFlight, Range
<1>4. ConfirmsMatchBook /\ RejectsSettled /\ LastFillIsLast
  BY <1>2 DEF ConfirmsMatchBook, RejectsSettled, LastFillIsLast, IsConfirm, IsReject, Invitation,
              Init
<1>5. RequestsSettled
  BY <1>3 DEF RequestsSettled, IsOm, SignOnRequest
<1>6. RecordsSettled /\ RoutedByKey /\ EveryLiveOrderIsManaged
  BY <1>1 DEF RecordsSettled, RoutedByKey, EveryLiveOrderIsManaged
<1> QED
  BY <1>4, <1>5, <1>6 DEF OwnershipInv

\* A new order in a queue changes nothing about the orders at the exchange.
LEMMA OwnershipSubmit ==
    ASSUME TypeOK, OwnershipInv, NEW o \in NewOrders, Submit(o)
    PROVE  OwnershipInv'
<1> USE DEF TypeOK, QueueTypes
<1>1. UNCHANGED <<book, toGw, OutPF>> /\ UNCHANGED <<hand, spc, toExch>>
  BY DEF Submit, senderVars, tableVars, wireVars
<1>2. NewRequest(o) \in Request /\ ~IsOm(NewRequest(o))
  BY RequestTypes DEF NewRequest, IsOm
<1>3. \/ Range(Mktqueue') = Range(Mktqueue) \cup {NewRequest(o)} /\ Bidqueue' = Bidqueue
      \/ Range(Bidqueue') = Range(Bidqueue) \cup {NewRequest(o)} /\ Mktqueue' = Mktqueue
  <2>1. CASE o \in MarketOrders
    <3>1. Mktqueue' = Append(Mktqueue, NewRequest(o)) /\ Bidqueue' = Bidqueue
      BY <2>1 DEF Submit
    <3> QED
      BY <1>2, <3>1, RangeFacts
  <2>2. CASE o \notin MarketOrders
    <3>1. Bidqueue' = Append(Bidqueue, NewRequest(o)) /\ Mktqueue' = Mktqueue
      BY <2>2 DEF Submit
    <3> QED
      BY <1>2, <3>1, RangeFacts
  <2> QED
    BY <2>1, <2>2
<1>4. \A r \in InFlight' : IsOm(r) => r \in InFlight
  BY <1>1, <1>2, <1>3 DEF InFlight
<1>5. \A n \in OrderNumbers : CancelUnderWay(n) => CancelUnderWay(n)'
  BY <1>1, <1>3 DEF CancelUnderWay
<1> QED
  BY <1>1, <1>4, <1>5, OwnershipFrame

\* The number a strategy modifies or cancels is one it was told: settled.
LEMMA OwnershipSubmitOm ==
    ASSUME TypeOK, OwnershipInv, NEW op \in {"modify", "cancel"}, NEW k \in OrderNumbers,
           SubmitOm(op, k)
    PROVE  OwnershipInv'
<1> USE DEF TypeOK, QueueTypes
<1>1. UNCHANGED <<book, toGw, OutPF>> /\ UNCHANGED <<Mktqueue, hand, spc, toExch>>
  BY DEF SubmitOm, senderVars, tableVars, wireVars
<1>2. OmRequest(op, k) \in Request /\ OmRequest(op, k).order = k
  <2>1. k \in Nat
    BY DEF BookTypes, OrderNumbers
  <2>2. OmRequest(op, k) \in Request
    BY <2>1, RequestTypes
  <2> QED
    BY <2>2 DEF OmRequest
<1>3. Range(Bidqueue') = Range(Bidqueue) \cup {OmRequest(op, k)}
  BY <1>2, RangeFacts DEF SubmitOm
<1>4. Settled(k)
  BY DEF SubmitOm, OwnershipInv, RecordsSettled
<1>5. \A r \in InFlight' : IsOm(r) => r \in InFlight \/ Settled(r.order)
  BY <1>1, <1>2, <1>3, <1>4 DEF InFlight
<1>6. \A n \in OrderNumbers : CancelUnderWay(n) => CancelUnderWay(n)'
  BY <1>1, <1>3 DEF CancelUnderWay
<1> QED
  BY <1>1, <1>5, <1>6, OwnershipFrame

\* A request goes from a queue to the sender's hand and from there to the wire; it
\* leaves the hand only when the next one is popped.
LEMMA OwnershipSender ==
    ASSUME TypeOK, OwnershipInv, Sender
    PROVE  OwnershipInv'
<1> USE DEF SenderUnchanged
<1>1. UNCHANGED <<book, toGw, OutPF>>
  BY DEF Sender, Poll, PollSizes, PopMkt, ChooseBid, PopBid, LoadSeq, StoreSeq, Stamp, Send, LoadInv,
         StoreInv, PushBack
<1>2. /\ InFlight' \subseteq InFlight
      /\ \A n \in OrderNumbers : CancelUnderWay(n) => CancelUnderWay(n)'
  <2>1. CASE PopMkt
    <3>1. Range(Mktqueue) = {hand'} \cup Range(Mktqueue')
      BY <2>1, RangeFacts DEF PopMkt, TypeOK, QueueTypes
    <3> QED
      BY <2>1, <3>1 DEF PopMkt, InFlight, CancelUnderWay
  <2>2. CASE PopBid
    <3>1. Range(Bidqueue) = {hand'} \cup Range(Bidqueue')
      BY <2>2, RangeFacts DEF PopBid, TypeOK, QueueTypes
    <3> QED
      BY <2>2, <3>1 DEF PopBid, InFlight, CancelUnderWay
  <2>3. CASE Send
    <3>1. Range(toExch') = Range(toExch) \cup {hand}
      BY <2>3, RangeFacts DEF Send, Write, TypeOK, WireTypes, SenderTypes
    <3> QED
      BY <2>3, <3>1 DEF Send, InFlight, CancelUnderWay
  <2>4. CASE \/ Poll \/ PollSizes \/ ChooseBid \/ LoadSeq \/ StoreSeq \/ Stamp
             \/ LoadInv \/ StoreInv \/ PushBack
    <3>1. UNCHANGED <<Bidqueue, Mktqueue, toExch, hand>>
      BY <2>4 DEF Poll, PollSizes, ChooseBid, LoadSeq, StoreSeq, Stamp, LoadInv, StoreInv, PushBack
    <3>2. \/ spc \in {"loadSeq", "storeSeq", "stamp", "send"}
               => spc' \in {"loadSeq", "storeSeq", "stamp", "send"}
      BY <2>4 DEF Poll, PollSizes, ChooseBid, LoadSeq, StoreSeq, Stamp, LoadInv, StoreInv, PushBack
    <3> QED
      BY <3>1, <3>2 DEF InFlight, CancelUnderWay
  <2> QED
    BY <2>1, <2>2, <2>3, <2>4 DEF Sender
<1> QED
  BY <1>1, <1>2, OwnershipFrame

-----------------------------------------------------------------------------
(* Steps of the reader.                                                     *)

\* The packet read is an element of the wire, and the rest stays.
LEMMA ReceiveFacts ==
    ASSUME WireTypes, Receives(Head(toGw))
    PROVE  /\ Range(toGw) = {Head(toGw)} \cup Range(toGw')
           /\ DOMAIN toGw = 1..Len(toGw) /\ 1 \in DOMAIN toGw /\ toGw[1] = Head(toGw)
           /\ \A i \in DOMAIN toGw' : i \in Nat \ {0} /\ i + 1 \in DOMAIN toGw /\ toGw'[i] = toGw[i + 1]
           /\ toExch' = toExch
<1>1. toGw \in Seq(Packet) /\ toGw # <<>> /\ toGw' = Tail(toGw) /\ toExch' = toExch
  BY DEF WireTypes, Receives
<1>2. Range(toGw) = {Head(toGw)} \cup Range(toGw')
  BY <1>1, RangeFacts
<1>3. /\ Len(toGw) \in Nat \ {0} /\ DOMAIN toGw = 1..Len(toGw) /\ toGw[1] = Head(toGw)
      /\ DOMAIN toGw' = 1..(Len(toGw) - 1)
      /\ \A i \in 1..(Len(toGw) - 1) : toGw'[i] = toGw[i + 1]
  BY <1>1
<1> QED
  BY <1>1, <1>2, <1>3

\* Reading a packet keeps the order and the distinctness of the confirmations left.
LEMMA ConfirmsAfterReceive ==
    ASSUME WireTypes, Receives(Head(toGw)), ConfirmsMatchBook, UNCHANGED book
    PROVE  ConfirmsMatchBook'
<1>1. \A m \in Range(toGw)' : IsConfirm(m) =>
        m.order \in OrderNumbers' /\ m.key = KeyOf[book'[m.order].id]
  BY ReceiveFacts DEF ConfirmsMatchBook, OrderNumbers
<1>2. \A i, j \in DOMAIN toGw' :
        IsConfirm(toGw'[i]) /\ IsConfirm(toGw'[j]) /\ toGw'[i].order = toGw'[j].order => i = j
  <2> SUFFICES ASSUME NEW i \in DOMAIN toGw', NEW j \in DOMAIN toGw',
                      IsConfirm(toGw'[i]), IsConfirm(toGw'[j]), toGw'[i].order = toGw'[j].order
               PROVE  i = j
    OBVIOUS
  <2>1. i + 1 \in DOMAIN toGw /\ j + 1 \in DOMAIN toGw /\ i \in Nat /\ j \in Nat
        /\ toGw'[i] = toGw[i + 1] /\ toGw'[j] = toGw[j + 1]
    BY ReceiveFacts
  <2>2. i + 1 = j + 1
    BY <2>1 DEF ConfirmsMatchBook
  <2> QED
    BY <2>1, <2>2
<1> QED
  BY <1>1, <1>2 DEF ConfirmsMatchBook, IsConfirm, OrderNumbers

\* A packet that is no confirmation may change the records of dead orders only.
LEMMA OwnershipReceive ==
    ASSUME TypeOK, OwnershipInv, Receives(Head(toGw)), ~IsConfirm(Head(toGw)),
           UNCHANGED <<book, Bidqueue, Mktqueue, hand>>,
           spc' = spc \/ spc \notin {"loadSeq", "storeSeq", "stamp", "send"},
           \A n \in DOMAIN OutPF' : n = 0 \/ Settled(n),
           \A n \in OrderNumbers : IsLive(n) =>
                /\ n \in DOMAIN OutPF <=> n \in DOMAIN OutPF'
                /\ n \in DOMAIN OutPF => OutPF'[n] = OutPF[n]
    PROVE  OwnershipInv'
<1> USE DEF OwnershipInv
<1>1. Range(toGw) = {Head(toGw)} \cup Range(toGw') /\ toExch' = toExch
  BY ReceiveFacts DEF TypeOK
<1>2. \A n : ConfirmComing(n) <=> \E m \in Range(toGw') : IsConfirm(m) /\ m.order = n
  BY <1>1 DEF ConfirmComing
<1>3. ConfirmsMatchBook'
  BY ConfirmsAfterReceive DEF TypeOK
<1>4. RejectsSettled'
  BY <1>1, <1>2 DEF RejectsSettled, Settled, ConfirmComing, OrderNumbers
<1>5. RecordsSettled'
  BY <1>2 DEF RecordsSettled, Settled, ConfirmComing, OrderNumbers
<1>6. LastFillIsLast'
  BY <1>1 DEF LastFillIsLast, OrderNumbers
<1>7. RequestsSettled'
  BY <1>1, <1>2 DEF RequestsSettled, InFlight, Settled, ConfirmComing, OrderNumbers
<1>8. RoutedByKey'
  BY DEF RoutedByKey, IsLive, OrderNumbers
<1>9. EveryLiveOrderIsManaged'
  BY <1>1, <1>2 DEF EveryLiveOrderIsManaged, IsLive, OrderNumbers, ConfirmComing, CancelUnderWay
<1> QED
  BY <1>3, <1>4, <1>5, <1>6, <1>7, <1>8, <1>9

\* What GetPF does to the records, and when the packet has an owner.
LEMMA GetPFRecords ==
    ASSUME NEW m, NEW h, GetPF(m, h)
    PROVE  /\ DOMAIN OutPF' = DOMAIN OutPF \cup {m.order}
           /\ \A n \in DOMAIN OutPF : OutPF'[n] = OutPF[n]
           /\ m.order \notin DOMAIN OutPF => OutPF'[m.order] = h
           /\ h = Orphan \/ \E i \in Match(m.key) : h = QueueHolder[i]
           /\ spc' = spc \/ spc = "push"
<1>1. AddRecord(m.order, h)
  BY DEF GetPF
<1> QED
  BY <1>1 DEF GetPF, AddRecord

\* A reject may take a holder by key, but only to a number that is settled.
LEMMA OwnershipReject ==
    ASSUME TypeOK, OwnershipInv, RecvReject
    PROVE  OwnershipInv'
<1> DEFINE m == Head(toGw)
<1>1. /\ Receives(m) /\ IsReject(m) /\ ~IsConfirm(m)
      /\ UNCHANGED <<book, Bidqueue, Mktqueue, hand>>
  BY DEF RecvReject, ReaderUnchanged, IsReject, IsConfirm
<1>2. m.order = 0 \/ Settled(m.order)
  BY <1>1, ReceiveFacts DEF OwnershipInv, RejectsSettled, TypeOK
<1>3. CASE UNCHANGED <<spc, tableVars>>
  BY <1>1, <1>3, OwnershipReceive DEF tableVars, OwnershipInv, RecordsSettled
<1>4. CASE \E h \in NewOrders \cup {Orphan} : GetPF(m, h)
  <2>1. /\ DOMAIN OutPF' = DOMAIN OutPF \cup {m.order}
        /\ \A n \in DOMAIN OutPF : OutPF'[n] = OutPF[n]
        /\ spc' = spc \/ spc = "push"
    BY <1>4, GetPFRecords
  <2>2. \A n \in DOMAIN OutPF' : n = 0 \/ Settled(n)
    BY <1>2, <2>1 DEF OwnershipInv, RecordsSettled
  <2>3. \A n \in OrderNumbers : IsLive(n) => (n \in DOMAIN OutPF <=> n \in DOMAIN OutPF')
    <3>1. ASSUME m.order \in OrderNumbers, IsLive(m.order) PROVE m.order \in DOMAIN OutPF
      <4>1. m.order # 0
        BY <3>1 DEF OrderNumbers
      <4> QED
        BY <1>2, <3>1, <4>1 DEF OwnershipInv, EveryLiveOrderIsManaged, Settled
    <3> QED
      BY <2>1, <3>1
  <2> QED
    BY <1>1, <2>1, <2>2, <2>3, OwnershipReceive
<1> QED
  BY <1>3, <1>4 DEF RecvReject

\* A record goes only with the fill that ends its order.
LEMMA OwnershipTrade ==
    ASSUME TypeOK, OwnershipInv, RecvTrade
    PROVE  OwnershipInv'
<1> DEFINE m == Head(toGw)
<1>1. /\ Receives(m) /\ m.code = 20222 /\ ~IsConfirm(m) /\ UNCHANGED spc
      /\ UNCHANGED <<book, Bidqueue, Mktqueue, hand>>
  BY DEF RecvTrade, ReaderUnchanged, IsConfirm
<1>2. m.rem <= 0 => m.order \in OrderNumbers /\ ~IsLive(m.order)
  <2>1. m \in Range(toGw)
    BY <1>1, ReceiveFacts DEF TypeOK
  <2> QED
    BY <1>1, <2>1 DEF OwnershipInv, LastFillIsLast, IsLive
<1>3. OutPF' = IF m.rem <= 0 THEN Restrict(OutPF, DOMAIN OutPF \ {m.order}) ELSE OutPF
  BY DEF RecvTrade
<1>4. /\ \A n \in DOMAIN OutPF' : n \in DOMAIN OutPF
      /\ \A n \in OrderNumbers : IsLive(n) =>
            /\ n \in DOMAIN OutPF <=> n \in DOMAIN OutPF'
            /\ n \in DOMAIN OutPF => OutPF'[n] = OutPF[n]
  BY <1>2, <1>3 DEF Restrict
<1>5. \A n \in DOMAIN OutPF' : n = 0 \/ Settled(n)
  BY <1>4 DEF OwnershipInv, RecordsSettled
<1> QED
  BY <1>1, <1>4, <1>5, OwnershipReceive

\* Reading a confirmation settles its order: it gets a record, with the key of the
\* order, or the orphan record and a cancel in the market queue.
LEMMA OwnershipConfirm ==
    ASSUME TypeOK, OwnershipInv, RecvConfirm
    PROVE  OwnershipInv'
<1> DEFINE m == Head(toGw)
           k == m.order
<1>1. Receives(m) /\ IsConfirm(m) /\ UNCHANGED <<book, Bidqueue, hand>>
  BY DEF RecvConfirm, ReaderUnchanged, IsConfirm
<1>2. PICK h \in NewOrders \cup {Orphan} :
        /\ GetPF(m, h)
        /\ Mktqueue' = IF h = Orphan THEN Append(Mktqueue, CancelOf(k)) ELSE Mktqueue
  BY DEF RecvConfirm
<1>3. /\ Range(toGw) = {m} \cup Range(toGw') /\ toExch' = toExch
      /\ DOMAIN toGw = 1..Len(toGw) /\ 1 \in DOMAIN toGw /\ toGw[1] = m
      /\ \A i \in DOMAIN toGw' : i \in Nat \ {0} /\ i + 1 \in DOMAIN toGw /\ toGw'[i] = toGw[i + 1]
  BY <1>1, ReceiveFacts DEF TypeOK
<1>4. k \in OrderNumbers /\ m.key = KeyOf[book[k].id] /\ ConfirmComing(k)
  BY <1>1, <1>3 DEF OwnershipInv, ConfirmsMatchBook, ConfirmComing
<1>5. k \in Nat \ {0} /\ k \notin DOMAIN OutPF
  BY <1>4 DEF OwnershipInv, RecordsSettled, Settled, OrderNumbers
<1>6. \A n : (\E x \in Range(toGw') : IsConfirm(x) /\ x.order = n) <=> ConfirmComing(n) /\ n # k
  <2>1. ASSUME NEW i \in DOMAIN toGw', IsConfirm(toGw'[i]), toGw'[i].order = k PROVE FALSE
    <3>1. i + 1 = 1
      BY <1>1, <1>3, <2>1 DEF OwnershipInv, ConfirmsMatchBook
    <3> QED
      BY <1>3, <3>1
  <2>2. ASSUME NEW x \in Range(toGw'), IsConfirm(x) PROVE x.order # k
    BY <2>1, <2>2 DEF Range
  <2> QED
    BY <1>3, <2>2 DEF ConfirmComing
<1>7. /\ DOMAIN OutPF' = DOMAIN OutPF \cup {k} /\ OutPF'[k] = h
      /\ \A n \in DOMAIN OutPF : OutPF'[n] = OutPF[n]
      /\ h = Orphan \/ \E i \in Match(m.key) : h = QueueHolder[i]
      /\ spc' = spc \/ spc = "push"
  BY <1>2, <1>5, GetPFRecords
<1>8. Range(Mktqueue') = Range(Mktqueue) \cup (IF h = Orphan THEN {CancelOf(k)} ELSE {})
  <2>1. CancelOf(k) \in Request
    BY <1>5, RequestTypes DEF CancelOf
  <2> QED
    BY <1>2, <2>1, RangeFacts DEF TypeOK, QueueTypes
<1> USE DEF OwnershipInv
<1>9. ConfirmsMatchBook'
  BY <1>1, ConfirmsAfterReceive DEF TypeOK
<1>10. RejectsSettled'
  BY <1>1, <1>3, <1>6 DEF RejectsSettled, Settled, ConfirmComing, OrderNumbers
<1>11. RecordsSettled'
  BY <1>1, <1>4, <1>6, <1>7 DEF RecordsSettled, Settled, ConfirmComing, OrderNumbers
<1>12. LastFillIsLast'
  BY <1>1, <1>3 DEF LastFillIsLast, OrderNumbers
<1>13. RequestsSettled'
  <2>1. \A r \in InFlight' : r \in InFlight \/ r.order = k
    BY <1>1, <1>3, <1>8 DEF InFlight, CancelOf, OmRequest
  <2> QED
    BY <1>1, <1>4, <1>6, <2>1 DEF RequestsSettled, Settled, ConfirmComing, OrderNumbers
<1>14. RoutedByKey'
  <2>1. h # Orphan => KeyOf[h] = KeyOf[book[k].id]
    BY <1>4, <1>7 DEF Match
  <2> QED
    BY <1>1, <1>7, <2>1 DEF RoutedByKey, IsLive, OrderNumbers
<1>15. EveryLiveOrderIsManaged'
  <2>1. \A n \in OrderNumbers : CancelUnderWay(n) => CancelUnderWay(n)'
    BY <1>1, <1>3, <1>7, <1>8 DEF CancelUnderWay
  <2>2. \A n \in OrderNumbers : n = k /\ h = Orphan => CancelUnderWay(n)'
    <3>1. h = Orphan => CancelOf(k) \in Range(Mktqueue')
      BY <1>8
    <3> QED
      BY <3>1 DEF CancelUnderWay
  <2>3. \A n \in OrderNumbers' : ~(ConfirmComing(n)') => n = k \/ ~ConfirmComing(n)
    BY <1>6 DEF ConfirmComing
  <2> SUFFICES ASSUME NEW n \in OrderNumbers, IsLive(n)', ~(ConfirmComing(n)')
               PROVE  /\ n \in DOMAIN OutPF'
                      /\ OutPF'[n] = Orphan => CancelUnderWay(n)'
    BY <1>1 DEF EveryLiveOrderIsManaged, OrderNumbers
  <2>4. IsLive(n)
    BY <1>1 DEF IsLive, OrderNumbers
  <2>5. CASE n = k
    BY <1>7, <2>2, <2>5
  <2>6. CASE n # k
    BY <1>1, <1>7, <2>1, <2>3, <2>4, <2>6 DEF EveryLiveOrderIsManaged, OrderNumbers
  <2> QED
    BY <2>5, <2>6
<1> QED
  BY <1>9, <1>10, <1>11, <1>12, <1>13, <1>14, <1>15

\* No packet the reader handles leaves a working order without somebody in charge.
LEMMA OwnershipReader ==
    ASSUME TypeOK, OwnershipInv, Reader
    PROVE  OwnershipInv'
<1> USE DEF ReaderUnchanged, tableVars, wireVars
<1>1. CASE RecvInvitation \/ RecvSignOnReply \/ RecvUpdate
  <2>1. Receives(Head(toGw)) /\ ~IsConfirm(Head(toGw))
    BY <1>1 DEF RecvInvitation, RecvSignOnReply, RecvUpdate, Receives, Invitation, SignOnReply,
                IsConfirm
  <2>2. UNCHANGED <<book, Bidqueue, Mktqueue, hand>> /\ UNCHANGED spc /\ UNCHANGED OutPF
    BY <1>1 DEF RecvInvitation, RecvSignOnReply, RecvUpdate
  <2> QED
    BY <2>1, <2>2, OwnershipReceive DEF OwnershipInv, RecordsSettled
<1>2. CASE RecvConfirm
  BY <1>2, OwnershipConfirm
<1>3. CASE RecvReject
  BY <1>3, OwnershipReject
<1>4. CASE RecvTrade
  BY <1>4, OwnershipTrade
<1>5. CASE Grant \/ SetSeq \/ LoadSpend \/ StoreSpend
  <2>1. UNCHANGED <<book, toGw, OutPF>> /\ UNCHANGED <<Bidqueue, Mktqueue, toExch, hand, spc>>
    BY <1>5 DEF Grant, SetSeq, LoadSpend, StoreSpend
  <2>2. \A r \in InFlight' : IsOm(r) => r \in InFlight
    BY <2>1 DEF InFlight
  <2>3. \A n \in OrderNumbers : CancelUnderWay(n) => CancelUnderWay(n)'
    BY <2>1 DEF CancelUnderWay
  <2> QED
    BY <2>1, <2>2, <2>3, OwnershipFrame
<1>6. CASE SendSignOn
  <2> DEFINE r0 == SignOnRequest(IF counter = 1 THEN "login" ELSE "sysinfo")
  <2>1. UNCHANGED <<book, toGw, OutPF>> /\ UNCHANGED <<Bidqueue, Mktqueue, hand, spc>>
    BY <1>6 DEF SendSignOn
  <2>2. r0 \in Request /\ ~IsOm(r0)
    BY RequestTypes DEF SignOnRequest, IsOm
  <2>3. Range(toExch') = Range(toExch) \cup {r0}
    BY <1>6, <2>2, RangeFacts DEF SendSignOn, Write, TypeOK, WireTypes
  <2>4. \A r \in InFlight' : IsOm(r) => r \in InFlight
    BY <2>1, <2>2, <2>3 DEF InFlight
  <2>5. \A n \in OrderNumbers : CancelUnderWay(n) => CancelUnderWay(n)'
    BY <2>1, <2>3 DEF CancelUnderWay
  <2> QED
    BY <2>1, <2>4, <2>5, OwnershipFrame
<1> QED
  BY <1>1, <1>2, <1>3, <1>4, <1>5, <1>6 DEF Reader

-----------------------------------------------------------------------------
(* Steps of the exchange.                                                   *)

\* Orders keep their ids and keys, and what is left of them only shrinks.
LEMMA BookStep ==
    ASSUME BookTypes, NEW k \in OrderNumbers, NEW r \in 0..Lots,
           book' = [book EXCEPT ![k].rem = r]
    PROVE  /\ OrderNumbers' = OrderNumbers
           /\ \A n \in OrderNumbers : /\ book'[n].id = book[n].id
                                      /\ book'[n].rem = IF n = k THEN r ELSE book[n].rem
<1>1. OrderNumbers' = OrderNumbers
  BY BookUpdate DEF OrderNumbers
<1>2. DOMAIN book = 1..Len(book)
  BY DEF BookTypes
<1>3. \A n \in 1..Len(book) : book[n] \in [id : NewOrders, rem : 0..Lots]
  BY SequenceTypes DEF BookTypes
<1> QED
  BY <1>1, <1>2, <1>3 DEF OrderNumbers

\* A packet that confirms nothing, rejects a settled order if any, and reports a
\* last fill only after it.
Harmless(m) ==
    /\ ~IsConfirm(m)
    /\ IsReject(m) => m.order = 0 \/ Settled(m.order)
    /\ m.code = 20222 /\ m.rem <= 0 => m.order \in OrderNumbers /\ book'[m.order].rem = 0

\* The exchange answers without confirming and its orders only die: nothing that
\* was settled or dead comes back.
LEMMA OwnershipAnswer ==
    ASSUME TypeOK, OwnershipInv, UNCHANGED <<OutPF, Bidqueue, Mktqueue, hand, spc>>,
           Range(toExch') \subseteq Range(toExch),
           Range(toGw) \subseteq Range(toGw'),
           \A i \in DOMAIN toGw' : IsConfirm(toGw'[i]) => i \in DOMAIN toGw /\ toGw[i] = toGw'[i],
           \A m \in Range(toGw') : m \in Range(toGw) \/ Harmless(m),
           OrderNumbers' = OrderNumbers,
           \A n \in OrderNumbers : /\ book'[n].id = book[n].id
                                   /\ book[n].rem = 0 => book'[n].rem = 0
                                   /\ book'[n].rem > 0 => book[n].rem > 0,
           \A n \in OrderNumbers : book'[n].rem > 0 /\ CancelUnderWay(n) => CancelUnderWay(n)'
    PROVE  OwnershipInv'
<1> USE DEF OwnershipInv, Harmless
<1>1. \A n : ConfirmComing(n) <=> \E m \in Range(toGw') : IsConfirm(m) /\ m.order = n
  BY DEF ConfirmComing
<1>2. ConfirmsMatchBook'
  BY DEF ConfirmsMatchBook
<1>3. RejectsSettled'
  BY <1>1 DEF RejectsSettled, Settled, ConfirmComing
<1>4. RecordsSettled'
  BY <1>1 DEF RecordsSettled, Settled, ConfirmComing
<1>5. LastFillIsLast'
  BY DEF LastFillIsLast
<1>6. RequestsSettled'
  BY <1>1 DEF RequestsSettled, InFlight, Settled, ConfirmComing
<1>7. RoutedByKey'
  BY DEF RoutedByKey, IsLive
<1>8. EveryLiveOrderIsManaged'
  BY <1>1 DEF EveryLiveOrderIsManaged, IsLive, ConfirmComing
<1> QED
  BY <1>2, <1>3, <1>4, <1>5, <1>6, <1>7, <1>8

\* What an answer changes on the wire, element by element.
LEMMA AnswerFacts ==
    ASSUME WireTypes, toExch # <<>>, NEW reply \in Packet, Answer(reply)
    PROVE  /\ Range(toGw') = Range(toGw) \cup {Invitation, reply}
           /\ DOMAIN toGw = 1..Len(toGw) /\ DOMAIN toGw' = 1..(Len(toGw) + 2) /\ Len(toGw) \in Nat
           /\ \A i \in DOMAIN toGw : toGw'[i] = toGw[i]
           /\ toGw'[Len(toGw) + 1] = Invitation /\ toGw'[Len(toGw) + 2] = reply
           /\ Range(toExch) = {Head(toExch)} \cup Range(toExch')
           /\ UNCHANGED <<OutPF, Bidqueue, Mktqueue, hand, spc>>
<1>1. Invitation \in Packet
  BY PacketTypes
<1>2. toGw \in Seq(Packet) /\ toGw' = toGw \o <<Invitation, reply>>
  BY DEF WireTypes, Answer
<1>3. Range(toGw') = Range(toGw) \cup {Invitation, reply}
  BY <1>1, <1>2, RangeFacts
<1>4. /\ DOMAIN toGw = 1..Len(toGw) /\ DOMAIN toGw' = 1..(Len(toGw) + 2) /\ Len(toGw) \in Nat
      /\ \A i \in DOMAIN toGw : toGw'[i] = toGw[i]
      /\ toGw'[Len(toGw) + 1] = Invitation /\ toGw'[Len(toGw) + 2] = reply
  BY <1>1, <1>2
<1>5. Range(toExch) = {Head(toExch)} \cup Range(toExch')
  BY RangeFacts DEF WireTypes, Answer
<1>6. UNCHANGED <<OutPF, Bidqueue, Mktqueue, hand, spc>>
  BY DEF Answer, ExchangeUnchanged, tableVars, queueVars, senderVars
<1> QED
  BY <1>3, <1>4, <1>5, <1>6

\* The answers that leave the book alone.
LEMMA OwnershipReply ==
    ASSUME TypeOK, OwnershipInv, toExch # <<>>, NEW reply \in Packet, Answer(reply),
           UNCHANGED book, ~IsConfirm(reply), reply.code # 20222,
           IsReject(reply) => reply.order = 0 \/ Settled(reply.order),
           \A n \in OrderNumbers : IsLive(n) => Head(toExch) # CancelOf(n)
    PROVE  OwnershipInv'
<1>1. /\ Range(toGw') = Range(toGw) \cup {Invitation, reply}
      /\ DOMAIN toGw = 1..Len(toGw) /\ DOMAIN toGw' = 1..(Len(toGw) + 2) /\ Len(toGw) \in Nat
      /\ \A i \in DOMAIN toGw : toGw'[i] = toGw[i]
      /\ toGw'[Len(toGw) + 1] = Invitation /\ toGw'[Len(toGw) + 2] = reply
      /\ Range(toExch) = {Head(toExch)} \cup Range(toExch')
      /\ UNCHANGED <<OutPF, Bidqueue, Mktqueue, hand, spc>>
  BY AnswerFacts DEF TypeOK
<1>2. ~IsConfirm(Invitation) /\ ~IsReject(Invitation) /\ Invitation.code # 20222
  BY DEF IsConfirm, IsReject, Invitation
<1>3. \A i \in DOMAIN toGw' : IsConfirm(toGw'[i]) => i \in DOMAIN toGw /\ toGw[i] = toGw'[i]
  BY <1>1, <1>2
<1>4. \A n \in OrderNumbers : book'[n].rem > 0 /\ CancelUnderWay(n) => CancelUnderWay(n)'
  BY <1>1 DEF CancelUnderWay, IsLive
<1>5. /\ OrderNumbers' = OrderNumbers
      /\ \A n \in OrderNumbers : /\ book'[n].id = book[n].id
                                 /\ book[n].rem = 0 => book'[n].rem = 0
                                 /\ book'[n].rem > 0 => book[n].rem > 0
  BY DEF OrderNumbers
<1>6. \A m \in Range(toGw') : m \in Range(toGw) \/ Harmless(m)
  BY <1>1, <1>2 DEF Harmless
<1>7. Range(toExch') \subseteq Range(toExch) /\ Range(toGw) \subseteq Range(toGw')
  BY <1>1
<1> QED
  BY <1>1, <1>3, <1>4, <1>5, <1>6, <1>7, OwnershipAnswer

\* A new number is fresh: its confirmation is on the wire, once, with its own key.
LEMMA OwnershipAcceptNew ==
    ASSUME TypeOK, OwnershipInv, AcceptNew
    PROVE  OwnershipInv'
<1> DEFINE new == Len(book) + 1
           reply == Confirm(new, KeyOf[Head(toExch).id])
<1>1. toExch # <<>> /\ Head(toExch).id \in NewOrders /\ Head(toExch).op = "new"
  BY AskedRequest DEF AcceptNew, TypeOK
<1>2. reply \in Packet
  <2>1. new \in Nat /\ KeyOf[Head(toExch).id] \in Keys
    <3>1. Len(book) \in Nat
      BY DEF TypeOK, BookTypes
    <3> QED
      BY <1>1, <3>1
  <2> QED
    BY <2>1, PacketTypes
<1>3. /\ Range(toGw') = Range(toGw) \cup {Invitation, reply}
      /\ DOMAIN toGw = 1..Len(toGw) /\ DOMAIN toGw' = 1..(Len(toGw) + 2) /\ Len(toGw) \in Nat
      /\ \A i \in DOMAIN toGw : toGw'[i] = toGw[i]
      /\ toGw'[Len(toGw) + 1] = Invitation /\ toGw'[Len(toGw) + 2] = reply
      /\ Range(toExch) = {Head(toExch)} \cup Range(toExch')
      /\ UNCHANGED <<OutPF, Bidqueue, Mktqueue, hand, spc>>
  BY <1>1, <1>2, AnswerFacts DEF TypeOK, AcceptNew
<1>4. /\ OrderNumbers' = OrderNumbers \cup {new} /\ new \notin OrderNumbers /\ 0 \notin OrderNumbers
      /\ \A n \in OrderNumbers : book'[n] = book[n]
      /\ book'[new].id = Head(toExch).id
  <2>1. /\ book \in Seq([id : NewOrders, rem : 0..Lots]) /\ Len(book) \in Nat
        /\ [id |-> Head(toExch).id, rem |-> Lots] \in [id : NewOrders, rem : 0..Lots]
        /\ book' = Append(book, [id |-> Head(toExch).id, rem |-> Lots])
    <3>1. book \in Seq([id : NewOrders, rem : 0..Lots]) /\ Len(book) \in Nat
      BY DEF TypeOK, BookTypes
    <3>2. Lots \in 0..Lots
      OBVIOUS
    <3> QED
      BY <1>1, <3>1, <3>2 DEF AcceptNew
  <2> QED
    BY <2>1 DEF OrderNumbers
<1>5. /\ ~IsConfirm(Invitation) /\ ~IsReject(Invitation) /\ Invitation.code # 20222
      /\ IsConfirm(reply) /\ ~IsReject(reply) /\ reply.code # 20222
      /\ reply.order = new /\ reply.key = KeyOf[Head(toExch).id]
  BY DEF IsConfirm, IsReject, Invitation, Confirm
<1>6. \A n : (\E x \in Range(toGw') : IsConfirm(x) /\ x.order = n) <=> ConfirmComing(n) \/ n = new
  BY <1>3, <1>5 DEF ConfirmComing
<1> HIDE DEF new, reply
<1> USE DEF OwnershipInv
<1>7. ConfirmsMatchBook'
  <2>1. \A m \in Range(toGw') : IsConfirm(m) =>
          m.order \in OrderNumbers' /\ m.key = KeyOf[book'[m.order].id]
    BY <1>3, <1>4, <1>5 DEF ConfirmsMatchBook
  <2>2. ASSUME NEW i \in DOMAIN toGw', IsConfirm(toGw'[i])
        PROVE  \/ i \in DOMAIN toGw /\ toGw'[i] = toGw[i] /\ toGw'[i].order # new
               \/ i = Len(toGw) + 2 /\ toGw'[i].order = new
    <3>1. CASE i \in DOMAIN toGw
      <4>1. toGw[i] \in Range(toGw) /\ toGw'[i] = toGw[i]
        BY <1>3, <3>1 DEF Range
      <4> QED
        BY <1>4, <2>2, <3>1, <4>1 DEF ConfirmsMatchBook
    <3>2. CASE i \notin DOMAIN toGw
      <4>1. i \in {Len(toGw) + 1, Len(toGw) + 2}
        BY <1>3, <3>2
      <4> QED
        BY <1>3, <1>5, <2>2, <4>1
    <3> QED
      BY <3>1, <3>2
  <2>3. \A i, j \in DOMAIN toGw' :
          IsConfirm(toGw'[i]) /\ IsConfirm(toGw'[j]) /\ toGw'[i].order = toGw'[j].order => i = j
    BY <2>2 DEF ConfirmsMatchBook
  <2> QED
    BY <2>1, <2>3 DEF ConfirmsMatchBook, IsConfirm
<1>8. RejectsSettled'
  BY <1>3, <1>4, <1>5, <1>6 DEF RejectsSettled, Settled, ConfirmComing
<1>9. RecordsSettled'
  BY <1>3, <1>4, <1>6, ZenonT(60) DEF RecordsSettled, Settled, ConfirmComing
<1>10. LastFillIsLast'
  BY <1>3, <1>4, <1>5 DEF LastFillIsLast
<1>11. RequestsSettled'
  BY <1>3, <1>4, <1>6, ZenonT(60) DEF RequestsSettled, InFlight, Settled, ConfirmComing
<1>12. RoutedByKey'
  BY <1>3, <1>4 DEF RoutedByKey, IsLive, RecordsSettled, Settled
<1>13. EveryLiveOrderIsManaged'
  <2>1. \A n \in OrderNumbers : CancelUnderWay(n) => CancelUnderWay(n)'
    BY <1>1, <1>3 DEF CancelUnderWay, CancelOf, OmRequest
  <2> QED
    BY <1>3, <1>4, <1>6, <2>1 DEF EveryLiveOrderIsManaged, IsLive, ConfirmComing
<1> QED
  BY <1>7, <1>8, <1>9, <1>10, <1>11, <1>12, <1>13

\* Whatever the exchange answers, the ownership invariant holds.
LEMMA OwnershipExchange ==
    ASSUME TypeOK, OwnershipInv, ExchangeAnswers
    PROVE  OwnershipInv'
<1> DEFINE r == Head(toExch)
<1>1. ASSUME NEW op, Asked(op), op # "cancel"
      PROVE  toExch # <<>> /\ \A n \in OrderNumbers : r # CancelOf(n)
  BY <1>1 DEF Asked, CancelOf, OmRequest
<1>2. ASSUME NEW op \in {"modify", "cancel"}, Asked(op)
      PROVE  toExch # <<>> /\ Settled(r.order) /\ r.order \in Nat
  <2>1. toExch # <<>> /\ r.op = op /\ r.order \in Nat
    BY <1>2, AskedRequest DEF TypeOK
  <2>2. r \in Range(toExch)
    BY <2>1, RangeFacts DEF TypeOK, WireTypes
  <2> QED
    BY <2>1, <2>2 DEF OwnershipInv, RequestsSettled, InFlight, IsOm
<1>3. CASE AnswerSignOn
  <2>1. SignOnReply \in Packet /\ ~IsConfirm(SignOnReply) /\ ~IsReject(SignOnReply)
        /\ SignOnReply.code # 20222
    BY PacketTypes DEF IsConfirm, IsReject, SignOnReply
  <2>2. toExch # <<>> /\ \A n \in OrderNumbers : r # CancelOf(n)
    BY <1>1, <1>3 DEF AnswerSignOn
  <2> QED
    BY <1>3, <2>1, <2>2, OwnershipReply DEF AnswerSignOn
<1>4. CASE AcceptNew
  BY <1>4, OwnershipAcceptNew
<1>5. CASE RejectNew
  <2> DEFINE reply == Reject(2231, 0, KeyOf[r.id])
  <2>1. r.id \in NewOrders /\ toExch # <<>>
    BY <1>5, AskedRequest DEF RejectNew, TypeOK
  <2>2. reply \in Packet
    BY <2>1, PacketTypes
  <2>3. ~IsConfirm(reply) /\ reply.code # 20222 /\ reply.order = 0
    BY DEF IsConfirm, Reject
  <2>4. \A n \in OrderNumbers : r # CancelOf(n)
    BY <1>1, <1>5 DEF RejectNew
  <2> QED
    BY <1>5, <2>1, <2>2, <2>3, <2>4, OwnershipReply DEF RejectNew
<1>6. CASE AcceptModify
  <2> DEFINE reply == Update(20074, r.order)
  <2>1. toExch # <<>> /\ r.order \in Nat /\ \A n \in OrderNumbers : r # CancelOf(n)
    BY <1>1, <1>2, <1>6 DEF AcceptModify
  <2>2. reply \in Packet
    BY <2>1, PacketTypes
  <2>3. ~IsConfirm(reply) /\ ~IsReject(reply) /\ reply.code # 20222
    BY DEF IsConfirm, IsReject, Update
  <2> QED
    BY <1>6, <2>1, <2>2, <2>3, OwnershipReply DEF AcceptModify
<1>7. CASE RejectModify
  <2>1. PICK k \in Keys : Answer(Reject(2042, r.order, k))
    BY <1>7 DEF RejectModify
  <2> DEFINE reply == Reject(2042, r.order, k)
  <2>2. /\ toExch # <<>> /\ r.order \in Nat /\ Settled(r.order)
        /\ \A n \in OrderNumbers : r # CancelOf(n)
    BY <1>1, <1>2, <1>7 DEF RejectModify
  <2>3. reply \in Packet
    BY <2>2, PacketTypes
  <2>4. ~IsConfirm(reply) /\ reply.code # 20222 /\ reply.order = r.order
    BY DEF IsConfirm, Reject
  <2> QED
    BY <1>7, <2>1, <2>2, <2>3, <2>4, OwnershipReply DEF RejectModify
<1>8. CASE RejectCancel
  <2>1. PICK k \in Keys : Answer(Reject(2072, r.order, k))
    BY <1>8 DEF RejectCancel
  <2> DEFINE reply == Reject(2072, r.order, k)
  <2>2. toExch # <<>> /\ r.order \in Nat /\ Settled(r.order) /\ ~IsLive(r.order)
    BY <1>2, <1>8 DEF RejectCancel
  <2>3. \A n \in OrderNumbers : IsLive(n) => r # CancelOf(n)
    BY <2>2 DEF CancelOf, OmRequest
  <2>4. reply \in Packet
    BY <2>2, PacketTypes
  <2>5. ~IsConfirm(reply) /\ reply.code # 20222 /\ reply.order = r.order
    BY DEF IsConfirm, Reject
  <2> QED
    BY <1>8, <2>1, <2>2, <2>3, <2>4, <2>5, OwnershipReply DEF RejectCancel
<1>9. CASE AcceptCancel
  <2> DEFINE k == r.order
             reply == Update(20075, k)
  <2>1. toExch # <<>> /\ k \in Nat /\ k \in OrderNumbers
    BY <1>2, <1>9 DEF AcceptCancel, IsLive
  <2>2. reply \in Packet
    BY <2>1, PacketTypes
  <2>3. /\ Range(toGw') = Range(toGw) \cup {Invitation, reply}
        /\ DOMAIN toGw = 1..Len(toGw) /\ DOMAIN toGw' = 1..(Len(toGw) + 2) /\ Len(toGw) \in Nat
        /\ \A i \in DOMAIN toGw : toGw'[i] = toGw[i]
        /\ toGw'[Len(toGw) + 1] = Invitation /\ toGw'[Len(toGw) + 2] = reply
        /\ Range(toExch) = {r} \cup Range(toExch')
        /\ UNCHANGED <<OutPF, Bidqueue, Mktqueue, hand, spc>>
    BY <1>9, <2>1, <2>2, AnswerFacts DEF AcceptCancel, TypeOK
  <2>4. /\ ~IsConfirm(reply) /\ ~IsReject(reply) /\ reply.code # 20222
        /\ ~IsConfirm(Invitation) /\ ~IsReject(Invitation) /\ Invitation.code # 20222
    BY DEF IsConfirm, IsReject, Invitation, Update
  <2>5. /\ \A m \in Range(toGw') : m \in Range(toGw) \/ Harmless(m)
        /\ \A i \in DOMAIN toGw' : IsConfirm(toGw'[i]) => i \in DOMAIN toGw /\ toGw[i] = toGw'[i]
    BY <2>3, <2>4 DEF Harmless
  <2>6. /\ OrderNumbers' = OrderNumbers
        /\ \A n \in OrderNumbers : /\ book'[n].id = book[n].id
                                   /\ book'[n].rem = IF n = k THEN 0 ELSE book[n].rem
    <3>1. 0 \in 0..Lots
      OBVIOUS
    <3>2. book' = [book EXCEPT ![k].rem = 0]
      BY <1>9 DEF AcceptCancel
    <3> HIDE DEF k
    <3> QED
      BY <2>1, <3>1, <3>2, BookStep DEF TypeOK
  <2>7. \A n \in OrderNumbers : book'[n].rem > 0 /\ CancelUnderWay(n) => CancelUnderWay(n)'
    <3>1. \A n \in OrderNumbers : n # k => r # CancelOf(n)
      BY DEF CancelOf, OmRequest
    <3> QED
      BY <2>3, <2>6, <3>1 DEF CancelUnderWay
  <2>8. /\ Range(toExch') \subseteq Range(toExch) /\ Range(toGw) \subseteq Range(toGw')
        /\ \A n \in OrderNumbers : /\ book'[n].id = book[n].id
                                   /\ book[n].rem = 0 => book'[n].rem = 0
                                   /\ book'[n].rem > 0 => book[n].rem > 0
    BY <2>3, <2>6
  <2> HIDE DEF k
  <2> QED
    BY <2>3, <2>5, <2>6, <2>7, <2>8, OwnershipAnswer
<1> QED
  BY <1>3, <1>4, <1>5, <1>6, <1>7, <1>8, <1>9 DEF ExchangeAnswers

\* A fill never revives an order, and the last one is reported as the last.
LEMMA OwnershipFill ==
    ASSUME TypeOK, OwnershipInv, NEW k \in OrderNumbers, Fill(k)
    PROVE  OwnershipInv'
<1> DEFINE r == book[k].rem - 1
           reply == Trade(k, r)
<1>1. book[k].rem \in 1..Lots /\ r \in 0..Lots /\ r \in Nat /\ k \in Nat
  <2>1. 0 \in 0..Lots
    OBVIOUS
  <2>2. book[k].rem \in 0..Lots /\ book[k].rem > 0
    BY <2>1, BookUpdate DEF TypeOK, Fill, IsLive
  <2> QED
    BY <2>2 DEF OrderNumbers, TypeOK, BookTypes
<1>2. /\ OrderNumbers' = OrderNumbers
      /\ \A n \in OrderNumbers : /\ book'[n].id = book[n].id
                                 /\ book'[n].rem = IF n = k THEN r ELSE book[n].rem
  <2>1. book' = [book EXCEPT ![k].rem = r]
    BY DEF Fill
  <2> QED
    BY <1>1, <2>1, BookStep DEF TypeOK
<1>3. reply \in Packet /\ reply.code = 20222 /\ reply.rem = r /\ reply.order = k
  BY <1>1, PacketTypes DEF Trade
<1>4. /\ toGw \in Seq(Packet) /\ toGw' = Append(toGw, reply)
      /\ UNCHANGED <<OutPF, Bidqueue, Mktqueue, hand, spc>> /\ toExch' = toExch
  BY DEF Fill, TypeOK, WireTypes, ExchangeUnchanged, queueVars, senderVars, tableVars
<1>5. Range(toGw') = Range(toGw) \cup {reply}
  BY <1>3, <1>4, RangeFacts
<1>6. \A i \in DOMAIN toGw' : IsConfirm(toGw'[i]) => i \in DOMAIN toGw /\ toGw[i] = toGw'[i]
  <2>1. /\ DOMAIN toGw = 1..Len(toGw) /\ DOMAIN toGw' = 1..(Len(toGw) + 1) /\ Len(toGw) \in Nat
        /\ \A i \in DOMAIN toGw : toGw'[i] = toGw[i]
        /\ toGw'[Len(toGw) + 1] = reply
    BY <1>3, <1>4
  <2> QED
    BY <1>3, <2>1 DEF IsConfirm
<1>7. \A m \in Range(toGw') : m \in Range(toGw) \/ Harmless(m)
  BY <1>1, <1>2, <1>3, <1>5 DEF Harmless, IsConfirm, IsReject
<1>8. \A n \in OrderNumbers : /\ book[n].rem = 0 => book'[n].rem = 0
                              /\ book'[n].rem > 0 => book[n].rem > 0
  BY <1>1, <1>2
<1>9. \A n \in OrderNumbers : book'[n].rem > 0 /\ CancelUnderWay(n) => CancelUnderWay(n)'
  BY <1>4 DEF CancelUnderWay
<1>10. Range(toExch') \subseteq Range(toExch) /\ Range(toGw) \subseteq Range(toGw')
  BY <1>4, <1>5
<1> HIDE DEF r
<1> QED
  BY <1>2, <1>4, <1>5, <1>6, <1>7, <1>8, <1>9, <1>10, OwnershipAnswer

-----------------------------------------------------------------------------
\* OwnershipInv is inductive given the types: the reader's records, the queues and
\* the wire agree on who is in charge of each order number in every reachable state.
THEOREM OwnershipInvariant == Spec => []OwnershipInv
<1>1. Init => OwnershipInv
  BY OwnershipInit
<1>2. TypeOK /\ OwnershipInv /\ [Next]_vars => OwnershipInv'
  <2> SUFFICES ASSUME TypeOK, OwnershipInv, [Next]_vars PROVE OwnershipInv'
    OBVIOUS
  <2>1. CASE Sender
    BY <2>1, OwnershipSender
  <2>2. CASE Reader
    BY <2>2, OwnershipReader
  <2>3. CASE ExchangeAnswers
    BY <2>3, OwnershipExchange
  <2>4. CASE \E o \in NewOrders : Submit(o)
    BY <2>4, OwnershipSubmit
  <2>5. CASE \E op \in {"modify", "cancel"}, n \in OrderNumbers : SubmitOm(op, n)
    BY <2>5, OwnershipSubmitOm
  <2>6. CASE \E n \in OrderNumbers : Fill(n)
    BY <2>6, OwnershipFill
  <2>7. CASE UNCHANGED vars
    <3>1. UNCHANGED <<book, toGw, OutPF>> /\ UNCHANGED <<Bidqueue, Mktqueue, toExch, hand, spc>>
      BY <2>7 DEF vars, queueVars, senderVars, tableVars, wireVars
    <3>2. \A r \in InFlight' : IsOm(r) => r \in InFlight
      BY <3>1 DEF InFlight
    <3>3. \A n \in OrderNumbers : CancelUnderWay(n) => CancelUnderWay(n)'
      BY <3>1 DEF CancelUnderWay
    <3> QED
      BY <3>1, <3>2, <3>3, OwnershipFrame
  <2> QED
    BY <2>1, <2>2, <2>3, <2>4, <2>5, <2>6, <2>7 DEF Next
<1> QED
  BY <1>1, <1>2, TypeCorrect, PTL DEF Spec

\* No working order is ever without somebody in charge, for any number of orders:
\* its record leads to a holder, or its cancel is under way.
THEOREM LiveOrdersManaged == Spec => []EveryLiveOrderIsManaged
<1>1. OwnershipInv => EveryLiveOrderIsManaged
  BY DEF OwnershipInv
<1> QED
  BY <1>1, OwnershipInvariant, PTL

\* What the exchange says of a working order reaches a holder that asked for the
\* same token, price, volume and side.
THEOREM LiveOrdersRoutedByKey == Spec => []RoutedByKey
<1>1. OwnershipInv => RoutedByKey
  BY DEF OwnershipInv
<1> QED
  BY <1>1, OwnershipInvariant, PTL

-----------------------------------------------------------------------------
(* The invitations on the wire, counted.                                    *)

Invitations(s) == {i \in DOMAIN s : s[i] = Invitation}
Granted(s) == Cardinality(Invitations(s))

\* A finite sequence holds finitely many invitations.
LEMMA InvitationsFinite ==
    ASSUME NEW s \in Seq(Packet)
    PROVE  IsFiniteSet(Invitations(s)) /\ Granted(s) \in Nat
<1>1. Len(s) \in Nat /\ DOMAIN s = 1..Len(s)
  OBVIOUS
<1>2. IsFiniteSet(1..Len(s))
  BY <1>1, FS_Interval
<1>3. Invitations(s) \in SUBSET (1..Len(s))
  BY <1>1 DEF Invitations
<1>4. IsFiniteSet(Invitations(s))
  BY <1>2, <1>3, FS_Subset
<1> QED
  BY <1>4, FS_CardinalityType DEF Granted

\* A packet behind the others counts if it is an invitation.
LEMMA GrantedAppend ==
    ASSUME NEW s \in Seq(Packet), NEW m \in Packet
    PROVE  Granted(Append(s, m)) = Granted(s) + (IF m = Invitation THEN 1 ELSE 0)
<1>1. /\ Len(s) \in Nat /\ DOMAIN s = 1..Len(s) /\ DOMAIN Append(s, m) = 1..(Len(s) + 1)
      /\ \A i \in 1..Len(s) : Append(s, m)[i] = s[i]
      /\ Append(s, m)[Len(s) + 1] = m
  OBVIOUS
<1>2. CASE m = Invitation
  <2>1. Invitations(Append(s, m)) = Invitations(s) \cup {Len(s) + 1}
    BY <1>1, <1>2 DEF Invitations
  <2>2. Len(s) + 1 \notin Invitations(s)
    BY <1>1 DEF Invitations
  <2> QED
    BY <1>2, <2>1, <2>2, InvitationsFinite, FS_AddElement DEF Granted
<1>3. CASE m # Invitation
  <2>1. Invitations(Append(s, m)) = Invitations(s)
    BY <1>1, <1>3 DEF Invitations
  <2> QED
    BY <1>3, <2>1, InvitationsFinite DEF Granted
<1> QED
  BY <1>2, <1>3

\* The first packet takes its invitation along.
LEMMA GrantedTail ==
    ASSUME NEW s \in Seq(Packet), s # <<>>
    PROVE  Granted(s) = Granted(Tail(s)) + (IF Head(s) = Invitation THEN 1 ELSE 0)
<1> DEFINE Rest == Invitations(s) \ {1}
           shift == [i \in Rest |-> i - 1]
<1>1. /\ Len(s) \in Nat \ {0} /\ DOMAIN s = 1..Len(s) /\ Head(s) = s[1]
      /\ Tail(s) \in Seq(Packet) /\ DOMAIN Tail(s) = 1..(Len(s) - 1)
      /\ \A i \in 1..(Len(s) - 1) : Tail(s)[i] = s[i + 1]
  OBVIOUS
<1>2. shift \in Bijection(Rest, Invitations(Tail(s)))
  <2>1. \A i \in Rest : i \in 2..Len(s) /\ i - 1 \in Invitations(Tail(s))
    BY <1>1 DEF Invitations
  <2>2. \A j \in Invitations(Tail(s)) : j + 1 \in Rest /\ shift[j + 1] = j
    BY <1>1 DEF Invitations
  <2>3. \A i, j \in Rest : shift[i] = shift[j] => i = j
    BY <2>1
  <2>4. shift \in [Rest -> Invitations(Tail(s))]
    BY <2>1
  <2> HIDE DEF shift, Rest
  <2>5. DOMAIN shift = Rest
    BY <2>4
  <2> QED
    BY <2>2, <2>3, <2>4, <2>5 DEF Bijection, Injection, Surjection, IsInjective
<1>3. IsFiniteSet(Rest) /\ Cardinality(Rest) = IF 1 \in Invitations(s) THEN Granted(s) - 1 ELSE Granted(s)
  BY InvitationsFinite, FS_RemoveElement DEF Granted
<1>4. ExistsBijection(Rest, Invitations(Tail(s)))
  BY <1>2 DEF ExistsBijection
<1>5. Granted(Tail(s)) = Cardinality(Rest)
  BY <1>3, <1>4, FS_Bijection DEF Granted
<1>6. 1 \in Invitations(s) <=> Head(s) = Invitation
  BY <1>1 DEF Invitations
<1> QED
  BY <1>3, <1>5, <1>6, InvitationsFinite

\* What the reader owes the counter or has written early, and what the sender has.
Reading ==
    (IF rpc = "grant" THEN 1 ELSE 0) - (IF rpc \in {"spend", "storeSpend"} THEN 1 ELSE 0)
Busy == IF spc \in {"loadInv", "storeInv"} THEN 1 ELSE 0
Owed == Reading - Busy

Total == InvitationCount + Granted(toGw) + Len(toExch) + Owed

\* The total is a sum of integers, and CreditConserved says that it is 1.
LEMMA TotalFacts ==
    ASSUME TypeOK
    PROVE  /\ InvitationCount \in Int /\ Granted(toGw) \in Nat /\ Len(toExch) \in Nat /\ Owed \in Int
           /\ CreditConserved <=> (~lostUpdate => Total = 1)
<1>1. InvitationCount \in Int /\ Granted(toGw) \in Nat /\ Len(toExch) \in Nat
  BY InvitationsFinite DEF TypeOK, SharedTypes, WireTypes
<1>2. Owed \in Int
  BY DEF Owed, Reading, Busy
<1>3. Cardinality({i \in DOMAIN toGw : toGw[i] = Invitation}) = Granted(toGw)
  BY DEF Granted, Invitations
<1>4. ~lostUpdate => (Total = 1 <=> CreditConserved)
  BY <1>1, <1>3 DEF CreditConserved, Total, Owed, Reading, Busy
<1>5. lostUpdate => CreditConserved
  BY DEF CreditConserved
<1> QED
  BY <1>1, <1>2, <1>4, <1>5

\* The same of the next state.
LEMMA TotalNext ==
    ASSUME TypeOK'
    PROVE  /\ InvitationCount' \in Int /\ Granted(toGw') \in Nat /\ Len(toExch') \in Nat
           /\ Owed' \in Int
           /\ CreditConserved' <=> (~lostUpdate' => Total' = 1)
<1>1. InvitationCount' \in Int /\ Granted(toGw') \in Nat /\ Len(toExch') \in Nat
  BY InvitationsFinite DEF TypeOK, SharedTypes, WireTypes
<1>2. Owed' \in Int
  BY DEF Owed, Reading, Busy
<1>3. Cardinality({i \in DOMAIN toGw' : toGw'[i] = Invitation}) = Granted(toGw')
  BY DEF Granted, Invitations
<1>4. ~lostUpdate' => (Total' = 1 <=> CreditConserved')
  BY <1>1, <1>3 DEF CreditConserved, Total, Owed, Reading, Busy
<1>5. lostUpdate' => CreditConserved'
  BY DEF CreditConserved
<1> QED
  BY <1>1, <1>2, <1>4, <1>5

\* The connection comes with one invitation, which is on the wire.
LEMMA CreditInit == Init => CreditConserved
<1> SUFFICES ASSUME Init PROVE CreditConserved
  OBVIOUS
<1>1. {i \in DOMAIN toGw : toGw[i] = Invitation} = {1}
  BY DEF Init
<1>2. Cardinality({i \in DOMAIN toGw : toGw[i] = Invitation}) = 1
  BY <1>1, FS_Singleton
<1>3. InvitationCount = 0 /\ Len(toExch) = 0 /\ rpc = "recv" /\ spc = "poll"
  BY DEF Init
<1> QED
  BY <1>2, <1>3 DEF CreditConserved

\* The sender spends one invitation for each request it writes.
LEMMA CreditSender ==
    ASSUME TypeOK, TypeOK', CreditConserved, Sender
    PROVE  CreditConserved'
<1> USE DEF SenderUnchanged
<1>1. UNCHANGED <<toGw, rpc>>
  BY DEF Sender, Poll, PollSizes, PopMkt, ChooseBid, PopBid, LoadSeq, StoreSeq, Stamp, Send, LoadInv,
         StoreInv, PushBack, readerVars
<1> SUFFICES ASSUME ~lostUpdate' PROVE ~lostUpdate /\ Total' = Total
  BY TotalFacts, TotalNext, Zenon
<1>2. ~lostUpdate /\ InvitationCount' + Len(toExch') - Busy' = InvitationCount + Len(toExch) - Busy
  <2>1. CASE Send
    <3>1. Len(toExch') = Len(toExch) + 1
      BY <2>1 DEF Send, Write, TypeOK, WireTypes
    <3> QED
      BY <2>1, <3>1, TotalFacts DEF Send, sharedVars, Busy
  <2>2. CASE StoreInv
    <3>1. InvitationCount' = InvitationCount - 1 /\ ~lostUpdate
      BY <2>2 DEF StoreInv
    <3>2. toExch' = toExch /\ spc = "storeInv" /\ spc' \in {"push", "poll"}
      BY <2>2 DEF StoreInv
    <3> QED
      BY <3>1, <3>2, TotalFacts DEF Busy
  <2>3. CASE \/ Poll \/ PollSizes \/ PopMkt \/ ChooseBid \/ PopBid \/ LoadSeq \/ StoreSeq
             \/ Stamp \/ LoadInv \/ PushBack
    <3>1. UNCHANGED <<InvitationCount, toExch, lostUpdate>>
      BY <2>3 DEF Poll, PollSizes, PopMkt, ChooseBid, PopBid, LoadSeq, StoreSeq, Stamp, LoadInv,
                  PushBack, sharedVars
    <3>2. spc \in {"loadInv", "storeInv"} <=> spc' \in {"loadInv", "storeInv"}
      BY <2>3 DEF Poll, PollSizes, PopMkt, ChooseBid, PopBid, LoadSeq, StoreSeq, Stamp, LoadInv,
                  PushBack
    <3> QED
      BY <3>1, <3>2 DEF Busy
  <2> QED
    BY <2>1, <2>2, <2>3 DEF Sender
<1>3. Reading' = Reading /\ Reading \in Int /\ Busy \in Int /\ Busy' \in Int
  BY <1>1 DEF Reading, Busy
<1>4. Owed = Reading - Busy /\ Owed' = Reading' - Busy'
  BY DEF Owed
<1>5. Granted(toGw') = Granted(toGw)
  BY <1>1
<1>6. /\ Total = InvitationCount + Granted(toGw) + Len(toExch) + (Reading - Busy)
      /\ Total' = InvitationCount' + Granted(toGw') + Len(toExch') + (Reading' - Busy')
  BY <1>4 DEF Total
<1>7. /\ InvitationCount \in Int /\ Granted(toGw) \in Nat /\ Len(toExch) \in Nat
      /\ InvitationCount' \in Int /\ Len(toExch') \in Nat
  BY TotalFacts, TotalNext
<1>8. /\ Total = (InvitationCount + Len(toExch) - Busy) + (Granted(toGw) + Reading)
      /\ Total' = (InvitationCount' + Len(toExch') - Busy') + (Granted(toGw) + Reading)
  <2>1. Total = (InvitationCount + Len(toExch) - Busy) + (Granted(toGw) + Reading)
    BY <1>3, <1>6, <1>7, SMTT(60)
  <2>2. Total' = InvitationCount' + Granted(toGw) + Len(toExch') + (Reading - Busy')
    BY <1>3, <1>5, <1>6
  <2>3. Busy' \in Int /\ Reading \in Int /\ Granted(toGw) \in Int
    BY <1>3, <1>7
  <2>4. InvitationCount' \in Int /\ Len(toExch') \in Int
    BY <1>7
  <2> QED
    BY <2>1, <2>2, <2>3, <2>4, SMTT(60)
<1> QED
  BY <1>2, <1>8, Zenon

\* A packet that is no invitation changes nothing that counts.
LEMMA CreditPacket ==
    ASSUME TypeOK, Receives(Head(toGw)), Head(toGw).code # 15000, EndOfPacket, UNCHANGED sharedVars,
           spc' = spc \/ (spc = "push" /\ spc' = "poll")
    PROVE  Total' = Total /\ lostUpdate' = lostUpdate
<1>1. Granted(toGw) = Granted(toGw')
  <2>1. toGw \in Seq(Packet) /\ toGw # <<>> /\ toGw' = Tail(toGw)
    BY DEF TypeOK, WireTypes, Receives
  <2>2. Head(toGw) # Invitation
    BY DEF Invitation
  <2>3. Granted(toGw) = Granted(toGw') + 0
    BY <2>1, <2>2, GrantedTail
  <2>4. toGw' \in Seq(Packet)
    BY <2>1
  <2>5. Granted(toGw) \in Nat
    BY <2>1, InvitationsFinite
  <2>6. Granted(toGw') \in Nat
    BY <2>4, InvitationsFinite
  <2> QED
    BY <2>1, <2>3, <2>5, <2>6
<1>2. Owed' = Owed
  BY DEF Owed, Reading, Busy, Receives, EndOfPacket
<1> QED
  BY <1>1, <1>2 DEF Total, Receives, sharedVars

\* The reader adds an invitation it received, and spends one for each sign-on.
LEMMA CreditReader ==
    ASSUME TypeOK, TypeOK', CreditConserved, Reader
    PROVE  CreditConserved'
<1> SUFFICES ASSUME ~lostUpdate' PROVE ~lostUpdate /\ Total' = Total
  BY TotalFacts, TotalNext, Zenon
<1> USE DEF ReaderUnchanged
<1>1. CASE RecvInvitation
  <2>1. toGw \in Seq(Packet) /\ toGw # <<>> /\ toGw' = Tail(toGw) /\ Head(toGw) = Invitation
    BY <1>1 DEF RecvInvitation, TypeOK, WireTypes, Receives
  <2>2. Granted(toGw) = Granted(toGw') + 1
    BY <2>1, GrantedTail
  <2>3. Owed' = Owed + 1
    BY <1>1 DEF RecvInvitation, Owed, Reading, Busy, Receives
  <2> QED
    BY <1>1, <2>2, <2>3, TotalFacts, TotalNext DEF Total, RecvInvitation, Receives, sharedVars
<1>2. CASE Grant
  <2>1. InvitationCount' = InvitationCount + 1 /\ ~lostUpdate
    BY <1>2 DEF Grant
  <2>2. Owed' = Owed - 1
    BY <1>2 DEF Grant, EndOfPacket, Owed, Reading, Busy
  <2> QED
    BY <1>2, <2>1, <2>2, TotalFacts, TotalNext, SMTT(60) DEF Total, Grant, wireVars
<1>3. CASE RecvSignOnReply \/ RecvConfirm \/ RecvReject \/ RecvUpdate \/ RecvTrade
  <2>1. UNCHANGED sharedVars /\ EndOfPacket
    BY <1>3 DEF RecvSignOnReply, RecvConfirm, RecvReject, RecvUpdate, RecvTrade
  <2>2. Receives(Head(toGw)) /\ Head(toGw).code # 15000
    <3>1. CASE RecvSignOnReply
      BY <3>1 DEF RecvSignOnReply, Receives, SignOnReply
    <3>2. CASE RecvConfirm \/ RecvReject \/ RecvUpdate \/ RecvTrade
      BY <3>2 DEF RecvConfirm, RecvReject, RecvUpdate, RecvTrade
    <3> QED
      BY <1>3, <3>1, <3>2
  <2>3. spc' = spc \/ (spc = "push" /\ spc' = "poll")
    <3>1. CASE RecvSignOnReply \/ RecvUpdate \/ RecvTrade
      BY <3>1 DEF RecvSignOnReply, RecvUpdate, RecvTrade
    <3>2. CASE RecvConfirm
      BY <3>2 DEF RecvConfirm, GetPF
    <3>3. CASE RecvReject
      BY <3>3 DEF RecvReject, GetPF
    <3> QED
      BY <1>3, <3>1, <3>2, <3>3
  <2> QED
    BY <2>1, <2>2, <2>3, CreditPacket
<1>4. CASE SetSeq
  <2>1. Owed' = Owed
    BY <1>4 DEF SetSeq, Owed, Reading, Busy
  <2> QED
    BY <1>4, <2>1 DEF Total, SetSeq, wireVars
<1>5. CASE SendSignOn
  <2>1. Owed' = Owed - 1
    <3>1. rpc = "signOnSend" /\ rpc' = "spend" /\ Busy' = Busy /\ Busy \in Int
      BY <1>5 DEF SendSignOn, Busy
    <3>2. Owed = 0 - 0 - Busy /\ Owed' = 0 - 1 - Busy'
      BY <3>1 DEF Owed, Reading
    <3> QED
      BY <3>1, <3>2
  <2>2. Len(toExch') = Len(toExch) + 1
    BY <1>5 DEF SendSignOn, Write, TypeOK, WireTypes
  <2> QED
    BY <1>5, <2>1, <2>2, TotalFacts, TotalNext DEF Total, SendSignOn, sharedVars
<1>6. CASE LoadSpend
  <2>1. Owed' = Owed
    BY <1>6 DEF LoadSpend, Owed, Reading, Busy
  <2> QED
    BY <1>6, <2>1 DEF Total, LoadSpend, wireVars, sharedVars
<1>7. CASE StoreSpend
  <2>1. InvitationCount' = InvitationCount - 1 /\ ~lostUpdate
    BY <1>7 DEF StoreSpend
  <2>2. Owed' = Owed + 1
    <3>1. rpc = "storeSpend" /\ rpc' = "recv" /\ Busy' = Busy /\ Busy \in Int
      BY <1>7 DEF StoreSpend, Busy
    <3>2. Owed = 0 - 1 - Busy /\ Owed' = 0 - 0 - Busy'
      BY <3>1 DEF Owed, Reading
    <3> QED
      BY <3>1, <3>2
  <2> QED
    BY <1>7, <2>1, <2>2, TotalFacts, TotalNext, SMTT(60) DEF Total, StoreSpend, wireVars
<1> QED
  BY <1>1, <1>2, <1>3, <1>4, <1>5, <1>6, <1>7 DEF Reader

\* The exchange returns with each answer the invitation that the packet cost.
LEMMA CreditAnswer ==
    ASSUME TypeOK, TypeOK', NEW reply \in Packet, reply # Invitation, toExch # <<>>, Answer(reply)
    PROVE  Total' = Total /\ lostUpdate' = lostUpdate
<1>1. /\ toGw \in Seq(Packet) /\ Invitation \in Packet /\ Append(toGw, Invitation) \in Seq(Packet)
      /\ toGw' = Append(Append(toGw, Invitation), reply)
  BY PacketTypes DEF Answer, TypeOK, WireTypes
<1>2. /\ Granted(Append(toGw, Invitation)) = Granted(toGw) + 1
      /\ Granted(toGw') = Granted(Append(toGw, Invitation)) + 0
  BY <1>1, GrantedAppend
<1>3. Len(toExch') = Len(toExch) - 1
  BY DEF Answer, TypeOK, WireTypes
<1>4. /\ UNCHANGED <<InvitationCount, lostUpdate>>
      /\ Owed' = Owed
  BY DEF Answer, ExchangeUnchanged, senderVars, readerVars, sharedVars, Owed, Reading,
         Busy
<1> QED
  BY <1>2, <1>3, <1>4, TotalFacts, TotalNext DEF Total

\* Whatever the exchange answers, it grants one invitation and takes one packet.
LEMMA CreditExchange ==
    ASSUME TypeOK, TypeOK', CreditConserved, ExchangeAnswers
    PROVE  CreditConserved'
<1>1. \E reply \in Packet : reply # Invitation /\ toExch # <<>> /\ Answer(reply)
  <2>1. CASE AnswerSignOn
    BY <2>1, PacketTypes DEF AnswerSignOn, SignOnReply, Invitation, Asked
  <2>2. CASE AcceptNew
    <3>1. toExch # <<>> /\ Head(toExch).id \in NewOrders
      BY <2>2, AskedRequest DEF AcceptNew, TypeOK
    <3>2. KeyOf[Head(toExch).id] \in Keys /\ Len(book) + 1 \in Nat
      BY <3>1 DEF TypeOK, BookTypes
    <3> DEFINE reply == Confirm(Len(book) + 1, KeyOf[Head(toExch).id])
    <3>3. reply \in Packet
      BY <3>2, PacketTypes
    <3>4. reply # Invitation
      BY DEF Confirm, Invitation
    <3> QED
      BY <2>2, <3>1, <3>3, <3>4 DEF AcceptNew
  <2>3. CASE RejectNew
    <3>1. toExch # <<>> /\ Head(toExch).id \in NewOrders
      BY <2>3, AskedRequest DEF RejectNew, TypeOK
    <3>2. KeyOf[Head(toExch).id] \in Keys /\ Len(book) + 1 \in Nat
      BY <3>1 DEF TypeOK, BookTypes
    <3> DEFINE reply == Reject(2231, 0, KeyOf[Head(toExch).id])
    <3>3. reply \in Packet
      BY <3>2 DEF Reject, Packet
    <3>4. reply # Invitation
      BY DEF Reject, Invitation
    <3> QED
      BY <2>3, <3>1, <3>3, <3>4 DEF RejectNew
  <2>4. CASE AcceptModify
    <3>1. toExch # <<>> /\ Head(toExch).order \in Nat
      BY <2>4, AskedRequest DEF AcceptModify, TypeOK
    <3> DEFINE reply == Update(20074, Head(toExch).order)
    <3>2. reply \in Packet
      BY <3>1, PacketTypes
    <3>3. reply # Invitation
      BY DEF Update, Invitation
    <3> QED
      BY <2>4, <3>1, <3>2, <3>3 DEF AcceptModify
  <2>5. CASE RejectModify
    <3>1. toExch # <<>> /\ Head(toExch).order \in Nat
      BY <2>5, AskedRequest DEF RejectModify, TypeOK
    <3>2. PICK k \in Keys : Answer(Reject(2042, Head(toExch).order, k))
      BY <2>5 DEF RejectModify
    <3> DEFINE reply == Reject(2042, Head(toExch).order, k)
    <3>3. reply \in Packet
      BY <3>1, PacketTypes
    <3>4. reply # Invitation
      BY DEF Reject, Invitation
    <3> QED
      BY <3>1, <3>2, <3>3, <3>4
  <2>6. CASE AcceptCancel
    <3>1. toExch # <<>> /\ Head(toExch).order \in Nat
      BY <2>6, AskedRequest DEF AcceptCancel, TypeOK
    <3> DEFINE reply == Update(20075, Head(toExch).order)
    <3>2. reply \in Packet
      BY <3>1, PacketTypes
    <3>3. reply # Invitation
      BY DEF Update, Invitation
    <3> QED
      BY <2>6, <3>1, <3>2, <3>3 DEF AcceptCancel
  <2>7. CASE RejectCancel
    <3>1. toExch # <<>> /\ Head(toExch).order \in Nat
      BY <2>7, AskedRequest DEF RejectCancel, TypeOK
    <3>2. PICK k \in Keys : Answer(Reject(2072, Head(toExch).order, k))
      BY <2>7 DEF RejectCancel
    <3> DEFINE reply == Reject(2072, Head(toExch).order, k)
    <3>3. reply \in Packet
      BY <3>1, PacketTypes
    <3>4. reply # Invitation
      BY DEF Reject, Invitation
    <3> QED
      BY <3>1, <3>2, <3>3, <3>4
  <2> QED
    BY <2>1, <2>2, <2>3, <2>4, <2>5, <2>6, <2>7 DEF ExchangeAnswers
<1> QED
  BY <1>1, CreditAnswer, TotalFacts, TotalNext

\* A fill is reported without an invitation.
LEMMA CreditFill ==
    ASSUME TypeOK, TypeOK', CreditConserved, NEW n \in OrderNumbers, Fill(n)
    PROVE  CreditConserved'
<1>1. n \in Nat /\ book[n].rem - 1 \in Nat
  <2>1. n \in 1..Len(book) /\ book[n] \in [id : NewOrders, rem : 0..Lots]
    BY SequenceTypes DEF TypeOK, BookTypes, OrderNumbers
  <2> QED
    BY <2>1 DEF Fill, IsLive
<1> DEFINE m == Trade(n, book[n].rem - 1)
<1>2. m \in Packet /\ m # Invitation
  BY <1>1, PacketTypes DEF Trade, Invitation
<1>3. toGw' = Append(toGw, m) /\ toGw \in Seq(Packet)
  BY DEF Fill, TypeOK, WireTypes
<1> HIDE DEF m
<1>4. Granted(toGw') = Granted(toGw) + 0
  BY <1>2, <1>3, GrantedAppend
<1>5. UNCHANGED <<InvitationCount, lostUpdate, toExch>> /\ Owed' = Owed
  BY DEF Fill, ExchangeUnchanged, senderVars, readerVars, sharedVars, Owed, Reading,
         Busy
<1> QED
  BY <1>4, <1>5, TotalFacts, TotalNext DEF Total

\* Invitations are neither lost nor minted, for any number of orders and requests:
\* short of a store that undoes another, the counter, the wire and the steps half
\* done add up to one.
THEOREM Credit == Spec => []CreditConserved
<1>1. Init => CreditConserved
  BY CreditInit
<1>2. TypeOK /\ TypeOK' /\ CreditConserved /\ [Next]_vars => CreditConserved'
  <2> SUFFICES ASSUME TypeOK, TypeOK', CreditConserved, [Next]_vars PROVE CreditConserved'
    OBVIOUS
  <2>1. CASE Sender
    BY <2>1, CreditSender
  <2>2. CASE Reader
    BY <2>2, CreditReader
  <2>3. CASE ExchangeAnswers
    BY <2>3, CreditExchange
  <2>4. CASE \/ \E o \in NewOrders : Submit(o)
             \/ \E op \in {"modify", "cancel"}, n \in OrderNumbers : SubmitOm(op, n)
             \/ UNCHANGED vars
    <3>1. UNCHANGED <<sharedVars, toGw, toExch, rpc, spc>>
      BY <2>4 DEF Submit, SubmitOm, vars, wireVars, senderVars, readerVars
    <3> QED
      BY <3>1 DEF CreditConserved, sharedVars
  <2>5. CASE \E n \in OrderNumbers : Fill(n)
    BY <2>5, CreditFill
  <2> QED
    BY <2>1, <2>2, <2>3, <2>4, <2>5 DEF Next
<1> QED
  BY <1>1, <1>2, TypeCorrect, PTL DEF Spec

-----------------------------------------------------------------------------
(* One request, one place: where a new order is between its submission and  *)
(* the record that makes it the owner of an order number.                   *)

Once(q) == \A i, j \in DOMAIN q : q[i].op = "new" /\ q[i] = q[j] => i = j

QueuedIn(q) == {o \in NewOrders : NewRequest(o) \in Range(q)}

Carrying == {"loadSeq", "storeSeq", "stamp", "send", "loadInv", "storeInv", "push"}
InHand == {o \in NewOrders : hand = NewRequest(o) /\ spc \in Carrying}
Listed == Range(QueueHolder)
Recorded == {OutPF[n] : n \in DOMAIN OutPF \ {0}} \ {Orphan}

\* A new order is waiting, in a queue, with the sender, in the vector or in a record.
Apart ==
    /\ pending \cap (QueuedIn(Bidqueue) \cup QueuedIn(Mktqueue) \cup InHand \cup Listed \cup Recorded) = {}
    /\ QueuedIn(Bidqueue) \cap (QueuedIn(Mktqueue) \cup InHand \cup Listed \cup Recorded) = {}
    /\ QueuedIn(Mktqueue) \cap (InHand \cup Listed \cup Recorded) = {}
    /\ InHand \cap (Listed \cup Recorded) = {}
    /\ Listed \cap Recorded = {}

OneRecord ==
    \A m, n \in DOMAIN OutPF \ {0} : OutPF[m] = OutPF[n] /\ OutPF[n] # Orphan => m = n

\* The inductive form of OneOrderPerHolder: it is there once.
PlaceInv ==
    /\ Apart /\ OneRecord
    /\ Once(Bidqueue) /\ Once(Mktqueue) /\ IsInjective(QueueHolder)

\* What joins a queue that does not have it is there once.
LEMMA OnceAppend ==
    ASSUME NEW q \in Seq(Request), NEW r \in Request, Once(q), r.op = "new" => r \notin Range(q)
    PROVE  /\ Once(Append(q, r))
           /\ \A o \in NewOrders : r = NewRequest(o) =>
                QueuedIn(Append(q, r)) = QueuedIn(q) \cup {o}
           /\ r.op # "new" => QueuedIn(Append(q, r)) = QueuedIn(q)
<1>1. /\ Len(q) \in Nat /\ DOMAIN q = 1..Len(q) /\ DOMAIN Append(q, r) = 1..(Len(q) + 1)
      /\ \A i \in 1..Len(q) : Append(q, r)[i] = q[i]
      /\ Append(q, r)[Len(q) + 1] = r
  OBVIOUS
<1>2. Once(Append(q, r))
  <2> DEFINE s == Append(q, r)
  <2> SUFFICES ASSUME NEW i \in DOMAIN s, NEW j \in DOMAIN s, s[i].op = "new", s[i] = s[j]
               PROVE  i = j
    BY DEF Once
  <2>1. \A k \in 1..Len(q) : q[k] \in Range(q)
    BY <1>1 DEF Range
  <2>2. CASE i \in 1..Len(q) /\ j \in 1..Len(q)
    BY <1>1, <2>2 DEF Once
  <2>3. CASE i = Len(q) + 1 /\ j = Len(q) + 1
    BY <2>3
  <2>4. CASE i \in 1..Len(q) /\ j = Len(q) + 1
    BY <1>1, <2>1, <2>4
  <2>5. CASE i = Len(q) + 1 /\ j \in 1..Len(q)
    BY <1>1, <2>1, <2>5
  <2> QED
    BY <1>1, <2>2, <2>3, <2>4, <2>5
<1>3. Range(Append(q, r)) = Range(q) \cup {r}
  BY RangeFacts
<1>4. \A o, p \in NewOrders : NewRequest(o) = NewRequest(p) => o = p
  BY DEF NewRequest
<1>5. \A o \in NewOrders : NewRequest(o).op = "new"
  BY DEF NewRequest
<1> QED
  BY <1>2, <1>3, <1>4, <1>5 DEF QueuedIn

\* What leaves a queue where it was once is no longer there.
LEMMA OnceTail ==
    ASSUME NEW q \in Seq(Request), q # <<>>, Once(q)
    PROVE  /\ Once(Tail(q)) /\ QueuedIn(Tail(q)) \subseteq QueuedIn(q)
           /\ Head(q).op = "new" => Head(q) \notin Range(Tail(q))
           /\ Head(q) \in Range(q)
<1>1. /\ Len(q) \in Nat \ {0} /\ DOMAIN q = 1..Len(q) /\ Head(q) = q[1]
      /\ DOMAIN Tail(q) = 1..(Len(q) - 1)
      /\ \A i \in 1..(Len(q) - 1) : Tail(q)[i] = q[i + 1]
  OBVIOUS
<1>2. Once(Tail(q))
  <2> SUFFICES ASSUME NEW i \in DOMAIN Tail(q), NEW j \in DOMAIN Tail(q),
                      Tail(q)[i].op = "new", Tail(q)[i] = Tail(q)[j]
               PROVE  i = j
    BY DEF Once
  <2>1. i + 1 \in DOMAIN q /\ j + 1 \in DOMAIN q /\ i \in Nat /\ j \in Nat
    BY <1>1
  <2>2. i + 1 = j + 1
    BY <1>1, <2>1 DEF Once
  <2> QED
    BY <2>1, <2>2
<1>3. Head(q).op = "new" => Head(q) \notin Range(Tail(q))
  <2> SUFFICES ASSUME Head(q).op = "new", NEW i \in DOMAIN Tail(q), Tail(q)[i] = Head(q) PROVE FALSE
    BY DEF Range
  <2>1. i + 1 \in DOMAIN q /\ 1 \in DOMAIN q /\ i \in 1..(Len(q) - 1)
    BY <1>1
  <2>2. i + 1 = 1
    BY <1>1, <2>1 DEF Once
  <2> QED
    BY <2>1, <2>2
<1>4. Range(q) = {Head(q)} \cup Range(Tail(q))
  BY RangeFacts
<1> QED
  BY <1>2, <1>3, <1>4 DEF QueuedIn

\* Behind the first of two sequences comes the second.
LEMMA ConcatAfter ==
    ASSUME NEW S, NEW a \in Seq(S), NEW b \in Seq(S), NEW k \in 1..(Len(a) + Len(b)), k > Len(a)
    PROVE  (a \o b)[k] = b[k - Len(a)]
  OBVIOUS

\* What stood behind the element removed moves one place ahead.
LEMMA RemoveAtAfter ==
    ASSUME NEW S, NEW v \in Seq(S), NEW i \in DOMAIN v, NEW k \in 1..(Len(v) - 1), k >= i
    PROVE  RemoveAt(v, i)[k] = v[k + 1]
<1> DEFINE a == SubSeq(v, 1, i - 1)
           b == SubSeq(v, i + 1, Len(v))
<1>1. i \in 1..Len(v) /\ Len(v) \in Nat
  OBVIOUS
<1>2. a \in Seq(S) /\ Len(a) = i - 1
  BY <1>1
<1>3. b \in Seq(S) /\ Len(b) = Len(v) - i
  BY <1>1
<1>4. \A j \in 1..(Len(v) - i) : b[j] = v[i + j]
  BY <1>1
<1> HIDE DEF a, b
<1>5. k \in 1..(Len(a) + Len(b)) /\ k > Len(a) /\ k - Len(a) = k - i + 1
  BY <1>1, <1>2, <1>3
<1>6. (a \o b)[k] = b[k - Len(a)]
  BY <1>2, <1>3, <1>5, ConcatAfter, SMTT(30)
<1>7. k - i + 1 \in 1..(Len(v) - i) /\ i + (k - i + 1) = k + 1
  BY <1>1
<1>8. b[k - i + 1] = v[k + 1]
  BY <1>4, <1>7
<1> QED
  BY <1>5, <1>6, <1>8 DEF RemoveAt, a, b

\* A vector without the element at i: those before it stay, those behind it move.
LEMMA RemoveAtIs ==
    ASSUME NEW S, NEW v \in Seq(S), NEW i \in DOMAIN v
    PROVE  /\ DOMAIN RemoveAt(v, i) = 1..(Len(v) - 1)
           /\ \A k \in 1..(Len(v) - 1) : RemoveAt(v, i)[k] = v[IF k < i THEN k ELSE k + 1]
<1>1. DOMAIN RemoveAt(v, i) = 1..(Len(v) - 1)
  BY DEF RemoveAt
<1>2. ASSUME NEW k \in 1..(Len(v) - 1), k < i PROVE RemoveAt(v, i)[k] = v[k]
  BY <1>2 DEF RemoveAt
<1>3. i \in Int
  OBVIOUS
<1> QED
  BY <1>1, <1>2, <1>3, RemoveAtAfter

\* A holder that joins a vector without it, or leaves a vector where it was once.
LEMMA HolderMoves ==
    ASSUME NEW v \in Seq(NewOrders), IsInjective(v)
    PROVE  /\ \A o \in NewOrders : o \notin Range(v) =>
                IsInjective(Append(v, o)) /\ Range(Append(v, o)) = Range(v) \cup {o}
           /\ \A i \in DOMAIN v :
                /\ IsInjective(RemoveAt(v, i)) /\ Range(RemoveAt(v, i)) \subseteq Range(v)
                /\ v[i] \notin Range(RemoveAt(v, i)) /\ v[i] \in Range(v)
<1>1. ASSUME NEW o \in NewOrders, o \notin Range(v)
      PROVE  IsInjective(Append(v, o)) /\ Range(Append(v, o)) = Range(v) \cup {o}
  <2>1. /\ Len(v) \in Nat /\ DOMAIN v = 1..Len(v) /\ DOMAIN Append(v, o) = 1..(Len(v) + 1)
        /\ \A i \in 1..Len(v) : Append(v, o)[i] = v[i]
        /\ Append(v, o)[Len(v) + 1] = o
    OBVIOUS
  <2>2. \A i \in 1..Len(v) : v[i] # o
    BY <1>1, <2>1 DEF Range
  <2> QED
    BY <2>1, <2>2, RangeFacts DEF IsInjective
<1>2. ASSUME NEW i \in DOMAIN v
      PROVE  /\ IsInjective(RemoveAt(v, i)) /\ Range(RemoveAt(v, i)) \subseteq Range(v)
             /\ v[i] \notin Range(RemoveAt(v, i)) /\ v[i] \in Range(v)
  <2> DEFINE w == RemoveAt(v, i)
             at(k) == IF k < i THEN k ELSE k + 1
  <2>1. /\ Len(v) \in Nat \ {0} /\ DOMAIN v = 1..Len(v) /\ i \in 1..Len(v)
        /\ DOMAIN w = 1..(Len(v) - 1)
        /\ \A k \in 1..(Len(v) - 1) : w[k] = v[at(k)]
    BY RemoveAtIs
  <2>2. \A k \in 1..(Len(v) - 1) : at(k) \in 1..Len(v) /\ at(k) # i
    BY <2>1
  <2>3. \A j, k \in 1..(Len(v) - 1) : at(j) = at(k) => j = k
    OBVIOUS
  <2> HIDE DEF w, at
  <2>4. \A k \in 1..(Len(v) - 1) : w[k] # v[i] /\ w[k] \in Range(v)
    BY <2>1, <2>2 DEF IsInjective, Range
  <2>5. IsInjective(w)
    BY <2>1, <2>2, <2>3 DEF IsInjective
  <2>6. Range(w) \subseteq Range(v) /\ v[i] \notin Range(w) /\ v[i] \in Range(v)
    BY <2>1, <2>4 DEF Range
  <2> QED
    BY <2>5, <2>6 DEF w
<1> QED
  BY <1>1, <1>2

\* A request held in the hand is the one it names.
LEMMA HandIs ==
    ASSUME TypeOK, hand.op = "new"
    PROVE  hand.id \in NewOrders /\ hand = NewRequest(hand.id)
  BY DEF TypeOK, SenderTypes, Request, NewRequest

\* At the start every order is pending.
LEMMA PlaceInit == Init => PlaceInv
<1> SUFFICES ASSUME Init PROVE PlaceInv
  OBVIOUS
<1>1. QueuedIn(Bidqueue) = {} /\ QueuedIn(Mktqueue) = {} /\ Listed = {}
  BY DEF Init, QueuedIn, Listed, Range
<1>2. InHand = {}
  BY DEF Init, InHand, Carrying
<1>3. DOMAIN OutPF = {} /\ Recorded = {}
  BY DEF Init, Recorded
<1>4. OneRecord
  BY <1>3 DEF OneRecord
<1>5. Once(Bidqueue) /\ Once(Mktqueue) /\ IsInjective(QueueHolder)
  BY DEF Init, Once, IsInjective
<1> QED
  BY <1>1, <1>2, <1>3, <1>4, <1>5 DEF PlaceInv, Apart

\* A step after which no place holds more keeps the places apart.
LEMMA ApartShrinks ==
    ASSUME Apart, pending' \subseteq pending, QueuedIn(Bidqueue') \subseteq QueuedIn(Bidqueue),
           QueuedIn(Mktqueue') \subseteq QueuedIn(Mktqueue), InHand' \subseteq InHand,
           Listed' \subseteq Listed, Recorded' \subseteq Recorded
    PROVE  Apart'
  BY DEF Apart, QueuedIn

\* A submitted order goes from pending to one of the queues.
LEMMA PlaceSubmit ==
    ASSUME TypeOK, PlaceInv, NEW o \in NewOrders, Submit(o)
    PROVE  PlaceInv'
<1> USE DEF TypeOK, QueueTypes
<1>1. UNCHANGED <<hand, spc, QueueHolder, OutPF>>
  BY DEF Submit, senderVars, tableVars
<1>2. /\ OneRecord' /\ IsInjective(QueueHolder')
      /\ InHand' = InHand /\ Listed' = Listed /\ Recorded' = Recorded
  BY <1>1 DEF PlaceInv, OneRecord, InHand, Listed, Recorded
<1>3. o \in pending /\ pending' = pending \ {o} /\ NewRequest(o) \in Request
  BY RequestTypes DEF Submit
<1>4. NewRequest(o) \notin Range(Bidqueue) /\ NewRequest(o) \notin Range(Mktqueue)
  BY <1>3 DEF PlaceInv, Apart, QueuedIn
<1>5. CASE o \in MarketOrders
  <2>1. Mktqueue' = Append(Mktqueue, NewRequest(o)) /\ Bidqueue' = Bidqueue
    BY <1>5 DEF Submit
  <2>2. Once(Mktqueue') /\ QueuedIn(Mktqueue') = QueuedIn(Mktqueue) \cup {o}
    BY <1>3, <1>4, <2>1, OnceAppend DEF PlaceInv
  <2>3. Once(Bidqueue') /\ QueuedIn(Bidqueue') = QueuedIn(Bidqueue)
    BY <2>1 DEF PlaceInv
  <2>4. Apart'
    BY <1>2, <1>3, <2>2, <2>3 DEF PlaceInv, Apart
  <2> QED
    BY <1>2, <2>2, <2>3, <2>4 DEF PlaceInv, Once
<1>6. CASE o \notin MarketOrders
  <2>1. Bidqueue' = Append(Bidqueue, NewRequest(o)) /\ Mktqueue' = Mktqueue
    BY <1>6 DEF Submit
  <2>2. Once(Bidqueue') /\ QueuedIn(Bidqueue') = QueuedIn(Bidqueue) \cup {o}
    BY <1>3, <1>4, <2>1, OnceAppend DEF PlaceInv
  <2>3. Once(Mktqueue') /\ QueuedIn(Mktqueue') = QueuedIn(Mktqueue)
    BY <2>1 DEF PlaceInv
  <2>4. Apart'
    BY <1>2, <1>3, <2>2, <2>3 DEF PlaceInv, Apart
  <2> QED
    BY <1>2, <2>2, <2>3, <2>4 DEF PlaceInv, Once
<1> QED
  BY <1>5, <1>6

\* A modify or cancel is no new order.
LEMMA PlaceSubmitOm ==
    ASSUME TypeOK, PlaceInv, NEW op \in {"modify", "cancel"}, NEW n \in OrderNumbers, SubmitOm(op, n)
    PROVE  PlaceInv'
<1> USE DEF TypeOK, QueueTypes
<1>1. UNCHANGED <<pending, Mktqueue, hand, spc, QueueHolder, OutPF>>
  BY DEF SubmitOm, senderVars, tableVars
<1>2. n \in Nat
  BY DEF OrderNumbers, BookTypes
<1>3. OmRequest(op, n) \in Request /\ OmRequest(op, n).op # "new"
  BY <1>2, RequestTypes DEF OmRequest
<1>4. Bidqueue' = Append(Bidqueue, OmRequest(op, n)) /\ Bidqueue \in Seq(Request)
  BY DEF SubmitOm
<1>5. Once(Bidqueue') /\ QueuedIn(Bidqueue') = QueuedIn(Bidqueue)
  BY <1>3, <1>4, OnceAppend DEF PlaceInv
<1>6. InHand' = InHand /\ Listed' = Listed /\ Recorded' = Recorded
  BY <1>1 DEF InHand, Listed, Recorded
<1>7. Apart'
  BY <1>1, <1>5, <1>6, ApartShrinks DEF PlaceInv
<1> QED
  BY <1>1, <1>5, <1>7 DEF PlaceInv, OneRecord, Once

\* The head of a queue goes to the hand that is empty.
LEMMA PlaceSender ==
    ASSUME TypeOK, PlaceInv, Sender
    PROVE  PlaceInv'
<1> USE DEF SenderUnchanged, TypeOK
<1>1. UNCHANGED <<pending, OutPF>> /\ Recorded' = Recorded /\ OneRecord'
  <2>1. UNCHANGED <<pending, OutPF>>
    BY DEF Sender, Poll, PollSizes, PopMkt, ChooseBid, PopBid, LoadSeq, StoreSeq, Stamp, Send, LoadInv,
           StoreInv, PushBack
  <2> QED
    BY <2>1 DEF PlaceInv, OneRecord, Recorded
<1>2. CASE PopMkt
  <2>1. /\ Mktqueue \in Seq(Request) /\ Mktqueue # <<>>
        /\ hand' = Head(Mktqueue) /\ Mktqueue' = Tail(Mktqueue)
        /\ UNCHANGED <<Bidqueue, QueueHolder>> /\ spc = "choose"
    BY <1>2 DEF PopMkt, QueueTypes
  <2>2. /\ Once(Mktqueue') /\ QueuedIn(Mktqueue') \subseteq QueuedIn(Mktqueue)
        /\ Head(Mktqueue).op = "new" => Head(Mktqueue) \notin Range(Mktqueue')
        /\ Head(Mktqueue) \in Range(Mktqueue)
    BY <2>1, OnceTail DEF PlaceInv
  <2>3. InHand = {} /\ \A o \in InHand' : o \in QueuedIn(Mktqueue) /\ o \notin QueuedIn(Mktqueue')
    BY <2>1, <2>2 DEF InHand, QueuedIn, Carrying, NewRequest
  <2>4. Listed' = Listed /\ IsInjective(QueueHolder') /\ Once(Bidqueue')
    BY <2>1 DEF PlaceInv, Listed
  <2>5. Apart'
    <3>1. Bidqueue' = Bidqueue
      BY <2>1
    <3> QED
      BY <1>1, <2>2, <2>3, <2>4, <3>1 DEF PlaceInv, Apart
  <2> QED
    BY <1>1, <2>2, <2>4, <2>5 DEF PlaceInv, Once
<1>3. CASE PopBid
  <2>1. /\ Bidqueue \in Seq(Request) /\ Bidqueue # <<>>
        /\ hand' = Head(Bidqueue) /\ Bidqueue' = Tail(Bidqueue)
        /\ UNCHANGED <<Mktqueue, QueueHolder>> /\ spc = "popBid"
    BY <1>3 DEF PopBid, QueueTypes
  <2>2. /\ Once(Bidqueue') /\ QueuedIn(Bidqueue') \subseteq QueuedIn(Bidqueue)
        /\ Head(Bidqueue).op = "new" => Head(Bidqueue) \notin Range(Bidqueue')
        /\ Head(Bidqueue) \in Range(Bidqueue)
    BY <2>1, OnceTail DEF PlaceInv
  <2>3. InHand = {} /\ \A o \in InHand' : o \in QueuedIn(Bidqueue) /\ o \notin QueuedIn(Bidqueue')
    BY <2>1, <2>2 DEF InHand, QueuedIn, Carrying, NewRequest
  <2>4. Listed' = Listed /\ IsInjective(QueueHolder') /\ Once(Mktqueue')
    BY <2>1 DEF PlaceInv, Listed
  <2>5. Apart'
    <3>1. Mktqueue' = Mktqueue
      BY <2>1
    <3> QED
      BY <1>1, <2>2, <2>3, <2>4, <3>1 DEF PlaceInv, Apart
  <2> QED
    BY <1>1, <2>2, <2>4, <2>5 DEF PlaceInv, Once
<1>4. CASE PushBack
  <2>1. /\ UNCHANGED <<Bidqueue, Mktqueue, hand>> /\ spc = "push" /\ spc' = "poll"
        /\ QueueHolder' = Append(QueueHolder, hand.id) /\ QueueHolder \in Seq(NewOrders)
    BY <1>4 DEF PushBack, TableTypes
  <2>2. hand.id \in NewOrders /\ hand = NewRequest(hand.id)
    BY <2>1, HandIs DEF SenderTypes
  <2>3. hand.id \in InHand /\ InHand' = {}
    BY <2>1, <2>2 DEF InHand, Carrying
  <2>4. hand.id \notin Range(QueueHolder)
    BY <2>3 DEF PlaceInv, Apart, Listed
  <2>5. IsInjective(QueueHolder') /\ Listed' = Listed \cup {hand.id}
    BY <2>1, <2>2, <2>4, HolderMoves DEF PlaceInv, Listed
  <2>6. Apart'
    <3>1. Bidqueue' = Bidqueue /\ Mktqueue' = Mktqueue
      BY <2>1
    <3> QED
      BY <1>1, <2>3, <2>5, <3>1 DEF PlaceInv, Apart
  <2> QED
    BY <1>1, <2>1, <2>5, <2>6 DEF PlaceInv, Once
<1>5. CASE \/ Poll \/ PollSizes \/ ChooseBid \/ LoadSeq \/ StoreSeq \/ Stamp \/ Send
           \/ LoadInv \/ StoreInv
  <2>1. UNCHANGED <<Bidqueue, Mktqueue, hand, QueueHolder>> /\ (spc' \in Carrying => spc \in Carrying)
    BY <1>5 DEF Poll, PollSizes, ChooseBid, LoadSeq, StoreSeq, Stamp, Send, LoadInv, StoreInv, Carrying
  <2>2. InHand' \subseteq InHand /\ Listed' = Listed
    BY <2>1 DEF InHand, Listed
  <2>3. Apart'
    BY <1>1, <2>1, <2>2, ApartShrinks DEF PlaceInv
  <2> QED
    BY <1>1, <2>1, <2>3 DEF PlaceInv, Once
<1> QED
  BY <1>2, <1>3, <1>4, <1>5 DEF Sender

\* GetPF moves one holder from the vector to at most one record; without a holder
\* it records the orphan.
LEMMA PlaceGetPF ==
    ASSUME TypeOK, PlaceInv, NEW m, NEW h \in NewOrders \cup {Orphan}, GetPF(m, h), ~disturbed'
    PROVE  /\ spc' = spc /\ OneRecord' /\ IsInjective(QueueHolder')
           /\ Listed' \subseteq Listed
           /\ Recorded' \subseteq Recorded \cup (Listed \ Listed')
<1>1. QueueHolder \in Seq(NewOrders) /\ OneRecord /\ Listed \cap Recorded = {} /\ IsInjective(QueueHolder)
  BY DEF TypeOK, TableTypes, PlaceInv, Apart
<1>2. CASE Match(m.key) = {} /\ h = Orphan /\ UNCHANGED <<QueueHolder, spc, disturbed>>
  <2>1. OneRecord'
    BY <1>1, <1>2 DEF GetPF, AddRecord, OneRecord
  <2>2. Recorded' \subseteq Recorded
    BY <1>2 DEF GetPF, AddRecord, Recorded
  <2> QED
    BY <1>1, <1>2, <2>1, <2>2 DEF Listed
<1>3. ASSUME NEW i \in Match(m.key), h = QueueHolder[i], QueueHolder' = RemoveAt(QueueHolder, i),
             UNCHANGED spc
      PROVE  /\ spc' = spc /\ OneRecord' /\ IsInjective(QueueHolder')
             /\ Listed' \subseteq Listed
             /\ Recorded' \subseteq Recorded \cup (Listed \ Listed')
  <2>1. /\ IsInjective(QueueHolder') /\ Listed' \subseteq Listed
        /\ h \in Listed \ Listed'
    BY <1>1, <1>3, HolderMoves DEF Match, Listed
  <2>2. h \notin Recorded
    BY <1>1, <2>1
  <2>3. OneRecord'
    BY <1>1, <2>2 DEF GetPF, AddRecord, OneRecord, Recorded
  <2>4. Recorded' \subseteq Recorded \cup {h}
    BY DEF GetPF, AddRecord, Recorded
  <2> QED
    BY <1>3, <2>1, <2>3, <2>4
<1> QED
  BY <1>2, <1>3 DEF GetPF

\* One packet of the reader: only a confirmation or a reject moves a holder, and
\* what the reader puts into the market queue is a cancel.
LEMMA PlaceReader ==
    ASSUME TypeOK, PlaceInv, Reader, ~disturbed'
    PROVE  PlaceInv'
<1> USE DEF ReaderUnchanged, TypeOK
<1>1. UNCHANGED <<pending, Bidqueue, hand>>
  BY DEF Reader, RecvInvitation, Grant, RecvSignOnReply, RecvConfirm, RecvReject, RecvUpdate, RecvTrade,
         SetSeq, SendSignOn, LoadSpend, StoreSpend
<1>2. Once(Mktqueue') /\ QueuedIn(Mktqueue') = QueuedIn(Mktqueue)
  <2>1. CASE Mktqueue' = Mktqueue
    BY <2>1 DEF PlaceInv
  <2>2. CASE RecvConfirm
    <3>1. Head(toGw).order \in Nat
      BY <2>2, ReceivedPacket DEF RecvConfirm
    <3>2. CancelOf(Head(toGw).order) \in Request /\ CancelOf(Head(toGw).order).op # "new"
      BY <3>1, RequestTypes DEF CancelOf, OmRequest
    <3>3. Mktqueue' = Mktqueue \/ Mktqueue' = Append(Mktqueue, CancelOf(Head(toGw).order))
      BY <2>2 DEF RecvConfirm
    <3>4. CASE Mktqueue' = Append(Mktqueue, CancelOf(Head(toGw).order))
      BY <3>2, <3>4, OnceAppend DEF PlaceInv, QueueTypes
    <3> QED
      BY <2>1, <3>3, <3>4
  <2> QED
    BY <2>1, <2>2 DEF Reader, RecvInvitation, Grant, RecvSignOnReply, RecvReject, RecvUpdate, RecvTrade,
         SetSeq, SendSignOn, LoadSpend, StoreSpend
<1>3. /\ spc' = spc /\ OneRecord' /\ IsInjective(QueueHolder')
      /\ Listed' \subseteq Listed
      /\ Recorded' \subseteq Recorded \cup (Listed \ Listed')
  <2>1. CASE UNCHANGED <<spc, tableVars>>
    BY <2>1 DEF tableVars, PlaceInv, OneRecord, Listed, Recorded
  <2>2. CASE RecvConfirm
    <3>1. \E h \in NewOrders \cup {Orphan} : GetPF(Head(toGw), h)
      BY <2>2 DEF RecvConfirm
    <3> QED
      BY <3>1, PlaceGetPF
  <2>3. CASE RecvReject
    <3>1. \/ UNCHANGED <<spc, tableVars>>
          \/ \E h \in NewOrders \cup {Orphan} : GetPF(Head(toGw), h)
      BY <2>3 DEF RecvReject
    <3> QED
      BY <2>1, <3>1, PlaceGetPF
  <2>4. CASE RecvTrade
    <3>1. /\ UNCHANGED <<spc, QueueHolder>> /\ DOMAIN OutPF' \subseteq DOMAIN OutPF
          /\ \A n \in DOMAIN OutPF' : OutPF'[n] = OutPF[n]
      BY <2>4 DEF RecvTrade, Restrict
    <3> QED
      BY <3>1 DEF PlaceInv, OneRecord, Listed, Recorded
  <2> QED
    BY <2>1, <2>2, <2>3, <2>4 DEF Reader, RecvInvitation, Grant, RecvSignOnReply, RecvUpdate, SetSeq,
         SendSignOn, LoadSpend, StoreSpend
<1>4. InHand' = InHand
  BY <1>1, <1>3 DEF InHand
<1>5. Apart'
  <2>1. QueuedIn(Bidqueue') = QueuedIn(Bidqueue)
    BY <1>1
  <2> QED
    BY <1>1, <1>2, <1>3, <1>4, <2>1 DEF PlaceInv, Apart
<1> QED
  BY <1>1, <1>2, <1>3, <1>5 DEF PlaceInv, Once

\* A step that leaves the queues, the hand and the tables alone keeps the places.
LEMMA PlaceFrame ==
    ASSUME PlaceInv, UNCHANGED <<pending, Bidqueue, Mktqueue, hand, spc, QueueHolder, OutPF>>
    PROVE  PlaceInv'
  BY DEF PlaceInv, Apart, OneRecord, Once, QueuedIn, InHand, Listed, Recorded

\* The exchange touches nothing but its book and the wire.
LEMMA ExchangeTouches == ASSUME ExchangeAnswers PROVE ExchangeUnchanged
<1>1. CASE AnswerSignOn \/ AcceptNew \/ RejectNew \/ AcceptModify \/ AcceptCancel
  BY <1>1 DEF AnswerSignOn, AcceptNew, RejectNew, AcceptModify, AcceptCancel, Answer
<1>2. CASE RejectModify
  BY <1>2 DEF RejectModify, Answer
<1>3. CASE RejectCancel
  BY <1>3 DEF RejectCancel, Answer
<1> QED
  BY <1>1, <1>2, <1>3 DEF ExchangeAnswers

\* Once disturbed, the vector stays so.
LEMMA DisturbedStays ==
    ASSUME [Next]_vars, disturbed
    PROVE  disturbed'
<1>1. CASE Sender
  BY <1>1 DEF Sender, Poll, PollSizes, PopMkt, ChooseBid, PopBid, LoadSeq, StoreSeq, Stamp, Send, LoadInv,
              StoreInv, PushBack, SenderUnchanged
<1>2. CASE Reader
  <2>1. ASSUME NEW h \in NewOrders \cup {Orphan}, GetPF(Head(toGw), h) PROVE disturbed'
    BY <2>1, Zenon DEF GetPF
  <2>2. CASE UNCHANGED tableVars
    <3>1. disturbed' = disturbed
      BY <2>2 DEF tableVars
    <3> QED
      BY <3>1, Zenon
  <2>3. CASE RecvConfirm
    BY <2>1, <2>3 DEF RecvConfirm
  <2>4. CASE RecvReject
    BY <2>1, <2>2, <2>4 DEF RecvReject
  <2>5. CASE RecvTrade
    <3>1. UNCHANGED <<rreg, Mktqueue, spc, sharedVars, QueueHolder, disturbed>>
      BY <2>5 DEF RecvTrade
    <3> QED
      BY <3>1, Zenon
  <2>6. CASE \/ RecvInvitation \/ Grant \/ RecvSignOnReply \/ RecvUpdate
             \/ SetSeq \/ SendSignOn \/ LoadSpend \/ StoreSpend
    <3>1. UNCHANGED tableVars
      BY <2>6 DEF RecvInvitation, Grant, RecvSignOnReply, RecvUpdate, SetSeq, SendSignOn,
                  LoadSpend, StoreSpend
    <3> QED
      BY <2>2, <3>1
  <2> QED
    BY <1>2, <2>3, <2>4, <2>5, <2>6 DEF Reader
<1>3. CASE ExchangeAnswers
  BY <1>3, ExchangeTouches DEF ExchangeUnchanged, tableVars
<1>4. CASE \/ \E o \in NewOrders : Submit(o)
           \/ \E op \in {"modify", "cancel"}, n \in OrderNumbers : SubmitOm(op, n)
           \/ \E n \in OrderNumbers : Fill(n)
           \/ UNCHANGED vars
  BY <1>4 DEF Submit, SubmitOm, Fill, ExchangeUnchanged, vars, tableVars
<1> QED
  BY <1>1, <1>2, <1>3, <1>4 DEF Next

\* Until the vector is disturbed, every new order is in one place, and there once.
THEOREM OnePlace == Spec => [](~disturbed => PlaceInv)
<1>1. Init => PlaceInv
  BY PlaceInit
<1>2. TypeOK /\ (~disturbed => PlaceInv) /\ [Next]_vars => (~disturbed => PlaceInv)'
  <2> SUFFICES ASSUME TypeOK, ~disturbed => PlaceInv, [Next]_vars, ~disturbed' PROVE PlaceInv'
    OBVIOUS
  <2>1. PlaceInv
    BY DisturbedStays
  <2>2. CASE Sender
    BY <2>1, <2>2, PlaceSender
  <2>3. CASE Reader
    BY <2>1, <2>3, PlaceReader
  <2>4. CASE ExchangeAnswers \/ UNCHANGED vars \/ \E n \in OrderNumbers : Fill(n)
    <3>1. UNCHANGED <<pending, Bidqueue, Mktqueue, hand, spc, QueueHolder, OutPF>>
      BY <2>4, ExchangeTouches DEF Fill, ExchangeUnchanged, vars, queueVars, senderVars, tableVars
    <3> QED
      BY <2>1, <3>1, PlaceFrame
  <2>5. CASE \E o \in NewOrders : Submit(o)
    BY <2>1, <2>5, PlaceSubmit
  <2>6. CASE \E op \in {"modify", "cancel"}, n \in OrderNumbers : SubmitOm(op, n)
    BY <2>1, <2>6, PlaceSubmitOm
  <2> QED
    BY <2>2, <2>3, <2>4, <2>5, <2>6 DEF Next
<1> QED
  BY <1>1, <1>2, TypeCorrect, PTL DEF Spec

\* One request never owns two working orders, for any number of orders and requests,
\* unless the vector was disturbed.
THEOREM OneOwner == Spec => []OneOrderPerHolder
<1>1. (~disturbed => PlaceInv) => OneOrderPerHolder
  BY DEF OneOrderPerHolder, PlaceInv, OneRecord
<1> QED
  BY <1>1, OnePlace, PTL

-----------------------------------------------------------------------------
(* How far the counter can be overdrawn, torn updates included.             *)

\* From a poll that saw an invitation to the store that spends it.
Committed == {"size", "choose", "popBid", "loadSeq", "storeSeq", "stamp", "send", "loadInv", "storeInv"}
SigningOn == {"signOn", "signOnSend", "spend", "storeSpend"}

\* The sign-on requests that have been paid for.
Spent == counter - (IF rpc \in SigningOn THEN 1 ELSE 0)

\* The inductive form of OverdraftBounded: only the sign-on requests overdraw, and what
\* either thread holds in its register is no lower than what it may store.
OverdraftInv ==
    /\ rpc \in SigningOn => counter >= 1
    /\ InvitationCount >= -Spent
    /\ spc \in Committed => InvitationCount >= 1 - Spent
    /\ spc = "storeInv" => sreg >= 1 - Spent
    /\ rpc = "grant" => rreg >= -Spent
    /\ rpc = "storeSpend" =>
         \/ rreg >= 1 - Spent
         \/ rreg >= -Spent /\ spc \notin Committed /\ rreg = InvitationCount

\* The registers and counters are integers.
LEMMA OverdraftTypes ==
    ASSUME TypeOK
    PROVE  /\ InvitationCount \in Int /\ sreg \in Int /\ rreg \in Int /\ counter \in 0..2
           /\ Spent \in Int /\ spc \in SenderPoints /\ rpc \in ReaderPoints
  BY DEF TypeOK, SharedTypes, SenderTypes, ReaderTypes, Spent

\* Before the first packet nothing is spent.
LEMMA OverdraftInit == Init => OverdraftInv
  BY DEF Init, OverdraftInv, Spent, SigningOn, Committed

\* The sender overdraws nothing: it polled for the invitation it spends.
LEMMA OverdraftSender ==
    ASSUME TypeOK, OverdraftInv, Sender
    PROVE  OverdraftInv'
<1> USE OverdraftTypes DEF SenderUnchanged
<1>1. UNCHANGED <<rpc, rreg, counter>> /\ Spent' = Spent
  <2>1. UNCHANGED <<rpc, rreg, counter>>
    BY DEF Sender, Poll, PollSizes, PopMkt, ChooseBid, PopBid, LoadSeq, StoreSeq, Stamp, Send, LoadInv,
           StoreInv, PushBack, readerVars
  <2> QED
    BY <2>1 DEF Spent
<1>2. CASE Poll
  <2>1. InvitationCount' = InvitationCount /\ InvitationCount > 0 /\ spc' = "size" /\ spc = "poll"
    BY <1>2 DEF Poll, sharedVars
  <2>2. Spent >= 0
    BY DEF Spent, OverdraftInv
  <2> QED
    BY <1>1, <2>1, <2>2 DEF OverdraftInv, Committed
<1>3. CASE LoadInv
  <2>1. /\ InvitationCount' = InvitationCount /\ sreg' = InvitationCount
        /\ spc' = "storeInv" /\ spc = "loadInv"
    BY <1>3 DEF LoadInv, sharedVars
  <2> QED
    BY <1>1, <2>1 DEF OverdraftInv, Committed
<1>4. CASE StoreInv
  <2>1. InvitationCount' = sreg - 1 /\ spc' \notin Committed /\ spc = "storeInv"
    BY <1>4 DEF StoreInv, Committed
  <2> QED
    BY <1>1, <2>1 DEF OverdraftInv, Committed
<1>5. CASE \/ PollSizes \/ PopMkt \/ ChooseBid \/ PopBid \/ LoadSeq \/ StoreSeq \/ Stamp \/ Send
           \/ PushBack
  <2>1. /\ InvitationCount' = InvitationCount /\ spc' # "storeInv"
        /\ spc' \in Committed => spc \in Committed
    BY <1>5 DEF PollSizes, PopMkt, ChooseBid, PopBid, LoadSeq, StoreSeq, Stamp, Send, PushBack,
                sharedVars, Committed
  <2> QED
    BY <1>1, <2>1 DEF OverdraftInv, Committed
<1> QED
  BY <1>2, <1>3, <1>4, <1>5 DEF Sender

\* A packet that changes no counter keeps the account.
LEMMA OverdraftPacket ==
    ASSUME TypeOK, TypeOK', OverdraftInv, rpc = "recv", EndOfPacket,
           UNCHANGED <<InvitationCount, sreg>>, spc' = spc \/ (spc = "push" /\ spc' = "poll")
    PROVE  OverdraftInv'
<1>1. /\ Spent' = Spent /\ rpc' \notin {"grant", "storeSpend"}
      /\ rpc' \in SigningOn => counter' >= 1
  BY OverdraftTypes DEF EndOfPacket, Spent, SigningOn
<1>2. (spc' \in Committed => spc \in Committed) /\ (spc' = "storeInv" => spc = "storeInv")
  BY DEF Committed
<1> QED
  BY <1>1, <1>2, OverdraftTypes DEF OverdraftInv

\* The reader overdraws the counter by the sign-on requests, one each.
LEMMA OverdraftReader ==
    ASSUME TypeOK, TypeOK', OverdraftInv, Reader
    PROVE  OverdraftInv'
<1> USE OverdraftTypes DEF ReaderUnchanged
<1>1. CASE RecvInvitation
  <2>1. /\ UNCHANGED <<InvitationCount, sreg, spc, counter>> /\ rreg' = InvitationCount
        /\ rpc = "recv" /\ rpc' = "grant"
    BY <1>1 DEF RecvInvitation, Receives, sharedVars
  <2>2. Spent' = Spent
    BY <2>1 DEF Spent, SigningOn
  <2> QED
    BY <2>1, <2>2 DEF OverdraftInv, SigningOn
<1>2. CASE Grant
  <2>1. UNCHANGED <<sreg, spc>> /\ InvitationCount' = rreg + 1 /\ rpc = "grant" /\ EndOfPacket
    BY <1>2 DEF Grant
  <2>2. /\ Spent' = Spent /\ rpc' \notin {"grant", "storeSpend"}
        /\ rpc' \in SigningOn => counter' >= 1
    BY <2>1 DEF EndOfPacket, Spent, SigningOn
  <2> QED
    BY <2>1, <2>2 DEF OverdraftInv
<1>3. CASE RecvSignOnReply \/ RecvConfirm \/ RecvReject \/ RecvUpdate \/ RecvTrade
  <2>1. UNCHANGED <<InvitationCount, sreg>> /\ EndOfPacket
    BY <1>3 DEF RecvSignOnReply, RecvConfirm, RecvReject, RecvUpdate, RecvTrade, sharedVars
  <2>2. rpc = "recv"
    BY <1>3 DEF RecvSignOnReply, RecvConfirm, RecvReject, RecvUpdate, RecvTrade, Receives
  <2>3. spc' = spc \/ (spc = "push" /\ spc' = "poll")
    <3>1. CASE RecvSignOnReply \/ RecvUpdate \/ RecvTrade
      BY <3>1 DEF RecvSignOnReply, RecvUpdate, RecvTrade
    <3>2. CASE RecvConfirm
      BY <3>2 DEF RecvConfirm, GetPF
    <3>3. CASE RecvReject
      BY <3>3 DEF RecvReject, GetPF
    <3> QED
      BY <1>3, <3>1, <3>2, <3>3
  <2> QED
    BY <2>1, <2>2, <2>3, OverdraftPacket
<1>4. CASE SetSeq \/ SendSignOn
  <2>1. /\ UNCHANGED <<InvitationCount, sreg, spc, counter>>
        /\ rpc \in SigningOn /\ rpc' \in {"signOnSend", "spend"}
    BY <1>4 DEF SetSeq, SendSignOn, sharedVars, SigningOn
  <2>2. Spent' = Spent
    BY <2>1 DEF Spent, SigningOn
  <2> QED
    BY <2>1, <2>2 DEF OverdraftInv, SigningOn
<1>5. CASE LoadSpend
  <2>1. /\ UNCHANGED <<InvitationCount, sreg, spc, counter>> /\ rreg' = InvitationCount
        /\ rpc = "spend" /\ rpc' = "storeSpend"
    BY <1>5 DEF LoadSpend, sharedVars
  <2>2. Spent' = Spent
    BY <2>1 DEF Spent, SigningOn
  <2> QED
    BY <2>1, <2>2 DEF OverdraftInv, SigningOn
<1>6. CASE StoreSpend
  <2>1. /\ UNCHANGED <<sreg, spc, counter>> /\ InvitationCount' = rreg - 1
        /\ rpc = "storeSpend" /\ rpc' = "recv"
    BY <1>6 DEF StoreSpend
  <2>2. Spent' = Spent + 1
    BY <2>1 DEF Spent, SigningOn
  <2> QED
    BY <2>1, <2>2 DEF OverdraftInv, SigningOn
<1> QED
  BY <1>1, <1>2, <1>3, <1>4, <1>5, <1>6 DEF Reader

\* However the two threads' updates of the counter tear, only the sign-on requests overdraw it.
THEOREM OverdraftInvariant == Spec => []OverdraftInv
<1>1. Init => OverdraftInv
  BY OverdraftInit
<1>2. TypeOK /\ TypeOK' /\ OverdraftInv /\ [Next]_vars => OverdraftInv'
  <2> SUFFICES ASSUME TypeOK, TypeOK', OverdraftInv, [Next]_vars PROVE OverdraftInv'
    OBVIOUS
  <2>1. CASE Sender
    BY <2>1, OverdraftSender
  <2>2. CASE Reader
    BY <2>2, OverdraftReader
  <2>3. CASE \/ ExchangeAnswers \/ UNCHANGED vars
             \/ \E n \in OrderNumbers : Fill(n)
             \/ \E o \in NewOrders : Submit(o)
             \/ \E op \in {"modify", "cancel"}, n \in OrderNumbers : SubmitOm(op, n)
    <3>1. UNCHANGED <<InvitationCount, spc, sreg, rpc, rreg, counter>>
      BY <2>3, ExchangeTouches DEF Fill, Submit, SubmitOm, ExchangeUnchanged, vars, sharedVars,
                                   senderVars, readerVars
    <3> QED
      BY <3>1 DEF OverdraftInv, Spent
  <2> QED
    BY <2>1, <2>2, <2>3 DEF Next
<1> QED
  BY <1>1, <1>2, TypeCorrect, PTL DEF Spec

\* The counter is never overdrawn by more than the two sign-on requests.
THEOREM Overdraft == Spec => []OverdraftBounded
<1>1. TypeOK /\ OverdraftInv => OverdraftBounded
  BY OverdraftTypes DEF OverdraftInv, OverdraftBounded, Spent
<1> QED
  BY <1>1, OverdraftInvariant, TypeCorrect, PTL

-----------------------------------------------------------------------------
(* The gateway implements OrderChannel, step by step.                       *)

\* One lane is written, the other is kept.
LEMMA LaneWritten ==
    ASSUME NEW a, NEW b, NEW x
    PROVE  /\ [mkt |-> a, bid |-> b]["mkt"] = a /\ [mkt |-> a, bid |-> b]["bid"] = b
           /\ [[mkt |-> a, bid |-> b] EXCEPT !["mkt"] = x] = [mkt |-> x, bid |-> b]
           /\ [[mkt |-> a, bid |-> b] EXCEPT !["bid"] = x] = [mkt |-> a, bid |-> x]
<1>1. [[mkt |-> a, bid |-> b] EXCEPT !["mkt"] = x] = [mkt |-> x, bid |-> b]
  OBVIOUS
<1>2. [[mkt |-> a, bid |-> b] EXCEPT !["bid"] = x] = [mkt |-> a, bid |-> x]
  OBVIOUS
<1> QED
  BY <1>1, <1>2

\* One lane grows, the other is kept.
LEMMA LaneGrows ==
    ASSUME NEW a, NEW b, NEW x
    PROVE  /\ [[mkt |-> a, bid |-> b] EXCEPT !["mkt"] = Append(@, x)] = [mkt |-> Append(a, x), bid |-> b]
           /\ [[mkt |-> a, bid |-> b] EXCEPT !["bid"] = Append(@, x)] = [mkt |-> a, bid |-> Append(b, x)]
<1> DEFINE old == [mkt |-> a, bid |-> b]
<1>1. old["mkt"] = a /\ old["bid"] = b
  OBVIOUS
<1>2. \A y : [old EXCEPT !["mkt"] = y] = [mkt |-> y, bid |-> b]
  BY LaneWritten
<1>3. \A y : [old EXCEPT !["bid"] = y] = [mkt |-> a, bid |-> y]
  BY LaneWritten
<1> HIDE DEF old
<1>4. [old EXCEPT !["mkt"] = Append(@, x)] = [mkt |-> Append(a, x), bid |-> b]
  BY <1>1, <1>2, Zenon
<1>5. [old EXCEPT !["bid"] = Append(@, x)] = [mkt |-> a, bid |-> Append(b, x)]
  BY <1>1, <1>3, Zenon
<1> QED
  BY <1>4, <1>5 DEF old

\* The first of a lane is taken, the other is kept.
LEMMA LaneShrinks ==
    ASSUME NEW a, NEW b
    PROVE  /\ [[mkt |-> a, bid |-> b] EXCEPT !["mkt"] = Tail(@)] = [mkt |-> Tail(a), bid |-> b]
           /\ [[mkt |-> a, bid |-> b] EXCEPT !["bid"] = Tail(@)] = [mkt |-> a, bid |-> Tail(b)]
<1> DEFINE old == [mkt |-> a, bid |-> b]
<1>1. old["mkt"] = a /\ old["bid"] = b
  OBVIOUS
<1>2. \A y : [old EXCEPT !["mkt"] = y] = [mkt |-> y, bid |-> b]
  BY LaneWritten
<1>3. \A y : [old EXCEPT !["bid"] = y] = [mkt |-> a, bid |-> y]
  BY LaneWritten
<1> HIDE DEF old
<1>4. [old EXCEPT !["mkt"] = Tail(@)] = [mkt |-> Tail(a), bid |-> b]
  BY <1>1, <1>2, Zenon
<1>5. [old EXCEPT !["bid"] = Tail(@)] = [mkt |-> a, bid |-> Tail(b)]
  BY <1>1, <1>3, Zenon
<1> QED
  BY <1>4, <1>5 DEF old

Unsent == {"loadSeq", "storeSeq", "stamp", "send"}

\* The state OrderChannel sees.
channelVars == <<pending, Mktqueue, Bidqueue, Popped, toExch, Len(book), SignOnsWritten>>

\* The gateway starts with empty lanes.
LEMMA ChannelInit == Init => Channel!Init
<1> SUFFICES ASSUME Init PROVE Channel!Init
  OBVIOUS
<1>1. /\ pending = NewOrders /\ [mkt |-> Mktqueue, bid |-> Bidqueue] = [l \in {"mkt", "bid"} |-> <<>>]
      /\ Popped = <<>> /\ toExch = <<>> /\ Len(book) = 0 /\ SignOnsWritten = 0
  BY DEF Init, Popped, SignOnsWritten
<1> QED
  BY <1>1 DEF Channel!Init, Channel!Lanes

\* A step that changes nothing a channel has is a stutter of the channel.
LEMMA ChannelStutter ==
    ASSUME UNCHANGED channelVars
    PROVE  UNCHANGED Channel!vars
  BY DEF channelVars, Channel!vars

\* A new order goes into the lane of its kind.
LEMMA ChannelSubmit ==
    ASSUME NEW o \in NewOrders, Submit(o)
    PROVE  Channel!Enqueue(o)
<1> DEFINE old == [mkt |-> Mktqueue, bid |-> Bidqueue]
           next == [mkt |-> Mktqueue', bid |-> Bidqueue']
<1>1. /\ o \in pending /\ pending' = pending \ {o}
      /\ UNCHANGED <<spc, hand, toExch, book, rpc, counter>>
  BY DEF Submit, senderVars, readerVars, wireVars
<1>2. Popped' = Popped /\ Len(book)' = Len(book) /\ SignOnsWritten' = SignOnsWritten
  BY <1>1 DEF Popped, SignOnsWritten
<1>3. NewRequest(o) = Channel!New(o)
  BY DEF NewRequest, Channel!New
<1>4. next = [old EXCEPT ![Channel!LaneOf(o)] = Append(@, Channel!New(o))]
  <2>1. CASE o \in MarketOrders
    <3>1. Mktqueue' = Append(Mktqueue, NewRequest(o)) /\ Bidqueue' = Bidqueue
      BY <2>1 DEF Submit
    <3>2. Channel!LaneOf(o) = "mkt"
      BY <2>1 DEF Channel!LaneOf
    <3>3. next = [mkt |-> Append(Mktqueue, Channel!New(o)), bid |-> Bidqueue]
      BY <1>3, <3>1
    <3>4. \A x : [[mkt |-> Mktqueue, bid |-> Bidqueue] EXCEPT !["mkt"] = Append(@, x)]
                   = [mkt |-> Append(Mktqueue, x), bid |-> Bidqueue]
      OBVIOUS
    <3> QED
      BY <3>2, <3>3, <3>4
  <2>2. CASE o \notin MarketOrders
    <3>1. Bidqueue' = Append(Bidqueue, NewRequest(o)) /\ Mktqueue' = Mktqueue
      BY <2>2 DEF Submit
    <3>2. Channel!LaneOf(o) = "bid"
      BY <2>2 DEF Channel!LaneOf
    <3>3. next = [mkt |-> Mktqueue, bid |-> Append(Bidqueue, Channel!New(o))]
      BY <1>3, <3>1
    <3>4. [old EXCEPT !["bid"] = Append(@, Channel!New(o))]
             = [mkt |-> Mktqueue, bid |-> Append(Bidqueue, Channel!New(o))]
      BY LaneGrows, Zenon
    <3> QED
      BY <3>2, <3>3, <3>4
  <2> QED
    BY <2>1, <2>2
<1> QED
  BY <1>1, <1>2, <1>4 DEF Channel!Enqueue

\* A request of a strategy about an order goes into the bid lane.
LEMMA ChannelSubmitOm ==
    ASSUME NEW op \in {"modify", "cancel"}, NEW n \in OrderNumbers, SubmitOm(op, n)
    PROVE  Channel!EnqueueAbout("bid", op, n)
<1>1. /\ Bidqueue' = Append(Bidqueue, Channel!About(op, n))
      /\ UNCHANGED <<pending, Mktqueue, spc, hand, toExch, book, rpc, counter>>
  BY DEF SubmitOm, senderVars, readerVars, wireVars, OmRequest, Channel!About
<1>2. Popped' = Popped /\ Len(book)' = Len(book) /\ SignOnsWritten' = SignOnsWritten
  BY <1>1 DEF Popped, SignOnsWritten
<1>3. [mkt |-> Mktqueue', bid |-> Bidqueue'] = [[mkt |-> Mktqueue, bid |-> Bidqueue] EXCEPT
          !["bid"] = Append(@, Channel!About(op, n))]
  <2>1. [[mkt |-> Mktqueue, bid |-> Bidqueue] EXCEPT !["bid"] = Append(@, Channel!About(op, n))]
          = [mkt |-> Mktqueue, bid |-> Append(Bidqueue, Channel!About(op, n))]
    BY LaneGrows, Zenon
  <2> QED
    BY <1>1, <2>1
<1> QED
  BY <1>1, <1>2, <1>3 DEF Channel!EnqueueAbout

\* The sender takes from a lane, transmits, or does what the channel does not see.
LEMMA ChannelSender ==
    ASSUME Sender
    PROVE  Channel!Take("mkt") \/ Channel!Take("bid") \/ Channel!Transmit \/ UNCHANGED Channel!vars
<1>1. /\ UNCHANGED <<pending, book, rpc, counter>>
      /\ Len(book)' = Len(book) /\ SignOnsWritten' = SignOnsWritten
  <2>1. UNCHANGED <<pending, book, rpc, counter>>
    BY DEF Sender, Poll, PollSizes, PopMkt, ChooseBid, PopBid, LoadSeq, StoreSeq, Stamp, Send,
           LoadInv, StoreInv, PushBack, SenderUnchanged, readerVars
  <2> QED
    BY <2>1 DEF SignOnsWritten
<1>2. CASE PopMkt
  <2>1. /\ Popped = <<>> /\ Mktqueue # <<>> /\ Popped' = <<Head(Mktqueue)>>
        /\ Mktqueue' = Tail(Mktqueue) /\ UNCHANGED <<Bidqueue, toExch>>
    BY <1>2 DEF PopMkt, Popped
  <2>2. /\ [mkt |-> Mktqueue', bid |-> Bidqueue'] = [[mkt |-> Mktqueue, bid |-> Bidqueue] EXCEPT
               !["mkt"] = Tail(@)]
        /\ [mkt |-> Mktqueue, bid |-> Bidqueue]["mkt"] = Mktqueue
    BY <2>1, LaneShrinks, LaneWritten
  <2> QED
    BY <1>1, <2>1, <2>2, Zenon DEF Channel!Take
<1>3. CASE PopBid
  <2>1. /\ Popped = <<>> /\ Bidqueue # <<>> /\ Popped' = <<Head(Bidqueue)>>
        /\ Bidqueue' = Tail(Bidqueue) /\ UNCHANGED <<Mktqueue, toExch>>
    BY <1>3 DEF PopBid, Popped
  <2>2. /\ [mkt |-> Mktqueue', bid |-> Bidqueue'] = [[mkt |-> Mktqueue, bid |-> Bidqueue] EXCEPT
               !["bid"] = Tail(@)]
        /\ [mkt |-> Mktqueue, bid |-> Bidqueue]["bid"] = Bidqueue
    BY <2>1, LaneShrinks, LaneWritten
  <2> QED
    BY <1>1, <2>1, <2>2, Zenon DEF Channel!Take
<1>4. CASE Send
  <2>1. /\ Popped = <<hand>> /\ Popped' = <<>> /\ toExch' = Append(toExch, hand)
        /\ UNCHANGED <<Mktqueue, Bidqueue>>
    BY <1>4 DEF Send, Write, Popped
  <2>2. Popped # <<>> /\ Popped[1] = hand
    BY <2>1
  <2> QED
    BY <1>1, <2>1, <2>2 DEF Channel!Transmit
<1>5. CASE \/ Poll \/ PollSizes \/ ChooseBid \/ LoadSeq \/ StoreSeq \/ Stamp \/ LoadInv \/ StoreInv
           \/ PushBack
  <2>1. /\ UNCHANGED <<Mktqueue, Bidqueue, hand, toExch>>
        /\ spc \in Unsent <=> spc' \in Unsent
    BY <1>5 DEF Poll, PollSizes, ChooseBid, LoadSeq, StoreSeq, Stamp, LoadInv, StoreInv, PushBack,
                Unsent
  <2>2. Popped' = Popped
    BY <2>1 DEF Popped, Unsent
  <2> QED
    BY <1>1, <2>1, <2>2, ChannelStutter DEF channelVars
<1> QED
  BY <1>2, <1>3, <1>4, <1>5 DEF Sender

\* A request into the market lane.
LEMMA MarketLaneGrows ==
    ASSUME NEW r, Mktqueue' = Append(Mktqueue, r), Bidqueue' = Bidqueue
    PROVE  [mkt |-> Mktqueue', bid |-> Bidqueue']
             = [[mkt |-> Mktqueue, bid |-> Bidqueue] EXCEPT !["mkt"] = Append(@, r)]
<1> DEFINE old == [mkt |-> Mktqueue, bid |-> Bidqueue]
<1>1. old["mkt"] = Mktqueue
  OBVIOUS
<1>2. \A y : [old EXCEPT !["mkt"] = y] = [mkt |-> y, bid |-> Bidqueue]
  BY LaneWritten
<1> HIDE DEF old
<1>3. [old EXCEPT !["mkt"] = Append(@, r)] = [mkt |-> Append(Mktqueue, r), bid |-> Bidqueue]
  BY <1>1, <1>2, Zenon
<1> QED
  BY <1>3 DEF old

\* A cancel of the reader goes into the market lane.
LEMMA ChannelCancel ==
    ASSUME NEW n, Mktqueue' = Append(Mktqueue, Channel!About("cancel", n)),
           UNCHANGED <<pending, Bidqueue, Popped, toExch, Len(book), SignOnsWritten>>
    PROVE  Channel!EnqueueAbout("mkt", "cancel", n)
<1>1. [mkt |-> Mktqueue', bid |-> Bidqueue'] = [[mkt |-> Mktqueue, bid |-> Bidqueue] EXCEPT
          !["mkt"] = Append(@, Channel!About("cancel", n))]
  BY MarketLaneGrows
<1> QED
  BY <1>1 DEF Channel!EnqueueAbout

\* The reader queues a cancel of an order the exchange has taken, writes a sign-on
\* request, or does what the channel does not see.
LEMMA ChannelReader ==
    ASSUME TypeOK, OwnershipInv, OverdraftInv, Reader
    PROVE  \/ \E n \in OrderNumbers : Channel!EnqueueAbout("mkt", "cancel", n)
           \/ Channel!TransmitSignOn
           \/ UNCHANGED Channel!vars
<1>1. UNCHANGED <<pending, Bidqueue, hand, book>> /\ Len(book)' = Len(book)
  BY DEF Reader, RecvInvitation, Grant, RecvSignOnReply, RecvConfirm, RecvReject, RecvUpdate, RecvTrade,
         SetSeq, SendSignOn, LoadSpend, StoreSpend, ReaderUnchanged
<1>2. ASSUME NEW m, NEW h, GetPF(m, h) PROVE Popped' = Popped
  <2>1. UNCHANGED spc \/ (spc = "push" /\ spc' = "poll")
    BY <1>2 DEF GetPF
  <2> QED
    BY <1>1, <2>1 DEF Popped
<1>3. ASSUME EndOfPacket, rpc \in {"recv", "grant"} PROVE SignOnsWritten' = SignOnsWritten
  <2>1. counter \in Nat
    BY DEF TypeOK, ReaderTypes
  <2> QED
    BY <1>3, <2>1 DEF EndOfPacket, SignOnsWritten
<1>4. CASE RecvConfirm
  <2> DEFINE m == Head(toGw)
  <2>1. PICK h \in NewOrders \cup {Orphan} :
          /\ GetPF(m, h)
          /\ Mktqueue' = IF h = Orphan THEN Append(Mktqueue, CancelOf(m.order)) ELSE Mktqueue
    BY <1>4 DEF RecvConfirm
  <2>2. Receives(m) /\ m.code = 20073 /\ EndOfPacket
    BY <1>4 DEF RecvConfirm
  <2>3. Popped' = Popped /\ SignOnsWritten' = SignOnsWritten /\ toExch' = toExch
    BY <1>2, <1>3, <2>1, <2>2 DEF Receives
  <2>4. CASE h = Orphan
    <3>1. m \in Range(toGw)
      BY <2>2, ReceiveFacts DEF TypeOK
    <3>2. m.order \in OrderNumbers
      BY <2>2, <3>1 DEF OwnershipInv, ConfirmsMatchBook, IsConfirm
    <3>3. Mktqueue' = Append(Mktqueue, Channel!About("cancel", m.order))
      BY <2>1, <2>4 DEF CancelOf, OmRequest, Channel!About
    <3>4. Channel!EnqueueAbout("mkt", "cancel", m.order)
      BY <1>1, <2>3, <3>3, ChannelCancel
    <3> QED
      BY <3>2, <3>4
  <2>5. CASE h # Orphan
    BY <1>1, <2>1, <2>3, <2>5, ChannelStutter DEF channelVars
  <2> QED
    BY <2>4, <2>5
<1>5. CASE RecvReject
  <2>1. Receives(Head(toGw)) /\ EndOfPacket /\ UNCHANGED Mktqueue
    BY <1>5 DEF RecvReject
  <2>2. Popped' = Popped
    <3>1. CASE UNCHANGED spc
      BY <1>1, <3>1 DEF Popped
    <3>2. CASE \E h \in NewOrders \cup {Orphan} : GetPF(Head(toGw), h)
      BY <1>2, <3>2
    <3> QED
      BY <1>5, <3>1, <3>2 DEF RecvReject
  <2> QED
    BY <1>1, <1>3, <2>1, <2>2, ChannelStutter DEF channelVars, Receives
<1>6. CASE RecvInvitation \/ Grant \/ RecvSignOnReply \/ RecvUpdate \/ RecvTrade
  <2>1. UNCHANGED <<Mktqueue, spc, toExch>>
    BY <1>6 DEF RecvInvitation, Grant, RecvSignOnReply, RecvUpdate, RecvTrade, Receives, wireVars
  <2>2. \/ EndOfPacket /\ rpc \in {"recv", "grant"}
        \/ UNCHANGED counter /\ rpc = "recv" /\ rpc' = "grant"
    BY <1>6 DEF RecvInvitation, Grant, RecvSignOnReply, RecvUpdate, RecvTrade, Receives
  <2>3. SignOnsWritten' = SignOnsWritten
    BY <1>3, <2>2 DEF SignOnsWritten
  <2>4. Popped' = Popped
    BY <1>1, <2>1 DEF Popped
  <2> QED
    BY <1>1, <2>1, <2>3, <2>4, ChannelStutter DEF channelVars
<1>7. CASE SetSeq \/ LoadSpend \/ StoreSpend
  <2>1. UNCHANGED <<Mktqueue, spc, toExch, counter>>
        /\ (rpc \in {"signOn", "signOnSend"} <=> rpc' \in {"signOn", "signOnSend"})
    BY <1>7 DEF SetSeq, LoadSpend, StoreSpend, wireVars
  <2>2. Popped' = Popped /\ SignOnsWritten' = SignOnsWritten
    BY <1>1, <2>1 DEF Popped, SignOnsWritten
  <2> QED
    BY <1>1, <2>1, <2>2, ChannelStutter DEF channelVars
<1>8. CASE SendSignOn
  <2>1. /\ UNCHANGED <<Mktqueue, spc, counter>> /\ rpc = "signOnSend" /\ rpc' = "spend"
        /\ toExch' = Append(toExch, SignOnRequest(IF counter = 1 THEN "login" ELSE "sysinfo"))
    BY <1>8 DEF SendSignOn, Write
  <2>2. counter \in 1..2
    BY <2>1 DEF TypeOK, ReaderTypes, OverdraftInv, SigningOn
  <2>3. /\ SignOnsWritten = counter - 1 /\ SignOnsWritten' = SignOnsWritten + 1
        /\ Popped' = Popped
    BY <1>1, <2>1, <2>2 DEF SignOnsWritten, Popped
  <2>4. /\ Len(Channel!SignOns) = 2
        /\ Channel!SignOns[SignOnsWritten + 1]
             = SignOnRequest(IF counter = 1 THEN "login" ELSE "sysinfo")
    BY <2>2, <2>3 DEF Channel!SignOns, Channel!About, SignOnRequest
  <2> QED
    BY <1>1, <2>1, <2>2, <2>3, <2>4 DEF Channel!TransmitSignOn
<1> QED
  BY <1>4, <1>5, <1>6, <1>7, <1>8 DEF Reader

\* The exchange reads one request from the wire, and its book grows with a new order only.
LEMMA ChannelExchange ==
    ASSUME TypeOK, ExchangeAnswers
    PROVE  Channel!Deliver
<1>1. ASSUME NEW reply, Answer(reply), toExch # <<>>,
             \/ UNCHANGED book
             \/ Asked("new") /\ Len(book') = Len(book) + 1
             \/ Len(book') = Len(book)
      PROVE  Channel!Deliver
  <2>1. toExch' = Tail(toExch) /\ UNCHANGED <<pending, Mktqueue, Bidqueue, Popped, SignOnsWritten>>
    BY <1>1 DEF Answer, ExchangeUnchanged, queueVars, senderVars, readerVars, Popped, SignOnsWritten
  <2>2. Len(book)' = Len(book) \/ (Head(toExch).op = "new" /\ Len(book)' = Len(book) + 1)
    BY <1>1 DEF Asked
  <2> QED
    BY <1>1, <2>1, <2>2 DEF Channel!Deliver
<1>2. CASE AnswerSignOn \/ RejectNew \/ AcceptModify
  BY <1>1, <1>2 DEF AnswerSignOn, RejectNew, AcceptModify, Asked
<1>3. CASE RejectModify \/ RejectCancel
  BY <1>1, <1>3 DEF RejectModify, RejectCancel, Asked
<1>4. CASE AcceptNew
  <2>1. Len(book') = Len(book) + 1
    BY <1>4 DEF AcceptNew, TypeOK, BookTypes
  <2> QED
    BY <1>1, <1>4, <2>1 DEF AcceptNew, Asked
<1>5. CASE AcceptCancel
  <2>1. Len(book') = Len(book)
    BY <1>5, BookUpdate DEF AcceptCancel, TypeOK, IsLive
  <2>2. toExch # <<>> /\ Answer(Update(20075, Head(toExch).order))
    BY <1>5 DEF AcceptCancel, Asked
  <2> QED
    BY <1>1, <2>1, <2>2
<1> QED
  BY <1>2, <1>3, <1>4, <1>5 DEF ExchangeAnswers

\* A fill is the exchange's own affair.
LEMMA ChannelFill ==
    ASSUME TypeOK, NEW n \in OrderNumbers, Fill(n)
    PROVE  UNCHANGED Channel!vars
<1>1. UNCHANGED <<pending, Mktqueue, Bidqueue, Popped, toExch, SignOnsWritten>>
  BY DEF Fill, ExchangeUnchanged, queueVars, senderVars, readerVars, Popped, SignOnsWritten
<1>2. book[n].rem - 1 \in 0..Lots
  <2>1. book[n].rem \in 0..Lots /\ book[n].rem > 0
    <3>1. 0 \in 0..Lots
      OBVIOUS
    <3> QED
      BY <3>1, BookUpdate DEF TypeOK, Fill, IsLive
  <2> QED
    BY <2>1
<1>3. Len(book)' = Len(book)
  BY <1>2, BookUpdate DEF TypeOK, Fill
<1> QED
  BY <1>1, <1>3, ChannelStutter DEF channelVars

\* The gateway delivers like a channel, for any number of orders, modifies and cancels.
THEOREM GatewayImplementsChannel == Spec => DeliversLikeAChannel
<1>1. TypeOK /\ OwnershipInv /\ OverdraftInv /\ [Next]_vars => [Channel!Next]_(Channel!vars)
  <2> SUFFICES ASSUME TypeOK, OwnershipInv, OverdraftInv, [Next]_vars
               PROVE  [Channel!Next]_(Channel!vars)
    OBVIOUS
  <2> USE DEF Channel!Next, Channel!Lanes
  <2>1. CASE Sender
    BY <2>1, ChannelSender
  <2>2. CASE Reader
    BY <2>2, ChannelReader DEF OrderNumbers
  <2>3. CASE ExchangeAnswers
    BY <2>3, ChannelExchange
  <2>4. CASE \E o \in NewOrders : Submit(o)
    BY <2>4, ChannelSubmit
  <2>5. CASE \E op \in {"modify", "cancel"}, n \in OrderNumbers : SubmitOm(op, n)
    BY <2>5, ChannelSubmitOm DEF OrderNumbers
  <2>6. CASE \E n \in OrderNumbers : Fill(n)
    BY <2>6, ChannelFill
  <2>7. CASE UNCHANGED vars
    <3>1. UNCHANGED channelVars
      BY <2>7 DEF vars, queueVars, senderVars, readerVars, wireVars, channelVars, Popped, SignOnsWritten
    <3> QED
      BY <3>1, ChannelStutter
  <2> QED
    BY <2>1, <2>2, <2>3, <2>4, <2>5, <2>6, <2>7 DEF Next
<1> QED
  BY <1>1, ChannelInit, TypeCorrect, OwnershipInvariant, OverdraftInvariant, PTL
     DEF Spec, DeliversLikeAChannel, Channel!Spec

-----------------------------------------------------------------------------
(* The holders of the vector, counted against the packets that ask for one. *)

Bit(b) == IF b THEN 1 ELSE 0
Of(q, S) == {i \in DOMAIN q : q[i] \in S}
HowMany(q, S) == Cardinality(Of(q, S))

\* A finite sequence holds finitely many elements of a set.
LEMMA HowManyFinite ==
    ASSUME NEW T, NEW q \in Seq(T), NEW S
    PROVE  IsFiniteSet(Of(q, S)) /\ HowMany(q, S) \in Nat
<1>1. Len(q) \in Nat /\ DOMAIN q = 1..Len(q)
  OBVIOUS
<1>2. IsFiniteSet(1..Len(q))
  BY <1>1, FS_Interval
<1>3. Of(q, S) \in SUBSET (1..Len(q))
  BY <1>1 DEF Of
<1>4. IsFiniteSet(Of(q, S))
  BY <1>2, <1>3, FS_Subset
<1> QED
  BY <1>4, FS_CardinalityType DEF HowMany

\* Nothing of S is in the sequence exactly when the count is 0.
LEMMA HowManyNone ==
    ASSUME NEW T, NEW q \in Seq(T), NEW S
    PROVE  HowMany(q, S) = 0 <=> \A i \in DOMAIN q : q[i] \notin S
<1>1. HowMany(q, S) = 0 <=> Of(q, S) = {}
  BY HowManyFinite, FS_EmptySet DEF HowMany
<1> QED
  BY <1>1 DEF Of

\* An element behind the others counts if it is in S.
LEMMA HowManyAppend ==
    ASSUME NEW T, NEW q \in Seq(T), NEW e \in T, NEW S
    PROVE  HowMany(Append(q, e), S) = HowMany(q, S) + Bit(e \in S)
<1>1. /\ Len(q) \in Nat /\ DOMAIN q = 1..Len(q) /\ DOMAIN Append(q, e) = 1..(Len(q) + 1)
      /\ \A i \in 1..Len(q) : Append(q, e)[i] = q[i]
      /\ Append(q, e)[Len(q) + 1] = e
  OBVIOUS
<1>2. CASE e \in S
  <2>1. Of(Append(q, e), S) = Of(q, S) \cup {Len(q) + 1}
    BY <1>1, <1>2 DEF Of
  <2>2. Len(q) + 1 \notin Of(q, S)
    BY <1>1 DEF Of
  <2> QED
    BY <1>2, <2>1, <2>2, HowManyFinite, FS_AddElement DEF HowMany, Bit
<1>3. CASE e \notin S
  <2>1. Of(Append(q, e), S) = Of(q, S)
    BY <1>1, <1>3 DEF Of
  <2> QED
    BY <1>3, <2>1, HowManyFinite DEF HowMany, Bit
<1> QED
  BY <1>2, <1>3

\* The element that leaves a sequence takes its share of the count along.
LEMMA HowManyWithout ==
    ASSUME NEW T, NEW q \in Seq(T), NEW i \in DOMAIN q, NEW w \in Seq(T), NEW S,
           DOMAIN w = 1..(Len(q) - 1),
           \A k \in 1..(Len(q) - 1) : w[k] = q[IF k < i THEN k ELSE k + 1]
    PROVE  HowMany(q, S) = HowMany(w, S) + Bit(q[i] \in S)
<1> DEFINE Rest == Of(q, S) \ {i}
           at == [k \in Of(w, S) |-> IF k < i THEN k ELSE k + 1]
<1>1. Len(q) \in Nat \ {0} /\ DOMAIN q = 1..Len(q) /\ i \in 1..Len(q)
  OBVIOUS
<1>2. at \in Bijection(Of(w, S), Rest)
  <2>1. \A k \in Of(w, S) : (IF k < i THEN k ELSE k + 1) \in Rest /\ k \in 1..(Len(q) - 1)
    BY <1>1 DEF Of
  <2>2. \A j \in Rest : /\ (IF j < i THEN j ELSE j - 1) \in Of(w, S)
                        /\ at[IF j < i THEN j ELSE j - 1] = j
    <3> SUFFICES ASSUME NEW j \in Rest
                 PROVE  /\ (IF j < i THEN j ELSE j - 1) \in Of(w, S)
                        /\ at[IF j < i THEN j ELSE j - 1] = j
      OBVIOUS
    <3>1. j \in 1..Len(q) /\ j # i /\ q[j] \in S
      BY <1>1 DEF Of
    <3>2. CASE j < i
      <4>1. j \in 1..(Len(q) - 1) /\ w[j] = q[j]
        BY <1>1, <3>1, <3>2
      <4> QED
        BY <3>1, <3>2, <4>1 DEF Of
    <3>3. CASE ~(j < i)
      <4>1. j - 1 \in 1..(Len(q) - 1) /\ ~(j - 1 < i) /\ (j - 1) + 1 = j
        BY <1>1, <3>1, <3>3
      <4>2. w[j - 1] = q[j]
        BY <4>1
      <4>3. j - 1 \in Of(w, S)
        BY <3>1, <4>1, <4>2 DEF Of
      <4> QED
        BY <3>3, <4>1, <4>3
    <3> QED
      BY <3>2, <3>3
  <2>3. \A j, k \in Of(w, S) : at[j] = at[k] => j = k
    BY <1>1, <2>1
  <2>4. at \in [Of(w, S) -> Rest]
    BY <2>1
  <2> HIDE DEF at, Rest
  <2>5. DOMAIN at = Of(w, S)
    BY <2>4
  <2> QED
    BY <2>2, <2>3, <2>4, <2>5 DEF Bijection, Injection, Surjection, IsInjective
<1>3. /\ IsFiniteSet(Rest)
      /\ Cardinality(Rest) = IF i \in Of(q, S) THEN HowMany(q, S) - 1 ELSE HowMany(q, S)
  BY HowManyFinite, FS_RemoveElement DEF HowMany
<1>4. HowMany(w, S) = Cardinality(Rest)
  <2>1. ExistsBijection(Of(w, S), Rest)
    BY <1>2 DEF ExistsBijection
  <2> QED
    BY <2>1, HowManyFinite, FS_Bijection DEF HowMany
<1>5. i \in Of(q, S) <=> q[i] \in S
  BY DEF Of
<1> QED
  BY <1>3, <1>4, <1>5, HowManyFinite DEF Bit

\* The first element of a sequence, and the element removed at i.
LEMMA HowManyTail ==
    ASSUME NEW T, NEW q \in Seq(T), q # <<>>, NEW S
    PROVE  HowMany(q, S) = HowMany(Tail(q), S) + Bit(Head(q) \in S)
<1> DEFINE w == Tail(q)
<1>1. /\ 1 \in DOMAIN q /\ q[1] = Head(q) /\ w \in Seq(T)
      /\ DOMAIN w = 1..(Len(q) - 1)
      /\ \A k \in 1..(Len(q) - 1) : w[k] = q[IF k < 1 THEN k ELSE k + 1]
  OBVIOUS
<1> HIDE DEF w
<1>2. HowMany(q, S) = HowMany(w, S) + Bit(q[1] \in S)
  BY <1>1, HowManyWithout
<1> QED
  BY <1>1, <1>2 DEF w

LEMMA HowManyRemoveAt ==
    ASSUME NEW T, NEW q \in Seq(T), NEW i \in DOMAIN q, NEW S
    PROVE  HowMany(q, S) = HowMany(RemoveAt(q, i), S) + Bit(q[i] \in S)
<1>1. RemoveAt(q, i) \in Seq(T)
  BY DEF RemoveAt
<1> QED
  BY <1>1, RemoveAtIs, HowManyWithout

\* The requests, packets and holders with the key k: those of new orders, those
\* that the reader will match by key, and those that can be matched.
Asks(k) == {r \in Request : r.op = "new" /\ KeyOf[r.id] = k}
Takers(k) ==
    {m \in Packet : \/ m.code = 20073 /\ m.key = k
                    \/ m.code \in {2042, 2072, 2231} /\ m.order = 0 /\ m.key = k}
Holders(k) == {o \in NewOrders : KeyOf[o] = k}

Asking(k) == HowMany(toExch, Asks(k))
Coming(k) == HowMany(toGw, Takers(k))
Waiting(k) == HowMany(QueueHolder, Holders(k))
Holding(k) ==
    Bit(spc \in {"loadInv", "storeInv", "push"} /\ hand.op = "new" /\ KeyOf[hand.id] = k)

\* A packet that will ask for a holder finds one on the vector or in the hand of
\* the sender, on its way there.
HolderInv == \A k \in Keys : Asking(k) + Coming(k) <= Waiting(k) + Holding(k)

\* The counts are natural numbers.
LEMMA HolderCounts ==
    TypeOK => \A k : /\ Asking(k) \in Nat /\ Coming(k) \in Nat
                     /\ Waiting(k) \in Nat /\ Holding(k) \in Nat
<1> SUFFICES ASSUME TypeOK, NEW k
             PROVE  /\ Asking(k) \in Nat /\ Coming(k) \in Nat
                    /\ Waiting(k) \in Nat /\ Holding(k) \in Nat
  OBVIOUS
<1>1. Asking(k) \in Nat
  BY HowManyFinite DEF TypeOK, WireTypes, Asking
<1>2. Coming(k) \in Nat
  BY HowManyFinite DEF TypeOK, WireTypes, Coming
<1>3. Waiting(k) \in Nat
  BY HowManyFinite DEF TypeOK, TableTypes, Waiting
<1> QED
  BY <1>1, <1>2, <1>3 DEF Holding, Bit

\* A step after which no more packets ask and no fewer holders are there.
LEMMA HolderKept ==
    ASSUME TypeOK, TypeOK', HolderInv,
           \A k \in Keys : /\ Asking(k)' <= Asking(k) /\ Coming(k)' <= Coming(k)
                           /\ Waiting(k)' = Waiting(k) /\ Holding(k)' = Holding(k)
    PROVE  HolderInv'
<1>0. (TypeOK => \A k : /\ Asking(k) \in Nat /\ Coming(k) \in Nat
                        /\ Waiting(k) \in Nat /\ Holding(k) \in Nat)'
  BY HolderCounts, PTL
<1> SUFFICES ASSUME NEW k \in Keys
             PROVE  Asking(k)' + Coming(k)' <= Waiting(k)' + Holding(k)'
  BY DEF HolderInv
<1>1. /\ Asking(k) \in Nat /\ Coming(k) \in Nat /\ Waiting(k) \in Nat /\ Holding(k) \in Nat
      /\ Asking(k) + Coming(k) <= Waiting(k) + Holding(k)
  BY HolderCounts DEF HolderInv
<1>2. Asking(k)' \in Nat /\ Coming(k)' \in Nat
  BY <1>0
<1> QED
  BY <1>1, <1>2

\* At the start nothing was sent, and only an invitation comes.
LEMMA HolderInit == Init => HolderInv
<1> SUFFICES ASSUME Init, NEW k \in Keys PROVE Asking(k) + Coming(k) <= Waiting(k) + Holding(k)
  BY DEF HolderInv
<1>1. TypeOK
  BY TypeInit
<1>2. Asking(k) = 0
  <2>1. toExch \in Seq(Request) /\ \A i \in DOMAIN toExch : toExch[i] \notin Asks(k)
    BY <1>1 DEF Init, TypeOK, WireTypes
  <2> QED
    BY <2>1, HowManyNone DEF Asking
<1>3. Coming(k) = 0
  <2>1. \A i \in DOMAIN toGw : toGw[i] \notin Takers(k)
    BY DEF Init, Takers, Invitation
  <2>2. toGw \in Seq(Packet)
    BY <1>1 DEF TypeOK, WireTypes
  <2> QED
    BY <2>1, <2>2, HowManyNone DEF Coming
<1> QED
  BY <1>1, <1>2, <1>3, HolderCounts

\* The sender: an order that is sent is in the hand until it is on the vector.
LEMMA HolderSender ==
    ASSUME TypeOK, TypeOK', HolderInv, Sender
    PROVE  HolderInv'
<1> USE DEF SenderUnchanged
<1>1. UNCHANGED toGw /\ \A k : Coming(k)' = Coming(k)
  <2>1. toGw' = toGw
    BY DEF Sender, Poll, PollSizes, PopMkt, ChooseBid, PopBid, LoadSeq, StoreSeq, Stamp, Send, LoadInv,
           StoreInv, PushBack
  <2> QED
    BY <2>1 DEF Coming
<1>2. CASE Send
  <2> SUFFICES ASSUME NEW k \in Keys
               PROVE  Asking(k)' + Coming(k)' <= Waiting(k)' + Holding(k)'
    BY DEF HolderInv
  <2>1. /\ toExch' = Append(toExch, hand) /\ UNCHANGED <<hand, QueueHolder>>
        /\ spc = "send" /\ spc' = "loadInv"
    BY <1>2 DEF Send, Write
  <2>2. toExch \in Seq(Request) /\ hand \in Request
    BY DEF TypeOK, WireTypes, SenderTypes
  <2>3. Asking(k)' = Asking(k) + Bit(hand \in Asks(k))
    BY <2>1, <2>2, HowManyAppend DEF Asking
  <2>4. Waiting(k)' = Waiting(k)
    BY <2>1 DEF Waiting
  <2>5. Holding(k) = 0 /\ Holding(k)' = Bit(hand \in Asks(k))
    BY <2>1, <2>2 DEF Holding, Bit, Asks
  <2>6. Bit(hand \in Asks(k)) \in Nat
    BY DEF Bit
  <2>7. /\ Asking(k) \in Nat /\ Coming(k) \in Nat /\ Waiting(k) \in Nat
        /\ Asking(k) + Coming(k) <= Waiting(k) + Holding(k)
    BY HolderCounts DEF HolderInv
  <2> HIDE DEF Bit
  <2> QED
    BY <1>1, <2>3, <2>4, <2>5, <2>6, <2>7
<1>3. CASE PushBack
  <2> SUFFICES ASSUME NEW k \in Keys
               PROVE  Asking(k)' + Coming(k)' <= Waiting(k)' + Holding(k)'
    BY DEF HolderInv
  <2>1. /\ QueueHolder' = Append(QueueHolder, hand.id) /\ UNCHANGED <<hand, toExch>>
        /\ spc = "push" /\ spc' = "poll"
    BY <1>3 DEF PushBack
  <2>2. QueueHolder \in Seq(NewOrders) /\ hand.op = "new" /\ hand.id \in NewOrders
    BY <2>1, HandIs DEF TypeOK, TableTypes, SenderTypes
  <2>3. Waiting(k)' = Waiting(k) + Bit(hand.id \in Holders(k))
    BY <2>1, <2>2, HowManyAppend DEF Waiting
  <2>4. Asking(k)' = Asking(k)
    BY <2>1 DEF Asking
  <2>5. Holding(k)' = 0 /\ Holding(k) = Bit(hand.id \in Holders(k))
    BY <2>1, <2>2 DEF Holding, Bit, Holders
  <2>6. Bit(hand.id \in Holders(k)) \in Nat
    BY DEF Bit
  <2>7. /\ Asking(k) \in Nat /\ Coming(k) \in Nat /\ Waiting(k) \in Nat
        /\ Asking(k) + Coming(k) <= Waiting(k) + Holding(k)
    BY HolderCounts DEF HolderInv
  <2> QED
    BY <1>1, <2>3, <2>4, <2>5, <2>6, <2>7
<1>4. CASE \/ Poll \/ PollSizes \/ PopMkt \/ ChooseBid \/ PopBid \/ LoadSeq \/ StoreSeq
           \/ Stamp \/ LoadInv \/ StoreInv
  <2>1. UNCHANGED <<toExch, QueueHolder>>
    BY <1>4 DEF Poll, PollSizes, PopMkt, ChooseBid, PopBid, LoadSeq, StoreSeq, Stamp, LoadInv, StoreInv
  <2>2. \A k : Asking(k)' = Asking(k) /\ Waiting(k)' = Waiting(k)
    BY <2>1 DEF Asking, Waiting
  <2>3. \A k : Holding(k)' = Holding(k)
    BY <1>4 DEF Poll, PollSizes, PopMkt, ChooseBid, PopBid, LoadSeq, StoreSeq, Stamp, LoadInv, StoreInv,
                Holding
  <2>4. \A k : Asking(k)' <= Asking(k) /\ Coming(k)' <= Coming(k)
    BY <1>1, <2>2, HolderCounts
  <2> QED
    BY <2>2, <2>3, <2>4, HolderKept
<1> QED
  BY <1>2, <1>3, <1>4 DEF Sender

\* What a packet read takes off the wire.
LEMMA ComingFalls ==
    ASSUME TypeOK, toGw # <<>>, toGw' = Tail(toGw)
    PROVE  \A k : /\ Coming(k) = Coming(k)' + Bit(Head(toGw) \in Takers(k))
                  /\ Coming(k)' \in Nat /\ Coming(k)' <= Coming(k)
<1> SUFFICES ASSUME NEW k
             PROVE  /\ Coming(k) = Coming(k)' + Bit(Head(toGw) \in Takers(k))
                    /\ Coming(k)' \in Nat /\ Coming(k)' <= Coming(k)
  OBVIOUS
<1>1. toGw \in Seq(Packet) /\ toGw' \in Seq(Packet)
  BY DEF TypeOK, WireTypes
<1>2. Coming(k) = Coming(k)' + Bit(Head(toGw) \in Takers(k))
  BY <1>1, HowManyTail DEF Coming
<1>3. Coming(k)' \in Nat
  BY <1>1, HowManyFinite DEF Coming
<1>4. Bit(Head(toGw) \in Takers(k)) \in Nat
  BY DEF Bit
<1> QED
  BY <1>2, <1>3, <1>4

\* An erase that leaves the vector undisturbed does not tear, and serves no late reject.
LEMMA Undisturbed ==
    ASSUME NEW m, ~disturbed'
    PROVE  /\ disturbed' # TRUE
           /\ disturbed' = (disturbed \/ LateReject(m)) => ~LateReject(m)
<1>1. disturbed' # TRUE
  BY Zenon
<1>2. ASSUME disturbed' = (disturbed \/ LateReject(m)) PROVE ~LateReject(m)
  BY <1>2, Zenon
<1> QED
  BY <1>1, <1>2, Zenon

\* So the holder that leaves is the one the packet asked for.
LEMMA UndisturbedErase ==
    ASSUME NEW m, NEW h, GetPF(m, h), ~disturbed'
    PROVE  \/ QueueHolder' = QueueHolder /\ spc' = spc
           \/ \E i \in Match(m.key) :
                QueueHolder' = RemoveAt(QueueHolder, i) /\ spc' = spc /\ ~LateReject(m)
<1>1. CASE UNCHANGED <<QueueHolder, spc, disturbed>>
  BY <1>1
<1>2. ASSUME NEW i \in Match(m.key),
             \/ /\ QueueHolder' = RemoveAt(QueueHolder, i)
                /\ disturbed' = (disturbed \/ LateReject(m)) /\ UNCHANGED spc
             \/ disturbed' = TRUE
      PROVE  QueueHolder' = RemoveAt(QueueHolder, i) /\ spc' = spc /\ ~LateReject(m)
  BY <1>2, Undisturbed, Zenon
<1> QED
  BY <1>1, <1>2, Zenon DEF GetPF

\* Short of an erase that tears or a late reject, GetPF takes a holder for the
\* packet that asked for one with its key.
LEMMA HolderGetPF ==
    ASSUME TypeOK, TypeOK', HolderInv, Receives(Head(toGw)),
           Head(toGw).code \in {20073, 2042, 2072, 2231},
           NEW h \in NewOrders \cup {Orphan}, GetPF(Head(toGw), h), UNCHANGED hand, ~disturbed'
    PROVE  HolderInv'
<1> DEFINE m == Head(toGw)
<1>1. /\ toGw # <<>> /\ toGw' = Tail(toGw) /\ toExch' = toExch
      /\ QueueHolder \in Seq(NewOrders)
      /\ m \in Packet /\ m.order \in Nat
  BY ReceivedPacket DEF TypeOK, TableTypes, Receives
<1>2. \A k : /\ Coming(k) = Coming(k)' + Bit(m \in Takers(k))
             /\ Coming(k)' \in Nat /\ Coming(k)' <= Coming(k)
  BY <1>1, ComingFalls
<1>3. \A k : Asking(k)' = Asking(k)
  BY <1>1 DEF Asking
<1>4. CASE UNCHANGED <<QueueHolder, spc>>
  <2>1. \A k : Waiting(k)' = Waiting(k) /\ Holding(k)' = Holding(k)
    BY <1>4 DEF Waiting, Holding
  <2> QED
    BY <1>2, <1>3, <2>1, HolderCounts, HolderKept
<1>5. ASSUME NEW i \in Match(m.key), QueueHolder' = RemoveAt(QueueHolder, i), spc' = spc,
             ~LateReject(m)
      PROVE  HolderInv'
  <2> SUFFICES ASSUME NEW k \in Keys
               PROVE  Asking(k)' + Coming(k)' <= Waiting(k)' + Holding(k)'
    BY DEF HolderInv
  <2>1. i \in DOMAIN QueueHolder /\ QueueHolder[i] \in NewOrders /\ KeyOf[QueueHolder[i]] = m.key
    BY <1>1, <1>5 DEF Match
  <2>2. m \in Takers(m.key)
    <3>1. m.code = 20073 \/ m.order = 0
      BY <1>1, <1>5 DEF LateReject
    <3> QED
      BY <1>1, <3>1 DEF Takers
  <2>3. QueueHolder[i] \in Holders(k) <=> k = m.key
    BY <2>1 DEF Holders
  <2>4. m \in Takers(k) <=> k = m.key
    BY <2>2 DEF Takers
  <2>5. Waiting(k) = Waiting(k)' + Bit(QueueHolder[i] \in Holders(k))
    BY <1>1, <1>5, <2>1, HowManyRemoveAt DEF Waiting
  <2>6. Coming(k) = Coming(k)' + Bit(m \in Takers(k))
    BY <1>2
  <2>7. Bit(m \in Takers(k)) = Bit(QueueHolder[i] \in Holders(k)) /\ Bit(m \in Takers(k)) \in Nat
    BY <2>3, <2>4 DEF Bit
  <2>8. Holding(k)' = Holding(k)
    BY <1>5 DEF Holding
  <2>9. Waiting(k)' \in Nat
    BY HowManyFinite DEF TypeOK, TableTypes, Waiting
  <2>10. /\ Asking(k) \in Nat /\ Holding(k) \in Nat /\ Coming(k)' \in Nat
         /\ Asking(k) + Coming(k) <= Waiting(k) + Holding(k)
    BY <1>2, HolderCounts DEF HolderInv
  <2> QED
    BY <1>3, <2>5, <2>6, <2>7, <2>8, <2>9, <2>10
<1>6. \/ UNCHANGED <<QueueHolder, spc>>
      \/ \E i \in Match(m.key) :
           QueueHolder' = RemoveAt(QueueHolder, i) /\ spc' = spc /\ ~LateReject(m)
  BY UndisturbedErase
<1> QED
  BY <1>4, <1>5, <1>6

\* The reader: a packet read asks no more, whether it found a holder or not.
LEMMA HolderReader ==
    ASSUME TypeOK, TypeOK', HolderInv, Reader, ~disturbed'
    PROVE  HolderInv'
<1> USE DEF ReaderUnchanged
<1>1. UNCHANGED hand
  BY DEF Reader, RecvInvitation, Grant, RecvSignOnReply, RecvConfirm, RecvReject, RecvUpdate, RecvTrade,
         SetSeq, SendSignOn, LoadSpend, StoreSpend
<1>2. ASSUME UNCHANGED <<QueueHolder, spc>>, Receives(Head(toGw)) PROVE HolderInv'
  <2>1. toGw # <<>> /\ toGw' = Tail(toGw) /\ toExch' = toExch
    BY <1>2 DEF Receives
  <2>2. \A k : Coming(k)' <= Coming(k)
    BY <2>1, ComingFalls
  <2>3. \A k : Asking(k)' = Asking(k) /\ Waiting(k)' = Waiting(k) /\ Holding(k)' = Holding(k)
    BY <1>1, <1>2, <2>1 DEF Asking, Waiting, Holding
  <2> QED
    BY <2>2, <2>3, HolderCounts, HolderKept
<1>3. CASE RecvInvitation \/ RecvSignOnReply \/ RecvUpdate \/ RecvTrade
  <2>1. UNCHANGED <<QueueHolder, spc>>
    BY <1>3 DEF RecvInvitation, RecvSignOnReply, RecvUpdate, RecvTrade, tableVars
  <2>2. Receives(Head(toGw))
    BY <1>3 DEF RecvInvitation, RecvSignOnReply, RecvUpdate, RecvTrade, Receives
  <2> QED
    BY <1>2, <2>1, <2>2
<1>4. CASE RecvConfirm
  <2>1. /\ Receives(Head(toGw)) /\ Head(toGw).code = 20073
        /\ \E h \in NewOrders \cup {Orphan} : GetPF(Head(toGw), h)
    BY <1>4 DEF RecvConfirm
  <2> QED
    BY <1>1, <2>1, HolderGetPF
<1>5. CASE RecvReject
  <2>1. /\ Receives(Head(toGw)) /\ Head(toGw).code \in {2042, 2072, 2231}
        /\ \/ UNCHANGED <<spc, tableVars>>
           \/ \E h \in NewOrders \cup {Orphan} : GetPF(Head(toGw), h)
    BY <1>5 DEF RecvReject
  <2>2. CASE UNCHANGED <<spc, tableVars>>
    BY <1>2, <2>1, <2>2 DEF tableVars
  <2>3. CASE \E h \in NewOrders \cup {Orphan} : GetPF(Head(toGw), h)
    BY <1>1, <2>1, <2>3, HolderGetPF
  <2> QED
    BY <2>1, <2>2, <2>3
<1>6. CASE SendSignOn
  <2>1. UNCHANGED <<toGw, QueueHolder, spc>>
    BY <1>6 DEF SendSignOn, tableVars
  <2>2. PICK r \in {SignOnRequest("login"), SignOnRequest("sysinfo")} : toExch' = Append(toExch, r)
    BY <1>6 DEF SendSignOn, Write
  <2>3. toExch \in Seq(Request) /\ r \in Request /\ r.op # "new"
    BY <2>2, RequestTypes DEF TypeOK, WireTypes, SignOnRequest
  <2>4. \A k : Asking(k)' = Asking(k) + 0
    BY <2>2, <2>3, HowManyAppend DEF Asking, Bit, Asks
  <2>5. \A k : Coming(k)' = Coming(k) /\ Waiting(k)' = Waiting(k) /\ Holding(k)' = Holding(k)
    BY <1>1, <2>1 DEF Coming, Waiting, Holding
  <2> QED
    BY <2>4, <2>5, HolderCounts, HolderKept
<1>7. CASE Grant \/ SetSeq \/ LoadSpend \/ StoreSpend
  <2>1. UNCHANGED <<toGw, toExch, QueueHolder, spc>>
    BY <1>7 DEF Grant, SetSeq, LoadSpend, StoreSpend, tableVars, wireVars
  <2>2. \A k : /\ Asking(k)' = Asking(k) /\ Coming(k)' = Coming(k)
               /\ Waiting(k)' = Waiting(k) /\ Holding(k)' = Holding(k)
    BY <1>1, <2>1 DEF Asking, Coming, Waiting, Holding
  <2> QED
    BY <2>2, HolderCounts, HolderKept
<1> QED
  BY <1>3, <1>4, <1>5, <1>6, <1>7 DEF Reader

\* An answer of the exchange asks for a holder only if the request it answers did.
LEMMA HolderAnswer ==
    ASSUME TypeOK, TypeOK', HolderInv, toExch # <<>>, NEW reply \in Packet, Answer(reply),
           \A k \in Keys : reply \in Takers(k) => Head(toExch) \in Asks(k)
    PROVE  HolderInv'
<1> SUFFICES ASSUME NEW k \in Keys
             PROVE  Asking(k)' + Coming(k)' <= Waiting(k)' + Holding(k)'
  BY DEF HolderInv
<1>1. /\ toGw \in Seq(Packet) /\ Invitation \in Packet /\ Append(toGw, Invitation) \in Seq(Packet)
      /\ toGw' = Append(Append(toGw, Invitation), reply)
  BY PacketTypes DEF Answer, TypeOK, WireTypes
<1>2. Invitation \notin Takers(k)
  BY DEF Invitation, Takers
<1>3. Coming(k)' = Coming(k) + 0 + Bit(reply \in Takers(k))
  <2> DEFINE granted == Append(toGw, Invitation)
  <2>1. HowMany(granted, Takers(k)) = HowMany(toGw, Takers(k)) + 0
    BY <1>1, <1>2, HowManyAppend DEF Bit
  <2>2. granted \in Seq(Packet) /\ toGw' = Append(granted, reply)
    BY <1>1
  <2> HIDE DEF granted
  <2>3. HowMany(toGw', Takers(k)) = HowMany(granted, Takers(k)) + Bit(reply \in Takers(k))
    BY <2>2, HowManyAppend
  <2> QED
    BY <2>1, <2>3 DEF Coming
<1>4. toExch \in Seq(Request) /\ toExch' = Tail(toExch)
  BY DEF Answer, TypeOK, WireTypes
<1>5. Asking(k) = Asking(k)' + Bit(Head(toExch) \in Asks(k))
  BY <1>4, HowManyTail DEF Asking
<1>6. /\ Bit(reply \in Takers(k)) <= Bit(Head(toExch) \in Asks(k))
      /\ Bit(reply \in Takers(k)) \in Nat /\ Bit(Head(toExch) \in Asks(k)) \in Nat
  BY DEF Bit
<1>7. Waiting(k)' = Waiting(k) /\ Holding(k)' = Holding(k)
  BY DEF Answer, ExchangeUnchanged, tableVars, senderVars, Waiting, Holding
<1>8. Asking(k)' \in Nat
  BY HowManyFinite DEF TypeOK, WireTypes, Asking
<1>9. /\ Coming(k) \in Nat /\ Waiting(k) \in Nat /\ Holding(k) \in Nat
      /\ Asking(k) + Coming(k) <= Waiting(k) + Holding(k)
  BY HolderCounts DEF HolderInv
<1> QED
  BY <1>3, <1>5, <1>6, <1>7, <1>8, <1>9

\* The exchange confirms or rejects a new order once, with the key it came with; a
\* reject of a modify or cancel has an order number, for it is no request until
\* its order was confirmed.
LEMMA HolderExchange ==
    ASSUME TypeOK, TypeOK', OwnershipInv, HolderInv, ExchangeAnswers
    PROVE  HolderInv'
<1>1. \E reply \in Packet : /\ toExch # <<>> /\ Answer(reply)
                            /\ \A k \in Keys : reply \in Takers(k) => Head(toExch) \in Asks(k)
  <2>1. CASE AnswerSignOn
    <3>1. SignOnReply \in Packet /\ \A k : SignOnReply \notin Takers(k)
      BY PacketTypes DEF SignOnReply, Takers
    <3> QED
      BY <2>1, <3>1 DEF AnswerSignOn, Asked
  <2>2. CASE AcceptNew
    <3>1. /\ toExch # <<>> /\ Head(toExch).id \in NewOrders
          /\ Head(toExch) \in Request /\ Head(toExch).op = "new"
      BY <2>2, AskedRequest DEF AcceptNew, TypeOK
    <3>2. KeyOf[Head(toExch).id] \in Keys /\ Len(book) + 1 \in Nat
      BY <3>1 DEF TypeOK, BookTypes
    <3> DEFINE reply == Confirm(Len(book) + 1, KeyOf[Head(toExch).id])
    <3>3. reply \in Packet
      BY <3>2, PacketTypes
    <3>4. \A k : reply \in Takers(k) => Head(toExch) \in Asks(k)
      BY <3>1 DEF Confirm, Takers, Asks
    <3> QED
      BY <2>2, <3>1, <3>3, <3>4 DEF AcceptNew
  <2>3. CASE RejectNew
    <3>1. /\ toExch # <<>> /\ Head(toExch).id \in NewOrders
          /\ Head(toExch) \in Request /\ Head(toExch).op = "new"
      BY <2>3, AskedRequest DEF RejectNew, TypeOK
    <3>2. KeyOf[Head(toExch).id] \in Keys
      BY <3>1
    <3> DEFINE reply == Reject(2231, 0, KeyOf[Head(toExch).id])
    <3>3. reply \in Packet
      BY <3>2, PacketTypes
    <3>4. \A k : reply \in Takers(k) => Head(toExch) \in Asks(k)
      BY <3>1 DEF Reject, Takers, Asks
    <3> QED
      BY <2>3, <3>1, <3>3, <3>4 DEF RejectNew
  <2>4. CASE AcceptModify \/ AcceptCancel
    <3>1. toExch # <<>> /\ Head(toExch).order \in Nat
      BY <2>4, AskedRequest DEF AcceptModify, AcceptCancel, TypeOK
    <3>2. PICK c \in {20074, 20075} : Answer(Update(c, Head(toExch).order))
      BY <2>4 DEF AcceptModify, AcceptCancel
    <3> DEFINE reply == Update(c, Head(toExch).order)
    <3>3. reply \in Packet
      BY <3>1, PacketTypes
    <3>4. \A k : reply \notin Takers(k)
      BY DEF Update, Takers
    <3> QED
      BY <3>1, <3>2, <3>3, <3>4
  <2>5. CASE RejectModify \/ RejectCancel
    <3>1. toExch # <<>> /\ Head(toExch).order \in Nat /\ IsOm(Head(toExch)) /\ toExch \in Seq(Request)
      BY <2>5, AskedRequest DEF RejectModify, RejectCancel, TypeOK, IsOm, WireTypes
    <3>2. PICK c \in {2042, 2072} : \E k \in Keys : Answer(Reject(c, Head(toExch).order, k))
      BY <2>5 DEF RejectModify, RejectCancel
    <3>3. PICK key \in Keys : Answer(Reject(c, Head(toExch).order, key))
      BY <3>2
    <3>4. Head(toExch).order # 0
      <4>1. Head(toExch) \in Range(toExch)
        BY <3>1, RangeFacts
      <4>2. Settled(Head(toExch).order)
        BY <3>1, <4>1 DEF OwnershipInv, RequestsSettled, InFlight
      <4> QED
        BY <4>2 DEF Settled, OrderNumbers
    <3> DEFINE reply == Reject(c, Head(toExch).order, key)
    <3>5. reply \in Packet
      BY <3>1, PacketTypes
    <3>6. \A k : reply \notin Takers(k)
      BY <3>4 DEF Reject, Takers
    <3> QED
      BY <3>1, <3>3, <3>5, <3>6
  <2> QED
    BY <2>1, <2>2, <2>3, <2>4, <2>5 DEF ExchangeAnswers
<1> QED
  BY <1>1, HolderAnswer

\* A fill is reported by number.
LEMMA HolderFill ==
    ASSUME TypeOK, TypeOK', HolderInv, NEW n \in OrderNumbers, Fill(n)
    PROVE  HolderInv'
<1>1. n \in Nat /\ book[n].rem - 1 \in Nat
  <2>1. n \in 1..Len(book) /\ book[n] \in [id : NewOrders, rem : 0..Lots]
    BY SequenceTypes DEF TypeOK, BookTypes, OrderNumbers
  <2> QED
    BY <2>1 DEF Fill, IsLive
<1> DEFINE m == Trade(n, book[n].rem - 1)
<1>2. m \in Packet /\ \A k : m \notin Takers(k)
  BY <1>1, PacketTypes DEF Trade, Takers
<1>3. toGw' = Append(toGw, m) /\ toGw \in Seq(Packet)
  BY DEF Fill, TypeOK, WireTypes
<1> HIDE DEF m
<1>4. \A k : Coming(k)' = Coming(k) + 0
  BY <1>2, <1>3, HowManyAppend DEF Coming, Bit
<1>5. \A k : Asking(k)' = Asking(k) /\ Waiting(k)' = Waiting(k) /\ Holding(k)' = Holding(k)
  BY DEF Fill, ExchangeUnchanged, tableVars, senderVars, Asking, Waiting, Holding
<1> QED
  BY <1>4, <1>5, HolderCounts, HolderKept

\* Every packet that will ask for a holder by key finds one on the vector, or in the
\* hand of the sender between its send and its push_back, for any number of orders
\* and requests, until the vector is disturbed.
THEOREM HoldersSuffice == Spec => [](~disturbed => HolderInv)
<1>1. Init => HolderInv
  BY HolderInit
<1>2. TypeOK /\ TypeOK' /\ OwnershipInv /\ (~disturbed => HolderInv) /\ [Next]_vars
        => (~disturbed => HolderInv)'
  <2> SUFFICES ASSUME TypeOK, TypeOK', OwnershipInv, ~disturbed => HolderInv, [Next]_vars, ~disturbed'
               PROVE  HolderInv'
    OBVIOUS
  <2>1. HolderInv
    BY DisturbedStays
  <2>2. CASE Sender
    BY <2>1, <2>2, HolderSender
  <2>3. CASE Reader
    BY <2>1, <2>3, HolderReader
  <2>4. CASE ExchangeAnswers
    BY <2>1, <2>4, HolderExchange
  <2>5. CASE \E n \in OrderNumbers : Fill(n)
    BY <2>1, <2>5, HolderFill
  <2>6. CASE \/ \E o \in NewOrders : Submit(o)
             \/ \E op \in {"modify", "cancel"}, n \in OrderNumbers : SubmitOm(op, n)
             \/ UNCHANGED vars
    <3>1. UNCHANGED <<toExch, toGw, QueueHolder, hand, spc>>
      BY <2>6 DEF Submit, SubmitOm, vars, senderVars, tableVars, wireVars
    <3>2. \A k : /\ Asking(k)' = Asking(k) /\ Coming(k)' = Coming(k)
                 /\ Waiting(k)' = Waiting(k) /\ Holding(k)' = Holding(k)
      BY <3>1 DEF Asking, Coming, Waiting, Holding
    <3> QED
      BY <2>1, <3>2, HolderCounts, HolderKept
  <2> QED
    BY <2>2, <2>3, <2>4, <2>5, <2>6 DEF Next
<1> QED
  BY <1>1, <1>2, TypeCorrect, OwnershipInvariant, PTL DEF Spec

\* A cancel the reader puts into the market queue is the cancel of an order whose
\* packet found no holder.
LEMMA OrphanConfirm ==
    ASSUME TypeOK, OwnershipInv, HolderInv, RecvConfirm,
           NEW n \in OrderNumbers, CancelOf(n) \in Range(Mktqueue') \ Range(Mktqueue)
    PROVE  /\ spc \in {"loadInv", "storeInv", "push"}
           /\ hand.op = "new" /\ KeyOf[hand.id] = KeyOf[book[n].id]
<1> DEFINE m == Head(toGw)
<1>1. PICK h \in NewOrders \cup {Orphan} :
        /\ GetPF(m, h)
        /\ Mktqueue' = IF h = Orphan THEN Append(Mktqueue, CancelOf(m.order)) ELSE Mktqueue
  BY DEF RecvConfirm
<1>2. /\ Receives(m) /\ m.code = 20073 /\ m \in Packet /\ m.order \in Nat /\ m.key \in Keys
      /\ toGw \in Seq(Packet) /\ m \in Range(toGw) /\ toGw # <<>>
      /\ 1 \in DOMAIN toGw /\ toGw[1] = m
  BY ReceivedPacket, ReceiveFacts DEF RecvConfirm, TypeOK, WireTypes, Receives
<1>3. h = Orphan /\ n = m.order
  <2>1. h = Orphan /\ Mktqueue' = Append(Mktqueue, CancelOf(m.order))
    BY <1>1
  <2>2. CancelOf(m.order) \in Request /\ Mktqueue \in Seq(Request)
    BY <1>2, RequestTypes DEF CancelOf, TypeOK, QueueTypes
  <2>3. CancelOf(n) = CancelOf(m.order)
    BY <2>1, <2>2, RangeFacts
  <2>4. CancelOf(n).order = CancelOf(m.order).order
    BY <2>3
  <2> QED
    BY <2>1, <2>4 DEF CancelOf, OmRequest
<1>4. QueueHolder \in Seq(NewOrders)
  BY DEF TypeOK, TableTypes
<1>5. Match(m.key) = {}
  <2>1. \A i \in Match(m.key) : QueueHolder[i] \in NewOrders
    BY <1>4 DEF Match
  <2> QED
    BY <1>1, <1>3, <2>1, GatewayAssumption DEF GetPF
<1>6. Waiting(m.key) = 0
  <2>1. \A i \in DOMAIN QueueHolder : QueueHolder[i] \notin Holders(m.key)
    BY <1>5 DEF Match, Holders
  <2> QED
    BY <1>4, <2>1, HowManyNone DEF Waiting
<1>7. Coming(m.key) # 0
  <2>1. m \in Takers(m.key)
    BY <1>2 DEF Takers
  <2> QED
    BY <1>2, <2>1, HowManyNone DEF Coming
<1>8. Holding(m.key) # 0
  <2>1. m.key \in Keys
    BY <1>2
  <2> HIDE DEF m
  <2>2. /\ Asking(m.key) \in Nat /\ Coming(m.key) \in Nat /\ Holding(m.key) \in Nat
        /\ Asking(m.key) + Coming(m.key) <= Waiting(m.key) + Holding(m.key)
    BY <2>1, HolderCounts DEF HolderInv
  <2> QED
    BY <1>6, <1>7, <2>2
<1>9. m.key = KeyOf[book[n].id]
  BY <1>2, <1>3 DEF OwnershipInv, ConfirmsMatchBook, IsConfirm
<1> QED
  BY <1>8, <1>9 DEF Holding, Bit

\* An order is auto-cancelled only in the window between the sender's send and its
\* push_back of an order with the same key, for any number of orders and requests,
\* unless the vector was disturbed.
THEOREM OrphansOnlyBeforePush == Spec => OrphanOnlyBeforePush
<1> DEFINE A == \A n \in OrderNumbers :
                  (CancelOf(n) \in Range(Mktqueue') \ Range(Mktqueue)) =>
                     \/ disturbed
                     \/ /\ spc \in {"loadInv", "storeInv", "push"}
                        /\ hand.op = "new" /\ KeyOf[hand.id] = KeyOf[book[n].id]
<1>1. TypeOK /\ OwnershipInv /\ (~disturbed => HolderInv) /\ [Next]_vars => [A]_vars
  <2> SUFFICES ASSUME TypeOK, OwnershipInv, ~disturbed => HolderInv, [Next]_vars,
                      NEW n \in OrderNumbers, CancelOf(n) \in Range(Mktqueue') \ Range(Mktqueue),
                      ~disturbed
               PROVE  /\ spc \in {"loadInv", "storeInv", "push"}
                      /\ hand.op = "new" /\ KeyOf[hand.id] = KeyOf[book[n].id]
    OBVIOUS
  <2>1. CASE RecvConfirm
    BY <2>1, OrphanConfirm
  <2>2. CASE UNCHANGED Mktqueue
    BY <2>2
  <2>3. CASE PopMkt
    <3>1. Mktqueue \in Seq(Request) /\ Mktqueue # <<>> /\ Mktqueue' = Tail(Mktqueue)
      BY <2>3 DEF PopMkt, TypeOK, QueueTypes
    <3>2. Range(Mktqueue') \subseteq Range(Mktqueue)
      BY <3>1, RangeFacts
    <3> QED
      BY <3>2
  <2>4. ASSUME NEW o \in NewOrders, Submit(o) PROVE FALSE
    <3>1. Mktqueue \in Seq(Request) /\ NewRequest(o) \in Request /\ NewRequest(o) # CancelOf(n)
      BY RequestTypes DEF TypeOK, QueueTypes, NewRequest, CancelOf, OmRequest
    <3>2. Mktqueue' = Mktqueue \/ Mktqueue' = Append(Mktqueue, NewRequest(o))
      BY <2>4 DEF Submit
    <3>3. CASE Mktqueue' = Append(Mktqueue, NewRequest(o))
      <4>1. Range(Mktqueue') = Range(Mktqueue) \cup {NewRequest(o)}
        BY <3>1, <3>3, RangeFacts
      <4> QED
        BY <3>1, <4>1
    <3>4. CASE Mktqueue' = Mktqueue
      BY <3>4
    <3> QED
      BY <3>2, <3>3, <3>4
  <2>5. CASE Sender
    BY <2>2, <2>3, <2>5 DEF Sender, Poll, PollSizes, ChooseBid, PopBid, LoadSeq, StoreSeq, Stamp, Send,
         LoadInv, StoreInv, PushBack
  <2>6. CASE Reader
    BY <2>1, <2>2, <2>6 DEF Reader, RecvInvitation, Grant, RecvSignOnReply, RecvReject, RecvUpdate,
         RecvTrade, SetSeq, SendSignOn, LoadSpend, StoreSpend
  <2>7. CASE \/ ExchangeAnswers \/ UNCHANGED vars \/ \E k \in OrderNumbers : Fill(k)
             \/ \E op \in {"modify", "cancel"}, k \in OrderNumbers : SubmitOm(op, k)
    <3>1. UNCHANGED Mktqueue
      BY <2>7, ExchangeTouches DEF Fill, SubmitOm, ExchangeUnchanged, vars, queueVars
    <3> QED
      BY <2>2, <3>1
  <2> QED
    BY <2>4, <2>5, <2>6, <2>7 DEF Next
<1>2. OrphanOnlyBeforePush <=> [][A]_vars
  BY DEF OrphanOnlyBeforePush
<1> QED
  BY <1>1, <1>2, TypeCorrect, OwnershipInvariant, HoldersSuffice, PTL DEF Spec
=============================================================================
