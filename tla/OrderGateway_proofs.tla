------------------------- MODULE OrderGateway_proofs -------------------------
(***************************************************************************)
(* Proofs about OrderGateway, for every set of orders, keys and fills.     *)
(***************************************************************************)
EXTENDS OrderGateway, TLAPS

USE GatewayAssumption

\* The requests the strategies and the sign-on build are requests.
LEMMA RequestTypes ==
    /\ \A o \in NewOrders : NewRequest(o) \in Request
    /\ \A n \in Nat : OmRequest("modify", n) \in Request /\ OmRequest("cancel", n) \in Request
    /\ SignOnRequest("login") \in Request /\ SignOnRequest("sysinfo") \in Request
  BY DEF NewRequest, OmRequest, SignOnRequest, Request

\* The packets the exchange builds are packets.
LEMMA PacketTypes ==
    /\ Invitation \in Packet /\ SignOnReply \in Packet
    /\ \A n \in Nat, k \in Keys :
         /\ Confirm(n, k) \in Packet
         /\ \A c \in {2042, 2072, 2231} : Reject(c, n, k) \in Packet
    /\ \A n \in Nat : \A c \in {20074, 20075} : Update(c, n) \in Packet
    /\ \A n, r \in Nat : Trade(n, r) \in Packet
  BY DEF Invitation, SignOnReply, Confirm, Reject, Update, Trade, Packet

\* Append, Head, Tail and \o stay among the sequences of a set.
LEMMA SequenceTypes ==
    ASSUME NEW S, NEW s \in Seq(S)
    PROVE  /\ \A i \in 1..Len(s) : s[i] \in S
           /\ \A e \in S : Append(s, e) \in Seq(S)
           /\ s # <<>> => Head(s) \in S /\ Tail(s) \in Seq(S)
  OBVIOUS

-----------------------------------------------------------------------------
(* Every part of TypeOK that an action leaves alone is preserved.           *)

\* Each part of TypeOK depends only on its own variables.
LEMMA TypesUnchanged ==
    /\ QueueTypes /\ UNCHANGED queueVars => QueueTypes'
    /\ SenderTypes /\ UNCHANGED senderVars => SenderTypes'
    /\ ReaderTypes /\ UNCHANGED readerVars => ReaderTypes'
    /\ SharedTypes /\ UNCHANGED sharedVars => SharedTypes'
    /\ TableTypes /\ UNCHANGED tableVars => TableTypes'
    /\ WireTypes /\ UNCHANGED wireVars => WireTypes'
    /\ BookTypes /\ UNCHANGED book => BookTypes'
<1>1. QueueTypes /\ UNCHANGED queueVars => QueueTypes'
  BY DEF QueueTypes, queueVars
<1>2. SenderTypes /\ UNCHANGED senderVars => SenderTypes'
  BY DEF SenderTypes, senderVars
<1>3. ReaderTypes /\ UNCHANGED readerVars => ReaderTypes'
  BY DEF ReaderTypes, readerVars
<1>4. SharedTypes /\ UNCHANGED sharedVars => SharedTypes'
  BY DEF SharedTypes, sharedVars
<1>5. TableTypes /\ UNCHANGED tableVars => TableTypes'
  BY DEF TableTypes, tableVars
<1>6. WireTypes /\ UNCHANGED wireVars => WireTypes'
  BY DEF WireTypes, wireVars
<1>7. BookTypes /\ UNCHANGED book => BookTypes'
  BY DEF BookTypes
<1> QED
  BY <1>1, <1>2, <1>3, <1>4, <1>5, <1>6, <1>7

\* The state after the constructor is well typed.
LEMMA TypeInit == Init => TypeOK
<1> SUFFICES ASSUME Init PROVE TypeOK
  OBVIOUS
<1>1. QueueTypes
  BY DEF Init, QueueTypes
<1>2. SenderTypes
  BY RequestTypes DEF Init, SenderTypes, SenderPoints
<1>3. ReaderTypes
  BY DEF Init, ReaderTypes, ReaderPoints
<1>4. SharedTypes
  <2>1. lostUpdate \in BOOLEAN
    BY Zenon DEF Init
  <2> QED
    BY <2>1 DEF Init, SharedTypes
<1>5. TableTypes
  <2>1. disturbed \in BOOLEAN
    BY Zenon DEF Init
  <2> QED
    BY <2>1 DEF Init, TableTypes
<1>6. WireTypes
  BY PacketTypes DEF Init, WireTypes
<1>7. BookTypes
  BY DEF Init, BookTypes
<1> QED
  BY <1>1, <1>2, <1>3, <1>4, <1>5, <1>6, <1>7 DEF TypeOK

\* FillData::BidQueue and MktQueue keep the types.
LEMMA TypeSubmit ==
    ASSUME TypeOK, NEW o \in NewOrders, Submit(o)
    PROVE  TypeOK'
<1>1. QueueTypes'
  <2>1. NewRequest(o) \in Request
    BY RequestTypes
  <2>2. CASE o \in MarketOrders
    <3>1. Mktqueue' = Append(Mktqueue, NewRequest(o))
      BY <2>2 DEF Submit
    <3> QED
      BY <2>1, <2>2, <3>1 DEF TypeOK, QueueTypes, Submit
  <2>3. CASE o \notin MarketOrders
    BY <2>1, <2>3 DEF TypeOK, QueueTypes, Submit
  <2> QED
    BY <2>2, <2>3
<1> QED
  BY <1>1, TypesUnchanged DEF TypeOK, Submit

\* A modify or cancel of a published number keeps the types.
LEMMA TypeSubmitOm ==
    ASSUME TypeOK, NEW op \in {"modify", "cancel"}, NEW n \in OrderNumbers, SubmitOm(op, n)
    PROVE  TypeOK'
<1>1. QueueTypes'
  <2>1. n \in Nat
    BY DEF TypeOK, BookTypes, OrderNumbers
  <2>2. OmRequest(op, n) \in Request
    BY <2>1, RequestTypes
  <2> QED
    BY <2>2 DEF TypeOK, QueueTypes, SubmitOm
<1> QED
  BY <1>1, TypesUnchanged DEF TypeOK, SubmitOm

\* One step of SendToExchange keeps the types, step by step.
LEMMA TypeSender ==
    ASSUME TypeOK, Sender
    PROVE  TypeOK'
<1> USE DEF TypeOK, SenderUnchanged
<1>1. CASE Poll
  <2>1. QueueTypes'
    BY <1>1 DEF Poll, QueueTypes
  <2>2. SenderTypes'
    BY <1>1 DEF Poll, SenderTypes, SenderPoints
  <2>3. SharedTypes'
    BY <1>1 DEF Poll, SharedTypes, sharedVars
  <2>4. TableTypes'
    BY <1>1 DEF Poll, TableTypes
  <2>5. WireTypes'
    BY <1>1 DEF Poll, WireTypes
  <2> QED
    BY <1>1, <2>1, <2>2, <2>3, <2>4, <2>5, TypesUnchanged DEF Poll
<1>2. CASE PopMkt
  <2>1. QueueTypes'
    BY <1>2 DEF PopMkt, QueueTypes
  <2>2. SenderTypes'
    BY <1>2 DEF PopMkt, SenderTypes, SenderPoints, QueueTypes
  <2>3. SharedTypes'
    BY <1>2 DEF PopMkt, SharedTypes, sharedVars
  <2>4. TableTypes'
    BY <1>2 DEF PopMkt, TableTypes
  <2>5. WireTypes'
    BY <1>2 DEF PopMkt, WireTypes
  <2> QED
    BY <1>2, <2>1, <2>2, <2>3, <2>4, <2>5, TypesUnchanged DEF PopMkt
<1>3. CASE ChooseBid
  <2>1. QueueTypes'
    BY <1>3 DEF ChooseBid, QueueTypes
  <2>2. SenderTypes'
    BY <1>3 DEF ChooseBid, SenderTypes, SenderPoints
  <2>3. SharedTypes'
    BY <1>3 DEF ChooseBid, SharedTypes, sharedVars
  <2>4. TableTypes'
    BY <1>3 DEF ChooseBid, TableTypes
  <2>5. WireTypes'
    BY <1>3 DEF ChooseBid, WireTypes
  <2> QED
    BY <1>3, <2>1, <2>2, <2>3, <2>4, <2>5, TypesUnchanged DEF ChooseBid
<1>4. CASE PopBid
  <2>1. QueueTypes'
    BY <1>4 DEF PopBid, QueueTypes
  <2>2. SenderTypes'
    BY <1>4 DEF PopBid, SenderTypes, SenderPoints, QueueTypes
  <2>3. SharedTypes'
    BY <1>4 DEF PopBid, SharedTypes, sharedVars
  <2>4. TableTypes'
    BY <1>4 DEF PopBid, TableTypes
  <2>5. WireTypes'
    BY <1>4 DEF PopBid, WireTypes
  <2> QED
    BY <1>4, <2>1, <2>2, <2>3, <2>4, <2>5, TypesUnchanged DEF PopBid
<1>5. CASE LoadSeq
  <2>1. QueueTypes'
    BY <1>5 DEF LoadSeq, QueueTypes
  <2>2. SenderTypes'
    BY <1>5 DEF LoadSeq, SenderTypes, SenderPoints, SharedTypes
  <2>3. SharedTypes'
    BY <1>5 DEF LoadSeq, SharedTypes, sharedVars
  <2>4. TableTypes'
    BY <1>5 DEF LoadSeq, TableTypes
  <2>5. WireTypes'
    BY <1>5 DEF LoadSeq, WireTypes
  <2> QED
    BY <1>5, <2>1, <2>2, <2>3, <2>4, <2>5, TypesUnchanged DEF LoadSeq
<1>6. CASE StoreSeq
  <2>1. QueueTypes'
    BY <1>6 DEF StoreSeq, QueueTypes
  <2>2. SenderTypes'
    BY <1>6 DEF StoreSeq, SenderTypes, SenderPoints
  <2>3. SharedTypes'
    BY <1>6 DEF StoreSeq, SharedTypes, sharedVars
  <2>4. TableTypes'
    BY <1>6 DEF StoreSeq, TableTypes
  <2>5. WireTypes'
    BY <1>6 DEF StoreSeq, WireTypes
  <2> QED
    BY <1>6, <2>1, <2>2, <2>3, <2>4, <2>5, TypesUnchanged DEF StoreSeq
<1>7. CASE Stamp
  <2>1. QueueTypes'
    BY <1>7 DEF Stamp, QueueTypes
  <2>2. SenderTypes'
    BY <1>7 DEF Stamp, SenderTypes, SenderPoints, SharedTypes
  <2>3. SharedTypes'
    BY <1>7 DEF Stamp, SharedTypes, sharedVars
  <2>4. TableTypes'
    BY <1>7 DEF Stamp, TableTypes
  <2>5. WireTypes'
    BY <1>7 DEF Stamp, WireTypes
  <2> QED
    BY <1>7, <2>1, <2>2, <2>3, <2>4, <2>5, TypesUnchanged DEF Stamp
<1>8. CASE Send
  <2>1. QueueTypes'
    BY <1>8 DEF Send, QueueTypes
  <2>2. SenderTypes'
    BY <1>8 DEF Send, SenderTypes, SenderPoints
  <2>3. SharedTypes'
    BY <1>8 DEF Send, SharedTypes, sharedVars
  <2>4. TableTypes'
    BY <1>8 DEF Send, TableTypes
  <2>5. WireTypes'
    BY <1>8 DEF Send, WireTypes, SenderTypes, Write
  <2> QED
    BY <1>8, <2>1, <2>2, <2>3, <2>4, <2>5, TypesUnchanged DEF Send
<1>9. CASE LoadInv
  <2>1. QueueTypes'
    BY <1>9 DEF LoadInv, QueueTypes
  <2>2. SenderTypes'
    BY <1>9 DEF LoadInv, SenderTypes, SenderPoints, SharedTypes
  <2>3. SharedTypes'
    BY <1>9 DEF LoadInv, SharedTypes, sharedVars
  <2>4. TableTypes'
    BY <1>9 DEF LoadInv, TableTypes
  <2>5. WireTypes'
    BY <1>9 DEF LoadInv, WireTypes
  <2> QED
    BY <1>9, <2>1, <2>2, <2>3, <2>4, <2>5, TypesUnchanged DEF LoadInv
<1>10. CASE StoreInv
  <2>1. QueueTypes'
    BY <1>10 DEF StoreInv, QueueTypes
  <2>2. SenderTypes'
    BY <1>10 DEF StoreInv, SenderTypes, SenderPoints
  <2>3. SharedTypes'
    BY <1>10 DEF StoreInv, SharedTypes, sharedVars
  <2>4. TableTypes'
    BY <1>10 DEF StoreInv, TableTypes
  <2>5. WireTypes'
    BY <1>10 DEF StoreInv, WireTypes
  <2> QED
    BY <1>10, <2>1, <2>2, <2>3, <2>4, <2>5, TypesUnchanged DEF StoreInv
<1>11. CASE PushBack
  <2>1. QueueTypes'
    BY <1>11 DEF PushBack, QueueTypes
  <2>2. SenderTypes'
    BY <1>11 DEF PushBack, SenderTypes, SenderPoints
  <2>3. SharedTypes'
    BY <1>11 DEF PushBack, SharedTypes, sharedVars
  <2>4. TableTypes'
    BY <1>11 DEF PushBack, TableTypes, SenderTypes, Request
  <2>5. WireTypes'
    BY <1>11 DEF PushBack, WireTypes
  <2> QED
    BY <1>11, <2>1, <2>2, <2>3, <2>4, <2>5, TypesUnchanged DEF PushBack
<1>12. CASE PollSizes
  <2>1. QueueTypes'
    BY <1>12 DEF PollSizes, QueueTypes
  <2>2. SenderTypes'
    BY <1>12 DEF PollSizes, SenderTypes, SenderPoints
  <2>3. SharedTypes'
    BY <1>12 DEF PollSizes, SharedTypes, sharedVars
  <2>4. TableTypes'
    BY <1>12 DEF PollSizes, TableTypes
  <2>5. WireTypes'
    BY <1>12 DEF PollSizes, WireTypes
  <2> QED
    BY <1>12, <2>1, <2>2, <2>3, <2>4, <2>5, TypesUnchanged DEF PollSizes
<1> QED
  BY <1>1, <1>2, <1>3, <1>4, <1>5, <1>6, <1>7, <1>8, <1>9, <1>10, <1>11, <1>12 DEF Sender

\* The sign-on counter stays within 0..2.
LEMMA EndOfPacketTypes ==
    ASSUME ReaderTypes, EndOfPacket, UNCHANGED rreg
    PROVE  ReaderTypes'
  BY DEF ReaderTypes, EndOfPacket, ReaderPoints

\* What the reader takes from the wire is a packet, and the rest are packets.
LEMMA ReceivedPacket ==
    ASSUME WireTypes, Receives(Head(toGw)),
           Head(toGw).code \in {20073, 2042, 2072, 2231, 20074, 20075, 20222}
    PROVE  /\ Head(toGw) \in Packet /\ Head(toGw).order \in Nat
           /\ Head(toGw).code \in {20073, 2042, 2072, 2231} => Head(toGw).key \in Keys
           /\ Head(toGw).code = 20222 => Head(toGw).rem \in Nat
<1>1. Head(toGw) \in Packet
  BY DEF WireTypes, Receives
<1> QED
  BY <1>1 DEF Packet

\* Whatever an overlapped erase leaves is made of the holders that were there.
LEMMA TornEraseTypes ==
    ASSUME NEW S, NEW v \in Seq(S), NEW i \in DOMAIN v, NEW x \in S
    PROVE  RemoveAt(v, i) \in Seq(S) /\ TornErase(v, i, x) \subseteq Seq(S)
<1>1. RemoveAt(v, i) \in Seq(S)
  BY DEF RemoveAt
<1>2. ASSUME NEW c \in [DOMAIN v -> Range(v)]
      PROVE  c \in Seq(S) /\ Append(c, x) \in Seq(S)
  <2>1. Range(v) \subseteq S /\ DOMAIN v = 1..Len(v) /\ Len(v) \in Nat
    BY DEF Range
  <2>2. c \in [1..Len(v) -> S]
    BY <2>1
  <2>3. c \in Seq(S)
    BY <2>1, <2>2
  <2> QED
    BY <2>3
<1> QED
  BY <1>1, <1>2 DEF TornErase

\* Erasing one holder leaves a sequence of holders.
LEMMA RemoveAtTypes ==
    ASSUME NEW S, NEW v \in Seq(S), NEW i \in DOMAIN v
    PROVE  RemoveAt(v, i) \in Seq(S)
  BY DEF RemoveAt

\* PFMap keeps order numbers mapped to holders or to the orphan.
LEMMA AddRecordTypes ==
    ASSUME TableTypes, NEW n \in Nat, NEW h \in NewOrders \cup {Orphan}, AddRecord(n, h)
    PROVE  DOMAIN OutPF' \subseteq Nat /\ OutPF' \in [DOMAIN OutPF' -> NewOrders \cup {Orphan}]
  BY DEF AddRecord, TableTypes

\* GetPF keeps both tables well typed, torn erase included.
LEMMA GetPFTypes ==
    ASSUME TableTypes, SenderTypes, NEW m, m.order \in Nat, NEW h \in NewOrders \cup {Orphan},
           GetPF(m, h), UNCHANGED <<hand, sreg, stamp>>
    PROVE  TableTypes' /\ SenderTypes'
<1>1. DOMAIN OutPF' \subseteq Nat /\ OutPF' \in [DOMAIN OutPF' -> NewOrders \cup {Orphan}]
  BY AddRecordTypes DEF GetPF
<1>2. CASE UNCHANGED <<QueueHolder, spc, disturbed>>
  BY <1>1, <1>2 DEF TableTypes, SenderTypes
<1>3. ASSUME NEW i \in Match(m.key),
             QueueHolder' = RemoveAt(QueueHolder, i),
             disturbed' = (disturbed \/ LateReject(m)), UNCHANGED spc
      PROVE  TableTypes' /\ SenderTypes'
  <2>1. QueueHolder' \in Seq(NewOrders)
    BY <1>3, RemoveAtTypes DEF TableTypes, Match
  <2>2. disturbed' \in BOOLEAN
    BY <1>3, Zenon DEF TableTypes
  <2> QED
    BY <1>1, <1>3, <2>1, <2>2 DEF TableTypes, SenderTypes
<1>4. ASSUME NEW i \in Match(m.key), spc = "push", spc' = "poll",
             QueueHolder' \in TornErase(QueueHolder, i, hand.id), disturbed' = TRUE
      PROVE  TableTypes' /\ SenderTypes'
  <2>1. hand.id \in NewOrders
    BY <1>4 DEF SenderTypes, Request
  <2>2. QueueHolder' \in Seq(NewOrders)
    BY <1>4, <2>1, TornEraseTypes DEF TableTypes, Match
  <2>3. disturbed' \in BOOLEAN
    BY <1>4, Zenon
  <2>4. SenderTypes'
    BY <1>4 DEF SenderTypes, SenderPoints
  <2> QED
    BY <1>1, <2>2, <2>3, <2>4 DEF TableTypes
<1> QED
  BY <1>2, <1>3, <1>4 DEF GetPF

\* One packet of BindConnection keeps the types, case by case.
LEMMA TypeReader ==
    ASSUME TypeOK, Reader
    PROVE  TypeOK'
<1> USE DEF TypeOK, ReaderUnchanged
<1>1. CASE RecvInvitation
  <2>1. ReaderTypes'
    BY <1>1 DEF RecvInvitation, ReaderTypes, ReaderPoints, SharedTypes
  <2>2. WireTypes'
    BY <1>1 DEF RecvInvitation, WireTypes, Receives
  <2>3. QueueTypes'
    BY <1>1 DEF RecvInvitation, QueueTypes
  <2>4. SenderTypes'
    BY <1>1 DEF RecvInvitation, SenderTypes
  <2> QED
    BY <1>1, <2>1, <2>2, <2>3, <2>4, TypesUnchanged DEF RecvInvitation
<1>2. CASE Grant
  <2>1. ReaderTypes'
    BY <1>2 DEF Grant, ReaderTypes, ReaderPoints, EndOfPacket
  <2>2. SharedTypes'
    BY <1>2 DEF Grant, SharedTypes, ReaderTypes, sharedVars
  <2>3. QueueTypes'
    BY <1>2 DEF Grant, QueueTypes
  <2>4. SenderTypes'
    BY <1>2 DEF Grant, SenderTypes
  <2> QED
    BY <1>2, <2>1, <2>2, <2>3, <2>4, TypesUnchanged DEF Grant
<1>3. CASE RecvSignOnReply
  <2>1. ReaderTypes'
    BY <1>3 DEF RecvSignOnReply, ReaderTypes, ReaderPoints, EndOfPacket
  <2>2. WireTypes'
    BY <1>3 DEF RecvSignOnReply, WireTypes, Receives
  <2>3. QueueTypes'
    BY <1>3 DEF RecvSignOnReply, QueueTypes
  <2>4. SenderTypes'
    BY <1>3 DEF RecvSignOnReply, SenderTypes
  <2> QED
    BY <1>3, <2>1, <2>2, <2>3, <2>4, TypesUnchanged DEF RecvSignOnReply
<1>4. CASE RecvUpdate
  <2>1. ReaderTypes'
    BY <1>4 DEF RecvUpdate, ReaderTypes, ReaderPoints, EndOfPacket
  <2>2. WireTypes'
    BY <1>4 DEF RecvUpdate, WireTypes, Receives
  <2>3. QueueTypes'
    BY <1>4 DEF RecvUpdate, QueueTypes
  <2>4. SenderTypes'
    BY <1>4 DEF RecvUpdate, SenderTypes
  <2> QED
    BY <1>4, <2>1, <2>2, <2>3, <2>4, TypesUnchanged DEF RecvUpdate
<1>5. CASE SetSeq
  <2>1. ReaderTypes'
    BY <1>5 DEF SetSeq, ReaderTypes, ReaderPoints
  <2>2. SharedTypes'
    BY <1>5 DEF SetSeq, SharedTypes, ReaderTypes, sharedVars
  <2>3. QueueTypes'
    BY <1>5 DEF SetSeq, QueueTypes
  <2>4. SenderTypes'
    BY <1>5 DEF SetSeq, SenderTypes
  <2> QED
    BY <1>5, <2>1, <2>2, <2>3, <2>4, TypesUnchanged DEF SetSeq
<1>6. CASE SendSignOn
  <2>1. ReaderTypes'
    BY <1>6 DEF SendSignOn, ReaderTypes, ReaderPoints
  <2>2. WireTypes'
    BY <1>6, RequestTypes DEF SendSignOn, WireTypes, ReaderTypes, Write
  <2>3. QueueTypes'
    BY <1>6 DEF SendSignOn, QueueTypes
  <2>4. SenderTypes'
    BY <1>6 DEF SendSignOn, SenderTypes
  <2> QED
    BY <1>6, <2>1, <2>2, <2>3, <2>4, TypesUnchanged DEF SendSignOn
<1>7. CASE LoadSpend
  <2>1. ReaderTypes'
    BY <1>7 DEF LoadSpend, ReaderTypes, ReaderPoints, SharedTypes
  <2>2. QueueTypes'
    BY <1>7 DEF LoadSpend, QueueTypes
  <2>3. SenderTypes'
    BY <1>7 DEF LoadSpend, SenderTypes
  <2> QED
    BY <1>7, <2>1, <2>2, <2>3, TypesUnchanged DEF LoadSpend
<1>8. CASE StoreSpend
  <2>1. ReaderTypes'
    BY <1>8 DEF StoreSpend, ReaderTypes, ReaderPoints
  <2>2. SharedTypes'
    BY <1>8 DEF StoreSpend, SharedTypes, ReaderTypes, sharedVars
  <2>3. QueueTypes'
    BY <1>8 DEF StoreSpend, QueueTypes
  <2>4. SenderTypes'
    BY <1>8 DEF StoreSpend, SenderTypes
  <2> QED
    BY <1>8, <2>1, <2>2, <2>3, <2>4, TypesUnchanged DEF StoreSpend
<1>9. CASE RecvConfirm
  <2> DEFINE m == Head(toGw)
  <2>1. /\ Receives(m) /\ m.code = 20073 /\ EndOfPacket
        /\ UNCHANGED <<rreg, sharedVars>> /\ UNCHANGED <<hand, sreg, stamp>>
        /\ UNCHANGED <<pending, omCount, Bidqueue>> /\ UNCHANGED book
    BY <1>9 DEF RecvConfirm
  <2>2. m.order \in Nat /\ CancelOf(m.order) \in Request
    BY <2>1, ReceivedPacket, RequestTypes DEF CancelOf
  <2>3. PICK h \in NewOrders \cup {Orphan} :
          /\ GetPF(m, h)
          /\ Mktqueue' = IF h = Orphan THEN Append(Mktqueue, CancelOf(m.order)) ELSE Mktqueue
    BY <1>9 DEF RecvConfirm
  <2>4. QueueTypes'
    BY <2>1, <2>2, <2>3 DEF QueueTypes
  <2>5. TableTypes' /\ SenderTypes'
    BY <2>1, <2>2, <2>3, GetPFTypes
  <2>6. ReaderTypes'
    BY <2>1, EndOfPacketTypes
  <2>7. WireTypes'
    BY <2>1 DEF WireTypes, Receives
  <2> QED
    BY <2>1, <2>4, <2>5, <2>6, <2>7, TypesUnchanged
<1>10. CASE RecvReject
  <2> DEFINE m == Head(toGw)
  <2>1. /\ Receives(m) /\ m.code \in {2042, 2072, 2231} /\ EndOfPacket
        /\ UNCHANGED <<rreg, Mktqueue>> /\ UNCHANGED sharedVars /\ UNCHANGED <<hand, sreg, stamp>>
        /\ UNCHANGED <<pending, omCount, Bidqueue>> /\ UNCHANGED book
    BY <1>10 DEF RecvReject
  <2>2. m.order \in Nat
    BY <2>1, ReceivedPacket
  <2>3. TableTypes' /\ SenderTypes'
    <3>1. CASE UNCHANGED <<spc, tableVars>>
      BY <2>1, <3>1, TypesUnchanged DEF senderVars
    <3>2. CASE \E h \in NewOrders \cup {Orphan} : GetPF(m, h)
      BY <2>1, <2>2, <3>2, GetPFTypes
    <3> QED
      BY <1>10, <3>1, <3>2 DEF RecvReject
  <2>4. QueueTypes'
    BY <2>1 DEF QueueTypes
  <2>5. ReaderTypes'
    BY <2>1, EndOfPacketTypes
  <2>6. WireTypes'
    BY <2>1 DEF WireTypes, Receives
  <2> QED
    BY <2>1, <2>3, <2>4, <2>5, <2>6, TypesUnchanged
<1>11. CASE RecvTrade
  <2> DEFINE m == Head(toGw)
  <2>1. TableTypes'
    <3>1. OutPF' \in {OutPF, Restrict(OutPF, DOMAIN OutPF \ {m.order})}
      BY <1>11 DEF RecvTrade
    <3> QED
      BY <1>11, <3>1 DEF RecvTrade, TableTypes, Restrict
  <2>2. ReaderTypes'
    BY <1>11, EndOfPacketTypes DEF RecvTrade
  <2>3. WireTypes'
    BY <1>11 DEF RecvTrade, WireTypes, Receives
  <2>4. QueueTypes' /\ SenderTypes'
    BY <1>11 DEF RecvTrade, QueueTypes, SenderTypes
  <2> QED
    BY <1>11, <2>1, <2>2, <2>3, <2>4, TypesUnchanged DEF RecvTrade
<1> QED
  BY <1>1, <1>2, <1>3, <1>4, <1>5, <1>6, <1>7, <1>8, <1>9, <1>10, <1>11 DEF Reader

\* What the exchange takes from the wire is a request, and the rest are requests.
LEMMA AskedRequest ==
    ASSUME WireTypes, NEW op, Asked(op)
    PROVE  /\ toExch # <<>> /\ Head(toExch) \in Request /\ Head(toExch).op = op
           /\ op = "new" => Head(toExch).id \in NewOrders
           /\ op \in {"modify", "cancel"} => Head(toExch).order \in Nat
<1>1. toExch # <<>> /\ Head(toExch) \in Request /\ Head(toExch).op = op
  BY DEF WireTypes, Asked
<1> QED
  BY <1>1 DEF Request

\* An answer puts an invitation and a packet behind those on the wire.
LEMMA AnswerTypes ==
    ASSUME WireTypes, toExch # <<>>, NEW reply \in Packet, Answer(reply)
    PROVE  WireTypes'
<1>1. <<Invitation, reply>> \in Seq(Packet)
  BY PacketTypes
<1> QED
  BY <1>1 DEF WireTypes, Answer, ExchangeUnchanged

\* Changing what is left of one order keeps the book well typed.
LEMMA BookUpdate ==
    ASSUME BookTypes, NEW n \in OrderNumbers, NEW r \in 0..Lots
    PROVE  /\ book[n].id \in NewOrders /\ book[n].rem \in 0..Lots
           /\ [book EXCEPT ![n].rem = r] \in Seq([id : NewOrders, rem : 0..Lots])
           /\ Len([book EXCEPT ![n].rem = r]) = Len(book)
<1>1. /\ n \in 1..Len(book) /\ book[n] \in [id : NewOrders, rem : 0..Lots]
  BY SequenceTypes DEF BookTypes, OrderNumbers
<1>2. [book[n] EXCEPT !.rem = r] \in [id : NewOrders, rem : 0..Lots]
  BY <1>1
<1>3. [book EXCEPT ![n].rem = r] = [book EXCEPT ![n] = [book[n] EXCEPT !.rem = r]]
  BY <1>1 DEF BookTypes
<1> QED
  BY <1>1, <1>2, <1>3 DEF BookTypes

\* Whatever the exchange answers, the types hold.
LEMMA TypeExchange ==
    ASSUME TypeOK, ExchangeAnswers
    PROVE  TypeOK'
<1>1. ASSUME ExchangeUnchanged, WireTypes', BookTypes'
      PROVE  TypeOK'
  BY <1>1, TypesUnchanged DEF TypeOK, ExchangeUnchanged
<1>2. CASE AnswerSignOn
  <2>1. WireTypes'
    BY <1>2, AnswerTypes, PacketTypes DEF AnswerSignOn, TypeOK, Asked
  <2> QED
    BY <1>1, <1>2, <2>1, TypesUnchanged DEF AnswerSignOn, Answer, TypeOK
<1>3. CASE AcceptNew
  <2>1. Head(toExch).id \in NewOrders /\ toExch # <<>>
    BY <1>3, AskedRequest DEF AcceptNew, TypeOK
  <2>2. Confirm(Len(book) + 1, KeyOf[Head(toExch).id]) \in Packet
    <3>1. Len(book) + 1 \in Nat /\ KeyOf[Head(toExch).id] \in Keys
      BY <2>1 DEF TypeOK, BookTypes
    <3> QED
      BY <3>1, PacketTypes
  <2>3. WireTypes'
    BY <1>3, <2>1, <2>2, AnswerTypes DEF AcceptNew, TypeOK
  <2>4. BookTypes'
    BY <1>3, <2>1 DEF AcceptNew, TypeOK, BookTypes
  <2> QED
    BY <1>1, <1>3, <2>3, <2>4 DEF AcceptNew, Answer
<1>4. CASE RejectNew
  <2>1. Head(toExch).id \in NewOrders /\ toExch # <<>>
    BY <1>4, AskedRequest DEF RejectNew, TypeOK
  <2>2. Reject(2231, 0, KeyOf[Head(toExch).id]) \in Packet
    BY <2>1, PacketTypes
  <2>3. WireTypes'
    BY <1>4, <2>1, <2>2, AnswerTypes DEF RejectNew, TypeOK
  <2> QED
    BY <1>1, <1>4, <2>3, TypesUnchanged DEF RejectNew, Answer, TypeOK
<1>5. CASE AcceptModify
  <2>1. Head(toExch).order \in Nat /\ toExch # <<>>
    BY <1>5, AskedRequest DEF AcceptModify, TypeOK
  <2>2. Update(20074, Head(toExch).order) \in Packet
    BY <2>1, PacketTypes
  <2>3. WireTypes'
    BY <1>5, <2>1, <2>2, AnswerTypes DEF AcceptModify, TypeOK
  <2> QED
    BY <1>1, <1>5, <2>3, TypesUnchanged DEF AcceptModify, Answer, TypeOK
<1>6. CASE RejectModify
  <2>1. Head(toExch).order \in Nat /\ toExch # <<>>
    BY <1>6, AskedRequest DEF RejectModify, TypeOK
  <2>2. \A k \in Keys : Reject(2042, Head(toExch).order, k) \in Packet
    BY <2>1, PacketTypes
  <2>3. WireTypes'
    BY <1>6, <2>1, <2>2, AnswerTypes DEF RejectModify, TypeOK
  <2> QED
    BY <1>1, <1>6, <2>3, TypesUnchanged DEF RejectModify, Answer, TypeOK
<1>7. CASE AcceptCancel
  <2>1. Head(toExch).order \in OrderNumbers /\ toExch # <<>>
    BY <1>7, AskedRequest DEF AcceptCancel, IsLive, TypeOK
  <2>2. Update(20075, Head(toExch).order) \in Packet
    BY <2>1, PacketTypes DEF OrderNumbers, TypeOK, BookTypes
  <2>3. WireTypes'
    BY <1>7, <2>1, <2>2, AnswerTypes DEF AcceptCancel, TypeOK
  <2>4. BookTypes'
    <3>1. 0 \in 0..Lots
      OBVIOUS
    <3> QED
      BY <1>7, <2>1, <3>1, BookUpdate DEF AcceptCancel, TypeOK, BookTypes
  <2> QED
    BY <1>1, <1>7, <2>3, <2>4 DEF AcceptCancel, Answer
<1>8. CASE RejectCancel
  <2>1. Head(toExch).order \in Nat /\ toExch # <<>>
    BY <1>8, AskedRequest DEF RejectCancel, TypeOK
  <2>2. \A k \in Keys : Reject(2072, Head(toExch).order, k) \in Packet
    BY <2>1, PacketTypes
  <2>3. WireTypes'
    BY <1>8, <2>1, <2>2, AnswerTypes DEF RejectCancel, TypeOK
  <2> QED
    BY <1>1, <1>8, <2>3, TypesUnchanged DEF RejectCancel, Answer, TypeOK
<1> QED
  BY <1>2, <1>3, <1>4, <1>5, <1>6, <1>7, <1>8 DEF ExchangeAnswers

\* A fill leaves at least nothing of the order.
LEMMA TypeFill ==
    ASSUME TypeOK, NEW n \in OrderNumbers, Fill(n)
    PROVE  TypeOK'
<1>1. book[n].rem \in 1..Lots /\ book[n].rem - 1 \in 0..Lots /\ book[n].rem - 1 \in Nat
  <2>1. 0 \in 0..Lots
    OBVIOUS
  <2>2. book[n].rem \in 0..Lots /\ book[n].rem > 0
    BY <2>1, BookUpdate DEF TypeOK, Fill, IsLive
  <2> QED
    BY <2>2
<1>2. BookTypes'
  BY <1>1, BookUpdate DEF Fill, BookTypes, TypeOK
<1>3. WireTypes'
  <2>1. Trade(n, book[n].rem - 1) \in Packet
    BY <1>1, PacketTypes DEF TypeOK, BookTypes, OrderNumbers
  <2> QED
    BY <2>1 DEF WireTypes, TypeOK, Fill, ExchangeUnchanged
<1> QED
  BY <1>2, <1>3, TypesUnchanged DEF TypeOK, Fill, ExchangeUnchanged

\* Every variable of the gateway keeps to its type, for every set of orders and
\* keys and every number of fills, whatever the interleaving of the two threads,
\* of the strategies and of the exchange.
THEOREM TypeCorrect == Spec => []TypeOK
<1>1. Init => TypeOK
  BY TypeInit
<1>2. TypeOK /\ [Next]_vars => TypeOK'
  <2> SUFFICES ASSUME TypeOK, [Next]_vars PROVE TypeOK'
    OBVIOUS
  <2>1. CASE Sender
    BY <2>1, TypeSender
  <2>2. CASE Reader
    BY <2>2, TypeReader
  <2>3. CASE ExchangeAnswers
    BY <2>3, TypeExchange
  <2>4. CASE \E o \in NewOrders : Submit(o)
    BY <2>4, TypeSubmit
  <2>5. CASE \E op \in {"modify", "cancel"}, n \in OrderNumbers : SubmitOm(op, n)
    BY <2>5, TypeSubmitOm
  <2>6. CASE \E n \in OrderNumbers : Fill(n)
    BY <2>6, TypeFill
  <2>7. CASE UNCHANGED vars
    BY <2>7, TypesUnchanged DEF vars, TypeOK
  <2> QED
    BY <2>1, <2>2, <2>3, <2>4, <2>5, <2>6, <2>7 DEF Next
<1> QED
  BY <1>1, <1>2, PTL DEF Spec
=============================================================================
