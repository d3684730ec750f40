----------------------------- MODULE OrderChannel -----------------------------
(***************************************************************************)
(* What the queues and the sender promise the strategies together: two     *)
(* lanes, the market queue and the bid queue, and one request at a time    *)
(* held between them and the socket.  Each request put into a lane is      *)
(* written once, in the order of its lane; each new order is put into its  *)
(* lane once; a modify or cancel names an order the exchange has taken;    *)
(* and the two sign-on requests are written once, one after the other.     *)
(* OrderGateway implements it.                                             *)
(***************************************************************************)
EXTENDS Naturals, Sequences

CONSTANTS NewOrders, MarketOrders, Orphan

VARIABLES
    pending,    \* new orders not submitted yet
    lanes,      \* requests no thread has taken yet, by lane
    held,       \* the request taken from a lane and not written yet, if any
    wire,       \* requests written that the exchange has not read yet
    taken,      \* the exchange has taken the orders 1..taken
    signOns     \* sign-on requests written so far

vars == <<pending, lanes, held, wire, taken, signOns>>

Lanes == {"mkt", "bid"}
LaneOf(o) == IF o \in MarketOrders THEN "mkt" ELSE "bid"

New(o) == [op |-> "new", id |-> o, order |-> 0]
About(op, n) == [op |-> op, id |-> Orphan, order |-> n]
SignOns == <<About("login", 0), About("sysinfo", 0)>>

Init ==
    /\ pending = NewOrders
    /\ lanes = [l \in Lanes |-> <<>>]
    /\ held = <<>> /\ wire = <<>>
    /\ taken = 0 /\ signOns = 0

\* FillData::BidQueue or FillData::MktQueue with a new order.
Enqueue(o) ==
    /\ o \in pending
    /\ pending' = pending \ {o}
    /\ lanes' = [lanes EXCEPT ![LaneOf(o)] = Append(@, New(o))]
    /\ UNCHANGED <<held, wire, taken, signOns>>

\* A strategy modifies or cancels an order, or the reader cancels one nobody owns.
EnqueueAbout(l, op, n) ==
    /\ lanes' = [lanes EXCEPT ![l] = Append(@, About(op, n))]
    /\ UNCHANGED <<pending, held, wire, taken, signOns>>

\* try_pop of a queue into _out.
Take(l) ==
    /\ held = <<>> /\ lanes[l] # <<>>
    /\ held' = <<Head(lanes[l])>>
    /\ lanes' = [lanes EXCEPT ![l] = Tail(@)]
    /\ UNCHANGED <<pending, wire, taken, signOns>>

\* _out goes to sock.send.
Transmit ==
    /\ held # <<>>
    /\ wire' = Append(wire, held[1])
    /\ held' = <<>>
    /\ UNCHANGED <<pending, lanes, taken, signOns>>

TransmitSignOn ==
    /\ signOns < Len(SignOns)
    /\ signOns' = signOns + 1
    /\ wire' = Append(wire, SignOns[signOns + 1])
    /\ UNCHANGED <<pending, lanes, held, taken>>

\* The exchange reads a request, and takes a new order or refuses it.
Deliver ==
    /\ wire # <<>>
    /\ wire' = Tail(wire)
    /\ \/ UNCHANGED taken
       \/ Head(wire).op = "new" /\ taken' = taken + 1
    /\ UNCHANGED <<pending, lanes, held, signOns>>

Next ==
    \/ \E o \in NewOrders : Enqueue(o)
    \/ \E l \in Lanes, op \in {"modify", "cancel"}, n \in 1..taken : EnqueueAbout(l, op, n)
    \/ \E l \in Lanes : Take(l)
    \/ Transmit
    \/ TransmitSignOn
    \/ Deliver

Spec == Init /\ [][Next]_vars
=============================================================================
