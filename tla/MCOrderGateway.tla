---------------------------- MODULE MCOrderGateway ----------------------------
(* Instances of OrderGateway for TLC. *)
EXTENDS OrderGateway

CONSTANTS o1, o2, k1, k2

\* Both orders ask for the same token, price, volume and side.
SameKey == [o \in NewOrders |-> k1]

\* Each order asks for something of its own.
OwnKeys == [o \in NewOrders |-> IF o = o1 THEN k1 ELSE k2]
=============================================================================
