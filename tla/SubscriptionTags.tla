--------------------------- MODULE SubscriptionTags ---------------------------
(***************************************************************************)
(* The numbers that address events.  A tag is the message type, the client *)
(* and the portfolio written one after the other in decimal (concat); the  *)
(* receiver takes it apart again by the positions of the digits.           *)
(***************************************************************************)
EXTENDS Integers

eORDER == 65

\* The portfolio number that stands for the manual orders of a client.
Manual == 999

\* What the positions of the digits hold for (the comment in Eventsubscriber).
Client == 100..999
Portfolio == 1..99

\* Numbers appended here have at most five digits.
Powers == {1, 10, 100, 1000, 10000, 100000}

\* 1 with a zero for every digit of y; none for y = 0.
Shift(y) == CHOOSE p \in Powers : y < p /\ (p = 1 \/ p \div 10 <= y)

Concat(x, y) == x * Shift(y) + y

Tag(CID, PF) == Concat(Concat(eORDER, CID), PF)

\* Eventsubscriber: one digit of portfolio below 999999, two from there on.
DigitsDecode(suId, msg, pf) ==
    LET MsgType == suId \div msg IN
    [MsgType |-> MsgType,
     CID     |-> (suId - MsgType * msg) \div pf,
     PFNum   |-> suId - (suId \div pf) * pf]

\* Mutant of Decode: one digit of portfolio whatever the length of the tag.
DecodeOneDigit(suId) == DigitsDecode(suId, 10000, 10)

Decode(suId) ==
    IF suId < 999999 THEN DigitsDecode(suId, 10000, 10) ELSE DigitsDecode(suId, 100000, 100)

\* Eventsubscriber subscribes to portfolios 1..99 of its client and to its manual orders.
SubscribedTags(CID) == {Tag(CID, PF) : PF \in Portfolio \cup {Manual}}
=============================================================================
