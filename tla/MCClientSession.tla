--------------------------- MODULE MCClientSession ---------------------------
(* One client, two portfolios with a leg in common, one of them with its legs changed. *)
EXTENDS ClientSession

SharedLeg ==
    {[PORTFOLIONAME |-> 1,  TokenFar |-> 11, TokenNear |-> 12, TokenThree |-> 0],
     [PORTFOLIONAME |-> 12, TokenFar |-> 13, TokenNear |-> 11, TokenThree |-> 0],
     [PORTFOLIONAME |-> 12, TokenFar |-> 11, TokenNear |-> 13, TokenThree |-> 0]}

TwoContracts == <<11, 13>>
=============================================================================
