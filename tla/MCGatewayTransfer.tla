-------------------------- MODULE MCGatewayTransfer --------------------------
(* Two flows of one user.  A Gateway route from Arc, one from elsewhere    *)
(* whose estimate is above the quote, and another route.                   *)
EXTENDS GatewayTransfer

CONSTANTS t1, t2, d1

MCDepositorOf == [t \in Transfers |-> d1]

Quote(route, estimated, arc) ==
  [route |-> route, value |-> 1, quoted |-> 1, estimated |-> estimated, arc |-> arc]

MCQuotes == {Quote("GATEWAY", 0, TRUE), Quote("GATEWAY", 2, FALSE), Quote("other", 0, FALSE)}

MCFunds == {[wallet |-> 4, gateway |-> 0]}
=============================================================================
