------------------------- MODULE MCIntentPipeline -------------------------
(***************************************************************************)
(* Two intents.  The plans are those whose pipelines differ.  To the       *)
(* router: BRIDGEKIT without its fee behaves as CCTP_V2 does, which is     *)
(* left out.  One route to each other kind of destination.  One request    *)
(* to mint a receipt token again at a time, where there are any.           *)
(***************************************************************************)
EXTENDS IntentPipeline, TLC

CONSTANTS i1, i2, q1

MCIntents == {i1, i2}

Plan(route, dest) == [route |-> route, dest |-> dest, amount |-> 2]

RouterPlans  == {Plan("LOCAL", "router"), Plan("BRIDGEKIT", "router")}
MCPlans      == RouterPlans \union {Plan("CCTP_V2", "unset"), Plan("CCTP_V2", "nonevm"),
                  Plan("GATEWAY", "wallet"), Plan("LOCAL", "x402"), Plan("MOCK", "router")}
SettlePlans  == RouterPlans \union {Plan("LOCAL", "unset"), Plan("GATEWAY", "wallet")}
MCFees       == {1}
MCRequests   == {q1}

Symmetry == Permutations(MCIntents)
=============================================================================
