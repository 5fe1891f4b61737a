--------------------------- MODULE MCRoutePlanning ---------------------------
(* Two EVM chains and one of each other machine, a protocol of every kind  *)
(* of payload, amounts and fees on both sides of the limits.               *)
EXTENDS RoutePlanning, TLC

Evm == [vm |-> "evm", gateway |-> TRUE, cctp |-> TRUE, dec |-> 2, tokens |-> {"USDC", "EURC"}]
MCChain ==
  [ARC     |-> Evm,
   BASE    |-> Evm,
   SOLANA  |-> [Evm EXCEPT !.vm = "svm", !.gateway = FALSE],
   STELLAR |-> [vm |-> "soroban", gateway |-> FALSE, cctp |-> TRUE, dec |-> 3, tokens |-> {"USDC"}]]

Plain(chain, kind) ==
  [chain |-> chain, kind |-> kind, feeBps |-> 0, priced |-> FALSE, slipBps |-> 0, warned |-> FALSE]
Dex(chain, kind) == [Plain(chain, kind) EXCEPT !.feeBps = 30, !.priced = TRUE, !.slipBps = 50]
MCProtocol ==
  [TRANSFER |-> Plain("BASE", "bridge"), XLM_TRANSFER |-> Plain("STELLAR", "bridge"),
   UNISWAP  |-> Dex("BASE", "uniswap"),  AQUARIUS |-> Dex("STELLAR", "aquarius"),
   MORPHO   |-> Plain("BASE", "morpho"), AAVE     |-> Plain("BASE", "aave"),
   USYC     |-> [Plain("ARC", "usyc") EXCEPT !.warned = TRUE],
   GATEWAY  |-> Plain("ARC", "gateway"), X402     |-> Plain("ARC", "x402"),
   MARINADE |-> Plain("SOLANA", "marinade"), BLEND |-> Plain("STELLAR", "blend")]

MCMerit == "GATEWAY" :> 5522 @@ "CCTP_V2" :> 5390 @@ "BRIDGEKIT" :> 5208 @@ "LOCAL" :> 5766
MCSettings ==
  {[chains |-> MCChain, protocols |-> MCProtocol, merit |-> MCMerit,
    operator |-> TRUE, routers |-> {"ARC", "BASE"}, fastBps |-> 5, serviceBps |-> 10],
   [chains |-> MCChain, protocols |-> MCProtocol, merit |-> MCMerit,
    operator |-> FALSE, routers |-> {}, fastBps |-> 5, serviceBps |-> 0]}

Ask(from, protocol) ==
  [op |-> "intent", source |-> from,
   destination |-> IF protocol \in DOMAIN MCProtocol THEN MCProtocol[protocol].chain ELSE "BASE",
   protocol |-> protocol, swap |-> protocol \in {"UNISWAP", "AQUARIUS"}, amount |-> 1000, asset |-> "USDC",
   autonomous |-> TRUE, approved |-> FALSE, quoteOnly |-> FALSE, preferred |-> "none",
   gatewayPayload |-> FALSE, maxFee |-> 1000000, slippage |-> -1, wallet |-> TRUE, tier |-> 0,
   out |-> 2, fast |-> FALSE, malformed |-> FALSE, hops |-> FALSE]
MCRequests ==
  {[Ask("ARC", "TRANSFER") EXCEPT !.maxFee = 20, !.approved = TRUE, !.fast = TRUE, !.preferred = "BRIDGEKIT"],
   [Ask("ARC", "TRANSFER") EXCEPT !.maxFee = 50],
   [Ask("ARC", "TRANSFER") EXCEPT !.preferred = "CCTP_V2", !.fast = TRUE, !.amount = 3000],
   [Ask("ARC", "TRANSFER") EXCEPT !.preferred = "CCTP_V2", !.gatewayPayload = TRUE, !.approved = TRUE],
   [Ask("SOLANA", "TRANSFER") EXCEPT !.preferred = "MOCK", !.approved = TRUE],
   [Ask("ARC", "TRANSFER") EXCEPT !.asset = "EURC", !.quoteOnly = TRUE],
   [Ask("ARC", "UNISWAP") EXCEPT !.preferred = "GATEWAY"],
   [Ask("BASE", "UNISWAP") EXCEPT !.preferred = "LOCAL", !.autonomous = FALSE, !.approved = TRUE, !.tier = 500],
   [Ask("ARC", "UNISWAP") EXCEPT !.preferred = "CCTP_V2", !.hops = TRUE],
   [Ask("ARC", "UNISWAP") EXCEPT !.out = 0, !.slippage = 80, !.preferred = "BRIDGEKIT", !.approved = TRUE],
   [Ask("BASE", "MORPHO") EXCEPT !.malformed = TRUE],
   [Ask("ARC", "AAVE") EXCEPT !.preferred = "BRIDGEKIT"],
   Ask("ARC", "USYC"), [Ask("BASE", "USYC") EXCEPT !.preferred = "GATEWAY"],
   [Ask("BASE", "USYC") EXCEPT !.preferred = "CCTP_V2"],
   Ask("ARC", "X402"), [Ask("ARC", "GATEWAY") EXCEPT !.approved = TRUE],
   [Ask("SOLANA", "XLM_TRANSFER") EXCEPT !.amount = 1],
   [Ask("ARC", "MARINADE") EXCEPT !.wallet = FALSE], Ask("STELLAR", "MARINADE"),
   [Ask("BASE", "AQUARIUS") EXCEPT !.out = 3], [Ask("BASE", "AQUARIUS") EXCEPT !.amount = 200000, !.approved = TRUE],
   [Ask("SOLANA", "BLEND") EXCEPT !.op = "quote"],
   Ask("ARC", "ELSEWHERE"), [Ask("ARC", "ELSEWHERE") EXCEPT !.op = "quote"]}
=============================================================================
