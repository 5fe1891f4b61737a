--------------------------- MODULE RoutePlanning ---------------------------
(***************************************************************************)
(* From a request to the decision whether its pipeline starts: the policy  *)
(* (policies.ts), one quote per candidate route with its simulation        *)
(* (FeeQuoteAgent.ts, routeSimulationService.ts and the fee estimators),   *)
(* the plan (RoutePlannerAgent.ts), the payload (ProtocolActionAgent.ts)   *)
(* and the gate of createAndRun (intentOrchestrator.ts).                   *)
(*                                                                         *)
(* The quotes of one request run concurrently, a step of theirs being what *)
(* they do between two answers of the network; the Uniswap pools and the   *)
(* prices move under them.  Amounts are integers at a token's decimals,    *)
(* every decimals lowered by four; scores are in hundredths.               *)
(***************************************************************************)
EXTENDS Integers, FiniteSets

CONSTANTS
  Requests,      (* the requests the API may get                            *)
  Settings,      (* how the process may have been started: its chains with  *)
                 (* [vm, gateway, cctp, dec, tokens], its protocols with    *)
                 (* [chain, kind, feeBps, priced, slipBps, warned], what    *)
                 (* each route scores by its merit, the operator's key, the *)
                 (* routers deployed, fastBps and serviceBps                *)
  Weight,        (* of the cost in a score                                  *)
  LiveBps,       (* the fees Circle may answer with, in bps                 *)
  GatewayFee,    (* the maximal fee of a Gateway transfer                   *)
  RouterBps,     (* the fee of the destination's router                     *)
  MarketPrices,  (* what a transaction may cost                             *)
  FallbackGas,   (* what it costs when no gas price can be had              *)
  Tiers,         (* UNISWAP_V3_FEE_TIERS                                    *)
  Rates,         (* what may be paid for a hundred units put in             *)
  RpcMaxAttempts,(* RPC_MAX_ATTEMPTS                                        *)
  MaxMoves       (* bound on the moves of pools and prices                  *)

Routes == {"GATEWAY", "CCTP_V2", "BRIDGEKIT", "LOCAL"}
Six    == 2                              (* USDC's six decimals, lowered    *)
Usdc   == 10^Six
Whole  == 10000                          (* of anything, in basis points   *)
NoPool == -1

(* A router takes at most 1% (MAX_FEE_BPS), Uniswap has four fee amounts,  *)
(* USDC has six decimals on every EVM chain and a few more at most         *)
(* elsewhere, and a slippage is at most the whole (createIntentSchema).    *)
(* An amount that is no plain number of digits is refused wherever it is   *)
(* parsed.                                                                 *)
FeeAmounts == {100, 500, 3000, 10000}
ASSUME ConstantsAssumption ==
  /\ RpcMaxAttempts \in Nat \ {0} /\ MaxMoves \in Nat
  /\ LiveBps \union MarketPrices \union Rates \union {Weight, GatewayFee, FallbackGas} \subseteq Nat
  /\ RouterBps \in 0..100 /\ Tiers \subseteq FeeAmounts
ASSUME SettingsAssumption ==
  \A s \in Settings :
    /\ s.operator \in BOOLEAN /\ s.routers \subseteq DOMAIN s.chains
    /\ s.fastBps \in Nat /\ s.serviceBps \in Nat /\ \A r \in Routes : s.merit[r] \in Nat
    /\ \A c \in DOMAIN s.chains :
         s.chains[c].dec \in Six..Six + 6 /\ (s.chains[c].vm = "evm" => s.chains[c].dec = Six)
    /\ \A p \in DOMAIN s.protocols : s.protocols[p].feeBps \in Nat /\ s.protocols[p].slipBps \in 0..Whole
ASSUME RequestsAssumption ==
  \A i \in Requests :
    i.op \in {"intent", "quote"} /\ i.amount \in Nat /\ i.maxFee \in Int /\ i.slippage \in -1..Whole /\ i.out \in Nat

VARIABLES
  env,           (* the process's settings                                  *)
  input,         (* the request                                             *)
  quotes,        (* each candidate route: its quote, as far as it has got   *)
  plan,          (* the route planned, and whether it wants approval        *)
  status,        (* of the intent's receipt                                 *)
  pools,         (* the rate of each Uniswap tier now, or NoPool            *)
  price,         (* the cached price, 0 when it is too old                  *)
  moves
planningVars == <<env, input, quotes, plan, status, pools, price, moves>>

Chain         == env.chains
Protocols     == env.protocols
Source(i)     == Chain[i.source]
Dest(i)       == Chain[i.destination]
Kind(i)       == Protocols[i.protocol].kind
BridgeOnly(i) == Kind(i) = "bridge"
OnRouter(i)   == Dest(i).vm = "evm" /\ ~BridgeOnly(i)
Swaps(i)      == Kind(i) = "uniswap" /\ i.swap
Supported(i)  ==
  i.source \in DOMAIN Chain /\ i.destination \in DOMAIN Chain /\ i.protocol \in DOMAIN Protocols
UsesPools(i)  == Supported(i) /\ Kind(i) \in {"uniswap", "aave"}

Clamp(n, lo, hi) == IF n < lo THEN lo ELSE IF n > hi THEN hi ELSE n
Less(n, bps)     == n - (n * bps) \div Whole

---------------------------------------------------------------------------
(* What does not wait: policy, candidates, eligibility, payload, score.     *)

Allowed(i) ==
  /\ Supported(i)
  /\ Protocols[i.protocol].chain = i.destination /\ i.asset \in Dest(i).tokens
  /\ i.amount > 0 /\ i.amount <= 1000 * Usdc
  /\ i.slippage <= 75 /\ i.maxFee >= 0
PolicyWantsApproval(i) == i.amount > 25 * Usdc \/ ~i.autonomous

(* The routes of a request, and the order the code lists them in.           *)
Candidates(i) ==
  IF i.source = i.destination
    THEN {"LOCAL"} \union (IF Kind(i) = "gateway" THEN {"GATEWAY"} ELSE {})
    ELSE {"CCTP_V2"} \union (IF Source(i).gateway /\ Dest(i).gateway THEN {"GATEWAY"} ELSE {})
                     \union (IF Source(i).vm = "evm" /\ Dest(i).vm = "evm" THEN {"BRIDGEKIT"} ELSE {})
Place == [r \in Routes |-> CASE r = "GATEWAY" -> 1 [] r = "CCTP_V2" -> 2
                              [] r = "BRIDGEKIT" -> 3 [] r = "LOCAL" -> 4]

Eligible(i, r) ==
  /\ Protocols[i.protocol].chain = i.destination
  /\ r = "GATEWAY" => Source(i).gateway /\ Dest(i).gateway
  /\ r \in {"CCTP_V2", "BRIDGEKIT"} => i.asset = "USDC" /\ Source(i).cctp /\ Dest(i).cctp

(* A preferred route, when it is a candidate, is the only one quoted.       *)
Quoted(i) == IF i.preferred \in Candidates(i) THEN {i.preferred} ELSE Candidates(i)

(* ProtocolActionAgent.build: how the payload executes, and the tier it     *)
(* names; a swap over several pools names a path instead.  The amounts it   *)
(* asks for are left out: the destination may refuse them (Throw).          *)
Payload(i, tier) ==
  [mode   |-> CASE BridgeOnly(i) -> "bridge-only"
                [] Dest(i).vm = "svm" -> "solana-tx"
                [] Dest(i).vm = "soroban" -> "stellar-tx"
                [] Kind(i) = "x402" -> "x402"
                [] OTHER -> "evm-contract",
   tier   |-> IF i.hops /\ Kind(i) = "uniswap" THEN 0
              ELSE IF tier # 0 THEN tier ELSE IF Kind(i) = "aave" THEN 3000 ELSE 500]
Builds(i) == ~i.malformed

SlippageBps(i) ==
  IF ~Protocols[i.protocol].priced THEN 0
  ELSE IF i.slippage >= 0 THEN i.slippage ELSE Protocols[i.protocol].slipBps
ProtocolFee(i) == (i.amount * Protocols[i.protocol].feeBps) \div Whole
Total(i, q)    == q.cost + q.fee + ProtocolFee(i) + (i.amount * SlippageBps(i)) \div Whole
OverGuard(i, q) == Total(i, q) > i.maxFee

LowConfidence(i, q) ==
  LET warnings == <<i.fast /\ ~q.liveFee, Protocols[i.protocol].warned, SlippageBps(i) > 100,
                    OverGuard(i, q), Total(i, q) * 20 > i.amount, i.asset # "USDC">>
  IN Cardinality({k \in DOMAIN warnings : warnings[k]}) >= 4

Score(i, r) ==
  LET q    == quotes[r]
      cost == Clamp(100 - (Total(i, q) * 1000) \div (IF i.amount < Usdc THEN Usdc ELSE i.amount), 0, 100)
  IN Clamp(Weight * cost + env.merit[r]
             + (IF r = "GATEWAY" /\ i.amount <= 100 * Usdc THEN 400 ELSE 0)
             + (IF i.preferred = r THEN 800 ELSE 0)
             - (IF LowConfidence(i, q) THEN 800 ELSE 0), 0, 10000)

---------------------------------------------------------------------------
(* A quote, leg by leg.                                                     *)

Dropped  == [leg |-> "ineligible"]
NewQuote ==
  [leg |-> "circle", tries |-> 0, fee |-> 0, liveFee |-> TRUE, in |-> 0, at |-> 0, tier |-> 0,
   out |-> [raw |-> 0, dec |-> Six], low |-> [raw |-> 0, dec |-> Six], cost |-> 0,
   simulated |-> FALSE]
RpcLegs == {"source", "router", "pools", "output", "execution"}

At(r, leg) == r \in DOMAIN quotes /\ quotes[r].leg = leg
Becomes(r, q) == quotes' = [quotes EXCEPT ![r] = q]
Goes(r, leg, q) == Becomes(r, [q EXCEPT !.leg = leg, !.tries = 0])
Quoting == UNCHANGED <<env, input, plan, status, pools, moves>>

(* CircleFeeEstimator.estimate for a CCTP transfer, in bps.                 *)
CctpFees(r) ==
  LET service == IF r = "BRIDGEKIT" /\ ~input.fast THEN env.serviceBps ELSE 0
  IN {[bps |-> b + service, live |-> TRUE] : b \in LiveBps}
       \union {[bps |-> (IF input.fast THEN env.fastBps ELSE 0) + service, live |-> FALSE]}

(* The fee and what is left of the amount.  A fee below the smallest unit   *)
(* is written with an exponent, which parseUnitsDecimal refuses.            *)
CircleLeg(r) ==
  /\ At(r, "circle")
  /\ \E f \in IF r \in {"CCTP_V2", "BRIDGEKIT"} THEN CctpFees(r) ELSE {[bps |-> 0, live |-> TRUE]} :
       LET exact   == input.amount * f.bps
           fee     == IF r = "GATEWAY" THEN GatewayFee ELSE (exact + Whole \div 2) \div Whole
           bridged == IF r = "GATEWAY" THEN input.amount ELSE input.amount - fee
       IN IF exact \in 1..Whole - 1 \/ bridged <= 0 THEN Becomes(r, Dropped)
          ELSE Goes(r, "prices", [quotes[r] EXCEPT !.fee = fee, !.liveFee = f.live,
                                                   !.in = bridged * 10^(Dest(input).dec - Six)])
  /\ Quoting /\ UNCHANGED price

(* getTokenPrices: from the cache, or asked for and cached.                 *)
PriceLeg(r) ==
  /\ At(r, "prices")
  /\ price' \in IF price = 0 THEN MarketPrices ELSE {price}
  /\ Goes(r, "source", [quotes[r] EXCEPT !.at = price'])
  /\ Quoting

(* A transaction's cost, live or from the configuration.                    *)
GasCosts(q, transactions) == {q.cost + transactions * q.at, q.cost + FallbackGas}

AfterSource(q) ==
  IF OnRouter(input) THEN [q EXCEPT !.leg = "router"]
  ELSE IF Dest(input).vm # "evm" THEN [q EXCEPT !.leg = "adapter"]
  ELSE [q EXCEPT !.leg = "eligible", !.out = [raw |-> q.in, dec |-> Dest(input).dec],
                 !.low = [raw |-> q.in, dec |-> Dest(input).dec]]

(* The source transaction: its gas is simulated, or taken from the          *)
(* configuration when the simulation fails.                                 *)
SourceLeg(r) ==
  /\ At(r, "source")
  /\ input.wallet
  /\ \E cost \in GasCosts(quotes[r], IF r = "GATEWAY" THEN 2 ELSE 1) :
       Becomes(r, AfterSource([quotes[r] EXCEPT !.tries = 0, !.cost = cost]))
  /\ Quoting /\ UNCHANGED price

(* The destination router's fee; what follows needs the operator's key.     *)
RouterLeg(r) ==
  /\ At(r, "router")
  /\ input.destination \in env.routers /\ env.operator
  /\ Swaps(input) \/ (Payload(input, 0).mode = "evm-contract" /\ Builds(input))
  /\ Goes(r, IF Swaps(input) THEN "pools" ELSE "output", [quotes[r] EXCEPT !.in = Less(@, RouterBps)])
  /\ Quoting /\ UNCHANGED price

(* What a pool, or a protocol, gives for n: the rest of a unit is lost, and *)
(* it may be nothing.                                                       *)
Paid(n, rate) == (n * rate) \div 100

(* bestUniswapQuote: of the tiers that have a pool and whose quoter answers *)
(* the one that pays most, the tier asked for before the others.            *)
BestTiers(first, n) ==
  {CHOOSE t \in seen : \A u \in seen \ {t} :
     \/ Paid(n, pools[u]) < Paid(n, pools[t])
     \/ Paid(n, pools[u]) = Paid(n, pools[t]) /\ (t = first \/ (u # first /\ t < u)) :
   seen \in (SUBSET {t \in Tiers : pools[t] # NoPool}) \ {{}}}

PoolLeg(r) ==
  /\ At(r, "pools")
  /\ input.out # 0 /\ Builds(input)
  /\ \E t \in BestTiers(input.tier, quotes[r].in) : Goes(r, "output", [quotes[r] EXCEPT !.tier = t])
  /\ Quoting /\ UNCHANGED price

OutputLeg(r) ==
  /\ At(r, "output")
  /\ \E out \in IF Swaps(input) \/ Kind(input) = "aave"
                  THEN {Paid(quotes[r].in, pools[t]) :
                        t \in BestTiers(IF Swaps(input) THEN quotes[r].tier ELSE 3000, quotes[r].in)}
                  ELSE {quotes[r].in} :
       Goes(r, "execution", [quotes[r] EXCEPT !.out.raw = out, !.low.raw = Less(out, SlippageBps(input))])
  /\ Quoting /\ UNCHANGED price

(* (only the gas estimated, which falls back when the call fails)           *)
ExecutionLegEstimated(r) ==
  /\ At(r, "execution")
  /\ \E cost \in GasCosts(quotes[r], 1) : Goes(r, "eligible", [quotes[r] EXCEPT !.cost = cost])
  /\ Quoting /\ UNCHANGED price

(* The router called from the operator with the payload of the tier found.  *)
(* The call reverts when that tier has no pool by now, and for reasons the  *)
(* model does not know: Throw.                                              *)
ExecutionLeg(r) ==
  LET q == quotes[r]
      p == Payload(input, IF Swaps(input) THEN q.tier ELSE input.tier)
  IN
  /\ At(r, "execution")
  /\ UsesPools(input) /\ p.tier # 0 => p.tier \in Tiers /\ pools[p.tier] # NoPool
  /\ \E cost \in GasCosts(q, 1) : Goes(r, "eligible", [q EXCEPT !.cost = cost, !.simulated = TRUE])
  /\ Quoting /\ UNCHANGED price

(* The decimals a non-EVM output is written with.                           *)
OutDec(i) ==
  CASE Kind(i) = "marinade" -> Six + 3
    [] Kind(i) = "blend" -> Dest(i).dec
    [] OTHER -> IF i.out = 0 THEN Six ELSE i.out

(* A non-EVM destination: what the adapter's simulation answers, or, when   *)
(* that fails for whatever reason, the static configuration.                *)
AdapterLeg(r) ==
  LET q    == quotes[r]
      dec  == OutDec(input)
      slip == SlippageBps(input)
      Done(out, low, cost, simulated) ==
        Goes(r, "eligible", [q EXCEPT !.out = out, !.low = low, !.cost = @ + cost,
                                      !.simulated = simulated])
  IN
  /\ At(r, "adapter")
  /\ IF BridgeOnly(input)
     THEN Done([raw |-> q.in, dec |-> Dest(input).dec], [raw |-> q.in, dec |-> Dest(input).dec], 0, FALSE)
     ELSE \/ \E out \in {Paid(q.in, rate) : rate \in Rates} \union {q.in} :
               Done([raw |-> out, dec |-> dec], [raw |-> Less(out, slip), dec |-> dec], q.at, TRUE)
          \/ Done([raw |-> q.in, dec |-> Dest(input).dec], [raw |-> Less(q.in, slip), dec |-> dec],
                  FallbackGas, FALSE)
  /\ Quoting /\ UNCHANGED price

(* (a failing leg started again, without counting how often)                *)
ThrowStartsAgain(r) ==
  /\ \E leg \in RpcLegs : At(r, leg)
  /\ Becomes(r, [quotes[r] EXCEPT !.tries = 0]) /\ Quoting /\ UNCHANGED price

(* What a leg cannot do, and does not catch, drops the route.               *)
Throw(r) ==
  /\ \E leg \in RpcLegs : At(r, leg)
  /\ Becomes(r, Dropped) /\ Quoting /\ UNCHANGED price

(* (one attempt too many)                                                   *)
RateLimitedOnceMore(r) ==
  /\ \E leg \in RpcLegs : At(r, leg)
  /\ quotes[r].tries < RpcMaxAttempts
  /\ Becomes(r, [quotes[r] EXCEPT !.tries = @ + 1]) /\ Quoting /\ UNCHANGED price

(* Rate limited: the call is made again, RPC_MAX_ATTEMPTS times in all.     *)
RateLimited(r) ==
  /\ \E leg \in RpcLegs : At(r, leg)
  /\ quotes[r].tries + 1 < RpcMaxAttempts
  /\ Becomes(r, [quotes[r] EXCEPT !.tries = @ + 1]) /\ Quoting /\ UNCHANGED price

Answer(r) ==
  \/ Throw(r) \/ RateLimited(r) \/ CircleLeg(r) \/ PriceLeg(r) \/ SourceLeg(r)
  \/ RouterLeg(r) \/ PoolLeg(r) \/ OutputLeg(r) \/ ExecutionLeg(r) \/ AdapterLeg(r)

---------------------------------------------------------------------------
(* The plan, once every quote has its answer, and the gate.                 *)

EligibleRoutes == {r \in DOMAIN quotes : quotes[r].leg = "eligible"}
Required(i)    == IF i.gatewayPayload THEN "GATEWAY" ELSE i.preferred

(* Sorted by score; equal scores stay in the order of the candidates.       *)
Best(i) ==
  CHOOSE r \in EligibleRoutes : \A s \in EligibleRoutes \ {r} :
    Score(i, s) < Score(i, r) \/ (Score(i, s) = Score(i, r) /\ Place[r] < Place[s])

(* (the route wanted replaced by the best when it is not eligible)          *)
SelectedOtherwise(i) ==
  IF Required(i) \in EligibleRoutes THEN Required(i)
  ELSE IF EligibleRoutes = {} THEN "MOCK" ELSE Best(i)

Selected(i) ==
  IF Required(i) # "none" THEN IF Required(i) \in EligibleRoutes THEN Required(i) ELSE "MOCK"
  ELSE IF EligibleRoutes = {} THEN "MOCK" ELSE Best(i)

(* (the fee guard only warns)                                               *)
MakePlanUnguarded(i) ==
  LET s == Selected(i)
  IN [route    |-> IF Allowed(i) THEN s ELSE "MOCK",
      approval |-> PolicyWantsApproval(i) \/ ~Allowed(i) \/ s = "MOCK"]

MakePlan(i) ==
  LET s == Selected(i)
  IN [route    |-> IF Allowed(i) THEN s ELSE "MOCK",
      approval |-> PolicyWantsApproval(i) \/ ~Allowed(i) \/ s = "MOCK" \/ OverGuard(i, quotes[s])]

Blocked(i, p) == ~Allowed(i) \/ p.route = "MOCK"
NoPlan == [route |-> "none", approval |-> FALSE]

(* createAndRun, or the quote endpoints, which await the plan and no more:  *)
(* what it throws answers an intent with failed, a quote not at all.        *)
Decide ==
  LET p == IF Supported(input) THEN MakePlan(input) ELSE NoPlan IN
  /\ status = "created"
  /\ \A r \in DOMAIN quotes : quotes[r].leg \in {"eligible", "ineligible"}
  /\ IF ~Supported(input) \/ (input.op = "intent" /\ ~Builds(input))
     THEN /\ status' = IF input.op = "intent" THEN "failed" ELSE "unanswered"
          /\ plan' = plan
     ELSE /\ status' = IF input.op = "quote" THEN "answered"
                       ELSE IF input.quoteOnly THEN "quoted"
                       ELSE IF Blocked(input, p) \/ (p.approval /\ ~input.approved) THEN "needs_approval"
                       ELSE "planned"
          /\ plan' = [p EXCEPT !.approval = @ /\ (input.op = "quote" \/ ~input.approved \/ Blocked(input, p))]
  /\ UNCHANGED <<env, input, quotes, pools, price, moves>>

PoolMoves ==
  /\ moves < MaxMoves /\ UsesPools(input)
  /\ \E t \in Tiers, rate \in Rates \union {NoPool} : pools[t] # rate /\ pools' = [pools EXCEPT ![t] = rate]
  /\ moves' = moves + 1
  /\ UNCHANGED <<env, input, quotes, plan, status, price>>

PriceAges ==
  /\ moves < MaxMoves /\ price # 0
  /\ price' = 0 /\ moves' = moves + 1
  /\ UNCHANGED <<env, input, quotes, plan, status, pools>>

PlanningInit ==
  /\ env \in Settings /\ input \in Requests
  /\ quotes = IF Supported(input)
                THEN [r \in Quoted(input) |-> IF Eligible(input, r) THEN NewQuote ELSE Dropped]
                ELSE <<>>
  /\ plan = NoPlan /\ status = "created"
  /\ pools \in [Tiers -> {NoPool} \union (IF UsesPools(input) THEN Rates ELSE {})]
  /\ price \in {0} \union MarketPrices /\ moves = 0

(* The process runs on while any of its calls has an answer to go on with.  *)
Process == (\E r \in Routes : Answer(r)) \/ Decide
PlanningNext == Process \/ PoolMoves \/ PriceAges
PlanningSpec == PlanningInit /\ [][PlanningNext]_planningVars /\ WF_planningVars(Process)

---------------------------------------------------------------------------
PlanningTypeOK ==
  /\ env \in Settings /\ input \in Requests /\ moves \in 0..MaxMoves
  /\ DOMAIN quotes \subseteq Routes
  /\ \A r \in DOMAIN quotes : quotes[r] # Dropped =>
       /\ DOMAIN quotes[r] = DOMAIN NewQuote
       /\ quotes[r].tries \in 0..RpcMaxAttempts - 1
       /\ {quotes[r].in, quotes[r].fee, quotes[r].cost, quotes[r].out.raw, quotes[r].low.raw} \subseteq Nat
       /\ quotes[r].leg = "eligible" => quotes[r].in > 0
  /\ plan.route \in Routes \union {"MOCK", "none"} /\ plan.approval \in BOOLEAN
  /\ status \in {"created", "failed", "unanswered", "answered", "quoted", "needs_approval", "planned"}
  /\ pools \in [Tiers -> Rates \union {NoPool}] /\ price \in {0} \union MarketPrices

(* A pipeline starts only for an intent the policy allows, that asked for   *)
(* more than a quote, with the user's approval whenever the policy or the   *)
(* fee guard wants it, and on a route with a quote; when that route ends at *)
(* a router, the call of the router with the payload had gone through in    *)
(* the simulation.  Elsewhere the code offers more: a Solana or Stellar     *)
(* route whose adapter could not be simulated is quoted from the static     *)
(* configuration, and gas from a fallback.                                  *)
RunsAreAuthorised ==
  status = "planned" =>
    /\ input.op = "intent" /\ ~input.quoteOnly /\ Allowed(input) /\ Builds(input)
    /\ plan.route \in EligibleRoutes
    /\ OnRouter(input) => quotes[plan.route].simulated
    /\ input.approved \/ (~PolicyWantsApproval(input) /\ Total(input, quotes[plan.route]) <= input.maxFee)

(* The route of a plan is the one a Gateway signature or the user requires, *)
(* and without one no quoted route scored better, in whatever order the     *)
(* quotes came in and whichever of them failed.                             *)
RouteIsTheOneWanted ==
  plan.route \in Routes =>
    IF Required(input) # "none" THEN plan.route = Required(input)
    ELSE \A r \in EligibleRoutes : Score(input, r) <= Score(input, plan.route)

(* Whatever fails, is rate limited or moves meanwhile, a request comes to a *)
(* decision, and an intent's is one the user is told.  (That the store      *)
(* takes the receipt with it is assumed here.)                              *)
PlanningEnds == <>(status \notin {"created"} /\ (input.op = "intent" => status # "unanswered"))
=============================================================================
