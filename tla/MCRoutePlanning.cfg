CONSTANTS
  Requests <- MCRequests
  Settings <- MCSettings
  Weight = 34
  LiveBps = {200}
  GatewayFee = 36
  RouterBps = 30
  MarketPrices = {1, 40}
  FallbackGas = 3
  Tiers = {500, 3000}
  Rates = {0, 150}
  RpcMaxAttempts = 2
  MaxMoves = 1
SPECIFICATION PlanningSpec
INVARIANTS
  PlanningTypeOK
  RunsAreAuthorised
  RouteIsTheOneWanted
PROPERTIES
  PlanningEnds
CHECK_DEADLOCK FALSE
