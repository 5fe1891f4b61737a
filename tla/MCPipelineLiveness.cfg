CONSTANTS
  i1 = i1
  i2 = i2
  q1 = q1
  Requests = {}
  Intents <- MCIntents
  Plans <- SettlePlans
  BridgeFees <- MCFees
  OperatorFunds = 2
  Durable = FALSE
  MaxCrashes = 1
SPECIFICATION FairSpec
PROPERTY EveryIntentSettles
CHECK_DEADLOCK FALSE
