CONSTANTS
  i1 = i1
  i2 = i2
  q1 = q1
  Requests <- MCRequests
  Intents <- MCIntents
  Plans <- MCPlans
  BridgeFees <- MCFees
  OperatorFunds = 2
  Durable = TRUE
  MaxCrashes = 1
SPECIFICATION Spec
SYMMETRY Symmetry
INVARIANTS
  StatusFollowsPipeline
  SucceededIsComplete
  ExclusiveWindowAttribution
PROPERTIES
  SettledIsQuiescent
  ImplementsLifecycle
CHECK_DEADLOCK FALSE
