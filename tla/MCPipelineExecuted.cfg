CONSTANTS
  i1 = i1
  i2 = i2
  q1 = q1
  Requests = {}
  Intents <- MCIntents
  Plans <- RouterPlans
  BridgeFees <- MCFees
  OperatorFunds = 2
  Durable = FALSE
  MaxCrashes = 0
SPECIFICATION Spec
SYMMETRY Symmetry
INVARIANTS
  SucceededExecuted
CHECK_DEADLOCK FALSE
