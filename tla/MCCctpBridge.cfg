CONSTANTS
  t1 = t1
  t2 = t2
  Transfers <- MCTransfers
  Plans <- AllPlans
  Funds <- MCFunds
SPECIFICATION FairSpec
INVARIANTS
  AnswersAreTrue
  AllowanceIsOneBurn
PROPERTIES
  ImplementsBridgeTransfer
  EveryCallIsAnswered
