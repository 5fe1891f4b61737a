CONSTANTS
  t1 = t1
  t2 = t2
  d1 = d1
  Transfers = {t1, t2}
  Depositors = {d1}
  DepositorOf <- MCDepositorOf
  Quotes <- MCQuotes
  X402Fee = 1
  GasBuffer = 1
  SafetyBuffer = 0
  Funds <- MCFunds
SPECIFICATION FairSpec
INVARIANTS
  UndisturbedIsFunded
  AnswersAreTrue
PROPERTIES
  ImplementsBridgeTransfer
  EveryCallIsAnswered
