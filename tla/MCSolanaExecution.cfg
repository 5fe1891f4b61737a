CONSTANTS
  c1 = c1
  c2 = c2
  operator = operator
  stranger = stranger
  user = user
  Calls <- MCCalls
  Deployed <- MCDeployed
  Requests <- MCRequests
  Settings <- MCSettings
  Signers <- MCSigners
  Operator = operator
  Recipients <- MCRecipients
  Prices <- MCPrices
  Asked <- MCAsked
  MaxOutside = 1
SPECIFICATION Spec
INVARIANTS
  TypeOK
  AtMostOnce
  AnswersAreTrue
  SwapCoversDeposit
SYMMETRY Symmetry
CHECK_DEADLOCK FALSE
