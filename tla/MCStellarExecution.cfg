CONSTANTS
  c1 = c1
  c2 = c2
  operator = operator
  stranger = stranger
  Calls <- MCCalls
  Settings <- MCSettings
  Deployed <- MCDeployed
  Requests <- MCRequests
  Accounts <- MCAccounts
  Operator = operator
  Outs <- MCOuts
  MaxOutside = 1
SPECIFICATION Spec
INVARIANTS
  TypeOK
  SucceededIsRelayed
  RelaysAreCovered
PROPERTY PauseIsFinal
SYMMETRY Symmetry
CHECK_DEADLOCK FALSE
