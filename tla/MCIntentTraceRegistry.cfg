CONSTANTS
  alice = alice
  bob = bob
  i1 = i1
  p1 = p1
  p2 = p2
  Accounts <- MCAccounts
  Deployer = alice
  IntentIds <- MCIntentIds
  Payloads <- MCPayloads
  MaxStepCount = 3
  MaxTime = 2
  Unwritten = Unwritten
SPECIFICATION Spec
INVARIANT RegistryInv
PROPERTY ImplementsTraceLog
CHECK_DEADLOCK FALSE
