CONSTANTS
  operator = operator
  other = other
  i1 = i1
  Accounts <- MCAccounts
  Deployer = other
  IntentIds <- MCIntentIds
  Payloads <- MCPayloads
  Candidates <- MCCandidates
  MaxStepCount = 3
  MaxSteps <- MCMaxSteps
  External <- MCExternal
  MaxOthers = 1
  MaxTime = 1
  Unwritten = Unwritten
SPECIFICATION ClientSpec
INVARIANTS
  ClientTypeOK
  ReportedIsStored
  VerdictTellsResult
  StagesInOrder
PROPERTY TracingEnds
CHECK_DEADLOCK FALSE
