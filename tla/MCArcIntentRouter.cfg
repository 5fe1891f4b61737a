CONSTANTS
  u1 = u1
  k1 = k1
  a1 = a1
  t1 = t1
  r1 = r1
  Users <- MCUsers
  AdapterKeys <- MCAdapterKeys
  Adapters <- MCAdapters
  Treasuries <- MCTreasuries
  RemoteIds <- MCRemoteIds
  OperatorIds <- MCOperatorIds
  Amounts <- MCAmounts
  PoolAsks <- MCPoolAsks
  FeeInputs <- MCFeeInputs
  InitialFee = 0
  Supply = 300
  MaxBlock = 1
  Router = Router
  Protocol = Protocol
  NoAdapter = NoAdapter
  NoIntent = NoIntent
SPECIFICATION Spec
INVARIANTS
  CustodyCovered
  SpendingIsOnRecord
PROPERTY RecordsAreFinal
CHECK_DEADLOCK FALSE
