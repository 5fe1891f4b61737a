SPECIFICATION Spec
CONSTANTS
  i1 = i1
  i2 = i2
  r1 = r1
  Intents = {i1, i2}
  Retries = {r1}
  TargetOf <- MCTargetOf
  Durable = TRUE
INVARIANTS
  OneTokenPerIntent
  RecordsAreHonest
PROPERTIES
  ResultStays
