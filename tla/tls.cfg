SPECIFICATION FairSpec
CONSTANTS
  Processes = {p1, p2}
  Pairs = {a, b, c}
  MaxFaults = 2
INVARIANTS TypeOK EnsuredPairLoads DamageHasCause
PROPERTIES RestartsSucceed
CHECK_DEADLOCK FALSE
