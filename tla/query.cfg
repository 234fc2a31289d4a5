SPECIFICATION Spec
CONSTANTS
  Requests <- ThreeTargets
  MaxParallelTargets = 2
  MaxVarbinds = 1
  ConnectErrors = {"no such host"}
  OperationErrors = {"net timeout"}
INVARIANTS
  TypeOK ConcurrencyBound ResponseComplete StatsDescribeResponse CanceledSuffix
  SessionsClosed
PROPERTIES ResponseStable
