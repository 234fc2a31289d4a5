SPECIFICATION SilentSpec
CONSTANTS
  Requests <- TwoTargets
  MaxParallelTargets = 1
  MaxVarbinds = 1
  ConnectErrors = {"no such host", "connection refused"}
  OperationErrors = {"net timeout", "malformed packet"}
PROPERTIES EveryQueryReturns PromptCancellation
