SPECIFICATION ServerSpec
CONSTANTS
  MaxTargetsPerQuery = 2
  MaxOperationsPerTarget = 2
  MaxOIDsPerOperation = 2
  DefaultSNMPTimeout = 14
  DefaultSNMPRetries = 1
  Millisecond = 4
  Half = 64
  BasicAuth <- MCBasicAuth
  GeneratedID = "generated"
  Routes = {"10.0.0.0/8", "default"}
  MaxEvents = 4
INVARIANTS
  StatusFitsRequest WorkIffAcceptable ClientsCanExecute SessionsNotWeakened
  OneMoment CountersOnlyGrow
CHECK_DEADLOCK FALSE
