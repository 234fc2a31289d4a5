SPECIFICATION ProcessFairSpec
CONSTANTS
  Packets = {t1, t2}
  Requests = {q1, q2}
  Starts <- MCStarts
INVARIANTS FlagsThenEnvThenDefaults AcceptedConfigsServe TrapUsersKept LossIsReported
PROPERTIES ShutdownEnds
CHECK_DEADLOCK FALSE
