SPECIFICATION Spec
CONSTANTS
  HTTPTargets = {"ops", "noc"}
  NoTarget = "unset"
  SpecificTrap <- MCSpecificTrap
  TrapPackets <- MCPackets
  Decoded <- MCDecoded
  QueueSize = 2
  MaxRoutes = 3
  Forms = {"v4", "v6"}
INVARIANTS LongestPrefixWins WholeFileOrNothing PostedAsReceived ReportedAsRouted
CHECK_DEADLOCK FALSE
