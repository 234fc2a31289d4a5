SPECIFICATION Spec
CONSTANTS
  HTTPTargets = {"ops", "noc"}
  NoTarget = "unset"
  SpecificTrap <- MCSpecificTrap
  TrapPackets <- MCPackets
  Decoded <- MCDecoded
  QueueSize = 2
  MaxRoutes = 2
  Forms = {"v4", "mapped"}
INVARIANT MoreSpecificOverridesBroader
CHECK_DEADLOCK FALSE
