SPECIFICATION Spec
CONSTANTS
  HTTPTargets = {"ops", "noc"}
  NoTarget = "unset"
  Packets = {"trap", "inform", "lost"}
  NoPacket = "nothing"
  Datagram <- MCDatagram
  Workers = {w1, w2}
  QueueSize = 1
  Retries = 1
  AllowedCommunities = {"public"}
  RouteFile <- MCRouteFile
  DefaultTarget = "unset"
INVARIANT AcceptedInformsAnswered
