SPECIFICATION Spec
CONSTANTS
  HTTPTargets = {"ops", "noc"}
  NoTarget = "unset"
  Packets = {"trap", "inform", "v1trap", "nan", "foreign"}
  NoPacket = "nothing"
  Datagram <- MCDatagram
  Workers = {w1, w2}
  QueueSize = 1
  Retries = 1
  AllowedCommunities = {"public"}
  RouteFile <- MCRouteFile
  DefaultTarget = "unset"
INVARIANTS
  TypeOK NoSendOnClosedQueue Custody CountersBalance GracefulClose
  CancelOnlyPastDeadline QuiescentAfterClose RetryBudget AnswerAfterHandover
SYMMETRY WorkerSymmetry
