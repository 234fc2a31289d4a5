SPECIFICATION FairSpec
CONSTANTS
  Packets = {t1}
  Requests = {q1}
PROPERTIES StopsAcceptingTraps
CHECK_DEADLOCK FALSE
