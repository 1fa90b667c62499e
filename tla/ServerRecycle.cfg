SPECIFICATION Spec
CONSTANTS
  Socks = {s1, s2}
  MaxTunnels = 6
  MaxEvents = 2
  MaxPriv = 2
  MaxRmt = 2
  AuthOn = TRUE
  NULL = NULL
CHECK_DEADLOCK FALSE
SYMMETRY SockSymmetry
INVARIANTS
  TypeOK
  WaitEntriesOwnRemote
  PrivReachable
  WaitListBounded
  ParkedDrained
  EpollArmed
PROPERTIES
  ReleaseHasCause
  StaleOnlyClient
