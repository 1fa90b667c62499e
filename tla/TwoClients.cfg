SPECIFICATION StreamsSpec
CONSTANTS
  Socks = {s1, s2, s3}
  MaxTunnels = 6
  MaxEvents = 1
  MaxPriv = 1
  MaxRmt = 2
  AuthOn = FALSE
  MaxPieces = 1
  MaxAnswers = 1
  MaxGiven = 2
  NULL = NULL
CHECK_DEADLOCK FALSE
SYMMETRY SockSymmetry
INVARIANTS
  NoDanglingSock
  NoIdleWhilePending
PROPERTY
  MisdeliveryHasCause
