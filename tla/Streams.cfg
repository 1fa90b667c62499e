SPECIFICATION StreamsSpec
CONSTANTS
  Socks = {s1, s2}
  MaxTunnels = 6
  MaxEvents = 64
  MaxPriv = 1
  MaxRmt = 2
  AuthOn = FALSE
  MaxPieces = 2
  MaxAnswers = 2
  MaxGiven = 3
  NULL = NULL
CHECK_DEADLOCK FALSE
SYMMETRY SockSymmetry
INVARIANTS
  StreamsTypeOK
  RequestsInOrder
  AnswersOnce
PROPERTY
  RequestLossHasCause
