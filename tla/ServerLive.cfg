SPECIFICATION FairSpec
CONSTANTS
  Socks = {s1, s2}
  MaxTunnels = 6
  MaxEvents = 64
  MaxPriv = 1
  MaxRmt = 2
  AuthOn = FALSE
  NULL = NULL
CHECK_DEADLOCK FALSE
PROPERTY
  ResetReleased
