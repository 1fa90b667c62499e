SPECIFICATION Spec
CONSTANTS
  Socks = {s1, s2}
  MaxTunnels = 6
  MaxEvents = 64
  MaxPriv = 1
  MaxRmt = 1
  AuthOn = FALSE
  NULL = NULL
CHECK_DEADLOCK FALSE
PROPERTY
  KeptAliveServed
