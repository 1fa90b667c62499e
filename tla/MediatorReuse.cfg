SPECIFICATION FairSpec
CONSTANTS
  Socks = {p, s1, s2}
  Media = p
  MaxWait = 3
  NULL = NULL
CHECK_DEADLOCK FALSE
PROPERTY AnswerForwarded
