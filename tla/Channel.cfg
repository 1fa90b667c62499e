SPECIFICATION ChannelSpec
CONSTANTS
  MaxField = 20
  Scripts <- MediatorScripts
  Requests <- ClientRequest
  Answers <- ServiceAnswer
CHECK_DEADLOCK FALSE
INVARIANTS
  RequestsAligned
  AnswersAligned
  MediatorFollows
PROPERTY HandshakeCompletes
