SPECIFICATION FairSpec
CONSTANTS
  MaxField = 2
  Scripts <- PeerScripts
CHECK_DEADLOCK FALSE
INVARIANTS
  TypeOK
  ResumesAtLabel
PROPERTIES
  ParsesMessages
  MessagesAnswered
