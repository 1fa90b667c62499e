SPECIFICATION FairSpec
CONSTANTS
  Entries = {e1, e2, e3}
  Lists = {app, wait}
  NULL = NULL
INVARIANTS
  TypeOK
  Represents
PROPERTIES
  FindReturnsFirst
  WalkEnds
