SPECIFICATION Spec
CONSTANTS
  Sessions = {s1}
  Entries = {e1, e2, e3, e4}
  Modes = {m1}
  NoEntry = NoEntry
  NoMode = NoMode
  NoSession = NoSession
  PageLimit = 2
SYMMETRY Symmetry
CHECK_DEADLOCK FALSE
INVARIANTS
  TypeOK
  LogIsTree
  ModeCacheConsistent
  NewMessagesInContext
  PagerComplete
PROPERTY
  ContextMovesOnlyWithLeaf
