CONSTANTS
  a = a  b = b  c = c  d = d  star = star
  TagPointers = {a, b, c, d, star}
  Text <- OwnText
  Wildcard = "*"
  NULL = NULL
  Levels = {1}
  DEFAULT_LOG_LEVEL = 1
  CONFIG_LOG_TAG_CACHE_SIZE = 3
  LevelModulus = 8
  GenerationModulus = 7
  CounterModulus = 16
  MaxGeneration = 7
  MayTimeOut = TRUE
SYMMETRY Symmetry
SPECIFICATION Spec
INVARIANTS CachedOnce HeapOrdered AssertsHold WorkingSetStaysCached
PROPERTIES ImplementsRecency
