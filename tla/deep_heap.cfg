CONSTANTS
  TagPointers = {1, 2, 3, 4, 5, 6, 7, 8}
  Text <- OwnText
  Wildcard = Star
  NULL = 0
  Levels = {1}
  DEFAULT_LOG_LEVEL = 1
  CONFIG_LOG_TAG_CACHE_SIZE = 7
  LevelModulus = 8
  GenerationModulus = 12
  CounterModulus = 16
  MaxGeneration = 11
  MayTimeOut = TRUE
SPECIFICATION LookupSpec
INVARIANTS HeapOrdered
PROPERTIES ImplementsRecency
