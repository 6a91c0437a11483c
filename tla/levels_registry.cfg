CONSTANTS
  a = a  b = b  c = c  d = d  star = star
  TagPointers = {a, b, c, star}
  Text <- OwnText
  Wildcard = "*"
  NULL = NULL
  Levels = {1, 2}
  DEFAULT_LOG_LEVEL = 2
  CONFIG_LOG_TAG_CACHE_SIZE = 3
  LevelModulus = 8
  GenerationModulus = 4
  CounterModulus = 8
  MaxGeneration = 5
  MayTimeOut = FALSE
SYMMETRY Symmetry
SPECIFICATION Spec
\* A failed assert stops the program.
CHECK_DEADLOCK FALSE
INVARIANTS TypeOK TagsDistinct CacheCoherent
PROPERTIES ImplementsRegistry
