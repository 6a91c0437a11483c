CONSTANTS
  a = a  b = b  c = c  d = d  star = star
  TagPointers = {a, b, star}
  Text <- SharedText
  Wildcard = "*"
  NULL = NULL
  Levels = {1, 2}
  DEFAULT_LOG_LEVEL = 2
  CONFIG_LOG_TAG_CACHE_SIZE = 3
  LevelModulus = 8
  GenerationModulus = 8
  CounterModulus = 16
  MaxGeneration = 8
  MayTimeOut = FALSE
SPECIFICATION Spec
INVARIANTS AnswersCurrentLevel
