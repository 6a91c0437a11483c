CONSTANTS
  dumper = dumper  setter = setter
  tag = tag  star = star
  printA = printA  printB = printB  writeA = writeA
  vprintf = vprintf  log_writev = log_writev
  NULL = NULL  NoTask = NoTask
  Tasks = {dumper, setter}
  TagPointers = {tag, star}
  Text <- MCText
  Wildcard = star
  Levels = {0, 1}
  MessageLevels = {1}
  DEFAULT_LOG_LEVEL = 1
  Does <- MCDoes
  Owns <- MCOwns
  PrintFuncs = {vprintf, printA, printB}
  WriteFuncs = {log_writev, writeA}
  DumpLines = 2
  MaxNesting = 1
  MAXIMUM_ENABLED_LOG_LEVEL = 1
SPECIFICATION Spec
INVARIANTS TypeOK LevelDecides DumpWholeOrNothing LockFreeInHandlers FunctionsConserved
PROPERTY LoggingReturns
