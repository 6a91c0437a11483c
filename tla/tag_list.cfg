CONSTANTS
  t1 = t1  t2 = t2  n1 = n1  n2 = n2  n3 = n3  a = a  b = b   star = star
  Tasks = {t1, t2}
  NoTask = NoTask
  Nodes = {n1, n2, n3}
  NULL = NULL
  Junk = Junk
  Tags = {a, b, star}
  Wildcard = star
  Levels = {0, 1}
  DEFAULT_LOG_LEVEL = 1
SPECIFICATION Spec
INVARIANTS TypeOK MemorySafe NothingLeaks
PROPERTIES ImplementsRegistry SectionEnds
