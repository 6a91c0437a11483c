CONSTANTS
  main = main  second = second  other = other
  Tasks = {main, second, other}
  NoTask = NoTask
  Core <- MCCore
  Moments <- MCMoments
  MsPerTick = 100
  EarlyModulus = 200
  BufferSize = 18
  MaxCount = 5
SYMMETRY Symmetry
SPECIFICATION Spec
\* Time ends.
CHECK_DEADLOCK FALSE
INVARIANTS TypeOK StampsFollow StampsSettle EarlyTextIsNumber TextWhole
