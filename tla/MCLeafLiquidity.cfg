SPECIFICATION LiveSpec
CONSTANTS
  x = x
  r = r
  s = s
  y = y
  NULL = NULL
  Jobs = {x, y, r, s}
  Nodes <- NodeIds
  Opening <- OpeningOf
  Kind <- KindOf
  Amounts <- AmountsOf
  MinChild = 1
  Rounds = 2
  MaxFaults = 2
PROPERTIES
  AskedIsAnswered
  RecordedSwapSucceeds
INVARIANTS
  LeafKeysDurable
  RecoveredBeforePayout
  ExactSplitsOnce
CHECK_DEADLOCK FALSE
