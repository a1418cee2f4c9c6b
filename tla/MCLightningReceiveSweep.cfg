SPECIFICATION Spec
CONSTANTS
  p1 = p1
  p2 = p2
  p3 = p3
  NULL = NULL
  Payments = {p1, p2}
  Exact = {p1}
  Attempts = 2
PROPERTY SweepFailsOnlyUnpaid
CHECK_DEADLOCK FALSE
