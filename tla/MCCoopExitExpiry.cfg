SPECIFICATION Spec
CONSTANTS
  r1 = r1
  r2 = r2
  r3 = r3
  alice = alice
  bob = bob
  NULL = NULL
  Requests = {r1, r2}
  Owner <- OwnerOf
  Coins = {c1}
PROPERTY ExpiryFreesOnlyUnsubmitted
CHECK_DEADLOCK FALSE
