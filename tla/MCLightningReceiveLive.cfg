SPECIFICATION LiveSpec
CONSTANTS
  Payments = {p1, p2, p3}
  Exact = {p1, p2}
  NULL = NULL
  Attempts = 2
  MaxFaults = 2
INVARIANTS CollectAfterPayout LocalPayerTold
PROPERTIES KeepsPromise HeldHtlcReleased ClaimedCompletes LocalSendSettles
CHECK_DEADLOCK FALSE
