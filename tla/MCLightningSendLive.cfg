SPECIFICATION LiveSpec
CONSTANTS
  Workers = {w1, w2}
  MaxFaults = 3
INVARIANTS ChargedOnlyIfPaid SucceededIsSettled RefundOnlyAfterFailure OffersSentOnce InFlightIsFunded
PROPERTIES PaidIsCollected FailureIsRefunded IntentResolves
CHECK_DEADLOCK FALSE
