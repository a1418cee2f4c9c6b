SPECIFICATION LiveSpec
CONSTANTS
  a = a
  b = b
  NULL = NULL
  Coins = {a, b}
  Slot <- SlotOf
  Owner <- OwnerOf
  Value <- ValueOf
  Credit <- CreditOf
  Limit = 1
  MaxDeposit = 2
  QuoteLimit = 1
  MaxFaults = 2
INVARIANTS PayoutsWithinDeposits ExposureWithinLimit NonceSignsOnce
PROPERTY PaidIsRecovered
CHECK_DEADLOCK FALSE
