SPECIFICATION LiveSpec
CONSTANTS
  a = a
  b = b
  NULL = NULL
  Coins = {a, b}
  Slot <- SlotOf
  Owner <- OwnerOf
  Value <- ValueOf
  Credit <- CreditOf
  Limit = 1
  MaxDeposit = 2
  QuoteLimit = 1
  MaxFaults = 0
INVARIANT ListedUntilThreeConfirmations
CHECK_DEADLOCK FALSE
