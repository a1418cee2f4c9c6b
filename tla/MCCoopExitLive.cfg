SPECIFICATION LiveSpec
CONSTANTS
  r1 = r1
  r2 = r2
  r3 = r3
  alice = alice
  bob = bob
  NULL = NULL
  Requests = {r1, r2}
  Owner <- OwnerOf
  Coins = {c1}
  MaxFaults = 2
  LeafIds = {1, 2, 3, 4}
  Opening <- LeavesOf
  Treasury <- CoinsOf
  Addresses = {"p2wpkh", "p2pkh"}
  Estimates = {1000, 1500}
  Speeds = {"FAST"}
  UserFee = 50
  MaxLeaves = 2
  QuoteLimit = 1
  ExitLimit = 2
  BumpRates = {2, 5}
  Budgets = {200, 2000}
INVARIANTS PayoutsNeverConflict PayoutIsCovered SucceededIsRecovered
  FundsAreConserved OutputsRelay FeesReachRate
PROPERTIES SignedSucceeds SubmittedIsPaid UnusedCoinFreed
CHECK_DEADLOCK FALSE
