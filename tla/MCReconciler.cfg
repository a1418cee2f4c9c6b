SPECIFICATION LiveSpec
CONSTANTS
  o1 = o1
  p1 = p1
  p2 = p2
  NULL = NULL
  Offers = {o1}
  Inbound = {p1, p2, u}
  Enough = {p1, p2}
  Outbound = {f}
  OfferOf <- OfferOfAll
  Invoices = {i}
  PageSize = 1
  PageLimit = 3
  MaxFaults = 1
INVARIANTS OfferCreditedOnce
PROPERTIES PaidOfferIsCredited ExpiredIsSwept
CHECK_DEADLOCK FALSE
