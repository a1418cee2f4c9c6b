SPECIFICATION LiveSpec
CONSTANTS
  w = w
  kind = kind
  NoQuote = NoQuote
  Requests = {1, 2, 3}
  Hooks = {h, g}
  Dead = {g}
  Challenges = {c1, c2}
  c1 = c1
  Quotes = {q}
  Handlers = {t1, t2}
  Owner <- OwnerOf
  Types <- TypesOf
  Kind <- KindOf
  HookLimit = 2
  Batch = 1
  ChallengeLimit = 1
  QuoteLimit = 1
  PageSize = 1
  MaxCalls = 3
  MaxFaults = 2
INVARIANTS ChallengeOpensOnce PayoutIdsDiffer HistoryIsComplete DeliversAsSubscribed
PROPERTY FinishedIsDelivered
CHECK_DEADLOCK FALSE
