SPECIFICATION Spec
CONSTANTS
  Plan = {1}
  Precision = 8
  Asset = {1}
  LastSession = 3
  MaxQuantity = 2
  Capital = 9
  Orders <- BuyThenSell
  OpenPrice = {2, 3}
  ClosePrice = {2}
  ReferencePrice = {3}
  LotSize = 1
  SettlementSessions = 1
  RetryUnfilled = TRUE
  MinFee = 2
  FeeDivisor = 4
  Slippage = 1
  Actions <- NoActions
  ShortCalendars = FALSE
  CalendarRevisions = TRUE
  None = None
INVARIANTS ResidualKept
