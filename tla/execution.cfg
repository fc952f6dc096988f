SPECIFICATION Spec
CONSTANTS
  Plan = {1, 2, 3}
  Precision = 8
  Asset = {1}
  LastSession = 4
  MaxQuantity = 2
  Capital = 9
  Orders <- BuyThenSell
  OpenPrice = {2, 3}
  ClosePrice = {2}
  ReferencePrice = {3}
  LotSize = 1
  SettlementSessions = 2
  RetryUnfilled = TRUE
  MinFee = 2
  FeeDivisor = 4
  Slippage = 1
  Actions <- OneForTwo
  ShortCalendars = TRUE
  CalendarRevisions = FALSE
  None = None
INVARIANTS TypeOK NoOverdraft Reconciles LotsMatchInventory SharesSettle PositionsExplained AwardsMatchEntitlement ResidualKept
PROPERTIES ImplementsSignedPlans SessionsEnd
