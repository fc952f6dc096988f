SPECIFICATION Spec
CONSTANTS
  Plan = {1, 2}
  Precision = 5
  Asset = {1}
  LastSession = 2
  MaxQuantity = 6
  Capital = 20
  Orders <- ThreeAndSix
  OpenPrice = {2}
  ClosePrice = {2}
  ReferencePrice = {2}
  LotSize = 1
  SettlementSessions = 0
  RetryUnfilled = FALSE
  MinFee = 0
  FeeDivisor = 8
  Slippage = 0
  Actions <- EightForFive
  ShortCalendars = FALSE
  CalendarRevisions = FALSE
  None = None
INVARIANTS Reconciles
