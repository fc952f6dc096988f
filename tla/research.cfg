SPECIFICATION ResearchSpec
CONSTANTS
  Sessions = 5
  ReturnWindows <- MCReturnWindows
  PersistenceLags = {1, 2}
  LeadLags <- MCLeadLags
  AlphaLags = {0, 1}
  RollingObservations = 2
  Degenerate = {3}
  Selections <- MCSelections
  Leads = {0, 2}
  Delays = {0, 4}
  MaxRevisions = 1
  MaxPreceding = 1
  FactorSessions = 6
  FactorStart = 1
  BatchSessions = 2
  MaxCorrections = 1
  ProfileSessions = 6
  RegressionWindow = 2
  RegressionMinPeriods = 2
  VolatilityWindow = 2
  PathStarts = {1}
  IndustryStarts = {3}
  MaxProfileRevisions = 1
  MaxCheckpoints = 1
  Writers = {w1, w2}
  InputIds = {i1, i2}
  Tables = {t1, t2}
  Coverage = c
  NoInput = NoInput
  ClockSteps = {1}
  MaxReceipts = 3
  Groups = {1, 2}
  TableDays = 3
  MaxContinuations = 2
  BridgeDays = 5
  BridgeAssets = {1, 2}
  BridgeCapital = 12
  WeightUnit = 2
  BridgeLot = 1
  BridgeFee = 1
  Settings <- MCSettings
  Markets <- MCMarkets
  TargetPlans <- MCTargetPlans
  Blocks <- MCBlocks
  Dividends <- MCDividends
  Corrections <- MCCorrections
  MaxCalls = 3
  WindowEnds <- MCWindowEnds
  HorizonDays = 3
  MaxComputations = 3
SYMMETRY MCSymmetry
CHECK_DEADLOCK FALSE
INVARIANTS ContinuationMatchesFull FactorsMatchFull FactorsContinuous ProfileMatchesFull ContinuationAdmitted ProfileGapless SharedAuthority PrimitiveImmutable ReadsPublished SplitEqualsWhole DispatchedEqualsInline
PROPERTIES  WritesOnlyTails
