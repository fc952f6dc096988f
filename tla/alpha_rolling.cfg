SPECIFICATION AlphaSpec
CONSTANTS
  Sessions = 5
  ReturnWindows <- MCReturnWindows
  PersistenceLags = {1, 2}
  LeadLags <- MCLeadLags
  AlphaLags = {0, 1}
  RollingObservations = 2
  Degenerate = {3}
  Selections <- MCSelections
  Leads = {0, 2}
  Delays = {0, 4}
  MaxRevisions = 1
  MaxPreceding = 1
CHECK_DEADLOCK FALSE
INVARIANTS RollingMatchesFull
