SPECIFICATION Spec
CONSTANTS
  Table = {t1}
  Evaluation = {e1}
  Publisher = {p1}
  Cleaner = {}
  Releaser = {r1}
  Encoding = {lz4}
  None = None
  MaxPublications = 1
  MaxInterrupts = 0
CHECK_DEADLOCK FALSE
INVARIANTS ChapterHasEvaluation
