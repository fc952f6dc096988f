SPECIFICATION Spec
CONSTANTS
  Table = {t1, t2}
  Evaluation = {e1, e2}
  Publisher = {p1}
  Cleaner = {}
  Releaser = {r1}
  Encoding = {lz4, zstd}
  None = None
  MaxPublications = 3
  MaxInterrupts = 1
SYMMETRY Symmetry
INVARIANTS NoDanglingReceipt
PROPERTIES ChaptersRetiredOnlyByPlan
