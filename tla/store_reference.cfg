SPECIFICATION Spec
CONSTANTS
  Table = {t1}
  Evaluation = {e1}
  Publisher = {p1, p2}
  Cleaner = {c1}
  Releaser = {}
  Encoding = {lz4, zstd}
  None = None
  MaxPublications = 2
  MaxInterrupts = 0
INVARIANTS ReceiptMatchesRegistration
