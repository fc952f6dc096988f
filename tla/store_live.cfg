SPECIFICATION FairSpec
CONSTANTS
  Table = {t1}
  Evaluation = {e1}
  Publisher = {p1}
  Cleaner = {c1}
  Releaser = {r1}
  Encoding = {lz4}
  None = None
  MaxPublications = 2
  MaxInterrupts = 1
PROPERTIES ImplementsAuthority PendingReleaseCompletes AdmittedCleanupEnds PublicationReturns
