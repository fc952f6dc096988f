SPECIFICATION FairSpec
CONSTANTS
  Items = 5
  MaxWorkers = 3
INVARIANTS TypeOK AdmissionBounded  ResultsComplete IInv
PROPERTIES StopsAdmission BatchReturns
