CONSTANTS
  MaxConnections = 2
  MaxRequests = 3
  MaxBatch = 2
  Pieces = 2
  None = None
SPECIFICATION FairSpec
INVARIANTS TypeOK LoopsGoOn OwnPiecesInOrder PatientClientReadsInOrder
PROPERTY StayersAreAnswered
CHECK_DEADLOCK FALSE
