SPECIFICATION FairSpec
CONSTANTS
  FIFO_CAPACITY = 2
  MaxBytes = 4
  MaxBuffer = 3
  None = None
INVARIANTS
  FlushMeansSent
PROPERTIES
  ReadsInOrder
  WritesInOrder
  CallReturns
  ErrorsEnd
