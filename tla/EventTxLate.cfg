SPECIFICATION FairSpec
CONSTANTS
  PayloadCount = 3
  CentralPayloads = 1
  MaxLate = 1
  None = None
PROPERTY
  LateTxDoneCommitsNothing
