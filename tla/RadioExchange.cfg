SPECIFICATION FairSpec
CONSTANT None = None
INVARIANTS
  QuietBetweenOperations
  ReturnedPacketComplete
  CrcVerdictKept
  TransmittedWasSent
PROPERTIES
  OperationEnds
