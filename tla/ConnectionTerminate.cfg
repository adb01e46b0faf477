SPECIFICATION FairSpec
CONSTANTS
  None = None
  EventModulus = 8
  ResponseTimeout = 2
  SupervisionTicks = 2
  InstantDeltas = {2}
  CentralOps = {"PING_REQ"}
PROPERTY
  TerminationAcknowledged
