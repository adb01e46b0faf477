SPECIFICATION FairSpec
CONSTANTS
  None = None
  EventModulus = 8
  ResponseTimeout = 2
  SupervisionTicks = 2
  InstantDeltas = {0, 2, 3}
  CentralOps = {"UPDATE_IND", "CHANNEL_MAP_IND", "TERMINATE_IND", "UNKNOWN_RSP",
    "REJECT_EXT_IND", "PING_REQ", "PARAM_REQ", "PARAM_RSP", "UNSUPPORTED"}
INVARIANTS
  NoOrphanProcedure
  InstantNeverMissed
  NoInstantOverlap
  UpdateAnswered
PROPERTIES
  DeadlineNeverRestarted
  DisconnectEnds
  UpdateEnds
