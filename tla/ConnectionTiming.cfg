SPECIFICATION Spec
CONSTANTS
  EventModulus = 12
  Channels = 5
  Requests <- MCRequests
  Updates <- MCUpdates
  Maps <- MCMaps
  InstantDeltas = {1, 3}
  None = None
INVARIANTS
  HopInStep
  WindowCoversCentral
  SkipsOnlyPastEvents
