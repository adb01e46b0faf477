SPECIFICATION FairSpec
CONSTANTS
  Credits = 3
  QueueCapacity = 2
  HostPackets = 4
  ControlPdus = 3
  CentralPackets = 2
  None = None
INVARIANTS
  NoAclDropped
  ControlExactlyOnce
PROPERTIES
  ChannelSpec
  FrameKeepsSequenceNumber
  AllCreditsReturned
