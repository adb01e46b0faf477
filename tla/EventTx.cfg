SPECIFICATION FairSpec
CONSTANTS
  PayloadCount = 4
  CentralPayloads = 2
  MaxLate = 1
  None = None
INVARIANTS
  PayloadsExactlyOnce
  CentralDataExactlyOnce
  SelectNeverFails
  MoreDataPromiseExact
PROPERTIES
  AllPayloadsReleased
