SPECIFICATION FairSpec
CONSTANTS
  Cells = 16
  Exposed = 4
  Capacity = 8
  EraseSize = 4
  PageSize = 4
  Scratch = 3
  Word = 16
  Offsets = {0, 3, 4, 8, 15}
  Lengths = {0, 2, 6}
  Patterns <- MCPatterns
  BootConfigs = {{}, {0}}
  None = None
INVARIANTS
  InterfaceReleased
  OkMeansDone
  FailureLeavesPrefix
PROPERTIES
  NeighboursUntouched
  CallReturns
