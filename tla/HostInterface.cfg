SPECIFICATION FairSpec
CONSTANTS
  HostCapacity = 1
  EventCapacity = 2
  Credits = 1
  MaxLinks = 2
  EventMasks = {{}}
  LeEventMasks = {{"ConnectionComplete"}}
  None = None
INVARIANTS
  NoStaleAcl
  AnsweredExactlyOnce
  RefusalExplained
  CreditsConserved
PROPERTIES
  CommandAnswered
