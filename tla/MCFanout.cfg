SPECIFICATION FairSpec
CONSTANTS
  Channels = {org, user}
  MaxConsumers = 3
  Positions = {p1}
  Live = Live
  None = None
  MaxDepth = 4
CHECK_DEADLOCK FALSE
INVARIANTS
  FanoutInv
  OnlyGhostsLeak
PROPERTIES
  NobodyIsCutOff
  ImplementsContract
