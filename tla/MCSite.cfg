SPECIFICATION Spec
CONSTANTS
  Sites <- MCSites
  Release <- MCRelease
  NoSegment = NoSegment
  NoElevation = NoElevation
  NoSharing = NoSharing
CHECK_DEADLOCK FALSE
INVARIANTS
  SharedElementsCountedOnce
