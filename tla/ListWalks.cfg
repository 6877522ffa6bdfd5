SPECIFICATION FairSpec
CONSTANTS
  None = None
  Names <- WalkNames
  Busy <- WalkBusy
  Populations <- WalkPopulations
  Sidecars <- WalkSidecars
  Foreign = 1
  Requests <- WalkRequests
  DefaultPage = 2
  PageFactor = 1
  UsizeMod = 1000
INVARIANTS
  TypeOK
  ListComplete
  WalkComplete
  WalkInOrder
  ListSound
PROPERTIES
  WalkEnds
CHECK_DEADLOCK FALSE
