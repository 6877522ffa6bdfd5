SPECIFICATION Spec
CONSTANTS
  None = None
  Names <- WideNames
  Busy <- Nothing
  Populations <- WidePopulation
  Sidecars <- NoSidecars
  Foreign = 0
  Requests <- WideRequests
  DefaultPage = 2
  PageFactor = 1
  UsizeMod = 1000
INVARIANTS
  WalkComplete
CHECK_DEADLOCK FALSE
