SPECIFICATION Spec
CONSTANTS
  None = None
  Names <- SelfNames
  Busy <- Nothing
  Populations <- SelfPopulation
  Sidecars <- NoSidecars
  Foreign = 0
  Requests <- SelfRequests
  DefaultPage = 2
  PageFactor = 1
  UsizeMod = 1000
INVARIANTS
  ListComplete
CHECK_DEADLOCK FALSE
