\* Two operators with neighbouring roots, or with stores they may share.
SPECIFICATION Spec
CONSTANTS
  None = None
  Unbuilt = Unbuilt
  ConfigInvalid = ConfigInvalid
  o1 = o1
  o2 = o2
  Operators = {o1, o2}
  Configs <- MCConfigs
  FilePaths <- MCFiles
  DirPaths <- MCDirs
  Batches <- MCBatches
INVARIANT TypeOK
PROPERTIES Isolation DeletesSubtrees
CHECK_DEADLOCK FALSE
