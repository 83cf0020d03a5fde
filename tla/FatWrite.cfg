SPECIFICATION FatSpec
CONSTANTS
  UNIT = 2
  FATENT = 3
  DIRENT = 3
  CLUSTERS = 4
  Sizes = {1, 2}
  CALLS = 5
  Faults = {"write"}
  ACCESSES = 5
  Paths <- MCPaths
  Renames <- MCRenames
  Writes = {1, 3}
  Stretch = {0, 2}
  Setups <- MCSetups
CHECK_DEADLOCK FALSE
INVARIANTS VolumeIsSound SavedIsSafe SpaceIsAccounted
