SPECIFICATION FairVolSpec
CONSTANTS
  BODY = 2
  EXT = 1
  ENT = 4
  FATBYTES = 4
  FAT12MAX = 10
  FAT16MAX = 20
  IDS = 3
  Cards <- MCCards
  DIRNAME <- MCDir
  IMGEXT <- MCExt
  Absent <- MCAbsent
INVARIANTS MountIsCoherent ListingIsExact OpensTheNamedFile NoFalseRefusal
PROPERTIES WalksEnd
