SPECIFICATION FileSpec
CONSTANTS
  SECT = 2
  FDD_SECTOR = 4
  NSECTORS = 2
  ADDRESSES = 64
  FATBASE = 1
  ENTRIES = 4
  DIRBASE = 5
  DATABASE = 7
  Cards <- MCCards
  Tracks = {0, 1}
  Sectors = {0, 1, 2, 3}
INVARIANTS TransferIsExact StaysInFile NoSpuriousError
