SPECIFICATION FairDbgSpec
CONSTANTS
  FIFO = 2
  SKEW = 1
  FAULTS = 1
  CALLS = 2
  SCRIPTS = 2
  Bytes = {8}
  Noise = {0}
  Addrs = {65535}
  Roms <- MCRoms
  Prgs <- MCPrgs
  Texts <- MCTexts
  Outcomes = {"pass", "fail", "error", "lua"}
  PRGBANK = 4
  CHRBANK = 2
  BLOCK = 2
CHECK_DEADLOCK FALSE
INVARIANTS RomIsLoaded HaltIsKnown TallyIsExact
PROPERTIES LinkIsFaithful RawDialogIsFaithful CallsReturn
