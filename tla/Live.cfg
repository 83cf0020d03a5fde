SPECIFICATION Spec
CONSTANTS
  SECTOR_SIZE = 1
  ADDR_SIZE = 1
  READ_TIMER = 2
  WATCHDOG_TIME = 2
  POLL_CYCLES = 2
  Positions <- OneTrack
  Contents <- Distinct
  QUIRKS = {"eject"}
  HOST_GAP = 1
  RD_CYCLES = 4
  HostCommands = {0, 8, 10}
  HostTracks = {}
  HostSectors = {}
  HostUnits = {}
  HostBytes = {7}
INVARIANT NeverDead
PROPERTY CommandEnds
