SPECIFICATION Spec
CONSTANTS
  SECTOR_SIZE = 1
  ADDR_SIZE = 1
  READ_TIMER = 2
  WATCHDOG_TIME = 2
  POLL_CYCLES = 2
  Positions <- OneTrack
  Contents <- Distinct
  QUIRKS = {"abort", "impolite"}
  HOST_GAP = 1
  RD_CYCLES = 2
  HostCommands = {8}
  HostTracks = {}
  HostSectors = {}
  HostUnits = {}
  HostBytes = {}
PROPERTIES AbortEnds DeathIsNoticed
