SPECIFICATION Spec
CONSTANTS
  SECTOR_SIZE = 2
  ADDR_SIZE = 1
  READ_TIMER = 2
  WATCHDOG_TIME = 5
  POLL_CYCLES = 2
  Positions <- OneTrack
  Contents <- Distinct
  QUIRKS = {}
  HOST_GAP = 1
  RD_CYCLES = 4
  HostCommands = {0, 8, 10}
  HostTracks = {}
  HostSectors = {1, 2}
  HostUnits = {}
  HostBytes = {7}
INVARIANTS SectorIsRead BufferExclusive WriteIsStored
PROPERTIES ImageChangesOnlyByJob
