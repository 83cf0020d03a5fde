SPECIFICATION Spec
CONSTANTS
  SECTOR_SIZE = 2
  ADDR_SIZE = 2
  READ_TIMER = 0
  WATCHDOG_TIME = 3
  POLL_CYCLES = 2
  Positions <- TwoTracks
  Contents <- Distinct
  QUIRKS = {}
  HOST_GAP = 1
  RD_CYCLES = 1
  HostCommands = {7, 10, 12}
  HostTracks = {1}
  HostSectors = {}
  HostUnits = {1, 4}
  HostBytes = {7}
CONSTRAINT NearTrackZero
INVARIANTS JobIsServed
PROPERTIES TrackRegisterFollowsHead
