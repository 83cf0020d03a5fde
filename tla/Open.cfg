SPECIFICATION OpenSpec
CONSTANTS
  SECTOR_SIZE = 2
  ADDR_SIZE = 1
  READ_TIMER = 0
  WATCHDOG_TIME = 1
  OpenAccesses <- AnyAccess
  OpenStatuses <- AnyStatus
INVARIANTS OpenTypeOK TransferInStep BusyWhileWorking
