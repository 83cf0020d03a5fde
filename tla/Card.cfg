SPECIFICATION MmcSpec
CONSTANTS
  READY_TICKS = 1
  TOKEN_TICKS = 1
  INIT_TICKS = 2
  MAX_COUNT = 2
INVARIANTS WriteIsHonest ReadIsGenuine
PROPERTIES AddressUnitFits EveryCallReturns
