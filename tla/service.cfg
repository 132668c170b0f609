SPECIFICATION ServiceFairSpec
CONSTANTS
  NUM_RANKS = 1  NUM_BANKS = 2  NUM_ROWS = 2  NUM_COLS = 1
  CL = 2  AL = 0  BL = 4
  tRAS = 4  tRCD = 3  tRRD = 2  tRC = 6  tRP = 2  tCCD = 2  tRTP = 2  tWTR = 1
  tWR = 1  tRTRS = 1  tRFC = 3  tFAW = 4  tCKE = 2  tXP = 2  tCMD = 1
  REFRESH_CYCLES = 20
  CMD_QUEUE_DEPTH = 4  TRANS_QUEUE_DEPTH = 1  TOTAL_ROW_ACCESSES = 3
  ClosePage = FALSE  PerRank = TRUE
  SchedulingPolicy = "RankThenBankRoundRobin"
  USE_LOW_POWER = TRUE  isSmartMRAM = FALSE
  MAX_PENDING = 1  MAX_ACCEPTED = 3  Live = TRUE
  OFFERED <- SharedLine
PROPERTIES
  ImplementsService
  EveryRequestAnswered
