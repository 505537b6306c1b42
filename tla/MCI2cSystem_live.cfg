SPECIFICATION LiveSpec
CONSTANTS
  TK_SLOTS = 4
  WDATA_SLOTS = 2
  PAST_END = 0
  I2C_BUF_COUNT = 1
  RING_CAPACITY = 1
  I2C_BUF_SZ = 512
  LATE_IRQ = FALSE
  BOOT_ADDR = {0}
  Program <- OneEach
PROPERTIES
  ReturnsCollected
  AllAnswered
CHECK_DEADLOCK FALSE
