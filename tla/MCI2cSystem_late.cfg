SPECIFICATION Spec
CONSTANTS
  TK_SLOTS = 4
  WDATA_SLOTS = 2
  PAST_END = 0
  I2C_BUF_COUNT = 2
  RING_CAPACITY = 2
  I2C_BUF_SZ = 512
  LATE_IRQ = TRUE
  BOOT_ADDR = {0}
  Program <- Five
INVARIANTS
  NoBufferTwice
  NoBufferLost
  NoRequestForgotten
CHECK_DEADLOCK FALSE
