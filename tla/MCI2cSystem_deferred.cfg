SPECIFICATION Spec
CONSTANTS
  TK_SLOTS = 16
  WDATA_SLOTS = 8
  PAST_END = 0
  I2C_BUF_COUNT = 2
  RING_CAPACITY = 2
  I2C_BUF_SZ = 512
  LATE_IRQ = FALSE
  BOOT_ADDR = {0}
  Program <- testds3231
PROPERTIES
  DeferredStarts
CHECK_DEADLOCK FALSE
