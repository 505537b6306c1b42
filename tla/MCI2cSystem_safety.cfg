SPECIFICATION Spec
CONSTANTS
  TK_SLOTS = 4
  WDATA_SLOTS = 2
  PAST_END = 0
  I2C_BUF_COUNT = 2
  RING_CAPACITY = 2
  I2C_BUF_SZ = 512
  LATE_IRQ = FALSE
  BOOT_ADDR = {127, 255}
  Program <- TwoAndOne
INVARIANTS
  TypeOK
  NoBufferTwice
  NoBufferLost
  IrqMeetsRequest
  NoRequestForgotten
  NoPopDuringPush
  NoBusStuck
  OnlyBit7Stale
PROPERTIES
  OkMeansDone
  ErrorsReported
  ImplementsService
CHECK_DEADLOCK FALSE
