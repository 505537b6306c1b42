SPECIFICATION Spec
CONSTANTS
  TK_SLOTS = 4
  WDATA_SLOTS = 2
  PAST_END = 255
  MORE_OPS = 4
  MORE_BYTES = 5
  Requests <- MCRequests
  AnyBytes <- MCAnyBytes
INVARIANTS
  WireIsRequest
  BatchIsComplete
  BatchBound
  PastEndOnlyLast
PROPERTIES
  EveryBatchProgresses
CHECK_DEADLOCK FALSE
