SPECIFICATION Spec
CONSTANTS
  BootPads <- MCBootPads
  Faults <- MCFaults
  BootIfs <- MCBootIfs
  Batches <- MCBatches
  Addresses <- MCAddresses
  Statuses <- MCStatuses
INVARIANTS
  TypeOK
  FailuresTold
  OthersKept
  ConfigKept
  DumpShowsBatch
