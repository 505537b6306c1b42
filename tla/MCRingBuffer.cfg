SPECIFICATION Spec
CONSTANTS
  SIZE = 3
  IdxMod = 6
  Descs <- MCDescs
INVARIANTS
  TypeOK
  Copied
  NoSlotRace
PROPERTIES
  ImplementsFifo
