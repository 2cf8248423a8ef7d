SPECIFICATION Spec
CONSTANTS
  WordMod = 16
  NREG = 3
  XLEN = 4
  IMEM_WORDS = 4
  XWord = 0
  Alu <- AluFromTable
  Images <- MCImages
  JunkWords <- MCJunk
  BusData <- MCBus
  UnknownControl <- MCUnknown
INVARIANTS
  TypeOK
  WriteBackCoherent
  LinkNotForwarded
  FrozenSpacing
  OperandsCurrent
PROPERTIES
  StallLastsOneCycle
  ResetRestarts
