SPECIFICATION CoreSpec
CONSTANTS
  WordMod = 16
  NREG = 3
  XLEN = 4
  IMEM_WORDS = 4
  XWord = 0
  ByteMod = 2
  DMEM_BASE = 0
  DMEM_WORDS = 4
  Alu <- AluFromTable
  MemRead <- Loaded
  MemWrite <- Stored
  Memories <- MCMemories
  Images <- MCTrapImages
  JunkWords <- MCJunk
  BusData <- MCBus
  UnknownControl <- MCZero
PROPERTIES
  HaltFreezesState
