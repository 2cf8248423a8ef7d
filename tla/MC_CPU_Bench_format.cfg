SPECIFICATION BenchSpec
CONSTANTS
  WordMod = 16
  NREG = 3
  XLEN = 4
  IMEM_WORDS = 4
  XWord = 0
  ByteMod = 2
  DMEM_BASE = 4
  DMEM_WORDS = 2
  MMIO_BASE = 12
  Alu <- AluFromTable
  Memories <- MCMemories
  Images <- MCLoadImages
  JunkWords <- MCJunk
  BusData <- MCBus
  UnknownControl <- MCZero
INVARIANTS
  LoadsFormatted
