SPECIFICATION BoardSpec
CONSTANTS
  WordMod = 16
  NREG = 3
  XLEN = 4
  IMEM_WORDS = 4
  XWord = 0
  ByteMod = 2
  DMEM_BASE = 4
  DMEM_WORDS = 2
  MMIO_BASE = 12
  SWITCHES_ADDR = 12
  LEDS_ADDR = 13
  SSEG_ADDR = 14
  BUTTONS_ADDR = 15
  DeviceMod = 8
  SwitchWords <- MCSwitches
  ButtonWords <- MCButtons
  Alu <- AluFromTable
  Memories <- MCMemories
  Images <- MCImages
  JunkWords <- MCJunk
  BusData <- MCBus
  UnknownControl <- MCZero
PROPERTIES
  LoadKeepsItsWord
