SPECIFICATION Spec
CONSTANTS
  LFSR_BITS = 2
  Entropies = {0, 1, 2}
  Contents = {0, 1}
  UserPages = {1, 2}
INVARIANTS
  AssertionsHold
  FramesExclusive
  FlatMemory
  WrittenBack
PROPERTIES
  AccessCompletes
