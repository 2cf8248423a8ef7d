SPECIFICATION Spec
CONSTANTS
  NCORES = 2
  LDA = 32
  DATA_SIZE = 1000
  Rounds = 3
INVARIANTS
  SoundAtStart
  BarrierTogether
  CopiesReady
  RaceFree
  VerifiedIsComplete
PROPERTIES
  AllFinish
