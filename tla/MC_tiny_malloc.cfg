SPECIFICATION Spec
CONSTANTS
  WordMod = 512
  malloc_start = 4
  Limits = {60, 92}
  Requests = {1, 5}
  Alignments = {0, 8, 16}
  PAGE_ALIGN = 32
  MaxLive = 3
  MaxEnd = 64
INVARIANTS
  HeapTiled
  UsedIsHeld
  FreelistCoalesced
  FitsRequest
  FailsForWantOfSpace
PROPERTIES
  GapKept
