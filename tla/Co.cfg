CONSTANTS
  MAX_CO = 4
  NOCO = NOCO
SPECIFICATION CoFairSpec
INVARIANTS JumpsLand HandleIsChild
PROPERTIES WaitEnds
