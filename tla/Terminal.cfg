CONSTANTS
  NEVENTS = 3
  Used <- Unshifted
  MaxPresses = 4
  MaxKbd = 2
  NULL = NULL
  Ttys = {1, 2}
  SZ = 4
  NONE = NONE
SPECIFICATION Spec
INVARIANTS NoKeyForgotten EventsCounted LinesCounted
PROPERTIES ImplementsTerminal
CHECK_DEADLOCK FALSE
