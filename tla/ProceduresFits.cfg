CONSTANTS
  Params <- MCParams
  Nows <- MCNows
SPECIFICATION Spec
INVARIANTS CoolDownFits
CHECK_DEADLOCK FALSE
