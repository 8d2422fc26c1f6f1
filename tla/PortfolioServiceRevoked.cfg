SPECIFICATION Spec
CONSTANTS
  k1 = k1
  k2 = k2
  NoKey = NoKey
  Keys <- MCKeys
  Budgets <- MCRevoked
PROPERTIES
  SuspensionIsTerminal
SYMMETRY MCSymmetry
CHECK_DEADLOCK FALSE
