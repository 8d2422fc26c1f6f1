SPECIFICATION FairSpec
CONSTANTS
  k1 = k1
  k2 = k2
  NoKey = NoKey
  Keys <- MCKeys
  Budgets <- MCLivenessBudgets
PROPERTIES
  UnpairAnswers
CHECK_DEADLOCK FALSE
