CONSTANTS
  k1 = k1  k2 = k2  k3 = k3  NoKey = NoKey
  Keys = {k1, k2, k3}
  Surroundings <- SmallSurroundings
  MaxValidation = 3
  MaxExecutables = 2
  MaxRecovered = 2
SPECIFICATION FairSpec
INVARIANTS OpenIsReadable RecoveredKeyIsUnique BudgetsHold GoodPasswordOpens
PROPERTY OpeningEnds
CHECK_DEADLOCK FALSE
