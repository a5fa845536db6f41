CONSTANTS
  InputSizes = {150}
  MaxInput = 150
  MaxAllocation = 13
  MaxNodes = 5
  MaxString = 3
  MaxDepth = 2
  Headers <- MCHeaders
  Texts <- MCTexts
  Types <- MCTypes
  Counts = {0, 1, 2, 3}
  Offsets = {92, 151}
  Indexes = {0, 1}
  Widths = {8}
  Prefix = 1
  Cost <- MCCost
SPECIFICATION ResourceSpec
INVARIANT TreeIsPaidFor ReferencesResolve
CHECK_DEADLOCK FALSE
