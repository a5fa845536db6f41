CONSTANTS
  a1 = a1  a2 = a2  s1 = s1  s2 = s2  NoSource = NoSource  p1 = p1  p2 = p2
  Archives = {a1, a2}
  Sources = {s1}
  Paths = {p1, p2}
  Deletable = {p1}
  Matching = {s1}
  Sessioned = TRUE
  Listing <- GodotListing
SPECIFICATION ObserverSpec
INVARIANT SettingsAreSnapshot
PROPERTY HandlerLeavesNothing
SYMMETRY HandleSymmetry
CHECK_DEADLOCK FALSE
