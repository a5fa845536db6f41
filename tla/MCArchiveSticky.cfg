CONSTANTS
  a1 = a1  s1 = s1  s2 = s2  NoSource = NoSource  p1 = p1  p2 = p2
  Archives = {a1}
  Sources = {s1, s2}
  Paths = {p1, p2}
  Deletable = {p1}
  Matching = {s1}
  Sessioned = FALSE
  Listing <- RawListing
SPECIFICATION Spec
INVARIANT ReadFailureIsItsOwn
CHECK_DEADLOCK FALSE
