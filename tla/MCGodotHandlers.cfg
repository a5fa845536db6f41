CONSTANTS
  plain = plain  texture = texture  audio = audio  cipher = cipher  sealed = sealed
  album = album  forged = forged  map = map
  Rows = {plain, texture, audio, cipher, sealed, album, forged, map}
  Row <- SmallRows
SPECIFICATION FairSpec
INVARIANTS OnlyVerifiedIsWritten ProgressIsHonest WritesArePolled HandlersDeliver PlainRowsRecover
PROPERTY HandlerEnds
