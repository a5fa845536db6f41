CONSTANTS
  Block = 2
  Chunk = 4
  Size = 5
  Counts = {1, 2, 6}
  Foreign <- NotPlain
SPECIFICATION FairSpec
INVARIANTS WindowIsPlaintext
PROPERTIES ImplementsSource ReadEnds
