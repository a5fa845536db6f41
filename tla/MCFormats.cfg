CONSTANTS
  Word = 1024
  FileSizes = {3, 10, 300}
  Shifts = {0, 7}
  Numbers = {0, 41, 200, 1000}
  Versions = {1, 2, 3, 5}
  Counts = {0, 1, 2, 4}
  RawNames <- MCRawNames
  MaxPath = 4
  MaxEntries = 2
  EntryCost = 20
  MaxIndexBytes = 45
  Chunk = 16
  InChunk = 2
  OutChunk = 2
  PaddedBytes = 2
  Containers <- MCContainers
  Requests <- MCRequests
  Batch = 2
  MaxBlock = 4
  Lengths = {0, 1, 2, 3, 4, 5, 6, 7, 8, 9, 10, 11, 12, 13, 14, 15, 16, 17, 18}
  Expected = {3, 16, 20, 300}
  MinOutput = 16
  Literals = {1, 4, 9, 32}
  Matches <- MCMatches
  Levels = {1, 2}
  NodeBound = 4
  MarkBound = 1
  MaxDepth = 3
  Scalars = {"none"}
  Strings = {"k"}
  MemoIds = {0}
  SourceSizes = {20, 40, 50}
  FieldValues <- MCFieldValues
  NameLengths = {0, 1, 2, 3}
  MaxNameBytes = 2
  MaxRows = 3
  ChunkBytes = 4
  Budget = 12
  Pieces = {0, 5}
  Roots <- MCRoots
  Indexes <- MCIndexes
  MaxBody = 5
  MaxInput = 14
  MaxOwned = 7
  PeakFactor = 2
  Ceiling = 1
  Slot = 1
  MaxClone = 1
  Unsigned = 1024
  MetadataPaths <- MCMetadataPaths
  Texts <- MCTexts
  Variants = {"", "s3tc"}
  Escapes = {8, 55296, 57343, 1114112}
  MaxMappings = 2
  MaxNesting = 2
  Executables <- MCExecutables
  Visited = 3
  KeyAt <- MCKeyAt
  PointerAt <- MCPointerAt
  KeyBytes = 2
  PointerBytes = 1
  HeaderCost = 1
  MaxScanned = 42
  MaxInstructions = 25
  MaxCandidates = 4
  MaxWindow = 5
  MaxKeys = 3
  MaxGlobals = 1
  Before = 1
SPECIFICATION FormatsSpec
INVARIANTS DirectoryIsSound BudgetCoversIndex ReadsAreExact ReadingsAgree DepthIsExact
INVARIANTS ListingsAreSound KeysFollowTheBytes AliasSetIsSound MetadataIsSound RecoveryIsSound
CHECK_DEADLOCK FALSE
