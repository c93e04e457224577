SPECIFICATION Spec
CONSTANTS
  a = a
  ab = ab
  x = x
  p1 = p1
  p2 = p2
  CLUSTER_MAP_SIZE = 7
  CLUSTER_SIZE = 2
  ENTRY_COUNT = 3
  Names <- MCNames
  NamePrefix <- MCNamePrefix
  Exts = {x}
  NoName = NoName
  NoExt = NoExt
  RootName = RootName
  Garbled = Garbled
  Payloads <- MCPayloads
  RequestSizes = {1, 3, 5}
  BufferSizes = {6}
  MaxFileSize = 5
  StrayClusters = {7}
  StrayWords = {0}
  BlockTables <- MCBlockTables
  NoTable = NoTable
  NoBlock = NoBlock
  NoRequest = NoRequest
  Nobody = Nobody
  MaxCrashes = 0
  CrashDuringFormat = TRUE
CONSTRAINT Tame
SYMMETRY PayloadSymmetry
INVARIANTS
  ChainsIntact
  ReadFaithful
