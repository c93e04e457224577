SPECIFICATION Spec
CONSTANTS
  a = a
  ab = ab
  x = x
  p1 = p1
  p2 = p2
  CLUSTER_MAP_SIZE = 5
  CLUSTER_SIZE = 2
  ENTRY_COUNT = 3
  Names <- MCNames
  NamePrefix <- MCNamePrefix
  Exts = {x}
  NoName = NoName
  NoExt = NoExt
  RootName = RootName
  Garbled = Garbled
  Payloads <- MCPayloads
  RequestSizes = {0, 1, 3}
  BufferSizes = {3, 4}
  MaxFileSize = 4
  StrayClusters = {5}
  StrayWords = {0}
  BlockTables <- MCBlockTables
  NoTable = NoTable
  NoBlock = NoBlock
  NoRequest = NoRequest
  Nobody = Nobody
  MaxCrashes = 0
  CrashDuringFormat = TRUE
CONSTRAINT Tame
SYMMETRY PayloadSymmetry
INVARIANTS
  TypeOK
  FoldersNameThemselves
  LookupFindsFile
  NoLeak
  NoOrphans
