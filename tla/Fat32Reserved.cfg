SPECIFICATION Spec
CONSTANTS
  a = a
  ab = ab
  x = x
  p1 = p1
  p2 = p2
  CLUSTER_MAP_SIZE = 6
  CLUSTER_SIZE = 2
  ENTRY_COUNT = 2
  Names <- MCNames
  NamePrefix <- MCNamePrefix
  Exts = {x}
  NoName = NoName
  NoExt = NoExt
  RootName = RootName
  Garbled = Garbled
  Payloads = {p1}
  RequestSizes = {1, 5}
  BufferSizes = {3}
  MaxFileSize = 6
  StrayClusters = {6}
  StrayWords = {0}
  BlockTables <- MCBlockTables
  NoTable = NoTable
  NoBlock = NoBlock
  NoRequest = NoRequest
  Nobody = Nobody
  MaxCrashes = 0
  CrashDuringFormat = TRUE
INVARIANT ReservedWordsIntact
