SPECIFICATION ShellSpec
CONSTANTS
  file = file
  longer = longer
  big = big
  dir = dir
  sub = sub
  plain = plain
  x = x
  y = y
  p0 = p0
  p1 = p1
  p2 = p2
  CLUSTER_MAP_SIZE = 11
  CLUSTER_SIZE = 1
  ENTRY_COUNT = 5
  Names <- MCNames
  NamePrefix <- MCNamePrefix
  Exts = {x, y}
  NoName = NoName
  NoExt = NoExt
  RootName = RootName
  Garbled = Garbled
  Payloads = {p0, p1, p2}
  RequestSizes = {}
  BufferSizes = {}
  MaxFileSize = 4
  StrayClusters = {11}
  StrayWords = {0}
  BlockTables = {}
  NoTable = NoTable
  NoBlock = NoBlock
  NoRequest = NoRequest
  Nobody = Nobody
  MaxCrashes = 0
  CrashDuringFormat = FALSE
  BUFFER_CLUSTERS = 2
  NameLength <- MCNameLength
  GarbledExt = y
  Zeros = p0
  LongTexts = {p2}
  Files <- MCFiles
  Commands <- MCCommands
  NoCommand = NoCommand
  MaxDepth = 2
  MaxChanges = 3
CONSTRAINT InBounds
INVARIANT BootSectorKept
