CONSTANTS
  Name = {a, b}
  Handle = {h1, h2}
  RootEntCnt = 2
  ClusterTotal = 5
  ClusterSize = 2
  OpenMode <- ShellModes
  Exclusive = TRUE
  SeekAnywhere = TRUE
  CallSize = {1, 3}
  MaxSize = 4
SPECIFICATION FatFsSpec
INVARIANTS Positioned
