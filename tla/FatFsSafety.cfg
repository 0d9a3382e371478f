CONSTANTS
  Name = {a, b}
  Handle = {h1, h2}
  RootEntCnt = 2
  ClusterTotal = 5
  ClusterSize = 2
  OpenMode <- ShellModes
  Exclusive = TRUE
  SeekAnywhere = FALSE
  CallSize = {1, 3}
  MaxSize = 3
SYMMETRY Symmetry
SPECIFICATION FatFsSpec
INVARIANTS CacheHonest ClustersOwned Positioned ReadsBack
