CONSTANTS
  Proc = {p1, p2}
  First = p1
  NrPage = 13
  NrPde = 2
  NrPte = 2
  PageSize = 2
  ImageSize = {1, 3}
  Incr = {1, 2}
  MaxHeap = 4
SPECIFICATION MemorySpec
INVARIANTS MemoryTypeOK PagesAccounted 
PROPERTIES ChildComplete
CHECK_DEADLOCK FALSE
