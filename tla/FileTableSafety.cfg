CONSTANTS
  Task = {p1, p2, p3}
  FirstTask = p1
  NoTask = none
  Mutex = {alloc, fat}
  AllocMutex = alloc
  FatMutex = fat
  Sem = {}
  SemInit <- AllZero
  NrFile = 2
  NrFd = 2
  NoFile = nofile
  Dev = {tty}
  FdZeroKept = TRUE
  ClosesApart = TRUE
SYMMETRY Symmetry
SPECIFICATION FileTableSpec
INVARIANTS RefNeverBelowZero RefIsOpenCount SlotsAgree
PROPERTIES ClosedByLast
