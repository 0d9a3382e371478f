CONSTANTS
  Task = {p1, p2}
  FirstTask = p1
  NoTask = none
  Mutex = {alloc, fat}
  AllocMutex = alloc
  FatMutex = fat
  Sem = {}
  SemInit <- AllZero
  NrFile = 2
  NrFd = 2
  NoFile = nofile
  Dev = {tty}
  FdZeroKept = TRUE
  ClosesApart = FALSE
SPECIFICATION FileTableSpec
INVARIANT RefIsOpenCount
