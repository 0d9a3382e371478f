CONSTANTS
  Task = {p1, p2}
  Watched = {p1}
  NoTask = none
  Mutex = {console, channel}
  Console = console
  Channel = channel
  Sem = {osem, isem, opsem}
  OSem = osem
  ISem = isem
  OpSem = opsem
  SemInit <- Counts
  OSize = 3
  ISize = 1
  MaxWrite = 2
  MaxRead = 2
  MaxLost = 1
  Size = 4
  Char = {a, b}
  Start = 1
  Total = 2
  Data = {0, 1}
  MaxSize = 2
SPECIFICATION DriversSpec
INVARIANTS RingsAccounted Flushed TransfersExact
PROPERTIES ShownInOrder ImplementsQueue CallsReturn
