CONSTANTS
  Task = {t1, t2, t3}
  Idle = idle
  First = t1
  TimeSlice = 2
  MaxSleep = 2
  Mutex = {m1, m2}
  Sem = {s}
  IrqSem = {s}
  NoTask = none
  SemInit <- AllOne
  MaxCount = 1
  MaxNest = 2
SYMMETRY Symmetry
SPECIFICATION IpcSpec
INVARIANTS TypeOK ListsSound LocksCoherent
PROPERTIES NoBarging RoundRobin WakeInOrder ImplementsSync
