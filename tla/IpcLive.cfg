CONSTANTS
  Task = {t1, t2, t3}
  Idle = idle
  First = t1
  TimeSlice = 2
  MaxSleep = 1
  Mutex = {m}
  Sem = {s}
  IrqSem = {s}
  NoTask = none
  SemInit <- AllZero
  MaxCount = 1
  MaxNest = 1
SPECIFICATION IpcFairSpec
PROPERTIES StarvationFree SleepersWake LockGranted
