CONSTANTS
  t1 = t1
  t2 = t2
  t3 = t3
  t4 = t4
  Task = {t1, t2, t3}
  Idle = idle
  First = t1
  TimeSlice = 1
  MaxSleep = 1
  Mutex = {table}
  Sem = {}
  IrqSem = {}
  NoTask = none
  SemInit <- AllZero
  MaxCount = 0
  MaxNest = 1
  Table <- Table2
  TableMutex = table
  ForksOverlap = FALSE
SPECIFICATION LifecycleFairSpec
PROPERTY WaitReturns
