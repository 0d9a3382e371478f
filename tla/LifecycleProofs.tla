---------------------------- MODULE LifecycleProofs ----------------------------
(****************************************************************************)
(* The safety properties of Lifecycle, proved for any number of processes   *)
(* and any table, under the assumption that two forks are not between       *)
(* alloc_task and task_init at once (~ ForksOverlap): without it the run    *)
(* fork_race shows that the properties fail.                                *)
(*                                                                          *)
(* The inductive invariant LInv says who holds task_table_mutex and who     *)
(* waits for it (LockShape, AtTable), that a task is in the lists of the    *)
(* scheduler, in the queue of the mutex, or in a state that says why it is  *)
(* in neither (Places), what sys_fork may rely on of the slot it has found  *)
(* (Forks), and how far sys_exit has come in handing over the children of   *)
(* the caller (Families).                                                   *)
(****************************************************************************)
EXTENDS Lifecycle, SchedulerProofs, WellFoundedInduction

\* A task in one of these states is in no list.
Passive == {"CREATED", "WAITTING", "ZOMBIE"}

\* The scheduler invariant when slots may be free: the slice of a free slot is
\* zero, so only tasks that may run are asked for a positive one.
Placed(k) ==
  /\ WellFormed(k) /\ SleepersPositive(k)
  /\ k.slice[Idle] \in 1..TimeSlice
  /\ \A t \in Listed(k) : k.state[t] \notin Passive /\ k.slice[t] \in 1..TimeSlice

-----------------------------------------------------------------------------
Owner   == mutex[TableMutex].owner
Queue   == waiters[TableMutex]
Inside  == {t \in Task : t = Owner \/ t \in ToSet(Queue)}
Present == Listed(os) \cup ToSet(Queue)

\* Nothing but task_table_mutex is used, and it is never nested.
LockShape ==
  /\ \A m \in Mutex \ {TableMutex} : mutex[m].owner = NoTask
  /\ \A q \in WaitList \ {TableMutex} : waiters[q] = <<>>
  /\ mutex[TableMutex].count = IF Owner = NoTask THEN 0 ELSE 1
  /\ Owner = NoTask => Queue = <<>>
  /\ NoRepeat(Queue) /\ Owner \notin ToSet(Queue)

\* The labels between mutex_lock and mutex_unlock of task_table_mutex.
TableLabel == {"fork_scan", "fork_unlock", "wait_scan", "wait_return", "exit_scan"}
AtTable(t) == pc[t] \in TableLabel

\* A task is in the scheduler's lists, or in the queue of the mutex, or its
\* state says why it is in neither.
InPlace(t) ==
  /\ os.state[t] \notin Passive <=> t \in Present
  /\ pc[t] = "dead" <=> os.state[t] \in {"CREATED", "ZOMBIE"}
  /\ os.state[t] = "WAITTING" => pc[t] = "wait_lock"
  /\ t \in named => os.slice[t] \in 1..TimeSlice
  /\ t \notin named => os.state[t] = "CREATED"

Places ==
  /\ Placed(os) /\ CurrentIsFirst
  /\ ToSet(Queue) \cap Listed(os) = {}
  /\ \A t \in Task : InPlace(t)

\* What sys_fork knows of the slot it has found.
ForkLabel == {"fork_unlock", "fork_init", "fork_link", "fork_start"}
ForkOK(t) ==
  /\ pc[t] \notin ForkLabel => child[t] = NoTask
  /\ pc[t] = "fork_unlock" => child[t] \in (Slot \ named) \cup {NoTask}
  /\ pc[t] = "fork_init" => child[t] \in Slot \ named
  /\ pc[t] \in {"fork_link", "fork_start"} =>
       child[t] \in Slot \cap named /\ os.state[child[t]] = "CREATED"
  /\ pc[t] = "fork_start" => parent[child[t]] = t

Forks ==
  /\ \A t \in Task : ForkOK(t)
  /\ \A t, u \in Task : InAlloc(t) /\ InAlloc(u) => t = u
  /\ SlotNotShared

\* What sys_exit has done of the handing over, and who has a parent.
Families ==
  /\ \A t \in Task : parent[t] # NoTask => t \in Slot /\ pc[parent[t]] # "dead"
  /\ \A t \in Task \ {First} : pc[t] # "dead" => parent[t] # NoTask
  /\ pc[First] \notin {"dead", "exit_scan", "exit_end"}
  /\ \A t \in Task : pc[t] = "exit_scan" =>
       \A i \in 1..(at[t] - 1) : parent[Table[i]] # t
  /\ \A t \in Task : pc[t] = "exit_end" => \A u \in Task : parent[u] # t

LInv ==
  /\ LifecycleTypeOK /\ LockShape
  /\ \A t \in Task : AtTable(t) <=> t \in Inside
  /\ Places /\ Forks /\ Families

-----------------------------------------------------------------------------
(* What may change of the tasks outside S: a state that keeps a task out of *)
(* the lists stays as it is, and the slice stays positive.                  *)
Kept(k, n, S) ==
  \A t \in Task \ S :
    /\ n.state[t] = k.state[t] \/ {n.state[t], k.state[t]} \cap Passive = {}
    /\ k.slice[t] \in 1..TimeSlice => n.slice[t] \in 1..TimeSlice

(* A task that may run is linked at the end of the ready list.              *)
LEMMA SetReadyPlaced ==
  ASSUME NEW k, Placed(k), NEW t \in Task, t \notin Listed(k),
         k.slice[t] \in 1..TimeSlice
  PROVE  LET n == task_set_ready(k, t)
         IN /\ Placed(n) /\ Listed(n) = Listed(k) \cup {t}
            /\ n.curr = k.curr /\ n.ready = Append(k.ready, t)
            /\ n.slice = k.slice
            /\ n.state = [k.state EXCEPT ![t] = "READY"]
<1> DEFINE n == task_set_ready(k, t)
<1>1. /\ WellFormed(n) /\ n.curr = k.curr
      /\ n.ready = Append(k.ready, t)
      /\ ToSet(n.ready) = ToSet(k.ready) \cup {t}
      /\ n.asleep = k.asleep /\ n.slice = k.slice
      /\ n.sleepTicks = k.sleepTicks
      /\ n.state = [k.state EXCEPT ![t] = "READY"]
  BY SetReadyEffect DEF Placed
<1> HIDE DEF n
<1>2. k.state \in [Task \cup {Idle} -> TaskState]
  BY DEF Placed, WellFormed, Scheduling
<1>3. Listed(n) = Listed(k) \cup {t}
  BY <1>1 DEF Listed
<1>4. SleepersPositive(n)
  BY <1>1 DEF Placed, SleepersPositive
<1>5. \A u \in Listed(n) : n.state[u] \notin Passive /\ n.slice[u] \in 1..TimeSlice
  <2> SUFFICES ASSUME NEW u \in Listed(n)
               PROVE  n.state[u] \notin Passive /\ n.slice[u] \in 1..TimeSlice
    OBVIOUS
  <2>1. CASE u = t
    BY <1>1, <1>2, <2>1 DEF Passive
  <2>2. CASE u # t
    BY <1>1, <1>2, <1>3, <2>2 DEF Placed
  <2> QED
    BY <2>1, <2>2
<1> QED
  BY <1>1, <1>3, <1>4, <1>5 DEF Placed, n

(* A ready task is unlinked; its state is not written.                      *)
LEMMA SetBlockPlaced ==
  ASSUME NEW k, Placed(k), NEW t \in ToSet(k.ready)
  PROVE  LET n == task_set_block(k, t)
         IN /\ Placed(n) /\ Listed(n) = Listed(k) \ {t}
            /\ n.curr = k.curr /\ n.slice = k.slice /\ n.state = k.state
            /\ t \in Task
<1> DEFINE n == task_set_block(k, t)
<1>1. /\ WellFormed(n) /\ n.curr = k.curr
      /\ ToSet(n.ready) = ToSet(k.ready) \ {t}
      /\ n.asleep = k.asleep /\ n.slice = k.slice
      /\ n.sleepTicks = k.sleepTicks /\ n.state = k.state
  BY SetBlockEffect DEF Placed
<1> HIDE DEF n
<1>2. t \in Task /\ t \notin ToSet(k.asleep)
  BY ListedAreTasks DEF Placed, WellFormed, Scheduling
<1>3. Listed(n) = Listed(k) \ {t}
  BY <1>1, <1>2 DEF Listed
<1>4. SleepersPositive(n)
  BY <1>1 DEF Placed, SleepersPositive
<1> QED
  BY <1>1, <1>2, <1>3, <1>4 DEF Placed, n

(* A task in no list is linked into the sleep list.                         *)
LEMMA SetSleepPlaced ==
  ASSUME NEW k, Placed(k), NEW t \in Task, t \notin Listed(k),
         k.slice[t] \in 1..TimeSlice, NEW d \in 1..MaxSleep
  PROVE  LET n == task_set_sleep(k, t, d)
         IN /\ Placed(n) /\ Listed(n) = Listed(k) \cup {t}
            /\ n.curr = k.curr /\ n.slice = k.slice
            /\ n.state = [k.state EXCEPT ![t] = "SLEEP"]
<1> DEFINE n == task_set_sleep(k, t, d)
<1>1. d \in Nat \ {0}
  BY SchedulerAssumption
<1>2. /\ WellFormed(n) /\ n.curr = k.curr
      /\ ToSet(n.asleep) = ToSet(k.asleep) \cup {t}
      /\ n.ready = k.ready /\ n.slice = k.slice
      /\ n.sleepTicks = [k.sleepTicks EXCEPT ![t] = d]
      /\ n.state = [k.state EXCEPT ![t] = "SLEEP"]
  <2>1. WellFormed(k)
    BY DEF Placed
  <2> QED
    BY <1>1, <2>1, SetSleepEffect, SMTT(20)
<1> HIDE DEF n
<1>3. /\ k.state \in [Task \cup {Idle} -> TaskState]
      /\ k.sleepTicks \in [Task -> Nat]
      /\ ToSet(k.asleep) \subseteq Task
  BY ListedAreTasks DEF Placed, WellFormed, Scheduling
<1>4. Listed(n) = Listed(k) \cup {t}
  BY <1>2 DEF Listed
<1>5. SleepersPositive(n)
  BY <1>2, <1>3 DEF Placed, SleepersPositive
<1>6. \A u \in Listed(n) : n.state[u] \notin Passive /\ n.slice[u] \in 1..TimeSlice
  <2> SUFFICES ASSUME NEW u \in Listed(n)
               PROVE  n.state[u] \notin Passive /\ n.slice[u] \in 1..TimeSlice
    OBVIOUS
  <2>1. CASE u = t
    BY <1>2, <1>3, <2>1 DEF Passive
  <2>2. CASE u # t
    BY <1>2, <1>3, <1>4, <2>2 DEF Placed
  <2> QED
    BY <2>1, <2>2
<1> QED
  BY <1>2, <1>4, <1>5, <1>6 DEF Placed, n

(* The processor goes to the first ready task; no list changes.             *)
LEMMA DispatchPlaced ==
  ASSUME NEW k, Placed(k)
  PROVE  LET n == task_dispatch(k)
         IN /\ Placed(n) /\ Listed(n) = Listed(k)
            /\ n.curr = task_next_run(n) /\ n.slice = k.slice
            /\ Kept(k, n, {})
            /\ \A t \in Task \ Listed(k) : n.state[t] = k.state[t]
<1> DEFINE n == task_dispatch(k)
<1>1. /\ WellFormed(n) /\ n.curr = task_next_run(n)
      /\ n.ready = k.ready /\ n.asleep = k.asleep /\ n.slice = k.slice
      /\ n.sleepTicks = k.sleepTicks
      /\ n.curr \in ToSet(k.ready) \cup {Idle}
      /\ \/ n.state = k.state
         \/ n.state = [k.state EXCEPT ![n.curr] = "RUNNING"]
  BY DispatchEffect DEF Placed
<1> HIDE DEF n
<1>2. k.state \in [Task \cup {Idle} -> TaskState]
  BY DEF Placed, WellFormed, Scheduling
<1>3. Listed(n) = Listed(k) /\ SleepersPositive(n)
  BY <1>1 DEF Placed, Listed, SleepersPositive
<1>4. ASSUME NEW u \in Task
      PROVE  \/ n.state[u] = k.state[u]
             \/ n.state[u] = "RUNNING" /\ u \in Listed(k) /\ u = n.curr
  BY <1>1, <1>2, SchedulerAssumption DEF Listed
<1>5. Listed(k) \subseteq Task
  BY ListedAreTasks DEF Placed, WellFormed, Scheduling, Listed
<1>6. \A u \in Listed(n) : n.state[u] \notin Passive /\ n.slice[u] \in 1..TimeSlice
  BY <1>1, <1>3, <1>4, <1>5 DEF Placed, Passive
<1>7. Kept(k, n, {})
  <2> SUFFICES ASSUME NEW u \in Task
               PROVE  \/ n.state[u] = k.state[u]
                      \/ {n.state[u], k.state[u]} \cap Passive = {}
    BY <1>1 DEF Kept
  <2> QED
    BY <1>4 DEF Placed, Passive
<1>8. \A u \in Task \ Listed(k) : n.state[u] = k.state[u]
  BY <1>4
<1> QED
  BY <1>1, <1>3, <1>6, <1>7, <1>8 DEF Placed, n

(* The whole of task_time_tick but for its last call, task_dispatch.        *)
LEMMA TickPlaced ==
  ASSUME NEW k, Placed(k), k.curr \in ToSet(k.ready) \cup {Idle},
         NEW n \in SleepScan(SliceTick(k))
  PROVE  Placed(n) /\ Listed(n) = Listed(k) /\ Kept(k, n, {})
<1> DEFINE m == SliceTick(k)
<1>0. /\ k.state \in [Task \cup {Idle} -> TaskState]
      /\ k.curr \in Task \cup {Idle} /\ k.slice[k.curr] \in 1..TimeSlice
      /\ Listed(k) \subseteq Task
  BY ListedAreTasks DEF Placed, WellFormed, Scheduling, Listed
<1>1. /\ WellFormed(m)
      /\ m.slice[k.curr] \in 1..TimeSlice
      /\ \A t \in (Task \cup {Idle}) \ {k.curr} : m.slice[t] = k.slice[t]
      /\ ToSet(m.ready) = ToSet(k.ready)
      /\ m.asleep = k.asleep /\ m.sleepTicks = k.sleepTicks
      /\ \/ m.state = k.state
         \/ /\ k.curr \in ToSet(k.ready)
            /\ m.state = [k.state EXCEPT ![k.curr] = "READY"]
  BY <1>0, SliceTickEffect DEF Placed
<1>2. n \in SleepScan(m)
  OBVIOUS
<1> HIDE DEF m
<1>3. Listed(m) = Listed(k) /\ SleepersPositive(m)
  BY <1>1 DEF Placed, Listed, SleepersPositive
<1>4. ASSUME NEW u \in Task
      PROVE  \/ m.state[u] = k.state[u]
             \/ m.state[u] = "READY" /\ u \in Listed(k)
  BY <1>0, <1>1 DEF Listed
<1>5. /\ WellFormed(n) /\ SleepersPositive(n)
      /\ n.slice = m.slice
      /\ ToSet(n.ready) = ToSet(m.ready) \cup Due(m)
      /\ ToSet(n.asleep) = ToSet(m.asleep) \ Due(m)
      /\ n.state = [t \in Task \cup {Idle} |->
                      IF t \in Due(m) THEN "READY" ELSE m.state[t]]
  BY <1>1, <1>2, <1>3, SleepScanEffect
<1>6. Due(m) \subseteq ToSet(m.asleep)
  BY DEF Due
<1>7. Listed(n) = Listed(k)
  BY <1>3, <1>5, <1>6 DEF Listed
<1>8. ASSUME NEW u \in Task
      PROVE  \/ n.state[u] = k.state[u]
             \/ n.state[u] = "READY" /\ u \in Listed(k)
  <2>1. u \in Due(m) => u \in Listed(k)
    BY <1>3, <1>6 DEF Listed
  <2>2. n.state[u] = IF u \in Due(m) THEN "READY" ELSE m.state[u]
    BY <1>5
  <2> QED
    BY <1>4, <2>1, <2>2
<1>9. /\ n.slice[Idle] \in 1..TimeSlice
      /\ \A u \in Task : k.slice[u] \in 1..TimeSlice => n.slice[u] \in 1..TimeSlice
  <2>1. ASSUME NEW u \in Task \cup {Idle}, k.slice[u] \in 1..TimeSlice
        PROVE  n.slice[u] \in 1..TimeSlice
    <3>1. CASE u = k.curr
      BY <1>1, <1>5, <3>1
    <3>2. CASE u # k.curr
      BY <1>1, <1>5, <2>1, <3>2
    <3> QED
      BY <3>1, <3>2
  <2> QED
    BY <2>1 DEF Placed
<1>10. \A u \in Listed(n) : n.state[u] \notin Passive /\ n.slice[u] \in 1..TimeSlice
  BY <1>0, <1>7, <1>8, <1>9 DEF Placed, Passive
<1>11. Kept(k, n, {})
  <2> SUFFICES ASSUME NEW u \in Task
               PROVE  \/ n.state[u] = k.state[u]
                      \/ {n.state[u], k.state[u]} \cap Passive = {}
    BY <1>9 DEF Kept
  <2> QED
    BY <1>8 DEF Placed, Passive
<1> QED
  BY <1>5, <1>7, <1>9, <1>10, <1>11 DEF Placed

-----------------------------------------------------------------------------
(* What the lists of the scheduler and the mutex keep true by themselves.   *)
Base ==
  /\ Types /\ LockShape
  /\ Placed(os) /\ CurrentIsFirst
  /\ ToSet(Queue) \cap Listed(os) = {}

\* A step that takes nobody in or out of the lists.
Moves == Base' /\ Kept(os, os', {}) /\ Present' = Present

(* The part of LInv that the scheduler and the mutex keep by themselves.    *)
LEMMA BaseHolds == LInv => Base
BY DEF LInv, LifecycleTypeOK, Places, Base

(* A task that makes a system call is listed, so it does not wait for the   *)
(* mutex.                                                                   *)
LEMMA CallerIsListed ==
  ASSUME Base, InSyscall
  PROVE  /\ os.curr \in Task /\ os.curr # NoTask
         /\ os.curr \in ToSet(os.ready) /\ os.curr \in Listed(os)
         /\ os.curr \notin ToSet(Queue)
         /\ os.ready \in Seq(Task) /\ os.ready # <<>> /\ os.curr = Head(os.ready)
<1>1. os.ready \in Seq(Task) /\ NoRepeat(os.ready)
  BY DEF Base, Placed, WellFormed, Scheduling
<1>2. os.ready # <<>> /\ os.curr = Head(os.ready)
  BY DEF Base, CurrentIsFirst, task_next_run, InSyscall
<1>3. os.curr \in ToSet(os.ready) /\ os.curr \in Task
  BY <1>1, <1>2, TailList
<1> QED
  BY <1>1, <1>2, <1>3, IpcAssumption DEF Base, Listed

(* Who waits for the mutex has its slice, and can be made ready.            *)
LEMMA WaiterMayRun ==
  ASSUME LInv, NEW t \in ToSet(Queue)
  PROVE  /\ t \in Task /\ t \notin Listed(os)
         /\ os.slice[t] \in 1..TimeSlice /\ os.state[t] \notin Passive
<1>1. Queue \in Seq(Task)
  BY LifecycleAssumption DEF LInv, LifecycleTypeOK, Types, Queue, WaitList
<1>2. t \in Task
  BY <1>1, ListedAreTasks
<1>3. InPlace(t) /\ t \in Present /\ t \notin Listed(os)
  BY <1>2 DEF LInv, Places, Present
<1> QED
  BY <1>2, <1>3 DEF InPlace, Passive

(* A step that leaves the scheduler and the mutex alone.                    *)
LEMMA StillMoves ==
  ASSUME Base, UNCHANGED vars
  PROVE  Moves /\ Inside' = Inside
<1>1. os' = os /\ mutex' = mutex /\ sem' = sem /\ waiters' = waiters
  BY DEF vars, ipc
<1>2. Owner' = Owner /\ Queue' = Queue
  BY <1>1 DEF Owner, Queue
<1>3. Present' = Present /\ Inside' = Inside
  BY <1>1, <1>2 DEF Present, Inside
<1>4. Base'
  BY <1>1, <1>2 DEF Base, Types, LockShape, CurrentIsFirst
<1>5. Kept(os, os', {})
  BY <1>1 DEF Kept, Base, Placed, Passive
<1> QED
  BY <1>3, <1>4, <1>5 DEF Moves

(* A step of the scheduler between the calls.                               *)
LEMMA SchedulerMoves ==
  ASSUME Base, UNCHANGED ipc, Placed(os'), Listed(os') = Listed(os),
         Kept(os, os', {}), os'.curr = task_next_run(os')
  PROVE  Moves /\ Inside' = Inside
<1>1. mutex' = mutex /\ sem' = sem /\ waiters' = waiters
  BY DEF ipc
<1>2. Owner' = Owner /\ Queue' = Queue
  BY <1>1 DEF Owner, Queue
<1>3. Present' = Present /\ Inside' = Inside
  BY <1>2 DEF Present, Inside
<1>4. Types'
  BY <1>1 DEF Base, Types, Placed, WellFormed
<1>5. Base'
  BY <1>1, <1>2, <1>4 DEF Base, LockShape, CurrentIsFirst
<1> QED
  BY <1>3, <1>5 DEF Moves

(* The tick of the timer takes nobody in or out of the lists.               *)
LEMMA TimerMoves ==
  ASSUME Base, Timer
  PROVE  Moves /\ Inside' = Inside
<1>1. PICK n \in SleepScan(SliceTick(os)) : os' = task_dispatch(n)
  BY DEF Timer, task_time_tick
<1>2. os.curr \in ToSet(os.ready) \cup {Idle} /\ Placed(os) /\ UNCHANGED ipc
  BY CallerIsListed DEF Base, InSyscall, Timer
<1>3. Placed(n) /\ Listed(n) = Listed(os) /\ Kept(os, n, {})
  BY <1>2, TickPlaced
<1>4. /\ Placed(os') /\ Listed(os') = Listed(n) /\ Kept(n, os', {})
      /\ os'.curr = task_next_run(os')
  BY <1>1, <1>3, DispatchPlaced
<1>5. Kept(os, os', {})
  BY <1>3, <1>4 DEF Kept
<1> QED
  BY <1>2, <1>3, <1>4, <1>5, SchedulerMoves

(* sys_yeild takes the caller out of the ready list and in again.           *)
LEMMA YieldMoves ==
  ASSUME Base, Yield
  PROVE  Moves /\ Inside' = Inside
<1> DEFINE c == os.curr
           b == task_set_block(os, c)
           r == task_set_ready(b, c)
<1>1. InSyscall /\ os' = task_dispatch(r) /\ UNCHANGED ipc /\ Placed(os)
  BY DEF Yield, sys_yeild, Base
<1>2. c \in ToSet(os.ready) /\ c \in Task /\ c \in Listed(os)
  BY <1>1, CallerIsListed
<1>3. /\ Placed(b) /\ Listed(b) = Listed(os) \ {c}
      /\ b.slice = os.slice /\ b.state = os.state
  BY <1>1, <1>2, SetBlockPlaced
<1>4. os.state \in [Task \cup {Idle} -> TaskState]
      /\ os.slice[c] \in 1..TimeSlice /\ os.state[c] \notin Passive
  BY <1>1, <1>2 DEF Placed, WellFormed, Scheduling
<1> HIDE DEF b
<1>5. /\ Placed(r) /\ Listed(r) = Listed(b) \cup {c}
      /\ r.slice = b.slice /\ r.state = [b.state EXCEPT ![c] = "READY"]
  BY <1>2, <1>3, <1>4, SetReadyPlaced
<1> HIDE DEF r
<1>6. /\ Placed(os') /\ Listed(os') = Listed(r) /\ Kept(r, os', {})
      /\ os'.curr = task_next_run(os')
  BY <1>1, <1>5, DispatchPlaced
<1>7. Kept(os, r, {})
  BY <1>2, <1>3, <1>4, <1>5 DEF Kept, Passive
<1>8. Kept(os, os', {}) /\ Listed(os') = Listed(os)
  BY <1>2, <1>3, <1>5, <1>6, <1>7 DEF Kept
<1> QED
  BY <1>1, <1>6, <1>8, SchedulerMoves

(* sys_sleep moves the caller from the ready list to the sleep list.        *)
LEMMA SleepMoves ==
  ASSUME Base, Sleep
  PROVE  Moves /\ Inside' = Inside
<1>0. PICK d \in 1..MaxSleep : sys_sleep(d)
  BY DEF Sleep
<1> DEFINE c == os.curr
           b == task_set_block(os, c)
           z == task_set_sleep(b, c, d)
<1>1. InSyscall /\ os' = task_dispatch(z) /\ UNCHANGED ipc /\ Placed(os)
  BY <1>0 DEF Sleep, sys_sleep, Base
<1>2. c \in ToSet(os.ready) /\ c \in Task /\ c \in Listed(os)
  BY <1>1, CallerIsListed
<1>3. /\ Placed(b) /\ Listed(b) = Listed(os) \ {c}
      /\ b.slice = os.slice /\ b.state = os.state
  BY <1>1, <1>2, SetBlockPlaced
<1>4. os.state \in [Task \cup {Idle} -> TaskState]
      /\ os.slice[c] \in 1..TimeSlice /\ os.state[c] \notin Passive
  BY <1>1, <1>2 DEF Placed, WellFormed, Scheduling
<1> HIDE DEF b
<1>5. /\ Placed(z) /\ Listed(z) = Listed(b) \cup {c}
      /\ z.slice = b.slice /\ z.state = [b.state EXCEPT ![c] = "SLEEP"]
  BY <1>2, <1>3, <1>4, SetSleepPlaced
<1> HIDE DEF z
<1>6. /\ Placed(os') /\ Listed(os') = Listed(z) /\ Kept(z, os', {})
      /\ os'.curr = task_next_run(os')
  BY <1>1, <1>5, DispatchPlaced
<1>7. Kept(os, z, {})
  BY <1>2, <1>3, <1>4, <1>5 DEF Kept, Passive
<1>8. Kept(os, os', {}) /\ Listed(os') = Listed(os)
  BY <1>2, <1>3, <1>5, <1>6, <1>7 DEF Kept
<1> QED
  BY <1>1, <1>6, <1>8, SchedulerMoves

(* mutex_lock of the table's mutex, by a task that does not hold it: the    *)
(* task is inside from now on, as the owner or in the queue.                *)
LEMMA LockMoves ==
  ASSUME Base, InSyscall, os.curr \notin Inside, mutex_lock(TableMutex)
  PROVE  Moves /\ Inside' = Inside \cup {os.curr}
<1> PICK c \in Task : c = os.curr
  BY CallerIsListed
<1>1. /\ c # NoTask /\ c \in ToSet(os.ready) /\ c \in Listed(os)
      /\ c \notin ToSet(Queue) /\ c # Owner
      /\ TableMutex \in Mutex /\ TableMutex \in WaitList
      /\ Types /\ LockShape /\ Placed(os) /\ sem' = sem
  BY CallerIsListed, LifecycleAssumption
  DEF Base, Inside, WaitList, mutex_lock
<1>2. /\ Queue \in Seq(Task) /\ ToSet(Queue) \subseteq Task
      /\ Owner \in Task \cup {NoTask} /\ mutex[TableMutex].count \in 0..MaxNest
  BY <1>1, ListedAreTasks DEF Types, Queue, Owner
<1>3. mutex[TableMutex].count = IF Owner = NoTask THEN 0 ELSE 1
  BY <1>1 DEF LockShape
<1>4. CASE LockFree(TableMutex)
  <2>1. /\ Owner = NoTask /\ Queue = <<>>
        /\ mutex' = [mutex EXCEPT ![TableMutex] = [count |-> 1, owner |-> c]]
        /\ os' = os /\ waiters' = waiters
    BY <1>1, <1>3, <1>4 DEF LockFree, LockShape
  <2>2. Owner' = c /\ Queue' = Queue /\ mutex'[TableMutex].count = 1
        /\ \A m \in Mutex \ {TableMutex} : mutex'[m] = mutex[m]
    BY <1>1, <2>1 DEF Owner, Queue, Types
  <2>3. Types'
    <3>1. [count |-> 1, owner |-> c] \in [count : 0..MaxNest, owner : Task \cup {NoTask}]
      BY IpcAssumption
    <3> QED
      BY <1>1, <2>1, <3>1 DEF Types
  <2>4. LockShape'
    BY <1>1, <2>1, <2>2 DEF LockShape
  <2>5. Present' = Present /\ Inside' = Inside \cup {os.curr}
    <3>1. ToSet(Queue) = {}
      BY <2>1 DEF ToSet
    <3>2. Present' = Present
      BY <2>1, <2>2 DEF Present
    <3>3. Inside' = {c} /\ Inside = {}
      BY <1>1, <2>1, <2>2, <3>1, IpcAssumption DEF Inside
    <3> QED
      BY <3>2, <3>3
  <2>6. Base'
    BY <2>1, <2>2, <2>3, <2>4 DEF Base, CurrentIsFirst
  <2>7. Kept(os, os', {})
    BY <2>1 DEF Kept
  <2> QED
    BY <2>5, <2>6, <2>7 DEF Moves
<1>5. CASE LockAgain(TableMutex)
  BY <1>1, <1>5 DEF LockAgain, Owner
<1>6. CASE LockBlocked(TableMutex)
  <2> DEFINE b == task_set_block(os, c)
  <2>1. /\ os' = task_dispatch(b) /\ mutex' = mutex /\ Owner # NoTask
        /\ waiters' = [waiters EXCEPT ![TableMutex] = Append(@, c)]
    BY <1>1, <1>3, <1>6 DEF LockBlocked, BlockOn
  <2>2. /\ Placed(b) /\ Listed(b) = Listed(os) \ {c}
        /\ b.slice = os.slice /\ b.state = os.state
    BY <1>1, SetBlockPlaced
  <2> HIDE DEF b
  <2>3. /\ Placed(os') /\ Listed(os') = Listed(os) \ {c} /\ Kept(b, os', {})
        /\ os'.curr = task_next_run(os')
    BY <2>1, <2>2, DispatchPlaced
  <2>4. Kept(os, os', {})
    BY <2>2, <2>3 DEF Kept
  <2>5. /\ Owner' = Owner /\ Queue' = Append(Queue, c)
        /\ \A q \in WaitList \ {TableMutex} : waiters'[q] = waiters[q]
        /\ waiters \in [WaitList -> Seq(Task)]
    BY <1>1, <2>1 DEF Owner, Queue, Types
  <2>6. /\ Append(Queue, c) \in Seq(Task) /\ NoRepeat(Append(Queue, c))
        /\ ToSet(Append(Queue, c)) = ToSet(Queue) \cup {c}
    BY <1>1, <1>2, AppendList DEF LockShape
  <2>7. Types'
    BY <1>1, <2>1, <2>3, <2>5, <2>6 DEF Types, Placed, WellFormed, Queue
  <2>8. LockShape'
    BY <1>1, <2>1, <2>5, <2>6 DEF LockShape
  <2>9. Present' = Present /\ Inside' = Inside \cup {os.curr}
    BY <1>1, <2>3, <2>5, <2>6 DEF Present, Inside
  <2>10. ToSet(Queue') \cap Listed(os') = {}
    BY <2>3, <2>5, <2>6 DEF Base
  <2>11. Base'
    BY <2>3, <2>7, <2>8, <2>10 DEF Base, CurrentIsFirst
  <2> QED
    BY <2>4, <2>9, <2>11 DEF Moves
<1> QED
  BY <1>4, <1>5, <1>6 DEF mutex_lock

(* mutex_unlock by the owner: it goes out, and the first task of the queue, *)
(* if there is one, is the owner and ready.                                 *)
LEMMA UnlockMoves ==
  ASSUME LInv, InSyscall, mutex_unlock(TableMutex)
  PROVE  Moves /\ Inside' = Inside \ {os.curr}
<1>0. Base
  BY BaseHolds
<1> PICK c \in Task : c = os.curr
  BY <1>0, CallerIsListed
<1>1. /\ c # NoTask /\ c \in Listed(os)
      /\ c \notin ToSet(Queue) /\ c = Owner
      /\ TableMutex \in Mutex /\ TableMutex \in WaitList
      /\ Types /\ LockShape /\ Placed(os) /\ sem' = sem
  BY <1>0, CallerIsListed, LifecycleAssumption
  DEF Base, WaitList, mutex_unlock, Owner
<1>2. /\ Queue \in Seq(Task) /\ ToSet(Queue) \subseteq Task
      /\ waiters \in [WaitList -> Seq(Task)]
      /\ mutex[TableMutex].count = 1
  BY <1>1, ListedAreTasks DEF Types, Queue, LockShape
<1>3. CASE UnlockInner(TableMutex)
  BY <1>2, <1>3 DEF UnlockInner
<1>4. CASE UnlockFree(TableMutex)
  <2>1. /\ Queue = <<>> /\ os' = os /\ waiters' = waiters
        /\ mutex' = [mutex EXCEPT ![TableMutex] = [count |-> 0, owner |-> NoTask]]
    BY <1>4 DEF UnlockFree, Queue
  <2>2. Owner' = NoTask /\ Queue' = Queue /\ mutex'[TableMutex].count = 0
        /\ \A m \in Mutex \ {TableMutex} : mutex'[m] = mutex[m]
    BY <1>1, <2>1 DEF Owner, Queue, Types
  <2>3. Types'
    <3>1. [count |-> 0, owner |-> NoTask] \in [count : 0..MaxNest, owner : Task \cup {NoTask}]
      BY IpcAssumption
    <3> QED
      BY <1>1, <2>1, <3>1 DEF Types
  <2>4. ToSet(Queue) = {}
    BY <2>1 DEF ToSet
  <2>5. LockShape'
    BY <1>1, <2>1, <2>2, <2>4 DEF LockShape
  <2>6. Present' = Present
    BY <2>1, <2>2 DEF Present
  <2>7. Inside' = Inside \ {os.curr}
    BY <1>1, <2>2, <2>4, IpcAssumption DEF Inside
  <2>8. Base'
    BY <1>0, <2>1, <2>2, <2>3, <2>5 DEF Base, CurrentIsFirst
  <2>9. Kept(os, os', {})
    BY <2>1 DEF Kept
  <2> QED
    BY <2>6, <2>7, <2>8, <2>9 DEF Moves
<1>5. CASE UnlockHandOff(TableMutex)
  <2>1. PICK h : h = Head(Queue)
    OBVIOUS
  <2> DEFINE r == task_set_ready(os, h)
  <2>2. /\ Queue # <<>> /\ os' = task_dispatch(r)
        /\ mutex' = [mutex EXCEPT ![TableMutex] = [count |-> 1, owner |-> h]]
        /\ waiters' = [waiters EXCEPT ![TableMutex] = Tail(@)]
    BY <1>5, <2>1 DEF UnlockHandOff, WakeFirst, Queue
  <2>3. /\ h \in ToSet(Queue) /\ Tail(Queue) \in Seq(Task)
        /\ NoRepeat(Tail(Queue)) /\ ToSet(Tail(Queue)) = ToSet(Queue) \ {h}
    BY <1>1, <1>2, <2>1, <2>2, TailList DEF LockShape
  <2>4. /\ h \in Task /\ h \notin Listed(os) /\ os.slice[h] \in 1..TimeSlice
        /\ os.state[h] \notin Passive /\ h # NoTask
    BY <2>3, WaiterMayRun, IpcAssumption
  <2>5. /\ Placed(r) /\ Listed(r) = Listed(os) \cup {h} /\ r.slice = os.slice
        /\ r.state = [os.state EXCEPT ![h] = "READY"]
    BY <1>1, <2>4, SetReadyPlaced
  <2> HIDE DEF r
  <2>6. /\ Placed(os') /\ Listed(os') = Listed(os) \cup {h} /\ Kept(r, os', {})
        /\ os'.curr = task_next_run(os')
    BY <2>2, <2>5, DispatchPlaced
  <2>7. Kept(os, r, {})
    <3>1. os.state \in [Task \cup {Idle} -> TaskState]
      BY <1>1 DEF Placed, WellFormed, Scheduling
    <3> QED
      BY <2>4, <2>5, <3>1 DEF Kept, Passive
  <2>8. Kept(os, os', {})
    BY <2>5, <2>6, <2>7 DEF Kept
  <2>9. /\ Owner' = h /\ Queue' = Tail(Queue) /\ mutex'[TableMutex].count = 1
        /\ \A m \in Mutex \ {TableMutex} : mutex'[m] = mutex[m]
        /\ \A q \in WaitList \ {TableMutex} : waiters'[q] = waiters[q]
    BY <1>1, <1>2, <2>2 DEF Owner, Queue, Types
  <2>10. Types'
    <3>1. [count |-> 1, owner |-> h] \in [count : 0..MaxNest, owner : Task \cup {NoTask}]
      BY <2>4, IpcAssumption
    <3>2. mutex' \in [Mutex -> [count : 0..MaxNest, owner : Task \cup {NoTask}]]
      BY <1>1, <2>2, <3>1 DEF Types
    <3>3. waiters' \in [WaitList -> Seq(Task)]
      BY <1>1, <1>2, <2>2, <2>3 DEF Queue
    <3> QED
      BY <1>1, <2>6, <3>2, <3>3 DEF Types, Placed, WellFormed
  <2>11. LockShape'
    BY <1>1, <2>3, <2>4, <2>9 DEF LockShape
  <2>12. Present' = Present
    BY <2>3, <2>6, <2>9 DEF Present
  <2>13. Inside' = Inside \ {os.curr}
    BY <1>1, <2>3, <2>4, <2>9 DEF Inside
  <2>14. ToSet(Queue') \cap Listed(os') = {}
    BY <1>0, <2>3, <2>6, <2>9 DEF Base
  <2>15. Base'
    BY <2>6, <2>10, <2>11, <2>14 DEF Base, CurrentIsFirst
  <2> QED
    BY <2>8, <2>12, <2>13, <2>15 DEF Moves
<1> QED
  BY <1>3, <1>4, <1>5 DEF mutex_unlock

-----------------------------------------------------------------------------
(* The indices of task_table, and what is at them.                          *)
LEMMA LenTable == Len(Table) \in Nat /\ DOMAIN Table = 1..Len(Table)
                  /\ \A i \in 1..Len(Table) : Table[i] \in Slot /\ Table[i] \in Task
<1>1. Table \in Seq(Task)
  BY LifecycleAssumption, SeqMonotonic
<1>2. /\ Len(Table) \in Nat /\ DOMAIN Table = 1..Len(Table)
      /\ \A i \in 1..Len(Table) : Table[i] \in Task
  BY <1>1, LenProperties, ElementOfSeq
<1> QED
  BY <1>2 DEF Slot, ToSet

(* The caller is a process, and it runs.                                    *)
LEMMA CallerState ==
  ASSUME LInv, InSyscall
  PROVE  /\ os.curr \in Task /\ os.curr # NoTask
         /\ os.curr \in Listed(os) /\ os.curr \in ToSet(os.ready)
         /\ os.curr \notin ToSet(Queue)
         /\ os.state[os.curr] \notin Passive /\ os.curr \in named
         /\ os.slice[os.curr] \in 1..TimeSlice
         /\ pc[os.curr] # "dead" /\ InPlace(os.curr)
<1>1. /\ os.curr \in Task /\ os.curr # NoTask
      /\ os.curr \in Listed(os) /\ os.curr \in ToSet(os.ready)
      /\ os.curr \notin ToSet(Queue)
  BY BaseHolds, CallerIsListed
<1>2. InPlace(os.curr) /\ os.curr \in Present
  BY <1>1 DEF LInv, Places, Present
<1> QED
  BY <1>1, <1>2 DEF InPlace, Passive

(* The places of the tasks, after a step that moves nobody.                 *)
LEMMA PlacesKept ==
  ASSUME LInv, Moves, named \subseteq named',
         \A t \in named' \ named : os'.slice[t] \in 1..TimeSlice,
         \A t \in Task : pc'[t] = "dead" <=> pc[t] = "dead",
         \A t \in Task : os.state[t] = "WAITTING" => pc'[t] = pc[t]
  PROVE  Places'
<1>1. Placed(os)' /\ CurrentIsFirst' /\ (ToSet(Queue) \cap Listed(os) = {})'
  BY DEF Moves, Base
<1>2. ASSUME NEW t \in Task
      PROVE  InPlace(t)'
  <2>1. InPlace(t) /\ (t \in Present' <=> t \in Present)
    BY DEF LInv, Places, Moves
  <2>2. /\ os'.state[t] = os.state[t] \/ {os'.state[t], os.state[t]} \cap Passive = {}
        /\ os.slice[t] \in 1..TimeSlice => os'.slice[t] \in 1..TimeSlice
    BY DEF Moves, Kept
  <2>3. /\ pc'[t] = "dead" <=> pc[t] = "dead"
        /\ os.state[t] = "WAITTING" => pc'[t] = pc[t]
        /\ t \notin named' => t \notin named
        /\ t \in named' => t \in named \/ os'.slice[t] \in 1..TimeSlice
    OBVIOUS
  <2>4. CASE os'.state[t] = os.state[t]
    BY <2>1, <2>2, <2>3, <2>4 DEF InPlace
  <2>5. CASE os'.state[t] \notin Passive /\ os.state[t] \notin Passive
    BY <2>1, <2>2, <2>3, <2>5 DEF InPlace, Passive
  <2> QED
    BY <2>2, <2>4, <2>5
<1> QED
  BY <1>1, <1>2 DEF Places

(* A call that goes to the label b without moving anybody.                  *)
LEMMA CallStep ==
  ASSUME LInv, InSyscall, Moves, NEW b \in Label \ {"dead"},
         pc' = [pc EXCEPT ![os.curr] = b], named \subseteq named',
         \A t \in named' \ named : os'.slice[t] \in 1..TimeSlice,
         Inside' = IF b \in TableLabel THEN Inside \cup {os.curr}
                   ELSE Inside \ {os.curr}
  PROVE  /\ Types' /\ LockShape' /\ Places'
         /\ \A t \in Task : AtTable(t)' <=> t \in Inside'
         /\ pc' \in [Task -> Label]
         /\ \A t \in Task : pc'[t] = "dead" <=> pc[t] = "dead"
         /\ \A u \in Task : os.state[u] = "CREATED" => os'.state[u] = "CREATED"
<1> PICK c : c = os.curr
  OBVIOUS
<1>1. c \in Task /\ pc[c] # "dead" /\ os.state[c] \notin Passive
  BY CallerState
<1>2. pc \in [Task -> Label]
  BY DEF LInv, LifecycleTypeOK
<1>3. /\ pc' \in [Task -> Label] /\ pc'[c] = b
      /\ \A t \in Task \ {c} : pc'[t] = pc[t]
  BY <1>1, <1>2
<1>4. Types' /\ LockShape'
  BY DEF Moves, Base
<1>5. \A t \in Task : pc'[t] = "dead" <=> pc[t] = "dead"
  BY <1>1, <1>3
<1>6. \A t \in Task : os.state[t] = "WAITTING" => pc'[t] = pc[t]
  BY <1>1, <1>3 DEF Passive
<1>7. Places'
  BY <1>5, <1>6, PlacesKept
<1>8. ASSUME NEW t \in Task
      PROVE  AtTable(t)' <=> t \in Inside'
  <2>1. AtTable(t) <=> t \in Inside
    BY DEF LInv
  <2>2. CASE t = c
    BY <1>1, <1>3, <2>2 DEF AtTable
  <2>3. CASE t # c
    BY <1>3, <2>1, <2>3 DEF AtTable
  <2> QED
    BY <2>2, <2>3
<1>9. ASSUME NEW u \in Task, os.state[u] = "CREATED"
      PROVE  os'.state[u] = "CREATED"
  BY <1>9 DEF Moves, Kept, Passive
<1> QED
  BY <1>3, <1>4, <1>5, <1>7, <1>8, <1>9

(* The forks, after a step of none of them.                                 *)
LEMMA ForksKept ==
  ASSUME LInv, child' = child, named' \subseteq named,
         \A t \in Task : \/ pc'[t] = pc[t]
                         \/ /\ {pc[t], pc'[t]} \cap ForkLabel = {}
                            /\ pc'[t] # "fork_scan",
         \A t \in Task : pc[t] \in {"fork_link", "fork_start"} => child[t] \in named',
         \A u \in Task : os.state[u] = "CREATED" => os'.state[u] = "CREATED",
         \A t \in Task : pc[t] = "fork_start" => parent'[child[t]] = t
  PROVE  Forks'
<1>1. /\ \A t \in Task : ForkOK(t)
      /\ \A t, u \in Task : InAlloc(t) /\ InAlloc(u) => t = u
      /\ SlotNotShared
      /\ Slot \subseteq Task
  <2>1. Slot \subseteq Task
    BY LifecycleAssumption, ListedAreTasks DEF Slot
  <2> QED
    BY <2>1 DEF LInv, Forks
<1>2. ASSUME NEW t \in Task
      PROVE  ForkOK(t)'
  <2>1. ForkOK(t)
    BY <1>1
  <2>2. CASE pc'[t] = pc[t]
    BY <1>1, <2>1, <2>2 DEF ForkOK
  <2>3. CASE {pc[t], pc'[t]} \cap ForkLabel = {}
    BY <2>1, <2>3 DEF ForkOK, ForkLabel
  <2> QED
    BY <2>2, <2>3
<1>3. \A t \in Task : InAlloc(t)' => InAlloc(t)
  BY DEF InAlloc, ForkLabel
<1>4. \A t, u \in Task : InAlloc(t)' /\ InAlloc(u)' => t = u
  BY <1>1, <1>3
<1>5. SlotNotShared'
  BY <1>1 DEF SlotNotShared
<1> QED
  BY <1>2, <1>4, <1>5 DEF Forks

(* The families, after a step that gives nobody another parent, and ends no *)
(* process.                                                                 *)
LEMMA FamiliesKept ==
  ASSUME LInv,
         \A t \in Task : parent'[t] = parent[t] \/ (parent'[t] = NoTask /\ pc[t] = "dead"),
         \A t \in Task : pc'[t] = "dead" <=> pc[t] = "dead",
         \A t \in Task : pc'[t] = "exit_scan" =>
            \/ pc[t] = "exit_scan" /\ at'[t] = at[t]
            \/ t # First /\ at'[t] = 1,
         \A t \in Task : pc'[t] = "exit_end" =>
            \/ pc[t] = "exit_end"
            \/ t # First /\ \A u \in Task : parent[u] # t
  PROVE  Families'
<1>1. /\ Families /\ parent \in [Task -> Task \cup {NoTask}]
      /\ at \in [Task -> 1..(Len(Table) + 1)] /\ NoTask \notin Task
  BY IpcAssumption DEF LInv, LifecycleTypeOK
<1>2. \A t \in Task : parent'[t] # NoTask => t \in Slot /\ pc'[parent'[t]] # "dead"
  BY <1>1 DEF Families
<1>3. \A t \in Task \ {First} : pc'[t] # "dead" => parent'[t] # NoTask
  BY <1>1 DEF Families
<1>4. pc'[First] \notin {"dead", "exit_scan", "exit_end"}
  BY <1>1, SchedulerAssumption DEF Families
<1>5. ASSUME NEW t \in Task, pc'[t] = "exit_scan", NEW i \in 1..(at'[t] - 1)
      PROVE  parent'[Table[i]] # t
  <2>1. CASE pc[t] = "exit_scan" /\ at'[t] = at[t]
    <3>1. i \in 1..Len(Table) /\ i \in 1..(at[t] - 1)
      BY <1>1, <1>5, <2>1, LenTable
    <3>2. Table[i] \in Task /\ parent[Table[i]] # t
      BY <1>1, <2>1, <3>1, LenTable DEF Families
    <3> QED
      BY <1>1, <3>2
  <2>2. CASE at'[t] = 1
    BY <1>5, <2>2
  <2> QED
    BY <1>5, <2>1, <2>2
<1>6. \A t \in Task : pc'[t] = "exit_end" => \A u \in Task : parent'[u] # t
  BY <1>1 DEF Families
<1> QED
  BY <1>2, <1>3, <1>4, <1>5, <1>6 DEF Families, Slot

-----------------------------------------------------------------------------
(* The timer, and the calls that are not about processes.                   *)
LEMMA InterludeInv ==
  ASSUME LInv, Interlude
  PROVE  LInv'
<1>1. /\ Moves /\ Inside' = Inside
      /\ named' = named /\ parent' = parent /\ pc' = pc /\ at' = at
      /\ child' = child /\ moved' = moved
  BY BaseHolds, TimerMoves, YieldMoves, SleepMoves
  DEF Interlude, UserYield, UserSleep, locals
<1>2. LifecycleTypeOK' /\ LockShape'
  BY <1>1 DEF LInv, LifecycleTypeOK, Moves, Base
<1>3. \A t \in Task : AtTable(t)' <=> t \in Inside'
  BY <1>1 DEF LInv, AtTable
<1>4. Places'
  BY <1>1, PlacesKept
<1>5. \A u \in Task : os.state[u] = "CREATED" => os'.state[u] = "CREATED"
  BY <1>1 DEF Moves, Kept, Passive
<1>6. \A t \in Task : ForkOK(t)
  BY DEF LInv, Forks
<1>7. Forks'
  <2>1. \A t \in Task : pc[t] \in {"fork_link", "fork_start"} => child[t] \in named'
    BY <1>1, <1>6 DEF ForkOK
  <2>2. \A t \in Task : pc[t] = "fork_start" => parent'[child[t]] = t
    BY <1>1, <1>6 DEF ForkOK
  <2> QED
    BY <1>1, <1>5, <2>1, <2>2, ForksKept
<1>8. Families'
  BY <1>1, FamiliesKept
<1> QED
  BY <1>2, <1>3, <1>4, <1>7, <1>8 DEF LInv

(* A call outside sys_fork that changes no family, but for sys_wait's reap  *)
(* and the ends of sys_wait and sys_exit.                                   *)
LEMMA PlainCall ==
  ASSUME LInv, InSyscall, Moves,
         NEW b \in {"user", "wait_scan", "wait_return", "wait_block", "exit_scan"},
         pc[os.curr] \in {"user", "wait_lock", "wait_scan", "wait_return"},
         pc' = [pc EXCEPT ![os.curr] = b],
         Inside' = IF b \in TableLabel THEN Inside \cup {os.curr}
                   ELSE Inside \ {os.curr},
         b = "exit_scan" => os.curr # First /\ at'[os.curr] = 1,
         \A t \in Task \ {os.curr} : at'[t] = at[t],
         at' \in [Task -> 1..(Len(Table) + 1)], moved' \in [Task -> BOOLEAN],
         UNCHANGED <<named, parent, child>>
  PROVE  LInv'
<1> PICK c : c = os.curr
  OBVIOUS
<1>1. c \in Task /\ pc \in [Task -> Label]
  BY CallerState DEF LInv, LifecycleTypeOK
<1>2. /\ pc'[c] = b /\ pc[c] \notin ForkLabel /\ b \notin ForkLabel
      /\ \A t \in Task \ {c} : pc'[t] = pc[t]
  BY <1>1 DEF ForkLabel
<1>3. /\ Types' /\ LockShape' /\ Places'
      /\ \A t \in Task : AtTable(t)' <=> t \in Inside'
      /\ pc' \in [Task -> Label]
      /\ \A t \in Task : pc'[t] = "dead" <=> pc[t] = "dead"
      /\ \A u \in Task : os.state[u] = "CREATED" => os'.state[u] = "CREATED"
  <2>1. b \in Label \ {"dead"}
    BY DEF Label
  <2>2. named' = named
    OBVIOUS
  <2> QED
    BY <2>1, <2>2, CallStep
<1>4. LifecycleTypeOK'
  BY <1>3 DEF LInv, LifecycleTypeOK
<1>5. \A t \in Task : ForkOK(t)
  BY DEF LInv, Forks
<1>6. Forks'
  <2>1. \A t \in Task : \/ pc'[t] = pc[t]
                        \/ /\ {pc[t], pc'[t]} \cap ForkLabel = {}
                           /\ pc'[t] # "fork_scan"
    BY <1>2
  <2>2. \A t \in Task : pc[t] \in {"fork_link", "fork_start"} => child[t] \in named'
    BY <1>5 DEF ForkOK
  <2>3. \A t \in Task : pc[t] = "fork_start" => parent'[child[t]] = t
    BY <1>5 DEF ForkOK
  <2> QED
    BY <1>3, <2>1, <2>2, <2>3, ForksKept
<1>7. Families'
  <2>1. \A t \in Task : pc'[t] = "exit_scan" =>
            \/ pc[t] = "exit_scan" /\ at'[t] = at[t]
            \/ t # First /\ at'[t] = 1
    BY <1>2
  <2>2. \A t \in Task : pc'[t] = "exit_end" => pc[t] = "exit_end"
    BY <1>2
  <2> QED
    BY <1>3, <2>1, <2>2, FamiliesKept
<1> QED
  BY <1>3, <1>4, <1>6, <1>7 DEF LInv

(* Whether the caller is inside.                                            *)
LEMMA CallerInside ==
  ASSUME LInv, InSyscall
  PROVE  os.curr \in Inside <=> pc[os.curr] \in TableLabel
BY CallerState DEF LInv, AtTable

(* sys_wait, without the reap and the end.                                  *)
LEMMA WaitInv ==
  ASSUME LInv, WaitLock \/ WaitSkip \/ WaitReturn \/ WaitUnlock
  PROVE  LInv'
<1> PICK c : c = os.curr
  OBVIOUS
<1>1. InSyscall
  BY DEF WaitLock, WaitSkip, WaitReturn, WaitUnlock, Goto
<1>2. /\ c \in Task /\ Base
      /\ at \in [Task -> 1..(Len(Table) + 1)] /\ moved \in [Task -> BOOLEAN]
      /\ Len(Table) \in Nat /\ 1 \in 1..(Len(Table) + 1)
      /\ c \in Inside <=> pc[c] \in TableLabel
  BY <1>1, CallerState, CallerInside, BaseHolds, LenTable DEF LInv, LifecycleTypeOK
<1>3. CASE WaitLock
  <2>1. /\ pc[c] \in {"user", "wait_lock"}
        /\ pc' = [pc EXCEPT ![c] = "wait_scan"]
        /\ mutex_lock(TableMutex) /\ at' = [at EXCEPT ![c] = 1]
        /\ UNCHANGED <<named, parent, child, moved>>
    BY <1>3 DEF WaitLock, Goto, me
  <2>2. Moves /\ Inside' = Inside \cup {c}
    BY <1>1, <1>2, <2>1, LockMoves DEF TableLabel
  <2>3. /\ at' \in [Task -> 1..(Len(Table) + 1)]
        /\ \A t \in Task \ {c} : at'[t] = at[t]
    BY <1>2, <2>1
  <2> QED
    BY <1>1, <1>2, <2>1, <2>2, <2>3, PlainCall DEF TableLabel
<1>4. CASE WaitSkip
  <2>1. /\ pc[c] = "wait_scan" /\ pc' = [pc EXCEPT ![c] = "wait_scan"]
        /\ ~ (at[c] > Len(Table)) /\ at' = [at EXCEPT ![c] = @ + 1]
        /\ UNCHANGED <<vars, named, parent, child, moved>>
    BY <1>4 DEF WaitSkip, Goto, me, ScanEnds, NextSlot
  <2>2. Moves /\ Inside' = Inside
    BY <1>2, <2>1, StillMoves
  <2>3. Inside = Inside \cup {c}
    BY <1>2, <2>1 DEF TableLabel
  <2>4. at[c] + 1 \in 1..(Len(Table) + 1)
    BY <1>2, <2>1
  <2>5. /\ at' \in [Task -> 1..(Len(Table) + 1)]
        /\ \A t \in Task \ {c} : at'[t] = at[t]
    BY <1>2, <2>1, <2>4
  <2> QED
    BY <1>1, <1>2, <2>1, <2>2, <2>3, <2>5, PlainCall DEF TableLabel
<1>5. CASE WaitReturn
  <2>1. /\ pc[c] = "wait_return" /\ pc' = [pc EXCEPT ![c] = "user"]
        /\ mutex_unlock(TableMutex) /\ at' = [at EXCEPT ![c] = 1]
        /\ UNCHANGED <<named, parent, child, moved>>
    BY <1>5 DEF WaitReturn, Goto, me
  <2>2. Moves /\ Inside' = Inside \ {c}
    BY <1>1, <2>1, UnlockMoves
  <2>3. /\ at' \in [Task -> 1..(Len(Table) + 1)]
        /\ \A t \in Task \ {c} : at'[t] = at[t]
    BY <1>2, <2>1
  <2> QED
    BY <1>1, <1>2, <2>1, <2>2, <2>3, PlainCall DEF TableLabel
<1>6. CASE WaitUnlock
  <2>1. /\ pc[c] = "wait_scan" /\ pc' = [pc EXCEPT ![c] = "wait_block"]
        /\ mutex_unlock(TableMutex)
        /\ UNCHANGED <<named, parent, at, child, moved>>
    BY <1>6 DEF WaitUnlock, Goto, me
  <2>2. Moves /\ Inside' = Inside \ {c}
    BY <1>1, <2>1, UnlockMoves
  <2> QED
    BY <1>1, <1>2, <2>1, <2>2, PlainCall DEF TableLabel
<1> QED
  BY <1>3, <1>4, <1>5, <1>6

(* sys_exit begins: the caller comes to hold the mutex, or waits for it.    *)
LEMMA ExitLockInv ==
  ASSUME LInv, ExitLock
  PROVE  LInv'
<1> PICK c : c = os.curr
  OBVIOUS
<1>1. /\ InSyscall /\ pc[c] = "user" /\ pc' = [pc EXCEPT ![c] = "exit_scan"]
      /\ c # First /\ mutex_lock(TableMutex) /\ at' = [at EXCEPT ![c] = 1]
      /\ moved' = [moved EXCEPT ![c] = FALSE]
      /\ UNCHANGED <<named, parent, child>>
  BY DEF ExitLock, Goto, me
<1>2. /\ c \in Task /\ Base
      /\ at \in [Task -> 1..(Len(Table) + 1)] /\ moved \in [Task -> BOOLEAN]
      /\ Len(Table) \in Nat /\ 1 \in 1..(Len(Table) + 1)
      /\ c \in Inside <=> pc[c] \in TableLabel
  BY <1>1, CallerState, CallerInside, BaseHolds, LenTable DEF LInv, LifecycleTypeOK
<1>3. Moves /\ Inside' = Inside \cup {c}
  BY <1>1, <1>2, LockMoves DEF TableLabel
<1>4. /\ at' \in [Task -> 1..(Len(Table) + 1)] /\ at'[c] = 1
      /\ \A t \in Task \ {c} : at'[t] = at[t]
      /\ moved' \in [Task -> BOOLEAN]
  BY <1>1, <1>2
<1> QED
  BY <1>1, <1>2, <1>3, <1>4, PlainCall DEF TableLabel

-----------------------------------------------------------------------------
(* Every non-empty set of natural numbers has a least element. *)
LEMMA NatMin ==
  ASSUME NEW S \in SUBSET Nat, S # {}
  PROVE  \E x \in S : \A y \in S : x <= y
<1> DEFINE T == {0..k : k \in S}
<1>1. T \subseteq FiniteSubsetsOf(Nat) /\ T # {}
  <2>1. \A k \in S : 0..k \subseteq Nat /\ IsFiniteSet(0..k)
    BY FS_Interval
  <2> QED
    BY <2>1 DEF FiniteSubsetsOf
<1>2. PICK I \in T : \A J \in T : ~ (<<J, I>> \in StrictSubsetOrdering(Nat))
  <2> HIDE DEF T
  <2> QED
    BY <1>1, WFMin, FS_StrictSubsetOrderingWellFounded
<1>3. PICK x \in S : I = 0..x
  OBVIOUS
<1>4. ASSUME NEW y \in S, y < x
      PROVE  FALSE
  <2>1. 0..y \in T /\ x \in Nat /\ y \in Nat
    OBVIOUS
  <2>2. 0..y \subseteq I /\ x \in I /\ x \notin 0..y
    BY <1>3, <1>4, <2>1
  <2>3. 0..y \in SUBSET Nat /\ I \in SUBSET Nat
    BY <1>3
  <2> HIDE DEF T
  <2> QED
    BY <1>2, <2>1, <2>2, <2>3 DEF StrictSubsetOrdering
<1> QED
  BY <1>4

(* sys_fork up to task_init: alloc_task under the mutex.  Nobody else is    *)
(* there, so what the scan finds is free until task_init takes it.          *)
LEMMA ForkLockInv ==
  ASSUME LInv, ~ ForksOverlap, ForkLock
  PROVE  LInv'
<1> PICK c : c = os.curr
  OBVIOUS
<1>1. /\ InSyscall /\ pc[c] = "user" /\ pc' = [pc EXCEPT ![c] = "fork_scan"]
      /\ \A t \in Task : ~ InAlloc(t)
      /\ mutex_lock(TableMutex)
      /\ UNCHANGED <<named, parent, at, child, moved>>
  BY DEF ForkLock, Goto, me
<1>2. /\ c \in Task /\ Base /\ pc \in [Task -> Label]
      /\ c \in Inside <=> pc[c] \in TableLabel
  BY <1>1, CallerState, CallerInside, BaseHolds DEF LInv, LifecycleTypeOK
<1>3. Moves /\ Inside' = Inside \cup {c}
  BY <1>1, <1>2, LockMoves DEF TableLabel
<1>4. /\ Types' /\ LockShape' /\ Places'
      /\ \A t \in Task : AtTable(t)' <=> t \in Inside'
      /\ pc' \in [Task -> Label]
      /\ \A t \in Task : pc'[t] = "dead" <=> pc[t] = "dead"
      /\ \A u \in Task : os.state[u] = "CREATED" => os'.state[u] = "CREATED"
  <2>1. "fork_scan" \in Label \ {"dead"} /\ "fork_scan" \in TableLabel
    BY DEF Label, TableLabel
  <2>2. named' = named
    BY <1>1
  <2> QED
    BY <1>1, <1>3, <2>1, <2>2, CallStep
<1>5. LifecycleTypeOK'
  BY <1>1, <1>4 DEF LInv, LifecycleTypeOK
<1>6. pc'[c] = "fork_scan" /\ \A t \in Task \ {c} : pc'[t] = pc[t]
  BY <1>1, <1>2
<1>7. Forks'
  <2>1. (\A t \in Task : ForkOK(t)) /\ SlotNotShared
    BY DEF LInv, Forks
  <2>2. ASSUME NEW t \in Task
        PROVE  ForkOK(t)'
    <3>0. ForkOK(t)
      BY <2>1
    <3>1. CASE t = c
      BY <1>1, <1>6, <3>0, <3>1 DEF ForkOK, ForkLabel
    <3>2. CASE t # c
      <4>1. /\ pc'[t] = pc[t] /\ child' = child /\ named' = named
            /\ parent' = parent
        BY <1>1, <1>6, <3>2
      <4>2. Slot \subseteq Task
        BY LifecycleAssumption, ListedAreTasks DEF Slot
      <4> QED
        BY <1>4, <3>0, <4>1, <4>2 DEF ForkOK
    <3> QED
      BY <3>1, <3>2
  <2>3. \A t \in Task : InAlloc(t)' => t = c
    BY <1>1, <1>6 DEF InAlloc
  <2>4. SlotNotShared'
    BY <1>1, <2>1 DEF SlotNotShared
  <2> QED
    BY <2>2, <2>3, <2>4 DEF Forks
<1>8. Families'
  BY <1>1, <1>4, <1>6, FamiliesKept
<1> QED
  BY <1>4, <1>5, <1>7, <1>8 DEF LInv

(* The forks after a step of the fork of c, which no other fork sees: the   *)
(* slots of the others are below, and stay, in the part of the table that   *)
(* has names.                                                               *)
LEMMA OtherForksKept ==
  ASSUME LInv, NEW c \in Task, named \subseteq named',
         \A t \in Task \ {c} : pc'[t] = pc[t] \/ (pc'[t] = "user" /\ pc[t] = "dead"),
         \A t \in Task \ {c} : child'[t] = child[t],
         InAlloc(c) \/ named' = named,
         \A t \in Task : pc[t] = "fork_start" => parent'[child[t]] = t,
         NEW d, \A u \in Task \ {d} : os.state[u] = "CREATED" => os'.state[u] = "CREATED",
         \A t \in Task \ {c} : child[t] # d \/ child[t] = NoTask
  PROVE  \A t \in Task \ {c} : ForkOK(t)'
<1> SUFFICES ASSUME NEW t \in Task \ {c}
             PROVE  ForkOK(t)'
  OBVIOUS
<1>1. /\ ForkOK(t) /\ child'[t] = child[t] /\ Slot \subseteq Task
      /\ NoTask \notin Slot
      /\ InAlloc(c) /\ InAlloc(t) => t = c
  <2>1. Slot \subseteq Task
    BY LifecycleAssumption, ListedAreTasks DEF Slot
  <2> QED
    BY <2>1, IpcAssumption DEF LInv, Forks
<1>2. CASE pc'[t] = pc[t]
  BY <1>1, <1>2 DEF ForkOK, InAlloc
<1>3. CASE pc'[t] = "user" /\ pc[t] = "dead"
  BY <1>1, <1>3 DEF ForkOK, ForkLabel
<1> QED
  BY <1>2, <1>3

(* alloc_task finds a slot that nobody uses, or none.                       *)
LEMMA ForkScanInv ==
  ASSUME LInv, ForkScan
  PROVE  LInv'
<1> PICK c : c = os.curr
  OBVIOUS
<1> DEFINE free == {i \in DOMAIN Table : Table[i] \notin named}
           found == IF free = {} THEN NoTask
                    ELSE Table[CHOOSE i \in free : \A j \in free : i <= j]
<1>1. /\ InSyscall /\ pc[c] = "fork_scan" /\ pc' = [pc EXCEPT ![c] = "fork_unlock"]
      /\ child' = [child EXCEPT ![c] = found]
      /\ UNCHANGED <<vars, named, parent, at, moved>>
  BY DEF ForkScan, Goto, me
<1>2. /\ c \in Task /\ Base /\ pc \in [Task -> Label]
      /\ child \in [Task -> Slot \cup {NoTask}]
      /\ c \in Inside <=> pc[c] \in TableLabel
  BY <1>1, CallerState, CallerInside, BaseHolds DEF LInv, LifecycleTypeOK
<1>3. found \in (Slot \ named) \cup {NoTask}
  <2>1. CASE free = {}
    BY <2>1
  <2>2. CASE free # {}
    <3>1. free \subseteq Nat
      BY LenTable
    <3>2. \E i \in free : \A j \in free : i <= j
      BY <2>2, <3>1, NatMin
    <3>3. PICK i \in free : found = Table[i]
      BY <2>2, <3>2
    <3> QED
      BY <3>3, LenTable
  <2> QED
    BY <2>1, <2>2
<1> HIDE DEF found, free
<1>4. Moves /\ Inside' = Inside \cup {c}
  BY <1>1, <1>2, StillMoves DEF TableLabel
<1>5. /\ Types' /\ LockShape' /\ Places'
      /\ \A t \in Task : AtTable(t)' <=> t \in Inside'
      /\ pc' \in [Task -> Label]
      /\ \A t \in Task : pc'[t] = "dead" <=> pc[t] = "dead"
      /\ \A u \in Task : os.state[u] = "CREATED" => os'.state[u] = "CREATED"
  <2>1. "fork_unlock" \in Label \ {"dead"} /\ "fork_unlock" \in TableLabel
    BY DEF Label, TableLabel
  <2>2. named' = named
    BY <1>1
  <2> QED
    BY <1>1, <1>4, <2>1, <2>2, CallStep
<1>6. /\ pc'[c] = "fork_unlock" /\ \A t \in Task \ {c} : pc'[t] = pc[t]
      /\ child'[c] = found /\ \A t \in Task \ {c} : child'[t] = child[t]
      /\ child' \in [Task -> Slot \cup {NoTask}]
  BY <1>1, <1>2, <1>3
<1>7. LifecycleTypeOK'
  BY <1>1, <1>5, <1>6 DEF LInv, LifecycleTypeOK
<1>8. /\ \A t \in Task : ForkOK(t)
      /\ \A t, u \in Task : InAlloc(t) /\ InAlloc(u) => t = u
      /\ SlotNotShared
  BY DEF LInv, Forks
<1>9. \A t \in Task \ {c} : child[t] # found \/ child[t] = NoTask
  <2> SUFFICES ASSUME NEW t \in Task \ {c}, child[t] # NoTask
               PROVE  child[t] # found
    OBVIOUS
  <2>1. ForkOK(t) /\ ~ InAlloc(t)
    BY <1>1, <1>2, <1>8 DEF InAlloc
  <2>2. child[t] \in named
    BY <2>1 DEF ForkOK, ForkLabel, InAlloc
  <2> QED
    BY <1>3, <2>2
<1>10. Forks'
  <2>1. \A t \in Task \ {c} : ForkOK(t)'
    <3>1. InAlloc(c) \/ named' = named
      BY <1>1
    <3>2. \A t \in Task : pc[t] = "fork_start" => parent'[child[t]] = t
      BY <1>1, <1>8 DEF ForkOK
    <3>3. /\ named \subseteq named'
          /\ \A t \in Task \ {c} : pc'[t] = pc[t] \/ (pc'[t] = "user" /\ pc[t] = "dead")
          /\ \A u \in Task \ {found} : os.state[u] = "CREATED" => os'.state[u] = "CREATED"
      BY <1>1, <1>5, <1>6
    <3> QED
      BY <1>2, <1>6, <1>9, <3>1, <3>2, <3>3, OtherForksKept
  <2>2. ForkOK(c)'
    BY <1>1, <1>3, <1>6 DEF ForkOK, ForkLabel
  <2>3. \A t \in Task : InAlloc(t)' => InAlloc(t)
    BY <1>1, <1>6 DEF InAlloc
  <2>4. SlotNotShared'
    BY <1>6, <1>8, <1>9 DEF SlotNotShared
  <2> QED
    BY <1>8, <2>1, <2>2, <2>3, <2>4 DEF Forks
<1>11. Families'
  BY <1>1, <1>5, <1>6, FamiliesKept
<1> QED
  BY <1>5, <1>7, <1>10, <1>11 DEF LInv

(* The slot found is still free when the mutex has been released.           *)
LEMMA ForkUnlockInv ==
  ASSUME LInv, ForkUnlock
  PROVE  LInv'
<1> PICK c : c = os.curr
  OBVIOUS
<1>1. PICK b \in {"user", "fork_init"} :
        b = IF child[c] = NoTask THEN "user" ELSE "fork_init"
  OBVIOUS
<1>2. /\ InSyscall /\ pc[c] = "fork_unlock" /\ pc' = [pc EXCEPT ![c] = b]
      /\ mutex_unlock(TableMutex)
      /\ UNCHANGED <<named, parent, at, child, moved>>
  BY <1>1 DEF ForkUnlock, Goto, me
<1>3. c \in Task /\ pc \in [Task -> Label]
  BY <1>2, CallerState DEF LInv, LifecycleTypeOK
<1>4. Moves /\ Inside' = Inside \ {c}
  BY <1>2, UnlockMoves
<1>5. /\ Types' /\ LockShape' /\ Places'
      /\ \A t \in Task : AtTable(t)' <=> t \in Inside'
      /\ pc' \in [Task -> Label]
      /\ \A t \in Task : pc'[t] = "dead" <=> pc[t] = "dead"
      /\ \A u \in Task : os.state[u] = "CREATED" => os'.state[u] = "CREATED"
  <2>1. b \in Label \ {"dead"} /\ b \notin TableLabel
    BY DEF Label, TableLabel
  <2>2. named' = named
    BY <1>2
  <2> QED
    BY <1>2, <1>4, <2>1, <2>2, CallStep
<1>6. pc'[c] = b /\ \A t \in Task \ {c} : pc'[t] = pc[t]
  BY <1>2, <1>3
<1>7. LifecycleTypeOK'
  BY <1>2, <1>5 DEF LInv, LifecycleTypeOK
<1>8. /\ \A t \in Task : ForkOK(t)
      /\ \A t, u \in Task : InAlloc(t) /\ InAlloc(u) => t = u
      /\ SlotNotShared
  BY DEF LInv, Forks
<1>9. Forks'
  <2>1. \A t \in Task \ {c} : ForkOK(t)'
    <3>1. \A t \in Task : pc[t] = "fork_start" => parent'[child[t]] = t
      BY <1>2, <1>8 DEF ForkOK
    <3>2. /\ named \subseteq named' /\ named' = named
          /\ \A t \in Task \ {c} : child'[t] = child[t]
          /\ \A t \in Task \ {c} : pc'[t] = pc[t] \/ (pc'[t] = "user" /\ pc[t] = "dead")
          /\ \A u \in Task \ {NoTask} : os.state[u] = "CREATED" => os'.state[u] = "CREATED"
          /\ \A t \in Task \ {c} : child[t] # NoTask \/ child[t] = NoTask
      BY <1>2, <1>5, <1>6
    <3> QED
      BY <1>3, <3>1, <3>2, OtherForksKept
  <2>2. ForkOK(c)'
    BY <1>1, <1>2, <1>3, <1>6, <1>8 DEF ForkOK, ForkLabel
  <2>3. \A t \in Task : InAlloc(t)' => InAlloc(t)
    BY <1>2, <1>6 DEF InAlloc
  <2>4. SlotNotShared'
    BY <1>2, <1>8 DEF SlotNotShared
  <2> QED
    BY <1>8, <2>1, <2>2, <2>3, <2>4 DEF Forks
<1>10. Families'
  BY <1>1, <1>2, <1>5, <1>6, FamiliesKept
<1> QED
  BY <1>5, <1>7, <1>9, <1>10 DEF LInv

Cleared(k, d, x) ==
  [k EXCEPT !.state[d] = "CREATED", !.sleepTicks[d] = 0, !.slice[d] = x]

(* Writing the fields of a slot that is in no list.                         *)
LEMMA SetSlotPlaced ==
  ASSUME NEW k, Placed(k), NEW d \in Task, d \notin Listed(k), NEW x \in Nat,
         NEW n, n = Cleared(k, d, x)
  PROVE  /\ Placed(n) /\ Listed(n) = Listed(k)
         /\ n.curr = k.curr /\ n.ready = k.ready
         /\ n.state = [k.state EXCEPT ![d] = "CREATED"]
         /\ n.slice = [k.slice EXCEPT ![d] = x]
<1>1. /\ k \in Scheduling /\ d # Idle /\ Listed(k) \subseteq Task
      /\ k.slice \in [Task \cup {Idle} -> Nat]
      /\ k.state \in [Task \cup {Idle} -> TaskState]
      /\ k.sleepTicks \in [Task -> Nat]
  BY SchedulerAssumption, ListedAreTasks DEF Placed, WellFormed, Scheduling, Listed
<1>2. /\ n \in Scheduling /\ n.curr = k.curr /\ n.ready = k.ready
      /\ n.asleep = k.asleep
      /\ n.sleepTicks = [k.sleepTicks EXCEPT ![d] = 0]
      /\ n.state = [k.state EXCEPT ![d] = "CREATED"]
      /\ n.slice = [k.slice EXCEPT ![d] = x]
  BY <1>1 DEF Scheduling, TaskState, Cleared
<1>3. Listed(n) = Listed(k) /\ WellFormed(n)
  BY <1>2 DEF Placed, WellFormed, Listed
<1>4. SleepersPositive(n)
  BY <1>1, <1>2 DEF Placed, SleepersPositive, Listed
<1>5. n.slice[Idle] \in 1..TimeSlice
  BY <1>1, <1>2 DEF Placed
<1>6. \A u \in Listed(n) : n.state[u] \notin Passive /\ n.slice[u] \in 1..TimeSlice
  <2> SUFFICES ASSUME NEW u \in Listed(k)
               PROVE  n.state[u] \notin Passive /\ n.slice[u] \in 1..TimeSlice
    BY <1>3
  <2>1. u # d /\ u \in Task
    BY <1>1
  <2>2. n.state[u] = k.state[u] /\ n.slice[u] = k.slice[u]
    BY <1>1, <1>2, <2>1
  <2> QED
    BY <2>2 DEF Placed
<1> QED
  BY <1>2, <1>3, <1>4, <1>5, <1>6 DEF Placed

(* task_init of the slot found: it has a name and a slice, and is nobody's  *)
(* child yet.                                                               *)
LEMMA ForkInitInv ==
  ASSUME LInv, ForkInit
  PROVE  LInv'
<1> PICK c, d : c = os.curr /\ d = child[c]
  OBVIOUS
<1>1. /\ InSyscall /\ pc[c] = "fork_init" /\ pc' = [pc EXCEPT ![c] = "fork_link"]
      /\ named' = named \cup {d}
      /\ parent' = [parent EXCEPT ![d] = NoTask]
      /\ os' = [os EXCEPT !.state[d] = "CREATED", !.sleepTicks[d] = 0,
                          !.slice[d] = TimeSlice]
      /\ UNCHANGED <<ipc, at, child, moved>>
  BY DEF ForkInit, Goto, me
<1>2. /\ c \in Task /\ pc \in [Task -> Label] /\ Base
      /\ parent \in [Task -> Task \cup {NoTask}]
      /\ c \in Inside <=> pc[c] \in TableLabel
  BY <1>1, CallerState, CallerInside, BaseHolds DEF LInv, LifecycleTypeOK
<1>3. /\ \A t \in Task : ForkOK(t)
      /\ \A t, u \in Task : InAlloc(t) /\ InAlloc(u) => t = u
      /\ SlotNotShared
  BY DEF LInv, Forks
<1>4. d \in Slot \ named /\ d \in Task /\ d # NoTask
  <2>1. Slot \subseteq Task
    BY LifecycleAssumption, ListedAreTasks DEF Slot
  <2> QED
    BY <1>1, <1>2, <1>3, <2>1, IpcAssumption DEF ForkOK
<1>5. /\ os.state[d] = "CREATED" /\ d \notin Listed(os) /\ pc[d] = "dead"
  <2>1. InPlace(d)
    BY <1>4 DEF LInv, Places
  <2> QED
    BY <1>4, <2>1 DEF InPlace, Present, Passive
<1>6. /\ Placed(os') /\ Listed(os') = Listed(os)
      /\ os'.curr = os.curr /\ os'.ready = os.ready
      /\ os'.state = [os.state EXCEPT ![d] = "CREATED"]
      /\ os'.slice = [os.slice EXCEPT ![d] = TimeSlice]
  <2>1. Placed(os) /\ d \in Task /\ d \notin Listed(os) /\ TimeSlice \in Nat
    BY <1>2, <1>4, <1>5, SchedulerAssumption DEF Base
  <2>2. os' = Cleared(os, d, TimeSlice)
    BY <1>1 DEF Cleared
  <2> QED
    BY <2>1, <2>2, SetSlotPlaced
<1>7. /\ Kept(os, os', {}) /\ os'.slice[d] \in 1..TimeSlice
      /\ os'.curr = task_next_run(os')
  <2>1. /\ os.state \in [Task \cup {Idle} -> TaskState]
        /\ os.slice \in [Task \cup {Idle} -> Nat]
        /\ os.curr = task_next_run(os)
    BY <1>2 DEF Base, Placed, WellFormed, Scheduling, CurrentIsFirst
  <2>2. os'.slice[d] \in 1..TimeSlice
    BY <1>4, <1>6, <2>1, SchedulerAssumption
  <2>3. os'.state = os.state
    BY <1>4, <1>5, <1>6, <2>1
  <2>4. \A t \in Task : os'.slice[t] = os.slice[t] \/ os'.slice[t] \in 1..TimeSlice
    BY <1>6, <2>1, <2>2
  <2> QED
    BY <1>6, <2>1, <2>2, <2>3, <2>4 DEF Kept, task_next_run
<1>8. Moves /\ Inside' = Inside
  BY <1>1, <1>2, <1>6, <1>7, SchedulerMoves
<1>9. /\ Types' /\ LockShape' /\ Places'
      /\ \A t \in Task : AtTable(t)' <=> t \in Inside'
      /\ pc' \in [Task -> Label]
      /\ \A t \in Task : pc'[t] = "dead" <=> pc[t] = "dead"
      /\ \A u \in Task : os.state[u] = "CREATED" => os'.state[u] = "CREATED"
  <2>1. /\ "fork_link" \in Label \ {"dead"} /\ "fork_link" \notin TableLabel
        /\ c \notin Inside
    BY <1>1, <1>2 DEF Label, TableLabel
  <2>2. named \subseteq named' /\ \A t \in named' \ named : os'.slice[t] \in 1..TimeSlice
    BY <1>1, <1>7
  <2>3. Inside' = Inside \ {c}
    BY <1>8, <2>1
  <2> QED
    BY <1>1, <1>8, <2>1, <2>2, <2>3, CallStep
<1>10. /\ pc'[c] = "fork_link" /\ \A t \in Task \ {c} : pc'[t] = pc[t]
       /\ parent'[d] = NoTask /\ \A t \in Task \ {d} : parent'[t] = parent[t]
       /\ parent' \in [Task -> Task \cup {NoTask}]
  BY <1>1, <1>2, <1>4
<1>11. LifecycleTypeOK'
  BY <1>1, <1>4, <1>9, <1>10 DEF LInv, LifecycleTypeOK
<1>12. Forks'
  <2>1. \A t \in Task \ {c} : ForkOK(t)'
    <3>1. ASSUME NEW t \in Task, pc[t] = "fork_start"
          PROVE  parent'[child[t]] = t
      <4>1. child[t] \in named /\ child[t] \in Task /\ parent[child[t]] = t
        <5>1. Slot \subseteq Task
          BY LifecycleAssumption, ListedAreTasks DEF Slot
        <5> QED
          BY <1>3, <3>1, <5>1 DEF ForkOK
      <4> QED
        BY <1>4, <1>10, <4>1
    <3>2. /\ named \subseteq named' /\ InAlloc(c)
          /\ \A t \in Task \ {c} : child'[t] = child[t]
          /\ \A t \in Task \ {c} : pc'[t] = pc[t] \/ (pc'[t] = "user" /\ pc[t] = "dead")
          /\ \A u \in Task \ {NoTask} : os.state[u] = "CREATED" => os'.state[u] = "CREATED"
          /\ \A t \in Task \ {c} : child[t] # NoTask \/ child[t] = NoTask
      BY <1>1, <1>9, <1>10 DEF InAlloc
    <3> QED
      BY <1>2, <3>1, <3>2, OtherForksKept
  <2>2. ForkOK(c)'
    <3>1. child'[c] = d /\ d \in Slot \cap named' /\ os'.state[d] = "CREATED"
      BY <1>1, <1>4, <1>5, <1>9
    <3> QED
      BY <1>10, <3>1 DEF ForkOK, ForkLabel
  <2>3. \A t \in Task : InAlloc(t)' => InAlloc(t)
    BY <1>1, <1>2, <1>10 DEF InAlloc
  <2>4. SlotNotShared'
    BY <1>1, <1>3 DEF SlotNotShared
  <2> QED
    BY <1>3, <2>1, <2>2, <2>3, <2>4 DEF Forks
<1>13. Families'
  <2>1. \A t \in Task : parent'[t] = parent[t] \/ (parent'[t] = NoTask /\ pc[t] = "dead")
    BY <1>5, <1>10
  <2> QED
    BY <1>1, <1>9, <1>10, <2>1, FamiliesKept
<1> QED
  BY <1>9, <1>11, <1>12, <1>13 DEF LInv

(* The child gets its parent before it is started.                          *)
LEMMA ForkLinkInv ==
  ASSUME LInv, ForkLink
  PROVE  LInv'
<1> PICK c, d : c = os.curr /\ d = child[c]
  OBVIOUS
<1>1. /\ InSyscall /\ pc[c] = "fork_link" /\ pc' = [pc EXCEPT ![c] = "fork_start"]
      /\ parent' = [parent EXCEPT ![d] = c]
      /\ UNCHANGED <<vars, named, at, child, moved>>
  BY DEF ForkLink, Goto, me
<1>2. /\ c \in Task /\ c # NoTask /\ pc \in [Task -> Label] /\ Base
      /\ parent \in [Task -> Task \cup {NoTask}]
      /\ c \in Inside <=> pc[c] \in TableLabel
  BY <1>1, CallerState, CallerInside, BaseHolds DEF LInv, LifecycleTypeOK
<1>3. /\ \A t \in Task : ForkOK(t)
      /\ \A t, u \in Task : InAlloc(t) /\ InAlloc(u) => t = u
      /\ SlotNotShared /\ Families
  BY DEF LInv, Forks
<1>4. /\ d \in Slot \cap named /\ d \in Task /\ d # NoTask
      /\ os.state[d] = "CREATED"
  <2>1. Slot \subseteq Task
    BY LifecycleAssumption, ListedAreTasks DEF Slot
  <2> QED
    BY <1>1, <1>2, <1>3, <2>1, IpcAssumption DEF ForkOK
<1>5. Moves /\ Inside' = Inside
  BY <1>1, <1>2, StillMoves
<1>6. /\ Types' /\ LockShape' /\ Places'
      /\ \A t \in Task : AtTable(t)' <=> t \in Inside'
      /\ pc' \in [Task -> Label]
      /\ \A t \in Task : pc'[t] = "dead" <=> pc[t] = "dead"
      /\ \A u \in Task : os.state[u] = "CREATED" => os'.state[u] = "CREATED"
  <2>1. /\ "fork_start" \in Label \ {"dead"} /\ "fork_start" \notin TableLabel
        /\ c \notin Inside
    BY <1>1, <1>2 DEF Label, TableLabel
  <2>2. named' = named
    BY <1>1
  <2>3. Inside' = Inside \ {c}
    BY <1>5, <2>1
  <2> QED
    BY <1>1, <1>5, <2>1, <2>2, <2>3, CallStep
<1>7. /\ pc'[c] = "fork_start" /\ \A t \in Task \ {c} : pc'[t] = pc[t]
      /\ parent'[d] = c /\ \A t \in Task \ {d} : parent'[t] = parent[t]
      /\ parent' \in [Task -> Task \cup {NoTask}]
  BY <1>1, <1>2, <1>4
<1>8. LifecycleTypeOK'
  BY <1>1, <1>6, <1>7 DEF LInv, LifecycleTypeOK
<1>9. Forks'
  <2>1. \A t \in Task \ {c} : ForkOK(t)'
    <3>1. ASSUME NEW t \in Task \ {c}
          PROVE  ForkOK(t)'
      <4>1. ForkOK(t) /\ (child[t] # NoTask => child[t] # d)
        BY <1>2, <1>3 DEF SlotNotShared
      <4>2. Slot \subseteq Task /\ NoTask \notin Slot
        BY LifecycleAssumption, ListedAreTasks, IpcAssumption DEF Slot
      <4>3. /\ pc'[t] = pc[t] /\ child' = child /\ named' = named
        BY <1>1, <1>7
      <4> QED
        BY <1>6, <1>7, <4>1, <4>2, <4>3 DEF ForkOK
    <3> QED
      BY <3>1
  <2>2. ForkOK(c)'
    <3>1. child'[c] = d /\ d \in Slot \cap named' /\ os'.state[d] = "CREATED"
      BY <1>1, <1>4, <1>6
    <3> QED
      BY <1>7, <3>1 DEF ForkOK, ForkLabel
  <2>3. \A t \in Task : InAlloc(t)' => InAlloc(t)
    BY <1>1, <1>2, <1>7 DEF InAlloc
  <2>4. SlotNotShared'
    BY <1>1, <1>3 DEF SlotNotShared
  <2> QED
    BY <1>3, <2>1, <2>2, <2>3, <2>4 DEF Forks
<1>10. Families'
  <2>1. \A t \in Task : parent'[t] # NoTask => t \in Slot /\ pc'[parent'[t]] # "dead"
    <3> SUFFICES ASSUME NEW t \in Task, parent'[t] # NoTask
                 PROVE  t \in Slot /\ pc'[parent'[t]] # "dead"
      OBVIOUS
    <3>1. CASE t = d
      BY <1>4, <1>7, <3>1
    <3>2. CASE t # d
      BY <1>2, <1>3, <1>6, <1>7, <3>2 DEF Families
    <3> QED
      BY <3>1, <3>2
  <2>2. \A t \in Task \ {First} : pc'[t] # "dead" => parent'[t] # NoTask
    BY <1>2, <1>3, <1>6, <1>7 DEF Families
  <2>3. pc'[First] \notin {"dead", "exit_scan", "exit_end"}
    BY <1>3, <1>7, SchedulerAssumption DEF Families
  <2>4. ASSUME NEW t \in Task, pc'[t] = "exit_scan", NEW i \in 1..(at'[t] - 1)
        PROVE  parent'[Table[i]] # t
    <3>1. t # c /\ pc[t] = "exit_scan" /\ at'[t] = at[t]
      BY <1>1, <1>7, <2>4
    <3>2. i \in 1..Len(Table)
      BY <2>4, <3>1, LenTable DEF LInv, LifecycleTypeOK
    <3>3. Table[i] \in Task /\ parent[Table[i]] # t
      BY <1>3, <2>4, <3>1, <3>2, LenTable DEF Families
    <3> QED
      BY <1>7, <3>1, <3>3
  <2>5. ASSUME NEW t \in Task, pc'[t] = "exit_end", NEW u \in Task
        PROVE  parent'[u] # t
    <3>1. t # c /\ pc[t] = "exit_end" /\ parent[u] # t
      BY <1>3, <1>7, <2>5 DEF Families
    <3> QED
      BY <1>7, <3>1
  <2> QED
    BY <2>1, <2>2, <2>3, <2>4, <2>5 DEF Families
<1> QED
  BY <1>6, <1>8, <1>9, <1>10 DEF LInv

(* task_start of the child: it is made ready once, and has a parent.        *)
LEMMA ForkStartInv ==
  ASSUME LInv, ForkStart
  PROVE  LInv'
<1> PICK c, d : c = os.curr /\ d = child[c]
  OBVIOUS
<1>1. /\ InSyscall /\ pc[c] = "fork_start"
      /\ pc' = [pc EXCEPT ![c] = "user", ![d] = "user"]
      /\ os' = task_set_ready(os, d)
      /\ child' = [child EXCEPT ![c] = NoTask]
      /\ mutex' = mutex /\ sem' = sem /\ waiters' = waiters
      /\ UNCHANGED <<named, parent, at, moved>>
  BY DEF ForkStart, me, ipc
<1>2. /\ c \in Task /\ c # NoTask /\ pc \in [Task -> Label] /\ Base
      /\ child \in [Task -> Slot \cup {NoTask}]
      /\ os.ready \in Seq(Task) /\ os.ready # <<>> /\ os.curr = Head(os.ready)
  BY <1>1, CallerState, CallerIsListed, BaseHolds DEF LInv, LifecycleTypeOK
<1>3. /\ \A t \in Task : ForkOK(t)
      /\ \A t, u \in Task : InAlloc(t) /\ InAlloc(u) => t = u
      /\ SlotNotShared /\ Families
  BY DEF LInv, Forks
<1>4. /\ d \in Slot \cap named /\ d \in Task /\ d # NoTask
      /\ os.state[d] = "CREATED" /\ parent[d] = c
  <2>1. Slot \subseteq Task
    BY LifecycleAssumption, ListedAreTasks DEF Slot
  <2> QED
    BY <1>1, <1>2, <1>3, <2>1, IpcAssumption DEF ForkOK
<1>5. /\ d \notin Present /\ pc[d] = "dead" /\ os.slice[d] \in 1..TimeSlice
      /\ d # c
  <2>1. InPlace(d)
    BY <1>4 DEF LInv, Places
  <2> QED
    BY <1>1, <1>4, <2>1 DEF InPlace, Passive
<1>6. /\ Placed(os') /\ Listed(os') = Listed(os) \cup {d}
      /\ os'.curr = os.curr /\ os'.ready = Append(os.ready, d)
      /\ os'.slice = os.slice
      /\ os'.state = [os.state EXCEPT ![d] = "READY"]
  <2>1. Placed(os) /\ d \notin Listed(os)
    BY <1>2, <1>5 DEF Base, Present
  <2>2. PICK n : n = task_set_ready(os, d)
    OBVIOUS
  <2>3. /\ Placed(n) /\ Listed(n) = Listed(os) \cup {d}
        /\ n.curr = os.curr /\ n.ready = Append(os.ready, d)
        /\ n.slice = os.slice
        /\ n.state = [os.state EXCEPT ![d] = "READY"]
    BY <1>4, <1>5, <2>1, <2>2, SetReadyPlaced
  <2>4. os' = n
    BY <1>1, <2>2
  <2> QED
    BY <2>3, <2>4
<1>7. /\ Owner' = Owner /\ Queue' = Queue /\ Inside' = Inside
      /\ Present' = Present \cup {d}
  BY <1>1, <1>6 DEF Owner, Queue, Inside, Present
<1>8. CurrentIsFirst'
  <2>1. os'.ready # <<>> /\ Head(os'.ready) = Head(os.ready)
    BY <1>2, <1>4, <1>6, AppendProperties, HeadTailAppend
  <2> QED
    BY <1>2, <1>6, <2>1 DEF CurrentIsFirst, task_next_run
<1>9. Types' /\ LockShape'
  BY <1>1, <1>2, <1>6, <1>7 DEF Base, Types, LockShape, Placed, WellFormed
<1>10. /\ pc'[c] = "user" /\ pc'[d] = "user"
       /\ \A t \in Task \ {c, d} : pc'[t] = pc[t]
       /\ child'[c] = NoTask /\ \A t \in Task \ {c} : child'[t] = child[t]
       /\ pc' \in [Task -> Label]
       /\ child' \in [Task -> Slot \cup {NoTask}]
  <2>1. "user" \in Label
    BY DEF Label
  <2> QED
    BY <1>1, <1>2, <1>4, <1>5, <2>1
<1>11. LifecycleTypeOK'
  BY <1>1, <1>9, <1>10 DEF LInv, LifecycleTypeOK
<1>12. ASSUME NEW t \in Task
       PROVE  AtTable(t)' <=> t \in Inside'
  <2>1. AtTable(t) <=> t \in Inside
    BY DEF LInv
  <2>2. CASE t \in {c, d}
    BY <1>1, <1>5, <1>7, <1>10, <2>1, <2>2 DEF AtTable, TableLabel
  <2>3. CASE t \notin {c, d}
    BY <1>7, <1>10, <2>1, <2>3 DEF AtTable
  <2> QED
    BY <2>2, <2>3
<1>13. os.state \in [Task \cup {Idle} -> TaskState]
  BY <1>2 DEF Base, Placed, WellFormed, Scheduling
<1>14. Places'
  <2>1. (ToSet(Queue) \cap Listed(os) = {})'
    BY <1>2, <1>5, <1>6, <1>7 DEF Base, Present
  <2>2. ASSUME NEW t \in Task
        PROVE  InPlace(t)'
    <3>1. InPlace(t)
      BY DEF LInv, Places
    <3>2. CASE t = d
      <4>1. os'.state[t] = "READY" /\ t \in Present' /\ pc'[t] = "user"
            /\ t \in named' /\ os'.slice[t] \in 1..TimeSlice
        BY <1>1, <1>4, <1>5, <1>6, <1>7, <1>10, <1>13, <3>2
      <4> QED
        BY <4>1 DEF InPlace, Passive
    <3>3. CASE t # d
      <4>1. /\ os'.state[t] = os.state[t] /\ os'.slice[t] = os.slice[t]
            /\ t \in Present' <=> t \in Present
            /\ named' = named
        BY <1>1, <1>6, <1>7, <1>13, <3>3
      <4>2. CASE t = c
        <5>1. pc[t] = "fork_start" /\ pc'[t] = "user"
          BY <1>1, <1>10, <4>2
        <5> QED
          BY <3>1, <4>1, <5>1 DEF InPlace
      <4>3. CASE t # c
        <5>1. pc'[t] = pc[t]
          BY <1>10, <3>3, <4>3
        <5> QED
          BY <3>1, <4>1, <5>1 DEF InPlace
      <4> QED
        BY <4>2, <4>3
    <3> QED
      BY <3>2, <3>3
  <2> QED
    BY <1>6, <1>8, <2>1, <2>2 DEF Places
<1>15. Forks'
  <2>1. \A t \in Task \ {c} : ForkOK(t)'
    <3>1. \A t \in Task : pc[t] = "fork_start" => parent'[child[t]] = t
      BY <1>1, <1>3 DEF ForkOK
    <3>2. /\ named \subseteq named' /\ named' = named
          /\ \A t \in Task \ {c} : child'[t] = child[t]
          /\ \A t \in Task \ {c} : pc'[t] = pc[t] \/ (pc'[t] = "user" /\ pc[t] = "dead")
      BY <1>1, <1>5, <1>10
    <3>3. \A u \in Task \ {d} : os.state[u] = "CREATED" => os'.state[u] = "CREATED"
      BY <1>6, <1>13
    <3>4. \A t \in Task \ {c} : child[t] # d \/ child[t] = NoTask
      BY <1>2, <1>3 DEF SlotNotShared
    <3> QED
      BY <1>2, <3>1, <3>2, <3>3, <3>4, OtherForksKept
  <2>2. ForkOK(c)'
    BY <1>10 DEF ForkOK, ForkLabel
  <2>3. \A t \in Task : InAlloc(t)' => InAlloc(t)
    BY <1>10 DEF InAlloc
  <2>4. SlotNotShared'
    BY <1>3, <1>10 DEF SlotNotShared
  <2> QED
    BY <1>3, <2>1, <2>2, <2>3, <2>4 DEF Forks
<1>16. Families'
  <2>1. ASSUME NEW t \in Task
        PROVE  /\ pc'[t] = "dead" => pc[t] = "dead"
               /\ pc'[t] \in {"exit_scan", "exit_end"} => pc'[t] = pc[t]
               /\ pc[t] = "dead" => pc'[t] = "dead" \/ t = d
    BY <1>1, <1>10
  <2>2. \A t \in Task : parent[t] # NoTask => t \in Slot /\ pc'[parent[t]] # "dead"
    <3> SUFFICES ASSUME NEW t \in Task, parent[t] # NoTask
                 PROVE  t \in Slot /\ pc'[parent[t]] # "dead"
      OBVIOUS
    <3>1. t \in Slot /\ pc[parent[t]] # "dead" /\ parent[t] \in Task
      BY <1>3 DEF Families, LInv, LifecycleTypeOK
    <3> QED
      BY <2>1, <3>1
  <2>3. \A t \in Task \ {First} : pc'[t] # "dead" => parent[t] # NoTask
    BY <1>2, <1>3, <1>4, <2>1 DEF Families
  <2>4. pc'[First] \notin {"dead", "exit_scan", "exit_end"}
    BY <1>3, <2>1, SchedulerAssumption DEF Families
  <2>5. \A t \in Task : pc'[t] = "exit_scan" =>
          \A i \in 1..(at[t] - 1) : parent[Table[i]] # t
    BY <1>3, <2>1 DEF Families
  <2>6. \A t \in Task : pc'[t] = "exit_end" => \A u \in Task : parent[u] # t
    BY <1>3, <2>1 DEF Families
  <2> QED
    BY <1>1, <2>2, <2>3, <2>4, <2>5, <2>6 DEF Families
<1> QED
  BY <1>11, <1>9, <1>12, <1>14, <1>15, <1>16 DEF LInv

-----------------------------------------------------------------------------
(* The slot of a zombie is free again, and nobody had it as a parent.       *)
LEMMA WaitReapInv ==
  ASSUME LInv, WaitReap
  PROVE  LInv'
<1> PICK c, s : c = os.curr /\ s = Table[at[c]]
  OBVIOUS
<1>1. /\ InSyscall /\ pc[c] = "wait_scan" /\ pc' = [pc EXCEPT ![c] = "wait_return"]
      /\ ~ (at[c] > Len(Table)) /\ parent[s] = c /\ os.state[s] = "ZOMBIE"
      /\ os' = Cleared(os, s, 0)
      /\ named' = named \ {s} /\ parent' = [parent EXCEPT ![s] = NoTask]
      /\ mutex' = mutex /\ sem' = sem /\ waiters' = waiters
      /\ UNCHANGED <<at, child, moved>>
  BY DEF WaitReap, Goto, Reap, Scanned, ScanEnds, Zombie, me, Cleared, ipc
<1>2. /\ c \in Task /\ pc \in [Task -> Label] /\ Base
      /\ parent \in [Task -> Task \cup {NoTask}]
      /\ at \in [Task -> 1..(Len(Table) + 1)]
      /\ os.state[c] \notin Passive
  BY <1>1, CallerState, BaseHolds DEF LInv, LifecycleTypeOK
<1>3. s \in Task
  <2>1. at[c] \in 1..Len(Table)
    BY <1>1, <1>2, LenTable
  <2> QED
    BY <2>1, LenTable
<1>4. s \notin Present /\ pc[s] = "dead" /\ s # c
  <2>1. InPlace(s)
    BY <1>3 DEF LInv, Places
  <2> QED
    BY <1>1, <1>2, <2>1 DEF InPlace, Passive
<1>5. /\ Placed(os') /\ Listed(os') = Listed(os)
      /\ os'.curr = os.curr /\ os'.ready = os.ready
      /\ os'.state = [os.state EXCEPT ![s] = "CREATED"]
      /\ os'.slice = [os.slice EXCEPT ![s] = 0]
  <2>1. Placed(os) /\ s \notin Listed(os)
    BY <1>2, <1>4 DEF Base, Present
  <2>2. PICK n : n = Cleared(os, s, 0)
    OBVIOUS
  <2>3. /\ Placed(n) /\ Listed(n) = Listed(os)
        /\ n.curr = os.curr /\ n.ready = os.ready
        /\ n.state = [os.state EXCEPT ![s] = "CREATED"]
        /\ n.slice = [os.slice EXCEPT ![s] = 0]
    BY <1>3, <2>1, <2>2, SetSlotPlaced
  <2>4. os' = n
    BY <1>1, <2>2
  <2> QED
    BY <2>3, <2>4
<1>6. /\ Owner' = Owner /\ Queue' = Queue /\ Inside' = Inside
      /\ Present' = Present
  BY <1>1, <1>5 DEF Owner, Queue, Inside, Present
<1>7. /\ os.state \in [Task \cup {Idle} -> TaskState]
      /\ os.slice \in [Task \cup {Idle} -> Nat]
  BY <1>2 DEF Base, Placed, WellFormed, Scheduling
<1>8. /\ os'.state[s] = "CREATED"
      /\ \A t \in Task \ {s} : os'.state[t] = os.state[t] /\ os'.slice[t] = os.slice[t]
  BY <1>3, <1>5, <1>7
<1>9. Types' /\ LockShape' /\ CurrentIsFirst'
  BY <1>1, <1>2, <1>5, <1>6
  DEF Base, Types, LockShape, Placed, WellFormed, CurrentIsFirst, task_next_run
<1>10. /\ pc'[c] = "wait_return" /\ \A t \in Task \ {c} : pc'[t] = pc[t]
       /\ pc' \in [Task -> Label]
       /\ parent'[s] = NoTask /\ \A t \in Task \ {s} : parent'[t] = parent[t]
       /\ parent' \in [Task -> Task \cup {NoTask}]
  BY <1>1, <1>2, <1>3 DEF Label
<1>11. LifecycleTypeOK'
  BY <1>1, <1>9, <1>10 DEF LInv, LifecycleTypeOK
<1>12. ASSUME NEW t \in Task
       PROVE  AtTable(t)' <=> t \in Inside'
  <2>1. AtTable(t) <=> t \in Inside
    BY DEF LInv
  <2>2. CASE t = c
    BY <1>1, <1>6, <1>10, <2>1, <2>2 DEF AtTable, TableLabel
  <2>3. CASE t # c
    BY <1>6, <1>10, <2>1, <2>3 DEF AtTable
  <2> QED
    BY <2>2, <2>3
<1>13. Places'
  <2>1. (ToSet(Queue) \cap Listed(os) = {})'
    BY <1>2, <1>5, <1>6 DEF Base
  <2>2. ASSUME NEW t \in Task
        PROVE  InPlace(t)'
    <3>1. InPlace(t)
      BY DEF LInv, Places
    <3>2. CASE t = s
      <4>1. /\ os'.state[t] = "CREATED" /\ t \notin Present' /\ pc'[t] = "dead"
            /\ t \notin named'
        BY <1>1, <1>4, <1>6, <1>8, <1>10, <3>2
      <4> QED
        BY <4>1 DEF InPlace, Passive
    <3>3. CASE t # s
      <4>1. /\ os'.state[t] = os.state[t] /\ os'.slice[t] = os.slice[t]
            /\ t \in Present' <=> t \in Present
            /\ t \in named' <=> t \in named
        BY <1>1, <1>6, <1>8, <3>3
      <4>2. pc'[t] = pc[t] \/ (pc[t] = "wait_scan" /\ pc'[t] = "wait_return")
        BY <1>1, <1>10
      <4> QED
        BY <3>1, <4>1, <4>2 DEF InPlace
    <3> QED
      BY <3>2, <3>3
  <2> QED
    BY <1>5, <1>9, <2>1, <2>2 DEF Places
<1>14. Forks'
  <2>1. ASSUME NEW t \in Task, pc[t] \in {"fork_link", "fork_start"}
        PROVE  /\ child[t] \in named' /\ child[t] # s /\ child[t] \in Task
               /\ pc[t] = "fork_start" => parent[child[t]] = t
    <3>1. ForkOK(t) /\ Slot \subseteq Task
      BY LifecycleAssumption, ListedAreTasks DEF Slot, LInv, Forks
    <3> QED
      BY <1>1, <2>1, <3>1 DEF ForkOK
  <2>2. \A t \in Task : pc[t] = "fork_start" => parent'[child[t]] = t
    BY <1>10, <2>1
  <2>3. \A t \in Task : \/ pc'[t] = pc[t]
                        \/ /\ {pc[t], pc'[t]} \cap ForkLabel = {}
                           /\ pc'[t] # "fork_scan"
    BY <1>1, <1>10 DEF ForkLabel
  <2>4. \A u \in Task : os.state[u] = "CREATED" => os'.state[u] = "CREATED"
    BY <1>8
  <2>5. child' = child /\ named' \subseteq named
    BY <1>1
  <2> QED
    BY <2>1, <2>2, <2>3, <2>4, <2>5, ForksKept
<1>15. Families'
  <2>1. \A t \in Task : parent'[t] = parent[t] \/ (parent'[t] = NoTask /\ pc[t] = "dead")
    BY <1>4, <1>10
  <2>2. \A t \in Task : /\ pc'[t] = "dead" <=> pc[t] = "dead"
                        /\ pc'[t] = "exit_scan" => pc[t] = "exit_scan" /\ at'[t] = at[t]
                        /\ pc'[t] = "exit_end" => pc[t] = "exit_end"
    BY <1>1, <1>10
  <2> QED
    BY <2>1, <2>2, FamiliesKept
<1> QED
  BY <1>9, <1>11, <1>12, <1>13, <1>14, <1>15 DEF LInv

StateSet(k, t, x) == [k EXCEPT !.state[t] = x]

(* Writing the state of a task that is in no list.                          *)
LEMMA SetStatePlaced ==
  ASSUME NEW k, Placed(k), NEW t \in Task, t \notin Listed(k), NEW x \in TaskState,
         NEW n, n = StateSet(k, t, x)
  PROVE  /\ Placed(n) /\ Listed(n) = Listed(k)
         /\ n.curr = k.curr /\ n.ready = k.ready /\ n.slice = k.slice
         /\ n.state = [k.state EXCEPT ![t] = x]
<1>1. /\ k \in Scheduling /\ t # Idle /\ Listed(k) \subseteq Task
      /\ k.state \in [Task \cup {Idle} -> TaskState]
  BY SchedulerAssumption, ListedAreTasks DEF Placed, WellFormed, Scheduling, Listed
<1>2. /\ n \in Scheduling /\ n.curr = k.curr /\ n.ready = k.ready
      /\ n.asleep = k.asleep /\ n.sleepTicks = k.sleepTicks
      /\ n.slice = k.slice
      /\ n.state = [k.state EXCEPT ![t] = x]
  BY <1>1 DEF Scheduling, StateSet
<1>3. Listed(n) = Listed(k) /\ WellFormed(n)
  BY <1>2 DEF Placed, WellFormed, Listed
<1>4. SleepersPositive(n)
  BY <1>2 DEF Placed, SleepersPositive
<1>5. \A u \in Listed(n) : n.state[u] \notin Passive /\ n.slice[u] \in 1..TimeSlice
  <2> SUFFICES ASSUME NEW u \in Listed(k)
               PROVE  n.state[u] \notin Passive /\ n.slice[u] \in 1..TimeSlice
    BY <1>3
  <2>1. n.state[u] = k.state[u] /\ n.slice[u] = k.slice[u]
    BY <1>1, <1>2
  <2> QED
    BY <2>1 DEF Placed
<1> QED
  BY <1>2, <1>3, <1>4, <1>5 DEF Placed

\* What task_set_block, a new state x and task_dispatch make of the running task.
Left(k, c, x, n) ==
  /\ Placed(n) /\ Listed(n) = Listed(k) \ {c}
  /\ n.curr = task_next_run(n)
  /\ Kept(k, n, {c}) /\ n.state[c] = x
  /\ \A t \in Task : n.slice[t] = k.slice[t]

(* The running task leaves the processor with the state x, in no list.      *)
LEMMA LeaveProcessor ==
  ASSUME NEW k, Placed(k), NEW c \in ToSet(k.ready), NEW x \in TaskState, NEW n,
         n = task_dispatch(StateSet(task_set_block(k, c), c, x))
  PROVE  Left(k, c, x, n)
<1>1. PICK b : b = task_set_block(k, c)
  OBVIOUS
<1>2. /\ Placed(b) /\ Listed(b) = Listed(k) \ {c} /\ c \in Task
      /\ b.curr = k.curr /\ b.slice = k.slice /\ b.state = k.state
  BY <1>1, SetBlockPlaced
<1>3. PICK z : z = StateSet(b, c, x)
  OBVIOUS
<1>4. /\ Placed(z) /\ Listed(z) = Listed(b) /\ z.slice = b.slice
      /\ z.state = [b.state EXCEPT ![c] = x]
  BY <1>2, <1>3, SetStatePlaced
<1>5. n = task_dispatch(z)
  BY <1>1, <1>3
<1>6. /\ Placed(n) /\ Listed(n) = Listed(z)
      /\ n.curr = task_next_run(n) /\ n.slice = z.slice
      /\ Kept(z, n, {})
      /\ \A t \in Task \ Listed(z) : task_dispatch(z).state[t] = z.state[t]
  BY <1>4, <1>5, DispatchPlaced
<1>7. k.state \in [Task \cup {Idle} -> TaskState]
  BY DEF Placed, WellFormed, Scheduling
<1>8. z.state[c] = x /\ \A t \in Task \ {c} : z.state[t] = k.state[t]
  BY <1>2, <1>4, <1>7
<1>9. Kept(k, n, {c})
  BY <1>2, <1>4, <1>6, <1>8 DEF Kept
<1>10. n.state[c] = x
  BY <1>2, <1>4, <1>5, <1>6, <1>8
<1> QED
  BY <1>2, <1>4, <1>6, <1>9, <1>10 DEF Left

(* sys_wait blocks: the caller is in no list, and its state says so.        *)
LEMMA WaitBlockInv ==
  ASSUME LInv, WaitBlock
  PROVE  LInv'
<1> PICK c : c = os.curr
  OBVIOUS
<1>1. /\ InSyscall /\ pc[c] = "wait_block" /\ pc' = [pc EXCEPT ![c] = "wait_lock"]
      /\ os' = task_dispatch(StateSet(task_set_block(os, c), c, "WAITTING"))
      /\ mutex' = mutex /\ sem' = sem /\ waiters' = waiters
      /\ UNCHANGED <<named, parent, at, child, moved>>
  BY DEF WaitBlock, Goto, StateSet, me, ipc
<1>2. /\ c \in Task /\ pc \in [Task -> Label] /\ Base /\ Placed(os)
      /\ c \in ToSet(os.ready) /\ c \in Listed(os) /\ c \notin ToSet(Queue)
      /\ os.state[c] \notin Passive /\ c \in named
      /\ os.slice[c] \in 1..TimeSlice
  BY <1>1, CallerState, BaseHolds DEF LInv, LifecycleTypeOK, Base
<1>3. /\ Placed(os') /\ Listed(os') = Listed(os) \ {c}
      /\ os'.curr = task_next_run(os')
      /\ Kept(os, os', {c}) /\ os'.state[c] = "WAITTING"
      /\ \A t \in Task : os'.slice[t] = os.slice[t]
  <2>1. PICK n : n = task_dispatch(StateSet(task_set_block(os, c), c, "WAITTING"))
    OBVIOUS
  <2>2. "WAITTING" \in TaskState
    BY DEF TaskState
  <2>3. Left(os, c, "WAITTING", n)
    BY <1>2, <2>1, <2>2, LeaveProcessor
  <2>4. os' = n
    BY <1>1, <2>1
  <2> QED
    BY <2>3, <2>4 DEF Left
<1>4. /\ Owner' = Owner /\ Queue' = Queue /\ Inside' = Inside
      /\ Present' = Present \ {c}
  BY <1>1, <1>2, <1>3 DEF Owner, Queue, Inside, Present
<1>5. Types' /\ LockShape' /\ CurrentIsFirst'
  BY <1>1, <1>2, <1>3, <1>4
  DEF Base, Types, LockShape, Placed, WellFormed, CurrentIsFirst
<1>6. /\ pc'[c] = "wait_lock" /\ \A t \in Task \ {c} : pc'[t] = pc[t]
      /\ pc' \in [Task -> Label]
  BY <1>1, <1>2 DEF Label
<1>7. LifecycleTypeOK'
  BY <1>1, <1>5, <1>6 DEF LInv, LifecycleTypeOK
<1>8. ASSUME NEW t \in Task
      PROVE  AtTable(t)' <=> t \in Inside'
  <2>1. AtTable(t) <=> t \in Inside
    BY DEF LInv
  <2>2. CASE t = c
    BY <1>1, <1>4, <1>6, <2>1, <2>2 DEF AtTable, TableLabel
  <2>3. CASE t # c
    BY <1>4, <1>6, <2>1, <2>3 DEF AtTable
  <2> QED
    BY <2>2, <2>3
<1>9. Places'
  <2>1. (ToSet(Queue) \cap Listed(os) = {})'
    BY <1>2, <1>3, <1>4 DEF Base
  <2>2. ASSUME NEW t \in Task
        PROVE  InPlace(t)'
    <3>1. InPlace(t)
      BY DEF LInv, Places
    <3>2. CASE t = c
      <4>1. /\ os'.state[t] = "WAITTING" /\ t \notin Present'
            /\ pc'[t] = "wait_lock" /\ t \in named'
            /\ os'.slice[t] \in 1..TimeSlice
        BY <1>1, <1>2, <1>3, <1>4, <1>6, <3>2
      <4> QED
        BY <4>1 DEF InPlace, Passive
    <3>3. CASE t # c
      <4>1. /\ \/ os'.state[t] = os.state[t]
               \/ os'.state[t] \notin Passive /\ os.state[t] \notin Passive
            /\ os'.slice[t] = os.slice[t]
            /\ t \in Present' <=> t \in Present
            /\ named' = named /\ pc'[t] = pc[t]
        BY <1>1, <1>3, <1>4, <1>6, <3>3 DEF Kept
      <4> QED
        BY <3>1, <4>1 DEF InPlace, Passive
    <3> QED
      BY <3>2, <3>3
  <2> QED
    BY <1>3, <1>5, <2>1, <2>2 DEF Places
<1>10. \A u \in Task : os.state[u] = "CREATED" => os'.state[u] = "CREATED"
  BY <1>2, <1>3 DEF Kept, Passive
<1>11. Forks'
  <2>1. \A t \in Task : ForkOK(t)
    BY DEF LInv, Forks
  <2>2. /\ \A t \in Task : pc[t] \in {"fork_link", "fork_start"} => child[t] \in named'
        /\ \A t \in Task : pc[t] = "fork_start" => parent'[child[t]] = t
    BY <1>1, <2>1 DEF ForkOK
  <2>3. \A t \in Task : \/ pc'[t] = pc[t]
                        \/ /\ {pc[t], pc'[t]} \cap ForkLabel = {}
                           /\ pc'[t] # "fork_scan"
    BY <1>1, <1>6 DEF ForkLabel
  <2> QED
    BY <1>1, <1>10, <2>2, <2>3, ForksKept
<1>12. Families'
  <2>1. \A t \in Task : /\ pc'[t] = "dead" <=> pc[t] = "dead"
                        /\ pc'[t] = "exit_scan" => pc[t] = "exit_scan" /\ at'[t] = at[t]
                        /\ pc'[t] = "exit_end" => pc[t] = "exit_end"
    BY <1>1, <1>6
  <2> QED
    BY <1>1, <2>1, FamiliesKept
<1> QED
  BY <1>5, <1>7, <1>8, <1>9, <1>11, <1>12 DEF LInv

-----------------------------------------------------------------------------
(* sys_exit hands one child over, or goes past a slot.                      *)
LEMMA ExitScanInv ==
  ASSUME LInv, ExitScan
  PROVE  LInv'
<1> PICK c, s : c = os.curr /\ s = Table[at[c]]
  OBVIOUS
<1>1. /\ InSyscall /\ pc[c] = "exit_scan" /\ pc' = [pc EXCEPT ![c] = "exit_scan"]
      /\ ~ (at[c] > Len(Table)) /\ at' = [at EXCEPT ![c] = @ + 1]
      /\ IF parent[s] = c
         THEN /\ parent' = [parent EXCEPT ![s] = First]
              /\ moved' = [moved EXCEPT ![c] = @ \/ Zombie(s)]
         ELSE UNCHANGED <<parent, moved>>
      /\ UNCHANGED <<vars, named, child>>
  BY DEF ExitScan, Goto, me, ScanEnds, Scanned, NextSlot
<1>2. /\ c \in Task /\ pc \in [Task -> Label] /\ Base /\ c # NoTask
      /\ parent \in [Task -> Task \cup {NoTask}]
      /\ at \in [Task -> 1..(Len(Table) + 1)]
      /\ moved \in [Task -> BOOLEAN]
      /\ c \in Inside <=> pc[c] \in TableLabel
  BY <1>1, CallerState, CallerInside, BaseHolds DEF LInv, LifecycleTypeOK
<1>3. at[c] \in 1..Len(Table) /\ s \in Task /\ Len(Table) \in Nat
  BY <1>1, <1>2, LenTable
<1>4. Families /\ \A t \in Task : ForkOK(t)
  BY DEF LInv, Forks
<1>5. c # First /\ First \in Task
  BY <1>1, <1>4, SchedulerAssumption DEF Families
<1>6. Moves /\ Inside' = Inside
  BY <1>1, <1>2, StillMoves
<1>7. /\ Types' /\ LockShape' /\ Places'
      /\ \A t \in Task : AtTable(t)' <=> t \in Inside'
      /\ pc' \in [Task -> Label]
      /\ \A t \in Task : pc'[t] = "dead" <=> pc[t] = "dead"
      /\ \A u \in Task : os.state[u] = "CREATED" => os'.state[u] = "CREATED"
  <2>1. /\ "exit_scan" \in Label \ {"dead"} /\ "exit_scan" \in TableLabel
        /\ c \in Inside
    BY <1>1, <1>2 DEF Label, TableLabel
  <2>2. named' = named
    BY <1>1
  <2>3. Inside' = Inside \cup {c}
    BY <1>6, <2>1
  <2> QED
    BY <1>1, <1>6, <2>1, <2>2, <2>3, CallStep
<1>8. \A t \in Task : pc'[t] = pc[t]
  BY <1>1, <1>2
<1>9. /\ at'[c] = at[c] + 1 /\ \A t \in Task \ {c} : at'[t] = at[t]
      /\ at' \in [Task -> 1..(Len(Table) + 1)]
  BY <1>1, <1>2, <1>3
<1>10. /\ parent'[s] # c
       /\ \A t \in Task : \/ parent'[t] = parent[t]
                          \/ t = s /\ parent[t] = c /\ parent'[t] = First
       /\ parent' \in [Task -> Task \cup {NoTask}]
  <2>1. CASE parent[s] = c
    BY <1>1, <1>2, <1>3, <1>5, <2>1
  <2>2. CASE parent[s] # c
    BY <1>1, <1>2, <2>2
  <2> QED
    BY <2>1, <2>2
<1>11. moved' \in [Task -> BOOLEAN]
  <2>1. CASE parent[s] = c
    <3>1. PICK b \in BOOLEAN : b = (moved[c] \/ Zombie(s))
      OBVIOUS
    <3> QED
      BY <1>1, <1>2, <2>1, <3>1
  <2>2. CASE parent[s] # c
    BY <1>1, <1>2, <2>2
  <2> QED
    BY <2>1, <2>2
<1>12. LifecycleTypeOK'
  BY <1>1, <1>7, <1>9, <1>10, <1>11 DEF LInv, LifecycleTypeOK
<1>13. Forks'
  <2>1. ASSUME NEW t \in Task, pc[t] \in {"fork_link", "fork_start"}
        PROVE  /\ child[t] \in named' /\ child[t] \in Task
               /\ pc[t] = "fork_start" => parent[child[t]] = t
    <3>1. ForkOK(t) /\ Slot \subseteq Task
      BY <1>4, LifecycleAssumption, ListedAreTasks DEF Slot
    <3> QED
      BY <1>1, <2>1, <3>1 DEF ForkOK
  <2>2. ASSUME NEW t \in Task, pc[t] = "fork_start"
        PROVE  parent'[child[t]] = t
    <3>1. child[t] \in Task /\ parent[child[t]] = t /\ t # c
      BY <1>1, <2>1, <2>2
    <3> QED
      BY <1>10, <3>1
  <2>3. child' = child /\ named' \subseteq named
    BY <1>1
  <2> QED
    BY <1>7, <1>8, <2>1, <2>2, <2>3, ForksKept
<1>14. Families'
  <2>1. \A t \in Task : parent'[t] # NoTask => t \in Slot /\ pc'[parent'[t]] # "dead"
    <3> SUFFICES ASSUME NEW t \in Task, parent'[t] # NoTask
                 PROVE  t \in Slot /\ pc'[parent'[t]] # "dead"
      OBVIOUS
    <3>1. CASE parent'[t] = parent[t]
      BY <1>2, <1>4, <1>7, <3>1 DEF Families
    <3>2. CASE parent[t] = c /\ parent'[t] = First
      BY <1>2, <1>4, <1>5, <1>8, <3>2 DEF Families
    <3> QED
      BY <1>10, <3>1, <3>2
  <2>2. \A t \in Task \ {First} : pc'[t] # "dead" => parent'[t] # NoTask
    BY <1>4, <1>5, <1>8, <1>10, IpcAssumption DEF Families
  <2>3. pc'[First] \notin {"dead", "exit_scan", "exit_end"}
    BY <1>4, <1>5, <1>8 DEF Families
  <2>4. ASSUME NEW t \in Task, pc'[t] = "exit_scan", NEW i \in 1..(at'[t] - 1)
        PROVE  parent'[Table[i]] # t
    <3>1. t # First
      BY <2>3, <2>4
    <3>2. CASE t = c /\ i = at[c]
      BY <1>10, <3>2
    <3>3. CASE t # c \/ i # at[c]
      <4>1. i \in 1..(at[t] - 1) /\ i \in 1..Len(Table)
        BY <1>2, <1>3, <1>9, <2>4, <3>3
      <4>2. Table[i] \in Task /\ parent[Table[i]] # t
        BY <1>4, <1>8, <2>4, <4>1, LenTable DEF Families
      <4> QED
        BY <1>10, <3>1, <4>2
    <3> QED
      BY <3>2, <3>3
  <2>5. ASSUME NEW t \in Task, pc'[t] = "exit_end", NEW u \in Task
        PROVE  parent'[u] # t
    <3>1. t # First /\ parent[u] # t
      BY <1>4, <1>8, <2>3, <2>5 DEF Families
    <3> QED
      BY <1>10, <3>1
  <2> QED
    BY <2>1, <2>2, <2>3, <2>4, <2>5 DEF Families
<1> QED
  BY <1>7, <1>12, <1>13, <1>14 DEF LInv

(* At the end of the scan the caller is nobody's parent.                    *)
LEMMA ExitUnlockInv ==
  ASSUME LInv, ExitUnlock
  PROVE  LInv'
<1> PICK c : c = os.curr
  OBVIOUS
<1>1. /\ InSyscall /\ pc[c] = "exit_scan" /\ pc' = [pc EXCEPT ![c] = "exit_end"]
      /\ at[c] > Len(Table) /\ mutex_unlock(TableMutex)
      /\ UNCHANGED <<named, parent, at, child, moved>>
  BY DEF ExitUnlock, Goto, me, ScanEnds
<1>2. /\ c \in Task /\ pc \in [Task -> Label] /\ c # NoTask
      /\ at \in [Task -> 1..(Len(Table) + 1)]
  BY <1>1, CallerState DEF LInv, LifecycleTypeOK
<1>3. Moves /\ Inside' = Inside \ {c}
  BY <1>1, UnlockMoves
<1>4. /\ Types' /\ LockShape' /\ Places'
      /\ \A t \in Task : AtTable(t)' <=> t \in Inside'
      /\ pc' \in [Task -> Label]
      /\ \A t \in Task : pc'[t] = "dead" <=> pc[t] = "dead"
      /\ \A u \in Task : os.state[u] = "CREATED" => os'.state[u] = "CREATED"
  <2>1. "exit_end" \in Label \ {"dead"} /\ "exit_end" \notin TableLabel
    BY DEF Label, TableLabel
  <2>2. named' = named
    BY <1>1
  <2> QED
    BY <1>1, <1>3, <2>1, <2>2, CallStep
<1>5. pc'[c] = "exit_end" /\ \A t \in Task \ {c} : pc'[t] = pc[t]
  BY <1>1, <1>2
<1>6. LifecycleTypeOK'
  BY <1>1, <1>4 DEF LInv, LifecycleTypeOK
<1>7. Families /\ \A t \in Task : ForkOK(t)
  BY DEF LInv, Forks
<1>8. Forks'
  <2>1. /\ \A t \in Task : pc[t] \in {"fork_link", "fork_start"} => child[t] \in named'
        /\ \A t \in Task : pc[t] = "fork_start" => parent'[child[t]] = t
    BY <1>1, <1>7 DEF ForkOK
  <2>2. \A t \in Task : \/ pc'[t] = pc[t]
                        \/ /\ {pc[t], pc'[t]} \cap ForkLabel = {}
                           /\ pc'[t] # "fork_scan"
    BY <1>1, <1>5 DEF ForkLabel
  <2> QED
    BY <1>1, <1>4, <2>1, <2>2, ForksKept
<1>9. c # First
  BY <1>1, <1>7 DEF Families
<1>10. ASSUME NEW u \in Task, parent[u] = c
       PROVE  FALSE
  <2>1. u \in Slot
    BY <1>2, <1>7, <1>10 DEF Families
  <2>2. PICK i \in 1..Len(Table) : u = Table[i]
    BY <2>1, LenTable DEF Slot, ToSet
  <2>3. at[c] - 1 = Len(Table)
    BY <1>1, <1>2, LenTable
  <2> QED
    BY <1>1, <1>2, <1>7, <1>10, <2>2, <2>3 DEF Families
<1>11. Families'
  <2>1. \A t \in Task :
          /\ pc'[t] = "exit_scan" => pc[t] = "exit_scan" /\ at'[t] = at[t]
          /\ pc'[t] = "exit_end" =>
               \/ pc[t] = "exit_end"
               \/ t # First /\ \A u \in Task : parent[u] # t
    BY <1>1, <1>5, <1>9, <1>10
  <2> QED
    BY <1>1, <1>4, <2>1, FamiliesKept
<1> QED
  BY <1>4, <1>6, <1>8, <1>11 DEF LInv

-----------------------------------------------------------------------------
\* What WakeWaiting does to a task: nothing, or it takes it out of sys_wait.
Awake(k, n, t) ==
  \/ n.state[t] = k.state[t] /\ (t \in Listed(n) <=> t \in Listed(k))
  \/ k.state[t] = "WAITTING" /\ n.state[t] = "READY" /\ t \in Listed(n)

\* What WakeWaiting(k, x) leaves.
Woken(k, x, n) ==
  /\ Placed(n) /\ n.curr = k.curr /\ n.slice = k.slice
  /\ ToSet(k.ready) \subseteq ToSet(n.ready)
  /\ n.state[x] # "WAITTING"
  /\ \A t \in Task : Awake(k, n, t)

(* WakeWaiting links the task into the ready list only if it is in no list. *)
LEMMA WakeWaitingPlaced ==
  ASSUME NEW k, Placed(k), NEW x \in Task, k.slice[x] \in 1..TimeSlice,
         NEW n, n = WakeWaiting(k, x)
  PROVE  Woken(k, x, n)
<1>1. CASE k.state[x] = "WAITTING"
  <2>1. n = task_set_ready(k, x)
    BY <1>1 DEF WakeWaiting
  <2>2. x \notin Listed(k)
    BY <1>1 DEF Placed, Passive
  <2>3. /\ Placed(n) /\ Listed(n) = Listed(k) \cup {x}
        /\ n.curr = k.curr /\ n.ready = Append(k.ready, x)
        /\ n.slice = k.slice
        /\ n.state = [k.state EXCEPT ![x] = "READY"]
    BY <2>1, <2>2, SetReadyPlaced
  <2>4. ToSet(n.ready) = ToSet(k.ready) \cup {x}
    BY <2>1, <2>2, SetReadyEffect DEF Placed
  <2>5. k.state \in [Task \cup {Idle} -> TaskState]
    BY DEF Placed, WellFormed, Scheduling
  <2>6. n.state[x] = "READY" /\ \A t \in Task \ {x} : n.state[t] = k.state[t]
    BY <2>3, <2>5
  <2>7. \A t \in Task : Awake(k, n, t)
    BY <1>1, <2>3, <2>6 DEF Awake
  <2> QED
    BY <2>3, <2>4, <2>6, <2>7 DEF Woken
<1>2. CASE k.state[x] # "WAITTING"
  <2>1. n = k
    BY <1>2 DEF WakeWaiting
  <2>2. \A t \in Task : Awake(k, n, t)
    BY <2>1 DEF Awake
  <2> QED
    BY <1>2, <2>1, <2>2 DEF Woken
<1> QED
  BY <1>1, <1>2

(* The order in which sys_exit writes the state and unlinks the task does   *)
(* not matter.                                                              *)
LEMMA ZombieThenBlocked ==
  ASSUME NEW k \in Scheduling, NEW c \in Task, NEW x \in TaskState
  PROVE  task_set_block([k EXCEPT !.state[c] = x], c)
           = StateSet(task_set_block(k, c), c, x)
<1>1. c # Idle
  BY SchedulerAssumption
<1>2. /\ task_set_block(k, c) = [k EXCEPT !.ready = Without(k.ready, c)]
      /\ task_set_block([k EXCEPT !.state[c] = x], c)
           = [[k EXCEPT !.state[c] = x] EXCEPT !.ready = Without(k.ready, c)]
  BY <1>1 DEF task_set_block, Scheduling
<1> QED
  BY <1>2 DEF StateSet, Scheduling

(* The scheduler after the last region of sys_exit of the task c, whose     *)
(* parent is p.                                                             *)
Ended(c, p) ==
  /\ Placed(os') /\ os'.curr = task_next_run(os')
  /\ os'.state[c] = "ZOMBIE" /\ c \notin Listed(os')
  /\ \A t \in Task \ {c} :
       \/ /\ \/ os'.state[t] = os.state[t]
             \/ os'.state[t] \notin Passive /\ os.state[t] \notin Passive
          /\ t \in Listed(os') <=> t \in Listed(os)
       \/ os.state[t] = "WAITTING" /\ os'.state[t] \notin Passive /\ t \in Listed(os')
  /\ \A t \in Task : os'.slice[t] = os.slice[t]
  /\ os'.state[p] # "WAITTING"
  /\ moved[c] => os'.state[First] # "WAITTING"

(* The task that exits is not first_task, and its parent is another process *)
(* that has not exited.                                                     *)
LEMMA ExitEndParent ==
  ASSUME LInv, ExitEnd, NEW c, c = os.curr
  PROVE  /\ c # First /\ parent[c] \in Task \ {c}
         /\ pc[parent[c]] # "dead"
         /\ os.slice[parent[c]] \in 1..TimeSlice
         /\ os.slice[First] \in 1..TimeSlice
<1>1. InSyscall /\ pc[c] = "exit_end"
  BY DEF ExitEnd, Goto, me
<1>2. /\ c \in Task /\ First \in Task /\ NoTask \notin Task
      /\ parent \in [Task -> Task \cup {NoTask}] /\ Families
      /\ \A t \in Task : InPlace(t)
  BY <1>1, CallerState, SchedulerAssumption, IpcAssumption
  DEF LInv, LifecycleTypeOK, Places
<1>3. c # First
  BY <1>1, <1>2 DEF Families
<1>4. parent[c] \in Task \ {c} /\ pc[parent[c]] # "dead"
  BY <1>1, <1>2, <1>3 DEF Families
<1>5. ASSUME NEW t \in Task, pc[t] # "dead"
      PROVE  os.slice[t] \in 1..TimeSlice
  BY <1>2, <1>5 DEF InPlace
<1> QED
  BY <1>2, <1>3, <1>4, <1>5 DEF Families

(* The wake-ups and the end of the last region of sys_exit, together.       *)
LEMMA ExitEndEffect ==
  ASSUME LInv, ExitEnd, NEW c, c = os.curr
  PROVE  Ended(c, parent[c])
<1> PICK p : p = parent[c]
  OBVIOUS
<1> PICK h : h = IF moved[c] /\ p # First THEN WakeWaiting(os, First) ELSE os
  OBVIOUS
<1> PICK w : w = WakeWaiting(h, p)
  OBVIOUS
<1>1. /\ InSyscall /\ pc[c] = "exit_end"
      /\ os' = task_dispatch(task_set_block([w EXCEPT !.state[c] = "ZOMBIE"], c))
  BY DEF ExitEnd, Goto, me
<1>2. /\ c \in Task /\ c \in ToSet(os.ready) /\ c \in Listed(os)
      /\ os.state[c] \notin Passive /\ Placed(os)
      /\ c # First /\ p \in Task \ {c} /\ First \in Task
      /\ os.slice[p] \in 1..TimeSlice /\ os.slice[First] \in 1..TimeSlice
  BY <1>1, CallerState, ExitEndParent, SchedulerAssumption DEF LInv, Places
<1>3. /\ Placed(h) /\ h.slice = os.slice
      /\ ToSet(os.ready) \subseteq ToSet(h.ready)
      /\ \A t \in Task : Awake(os, h, t)
      /\ (moved[c] /\ p # First) => h.state[First] # "WAITTING"
  <2>1. CASE moved[c] /\ p # First
    BY <1>2, <2>1, WakeWaitingPlaced DEF Woken
  <2>2. CASE ~ (moved[c] /\ p # First)
    BY <1>2, <2>2 DEF Awake
  <2> QED
    BY <2>1, <2>2
<1>4. Woken(h, p, w)
  BY <1>2, <1>3, WakeWaitingPlaced
<1>5. ASSUME NEW t \in Task
      PROVE  Awake(os, w, t)
  BY <1>3, <1>4 DEF Awake, Woken
<1>6. /\ Placed(w) /\ c \in ToSet(w.ready) /\ w \in Scheduling
      /\ w.slice = os.slice /\ w.state[p] # "WAITTING"
  BY <1>2, <1>3, <1>4 DEF Woken, Placed, WellFormed
<1>7. moved[c] => w.state[First] # "WAITTING"
  <2>1. CASE p = First
    BY <1>6, <2>1
  <2>2. CASE p # First
    BY <1>2, <1>3, <1>4, <2>2 DEF Awake, Woken
  <2> QED
    BY <2>1, <2>2
<1>8. Left(w, c, "ZOMBIE", os')
  <2>1. "ZOMBIE" \in TaskState
    BY DEF TaskState
  <2>2. os' = task_dispatch(StateSet(task_set_block(w, c), c, "ZOMBIE"))
    BY <1>1, <1>2, <1>6, <2>1, ZombieThenBlocked
  <2> QED
    BY <1>6, <2>1, <2>2, LeaveProcessor
<1>9. \A t \in Task \ {c} :
        \/ os'.state[t] = w.state[t]
        \/ os'.state[t] \notin Passive /\ w.state[t] \notin Passive
  BY <1>8 DEF Left, Kept
<1>10. \A t \in Task \ {c} : t \in Listed(os') <=> t \in Listed(w)
  BY <1>8 DEF Left
<1>11. ASSUME NEW t \in Task \ {c}
       PROVE  \/ /\ \/ os'.state[t] = os.state[t]
                    \/ os'.state[t] \notin Passive /\ os.state[t] \notin Passive
                 /\ t \in Listed(os') <=> t \in Listed(os)
              \/ /\ os.state[t] = "WAITTING" /\ os'.state[t] \notin Passive
                 /\ t \in Listed(os')
  BY <1>5, <1>9, <1>10 DEF Awake, Passive
<1>12. /\ os'.state[p] # "WAITTING"
       /\ moved[c] => os'.state[First] # "WAITTING"
  BY <1>2, <1>6, <1>7, <1>9 DEF Passive
<1> QED
  BY <1>6, <1>8, <1>11, <1>12 DEF Left, Ended

(* The end of sys_exit: the caller has no children left, it is a zombie in  *)
(* no list, and whoever it has woken was in none.                           *)
LEMMA ExitEndInv ==
  ASSUME LInv, ExitEnd
  PROVE  LInv'
<1> PICK c : c = os.curr
  OBVIOUS
<1>1. /\ InSyscall /\ pc[c] = "exit_end" /\ pc' = [pc EXCEPT ![c] = "dead"]
      /\ at' = [at EXCEPT ![c] = 1] /\ moved' = [moved EXCEPT ![c] = FALSE]
      /\ mutex' = mutex /\ sem' = sem /\ waiters' = waiters
      /\ UNCHANGED <<named, parent, child>>
  BY DEF ExitEnd, Goto, me, ipc
<1>2. /\ c \in Task /\ pc \in [Task -> Label] /\ Base
      /\ at \in [Task -> 1..(Len(Table) + 1)] /\ moved \in [Task -> BOOLEAN]
      /\ c \in Listed(os) /\ c \notin ToSet(Queue)
      /\ os.state[c] \notin Passive /\ c \in named /\ c # NoTask
      /\ os.slice[c] \in 1..TimeSlice /\ c # First
      /\ 1 \in 1..(Len(Table) + 1)
  BY <1>1, CallerState, BaseHolds, ExitEndParent, LenTable DEF LInv, LifecycleTypeOK
<1>3. Ended(c, parent[c])
  BY ExitEndEffect
<1>4. /\ Placed(os') /\ os'.curr = task_next_run(os')
      /\ os'.state[c] = "ZOMBIE" /\ c \notin Listed(os')
      /\ \A t \in Task : os'.slice[t] = os.slice[t]
  BY <1>3 DEF Ended
<1>5. ASSUME NEW t \in Task \ {c}
      PROVE  \/ /\ \/ os'.state[t] = os.state[t]
                   \/ os'.state[t] \notin Passive /\ os.state[t] \notin Passive
                /\ t \in Listed(os') <=> t \in Listed(os)
             \/ /\ os.state[t] = "WAITTING" /\ os'.state[t] \notin Passive
                /\ t \in Listed(os')
  BY <1>3 DEF Ended
<1>6. Owner' = Owner /\ Queue' = Queue /\ Inside' = Inside
  BY <1>1 DEF Owner, Queue, Inside
<1>7. \A t \in Task : os.state[t] = "WAITTING" => t \notin Present
  BY DEF LInv, Places, InPlace, Passive
<1>8. Types' /\ LockShape' /\ CurrentIsFirst'
  BY <1>1, <1>2, <1>4, <1>6
  DEF Base, Types, LockShape, Placed, WellFormed, CurrentIsFirst
<1>9. /\ pc'[c] = "dead" /\ \A t \in Task \ {c} : pc'[t] = pc[t]
      /\ pc' \in [Task -> Label]
      /\ at' \in [Task -> 1..(Len(Table) + 1)] /\ moved' \in [Task -> BOOLEAN]
      /\ \A t \in Task \ {c} : at'[t] = at[t]
  BY <1>1, <1>2 DEF Label
<1>10. LifecycleTypeOK'
  BY <1>1, <1>8, <1>9 DEF LInv, LifecycleTypeOK
<1>11. ASSUME NEW t \in Task
       PROVE  AtTable(t)' <=> t \in Inside'
  <2>1. AtTable(t) <=> t \in Inside
    BY DEF LInv
  <2>2. CASE t = c
    BY <1>1, <1>6, <1>9, <2>1, <2>2 DEF AtTable, TableLabel
  <2>3. CASE t # c
    BY <1>6, <1>9, <2>1, <2>3 DEF AtTable
  <2> QED
    BY <2>2, <2>3
<1>12. Places'
  <2>1. (ToSet(Queue) \cap Listed(os) = {})'
    <3> SUFFICES ASSUME NEW t \in ToSet(Queue), t \in Listed(os')
                 PROVE  FALSE
      BY <1>6
    <3>1. t \in Task /\ t \notin Listed(os) /\ t # c /\ t \in Present
      BY <1>2, WaiterMayRun DEF Present
    <3> QED
      BY <1>5, <1>7, <3>1
  <2>2. ASSUME NEW t \in Task
        PROVE  InPlace(t)'
    <3>1. InPlace(t)
      BY DEF LInv, Places
    <3>2. CASE t = c
      <4>1. /\ os'.state[t] = "ZOMBIE" /\ t \notin Present' /\ pc'[t] = "dead"
            /\ t \in named' /\ os'.slice[t] \in 1..TimeSlice
        BY <1>1, <1>2, <1>4, <1>6, <1>9, <3>2 DEF Present
      <4> QED
        BY <4>1 DEF InPlace, Passive
    <3>3. CASE t # c
      <4>1. pc'[t] = pc[t] /\ named' = named /\ os'.slice[t] = os.slice[t]
        BY <1>1, <1>4, <1>9, <3>3
      <4>2. CASE /\ \/ os'.state[t] = os.state[t]
                    \/ os'.state[t] \notin Passive /\ os.state[t] \notin Passive
                 /\ t \in Listed(os') <=> t \in Listed(os)
        <5>1. t \in Present' <=> t \in Present
          BY <1>6, <4>2 DEF Present
        <5> QED
          BY <3>1, <4>1, <4>2, <5>1 DEF InPlace, Passive
      <4>3. CASE /\ os.state[t] = "WAITTING" /\ os'.state[t] \notin Passive
                 /\ t \in Listed(os')
        <5>1. t \in Present'
          BY <4>3 DEF Present
        <5> QED
          BY <3>1, <4>1, <4>3, <5>1 DEF InPlace, Passive
      <4> QED
        BY <1>5, <3>3, <4>2, <4>3
    <3> QED
      BY <3>2, <3>3
  <2> QED
    BY <1>4, <1>8, <2>1, <2>2 DEF Places
<1>13. \A u \in Task : os.state[u] = "CREATED" => os'.state[u] = "CREATED"
  BY <1>2, <1>5 DEF Passive
<1>14. Forks'
  <2>1. \A t \in Task : ForkOK(t)
    BY DEF LInv, Forks
  <2>2. /\ \A t \in Task : pc[t] \in {"fork_link", "fork_start"} => child[t] \in named'
        /\ \A t \in Task : pc[t] = "fork_start" => parent'[child[t]] = t
    BY <1>1, <2>1 DEF ForkOK
  <2>3. \A t \in Task : \/ pc'[t] = pc[t]
                        \/ /\ {pc[t], pc'[t]} \cap ForkLabel = {}
                           /\ pc'[t] # "fork_scan"
    BY <1>1, <1>9 DEF ForkLabel
  <2> QED
    BY <1>1, <1>13, <2>2, <2>3, ForksKept
<1>15. Families'
  <2>0. /\ Families /\ \A u \in Task : parent[u] # c
        /\ parent \in [Task -> Task \cup {NoTask}]
    BY <1>1, <1>2 DEF LInv, LifecycleTypeOK, Families
  <2>1. \A t \in Task : parent[t] # NoTask => t \in Slot /\ pc'[parent[t]] # "dead"
    BY <1>9, <2>0 DEF Families
  <2>2. \A t \in Task \ {First} : pc'[t] # "dead" => parent[t] # NoTask
    BY <1>9, <2>0 DEF Families
  <2>3. pc'[First] \notin {"dead", "exit_scan", "exit_end"}
    BY <1>2, <1>9, <2>0, SchedulerAssumption DEF Families
  <2>4. ASSUME NEW t \in Task, pc'[t] = "exit_scan"
        PROVE  \A i \in 1..(at'[t] - 1) : parent[Table[i]] # t
    <3>1. t # c /\ pc[t] = "exit_scan" /\ at'[t] = at[t]
      BY <1>9, <2>4
    <3> QED
      BY <2>0, <3>1 DEF Families
  <2>5. \A t \in Task : pc'[t] = "exit_end" => \A u \in Task : parent[u] # t
    BY <1>9, <2>0 DEF Families
  <2> QED
    BY <1>1, <2>1, <2>2, <2>3, <2>4, <2>5 DEF Families
<1> QED
  BY <1>8, <1>10, <1>11, <1>12, <1>14, <1>15 DEF LInv

-----------------------------------------------------------------------------
(* Before the first system call only first_task exists, and nobody is in    *)
(* the table.                                                               *)
LEMMA LInitInv == LifecycleInit => LInv
<1> SUFFICES ASSUME LifecycleInit PROVE LInv
  OBVIOUS
<1>1. /\ os.curr = First /\ os.ready = <<First>> /\ os.asleep = <<>>
      /\ os.state = [t \in Task \cup {Idle} |->
                       IF t = First THEN "READY" ELSE "CREATED"]
      /\ os.sleepTicks = [t \in Task |-> 0]
      /\ os.slice = [t \in Task \cup {Idle} |-> TimeSlice]
      /\ waiters = [q \in WaitList |-> <<>>]
      /\ mutex = [m \in Mutex |-> [count |-> 0, owner |-> NoTask]]
      /\ sem = [s \in Sem |-> SemInit[s]]
  BY DEF LifecycleInit, IpcInit, SchedulerInit, WaitList
<1>2. /\ named = {First} /\ parent = [t \in Task |-> NoTask]
      /\ pc = [t \in Task |-> IF t = First THEN "user" ELSE "dead"]
      /\ at = [t \in Task |-> 1] /\ child = [t \in Task |-> NoTask]
      /\ moved = [t \in Task |-> FALSE]
  BY DEF LifecycleInit
<1>3. os \in Scheduling
  BY SchedulerAssumption
  DEF LifecycleInit, IpcInit, SchedulerInit, Scheduling, TaskState
<1>4. /\ ToSet(os.ready) = {First} /\ ToSet(os.asleep) = {}
      /\ NoRepeat(os.ready) /\ NoRepeat(os.asleep)
  BY <1>1 DEF ToSet, NoRepeat
<1>5. /\ TableMutex \in Mutex /\ TableMutex \in WaitList /\ First \in Task
      /\ NoTask \notin Task /\ 1 \in 1..TimeSlice /\ TimeSlice \in 1..TimeSlice
      /\ 1 \in 1..(Len(Table) + 1)
  BY LifecycleAssumption, SchedulerAssumption, IpcAssumption, LenTable DEF WaitList
<1>6. Owner = NoTask /\ Queue = <<>> /\ ToSet(Queue) = {} /\ NoRepeat(Queue)
  BY <1>1, <1>5 DEF Owner, Queue, ToSet, NoRepeat
<1>7. Placed(os)
  <2>1. WellFormed(os) /\ SleepersPositive(os)
    BY <1>1, <1>3, <1>4, SchedulerAssumption DEF WellFormed, SleepersPositive
  <2>2. Listed(os) = {First} /\ os.state[First] = "READY"
    BY <1>1, <1>4, <1>5 DEF Listed
  <2> QED
    BY <1>1, <1>5, <2>1, <2>2 DEF Placed, Passive
<1>8. CurrentIsFirst
  BY <1>1 DEF CurrentIsFirst, task_next_run
<1>9. Types
  BY <1>1, <1>3, IpcAssumption DEF Types, WaitList
<1>10. LockShape
  <2>1. /\ \A m \in Mutex : mutex[m].owner = NoTask
        /\ \A q \in WaitList : waiters[q] = <<>>
        /\ mutex[TableMutex].count = 0
    BY <1>1, <1>5
  <2> QED
    BY <1>5, <1>6, <2>1 DEF LockShape
<1>11. LifecycleTypeOK
  BY <1>2, <1>5, <1>9 DEF LifecycleTypeOK, Label
<1>12. ASSUME NEW t \in Task
       PROVE  /\ ~ AtTable(t) /\ t \notin Inside
              /\ ~ InAlloc(t) /\ child[t] = NoTask /\ parent[t] = NoTask
              /\ pc[t] = IF t = First THEN "user" ELSE "dead"
  BY <1>2, <1>5, <1>6 DEF AtTable, TableLabel, InAlloc, Inside
<1>13. Places
  <2>1. Present = {First}
    BY <1>4, <1>6 DEF Present, Listed
  <2>2. ASSUME NEW t \in Task
        PROVE  InPlace(t)
    <3>1. /\ os.state[t] = IF t = First THEN "READY" ELSE "CREATED"
          /\ os.slice[t] \in 1..TimeSlice
      BY <1>1, <1>5
    <3> QED
      BY <1>2, <1>12, <2>1, <3>1 DEF InPlace, Passive
  <2> QED
    BY <1>6, <1>7, <1>8, <2>2 DEF Places
<1>14. Forks
  BY <1>12 DEF Forks, ForkOK, ForkLabel, SlotNotShared
<1>15. Families
  BY <1>5, <1>12 DEF Families
<1> QED
  BY <1>10, <1>11, <1>12, <1>13, <1>14, <1>15 DEF LInv

(* Every region of every system call, and every interrupt, keeps LInv.      *)
LEMMA LNextInv ==
  ASSUME ~ ForksOverlap, LInv, [LifecycleNext]_lvars
  PROVE  LInv'
<1>1. CASE Interlude
  BY <1>1, InterludeInv
<1>2. CASE ForkStep
  BY <1>2, ForkLockInv, ForkScanInv, ForkUnlockInv, ForkInitInv, ForkLinkInv,
     ForkStartInv DEF ForkStep
<1>3. CASE WaitStep
  BY <1>3, WaitInv, WaitReapInv, WaitBlockInv DEF WaitStep
<1>4. CASE ExitStep
  BY <1>4, ExitLockInv, ExitScanInv, ExitUnlockInv, ExitEndInv DEF ExitStep
<1>5. CASE UNCHANGED lvars
  <2>1. /\ os' = os /\ mutex' = mutex /\ sem' = sem /\ waiters' = waiters
        /\ named' = named /\ parent' = parent /\ pc' = pc /\ at' = at
        /\ child' = child /\ moved' = moved
    BY <1>5 DEF lvars, vars, ipc, locals
  <2>2. UNCHANGED vars
    BY <2>1 DEF vars, ipc
  <2>3. Moves /\ Inside' = Inside
    BY <2>2, BaseHolds, StillMoves
  <2>4. LifecycleTypeOK' /\ LockShape'
    BY <2>1, <2>3 DEF LInv, LifecycleTypeOK, Moves, Base
  <2>5. \A t \in Task : AtTable(t)' <=> t \in Inside'
    BY <2>1, <2>3 DEF LInv, AtTable
  <2>6. Places'
    BY <2>1, <2>3, PlacesKept
  <2>7. Forks'
    <3>1. \A t \in Task : ForkOK(t)
      BY DEF LInv, Forks
    <3> QED
      BY <2>1, <3>1, ForksKept DEF ForkOK
  <2>8. Families'
    BY <2>1, FamiliesKept
  <2> QED
    BY <2>4, <2>5, <2>6, <2>7, <2>8 DEF LInv
<1> QED
  BY <1>1, <1>2, <1>3, <1>4, <1>5 DEF LifecycleNext

-----------------------------------------------------------------------------
(* A task is in some list of the kernel exactly if the invariant counts it  *)
(* as present: no mutex but task_table_mutex has waiters.                   *)
LEMMA SomewherePresent ==
  ASSUME LInv, NEW t
  PROVE  Somewhere(t) <=> t \in Present
<1>1. /\ TableMutex \in WaitList /\ ToSet(<<>>) = {}
      /\ \A q \in WaitList \ {TableMutex} : waiters[q] = <<>>
  BY LifecycleAssumption DEF WaitList, LInv, LockShape, ToSet
<1> QED
  BY <1>1 DEF Somewhere, Present, Listed, Queue

(* What LInv says of the lists and the free slots.                          *)
LEMMA InvAccounted == LInv => TasksAccounted
<1> SUFFICES ASSUME LInv PROVE TasksAccounted
  OBVIOUS
<1>1. /\ LifecycleTypeOK /\ LockShape /\ Placed(os) /\ Families
      /\ ToSet(Queue) \cap Listed(os) = {}
      /\ \A t \in Task : InPlace(t) /\ (AtTable(t) <=> t \in Inside)
  BY DEF LInv, Places
<1>2. OneList
  <2>1. /\ NoRepeat(os.ready) /\ NoRepeat(os.asleep)
        /\ ToSet(os.ready) \cap ToSet(os.asleep) = {}
    BY <1>1 DEF Placed, WellFormed
  <2>2. /\ \A q \in WaitList \ {TableMutex} : waiters[q] = <<>>
        /\ NoRepeat(<<>>) /\ ToSet(<<>>) = {} /\ NoRepeat(Queue)
    BY <1>1 DEF LockShape, NoRepeat, ToSet
  <2>3. ASSUME NEW q \in WaitList
        PROVE  /\ NoRepeat(waiters[q])
               /\ ToSet(waiters[q]) \cap (ToSet(os.ready) \cup ToSet(os.asleep)) = {}
               /\ \A r \in WaitList \ {q} : ToSet(waiters[q]) \cap ToSet(waiters[r]) = {}
    BY <1>1, <2>2 DEF Queue, Listed
  <2> QED
    BY <2>1, <2>3 DEF OneList
<1>3. \A t \in Task : InItsPlace(t)
  BY <1>1, SomewherePresent DEF InItsPlace, InPlace, Passive
<1>4. FreeSlotUnused
  <2> SUFFICES ASSUME NEW s \in Slot \ named
               PROVE  /\ os.state[s] = "CREATED" /\ ~ Somewhere(s)
                      /\ s \notin {parent[t] : t \in Task}
                      /\ s \notin {mutex[m].owner : m \in Mutex}
    BY DEF FreeSlotUnused
  <2>1. s \in Task /\ s # NoTask
    BY LifecycleAssumption, IpcAssumption, ListedAreTasks DEF Slot
  <2>2. InPlace(s) /\ os.state[s] = "CREATED" /\ pc[s] = "dead"
    BY <1>1, <2>1 DEF InPlace
  <2>3. ~ Somewhere(s)
    BY <2>2, SomewherePresent DEF InPlace, Passive
  <2>4. \A t \in Task : parent[t] # s
    BY <1>1, <2>1, <2>2 DEF Families
  <2>5. s # Owner
    BY <1>1, <2>1, <2>2 DEF Inside, AtTable, TableLabel
  <2>6. \A m \in Mutex : mutex[m].owner # s
    BY <1>1, <2>1, <2>5 DEF LockShape, Owner
  <2> QED
    BY <2>2, <2>3, <2>4, <2>6
<1> QED
  BY <1>1, <1>2, <1>3, <1>4 DEF TasksAccounted

(* What LInv says of parent pointers.                                       *)
LEMMA InvParentAlive == LInv => ParentAlive
<1> SUFFICES ASSUME LInv, NEW t \in Task, parent[t] # NoTask
             PROVE  /\ parent[t] \in named
                    /\ os.state[parent[t]] \notin {"ZOMBIE", "CREATED"}
  BY DEF ParentAlive
<1>1. parent[t] \in Task /\ pc[parent[t]] # "dead"
  BY DEF LInv, LifecycleTypeOK, Families
<1>2. InPlace(parent[t])
  BY <1>1 DEF LInv, Places
<1> QED
  BY <1>1, <1>2 DEF InPlace

(* Only sys_wait takes a name away.                                         *)
LEMMA NamesGoInReap ==
  ASSUME [LifecycleNext]_lvars, NEW s, s \in named \ named'
  PROVE  WaitReap
<1>1. CASE Interlude
  BY <1>1 DEF Interlude
<1>2. CASE ForkStep
  BY <1>2 DEF ForkStep, ForkLock, ForkScan, ForkUnlock, ForkInit, ForkLink, ForkStart
<1>3. CASE WaitStep
  BY <1>3 DEF WaitStep, WaitLock, WaitSkip, WaitReturn, WaitUnlock, WaitBlock
<1>4. CASE ExitStep
  BY <1>4 DEF ExitStep, ExitLock, ExitScan, ExitUnlock, ExitEnd
<1>5. CASE UNCHANGED lvars
  BY <1>5 DEF lvars
<1> QED
  BY <1>1, <1>2, <1>3, <1>4, <1>5 DEF LifecycleNext

(* A slot is freed by the parent of the zombie in it, with the mutex held.  *)
LEMMA StepReaps ==
  ASSUME LInv, [LifecycleNext]_lvars, NEW s \in named \ named'
  PROVE  /\ Zombie(s) /\ parent[s] = me
         /\ mutex[TableMutex].owner = me
<1> PICK c : c = os.curr
  OBVIOUS
<1>1. WaitReap
  BY NamesGoInReap
<1>2. /\ InSyscall /\ pc[c] = "wait_scan" /\ named' = named \ {Scanned}
      /\ parent[Scanned] = c /\ Zombie(Scanned)
  BY <1>1 DEF WaitReap, Goto, Reap, me
<1>3. c \in Task /\ c \notin ToSet(Queue)
  BY <1>2, CallerState
<1>4. c = Owner
  BY <1>2, <1>3 DEF LInv, AtTable, TableLabel, Inside
<1> QED
  BY <1>2, <1>4 DEF Owner, me

(* Only the end of sys_exit makes a zombie.                                 *)
LEMMA ZombiesComeFromExit ==
  ASSUME LInv, [LifecycleNext]_lvars, NEW t \in Task, ~ Zombie(t), Zombie(t)'
  PROVE  ExitEnd
<1>1. Base
  BY BaseHolds
<1>2. Moves => FALSE
  BY DEF Moves, Kept, Zombie, Passive
<1>3. os.state \in [Task \cup {Idle} -> TaskState]
  BY <1>1 DEF Base, Placed, WellFormed, Scheduling
<1>4. CASE Interlude
  BY <1>1, <1>2, <1>4, TimerMoves, YieldMoves, SleepMoves
  DEF Interlude, UserYield, UserSleep
<1>5. CASE UNCHANGED vars
  BY <1>1, <1>2, <1>5, StillMoves
<1>6. CASE InSyscall /\ mutex_unlock(TableMutex)
  BY <1>2, <1>6, UnlockMoves
<1>7. CASE /\ InSyscall /\ pc[os.curr] \in {"user", "wait_lock"}
           /\ mutex_lock(TableMutex)
  <2>1. os.curr \notin Inside
    BY <1>7, CallerInside DEF TableLabel
  <2> QED
    BY <1>1, <1>2, <1>7, <2>1, LockMoves
<1>8. CASE ForkInit
  <2>1. os' = Cleared(os, child[me], TimeSlice)
    BY <1>8 DEF ForkInit, Cleared
  <2>2. os'.state = [os.state EXCEPT ![child[me]] = "CREATED"]
    BY <1>1, <2>1 DEF Base, Placed, WellFormed, Scheduling, Cleared
  <2> QED
    BY <1>3, <2>2 DEF Zombie
<1>9. CASE ForkStart
  <2>1. /\ os' = task_set_ready(os, child[me])
        /\ os \in Scheduling
    BY <1>1, <1>9 DEF ForkStart, Base, Placed, WellFormed
  <2>2. \/ os'.state = os.state
        \/ os'.state = [os.state EXCEPT ![child[me]] = "READY"]
    BY <2>1 DEF task_set_ready, Scheduling
  <2> QED
    BY <1>3, <2>2 DEF Zombie
<1>10. CASE WaitReap
  <2>1. os' = Cleared(os, Scanned, 0)
    BY <1>10 DEF WaitReap, Reap, Cleared
  <2>2. os'.state = [os.state EXCEPT ![Scanned] = "CREATED"]
    BY <1>1, <2>1 DEF Base, Placed, WellFormed, Scheduling, Cleared
  <2> QED
    BY <1>3, <2>2 DEF Zombie
<1>11. CASE WaitBlock
  <2>1. InSyscall /\ os.curr \in ToSet(os.ready) /\ Placed(os)
    BY <1>1, <1>11, CallerState DEF WaitBlock, Goto, Base
  <2>2. os' = task_dispatch(StateSet(task_set_block(os, os.curr), os.curr, "WAITTING"))
    BY <1>11 DEF WaitBlock, StateSet, me
  <2>3. Left(os, os.curr, "WAITTING", os')
    BY <2>1, <2>2, LeaveProcessor DEF TaskState
  <2> QED
    BY <2>3 DEF Left, Kept, Zombie, Passive
<1>12. CASE UNCHANGED lvars
  BY <1>5, <1>12 DEF lvars
<1>13. CASE ForkStep
  BY <1>5, <1>6, <1>7, <1>8, <1>9, <1>13
  DEF ForkStep, ForkLock, ForkScan, ForkUnlock, ForkLink, Goto, me
<1>14. CASE WaitStep
  BY <1>5, <1>6, <1>7, <1>10, <1>11, <1>14
  DEF WaitStep, WaitLock, WaitSkip, WaitReturn, WaitUnlock, Goto, me
<1>15. CASE ExitStep
  BY <1>5, <1>6, <1>7, <1>15
  DEF ExitStep, ExitLock, ExitScan, ExitUnlock, Goto, me
<1> QED
  BY <1>4, <1>12, <1>13, <1>14, <1>15 DEF LifecycleNext

(* A new zombie has woken whoever has to collect zombies.                   *)
LEMMA StepWakes ==
  ASSUME LInv, [LifecycleNext]_lvars, NEW t \in Task, ~ Zombie(t), Zombie(t)'
  PROVE  /\ os'.state[parent[t]] # "WAITTING"
         /\ moved[t] => os'.state[First] # "WAITTING"
<1> PICK c : c = os.curr
  OBVIOUS
<1>1. ExitEnd
  BY ZombiesComeFromExit
<1>2. Ended(c, parent[c])
  BY <1>1, ExitEndEffect
<1>3. t = c
  BY <1>2 DEF Ended, Zombie, Passive
<1> QED
  BY <1>2, <1>3 DEF Ended

-----------------------------------------------------------------------------
(* The invariant holds as long as the programs do not let two forks be      *)
(* between alloc_task and task_init at once.                                *)
THEOREM LInvAlways ==
  ASSUME ~ ForksOverlap
  PROVE  LifecycleSpec => []LInv
<1>1. LInv /\ [LifecycleNext]_lvars => LInv'
  BY LNextInv
<1> QED
  BY <1>1, LInitInv, PTL DEF LifecycleSpec

(* However forks, waits, exits and preemptions interleave, a process is in  *)
(* one list of the kernel, or blocked in sys_wait, or a zombie, and only    *)
(* one of these; a free slot of task_table is in no list, nobody's parent   *)
(* and holds no mutex.                                                      *)
THEOREM NoTaskAstray ==
  ASSUME ~ ForksOverlap
  PROVE  LifecycleSpec => []TasksAccounted
BY LInvAlways, InvAccounted, PTL

(* sys_exit hands all its children to first_task before it is a zombie: a   *)
(* parent pointer never names a process that has exited or a free slot.     *)
THEOREM ParentsLive ==
  ASSUME ~ ForksOverlap
  PROVE  LifecycleSpec => []ParentAlive
BY LInvAlways, InvParentAlive, PTL

(* Two forks never take the same slot of task_table.                        *)
THEOREM SlotsNotShared ==
  ASSUME ~ ForksOverlap
  PROVE  LifecycleSpec => []SlotNotShared
<1>1. LInv => SlotNotShared
  BY DEF LInv, Forks
<1> QED
  BY <1>1, LInvAlways, PTL

(* sys_wait frees a slot only if it holds a zombie child of the caller,     *)
(* and with task_table_mutex held.                                          *)
THEOREM OnlyParentsReap ==
  ASSUME ~ ForksOverlap
  PROVE  LifecycleSpec => ReapedByParent
<1>1. LInv /\ [LifecycleNext]_lvars =>
        [\A s \in named \ named' :
           /\ Zombie(s) /\ parent[s] = me
           /\ mutex[TableMutex].owner = me]_lvars
  BY StepReaps
<1> QED
  BY <1>1, LInvAlways, PTL DEF LifecycleSpec, ReapedByParent

(* A process that exits leaves neither its parent nor, if it has handed     *)
(* zombies to it, first_task blocked in sys_wait.                           *)
THEOREM ExitWakesParents ==
  ASSUME ~ ForksOverlap
  PROVE  LifecycleSpec => ExitWakesParent
<1>1. LInv /\ [LifecycleNext]_lvars =>
        [\A t \in Task : (~ Zombie(t) /\ Zombie(t)') =>
           /\ os'.state[parent[t]] # "WAITTING"
           /\ moved[t] => os'.state[First] # "WAITTING"]_lvars
  BY StepWakes
<1> QED
  BY <1>1, LInvAlways, PTL DEF LifecycleSpec, ExitWakesParent
=============================================================================
