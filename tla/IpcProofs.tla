------------------------------- MODULE IpcProofs -------------------------------
(****************************************************************************)
(* The safety invariants of Ipc, proved for any number of tasks, mutexes    *)
(* and semaphores and any time slice.  The inductive invariant Inv is the   *)
(* conjunction of the invariants the runs check, regrouped: Queues is about *)
(* where each task is (scheduler lists and wait lists), Locks and Counts    *)
(* about the mutexes and the semaphores.  The second part of the module is  *)
(* about the order of the lists: whose turn it is and who wakes first.  The *)
(* last part is the refinement of Sync.                                     *)
(****************************************************************************)
EXTENDS Ipc, SchedulerProofs

Waiting == UNION {ToSet(waiters[q]) : q \in WaitList}

WaitListsApart ==
  /\ waiters \in [WaitList -> Seq(Task)]
  /\ \A q \in WaitList : NoRepeat(waiters[q])
  /\ \A q \in WaitList : \A r \in WaitList \ {q} :
       ToSet(waiters[q]) \cap ToSet(waiters[r]) = {}

Queues ==
  /\ Sane(os, Waiting)
  /\ CurrentIsFirst
  /\ WaitListsApart

Locks ==
  /\ mutex \in [Mutex -> [count : 0..MaxNest, owner : Task \cup {NoTask}]]
  /\ MutexCoherent

Counts ==
  /\ sem \in [Sem -> Nat]
  /\ SemCoherent

\* TASK_SLEEP is the state of the tasks of the sleep list, and of no other.
SleepStateExact ==
  \A t \in Task : os.state[t] = "SLEEP" <=> t \in ToSet(os.asleep)

Inv == Queues /\ Locks /\ Counts

-----------------------------------------------------------------------------
(* Every invariant the runs check is a consequence of Inv. *)
LEMMA InvImplies ==
  ASSUME Inv
  PROVE  /\ TypeOK /\ OneList /\ NoTaskLost /\ CurrentIsFirst
         /\ MutexCoherent /\ SemCoherent /\ TicksPositive /\ SleepStateExact
<1>1. TicksPositive /\ SleepStateExact
  BY DEF Inv, Queues, Sane, SliceInRange, SleepersPositive, TicksPositive,
         SleepStateExact
<1>2. \A q \in WaitList : ToSet(waiters[q]) \subseteq Waiting
  BY DEF Waiting
<1>3. OneList
  BY <1>2 DEF Inv, Queues, Sane, WellFormed, Listed, WaitListsApart, OneList
<1>4. NoTaskLost
  <2> SUFFICES ASSUME NEW t \in Task
               PROVE  t \in Waiting <=> \E q \in WaitList : t \in ToSet(waiters[q])
    BY DEF Inv, Queues, Sane, Listed, NoTaskLost
  <2> QED
    BY DEF Waiting
<1>5. TypeOK
  BY <1>1 DEF Inv, Queues, Locks, Counts, Sane, WellFormed, WaitListsApart, TypeOK, Types
<1> QED
  BY <1>1, <1>3, <1>4, <1>5 DEF Inv, Queues, Locks, Counts

(* A task that makes a system call is in the ready list, and waits nowhere. *)
LEMMA CallerIsReady ==
  ASSUME Queues, InSyscall
  PROVE  /\ os.curr \in ToSet(os.ready) /\ os.curr \in Task
         /\ os.curr \notin Waiting
<1>1. os.ready \in Seq(Task) /\ NoRepeat(os.ready)
  BY DEF Queues, Sane, WellFormed, Scheduling
<1>2. os.ready # <<>> /\ os.curr = Head(os.ready)
  BY DEF Queues, CurrentIsFirst, task_next_run, InSyscall
<1>3. os.curr \in ToSet(os.ready) /\ os.curr \in Task
  BY <1>1, <1>2, TailList
<1> QED
  BY <1>3 DEF Queues, Sane, Listed

(* Whatever runs, it is in the ready list or it is the idle task. *)
LEMMA CurrentIsReadyOrIdle ==
  ASSUME Queues
  PROVE  os.curr \in ToSet(os.ready) \cup {Idle}
BY CallerIsReady DEF InSyscall

(* Blocking: the running task goes from the ready list to a wait list. *)
LEMMA BlockQueues ==
  ASSUME Queues, InSyscall, NEW q \in WaitList, BlockOn(q)
  PROVE  Queues'
<1> DEFINE c == os.curr
           b == task_set_block(os, c)
<1>1. c \in ToSet(os.ready) /\ c \in Task /\ c \notin Waiting
  BY CallerIsReady
<1>2. Sane(b, Waiting \cup {c})
  BY <1>1, SetBlockSane DEF Queues
<1>3. os' = task_dispatch(b) /\ waiters' = [waiters EXCEPT ![q] = Append(@, c)]
  BY DEF BlockOn
<1> HIDE DEF b
<1>4. Sane(os', Waiting \cup {c}) /\ os'.curr = task_next_run(os')
  BY <1>2, <1>3, DispatchSane
<1>5. /\ Append(waiters[q], c) \in Seq(Task)
      /\ ToSet(Append(waiters[q], c)) = ToSet(waiters[q]) \cup {c}
      /\ NoRepeat(Append(waiters[q], c))
  <2>1. waiters[q] \in Seq(Task) /\ NoRepeat(waiters[q])
    BY DEF Queues, WaitListsApart
  <2>2. c \notin ToSet(waiters[q])
    BY <1>1 DEF Waiting
  <2> QED
    BY <1>1, <2>1, <2>2, AppendList
<1> HIDE DEF c
<1>6. /\ waiters' \in [WaitList -> Seq(Task)]
      /\ \A r \in WaitList :
           ToSet(waiters'[r]) = IF r = q THEN ToSet(waiters[q]) \cup {c}
                                ELSE ToSet(waiters[r])
      /\ \A r \in WaitList : NoRepeat(waiters'[r])
  BY <1>3, <1>5 DEF Queues, WaitListsApart
<1>7. Waiting' = Waiting \cup {c}
  BY <1>6 DEF Waiting, WaitList
<1>8. \A r \in WaitList : c \notin ToSet(waiters[r])
  BY <1>1 DEF Waiting
<1>9. WaitListsApart'
  BY <1>6, <1>8 DEF Queues, WaitListsApart, WaitList
<1> QED
  BY <1>4, <1>7, <1>9 DEF Queues, CurrentIsFirst

(* Waking: the head of a wait list goes to the ready list. *)
LEMMA WakeQueues ==
  ASSUME Queues, NEW q \in WaitList, waiters[q] # <<>>, WakeFirst(q)
  PROVE  Queues'
<1> DEFINE h == Head(waiters[q])
           n == task_set_ready(os, h)
<1>1. waiters[q] \in Seq(Task) /\ NoRepeat(waiters[q])
  BY DEF Queues, WaitListsApart
<1>2. /\ Tail(waiters[q]) \in Seq(Task) /\ NoRepeat(Tail(waiters[q]))
      /\ h \in ToSet(waiters[q]) /\ h \in Task
      /\ ToSet(Tail(waiters[q])) = ToSet(waiters[q]) \ {h}
  BY <1>1, TailList
<1>3. h \in Waiting /\ h \notin Listed(os)
  BY <1>2 DEF Waiting, Queues, Sane
<1>4. os' = task_dispatch(n) /\ waiters' = [waiters EXCEPT ![q] = Tail(@)]
  BY DEF WakeFirst
<1> HIDE DEF h
<1>5. Sane(n, Waiting \ {h})
  BY <1>2, <1>3, SetReadySane DEF Queues
<1> HIDE DEF n
<1>6. Sane(os', Waiting \ {h}) /\ os'.curr = task_next_run(os')
  BY <1>4, <1>5, DispatchSane
<1>7. /\ waiters' \in [WaitList -> Seq(Task)]
      /\ \A r \in WaitList :
           ToSet(waiters'[r]) = IF r = q THEN ToSet(waiters[q]) \ {h}
                                ELSE ToSet(waiters[r])
      /\ \A r \in WaitList : NoRepeat(waiters'[r])
  BY <1>2, <1>4 DEF Queues, WaitListsApart
<1>8. \A r \in WaitList \ {q} : h \notin ToSet(waiters[r])
  BY <1>2 DEF Queues, WaitListsApart
<1>9. Waiting' = Waiting \ {h}
  BY <1>7, <1>8 DEF Waiting, WaitList
<1>10. WaitListsApart'
  BY <1>7 DEF Queues, WaitListsApart, WaitList
<1> QED
  BY <1>6, <1>9, <1>10 DEF Queues, CurrentIsFirst

(* A step of the scheduler that leaves the wait lists alone. *)
LEMMA SchedQueues ==
  ASSUME Queues, UNCHANGED waiters, Sane(os', Waiting),
         os'.curr = task_next_run(os')
  PROVE  Queues'
<1>1. Waiting' = Waiting /\ WaitListsApart'
  BY DEF Queues, Waiting, WaitListsApart, WaitList
<1> QED
  BY <1>1 DEF Queues, CurrentIsFirst

LEMMA TimerQueues ==
  ASSUME Queues, task_time_tick, UNCHANGED waiters
  PROVE  Queues'
<1>1. PICK n \in SleepScan(SliceTick(os)) : os' = task_dispatch(n)
  BY DEF task_time_tick
<1>2. Sane(n, Waiting)
  BY <1>1, CurrentIsReadyOrIdle, TickSane DEF Queues
<1>3. Sane(os', Waiting) /\ os'.curr = task_next_run(os')
  BY <1>1, <1>2, DispatchSane
<1> QED
  BY <1>3, SchedQueues

LEMMA YieldQueues ==
  ASSUME Queues, sys_yeild, UNCHANGED waiters
  PROVE  Queues'
<1> DEFINE c == os.curr
           b == task_set_block(os, c)
           r == task_set_ready(b, c)
<1>1. InSyscall /\ os' = task_dispatch(r)
  BY DEF sys_yeild
<1>2. c \in ToSet(os.ready) /\ c \in Task /\ c \notin Waiting
  BY <1>1, CallerIsReady
<1>3. Sane(b, Waiting \cup {c}) /\ c \notin Listed(b)
  BY <1>2, SetBlockSane DEF Queues
<1> HIDE DEF b
<1>4. Sane(r, Waiting)
  <2>1. (Waiting \cup {c}) \ {c} = Waiting
    BY <1>2
  <2> QED
    BY <1>2, <1>3, <2>1, SetReadySane
<1> HIDE DEF r
<1>5. Sane(os', Waiting) /\ os'.curr = task_next_run(os')
  BY <1>1, <1>4, DispatchSane
<1> QED
  BY <1>5, SchedQueues

LEMMA SleepQueues ==
  ASSUME Queues, NEW d \in 1..MaxSleep, sys_sleep(d), UNCHANGED waiters
  PROVE  Queues'
<1> DEFINE c == os.curr
           b == task_set_block(os, c)
           z == task_set_sleep(b, c, d)
<1>1. InSyscall /\ os' = task_dispatch(z)
  BY DEF sys_sleep
<1>2. c \in ToSet(os.ready) /\ c \in Task /\ c \notin Waiting
  BY <1>1, CallerIsReady
<1>3. Sane(b, Waiting \cup {c}) /\ c \notin Listed(b)
  BY <1>2, SetBlockSane DEF Queues
<1> HIDE DEF b
<1>4. Sane(z, Waiting)
  <2>1. (Waiting \cup {c}) \ {c} = Waiting
    BY <1>2
  <2> QED
    BY <1>2, <1>3, <2>1, SetSleepSane
<1> HIDE DEF z
<1>5. Sane(os', Waiting) /\ os'.curr = task_next_run(os')
  BY <1>1, <1>4, DispatchSane
<1> QED
  BY <1>5, SchedQueues

LEMMA StartQueues ==
  ASSUME Queues, NEW t \in Task, task_start(t), UNCHANGED waiters
  PROVE  Queues'
<1>1. InSyscall /\ os.state[t] = "CREATED" /\ os' = task_set_ready(os, t)
  BY DEF task_start
<1>2. t \notin Listed(os) /\ t \notin Waiting
  BY <1>1 DEF Queues, Sane
<1>3. Sane(os', Waiting)
  <2>1. Waiting \ {t} = Waiting
    BY <1>2
  <2> QED
    BY <1>1, <1>2, <2>1, SetReadySane DEF Queues
<1>4. os.ready \in Seq(Task) /\ os.ready # <<>> /\ os.curr = Head(os.ready)
  BY <1>1 DEF Queues, Sane, WellFormed, Scheduling, CurrentIsFirst,
              task_next_run, InSyscall
<1>5. os'.curr = os.curr /\ os'.ready = Append(os.ready, t)
  BY <1>1, <1>2, SetReadyEffect DEF Queues, Sane
<1>6. os'.ready # <<>> /\ Head(os'.ready) = Head(os.ready)
  BY <1>4, <1>5, AppendProperties, HeadTailAppend
<1>7. os'.curr = task_next_run(os')
  BY <1>4, <1>5, <1>6 DEF task_next_run
<1> QED
  BY <1>3, <1>7, SchedQueues

LEMMA SameQueues ==
  ASSUME Queues, UNCHANGED <<os, waiters>>
  PROVE  Queues'
<1>1. Sane(os', Waiting) /\ os'.curr = task_next_run(os')
  BY DEF Queues, CurrentIsFirst
<1> QED
  BY <1>1, SchedQueues

-----------------------------------------------------------------------------
(* mutex_lock, one case per branch of the code. *)
LEMMA LockInv ==
  ASSUME Inv, NEW m \in Mutex, mutex_lock(m)
  PROVE  Inv'
<1>1. Queues /\ Locks /\ Counts /\ InSyscall /\ sem' = sem
  BY DEF Inv, mutex_lock
<1>2. os.curr \in Task /\ os.curr # NoTask /\ os.curr \notin Waiting
  BY <1>1, CallerIsReady, IpcAssumption
<1>3. waiters \in [WaitList -> Seq(Task)] /\ m \in WaitList
  BY <1>1 DEF Queues, WaitListsApart, WaitList
<1>4. \A q \in WaitList : os.curr \notin ToSet(waiters[q])
  BY <1>2 DEF Waiting
<1>5. CASE LockFree(m)
  <2>1. Queues'
    BY <1>1, <1>5, SameQueues DEF LockFree
  <2>2. Locks'
    BY <1>1, <1>2, <1>3, <1>4, <1>5, IpcAssumption
    DEF LockFree, Locks, MutexCoherent, WaitList
  <2>3. Counts'
    BY <1>1, <1>5 DEF LockFree, Counts, SemCoherent
  <2> QED
    BY <2>1, <2>2, <2>3 DEF Inv
<1>6. CASE LockAgain(m)
  <2>1. Queues'
    BY <1>1, <1>6, SameQueues DEF LockAgain
  <2>2. Locks'
    BY <1>1, <1>2, <1>6, IpcAssumption DEF LockAgain, Locks, MutexCoherent
  <2>3. Counts'
    BY <1>1, <1>6 DEF LockAgain, Counts, SemCoherent
  <2> QED
    BY <2>1, <2>2, <2>3 DEF Inv
<1>7. CASE LockBlocked(m)
  <2>1. /\ mutex[m].count # 0 /\ mutex[m].owner # os.curr /\ mutex' = mutex
        /\ BlockOn(m)
        /\ waiters' = [waiters EXCEPT ![m] = Append(@, os.curr)]
    BY <1>7 DEF LockBlocked, BlockOn
  <2>2. Queues'
    BY <1>1, <1>3, <2>1, BlockQueues
  <2>3. ToSet(waiters'[m]) = ToSet(waiters[m]) \cup {os.curr}
    BY <1>2, <1>3, <2>1, AppendList
  <2>4. Locks'
    BY <1>1, <1>3, <2>1, <2>3 DEF Locks, MutexCoherent, WaitList
  <2>5. Counts'
    BY <1>1, <1>3, <2>1, IpcAssumption DEF Counts, SemCoherent, WaitList
  <2> QED
    BY <2>2, <2>4, <2>5 DEF Inv
<1> QED
  BY <1>5, <1>6, <1>7 DEF mutex_lock

(* mutex_unlock, one case per branch of the code. *)
LEMMA UnlockInv ==
  ASSUME Inv, NEW m \in Mutex, mutex_unlock(m)
  PROVE  Inv'
<1>1. /\ Queues /\ Locks /\ Counts /\ InSyscall /\ sem' = sem
      /\ mutex[m].owner = os.curr
  BY DEF Inv, mutex_unlock
<1>2. os.curr \in Task /\ os.curr # NoTask
  BY <1>1, CallerIsReady, IpcAssumption
<1>3. waiters \in [WaitList -> Seq(Task)] /\ m \in WaitList
  BY <1>1 DEF Queues, WaitListsApart, WaitList
<1>4. mutex[m].count > 0
  BY <1>1, <1>2 DEF Locks, MutexCoherent
<1>5. CASE UnlockInner(m)
  <2>1. Queues'
    BY <1>1, <1>5, SameQueues DEF UnlockInner
  <2>2. Locks'
    <3>1. mutex[m].count \in 2..MaxNest
      BY <1>1, <1>4, <1>5 DEF UnlockInner, Locks
    <3>2. mutex[m].count - 1 \in 0..MaxNest /\ mutex[m].count - 1 > 0
      BY <3>1, IpcAssumption
    <3>3. /\ mutex' \in [Mutex -> [count : 0..MaxNest, owner : Task \cup {NoTask}]]
          /\ \A n \in Mutex : mutex'[n].owner = mutex[n].owner
          /\ \A n \in Mutex \ {m} : mutex'[n].count = mutex[n].count
          /\ mutex'[m].count > 0 /\ waiters' = waiters
      BY <1>1, <1>5, <3>2 DEF UnlockInner, Locks
    <3>4. ASSUME NEW n \in Mutex
          PROVE  /\ mutex'[n].count > 0 <=> mutex'[n].owner # NoTask
                 /\ waiters'[n] # <<>> => mutex'[n].count > 0
                 /\ mutex'[n].owner \notin ToSet(waiters'[n])
      <4>1. /\ mutex[n].count > 0 <=> mutex[n].owner # NoTask
            /\ waiters[n] # <<>> => mutex[n].count > 0
            /\ mutex[n].owner \notin ToSet(waiters[n])
        BY <1>1 DEF Locks, MutexCoherent
      <4>2. mutex'[n].owner = mutex[n].owner /\ waiters'[n] = waiters[n]
        BY <3>3
      <4>3. mutex'[n].count > 0 <=> mutex[n].count > 0
        BY <1>4, <3>3
      <4> QED
        BY <4>1, <4>2, <4>3
    <3> QED
      BY <3>3, <3>4 DEF Locks, MutexCoherent
  <2>3. Counts'
    BY <1>1, <1>5 DEF UnlockInner, Counts, SemCoherent
  <2> QED
    BY <2>1, <2>2, <2>3 DEF Inv
<1>6. CASE UnlockFree(m)
  <2>1. Queues'
    BY <1>1, <1>6, SameQueues DEF UnlockFree
  <2>2. Locks'
    <3>1. NoTask \notin ToSet(waiters[m])
      BY <1>3, ListedAreTasks, IpcAssumption
    <3> QED
      BY <1>1, <1>3, <1>6, <3>1, IpcAssumption
      DEF UnlockFree, Locks, MutexCoherent
  <2>3. Counts'
    BY <1>1, <1>6 DEF UnlockFree, Counts, SemCoherent
  <2> QED
    BY <2>1, <2>2, <2>3 DEF Inv
<1>7. CASE UnlockHandOff(m)
  <2> DEFINE h == Head(waiters[m])
  <2>1. /\ waiters[m] # <<>> /\ WakeFirst(m)
        /\ mutex' = [mutex EXCEPT ![m] = [count |-> 1, owner |-> h]]
        /\ waiters' = [waiters EXCEPT ![m] = Tail(@)]
    BY <1>7 DEF UnlockHandOff, WakeFirst
  <2>2. Queues'
    BY <1>1, <1>3, <2>1, WakeQueues
  <2>3. /\ h \in Task /\ h \notin ToSet(Tail(waiters[m]))
    BY <1>1, <1>3, <2>1, TailList DEF Queues, WaitListsApart
  <2> HIDE DEF h
  <2>4. Locks'
    BY <1>1, <1>3, <2>1, <2>3, IpcAssumption DEF Locks, MutexCoherent, WaitList
  <2>5. Counts'
    BY <1>1, <1>3, <2>1, IpcAssumption DEF Counts, SemCoherent, WaitList
  <2> QED
    BY <2>2, <2>4, <2>5 DEF Inv
<1> QED
  BY <1>5, <1>6, <1>7 DEF mutex_unlock

(* sem_wait, one case per branch of the code. *)
LEMMA WaitInv ==
  ASSUME Inv, NEW s \in Sem, sem_wait(s)
  PROVE  Inv'
<1>1. Queues /\ Locks /\ Counts /\ InSyscall /\ mutex' = mutex
  BY DEF Inv, sem_wait
<1>2. waiters \in [WaitList -> Seq(Task)] /\ s \in WaitList /\ s \notin Mutex
  BY <1>1, IpcAssumption DEF Queues, WaitListsApart, WaitList
<1>3. CASE SemTake(s)
  <2>1. Queues'
    BY <1>1, <1>3, SameQueues DEF SemTake
  <2>2. Locks'
    BY <1>1, <1>3 DEF SemTake, Locks, MutexCoherent
  <2>3. Counts'
    BY <1>1, <1>3 DEF SemTake, Counts, SemCoherent
  <2> QED
    BY <2>1, <2>2, <2>3 DEF Inv
<1>4. CASE SemBlock(s)
  <2>1. /\ ~ (sem[s] > 0) /\ BlockOn(s) /\ sem' = sem
        /\ waiters' = [waiters EXCEPT ![s] = Append(@, os.curr)]
    BY <1>4 DEF SemBlock, BlockOn
  <2>2. Queues'
    BY <1>1, <1>2, <2>1, BlockQueues
  <2>3. \A q \in WaitList \ {s} : waiters'[q] = waiters[q]
    BY <1>2, <2>1
  <2>4. Locks'
    BY <1>1, <1>2, <2>3 DEF Locks, MutexCoherent, WaitList
  <2>5. Counts'
    BY <1>1, <2>1, <2>3 DEF Counts, SemCoherent, WaitList
  <2> QED
    BY <2>2, <2>4, <2>5 DEF Inv
<1> QED
  BY <1>3, <1>4 DEF sem_wait

(* sem_notify, one case per branch of the code, whoever calls it. *)
LEMMA NotifyInv ==
  ASSUME Inv, NEW s \in Sem, sem_notify(s)
  PROVE  Inv'
<1>1. Queues /\ Locks /\ Counts /\ mutex' = mutex
  BY DEF Inv, sem_notify
<1>2. waiters \in [WaitList -> Seq(Task)] /\ s \in WaitList /\ s \notin Mutex
  BY <1>1, IpcAssumption DEF Queues, WaitListsApart, WaitList
<1>3. CASE SemWake(s)
  <2>1. /\ waiters[s] # <<>> /\ WakeFirst(s) /\ sem' = sem
        /\ waiters' = [waiters EXCEPT ![s] = Tail(@)]
    BY <1>3 DEF SemWake, WakeFirst
  <2>2. Queues'
    BY <1>1, <1>2, <2>1, WakeQueues
  <2>3. \A q \in WaitList \ {s} : waiters'[q] = waiters[q]
    BY <1>2, <2>1
  <2>4. Locks'
    BY <1>1, <1>2, <2>3 DEF Locks, MutexCoherent, WaitList
  <2>5. Counts'
    BY <1>1, <2>1, <2>3 DEF Counts, SemCoherent, WaitList
  <2> QED
    BY <2>2, <2>4, <2>5 DEF Inv
<1>4. CASE SemAdd(s)
  <2>1. Queues'
    BY <1>1, <1>4, SameQueues DEF SemAdd
  <2>2. Locks'
    BY <1>1, <1>4 DEF SemAdd, Locks, MutexCoherent
  <2>3. Counts'
    BY <1>1, <1>4 DEF SemAdd, Counts, SemCoherent
  <2> QED
    BY <2>1, <2>2, <2>3 DEF Inv
<1> QED
  BY <1>3, <1>4 DEF sem_notify

(* A step of the scheduler alone. *)
LEMMA OsInv ==
  ASSUME Inv, Queues', UNCHANGED ipc
  PROVE  Inv'
BY DEF Inv, ipc, Locks, MutexCoherent, Counts, SemCoherent

-----------------------------------------------------------------------------
LEMMA InitInv == IpcInit => Inv
<1> SUFFICES ASSUME IpcInit PROVE Inv
  OBVIOUS
<1>1. /\ os.curr = First /\ os.ready = <<First>> /\ os.asleep = <<>>
      /\ os.state = [t \in Task \cup {Idle} |->
                       IF t = First THEN "READY" ELSE "CREATED"]
      /\ os.sleepTicks = [t \in Task |-> 0]
      /\ os.slice = [t \in Task \cup {Idle} |-> TimeSlice]
      /\ waiters = [q \in WaitList |-> <<>>]
  BY DEF IpcInit, SchedulerInit, WaitList
<1>2. os \in Scheduling
  BY SchedulerAssumption DEF IpcInit, SchedulerInit, Scheduling, TaskState
<1>3. ToSet(os.ready) = {First} /\ ToSet(os.asleep) = {}
      /\ NoRepeat(os.ready) /\ NoRepeat(os.asleep)
  BY <1>1 DEF ToSet, NoRepeat
<1>4. Waiting = {} /\ WaitListsApart
  BY <1>1 DEF Waiting, WaitListsApart, ToSet, NoRepeat
<1>5. WellFormed(os) /\ SliceInRange(os) /\ SleepersPositive(os)
  BY <1>1, <1>2, <1>3, SchedulerAssumption
  DEF WellFormed, SliceInRange, SleepersPositive
<1>6. Sane(os, Waiting)
  BY <1>1, <1>3, <1>4, <1>5 DEF Sane, Listed
<1>7. CurrentIsFirst
  BY <1>1 DEF CurrentIsFirst, task_next_run
<1>8. Locks
  BY <1>1, IpcAssumption DEF IpcInit, Locks, MutexCoherent, WaitList, ToSet
<1>9. Counts
  BY <1>1, IpcAssumption DEF IpcInit, Counts, SemCoherent, WaitList
<1> QED
  BY <1>4, <1>6, <1>7, <1>8, <1>9 DEF Inv, Queues

LEMMA NextInv == Inv /\ [IpcNext]_vars => Inv'
<1> SUFFICES ASSUME Inv, [IpcNext]_vars PROVE Inv'
  OBVIOUS
<1>q. Queues
  BY DEF Inv
<1>1. CASE Timer
  BY <1>q, <1>1, TimerQueues, OsInv DEF Timer, ipc
<1>2. CASE Yield
  BY <1>q, <1>2, YieldQueues, OsInv DEF Yield, ipc
<1>3. CASE Sleep
  BY <1>q, <1>3, SleepQueues, OsInv DEF Sleep, ipc
<1>4. CASE Start
  BY <1>q, <1>4, StartQueues, OsInv DEF Start, ipc
<1>5. CASE Lock
  BY <1>5, LockInv DEF Lock
<1>6. CASE Unlock
  BY <1>6, UnlockInv DEF Unlock
<1>7. CASE Wait
  BY <1>7, WaitInv DEF Wait
<1>8. CASE SemNotifyFromTask
  BY <1>8, NotifyInv DEF SemNotifyFromTask
<1>9. CASE SemNotifyFromIrq
  BY <1>9, NotifyInv, IpcAssumption DEF SemNotifyFromIrq
<1>10. CASE UNCHANGED vars
  BY <1>q, <1>10, SameQueues, OsInv DEF vars, ipc
<1> QED
  BY <1>1, <1>2, <1>3, <1>4, <1>5, <1>6, <1>7, <1>8, <1>9, <1>10 DEF IpcNext

THEOREM InvAlways == IpcSpec => []Inv
BY InitInv, NextInv, PTL DEF IpcSpec

(* Every variable keeps its type: in particular locked_count never falls    *)
(* below zero, every list holds tasks only, and no tick counter that is to  *)
(* be decremented is zero.                                                  *)
THEOREM TypeCorrect == IpcSpec => []TypeOK
<1>1. Inv => TypeOK
  BY InvImplies
<1> QED
  BY <1>1, InvAlways, PTL

(* However mutexes, semaphores, sleeps, yields and interrupts interleave, a *)
(* task is linked into one list at most, and a started task into one; the   *)
(* processor runs the first ready task, and idles only if none is.          *)
THEOREM ListsAreSound == IpcSpec => []ListsSound
<1>1. Inv => ListsSound
  BY InvImplies DEF ListsSound
<1> QED
  BY <1>1, InvAlways, PTL

(* A locked mutex has one owner, which does not wait for it, and a mutex    *)
(* with waiters is locked.  No task waits at a semaphore that could let it  *)
(* pass.                                                                    *)
THEOREM LocksAreCoherent == IpcSpec => []LocksCoherent
<1>1. Inv => LocksCoherent
  BY InvImplies DEF LocksCoherent
<1> QED
  BY <1>1, InvAlways, PTL

(* The tick counters are positive before task_time_tick decrements them,    *)
(* and TASK_SLEEP marks the tasks of the sleep list.                        *)
THEOREM TicksNeverWrap == IpcSpec => [](TicksPositive /\ SleepStateExact)
<1>1. Inv => TicksPositive /\ SleepStateExact
  BY InvImplies
<1> QED
  BY <1>1, InvAlways, PTL

(* mutex_unlock hands a contended mutex to the task that waited longest. *)
THEOREM NobodyBarges == IpcSpec => NoBarging
<1>1. ASSUME Inv, [IpcNext]_vars, NEW m \in Mutex,
             waiters[m] # <<>>, mutex'[m].owner # mutex[m].owner
      PROVE  mutex'[m].owner = Head(waiters[m])
  <2>1. /\ mutex \in [Mutex -> [count : 0..MaxNest, owner : Task \cup {NoTask}]]
        /\ mutex[m].count > 0
    BY <1>1 DEF Inv, Locks, MutexCoherent
  <2>2. ASSUME NEW n \in Mutex, mutex_lock(n)
        PROVE  FALSE
    BY <1>1, <2>1, <2>2 DEF mutex_lock, LockFree, LockAgain, LockBlocked
  <2>3. ASSUME NEW n \in Mutex, mutex_unlock(n)
        PROVE  mutex'[m].owner = Head(waiters[m])
    BY <1>1, <2>1, <2>3
    DEF mutex_unlock, UnlockInner, UnlockFree, UnlockHandOff
  <2> QED
    BY <1>1, <2>2, <2>3
    DEF IpcNext, Timer, Yield, Sleep, Start, Lock, Unlock, Wait, sem_wait,
        SemNotifyFromTask, SemNotifyFromIrq, sem_notify, vars, ipc
<1>2. Inv /\ [IpcNext]_vars
        => [\A m \in Mutex :
              (waiters[m] # <<>> /\ mutex'[m].owner # mutex[m].owner)
                => mutex'[m].owner = Head(waiters[m])]_vars
  BY <1>1
<1> QED
  BY <1>2, InvAlways, PTL DEF IpcSpec, NoBarging

-----------------------------------------------------------------------------
(* The order of the ready list and of the sleep list.                       *)

\* From the list s to the list r no two elements change places, unless the
\* first of them is c and goes behind all the others.
Rotates(s, r, c) ==
  \A t, u \in Task :
    (Before(s, t, u) /\ Before(r, u, t))
      => t = c /\ \A w \in ToSet(s) \ {t} : Before(r, w, t)

(* Two elements of a list have one order.                                   *)
LEMMA OneOrder ==
  ASSUME NEW S, NEW s \in Seq(S), NoRepeat(s), NEW t, NEW u,
         Before(s, t, u)
  PROVE  t \in ToSet(s) /\ u \in ToSet(s) /\ t # u /\ ~ Before(s, u, t)
<1>1. DOMAIN s = 1..Len(s) /\ Len(s) \in Nat
  BY LenProperties
<1>2. PICK i \in DOMAIN s, j \in DOMAIN s : i < j /\ s[i] = t /\ s[j] = u
  BY DEF Before
<1>3. t # u
  BY <1>1, <1>2 DEF NoRepeat
<1>4. ASSUME NEW m \in DOMAIN s, NEW n \in DOMAIN s, m < n, s[m] = u, s[n] = t
      PROVE  FALSE
  <2>1. m = j /\ n = i
    BY <1>2, <1>4 DEF NoRepeat
  <2> QED
    BY <1>1, <1>2, <1>4, <2>1
<1> QED
  BY <1>2, <1>3, <1>4 DEF Before, ToSet

(* What is put at the end leaves the order of the others.                   *)
LEMMA ConcatOrder ==
  ASSUME NEW S, NEW s \in Seq(S), NEW w \in Seq(S), NEW t, NEW u
  PROVE  /\ Before(s, t, u) => Before(s \o w, t, u)
         /\ Before(w, t, u) => Before(s \o w, t, u)
         /\ t \notin ToSet(w) /\ u \notin ToSet(w) /\ Before(s \o w, t, u)
              => Before(s, t, u)
         /\ t \in ToSet(s) /\ u \in ToSet(w) => Before(s \o w, t, u)
<1> DEFINE c == s \o w
<1>1. /\ Len(s) \in Nat /\ Len(w) \in Nat /\ DOMAIN s = 1..Len(s)
      /\ DOMAIN w = 1..Len(w) /\ DOMAIN c = 1..(Len(s) + Len(w))
      /\ \A i \in 1..Len(s) : c[i] = s[i]
      /\ \A i \in 1..Len(w) : c[Len(s) + i] = w[i]
  <2>1. /\ c \in Seq(S) /\ Len(c) = Len(s) + Len(w)
        /\ \A i \in 1..Len(c) : c[i] = IF i <= Len(s) THEN s[i] ELSE w[i - Len(s)]
    BY ConcatProperties
  <2>2. Len(s) \in Nat /\ Len(w) \in Nat /\ DOMAIN c = 1..Len(c)
    BY <2>1, LenProperties
  <2>3. ASSUME NEW i \in 1..Len(s)
        PROVE  c[i] = s[i]
    BY <2>1, <2>2
  <2>4. ASSUME NEW i \in 1..Len(w)
        PROVE  c[Len(s) + i] = w[i]
    <3>1. Len(s) + i \in 1..Len(c) /\ ~ (Len(s) + i <= Len(s)) /\ (Len(s) + i) - Len(s) = i
      BY <2>1, <2>2
    <3> QED
      BY <2>1, <3>1
  <2> QED
    BY <2>1, <2>2, <2>3, <2>4, LenProperties
<1> HIDE DEF c
<1>2. ASSUME NEW i \in DOMAIN c
      PROVE  \/ i \in 1..Len(s) /\ c[i] = s[i]
             \/ i - Len(s) \in 1..Len(w) /\ c[i] = w[i - Len(s)]
  <2>1. CASE i <= Len(s)
    BY <1>1, <2>1
  <2>2. CASE ~ (i <= Len(s))
    <3>1. i - Len(s) \in 1..Len(w) /\ Len(s) + (i - Len(s)) = i
      BY <1>1, <2>2
    <3> QED
      BY <1>1, <3>1
  <2> QED
    BY <2>1, <2>2
<1>3. ASSUME Before(s, t, u)
      PROVE  Before(c, t, u)
  <2>1. PICK i \in DOMAIN s, j \in DOMAIN s : i < j /\ s[i] = t /\ s[j] = u
    BY <1>3 DEF Before
  <2>2. i \in DOMAIN c /\ j \in DOMAIN c
    BY <1>1, <2>1
  <2>3. c[i] = t /\ c[j] = u
    BY <1>1, <2>1
  <2> QED
    BY <2>1, <2>2, <2>3 DEF Before
<1>4. ASSUME Before(w, t, u)
      PROVE  Before(c, t, u)
  <2>1. PICK i \in DOMAIN w, j \in DOMAIN w : i < j /\ w[i] = t /\ w[j] = u
    BY <1>4 DEF Before
  <2>2. Len(s) + i \in DOMAIN c /\ Len(s) + j \in DOMAIN c /\ Len(s) + i < Len(s) + j
    BY <1>1, <2>1
  <2>3. c[Len(s) + i] = t /\ c[Len(s) + j] = u
    BY <1>1, <2>1
  <2> QED
    BY <2>2, <2>3 DEF Before
<1>5. ASSUME t \notin ToSet(w), u \notin ToSet(w), Before(c, t, u)
      PROVE  Before(s, t, u)
  <2>1. PICK i \in DOMAIN c, j \in DOMAIN c : i < j /\ c[i] = t /\ c[j] = u
    BY <1>5 DEF Before
  <2>2. \A k \in 1..Len(w) : w[k] # t /\ w[k] # u
    BY <1>1, <1>5 DEF ToSet
  <2>3. i \in 1..Len(s) /\ c[i] = s[i] /\ j \in 1..Len(s) /\ c[j] = s[j]
    BY <1>2, <2>1, <2>2
  <2> QED
    BY <1>1, <2>1, <2>3 DEF Before
<1>6. ASSUME t \in ToSet(s), u \in ToSet(w)
      PROVE  Before(c, t, u)
  <2>1. PICK i \in 1..Len(s), j \in 1..Len(w) : s[i] = t /\ w[j] = u
    BY <1>1, <1>6 DEF ToSet
  <2>2. i \in DOMAIN c /\ Len(s) + j \in DOMAIN c /\ i < Len(s) + j
    BY <1>1, <2>1
  <2>3. c[i] = t /\ c[Len(s) + j] = u
    BY <1>1, <2>1
  <2> QED
    BY <2>2, <2>3 DEF Before
<1> QED
  BY <1>3, <1>4, <1>5, <1>6 DEF c

(* The head is before all others, and the order of those is that of the tail. *)
LEMMA TailOrder ==
  ASSUME NEW S, NEW s \in Seq(S), s # <<>>, NEW t, NEW u
  PROVE  /\ Before(Tail(s), t, u) => Before(s, t, u)
         /\ Before(s, t, u) => t = Head(s) \/ Before(Tail(s), t, u)
<1> DEFINE r == Tail(s)
<1>1. /\ Len(s) \in Nat /\ Len(s) > 0 /\ DOMAIN s = 1..Len(s)
      /\ DOMAIN r = 1..(Len(s) - 1) /\ s[1] = Head(s)
      /\ \A i \in 1..(Len(s) - 1) : r[i] = s[i + 1]
  BY HeadTailProperties, LenProperties, EmptySeq
<1> HIDE DEF r
<1>2. ASSUME Before(r, t, u)
      PROVE  Before(s, t, u)
  <2>1. PICK i \in DOMAIN r, j \in DOMAIN r : i < j /\ r[i] = t /\ r[j] = u
    BY <1>2 DEF Before
  <2>2. /\ i + 1 \in DOMAIN s /\ j + 1 \in DOMAIN s /\ i + 1 < j + 1
        /\ s[i + 1] = t /\ s[j + 1] = u
    BY <1>1, <2>1
  <2> QED
    BY <2>2 DEF Before
<1>3. ASSUME Before(s, t, u), t # Head(s)
      PROVE  Before(r, t, u)
  <2>1. PICK i \in DOMAIN s, j \in DOMAIN s : i < j /\ s[i] = t /\ s[j] = u
    BY <1>3 DEF Before
  <2>2. i # 1
    BY <1>1, <1>3, <2>1
  <2>3. /\ i - 1 \in DOMAIN r /\ j - 1 \in DOMAIN r /\ i - 1 < j - 1
        /\ (i - 1) + 1 = i /\ (j - 1) + 1 = j
    BY <1>1, <2>1, <2>2
  <2>4. r[i - 1] = t /\ r[j - 1] = u
    BY <1>1, <2>1, <2>3
  <2> QED
    BY <2>3, <2>4 DEF Before
<1> QED
  BY <1>2, <1>3 DEF r

(* list_remove of the first node.                                           *)
LEMMA WithoutHead ==
  ASSUME NEW S, NEW s \in Seq(S), s # <<>>, NoRepeat(s)
  PROVE  Without(s, Head(s)) = Tail(s)
<1>1. Len(s) \in Nat /\ Len(s) > 0 /\ DOMAIN s = 1..Len(s) /\ Head(s) = s[1]
  BY LenProperties, EmptySeq
<1>2. PICK p : p = CHOOSE i \in DOMAIN s : s[i] = Head(s)
  OBVIOUS
<1>3. p \in DOMAIN s /\ s[p] = Head(s)
  <2>1. 1 \in DOMAIN s
    BY <1>1
  <2> QED
    BY <1>1, <1>2, <2>1
<1>4. p = 1
  BY <1>1, <1>3 DEF NoRepeat
<1>5. Without(s, Head(s)) = SubSeq(s, 1, 0) \o SubSeq(s, 2, Len(s))
  <2>1. Without(s, Head(s)) = RemoveAt(s, p)
    BY <1>2 DEF Without
  <2>2. RemoveAt(s, 1) = SubSeq(s, 1, 1 - 1) \o SubSeq(s, 1 + 1, Len(s))
    BY DEF RemoveAt
  <2>3. 1 - 1 = 0 /\ 1 + 1 = 2
    OBVIOUS
  <2> QED
    BY <1>4, <2>1, <2>2, <2>3
<1>6. SubSeq(s, 1, 0) = <<>>
  BY SubSeqEmpty
<1>7. SubSeq(s, 2, Len(s)) = Tail(s)
  BY TailIsSubSeq
<1>8. Tail(s) \in Seq(S)
  BY HeadTailProperties
<1> QED
  BY <1>5, <1>6, <1>7, <1>8, ConcatEmptySeq

(* A wakeup: tasks that were not in the list come behind it.                *)
LEMMA RotatesConcat ==
  ASSUME NEW s \in Seq(Task), NoRepeat(s), NEW w \in Seq(Task),
         ToSet(w) \cap ToSet(s) = {}, NEW c
  PROVE  Rotates(s, s \o w, c)
<1>1. ASSUME NEW t \in Task, NEW u \in Task, Before(s, t, u), Before(s \o w, u, t)
      PROVE  FALSE
  <2>1. t \in ToSet(s) /\ u \in ToSet(s) /\ ~ Before(s, u, t)
    BY <1>1, OneOrder
  <2>2. t \notin ToSet(w) /\ u \notin ToSet(w)
    BY <2>1
  <2> QED
    BY <1>1, <2>1, <2>2, ConcatOrder
<1> QED
  BY <1>1 DEF Rotates

(* No wakeup.                                                               *)
LEMMA RotatesSame ==
  ASSUME NEW s \in Seq(Task), NoRepeat(s), NEW c
  PROVE  Rotates(s, s, c)
<1>1. ASSUME NEW t \in Task, NEW u \in Task, Before(s, t, u), Before(s, u, t)
      PROVE  FALSE
  BY <1>1, OneOrder
<1> QED
  BY <1>1 DEF Rotates

(* The running task blocks.                                                 *)
LEMMA RotatesTail ==
  ASSUME NEW s \in Seq(Task), NoRepeat(s), s # <<>>, NEW c
  PROVE  Rotates(s, Tail(s), c)
<1>1. ASSUME NEW t \in Task, NEW u \in Task, Before(s, t, u), Before(Tail(s), u, t)
      PROVE  FALSE
  <2>1. Before(s, u, t)
    BY <1>1, TailOrder
  <2> QED
    BY <1>1, <2>1, OneOrder
<1> QED
  BY <1>1 DEF Rotates

(* The running task goes behind all others, and then a wakeup.              *)
LEMMA RotatesTurn ==
  ASSUME NEW s \in Seq(Task), NoRepeat(s), s # <<>>, NEW w \in Seq(Task),
         ToSet(w) \cap ToSet(s) = {}
  PROVE  Rotates(s, Append(Tail(s), Head(s)) \o w, Head(s))
<1> DEFINE h == Head(s)
           r == Tail(s)
           e == <<h>>
<1>1. /\ r \in Seq(Task) /\ NoRepeat(r) /\ h \in ToSet(s) /\ h \in Task
      /\ ToSet(r) = ToSet(s) \ {h}
  BY TailList
<1>2. e \in Seq(Task) /\ ToSet(e) = {h} /\ Append(r, h) = r \o e
  <2>1. e \in Seq(Task)
    BY <1>1
  <2>2. ToSet(e) = {h}
    BY DEF ToSet
  <2>3. Append(r, h) = r \o e
    BY <1>1, AppendIsConcat
  <2> QED
    BY <2>1, <2>2, <2>3
<1>3. r \o e \in Seq(Task)
  BY <1>1, <1>2, ConcatProperties
<1>4. \A t, u : Before(s, t, u) => t = h \/ Before(r, t, u)
  BY TailOrder
<1> HIDE DEF h, r, e
<1>5. ASSUME NEW t \in Task, NEW u \in Task, Before(s, t, u),
             Before((r \o e) \o w, u, t)
      PROVE  t = h /\ \A x \in ToSet(s) \ {t} : Before((r \o e) \o w, x, t)
  <2>1. t \in ToSet(s) /\ u \in ToSet(s) /\ t # u
    BY <1>5, OneOrder
  <2>2. Before(r \o e, u, t)
    <3>1. t \notin ToSet(w) /\ u \notin ToSet(w)
      BY <2>1
    <3> QED
      BY <1>3, <1>5, <3>1, ConcatOrder
  <2>3. t = h
    <3>1. SUFFICES ASSUME t # h
                   PROVE  FALSE
      OBVIOUS
    <3>2. Before(r, t, u)
      BY <1>4, <1>5, <3>1
    <3>3. t \in ToSet(r) /\ u \in ToSet(r) /\ ~ Before(r, u, t)
      BY <1>1, <3>2, OneOrder
    <3>4. t \notin ToSet(e) /\ u \notin ToSet(e)
      BY <1>1, <1>2, <3>3
    <3> QED
      BY <1>1, <1>2, <2>2, <3>3, <3>4, ConcatOrder
  <2>4. ASSUME NEW x \in ToSet(s) \ {t}
        PROVE  Before((r \o e) \o w, x, t)
    <3>1. x \in ToSet(r) /\ t \in ToSet(e)
      BY <1>1, <1>2, <2>3
    <3>2. Before(r \o e, x, t)
      BY <1>1, <1>2, <3>1, ConcatOrder
    <3> QED
      BY <1>3, <3>2, ConcatOrder
  <2> QED
    BY <2>3, <2>4
<1>6. Rotates(s, (r \o e) \o w, h)
  BY <1>5 DEF Rotates
<1> QED
  BY <1>2, <1>6 DEF h, r

-----------------------------------------------------------------------------
(* Each region as a change of the ready list and the sleep list.            *)

\* The running task is the first of the ready list or idle.
Runs(k) == \/ k.ready # <<>> /\ k.curr = Head(k.ready)
           \/ k.ready = <<>> /\ k.curr = Idle

(* What the queues' invariant says of the running task and of the two lists. *)
LEMMA QueuesRun ==
  ASSUME Queues
  PROVE  /\ Runs(os) /\ WellFormed(os) /\ Sane(os, Waiting)
         /\ os.ready \in Seq(Task) /\ NoRepeat(os.ready)
         /\ os.asleep \in Seq(Task) /\ NoRepeat(os.asleep)
         /\ ToSet(os.ready) \cap ToSet(os.asleep) = {}
         /\ InSyscall => os.ready # <<>> /\ os.curr = Head(os.ready)
BY DEF Queues, Sane, WellFormed, Scheduling, CurrentIsFirst, task_next_run, Runs,
       InSyscall

(* The running task is taken out of the ready list.                         *)
LEMMA BlockFirst ==
  ASSUME NEW k, WellFormed(k), k.ready # <<>>, k.curr = Head(k.ready)
  PROVE  /\ WellFormed(task_set_block(k, k.curr)) /\ k.curr \in Task
         /\ task_set_block(k, k.curr).ready = Tail(k.ready)
         /\ task_set_block(k, k.curr).asleep = k.asleep
         /\ k.curr \notin Listed(task_set_block(k, k.curr))
<1>1. k.ready \in Seq(Task) /\ NoRepeat(k.ready) /\ k \in Scheduling
  BY DEF WellFormed, Scheduling
<1>2. k.curr \in ToSet(k.ready) /\ k.curr \in Task
  BY <1>1, TailList
<1>3. PICK b : b = task_set_block(k, k.curr)
  OBVIOUS
<1>4. /\ WellFormed(b) /\ ToSet(b.ready) = ToSet(k.ready) \ {k.curr}
      /\ b.asleep = k.asleep
  BY <1>2, <1>3, SetBlockEffect
<1>5. k.curr # Idle
  BY <1>2, SchedulerAssumption
<1>6. b = [k EXCEPT !.ready = Without(@, k.curr)]
  BY <1>3, <1>5 DEF task_set_block
<1>7. b.ready = Without(k.ready, k.curr)
  BY <1>1, <1>6 DEF Scheduling
<1>8. b.ready = Tail(k.ready)
  BY <1>1, <1>7, WithoutHead
<1>9. k.curr \notin Listed(b)
  BY <1>2, <1>4 DEF WellFormed, Listed
<1> QED
  BY <1>2, <1>3, <1>4, <1>8, <1>9

(* At the end of its slice the running task goes to the end of the list.    *)
LEMMA SliceOrder ==
  ASSUME NEW k, WellFormed(k), k.slice[k.curr] \in 1..TimeSlice, Runs(k)
  PROVE  /\ SliceTick(k).asleep = k.asleep
         /\ SliceTick(k).sleepTicks = k.sleepTicks
         /\ \/ SliceTick(k).ready = k.ready
            \/ /\ k.ready # <<>> /\ k.curr = Head(k.ready)
               /\ SliceTick(k).ready = Append(Tail(k.ready), k.curr)
<1>1. /\ k \in Scheduling /\ k.curr \in ToSet(k.ready) \cup {Idle}
      /\ k.ready \in Seq(Task)
  BY TailList DEF WellFormed, Scheduling, Runs
<1>2. SliceTick(k).asleep = k.asleep /\ SliceTick(k).sleepTicks = k.sleepTicks
  BY <1>1, SliceTickEffect
<1>3. CASE k.slice[k.curr] - 1 # 0
  <2>1. SliceTick(k) = [k EXCEPT !.slice[k.curr] = k.slice[k.curr] - 1]
    BY <1>3 DEF SliceTick
  <2> QED
    BY <1>1, <1>2, <2>1 DEF Scheduling
<1>4. CASE k.slice[k.curr] - 1 = 0
  <2>1. PICK f : f = [k EXCEPT !.slice[k.curr] = TimeSlice]
    OBVIOUS
  <2>2. /\ f \in Scheduling /\ f.ready = k.ready /\ f.curr = k.curr
        /\ f.asleep = k.asleep
    BY <1>1, <2>1, SchedulerAssumption DEF Scheduling
  <2>3. WellFormed(f)
    BY <2>2 DEF WellFormed
  <2>4. SliceTick(k) = task_set_ready(task_set_block(f, k.curr), k.curr)
    BY <1>4, <2>1 DEF SliceTick
  <2>5. CASE k.ready = <<>>
    <3>1. k.curr = Idle
      BY <2>5 DEF Runs
    <3>2. SliceTick(k) = f
      BY <2>4, <3>1 DEF task_set_ready, task_set_block
    <3> QED
      BY <1>2, <2>2, <3>2
  <2>6. CASE k.ready # <<>>
    <3>1. k.curr = Head(k.ready)
      BY <2>6 DEF Runs
    <3>2. PICK b : b = task_set_block(f, k.curr)
      OBVIOUS
    <3>3. /\ WellFormed(b) /\ k.curr \in Task /\ b.ready = Tail(k.ready)
          /\ k.curr \notin Listed(b)
      BY <2>2, <2>3, <2>6, <3>1, <3>2, BlockFirst
    <3>4. task_set_ready(b, k.curr).ready = Append(b.ready, k.curr)
      BY <3>3, SetReadyEffect
    <3> QED
      BY <1>2, <2>4, <2>6, <3>1, <3>2, <3>3, <3>4
  <2> QED
    BY <2>5, <2>6
<1> QED
  BY <1>3, <1>4

(* The pass over the sleep list, as lists.                                  *)
LEMMA ScanOrder ==
  ASSUME NEW k, WellFormed(k), NEW n \in SleepScan(k)
  PROVE  \E woken \in InOrder(Due(k), k.asleep),
            kept \in InOrder(ToSet(k.asleep) \ Due(k), k.asleep) :
           /\ n.ready = k.ready \o woken /\ n.asleep = kept
           /\ woken \in Seq(Task) /\ ToSet(woken) = Due(k)
           /\ NoRepeat(woken) /\ kept \in Seq(Task) /\ NoRepeat(kept)
           /\ ToSet(kept) = ToSet(k.asleep) \ Due(k)
<1>1. /\ k.asleep \in Seq(Task) /\ k \in Scheduling
      /\ ToSet(k.asleep) \subseteq Task /\ IsFiniteSet(ToSet(k.asleep))
  BY ListedAreTasks DEF WellFormed, Scheduling
<1>2. /\ Due(k) \subseteq ToSet(k.asleep) /\ IsFiniteSet(Due(k))
      /\ IsFiniteSet(ToSet(k.asleep) \ Due(k))
  BY <1>1, FS_Subset DEF Due
<1>3. PICK woken \in InOrder(Due(k), k.asleep),
           kept \in InOrder(ToSet(k.asleep) \ Due(k), k.asleep) :
             n = AfterScan(k, woken, kept)
  BY DEF SleepScan
<1>4. n.ready = k.ready \o woken /\ n.asleep = kept
  BY <1>1, <1>3 DEF AfterScan, Scheduling
<1>5. woken \in Seq(Due(k)) /\ NoRepeat(woken) /\ ToSet(woken) = Due(k)
  BY <1>2, InOrderList
<1>6. /\ kept \in Seq(ToSet(k.asleep) \ Due(k)) /\ NoRepeat(kept)
      /\ ToSet(kept) = ToSet(k.asleep) \ Due(k)
  BY <1>2, InOrderList
<1>7. woken \in Seq(Task) /\ kept \in Seq(Task)
  BY <1>1, <1>2, <1>5, <1>6, SeqMonotonic
<1> QED
  BY <1>3, <1>4, <1>5, <1>6, <1>7

(* A part of a list, listed in its order, has its order.                    *)
LEMMA InOrderKeeps ==
  ASSUME NEW S, NEW s \in Seq(Task), NoRepeat(s), NEW q \in InOrder(S, s),
         q \in Seq(Task), NEW t \in ToSet(q), NEW u \in ToSet(q), Before(s, t, u)
  PROVE  Before(q, t, u)
<1>1. PICK i \in DOMAIN q, j \in DOMAIN q : q[i] = t /\ q[j] = u
  BY DEF ToSet
<1>2. i \in Nat /\ j \in Nat
  BY <1>1, LenProperties
<1>3. CASE i < j
  BY <1>1, <1>3 DEF Before
<1>4. CASE j < i
  <2>1. PICK m \in DOMAIN s, n \in DOMAIN s : m < n /\ s[m] = t /\ s[n] = u
    BY DEF Before
  <2>2. n < m
    BY <1>1, <1>4, <2>1 DEF InOrder
  <2>3. m \in Nat /\ n \in Nat
    BY <2>1, LenProperties
  <2> QED
    BY <2>1, <2>2, <2>3
<1>5. CASE i = j
  BY <1>1, <1>5, OneOrder
<1> QED
  BY <1>2, <1>3, <1>4, <1>5

\* The sleepers that leave the sleep list, and their order.
Wakes(k, n) ==
  \A t, u \in Task :
    (Before(k.asleep, t, u) /\ ~ Before(n.asleep, t, u))
      => IF k.sleepTicks[t] = k.sleepTicks[u]
         THEN Before(n.ready, t, u)
         ELSE 1 \in {k.sleepTicks[t], k.sleepTicks[u]}

\* What a region may do to the order of the two lists.
Orderly(k, n) == Rotates(k.ready, n.ready, k.curr) /\ Wakes(k, n)

(* The timer.                                                               *)
LEMMA TimerOrderly ==
  ASSUME Queues, task_time_tick
  PROVE  Orderly(os, os')
<1>1. /\ Runs(os) /\ WellFormed(os) /\ Sane(os, Waiting)
      /\ os.ready \in Seq(Task) /\ NoRepeat(os.ready)
      /\ os.asleep \in Seq(Task) /\ NoRepeat(os.asleep)
      /\ ToSet(os.ready) \cap ToSet(os.asleep) = {}
  BY QueuesRun
<1>2. /\ os.curr \in ToSet(os.ready) \cup {Idle} /\ os.curr \in Task \cup {Idle}
      /\ os.slice[os.curr] \in 1..TimeSlice
  BY <1>1, CurrentIsReadyOrIdle DEF Sane, SliceInRange, WellFormed, Scheduling
<1>3. PICK n \in SleepScan(SliceTick(os)) : os' = task_dispatch(n)
  BY DEF task_time_tick
<1>4. PICK k : k = SliceTick(os)
  OBVIOUS
<1>5. /\ WellFormed(k) /\ ToSet(k.ready) = ToSet(os.ready)
      /\ k.asleep = os.asleep /\ k.sleepTicks = os.sleepTicks
  BY <1>1, <1>2, <1>4, SliceTickEffect
<1>6. WellFormed(n)
  BY <1>1, <1>2, <1>3, TickSane DEF Sane
<1>7. os'.ready = n.ready /\ os'.asleep = n.asleep
  BY <1>3, <1>6, DispatchEffect
<1>8. PICK woken \in InOrder(Due(k), os.asleep),
           kept \in InOrder(ToSet(os.asleep) \ Due(k), os.asleep) :
           /\ os'.ready = k.ready \o woken /\ os'.asleep = kept
           /\ woken \in Seq(Task) /\ ToSet(woken) = Due(k)
           /\ NoRepeat(woken) /\ kept \in Seq(Task) /\ NoRepeat(kept)
           /\ ToSet(kept) = ToSet(os.asleep) \ Due(k)
  BY <1>3, <1>4, <1>5, <1>7, ScanOrder
<1>9. ToSet(woken) \cap ToSet(os.ready) = {} /\ k.ready \in Seq(Task)
  BY <1>1, <1>5, <1>8 DEF Due, WellFormed, Scheduling
<1>10. Rotates(os.ready, os'.ready, os.curr)
  <2>1. \/ k.ready = os.ready
        \/ /\ os.ready # <<>> /\ os.curr = Head(os.ready)
           /\ k.ready = Append(Tail(os.ready), os.curr)
    BY <1>1, <1>2, <1>4, SliceOrder
  <2>2. CASE k.ready = os.ready
    BY <1>1, <1>8, <1>9, <2>2, RotatesConcat
  <2>3. CASE /\ os.ready # <<>> /\ os.curr = Head(os.ready)
             /\ k.ready = Append(Tail(os.ready), os.curr)
    BY <1>1, <1>8, <1>9, <2>3, RotatesTurn
  <2> QED
    BY <2>1, <2>2, <2>3
<1>11. Wakes(os, os')
  <2>1. ASSUME NEW t \in Task, NEW u \in Task, Before(os.asleep, t, u),
               ~ Before(os'.asleep, t, u)
        PROVE  IF os.sleepTicks[t] = os.sleepTicks[u]
               THEN Before(os'.ready, t, u)
               ELSE 1 \in {os.sleepTicks[t], os.sleepTicks[u]}
    <3>1. t \in ToSet(os.asleep) /\ u \in ToSet(os.asleep)
      BY <1>1, <2>1, OneOrder
    <3>2. t \in Due(k) \/ u \in Due(k)
      <4>1. SUFFICES ASSUME t \notin Due(k), u \notin Due(k)
                     PROVE  FALSE
        OBVIOUS
      <4>2. t \in ToSet(kept) /\ u \in ToSet(kept)
        BY <1>8, <3>1, <4>1
      <4> QED
        BY <1>1, <1>8, <2>1, <4>2, InOrderKeeps
    <3>3. \A v \in ToSet(os.asleep) : v \in Due(k) <=> os.sleepTicks[v] = 1
      <4>1. ASSUME NEW v \in ToSet(os.asleep)
            PROVE  os.sleepTicks[v] \in Nat
        BY <1>1, ListedAreTasks DEF WellFormed, Scheduling
      <4> QED
        BY <1>5, <4>1 DEF Due
    <3>4. CASE os.sleepTicks[t] = os.sleepTicks[u]
      <4>1. t \in ToSet(woken) /\ u \in ToSet(woken)
        BY <1>8, <3>1, <3>2, <3>3, <3>4
      <4>2. Before(woken, t, u)
        BY <1>1, <1>8, <2>1, <4>1, InOrderKeeps
      <4> QED
        BY <1>8, <1>9, <3>4, <4>2, ConcatOrder
    <3>5. CASE os.sleepTicks[t] # os.sleepTicks[u]
      BY <3>1, <3>2, <3>3, <3>5
    <3> QED
      BY <3>4, <3>5
  <2> QED
    BY <2>1 DEF Wakes
<1> QED
  BY <1>10, <1>11 DEF Orderly

(* A region that leaves the sleep list alone, or puts a task behind it.     *)
LEMMA StillAsleep ==
  ASSUME NEW k, k.asleep \in Seq(Task), NEW n,
         n.asleep = k.asleep \/ \E x \in Task : n.asleep = Append(k.asleep, x)
  PROVE  Wakes(k, n)
<1>1. ASSUME NEW t \in Task, NEW u \in Task, Before(k.asleep, t, u)
      PROVE  Before(n.asleep, t, u)
  <2>1. CASE n.asleep = k.asleep
    BY <1>1, <2>1
  <2>2. ASSUME NEW x \in Task, n.asleep = Append(k.asleep, x)
        PROVE  Before(n.asleep, t, u)
    <3>1. n.asleep = k.asleep \o <<x>> /\ <<x>> \in Seq(Task)
      BY <2>2, AppendIsConcat
    <3> QED
      BY <1>1, <3>1, ConcatOrder
  <2> QED
    BY <2>1, <2>2
<1> QED
  BY <1>1 DEF Wakes

(* The running task leaves the ready list.                                  *)
LEMMA BlockOrderly ==
  ASSUME Queues, InSyscall, NEW b, b = task_set_block(os, os.curr),
         NEW n, WellFormed(n), n.ready = b.ready, os' = task_dispatch(n),
         n.asleep = b.asleep \/ \E x \in Task : n.asleep = Append(b.asleep, x)
  PROVE  Orderly(os, os')
<1>1. /\ WellFormed(os) /\ os.ready \in Seq(Task) /\ NoRepeat(os.ready)
      /\ os.asleep \in Seq(Task)
      /\ os.ready # <<>> /\ os.curr = Head(os.ready)
  BY QueuesRun
<1>2. b.ready = Tail(os.ready) /\ b.asleep = os.asleep
  BY <1>1, BlockFirst
<1>3. os'.ready = n.ready /\ os'.asleep = n.asleep
  BY DispatchEffect
<1>4. Rotates(os.ready, os'.ready, os.curr)
  BY <1>1, <1>2, <1>3, RotatesTail
<1>5. Wakes(os, os')
  <2>1. os'.asleep = os.asleep \/ \E x \in Task : os'.asleep = Append(os.asleep, x)
    BY <1>2, <1>3
  <2> QED
    BY <1>1, <2>1, StillAsleep
<1> QED
  BY <1>4, <1>5 DEF Orderly

(* A task in no list becomes ready.                                         *)
LEMMA ReadyOrderly ==
  ASSUME Queues, NEW t \in Task, t \notin Listed(os),
         \/ os' = task_set_ready(os, t)
         \/ os' = task_dispatch(task_set_ready(os, t))
  PROVE  Orderly(os, os')
<1>1. /\ WellFormed(os) /\ os.ready \in Seq(Task) /\ NoRepeat(os.ready)
      /\ os.asleep \in Seq(Task)
  BY QueuesRun
<1>2. PICK n : n = task_set_ready(os, t)
  OBVIOUS
<1>3. WellFormed(n) /\ n.ready = Append(os.ready, t) /\ n.asleep = os.asleep
  BY <1>1, <1>2, SetReadyEffect
<1>4. os'.ready = n.ready /\ os'.asleep = n.asleep
  BY <1>2, <1>3, DispatchEffect
<1>5. os'.ready = os.ready \o <<t>> /\ <<t>> \in Seq(Task)
  BY <1>1, <1>3, <1>4, AppendIsConcat
<1>6. ToSet(<<t>>) \cap ToSet(os.ready) = {}
  BY DEF ToSet, Listed
<1>7. Rotates(os.ready, os'.ready, os.curr)
  BY <1>1, <1>5, <1>6, RotatesConcat
<1>8. Wakes(os, os')
  BY <1>1, <1>3, <1>4, StillAsleep
<1> QED
  BY <1>7, <1>8 DEF Orderly

(* A region that does not touch the scheduler.                              *)
LEMMA SameOrderly ==
  ASSUME Queues, os' = os
  PROVE  Orderly(os, os')
<1>1. /\ os.ready \in Seq(Task) /\ NoRepeat(os.ready) /\ os.asleep \in Seq(Task)
  BY QueuesRun
<1>2. Rotates(os.ready, os'.ready, os.curr)
  BY <1>1, RotatesSame
<1>3. Wakes(os, os')
  BY <1>1, StillAsleep
<1> QED
  BY <1>2, <1>3 DEF Orderly

(* Every region leaves the two lists in order.                              *)
LEMMA NextOrderly ==
  ASSUME Inv, [IpcNext]_vars
  PROVE  Orderly(os, os')
<1>q. Queues
  BY DEF Inv
<1>r. /\ WellFormed(os) /\ Sane(os, Waiting) /\ os.ready \in Seq(Task)
      /\ NoRepeat(os.ready)
  BY <1>q, QueuesRun
<1>b. ASSUME InSyscall, NEW q, BlockOn(q)
      PROVE  Orderly(os, os')
  <2>1. os' = task_dispatch(task_set_block(os, os.curr))
    BY <1>b DEF BlockOn
  <2>2. WellFormed(task_set_block(os, os.curr))
    BY <1>q, <1>b, QueuesRun, BlockFirst
  <2> QED
    BY <1>q, <1>b, <2>1, <2>2, BlockOrderly
<1>w. ASSUME NEW q \in WaitList, waiters[q] # <<>>, WakeFirst(q)
      PROVE  Orderly(os, os')
  <2>1. waiters[q] \in Seq(Task) /\ NoRepeat(waiters[q])
    BY <1>q DEF Queues, WaitListsApart
  <2>2. Head(waiters[q]) \in ToSet(waiters[q]) /\ Head(waiters[q]) \in Task
    BY <1>w, <2>1, TailList
  <2>3. Head(waiters[q]) \notin Listed(os)
    BY <1>r, <2>2 DEF Waiting, Sane
  <2>4. os' = task_dispatch(task_set_ready(os, Head(waiters[q])))
    BY <1>w DEF WakeFirst
  <2> QED
    BY <1>q, <2>2, <2>3, <2>4, ReadyOrderly
<1>1. CASE Timer
  BY <1>q, <1>1, TimerOrderly DEF Timer
<1>2. CASE Yield
  <2>1. PICK b : b = task_set_block(os, os.curr)
    OBVIOUS
  <2>2. /\ InSyscall /\ os.ready # <<>> /\ os.curr = Head(os.ready)
        /\ os' = task_dispatch(task_set_ready(b, os.curr))
    BY <1>q, <1>2, <2>1, QueuesRun DEF Yield, sys_yeild
  <2>3. /\ WellFormed(b) /\ os.curr \in Task /\ b.ready = Tail(os.ready)
        /\ b.asleep = os.asleep /\ os.curr \notin Listed(b)
    BY <1>r, <2>1, <2>2, BlockFirst
  <2>4. PICK n : n = task_set_ready(b, os.curr)
    OBVIOUS
  <2>5. /\ WellFormed(n) /\ n.ready = Append(b.ready, os.curr)
        /\ n.asleep = b.asleep
    <3>1. PICK c : c = os.curr
      OBVIOUS
    <3>2. c \in Task /\ c \notin Listed(b) /\ n = task_set_ready(b, c)
      BY <2>3, <2>4, <3>1
    <3>3. WellFormed(task_set_ready(b, c))
      BY <2>3, <3>2, SetReadyEffect
    <3>4. task_set_ready(b, c).ready = Append(b.ready, c)
      BY <2>3, <3>2, SetReadyEffect
    <3>5. task_set_ready(b, c).asleep = b.asleep
      BY <2>3, <3>2, SetReadyEffect
    <3> QED
      BY <3>1, <3>2, <3>3, <3>4, <3>5
  <2>6. os'.ready = n.ready /\ os'.asleep = n.asleep
    BY <2>2, <2>4, <2>5, DispatchEffect
  <2>7. os'.ready = Append(Tail(os.ready), Head(os.ready)) \o <<>>
    <3>1. Append(Tail(os.ready), Head(os.ready)) \in Seq(Task)
      BY <1>r, <2>2, TailList, AppendProperties
    <3> QED
      BY <2>2, <2>3, <2>5, <2>6, <3>1, ConcatEmptySeq
  <2>8. Rotates(os.ready, os'.ready, os.curr)
    <3>1. <<>> \in Seq(Task) /\ ToSet(<<>>) = {}
      BY DEF ToSet
    <3> QED
      BY <1>r, <2>2, <2>7, <3>1, RotatesTurn
  <2>9. Wakes(os, os')
    BY <1>q, <2>3, <2>5, <2>6, QueuesRun, StillAsleep
  <2> QED
    BY <2>8, <2>9 DEF Orderly
<1>3. CASE Sleep
  <2>1. PICK d \in 1..MaxSleep : sys_sleep(d)
    BY <1>3 DEF Sleep
  <2>2. PICK b : b = task_set_block(os, os.curr)
    OBVIOUS
  <2>3. /\ InSyscall /\ os.ready # <<>> /\ os.curr = Head(os.ready)
        /\ os' = task_dispatch(task_set_sleep(b, os.curr, d))
    BY <1>q, <2>1, <2>2, QueuesRun DEF sys_sleep
  <2>4. /\ WellFormed(b) /\ os.curr \in Task /\ os.curr \notin Listed(b)
        /\ d \in Nat \ {0}
    BY <1>r, <2>2, <2>3, BlockFirst, SchedulerAssumption
  <2>5. PICK n : n = task_set_sleep(b, os.curr, d)
    OBVIOUS
  <2>6. WellFormed(n) /\ n.ready = b.ready
    BY <2>4, <2>5, SetSleepEffect
  <2>7. n.asleep = Append(b.asleep, os.curr)
    <3>1. ~ (d <= 0) /\ b \in Scheduling
      BY <2>4 DEF WellFormed
    <3> QED
      BY <2>5, <3>1 DEF task_set_sleep, Scheduling
  <2> QED
    BY <1>q, <2>2, <2>3, <2>4, <2>5, <2>6, <2>7, BlockOrderly
<1>4. CASE Start
  <2>1. PICK t \in Task : os.state[t] = "CREATED" /\ os' = task_set_ready(os, t)
    BY <1>4 DEF Start, task_start
  <2>2. t \notin Listed(os)
    BY <1>r, <2>1 DEF Sane
  <2> QED
    BY <1>q, <2>1, <2>2, ReadyOrderly
<1>5. CASE Lock
  <2>1. PICK m \in Mutex : mutex_lock(m)
    BY <1>5 DEF Lock
  <2> QED
    BY <1>q, <1>b, <2>1, SameOrderly
    DEF mutex_lock, LockFree, LockAgain, LockBlocked
<1>6. CASE Unlock
  <2>1. PICK m \in Mutex : mutex_unlock(m)
    BY <1>6 DEF Unlock
  <2> QED
    BY <1>q, <1>w, <2>1, SameOrderly
    DEF mutex_unlock, UnlockInner, UnlockFree, UnlockHandOff, WaitList
<1>7. CASE Wait
  <2>1. PICK s \in Sem : sem_wait(s)
    BY <1>7 DEF Wait
  <2> QED
    BY <1>q, <1>b, <2>1, SameOrderly DEF sem_wait, SemTake, SemBlock
<1>8. CASE SemNotifyFromTask \/ SemNotifyFromIrq
  <2>1. PICK s \in Sem : sem_notify(s)
    BY <1>8, IpcAssumption DEF SemNotifyFromTask, SemNotifyFromIrq
  <2> QED
    BY <1>q, <1>w, <2>1, SameOrderly DEF sem_notify, SemWake, SemAdd, WaitList
<1>9. CASE UNCHANGED vars
  BY <1>q, <1>9, SameOrderly DEF vars
<1> QED
  BY <1>1, <1>2, <1>3, <1>4, <1>5, <1>6, <1>7, <1>8, <1>9 DEF IpcNext

(* No interrupt and no wakeup moves a task past another one: only the       *)
(* running task loses its place, by a yield or at the end of its slice, and *)
(* then to all others.                                                      *)
THEOREM TasksTakeTurns == IpcSpec => RoundRobin
<1>1. Inv /\ [IpcNext]_vars
        => [\A t, u \in Task :
              (Before(os.ready, t, u) /\ Before(os'.ready, u, t))
                => t = os.curr
                   /\ \A w \in ToSet(os.ready) \ {t} : Before(os'.ready, w, t)]_vars
  BY NextOrderly DEF Orderly, Rotates
<1> QED
  BY <1>1, InvAlways, PTL DEF IpcSpec, RoundRobin

(* A sleeper leaves the sleep list only when its time has come, and those   *)
(* of one tick become ready in the order in which they went to sleep.       *)
THEOREM SleepersWakeInOrder == IpcSpec => WakeInOrder
<1>1. Inv /\ [IpcNext]_vars
        => [\A t, u \in Task :
              (Before(os.asleep, t, u) /\ ~ Before(os'.asleep, t, u))
                => IF os.sleepTicks[t] = os.sleepTicks[u]
                   THEN Before(os'.ready, t, u)
                   ELSE 1 \in {os.sleepTicks[t], os.sleepTicks[u]}]_vars
  BY NextOrderly DEF Orderly, Wakes
<1> QED
  BY <1>1, InvAlways, PTL DEF IpcSpec, WakeInOrder

-----------------------------------------------------------------------------
\* mutex.c and sem.c, over the scheduler, implement Sync: every region is a
\* step of Sync or, if it concerns the scheduler only, none.

\* The images of the variables of Sync.
Holder == [m \in Mutex |-> mutex[m].owner]
Depth  == [m \in Mutex |-> mutex[m].count]
Await  == [q \in WaitList |-> ToSet(waiters[q])]

(* The images have the domains that the actions of Sync expect.             *)
LEMMA WaitersTyped ==
  ASSUME Inv
  PROVE  /\ waiters \in [WaitList -> Seq(Task)]
         /\ mutex \in [Mutex -> [count : 0..MaxNest, owner : Task \cup {NoTask}]]
         /\ sem \in [Sem -> Nat]
         /\ \A q \in WaitList : NoRepeat(waiters[q])
BY DEF Inv, Queues, WaitListsApart, Locks, Counts

(* A task that makes a system call is free, in the sense of Sync.           *)
LEMMA CallerIsFree ==
  ASSUME Inv, InSyscall
  PROVE  os.curr \in Task /\ Promise!Free(os.curr)
<1>1. os.curr \in Task /\ os.curr \notin Waiting
  BY CallerIsReady DEF Inv
<1>2. \A q \in WaitList : os.curr \notin Await[q]
  BY <1>1 DEF Waiting, Await
<1> QED
  BY <1>1, <1>2 DEF Promise!Free, WaitList, Await

(* Blocking adds the running task to the set of those that wait.            *)
LEMMA BlockAwaits ==
  ASSUME Inv, InSyscall, NEW q \in WaitList, BlockOn(q)
  PROVE  Await' = [Await EXCEPT ![q] = @ \cup {os.curr}]
<1>1. waiters' = [waiters EXCEPT ![q] = Append(@, os.curr)]
  BY DEF BlockOn
<1>2. os.curr \in Task /\ waiters \in [WaitList -> Seq(Task)]
  BY WaitersTyped, CallerIsFree
<1>3. ToSet(Append(waiters[q], os.curr)) = ToSet(waiters[q]) \cup {os.curr}
  BY <1>2, AppendList
<1> QED
  BY <1>1, <1>2, <1>3 DEF Await, WaitList

(* Waking takes one task out of the set of those that wait.                 *)
LEMMA WakeAwaits ==
  ASSUME Inv, NEW q \in WaitList, waiters[q] # <<>>, WakeFirst(q)
  PROVE  /\ Head(waiters[q]) \in Await[q]
         /\ Await' = [Await EXCEPT ![q] = @ \ {Head(waiters[q])}]
<1>1. waiters' = [waiters EXCEPT ![q] = Tail(@)]
  BY DEF WakeFirst
<1>2. waiters \in [WaitList -> Seq(Task)] /\ NoRepeat(waiters[q])
  BY WaitersTyped
<1>3. /\ Head(waiters[q]) \in ToSet(waiters[q])
      /\ ToSet(Tail(waiters[q])) = ToSet(waiters[q]) \ {Head(waiters[q])}
  BY <1>2, TailList
<1> QED
  BY <1>1, <1>2, <1>3 DEF Await, WaitList

(* Nobody waits, for the list as for the set.                               *)
LEMMA NobodyAwaits ==
  ASSUME Inv, NEW q \in WaitList
  PROVE  waiters[q] = <<>> <=> Await[q] = {}
<1>1. waiters[q] \in Seq(Task)
  BY WaitersTyped
<1>2. waiters[q] # <<>> => Head(waiters[q]) \in ToSet(waiters[q])
  BY <1>1, WaitersTyped, TailList
<1>3. waiters[q] = <<>> => ToSet(waiters[q]) = {}
  BY DEF ToSet
<1>4. Await[q] = ToSet(waiters[q])
  BY DEF Await
<1> QED
  BY <1>2, <1>3, <1>4

-----------------------------------------------------------------------------
(* mutex_lock enters, or waits.                                             *)
LEMMA LockStep ==
  ASSUME Inv, NEW m \in Mutex, mutex_lock(m)
  PROVE  Promise!Enter(os.curr, m) \/ Promise!AwaitMutex(os.curr, m)
<1>1. InSyscall /\ sem' = sem /\ os.curr \in Task /\ Promise!Free(os.curr)
  BY CallerIsFree DEF mutex_lock
<1>2. mutex \in [Mutex -> [count : 0..MaxNest, owner : Task \cup {NoTask}]]
  BY WaitersTyped
<1>3. mutex[m].count = 0 <=> mutex[m].owner = NoTask
  BY <1>2 DEF Inv, Locks, MutexCoherent
<1>4. CASE LockFree(m)
  <2>1. /\ Holder[m] = NoTask /\ Await' = Await
        /\ Holder' = [Holder EXCEPT ![m] = os.curr]
        /\ Depth' = [Depth EXCEPT ![m] = @ + 1]
    BY <1>2, <1>3, <1>4 DEF LockFree, Holder, Depth, Await
  <2> QED
    BY <1>1, <2>1 DEF Promise!Enter, Holder, Depth, Await
<1>5. CASE LockAgain(m)
  <2>1. /\ Holder[m] = os.curr /\ Await' = Await
        /\ Holder' = [Holder EXCEPT ![m] = os.curr]
        /\ Depth' = [Depth EXCEPT ![m] = @ + 1]
    BY <1>2, <1>5 DEF LockAgain, Holder, Depth, Await
  <2> QED
    BY <1>1, <2>1 DEF Promise!Enter, Holder, Depth, Await
<1>6. CASE LockBlocked(m)
  <2>1. /\ Holder[m] \notin {NoTask, os.curr}
        /\ Holder' = Holder /\ Depth' = Depth
    BY <1>3, <1>6 DEF LockBlocked, Holder, Depth
  <2>2. Await' = [Await EXCEPT ![m] = @ \cup {os.curr}]
    BY <1>1, <1>6, BlockAwaits DEF LockBlocked, WaitList
  <2> QED
    BY <1>1, <2>1, <2>2 DEF Promise!AwaitMutex, Holder, Depth, Await
<1> QED
  BY <1>4, <1>5, <1>6 DEF mutex_lock

(* mutex_unlock leaves: inside still, for nobody, or for the first waiter.  *)
LEMMA UnlockStep ==
  ASSUME Inv, NEW m \in Mutex, mutex_unlock(m)
  PROVE  Promise!Leave(os.curr, m)
<1>1. /\ InSyscall /\ sem' = sem /\ os.curr \in Task /\ Promise!Free(os.curr)
      /\ mutex[m].owner = os.curr
  BY CallerIsFree DEF mutex_unlock
<1>2. mutex \in [Mutex -> [count : 0..MaxNest, owner : Task \cup {NoTask}]]
  BY WaitersTyped
<1>3. mutex[m].count > 0 /\ Holder[m] = os.curr
  BY <1>1, <1>2, IpcAssumption DEF Inv, Locks, MutexCoherent, Holder
<1>4. CASE UnlockInner(m)
  <2>1. Depth[m] > 1
    BY <1>2, <1>3, <1>4, IpcAssumption DEF UnlockInner, Depth
  <2>2. /\ Holder' = Holder /\ Await' = Await
        /\ Depth' = [Depth EXCEPT ![m] = @ - 1]
    BY <1>2, <1>4 DEF UnlockInner, Holder, Depth, Await
  <2> QED
    BY <1>1, <1>3, <2>1, <2>2 DEF Promise!Leave, Holder, Depth, Await
<1>5. CASE UnlockFree(m)
  <2>1. Depth[m] = 1 /\ Await[m] = {}
    BY <1>5, NobodyAwaits DEF UnlockFree, Depth, WaitList
  <2>2. /\ Holder' = [Holder EXCEPT ![m] = NoTask] /\ Await' = Await
        /\ Depth' = [Depth EXCEPT ![m] = 0]
    BY <1>2, <1>5 DEF UnlockFree, Holder, Depth, Await
  <2> QED
    BY <1>1, <1>3, <2>1, <2>2 DEF Promise!Leave, Holder, Depth, Await
<1>6. CASE UnlockHandOff(m)
  <2> DEFINE h == Head(waiters[m])
  <2>1. /\ h \in Await[m]
        /\ Await' = [Await EXCEPT ![m] = @ \ {h}]
    BY <1>6, WakeAwaits DEF UnlockHandOff, WaitList
  <2>2. mutex' = [mutex EXCEPT ![m] = [count |-> 1, owner |-> h]]
        /\ mutex[m].count = 1
    BY <1>6 DEF UnlockHandOff
  <2> HIDE DEF h
  <2>3. /\ Holder' = [Holder EXCEPT ![m] = h] /\ Depth' = Depth /\ Depth[m] = 1
    BY <1>2, <2>2 DEF Holder, Depth
  <2> QED
    BY <1>1, <1>3, <2>1, <2>3 DEF Promise!Leave, Holder, Depth, Await
<1> QED
  BY <1>4, <1>5, <1>6 DEF mutex_unlock

(* sem_wait takes a token, or waits for one.                                *)
LEMMA WaitStep ==
  ASSUME Inv, NEW s \in Sem, sem_wait(s)
  PROVE  Promise!Take(os.curr, s) \/ Promise!AwaitToken(os.curr, s)
<1>1. InSyscall /\ mutex' = mutex /\ os.curr \in Task /\ Promise!Free(os.curr)
  BY CallerIsFree DEF sem_wait
<1>2. sem[s] \in Nat /\ Holder' = Holder /\ Depth' = Depth
  BY <1>1, WaitersTyped DEF Holder, Depth
<1>3. CASE SemTake(s)
  <2>1. Await' = Await
    BY <1>3 DEF SemTake, Await
  <2> QED
    BY <1>1, <1>2, <1>3, <2>1 DEF SemTake, Promise!Take, Holder, Depth, Await
<1>4. CASE SemBlock(s)
  <2>1. Await' = [Await EXCEPT ![s] = @ \cup {os.curr}]
    BY <1>1, <1>4, BlockAwaits DEF SemBlock, WaitList
  <2>2. sem[s] = 0 /\ sem' = sem
    BY <1>2, <1>4 DEF SemBlock
  <2> QED
    BY <1>1, <1>2, <2>1, <2>2 DEF Promise!AwaitToken, Holder, Depth, Await
<1> QED
  BY <1>3, <1>4 DEF sem_wait

(* sem_notify lets one task through, or keeps the token.                    *)
LEMMA NotifyStep ==
  ASSUME Inv, NEW s \in Sem, sem_notify(s)
  PROVE  Promise!Post(s)
<1>1. Holder' = Holder /\ Depth' = Depth
  BY DEF sem_notify, Holder, Depth
<1>2. CASE SemWake(s)
  <2>1. /\ Head(waiters[s]) \in Await[s] /\ sem' = sem
        /\ Await' = [Await EXCEPT ![s] = @ \ {Head(waiters[s])}]
    BY <1>2, WakeAwaits DEF SemWake, WaitList
  <2> QED
    BY <1>1, <2>1 DEF Promise!Post, Holder, Depth, Await
<1>3. CASE SemAdd(s)
  <2>1. Await[s] = {} /\ Await' = Await
    BY <1>3, NobodyAwaits DEF SemAdd, Await, WaitList
  <2> QED
    BY <1>1, <1>3, <2>1 DEF SemAdd, Promise!Post, Holder, Depth, Await
<1> QED
  BY <1>2, <1>3 DEF sem_notify

(* A region that touches neither mutexes, semaphores nor wait lists.        *)
LEMMA SchedulerStep ==
  ASSUME UNCHANGED ipc
  PROVE  UNCHANGED Promise!svars
BY DEF ipc, Promise!svars, WaitList

LEMMA InitStep ==
  ASSUME IpcInit
  PROVE  Promise!SyncInit
<1>1. waiters = [q \in WaitList |-> <<>>]
  BY DEF IpcInit, WaitList
<1>2. Await = [q \in WaitList |-> {}]
  BY <1>1 DEF Await, ToSet
<1>3. /\ Holder = [m \in Mutex |-> NoTask]
      /\ Depth = [m \in Mutex |-> 0]
      /\ sem = [s \in Sem |-> SemInit[s]]
  BY IpcAssumption DEF IpcInit, Holder, Depth
<1> QED
  BY <1>2, <1>3 DEF Promise!SyncInit, Holder, Depth, Await, WaitList

LEMMA NextStep ==
  ASSUME Inv, [IpcNext]_vars
  PROVE  [Promise!SyncNext]_(Promise!svars)
<1>1. CASE Timer \/ Yield \/ Sleep \/ Start \/ UNCHANGED vars
  <2>1. UNCHANGED ipc
    BY <1>1 DEF Timer, Yield, Sleep, Start, vars
  <2> QED
    BY <2>1, SchedulerStep
<1>2. CASE Lock
  <2>1. PICK m \in Mutex : mutex_lock(m)
    BY <1>2 DEF Lock
  <2>2. os.curr \in Task
    BY <2>1, CallerIsFree DEF mutex_lock
  <2> QED
    BY <2>1, <2>2, LockStep DEF Promise!SyncNext
<1>3. CASE Unlock
  <2>1. PICK m \in Mutex : mutex_unlock(m)
    BY <1>3 DEF Unlock
  <2>2. os.curr \in Task
    BY <2>1, CallerIsFree DEF mutex_unlock
  <2> QED
    BY <2>1, <2>2, UnlockStep DEF Promise!SyncNext
<1>4. CASE Wait
  <2>1. PICK s \in Sem : sem_wait(s)
    BY <1>4 DEF Wait
  <2>2. os.curr \in Task
    BY <2>1, CallerIsFree DEF sem_wait
  <2> QED
    BY <2>1, <2>2, WaitStep DEF Promise!SyncNext
<1>5. CASE SemNotifyFromTask \/ SemNotifyFromIrq
  <2>1. PICK s \in Sem : sem_notify(s)
    BY <1>5, IpcAssumption DEF SemNotifyFromTask, SemNotifyFromIrq
  <2> QED
    BY <2>1, NotifyStep DEF Promise!SyncNext
<1> QED
  BY <1>1, <1>2, <1>3, <1>4, <1>5 DEF IpcNext

(* What the models over Sync assume of mutexes and semaphores is what       *)
(* mutex.c and sem.c do, for any tasks, mutexes, semaphores and slices.     *)
THEOREM IpcImplementsSync == IpcSpec => ImplementsSync
<1>1. IpcInit => Promise!SyncInit
  BY InitStep
<1>2. Inv /\ [IpcNext]_vars => [Promise!SyncNext]_(Promise!svars)
  BY NextStep
<1> QED
  BY <1>1, <1>2, InvAlways, PTL DEF IpcSpec, ImplementsSync, Promise!SyncSpec
=============================================================================
