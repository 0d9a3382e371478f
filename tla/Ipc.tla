--------------------------------- MODULE Ipc ---------------------------------
(****************************************************************************)
(* The kernel's mutexes (kernel/ipc/mutex.c) and counting semaphores        *)
(* (kernel/ipc/sem.c) over the scheduler, under the most general clients:   *)
(* at any time the running task may call any operation, and between any two *)
(* of them the timer or a device may interrupt.                             *)
(*                                                                          *)
(* Both kinds of object link a blocked task through task_t.wait_node, so    *)
(* their wait lists are one function.  A task that blocks inside mutex_lock *)
(* or sem_wait has returned from it, as far as its caller can tell, as soon *)
(* as it is dispatched again: it looks at nothing when it resumes.          *)
(****************************************************************************)
EXTENDS Scheduler

CONSTANTS Mutex, Sem,
          IrqSem,     \* the semaphores an interrupt handler notifies
          NoTask,     \* the null task_t pointer
          SemInit,    \* initial count of each semaphore
          MaxCount,   \* bound: sem.count stays at most this
          MaxNest     \* bound: locked_count stays at most this

ASSUME IpcAssumption ==
  /\ Mutex \cap Sem = {}
  /\ IrqSem \subseteq Sem
  /\ NoTask \notin Task \cup {Idle}
  /\ SemInit \in [Sem -> Nat] /\ MaxCount \in Nat
  /\ MaxNest \in Nat \ {0}

VARIABLES mutex,     \* locked_count and owner of each mutex
          sem,       \* count of each semaphore
          waiters    \* wait_list of each mutex and semaphore

ipc  == <<mutex, sem, waiters>>
vars == <<os, ipc>>

IpcInit ==
  /\ SchedulerInit
  /\ mutex   = [m \in Mutex |-> [count |-> 0, owner |-> NoTask]]
  /\ sem     = [s \in Sem |-> SemInit[s]]
  /\ waiters = [q \in Mutex \cup Sem |-> <<>>]

-----------------------------------------------------------------------------
\* The running task leaves the ready list for the wait list q.
BlockOn(q) ==
  /\ os' = task_dispatch(task_set_block(os, os.curr))
  /\ waiters' = [waiters EXCEPT ![q] = Append(@, os.curr)]

\* MUTANT of WakeFirst: no dispatch.
WakeFirst_NoDispatch(q) ==
  /\ os' = task_set_ready(os, Head(waiters[q]))
  /\ waiters' = [waiters EXCEPT ![q] = Tail(@)]

\* The head of the wait list q becomes ready.
WakeFirst(q) ==
  /\ os' = task_dispatch(task_set_ready(os, Head(waiters[q])))
  /\ waiters' = [waiters EXCEPT ![q] = Tail(@)]

LockFree(m) ==
  /\ mutex[m].count = 0
  /\ mutex' = [mutex EXCEPT ![m] = [count |-> @.count + 1, owner |-> os.curr]]
  /\ UNCHANGED <<os, waiters>>

\* MUTANT of LockAgain: the owner is not compared.
LockAgain_Anyone(m) ==
  /\ mutex[m].count # 0
  /\ mutex[m].count < MaxNest
  /\ mutex' = [mutex EXCEPT ![m].count = @ + 1]
  /\ UNCHANGED <<os, waiters>>

LockAgain(m) ==
  /\ mutex[m].count # 0
  /\ mutex[m].owner = os.curr
  /\ mutex[m].count < MaxNest
  /\ mutex' = [mutex EXCEPT ![m].count = @ + 1]
  /\ UNCHANGED <<os, waiters>>

LockBlocked(m) ==
  /\ mutex[m].count # 0
  /\ mutex[m].owner # os.curr
  /\ BlockOn(m)
  /\ UNCHANGED mutex

mutex_lock(m) ==
  /\ InSyscall
  /\ LockFree(m) \/ LockAgain(m) \/ LockBlocked(m)
  /\ UNCHANGED sem

UnlockInner(m) ==
  /\ mutex[m].count # 1
  /\ mutex' = [mutex EXCEPT ![m].count = @ - 1]
  /\ UNCHANGED <<os, waiters>>

UnlockFree(m) ==
  /\ mutex[m].count = 1
  /\ waiters[m] = <<>>
  /\ mutex' = [mutex EXCEPT ![m] = [count |-> 0, owner |-> NoTask]]
  /\ UNCHANGED <<os, waiters>>

\* MUTANTS of UnlockHandOff: the mutex is set free before the waiter is woken;
\* the last waiter gets it.
UnlockHandOff_Free(m) ==
  /\ mutex[m].count = 1
  /\ waiters[m] # <<>>
  /\ mutex' = [mutex EXCEPT ![m] = [count |-> 0, owner |-> NoTask]]
  /\ WakeFirst(m)
UnlockHandOff_Last(m) ==
  /\ mutex[m].count = 1
  /\ waiters[m] # <<>>
  /\ mutex' = [mutex EXCEPT ![m] = [count |-> 1, owner |-> Last(waiters[m])]]
  /\ os' = task_dispatch(task_set_ready(os, Last(waiters[m])))
  /\ waiters' = [waiters EXCEPT ![m] = Front(@)]

UnlockHandOff(m) ==
  /\ mutex[m].count = 1
  /\ waiters[m] # <<>>
  /\ mutex' = [mutex EXCEPT ![m] = [count |-> 1, owner |-> Head(waiters[m])]]
  /\ WakeFirst(m)

\* A task that is not the owner changes nothing.
mutex_unlock(m) ==
  /\ InSyscall
  /\ mutex[m].owner = os.curr
  /\ UnlockInner(m) \/ UnlockFree(m) \/ UnlockHandOff(m)
  /\ UNCHANGED sem

\* MUTANT of SemTake: >= 0 for > 0.
SemTake_AtZero(s) ==
  /\ sem[s] >= 0
  /\ sem' = [sem EXCEPT ![s] = @ - 1]
  /\ UNCHANGED <<os, waiters>>

SemTake(s) ==
  /\ sem[s] > 0
  /\ sem' = [sem EXCEPT ![s] = @ - 1]
  /\ UNCHANGED <<os, waiters>>

SemBlock(s) ==
  /\ ~ (sem[s] > 0)
  /\ BlockOn(s)
  /\ UNCHANGED sem

sem_wait(s) ==
  /\ InSyscall
  /\ SemTake(s) \/ SemBlock(s)
  /\ UNCHANGED mutex

SemWake(s) ==
  /\ waiters[s] # <<>>
  /\ WakeFirst(s)
  /\ UNCHANGED sem

\* MUTANT of SemAdd: the wait list is not looked at.
SemAdd_Always(s) ==
  /\ sem[s] < MaxCount
  /\ sem' = [sem EXCEPT ![s] = @ + 1]
  /\ UNCHANGED <<os, waiters>>

SemAdd(s) ==
  /\ waiters[s] = <<>>
  /\ sem[s] < MaxCount
  /\ sem' = [sem EXCEPT ![s] = @ + 1]
  /\ UNCHANGED <<os, waiters>>

sem_notify(s) ==
  /\ SemWake(s) \/ SemAdd(s)
  /\ UNCHANGED mutex

\* Called by the running task, or by the keyboard's or the disk's interrupt
\* handler on top of whatever runs, the idle task included.
SemNotifyFromTask == InSyscall /\ \E s \in Sem : sem_notify(s)
SemNotifyFromIrq  == \E s \in IrqSem : sem_notify(s)

-----------------------------------------------------------------------------
Timer  == task_time_tick /\ UNCHANGED ipc
Yield  == sys_yeild /\ UNCHANGED ipc
Sleep  == (\E n \in 1..MaxSleep : sys_sleep(n)) /\ UNCHANGED ipc
Start  == (\E t \in Task : task_start(t)) /\ UNCHANGED ipc
Lock   == \E m \in Mutex : mutex_lock(m)
Unlock == \E m \in Mutex : mutex_unlock(m)
Wait   == \E s \in Sem : sem_wait(s)

IpcNext ==
  \/ Timer \/ Yield \/ Sleep \/ Start
  \/ Lock \/ Unlock
  \/ Wait \/ SemNotifyFromTask \/ SemNotifyFromIrq

IpcSpec == IpcInit /\ [][IpcNext]_vars

\* The timer interrupts for ever; nothing is assumed of the tasks.
IpcFairSpec == IpcSpec /\ WF_vars(Timer)

-----------------------------------------------------------------------------
WaitList == Mutex \cup Sem

\* slice_ticks and sleep_ticks are tested for zero after a decrement: they are
\* positive before it, or the task would run or sleep for 2^32 ticks.
TicksPositive ==
  /\ \A t \in Task \cup {Idle} : os.slice[t] \in 1..TimeSlice
  /\ \A t \in ToSet(os.asleep) : os.sleepTicks[t] \in 1..MaxSleep

Types ==
  /\ os \in Scheduling
  /\ mutex \in [Mutex -> [count : 0..MaxNest, owner : Task \cup {NoTask}]]
  /\ sem \in [Sem -> Nat]
  /\ waiters \in [WaitList -> Seq(Task)]

\* Every variable has its type, and the ticks are in the range in which the
\* timer may decrement them.
TypeOK == Types /\ TicksPositive

\* A task's run_node is in at most one of the ready and the sleep list and its
\* wait_node in at most one wait list, never both, and once each.  list_remove
\* and list_insert_last check nothing: a node in two lists corrupts both.
OneList ==
  /\ NoRepeat(os.ready)
  /\ NoRepeat(os.asleep)
  /\ ToSet(os.ready) \cap ToSet(os.asleep) = {}
  /\ \A q \in WaitList :
       /\ NoRepeat(waiters[q])
       /\ ToSet(waiters[q]) \cap (ToSet(os.ready) \cup ToSet(os.asleep)) = {}
       /\ \A r \in WaitList \ {q} : ToSet(waiters[q]) \cap ToSet(waiters[r]) = {}

\* A task that has been started is never lost: it is in some list (so in
\* exactly one, by OneList), and one that has not been started is in none.
NoTaskLost ==
  \A t \in Task :
    os.state[t] # "CREATED" <=>
      \/ t \in ToSet(os.ready) \cup ToSet(os.asleep)
      \/ \E q \in WaitList : t \in ToSet(waiters[q])

\* Between two regions the running task is the first one of the ready list, or
\* idle when nothing is ready: task_set_block, called on the running task,
\* removes a node that is in the ready list, and no wakeup of the idle
\* processor is missed.
CurrentIsFirst == os.curr = task_next_run(os)

\* A mutex has an owner exactly while it is locked, is locked while a task
\* waits for it, and its owner is not in its wait list.
MutexCoherent ==
  \A m \in Mutex :
    /\ mutex[m].count > 0 <=> mutex[m].owner # NoTask
    /\ waiters[m] # <<>> => mutex[m].count > 0
    /\ mutex[m].owner \notin ToSet(waiters[m])

\* No task waits for a semaphore whose count is positive.
SemCoherent == \A s \in Sem : sem[s] > 0 => waiters[s] = <<>>

\* What the scheduler, and everything that blocks or wakes a task, keep true of
\* its lists.
ListsSound == OneList /\ NoTaskLost /\ CurrentIsFirst

\* What mutex.c and sem.c keep true of counts, owners and wait lists.
LocksCoherent == MutexCoherent /\ SemCoherent

Before(s, t, u) == \E i, j \in DOMAIN s : i < j /\ s[i] = t /\ s[j] = u

\* mutex_unlock gives a contended mutex to the task that has waited longest;
\* a task that comes along cannot take it first.
NoBarging ==
  [][\A m \in Mutex :
       (waiters[m] # <<>> /\ mutex'[m].owner # mutex[m].owner)
         => mutex'[m].owner = Head(waiters[m])]_vars

\* Scheduling is round robin: two ready tasks change places only when the one
\* that is running goes to the end of the list.  In particular neither a
\* wakeup nor an interrupt takes the processor from the running task.
RoundRobin ==
  [][\A t, u \in Task :
       (Before(os.ready, t, u) /\ Before(os'.ready, u, t))
         => t = os.curr /\ \A w \in ToSet(os.ready) \ {t} : Before(os'.ready, w, t)]_vars

\* Only the sleepers whose time has come leave the sleep list, and they enter
\* the ready list in the order in which they went to sleep.
WakeInOrder ==
  [][\A t, u \in Task :
       (Before(os.asleep, t, u) /\ ~ Before(os'.asleep, t, u))
         => IF os.sleepTicks[t] = os.sleepTicks[u]
            THEN Before(os'.ready, t, u)
            ELSE 1 \in {os.sleepTicks[t], os.sleepTicks[u]}]_vars

\* task.h: a task is expected to give up the processor after its time slice.
\* So every ready task comes to run.
StarvationFree == \A t \in Task : t \in ToSet(os.ready) ~> os.curr = t

\* Every sleeper is made ready.
SleepersWake == \A t \in Task : t \in ToSet(os.asleep) ~> t \in ToSet(os.ready)

\* If nobody waits for a semaphore for ever, and owners that run often enough
\* come to their unlock, every task that waits for a mutex comes to own it and
\* runs.
LockGranted ==
  (SF_vars(Unlock) /\ \A s \in Sem : []<>(waiters[s] = <<>>)) =>
    \A m \in Mutex, t \in Task :
      t \in ToSet(waiters[m]) ~> (mutex[m].owner = t /\ os.curr = t)

-----------------------------------------------------------------------------
\* The implementation relation: who is inside, and who waits, whatever the
\* scheduler does with the tasks.
Promise == INSTANCE Sync WITH
  holder  <- [m \in Mutex |-> mutex[m].owner],
  depth   <- [m \in Mutex |-> mutex[m].count],
  tokens  <- sem,
  waiting <- [q \in WaitList |-> ToSet(waiters[q])]

\* mutex.c and sem.c over the scheduler do what Sync promises: only a task
\* that waits for nothing acts, and waiting ends by a hand-over only.
ImplementsSync == Promise!SyncSpec
=============================================================================
