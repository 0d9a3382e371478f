------------------------------- MODULE Lifecycle -------------------------------
(****************************************************************************)
(* Process creation and termination (sys_fork, sys_wait, sys_exit of        *)
(* kernel/core/task.c) over the scheduler and the mutex of Ipc.             *)
(*                                                                          *)
(* A system call runs with interrupts enabled: it is cut into steps at the  *)
(* points where a preemption can be observed, and pc says where each task   *)
(* is.  Only the running task steps.  task_table is scanned slot by slot,   *)
(* as in the code: the states in it change under a scan, because sys_exit   *)
(* writes them without task_table_mutex.                                    *)
(****************************************************************************)
EXTENDS Ipc

CONSTANTS Table,         \* the slots of task_table, in order
          TableMutex,    \* task_table_mutex
          ForksOverlap   \* assumption on the programs: see ForkLock

ASSUME LifecycleAssumption ==
  /\ Table \in Seq(Task \ {First})
  /\ TableMutex \in Mutex
  /\ ForksOverlap \in BOOLEAN

VARIABLES named,    \* the slots whose name is not empty: allocated
          parent,   \* task_t.parent
          pc,       \* where each task is in its system call
          at,       \* the index of its scan of task_table
          child,    \* sys_fork's child_task
          moved     \* sys_exit's move_child

locals == <<pc, at, child, moved>>
lvars  == <<vars, named, parent, locals>>

Slot == ToSet(Table)

Label == {"user", "fork_scan", "fork_unlock", "fork_init", "fork_link",
          "fork_start", "wait_lock", "wait_scan", "wait_return",
          "wait_block", "exit_scan", "exit_end", "dead"}

LifecycleInit ==
  /\ IpcInit
  /\ named  = {First}
  /\ parent = [t \in Task |-> NoTask]
  /\ pc     = [t \in Task |-> IF t = First THEN "user" ELSE "dead"]
  /\ at     = [t \in Task |-> 1]
  /\ child  = [t \in Task |-> NoTask]
  /\ moved  = [t \in Task |-> FALSE]

-----------------------------------------------------------------------------
me == os.curr

\* The running task is at label a and goes to label b.
Goto(a, b) ==
  /\ InSyscall
  /\ pc[me] = a
  /\ pc' = [pc EXCEPT ![me] = b]

Zombie(t) == os.state[t] = "ZOMBIE"

ScanEnds == at[me] > Len(Table)
Scanned  == Table[at[me]]
NextSlot == at' = [at EXCEPT ![me] = @ + 1]

\* Between the scan of alloc_task and task_init the slot found is marked by
\* nothing.  ForksOverlap says whether the programs may be in two forks at
\* once there; the runs that assume they are not say so.
InAlloc(t) == pc[t] \in {"fork_scan", "fork_unlock", "fork_init"}

ForkLock ==
  /\ Goto("user", "fork_scan")
  /\ ForksOverlap \/ \A t \in Task : ~ InAlloc(t)
  /\ mutex_lock(TableMutex)
  /\ UNCHANGED <<named, parent, at, child, moved>>

\* alloc_task: the first slot with an empty name, if there is one.
ForkScan ==
  /\ Goto("fork_scan", "fork_unlock")
  /\ LET free == {i \in DOMAIN Table : Table[i] \notin named}
     IN child' = [child EXCEPT ![me] =
          IF free = {} THEN NoTask
          ELSE Table[CHOOSE i \in free : \A j \in free : i <= j]]
  /\ UNCHANGED <<vars, named, parent, at, moved>>

ForkUnlock ==
  /\ Goto("fork_unlock", IF child[me] = NoTask THEN "user" ELSE "fork_init")
  /\ mutex_unlock(TableMutex)
  /\ UNCHANGED <<named, parent, at, child, moved>>

\* task_init(child): it takes no lock.
ForkInit ==
  /\ Goto("fork_init", "fork_link")
  /\ named' = named \cup {child[me]}
  /\ parent' = [parent EXCEPT ![child[me]] = NoTask]
  /\ os' = [os EXCEPT !.state[child[me]] = "CREATED",
                      !.sleepTicks[child[me]] = 0,
                      !.slice[child[me]] = TimeSlice]
  /\ UNCHANGED <<ipc, at, child, moved>>

ForkLink ==
  /\ Goto("fork_link", "fork_start")
  /\ parent' = [parent EXCEPT ![child[me]] = me]
  /\ UNCHANGED <<vars, named, at, child, moved>>

\* task_start(child), and both tasks return to their program.
ForkStart ==
  /\ InSyscall
  /\ pc[me] = "fork_start"
  /\ os' = task_set_ready(os, child[me])
  /\ pc' = [pc EXCEPT ![me] = "user", ![child[me]] = "user"]
  /\ child' = [child EXCEPT ![me] = NoTask]
  /\ UNCHANGED <<ipc, named, parent, at, moved>>

-----------------------------------------------------------------------------
\* sys_wait is called, or goes round its loop.
WaitLock ==
  /\ Goto("user", "wait_scan") \/ Goto("wait_lock", "wait_scan")
  /\ mutex_lock(TableMutex)
  /\ at' = [at EXCEPT ![me] = 1]
  /\ UNCHANGED <<named, parent, child, moved>>

WaitSkip ==
  /\ Goto("wait_scan", "wait_scan")
  /\ ~ ScanEnds
  /\ parent[Scanned] # me \/ ~ Zombie(Scanned)
  /\ NextSlot
  /\ UNCHANGED <<vars, named, parent, child, moved>>

\* The child's memory is released and its slot is cleared.
Reap ==
  /\ os' = [os EXCEPT !.state[Scanned] = "CREATED",
                      !.sleepTicks[Scanned] = 0, !.slice[Scanned] = 0]
  /\ named' = named \ {Scanned}
  /\ parent' = [parent EXCEPT ![Scanned] = NoTask]
  /\ UNCHANGED <<ipc, at, child, moved>>

\* MUTANTS of WaitReap: the state is not compared; the parent is not compared.
WaitReap_AnyState ==
  /\ Goto("wait_scan", "wait_return")
  /\ ~ ScanEnds
  /\ parent[Scanned] = me
  /\ Reap
WaitReap_AnyParent ==
  /\ Goto("wait_scan", "wait_return")
  /\ ~ ScanEnds
  /\ Zombie(Scanned)
  /\ Reap

WaitReap ==
  /\ Goto("wait_scan", "wait_return")
  /\ ~ ScanEnds
  /\ parent[Scanned] = me /\ Zombie(Scanned)
  /\ Reap

WaitReturn ==
  /\ Goto("wait_return", "user")
  /\ mutex_unlock(TableMutex)
  /\ at' = [at EXCEPT ![me] = 1]
  /\ UNCHANGED <<named, parent, child, moved>>

WaitUnlock ==
  /\ Goto("wait_scan", "wait_block")
  /\ ScanEnds
  /\ mutex_unlock(TableMutex)
  /\ UNCHANGED <<named, parent, at, child, moved>>

\* MUTANT of WaitBlock: the state is not set.
WaitBlock_Unmarked ==
  /\ Goto("wait_block", "wait_lock")
  /\ os' = task_dispatch(task_set_block(os, me))
  /\ UNCHANGED <<ipc, named, parent, at, child, moved>>

WaitBlock ==
  /\ Goto("wait_block", "wait_lock")
  /\ os' = task_dispatch([task_set_block(os, me) EXCEPT
                            !.state[me] = "WAITTING"])
  /\ UNCHANGED <<ipc, named, parent, at, child, moved>>

-----------------------------------------------------------------------------
\* first_task is a loop and does not exit.
ExitLock ==
  /\ Goto("user", "exit_scan")
  /\ me # First
  /\ mutex_lock(TableMutex)
  /\ at' = [at EXCEPT ![me] = 1]
  /\ moved' = [moved EXCEPT ![me] = FALSE]
  /\ UNCHANGED <<named, parent, child>>

\* MUTANT of ExitScan: only the zombies are handed over.
ExitScan_Zombies ==
  /\ Goto("exit_scan", "exit_scan")
  /\ ~ ScanEnds
  /\ IF parent[Scanned] = me /\ Zombie(Scanned)
     THEN /\ parent' = [parent EXCEPT ![Scanned] = First]
          /\ moved' = [moved EXCEPT ![me] = TRUE]
     ELSE UNCHANGED <<parent, moved>>
  /\ NextSlot
  /\ UNCHANGED <<vars, named, child>>

\* first_task inherits the children.
ExitScan ==
  /\ Goto("exit_scan", "exit_scan")
  /\ ~ ScanEnds
  /\ IF parent[Scanned] = me
     THEN /\ parent' = [parent EXCEPT ![Scanned] = First]
          /\ moved' = [moved EXCEPT ![me] = @ \/ Zombie(Scanned)]
     ELSE UNCHANGED <<parent, moved>>
  /\ NextSlot
  /\ UNCHANGED <<vars, named, child>>

ExitUnlock ==
  /\ Goto("exit_scan", "exit_end")
  /\ ScanEnds
  /\ mutex_unlock(TableMutex)
  /\ UNCHANGED <<named, parent, at, child, moved>>

\* MUTANTS of WakeWaiting: the state is not compared; nobody is woken.
WakeWaiting_Always(k, p) == task_set_ready(k, p)
WakeWaiting_Never(k, p) == k

\* Make p ready if it is blocked in sys_wait.
WakeWaiting(k, p) ==
  IF k.state[p] = "WAITTING" THEN task_set_ready(k, p) ELSE k

\* The last region of sys_exit: wake first_task for the zombies it inherits,
\* wake the parent, become a zombie, leave the processor.
ExitEnd ==
  /\ Goto("exit_end", "dead")
  /\ LET p == parent[me]
         heir  == IF moved[me] /\ p # First THEN WakeWaiting(os, First) ELSE os
         woken == WakeWaiting(heir, p)
     IN os' = task_dispatch(
                task_set_block([woken EXCEPT !.state[me] = "ZOMBIE"], me))
  /\ at' = [at EXCEPT ![me] = 1]
  /\ moved' = [moved EXCEPT ![me] = FALSE]
  /\ UNCHANGED <<ipc, named, parent, child>>

-----------------------------------------------------------------------------
\* A program other than first_task yields or sleeps.
UserYield == me # First /\ InSyscall /\ pc[me] = "user" /\ Yield
UserSleep == me # First /\ InSyscall /\ pc[me] = "user" /\ Sleep

Interlude == (Timer \/ UserYield \/ UserSleep) /\ UNCHANGED <<named, parent, locals>>

ForkStep == ForkLock \/ ForkScan \/ ForkUnlock \/ ForkInit \/ ForkLink \/ ForkStart
WaitStep == \/ WaitLock \/ WaitSkip \/ WaitReap \/ WaitReturn
            \/ WaitUnlock \/ WaitBlock
ExitStep == ExitLock \/ ExitScan \/ ExitUnlock \/ ExitEnd

LifecycleNext == Interlude \/ ForkStep \/ WaitStep \/ ExitStep

LifecycleSpec == LifecycleInit /\ [][LifecycleNext]_lvars

\* A task inside a system call goes on with it whenever it has the processor.
InCall(t) == os.curr = t /\ pc[t] # "user" /\ (ForkStep \/ WaitStep \/ ExitStep)

LifecycleFairSpec ==
  /\ LifecycleSpec
  /\ WF_lvars(Timer /\ UNCHANGED <<named, parent, locals>>)
  /\ \A t \in Task : SF_lvars(InCall(t))

-----------------------------------------------------------------------------
\* Every variable has its type.
LifecycleTypeOK ==
  /\ Types
  /\ named \in SUBSET Task
  /\ parent \in [Task -> Task \cup {NoTask}]
  /\ pc \in [Task -> Label]
  /\ at \in [Task -> 1..(Len(Table) + 1)]
  /\ child \in [Task -> Slot \cup {NoTask}]
  /\ moved \in [Task -> BOOLEAN]

Somewhere(t) ==
  \/ t \in ToSet(os.ready) \cup ToSet(os.asleep)
  \/ \E q \in WaitList : t \in ToSet(waiters[q])

InItsPlace(t) ==
  IF os.state[t] \in {"CREATED", "WAITTING", "ZOMBIE"} THEN ~ Somewhere(t)
  ELSE Somewhere(t)

\* A slot that is free, or free again after sys_wait has cleared it.
FreeSlotUnused ==
  \A s \in Slot \ named :
    /\ os.state[s] = "CREATED" /\ ~ Somewhere(s)
    /\ s \notin {parent[t] : t \in Task}
    /\ s \notin {mutex[m].owner : m \in Mutex}

\* A started task is in one list, or blocked in sys_wait, or a zombie, and
\* only one of these: sys_exit makes a parent ready only if it is in no list,
\* or list_insert_last would link its run_node a second time.  A slot that is
\* free is in no list and nobody's parent, and holds no mutex.
TasksAccounted ==
  /\ LifecycleTypeOK
  /\ OneList /\ \A t \in Task : InItsPlace(t)
  /\ FreeSlotUnused

\* The parent of a process is a live process: an exiting parent has handed
\* its children to first_task before it is a zombie, so that every zombie is
\* within the reach of some sys_wait, and no parent pointer dangles.
ParentAlive ==
  \A t \in Task : parent[t] # NoTask =>
    /\ parent[t] \in named
    /\ os.state[parent[t]] \notin {"ZOMBIE", "CREATED"}

\* A slot is cleared only when it holds a zombie, by its parent, under
\* task_table_mutex.
ReapedByParent ==
  [][\A s \in named \ named' :
       /\ Zombie(s) /\ parent[s] = me
       /\ mutex[TableMutex].owner = me]_lvars

\* A task that becomes a zombie leaves neither its parent blocked in sys_wait,
\* nor first_task if it has left zombies to it.
ExitWakesParent ==
  [][\A t \in Task : (~ Zombie(t) /\ Zombie(t)') =>
       /\ os'.state[parent[t]] # "WAITTING"
       /\ moved[t] => os'.state[First] # "WAITTING"]_lvars

\* task_init gives every task its own task_t: two forks do not take the same
\* slot.
SlotNotShared ==
  \A t, u \in Task : (t # u /\ child[t] # NoTask) => child[t] # child[u]

\* sys_wait returns when a child of the caller has exited: sys_exit wakes the
\* parent up.
WaitReturns ==
  \A p \in Task, c \in Slot :
    (os.state[p] = "WAITTING" /\ Zombie(c) /\ parent[c] = p)
      ~> os.state[p] # "WAITTING"
=============================================================================
