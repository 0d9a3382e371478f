------------------------------ MODULE Scheduler ------------------------------
(****************************************************************************)
(* The task scheduler of kernel/core/task.c: the ready list, the sleep list *)
(* and the running task, on one processor.                                  *)
(*                                                                          *)
(* The kernel's functions change the scheduler inside one                   *)
(* irq_enter_protection / irq_leave_protection region and call each other   *)
(* there, so each of them is an operator from a scheduler record to a       *)
(* scheduler record, and one region is one action: the composition of the   *)
(* operators in the order of the calls.                                     *)
(*                                                                          *)
(* A list_t linked through task_t.run_node is a sequence of tasks.          *)
(* task_switch_from_to (a jump to another TSS) is the assignment of .curr:  *)
(* the code after it runs when the task is chosen again.                    *)
(****************************************************************************)
EXTENDS Integers, Sequences, FiniteSets, SequencesExt

CONSTANTS Task,       \* the slots of task_table, and first_task
          Idle,       \* task_manager.idle_task
          First,      \* task_manager.first_task
          TimeSlice,  \* TASK_TIME_SLICE_DEFAULT, in ticks
          MaxSleep    \* bound: the longest sleep a task asks for, in ticks

ASSUME SchedulerAssumption ==
  /\ IsFiniteSet(Task)
  /\ First \in Task
  /\ Idle \notin Task
  /\ TimeSlice \in Nat \ {0}
  /\ MaxSleep \in Nat

TaskState == {"CREATED", "RUNNING", "SLEEP", "READY", "WAITTING", "ZOMBIE"}

VARIABLE os   \* task_manager and the scheduling fields of every task_t

Scheduling ==
  [curr       : Task \cup {Idle},              \* task_manager.curr_task
   ready      : Seq(Task),                     \* task_manager.ready_list
   asleep     : Seq(Task),                     \* task_manager.sleep_list
   state      : [Task \cup {Idle} -> TaskState],
   sleepTicks : [Task -> Nat],
   slice      : [Task \cup {Idle} -> Nat]]     \* slice_ticks

-----------------------------------------------------------------------------
\* A node is in the list once.
NoRepeat(s) == \A i, j \in DOMAIN s : s[i] = s[j] => i = j

\* list_remove of a node that is in the list.
Without(s, t) == RemoveAt(s, CHOOSE i \in DOMAIN s : s[i] = t)

\* The ways to list the set S in the order of the sequence s: there is one
\* when S is a subset of the elements of s and s has no duplicates.
InOrder(S, s) ==
  {q \in SetToSeqs(S) :
     \A i, j \in DOMAIN q : \A m, n \in DOMAIN s :
        (i < j /\ s[m] = q[i] /\ s[n] = q[j]) => m < n}

task_next_run(k) == IF k.ready = <<>> THEN Idle ELSE Head(k.ready)

\* MUTANT of task_set_ready: list_insert_first for list_insert_last.
task_set_ready_First(k, t) ==
  IF t = Idle THEN k
  ELSE [k EXCEPT !.ready = <<t>> \o @, !.state[t] = "READY"]

task_set_ready(k, t) ==
  IF t = Idle THEN k
  ELSE [k EXCEPT !.ready = Append(@, t), !.state[t] = "READY"]

task_set_block(k, t) ==
  IF t = Idle THEN k
  ELSE [k EXCEPT !.ready = Without(@, t)]

task_set_sleep(k, t, ticks) ==
  IF ticks <= 0 THEN k
  ELSE [k EXCEPT !.sleepTicks[t] = ticks, !.state[t] = "SLEEP",
                 !.asleep = Append(@, t)]

task_dispatch(k) ==
  LET to == task_next_run(k)
  IN IF to = k.curr THEN k
     ELSE [k EXCEPT !.curr = to, !.state[to] = "RUNNING"]

\* MUTANTS of SliceTick: the task is not made ready again; its slice is not
\* loaded again.
SliceTick_Lost(k) ==
  LET left == k.slice[k.curr] - 1
  IN IF left # 0 THEN [k EXCEPT !.slice[k.curr] = left]
     ELSE task_set_block([k EXCEPT !.slice[k.curr] = TimeSlice], k.curr)
SliceTick_NoReload(k) ==
  LET left == k.slice[k.curr] - 1
  IN IF left # 0 THEN [k EXCEPT !.slice[k.curr] = left]
     ELSE task_set_ready(
            task_set_block([k EXCEPT !.slice[k.curr] = left], k.curr), k.curr)

\* First half of task_time_tick: the running task's time slice.
SliceTick(k) ==
  LET left == k.slice[k.curr] - 1
  IN IF left # 0 THEN [k EXCEPT !.slice[k.curr] = left]
     ELSE task_set_ready(
            task_set_block([k EXCEPT !.slice[k.curr] = TimeSlice], k.curr),
            k.curr)

\* Second half of task_time_tick: one pass over the sleep list, in its order.
\* Every sleeper loses a tick, those that reach zero go to the ready list.
\* A set with one element, written as a set so that no step is a recursion.
Due(k) == {t \in ToSet(k.asleep) : k.sleepTicks[t] - 1 = 0}

\* MUTANTS of AfterScan: the sleepers are woken from the last to the first; the ticks of every task are decremented.
AfterScan_Reversed(k, woken, kept) ==
  [k EXCEPT !.sleepTicks = [t \in Task |->
              IF t \in ToSet(k.asleep) THEN @[t] - 1 ELSE @[t]],
            !.asleep = kept, !.ready = @ \o Reverse(woken),
            !.state = [t \in Task \cup {Idle} |->
              IF t \in Due(k) THEN "READY" ELSE @[t]]]
AfterScan_All(k, woken, kept) ==
  [k EXCEPT !.sleepTicks = [t \in Task |-> @[t] - 1],
            !.asleep = kept, !.ready = @ \o woken,
            !.state = [t \in Task \cup {Idle} |->
              IF t \in Due(k) THEN "READY" ELSE @[t]]]

AfterScan(k, woken, kept) ==
  [k EXCEPT !.sleepTicks = [t \in Task |->
              IF t \in ToSet(k.asleep) THEN @[t] - 1 ELSE @[t]],
            !.asleep = kept,
            !.ready  = @ \o woken,
            !.state  = [t \in Task \cup {Idle} |->
              IF t \in Due(k) THEN "READY" ELSE @[t]]]

SleepScan(k) ==
  {AfterScan(k, woken, kept) :
     woken \in InOrder(Due(k), k.asleep),
     kept \in InOrder(ToSet(k.asleep) \ Due(k), k.asleep)}

-----------------------------------------------------------------------------
\* kernel_init has started the idle task and first_task, and jumps to the
\* latter; the other slots of task_table are not started yet.
SchedulerInit ==
  os = [curr |-> First, ready |-> <<First>>, asleep |-> <<>>,
        state |-> [t \in Task \cup {Idle} |->
                     IF t = First THEN "READY" ELSE "CREATED"],
        sleepTicks |-> [t \in Task |-> 0],
        slice |-> [t \in Task \cup {Idle} |-> TimeSlice]]

\* A system call is made by the running task, and the idle task makes none.
InSyscall == os.curr # Idle

\* MUTANT of task_time_tick: nothing is done while the idle task runs.
task_time_tick_NotIdle ==
  /\ os.curr # Idle
  /\ \E k \in SleepScan(SliceTick(os)) : os' = task_dispatch(k)

task_time_tick == \E k \in SleepScan(SliceTick(os)) : os' = task_dispatch(k)

\* MUTANT of sys_yeild: the task after the running one goes to the end.
sys_yeild_Next ==
  /\ InSyscall
  /\ Len(os.ready) > 1
  /\ os' = task_dispatch(
             task_set_ready(task_set_block(os, os.ready[2]), os.ready[2]))

sys_yeild ==
  /\ InSyscall
  /\ Len(os.ready) > 1
  /\ os' = task_dispatch(
             task_set_ready(task_set_block(os, os.curr), os.curr))

\* MUTANT of sys_sleep: the task stays in the ready list.
sys_sleep_Ready(ticks) ==
  /\ InSyscall
  /\ os' = task_dispatch(task_set_sleep(os, os.curr, ticks))

\* ticks >= 1: the user's sleep() returns at once for ms <= 0, and start_beep
\* passes a constant.
sys_sleep(ticks) ==
  /\ InSyscall
  /\ os' = task_dispatch(
             task_set_sleep(task_set_block(os, os.curr), os.curr, ticks))

\* The running task makes another one ready, once (the end of sys_fork).
task_start(t) ==
  /\ InSyscall
  /\ os.state[t] = "CREATED"
  /\ os' = task_set_ready(os, t)
=============================================================================
