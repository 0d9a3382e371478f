# A TLA+ model of the wjos kernel

wjos is a small 32-bit x86 operating system: one processor, preemptive
scheduling on a 10 ms timer interrupt, processes with `fork`/`exec`/`wait`,
mutexes and semaphores, terminals, an IDE disk and a FAT file system.  This
directory holds TLA+ specifications of its kernel, the TLC configurations that
check them on small instances, and theorems about them that TLAPS checks for
every value of the constants.

## 1. The system

| part | code (under `src/`) | state | operations |
|---|---|---|---|
| scheduler | `kernel/core/task.c`, `init/first_task.c` | `task_manager` (running task, ready, sleep and task list), the scheduling fields of every `task_t` | `task_time_tick`, `task_dispatch`, `sys_yeild`, `sys_sleep`, `task_set_*`, `task_start` |
| mutexes, semaphores | `kernel/ipc/mutex.c`, `sem.c` | owner, count, wait list | `mutex_lock`, `mutex_unlock`, `sem_wait`, `sem_notify` |
| process life cycle | `kernel/core/task.c` | `task_table`, parent, exit status, GDT selectors | `sys_fork`, `sys_wait`, `sys_exit`, `sys_execve` |
| open files | `kernel/fs/file.c`, `fs.c` | `file_table` with its reference counts, `task_t.file_table` | `sys_open`, `sys_close`, `sys_dup`, `sys_read`, `sys_write`, `sys_lseek`, ... |
| terminal | `kernel/dev/tty.c` | input and output ring, a semaphore for each | `tty_open`, `tty_read`, `tty_write`, `tty_in` (interrupt) |
| keyboard | `kernel/dev/keyboard.c` | prefix received, modifiers, caps lock | `do_handle_keyboard` (interrupt) |
| console | `kernel/dev/console.c`, `base/history_cmd.c` | cursor, escape-sequence state, command history | `console_write`, `console_select`, `add`, `pre_cmd`, `next_cmd`, `sys_get_history` |
| devices | `kernel/dev/dev.c`, `fs/devfs/devfs.c` | open device table | `dev_open`, `dev_close`, ... |
| disk | `kernel/dev/disk.c` | one command in flight, `op_sem`, `mutex` | `disk_read`, `disk_write`, the IRQ14 handler |
| memory | `kernel/core/memory.c` | page bitmap, page directories, `heap_end` | `memory_alloc_for_page_dir`, `memory_copy_uvm`, `memory_destroy_uvm`, `sys_sbrk`, ... |
| FAT file system | `kernel/fs/fatfs/fatfs.c` | FAT, directory entries, file position | `fatfs_open`, `fatfs_read`, `fatfs_write`, `fatfs_seek`, ... |
| tools | `kernel/tools/*.c`, `dev/time.c` | lists, bitmap, strings, dates | pure functions |
| interrupts, processor | `kernel/cpu/*.c`, `dev/clock.c` | GDT, IDT, PIC | `irq_enter_protection`, `gdt_alloc_desc`, handlers |
| boot, loader, shell, libc | `boot/`, `loader/`, `shell/`, `libc/` | | |

**How the parts interact.**  A program enters the kernel through a call gate,
which leaves interrupts enabled: a system call can be preempted anywhere.  The
kernel protects itself in two ways: regions between `irq_enter_protection` and
`irq_leave_protection` (`kernel/cpu/irq.c:348-359`), in which nothing else
runs, and mutexes.  Interrupt handlers run with interrupts disabled on top of
whatever task is current, and may themselves switch to another task
(`task_dispatch` in the clock handler, `sem_notify` in the keyboard's and the
disk's).  All lists of tasks are intrusive: `run_node` is in the ready or in the
sleep list, `wait_node` in the wait list of one mutex or semaphore.

**What is hard.**  The interleaving of system calls with each other and with
interrupts; an intrusive list whose operations check nothing; check-then-act
across an unlock (`sys_wait`, `alloc_task`, `sys_close`, `gdt_alloc_desc`);
wake-ups that must not be lost; reference counts; liveness of waiting tasks.
`PROJECT.json` lists each hazard at its line.

**What makes each part correct.**

* scheduler: every started task is in exactly one list; the running task is the
  head of the ready list; ready tasks run, sleepers wake, in order;
* mutex, semaphore: owner, count and wait list agree; hand-over to the first
  waiter; no lost wake-up; waiters are served;
* life cycle: no slot has two owners; no zombie is out of reach of a `wait`;
  parents are woken; nothing is freed that is in use;
* open files: `ref` is the number of descriptors; a slot is reused only when
  the file is closed; a file is closed once, by its last descriptor;
* terminal: semaphore and ring agree, no key is lost or invented while there is
  room; disk: a
  transfer moves exactly the sectors it reports, whatever interrupts are left
  over, and returns; memory: no page has
  two owners; FAT: chains do not cross and the position stays in its cluster;
* console and keyboard: the cursor stays on the screen, a delete undoes a
  character, the line shown is the line read; every key gives its character once;
* descriptors of the GDT: no two live tasks share one;
* lists and other tools: each function computes what its name says.

## 2. The modules

    Scheduler ---- Ipc ---- Lifecycle        Sync ---- FileTable -- MCFileTable
        |           | \        |               ^  \---- Tty ---\
        |         MCIpc \   MCLifecycle        |   \--- Disk ---- MCDrivers
        |                \                     |                /
    SchedulerProofs -- IpcProofs (Ipc implements Sync)         /
                                                              /
                                          Queue <- Fifo -----/
    FatFs -- MCFatFs, FatFsProofs      Memory -- MemoryProofs

    History -- LineEdit --\
    Console, Keyboard -----\
    Selectors, Clock, Klib -- MCDevices
    LinkedList ------------/

Beside these, `FileTableProofs` extends `FileTable`, `LifecycleProofs` extends
`Lifecycle` and `SchedulerProofs`, `DriverProofs` extends `Tty`, `Disk` and `Fifo`, and
`DeviceProofs` extends `Selectors`, `LineEdit`, `Console`, `Keyboard`, `LinkedList`
and `Clock`.

`MCDrivers` and `MCDevices` check several components that share no state in one
run: a variable `part`, fixed in the initial state, says which of them moves,
and the others rest in one initial state.  The run has the states of the parts
added up, not multiplied.

### Scheduler

One variable `os`, a record with the fields of `task_manager` and, as functions
of the task, `state`, `sleep_ticks` and `slice_ticks`.  A list is a sequence of
tasks.  The kernel's functions call each other inside one protected region, so
each is an *operator* from record to record under its own name
(`task_set_ready`, `task_set_block`, `task_dispatch`, ...), and a region is one
action that composes them in the order of the calls.  `task_switch_from_to` is
the assignment of `.curr`.  The idle task is in no list: it runs when the ready
list is empty, as in `task_next_run`.

`SleepScan`, the loop of `task_time_tick` over the sleep list, is written as a
set with one element (the woken and the kept sleepers in the order of the list):
no definition is recursive, so that TLAPS can reason about all of them.

### Ipc and Sync

`Ipc` puts `mutex.c` and `sem.c` on top of the scheduler, with the most general
clients: at every point the running task may call any operation, the timer or a
device may interrupt.  Each branch of the C code is an action
(`LockFree`, `LockAgain`, `LockBlocked`, ...).  A task that blocks
inside `mutex_lock` looks at nothing when it resumes, so being dispatched again
is its return.

`Sync` is what both promise to their callers, without scheduler: who is inside,
how deep, who waits.  `Ipc!ImplementsSync` is the refinement mapping (the wait
*list* is mapped to the *set* of waiters).  The models of larger parts
interleave their processes over `Sync` and need no scheduler.

### Lifecycle

`sys_fork`, `sys_wait`, `sys_exit` over `Ipc`, with a program counter per task,
cut where a preemption can be observed.  `task_table` is scanned slot by slot,
because `sys_exit` writes the states without the mutex.  `sys_fork`'s copying of
registers, descriptors and pages is left to other components (`FileTable`,
`Memory`).

### FileTable

`file_table` with the reference counts, the descriptors of every process, and
`sys_open`, `sys_close`, `sys_dup`, the calls that use a descriptor (`Use`: read,
write, lseek, ioctl) and the file part of `fork` and `exit`, each cut at its
calls of `mutex_lock` and `mutex_unlock`.  Of a file's identity only what it is on
is kept: the FAT file system, which has a mutex and whose open can fail, or a
device under `/dev`, which has none and whose open always succeeds, if need be
with no device behind it.  `openCount` is `device_t.open_count`, which `dev_open`
and `dev_close` change in a protected region.  The kernel is built with `-O0`
(`CMakeLists.txt:18`), so `ref--` is a load and a store, and `sys_close` does it
outside `file_alloc_mutex`.

### Fifo and Queue

`Fifo` is the ring of a terminal (`tty_fifo_put`, `tty_fifo_get`): array, two
indices, count.  `Queue` is the bounded first-in first-out queue that
`include/dev/tty.h:29` calls it; `Fifo!ImplementsQueue` maps the `count`
characters from `read` on, around the end of the array, to the queue.

### Tty

One terminal: `tty_write`, `tty_read` and `tty_control` by any number of
processes over `Sync`, the drain loop of `console_write`, and `tty_in` as one
step of an interrupt handler.  The rings are queues, as `Fifo` proves.  A
character of the output is identified by its writer and its number in the call,
so that the histories `sent` and `shown` can say what was displayed of a call,
whoever displayed it.  What `show_char` draws is the console's.

`tty_in` compares the count of the *semaphore* with the size of the ring and
ignores the result of the put.  A reader between `sem_wait` and `tty_fifo_get`
has lowered the one and not yet the other, so a key may find the ring full, be
dropped, and yet be counted; a reader later finds an empty ring and uses an
uninitialised `ch`.  The model follows the code: `lost` counts such keys,
`InputAccounted`, a part of `RingsAccounted`, is exact with it, and `GetKey` on an empty ring takes any key.

### Memory

The page bitmap, page directories and page tables, and `sys_sbrk`, `sys_fork`,
`sys_execve`, `sys_exit` and `sys_wait` as far as they take, map, copy and give
back pages.  The bitmap changes under the mutex of `paddr_alloc` only, one page
at a time; a step of the model is one such change with what its caller does
until the next, and the steps of all processes interleave, so that memory can
run out inside any call.  A page used as directory or table has its entries in
`entry`; every other page is `Junk`, so that a table that is not cleared refers
to pages it should not.

What the code does when pages run out is followed to the letter:
`memory_alloc_for_page_dir` returns success with a hole in the mapping (`AfterAlloc`
goes on with its caller), gives back a virtual address and so loses the page,
`memory_copy_uvm` undoes the copy, but its 0 is not noticed by `sys_fork`, and
the child faults; `task_init` ignores that `tss_init` has failed.  Two
histories name what is wrong afterwards, so that the invariants can be exact
about the rest: `lost`, the pages nothing refers to any more, and `starved`, the
processes that have run out.  Every fork loses one page without any shortage:
the directory of `tss_init` is overwritten by the one of `memory_copy_uvm`
(`task.c:433`).

### FatFs

`fatfs.c` on a mounted volume.  Every operation runs under the mutex of the file
system, so one call is one action; what happens inside is computed by operators
with the names of the C functions, on a record `Work` of what the call has done
so far (table, data, file, the sector in `fat_buffer`).  A loop of the code is a
recursive function of the number of its rounds.  The chain functions are given
by their result on sets of clusters: `cluster_alloc_free` takes the least free
ones, `cluster_free_chain` frees what is reached from a cluster.

Variables: the three areas of the disk (`root`, `fat`, `data`), the open
`file_t`s, and for `fat_buffer` two values, what `curr_sector` says it holds
(`sector`) and what it does hold (`buffer`).  The histories `wrote`, `full` and
`reply` let `ReadsBack` compare what a read returns with what writes, by
whatever handle and in whatever pieces, have acknowledged.  A volume starts as
another system leaves it: empty, with deleted entries in front, or with a file
whose chain ends in `0xFFFF`.

Abstracted: directory and table are one sector each and the two copies of the
table are one, names are compared and not converted, and the disk answers every
command.

### Disk

`disk_read`, `disk_write` and the interrupt handler over `Sync`, with a
controller that is external: it accepts a command for several sectors, offers or
stores them one by one, interrupts once for each, or gives the command up with
an error.  Raising an interrupt and handling it are one step.  `platter` is the
disk, and the history `image` what the calls that have returned say it is.

`task_on_op` is set by the first command and never reset, and `mount` reads by
polling before there is a task: `op_sem` may have a token that belongs to no
command (`SyncMounted`), and keeps one after each failed command.  With it a call
passes `sem_wait` too early; the poll of `disk_wait_data` is what makes up for
it, and the mutant `Polled_Trusting` shows that without it `TransfersExact` fails.

### Selectors

The descriptors of the GDT: `gdt_alloc_desc`, `segment_desc_set` and
`gdt_free_sel`, and what `tss_init`, `task_init` and `sys_wait` do with them, cut
at each call.  `crossed` names the forks that met another one in an open window
(before `segment_desc_set`; between the two `gdt_free_sel` of a failure), and
`leaked` the descriptors that `sys_wait` gives up, so that `SelectorsOwned` is
exact about the rest.

### History and LineEdit

`History` is the ring of commands: `add`, in three steps that the keyboard's
interrupt may separate, `pre_cmd`, `next_cmd` and `sys_get_history`.  `LineEdit`
puts a line around it: the keys in the ring, the buffer of `tty_read`, the row of
the screen with its echo, `console_t.input_len`, and the shell that saves what
it runs.  `ShownIsLine` compares the row with the buffer.  `input_len` is
decremented twice by a delete (`tty.c:167`, `console.c:156`) and so drifts
below the length of the line; a bound keeps it above `-MaxLine`.  `pre_cmd` after
`add` uses an index it has not set: the command it returns may be any.

### Console

The body of the loop in `console_write`, one character a step: `write_normal`,
`write_esc`, `write_esc_square` and all they call.  A screen is the set of cells
that are not blank; `home` and `high` are where the typing at the cursor began
and how far it has been.  Colours are left out.

### Keyboard

The bytes a keyboard sends, which is external, and `do_handle_keyboard`, which
takes one per interrupt.  A user's view of the same keys (`wanted`, `caps`,
`chosen`) runs beside it, and `KeysUnderstood` compares the two.

### LinkedList

Every `list_*` function on the pointers of nodes and lists, next to `order`, the
sequences that the calls ask for.  It joins `list.c` to `Scheduler` and `Ipc`,
which have sequences, and is proved for any lists and nodes.

### Clock and Klib

`Clock` has two machines: `time_read_bcd` reading a clock that goes on (three
registers of radix 3 stand for the eight), and a walk over the days of 1970 to
2037 that compares `sys_mktime`, `get_yday` and `fml_stamp_to_time` with the
Gregorian calendar.  The two loops of `fml_stamp_to_time` are one recursive
function, `round`, of the number of rounds: the n-th value is what the loops have
left after n of them, and a loop that has ended leaves it as it is.  `Klib` has the algorithms on strings, paths, numbers and
bits as recursive operators, next to reference definitions; each input within
the bounds is a state.

## 3. The runs

| run | instance | question |
|---|---|---|
| `ipc_safety` | 3 tasks, 2 mutexes nested twice, 1 semaphore an interrupt posts to; slice 2, sleep up to 2 | all invariants, order of hand-over, of scheduling and of waking, and `ImplementsSync` |
| `ipc_live` | 3 tasks, 1 mutex, 1 semaphore | every ready task runs, every sleeper wakes, every task that waits for a mutex gets it |
| `life_safety` | 4 tasks, 3 slots, sleeps of 1 tick | accounting, orphans, reuse of slots, wake-up of parents |
| `life_fork_race` | 3 tasks | finding: two forks, one slot |
| `life_lost_wakeup` | 3 tasks | finding: a `wait` that never returns |
| `file_safety` | 3 processes, 2 slots, 2 descriptors, 1 terminal | counts, descriptors, slots and devices agree; no call works on a closed file |
| `file_close_race` | 2 processes | finding: `ref--` outside the mutex |
| `fatfs` | 2 names, 2 slots, 2 open files, 3 clusters of 2 bytes; calls of 1 and 3 bytes, files of up to 3 | clusters have one owner and none is lost, position and cluster agree, reads return what was written |
| `fatfs_seek` | the same | finding: a seek after the first cluster |
| `memory` | 2 processes, 13 pages, directories and tables of 2 entries, programs of 1 and 2 pages | every page taken has one use, nothing is mapped twice, heaps have their pages, children are complete |
| `drivers` | 2 processes; rings of 3 and 1, writes and reads of up to 2 characters, 1 key lost; a partition of 2 sectors behind another sector, transfers of up to 2; a ring of 4 with 2 characters | semaphores, rings and controller agree; a write is shown in order and before it returns; a transfer moves what it says; every call returns; the ring is a queue |
| `devices` | a ring of 3 commands, lines of 2 keys; a screen of 2 by 3; 3 keys held, 2 bytes unread; 2 lists, 4 nodes; 3 slots, 4 descriptors; a clock of 27 seconds, the days of 68 years; strings of 3, integers of 7 bits, 6 bits of a bitmap | eight parts, each against its own promise |

**Bounds.**  Three tasks are the least with one running and two in the same list
(order in a wait list, hand-over to the first of two, two sleepers due at
once); a fourth in `life_safety` gives a grandchild, so that an exiting parent
has both a live and a zombie child to hand over.  `TimeSlice = 2` has ticks that
end a slice and ticks that do not; `MaxSleep = 2` has sleepers due and not due.
`MaxCount`, `MaxNest` cap `sem.count` and `locked_count`, whose widths the
kernel comes nowhere near.  Two file slots make the table full and a slot
reusable; two descriptors leave one for `dup` next to descriptor 0.  An output
ring of 3 is the least above the number of processes, and two writers of lines
fill it; the input ring fills while a reader is let through.  A ring of 4
wraps with any count.  Three clusters of two bytes: a file of two clusters and its
spare one fill the volume, two files compete for the last; calls of 3 bytes
cross a cluster boundary from either side, allocate two clusters at once and
end with a round for a whole cluster; the pattern that is written has period 3,
so that two clusters never hold the same bytes by chance.

A ring of 3 commands is empty, partly full, full and wrapped within four
commands, and has an entry that is neither the first nor the last, which the
rewinding of `next_cmd` treats apart.  A screen of two rows scrolls at every
second row; with 3 columns a delete crosses the end of a row and the top of the
screen.  Three keys held are two shifts or two function keys and a character.
Four nodes in two lists have a removal with neighbours on both sides; the proof
covers the rest.  Three slots and four descriptors: the descriptors run out
after four processes, and two forks cross while a third runs.  Transfers of 1
and 2 sectors over a partition that does not begin at sector 0 tell a relative
from an absolute address.  Years from 1970 to 2037 are those in which a 32-bit
time has a meaning, all of them.  Strings of three signs of which one is a slash
have empty, leading, doubled and trailing names; sizes from 1 to 4 are below, at
and above each length.

Thirteen pages are one process with a heap and a
child of it: a fork, an exec or a heap that grows fails at each of its
allocations in some behaviour, and succeeds in others; pages of 2 bytes tell
heaps that fill a page from those that do not.

**Symmetry** is used only in runs without liveness: tasks other than the first.

**Fairness.**  `WF(Timer)`: the timer chip interrupts for ever, and regions that
disable interrupts are finite.  `LockGranted` has `SF(Unlock)` as a hypothesis of
its own: a task that has a mutex comes to its `mutex_unlock` when it runs often
enough; every user of a mutex in the kernel does.  It is strong, because
`Unlock` is disabled whenever another task is running.  `SF(InCall(t))` in `life_lost_wakeup`: a task inside a system
call goes on whenever it has the processor; the program outside a call need not
do anything.

`WF(InWrite(t))` in `drivers`: a process inside `tty_write` goes on (it gets the
processor by `StarvationFree`).  One that waits is let through: of two processes
only one can wait for the same semaphore or mutex, and with more, `mutex.c` and
`sem.c` serve the first (`NoBarging`).  `WF(DiskStep(t))` is the same for a
process inside `disk_read` or `disk_write`, and `WF(Controller)` says that a
command is answered, by data or by an error: the driver has no time limit, so a
controller that never answers stops its caller.  `CallsReturn` follows one of the
two interchangeable processes.

**An assumption on the sizes**, in `TtyAssumption`: the output ring has more
places than there are processes (512 and 129).  Each process can have a carriage
return in the ring while it waits for room for the line feed, without having
locked the console; if such returns filled the ring, nobody would drain it.

**Assumptions on the programs**, constants that can be lifted:
`ForksOverlap = FALSE` (no two forks between `alloc_task` and `task_init`),
`FdZeroKept` (descriptor 0 is opened successfully first and closed only by
exit), `ClosesApart` (no close at the same time as a conflicting call on the
same file, and no open during a last close), `Exclusive` (a file open for writing
is not opened again, nor removed while open), `SeekAnywhere = FALSE` (a program
seeks while it is in the first cluster), `OpenMode` (files are opened with the
flags of `fopen` `"r"` and `"wb"`, as `cat`, `less`, `cp` and `touch` do).  They are how the models go on
beyond the defects below.

**Findings.**

1. `sys_wait` loses a wake-up (`task.c:686-691`): it unlocks the table, and
   blocks in a later region.  A child that exits in between finds the parent not
   yet `TASK_WAITTING`.
2. `alloc_task` (`task.c:359-367`) does not mark the slot it returns; two forks
   can take the same one.
3. `sys_close` (`fs.c:237`) decrements `ref` outside the mutex that `dup` and
   `fork` increment it under.
4. `fatfs_seek` (`fatfs.c:607`) counts an offset from the start of the file
   along the chain from the *current* cluster.

Known without a run, listed among the hazards: `task_remove_fd` (`task.c:644`)
tests `fd > 0`, so that descriptor 0 is never cleared and the assertion at
`fs.c:234` can fail; a disk that fills up just as a cluster is complete leaves
`pos` behind the bytes that `fatfs_write` has acknowledged; `fatfs_unlink` writes
the mark for the end of the directory and hides the entries behind it; every
fork loses a page; a child that calls `sbrk` before an exec fails the assertion
at `memory.c:135`, because its `heap_end` is 0 (`HeapMapped` says that only this
and lack of memory lead there).

Observations of this kind in the smaller parts; each is an exception in the
property that covers its function:

* `fml_stamp_to_time` gives wrong dates in the year 2000: `&&` binds more than
  `||` at `time.c:200`, and every month of that year has 29 days.  `tm_wday`
  (`time.c:193`) is the day of the year modulo 7; `sys_time` wraps after 49.7 days,
  since `tick * 10` has 32 bits.
* `kernel_strncpy` cuts the last character of a text that just fits and writes one
  byte behind the size when the text is longer.  `kernel_strcmp` does not use its
  size and takes a prefix for equal.  `kernel_itoa` shows the last digit of a
  negative number first in bases other than 10.  `bitmap_alloc_nbits` looks twice
  at the first and never at the last bit of a run of two or more; the kernel asks
  for one.
* `erase_in_display` erases as many rows as there are columns (`console.c:335`) and
  so the beginning of the next consoles; `H` and `f` take any position; an
  eleventh parameter overwrites the index of the parameters.
* A function key and an arrow key act when they are pressed and when they are
  released; the pause key and keys without a character put a 0 on the input ring.
* `add` compares with the command before the latest, not with the latest
  (`peek_pre_cmd`).
* Descriptors of the GDT are never given back by `sys_wait`, and given back twice
  when `memory_create_uvm` fails (`task.c:64` and `73`).

## 4. The proofs

`SchedulerProofs` has the lemmas about sequences without repetition (`Append`,
`Tail`, `Without`, concatenation, `InOrder`) and, for every function of the
scheduler, what it does to the lists (`SetReadyEffect`, `TickSane`, ...).
`IpcProofs` has the inductive invariant `Inv` and the theorems.  For any finite
set of tasks, any mutexes and semaphores, any slice and sleep length:

* `TypeCorrect`, `ListsAreSound`, `LocksAreCoherent`, `TicksNeverWrap`: the
  invariants of `ipc_safety`;
* `NobodyBarges`: the action property `NoBarging`, from the same invariant;
* `TasksTakeTurns`, `SleepersWakeInOrder`: the action properties `RoundRobin` and
  `WakeInOrder`, from the same invariant;
* `IpcImplementsSync`: `Ipc` implements `Sync`, so what
  `FileTable` and `Tty` assume of mutexes and semaphores is what the code does.
  There is a lemma per operation (`LockStep`, `UnlockStep`, `WaitStep`,
  `NotifyStep`); the invariant gives that the caller waits nowhere, and that a
  wait list has no repetition, so that taking its head removes one element of
  the set of waiters.

The argument is one induction.  `Inv` conjoins typing with the placement of
tasks in lists (`OneList`, `NoTaskLost`), `CurrentIsFirst`, `MutexCoherent`,
`SemCoherent` and the tick bounds.  None is inductive alone: that a blocking
task is in the ready list needs `CurrentIsFirst`; that a waiter can be made ready
needs that it is in no other list; that a lock's hand-over keeps the owner out
of the wait list needs `NoRepeat`.  `InitInv`, `NextInv` (a lemma per action) and
`InvImplies` give the theorems by PTL.

For the two about order, every region is read as what it does to the ready list:
its tail is kept, its head may go behind it, and tasks that were in no list or in
the sleep list may follow (`Rotates`); of two tasks that were in it only the one
that goes from head to end changes places, because the list repeats no task.  One
tick takes from the sleep list those whose count is 1 and appends them
in the order they had there (`ScanOrder`, about `SleepScan`, which stands for the
loop of `task_time_tick` over the sleep list); every other region keeps the order of
those who stay asleep (`Wakes`).  `Orderly` conjoins the two, with a lemma per
region.

Of `list.c`, `DeviceProofs` proves for any lists and any nodes that the
pointers are the sequences the calls ask for (`ListsAreSequences`).  The
invariant (`LInv`) is `ListsAgree` itself with the types.  There is one lemma per function.
Each says what happens to the list that is changed, by comparing every node of
the new sequence with the old one; the other lists keep their pointers because
no node is in two places (`Once`).  A caller's duty, to insert a node that is in
no list and to remove one from the list it is in, is the guard of the actions,
and for the scheduler's lists it is what `ListsSound` gives.

`FileTableProofs` proves the four properties of `file_safety` for any tasks,
names, devices, file slots and descriptors: the assertion of `sys_close` never
fails (`RefStaysNatural`), the reference count of a file is the number of its
descriptors whenever no call is under way (`RefCountsDescriptors`), descriptors,
slots and device counts agree all the time (`SlotsAlwaysAgree`), and a file is
closed by the last descriptor only (`ClosedByTheLast`).  Between two steps of a
call the counts do not match, so the invariant says by how much each call in
progress is off: a descriptor *holds* its file unless its process is removing it;
`Counted` equates the count with the descriptors that hold the file, plus the
calls that have counted and not yet stored, and `CallsOK`, `ForksOK` and `Closing`
say what each call may rely on at each of its labels.  Cardinalities change by
one element at a time.  A smallest free descriptor exists because the natural
numbers are well founded (`NatMin`, from the library's theorem on finite subsets,
since the induction theorems cannot be used).

`LifecycleProofs` proves the properties of `life_safety`, and that the race of
`life_fork_race` has no window but the known one.  It is about `Ipc` *under* a
client: the same functions of the scheduler, but slots of the table may be free,
with a slice of zero, and tasks blocked in `sys_wait` are in no list at all, so
`Sane` of `SchedulerProofs` is replaced by `Placed`: whoever is listed is in no
state that takes it out of the lists, and has a positive slice.  The inductive
invariant `LInv` has five parts:

* `LockShape` and `AtTable`: only `task_table_mutex` is used and never nested, and a
  task is between its lock and its unlock exactly if it owns it or waits for it.
  So when a waiter is handed the mutex it is at a label that expects it;
* `Places`: a task is in the lists of the scheduler, in the queue of the mutex, or
  in a state (`CREATED`, `WAITTING`, `ZOMBIE`) that says why it is in neither, and
  which label goes with the state.  `sys_exit` calls `task_set_ready` for a parent
  on the ground of its state alone: this is why the parent is then linked once;
* `Forks`: what `sys_fork` may assume of the slot it has found, from label to
  label, while others are forking, exiting and being reaped;
* `Families`: a live process other than `first_task` has a live parent; the slots
  that the scan of `sys_exit` has passed do not name the caller, and at its end
  nobody does.

All of them have the hypothesis `~ ForksOverlap`: no fork begins while another one
is between `alloc_task` and `task_init`.  It is what `life_safety` assumes too, and
`life_fork_race` shows that the code fails without it.  `ForkInit` takes no lock:
that the slot found is still free there is the one thing the proof cannot have
without the hypothesis.

`DriverProofs` proves the properties of the two drivers that use the mutexes and
semaphores of `Sync`, which `IpcImplementsSync` says are those of the kernel.  Its
first part (`LockEffect`, `UnlockEffect`, `TakeEffect`, `PostEffect`) says what an
operation of `Sync` does to a client that never enters a mutex it is in.

For the disk, `DiskInv` says of the process that has the channel how far the
controller is ahead of it: at the sector after the `dcount` ones that are moved,
or one further, and what is then on the platter or in the buffer.  The hazard is
the interrupt that nobody waited for: its token is left in `op_sem`, so the *next*
call may go on before its sector is ready.  `Surplus` bounds the tokens by the
stale one and that of the sector that is ready, and the proof shows that a call
that is let through early finds the controller busy and polls.  So `CallsMoveWhatTheyCount` holds for any processes, any
partition and any length, under `DiskAssumption`.

For the terminal, `TtyInv` has three parts, proved apart (`SyncPartNext`,
`TypePartNext`, `InOrderNext`):

* `OutputAccounted` and `InputAccounted`, with `Queues` (who waits for room, for a
  key and for the console is at the label that expects it).  Cardinalities of the
  sets of processes at a label change by one (`MoveCounts`, `WaitCounts`,
  `GainCounts`); a token that goes straight to a waiter is one place less in
  `osem` and one process more with room;
* `CharsLeft` and `LineRoom`: how many characters a call can still put, a carriage
  return before each, and that `tty_read` asks for a key only while its line has
  room for one (`EditFits`: the carriage return is stored only if both fit);
* `InOrder`: the characters of a call that are put and not displayed are exactly
  those in the ring or in the hand of the process that drains it, in their order,
  the one in the hand first.  Only the owner of the console has a character in
  the hand (`OneHand`); that it drains until the ring is empty, whoever put the
  characters, gives `WriteFlushes`, and that the next character shown of a call is
  the one after the last gives `CharsShownInOrder`.

Of each ring of a terminal it proves, for every size and every set of characters,
that its indices and count agree (`RingAlways`) and that it implements the queue
(`RingIsQueue`), from the same invariant `RingOK`: that `write` is `count` places
after `read` is what makes a put land behind the last item and a get take the
first.  The lemmas are about `Wrap`, the arithmetic of the wrap-around without
`%`.

`DeviceProofs` proves the properties of the small parts, each with an invariant of
its own.

* Descriptors (`SelInv`): a descriptor belongs to the process that holds it as its
  TSS or is between finding and marking it.  Two processes share one only if both
  are in `crossed`, and a descriptor that is marked with no owner is in `leaked`.
  Each of the two windows of the code (before `segment_desc_set`, and between the
  two `gdt_free_sel` of a failure) puts whoever meets another there in `crossed`:
  outside them `gdt_alloc_desc` finds only descriptors nobody has.
* History (`HistInv`): the ring holds the last commands that `add` was given, the
  latest at `his_idx` (`RingHolds`), except for the one place that `add` is between
  clearing and filling.  `%` is dealt with once, in `Remainder`: one step around
  the ring is `+ 1` or back to 0.
* The line (`LineInv`): the row shows the line, except between the steps of
  `tty_read` in which it is being echoed, and there the invariant says what is
  missing (`EchoInv`, `ErasedRow`).  A key that arrives in between changes neither.
* The console (`ConsoleInv`): the cells typed since `home` and before the cursor are
  filled (`TypedIsFilled`).  A cell is compared by its place, `row * Cols + col`;
  the backspace at the beginning of a row goes one place back, and a scroll moves
  every place by `Cols`.  The bounds of the cursor hold for any parameters, except
  where `strayed` says that `H` or `f` has left the screen.
* The keyboard (`KeyInv`): what the driver will make of the bytes it has not read.
  There is a run of driver states over these bytes (`Decodes`), from the present
  state, which gives the characters wanted and ends with the flags and the console
  that the keys held call for (`Aim`).  A key that is pressed or released adds a
  state at the end, the interrupt takes one off the beginning, and when no byte is
  left the run is the present state.  A run is a sequence that exists, so nothing
  here is recursive.
* The clock (`ReadInv`): each register that is read holds what the clock showed then,
  and if the seconds have not changed since the first was read, no time has passed
  (`SameSecond`: less than a minute lies between the two looks, as `Second`
  assumes of the real-time clock), so all of them are of one instant.
* The calendars (`WalkInv`): `days` is the sum of the days before the year, before the
  month and of the month.  `sys_mktime` follows by arithmetic.  For
  `fml_stamp_to_time`, `StampRounds` shows that its recursive function exists;
  then the loop over the years finds the year (`YearsFound`) and the one over the
  months the month (`MonthsFound`), both by induction on the rounds.  The induction
  is over a set of numbers (`NatInd`, from the least element of a set), which needs
  no theorem with an operator as its parameter.

`MemoryProofs` proves the four properties of the run `memory`, for any number of
processes and of pages, any shape of directories and tables, and any sizes:
`MemoryTypesCorrect`, `PagesAlwaysAccounted`, `HeapAlwaysMapped`,
`ChildAlwaysComplete`.  `PagesAccounted` counts references and is not inductive: it
does not say in which of its places a page is.  `MemInv` says it with books.
`Vals[u][p][k]` is the page in place `k` of the use `u` of the process `p`: its
kernel stack, the page its call has in hand, a place of the address space it runs
in or of the one its call makes or destroys, or what it has lost.  `Accounted` says
that each page taken is in exactly one place.  It is kept because
every step is made of four things:

* a page that was free comes into an empty place (`Taken`), or a page is given
  back and its place is empty (`Freed`);
* a page goes from one place to another (`Moved`): from a call's hand into a table,
  from the directory of `tss_init` to `lost`;
* all pages of one use are exchanged for those of another (`Swapped`): `sys_execve`
  runs in the directory it has made and destroys the old one, `sys_wait` destroys
  that of the zombie, `sys_fork` gives the child the one it has filled.

What lets a step change `entry` at all is that a page is in one place: the entries of
a page that is in one address space are read through no other one (`OwnKept`,
`WorkKept`), and inside the one that is changed they are read at one place of the
directory only (`MapEffect`).  While an address space is destroyed, its tables
still refer to pages that are free again; `From`, the place up to which the pages have been
given back, keeps those out of the books, and since a table comes behind its frames
nothing is read through a freed table (`FreeEffect`).

The other parts of `MemInv` are local to a process: at which labels it has which
directories (`LabelsOK`), what `sys_fork` and `sys_wait` may assume of the slot they
work on (`ForksOK`), how far a call is (`WorkOK`), and, unless it has run out of
memory, which virtual pages are mapped (`FedOK`), from which `HeapMapped` follows.
`WorkOK` says of a copy that it has the parent's pages below `at`;
no other process changes what the copying process does (`CopyUndisturbed`), so at the
end the child has all of them.

`FatFsProofs` proves the four invariants of the run `fatfs` for any directory, any
number of clusters of any size, any names and any handles: `FatFsCacheHonest`,
`FatFsClustersOwned`, `FatFsPositioned` and `FatFsReadsBack`.  The hypothesis
`Behaved` says of the constants what the run assumes of the programs: `Exclusive`,
`~ SeekAnywhere`, and that a file is truncated exactly when it is opened for writing,
as `fopen` does for `"r"` and `"wb"`.  `fatfs_seek` shows that `Positioned` fails
without the second; without the third a file that has a size is written from position 0
while its size grows.
The argument has five layers:

* *Recursion.*  `Nth` walks the chain, `ReadLoop` and `WriteLoop` are the loops over
  the pieces of a call, all recursive functions.  `RunExists` shows for the three at
  once that a sequence of rounds exists, by induction over a set of numbers
  (`NatInd`, from `NatMin`, since the library's induction theorems cannot be used);
  the definitions then satisfy the equations they are written with (`NthSteps`,
  `ReadLoopRun`, `WriteLoopRun`).
* *Chains.*  A `Path` is a sequence of different clusters, each linked to the next,
  with an end outside of the volume's clusters.  `NthOnPath` and `ChainOnPath` are what `Nth`
  and `Chain` are then; `Owns` adds that the clusters in use are those of the path and
  those of the other files.
* *Allocation.*  `cluster_alloc_free` takes the free clusters of the lowest `Rank`;
  ranks have no gaps (`RankOnto`), so those taken can be listed in order, which is a
  path (`AllocPath`).  `PathGrows` hangs it behind a file, `FreePath` gives a chain
  back, and `ExpandFile` is `expand_file` as a whole.
* *Loops.*  A piece of a call ends at the end of a cluster, of the call or of the file.
  `Reading` says that what has been read are the next bytes of the file and the
  position is in its cluster; `Writing` that the clusters of the file hold the text
  that was there with the bytes written behind it (`Stored`).  A round keeps each
  (`WriteRoundFacts`), and the expansion before the loop has made the room that it
  needs (`RoomFacts`).  The arithmetic of positions is `QuotRem` and its kin: a position
  is a number of clusters and a remainder, and moves as that pair.
* *The volume.*  `Consistent` gives every slot of the directory a path: the first cluster
  and the size are the writer's while there is one and the entry's otherwise
  (`Keeper`), the path holds the bytes acknowledged, a writer stands at the end of its
  file and a reader has the size and the first cluster of the entry; paths of two slots
  have nothing in common, and a cluster in no path is free.  An operation
  changes one slot (`OneSlot`) and no cluster of another, so the others stay as they
  are (`OneSlotConsistent`).

`FatFsInv` is that together with what `fat_buffer` holds and the last reply.  The
history `full` excepts from `Stored` the files whose writer has met a full disk: its
position may have stayed behind its size.  The proof shows that this costs the contents
only: clusters stay owned and the position agrees with its cluster in such a file too.

Assumptions: `LinkedListAssumption` (the null pointer is no node); `FifoAssumption` (a positive size, some character);
`SchedulerAssumption` and `IpcAssumption` (finite `Task`, `First`
one of them, `Idle` and `NoTask` outside, positive slice and bounds);
`LifecycleAssumption` (the table is a sequence of tasks other than `First`, and
its mutex is a mutex), and `~ ForksOverlap`; `FileTableAssumption`, and
`FdZeroKept` and `ClosesApart`, which the run `file_safety` has too
(`file_close_race` is what happens without the second); `DiskAssumption` and
`TtyAssumption` (a mutex is no semaphore, `NoTask` no task, a partition with a
sector, tasks finite and fewer than the places of the output ring: 129 and 512 in
the kernel, the semaphores created with the counts of `tty_open` and `disk_init`);
`FatFsAssumption` (clusters numbered below `0xFFF7`, the two marks of the directory no
names, and that the bound on sizes admits the file of one cluster that a volume may
begin with), and `Behaved`;
`MemoryAssumption` (six pages and two directory entries for the first program, and
that a heap ends below the page of the stack: `sys_sbrk` does not test it, `MaxHeap`
does);
`SelectorsAssumption`, `HistoryAssumption`, `ConsoleAssumption`, `KeyboardAssumption`
and `ClockAssumption` (a ring with two places, a screen with two rows and columns,
function keys among F1 to F8, registers of two values or more, years from 1970 to 2037:
the seconds of a later year do not fit a `long`).

Only model-checked: `Klib`, which computes over data by recursive operators, out of
TLAPS's reach, and the powers of 2 in `kernel_itoa` with them; all liveness, which
TLAPS does not do under fairness.

## 5. Mutants

A definition whose name ends in `_Suffix` under a comment `MUTANT` is a wrong
version of the definition it is named after.  It is used by no specification;
`PROJECT.json` says which property fails when it replaces the right one.

## 6. Not modelled

* **Boot and loader**, IDT, PIC and timer programming, the GDT's fixed entries:
  they run once, before anything can interleave with them, and set up hardware.
* **The C library** under `libc/`: headers of newlib.  They are most of the lines
  of the repository (about 22 000 of 31 000) and declare what is linked from
  elsewhere; nothing in them is the kernel's logic.
* **Formats**: the ELF headers, the boot record, short names of FAT, `vsprintf`,
  the log, the report of exceptions.
* **The system call gate**: a table lookup.
* **The ports** of the IDE controller and of the screen; `identify_disk` and the
  partition table.
* **Programs**: the shell's commands and their arguments.  What they may do to the
  kernel is the choice the models leave open.
* **Errors of the disk below the file system**: `Disk` has them, and says that the
  call returns fewer sectors; `fatfs.c` does not look at that number, so there is
  nothing the code promises.

## 7. Plan

1. (done) All the modules above, with proofs for `Ipc`, `Fifo` and `LinkedList`.
2. (done) Proofs of `FileTable`: its four properties, under `FdZeroKept` and
   `ClosesApart`.
3. (done) Proofs of `Lifecycle`: its five safety properties, under `~ ForksOverlap`.
4. (done) Proofs of `Disk` and `Tty` over `Sync`: their four safety properties.
5. (done) Proofs of `RoundRobin` and `WakeInOrder` of `Ipc`.
6. (done) Proofs of the device parts: `SelectorsOwned`, `HistoryInOrder`,
   `ShownIsLine`, `ConsoleSound`, `KeysUnderstood`.
7. (done) Proofs of `Memory`: its three invariants and `ChildComplete`.
8. (done) Proofs of `FatFs`: its four invariants, under `Behaved`.
9. (done) Proof of `ClocksAgree` of `Clock`.
10. (open) `AlgorithmsAgree` of `Klib`: its loops would have to be recursive functions
    like `round` of `Clock`, and `2 ^ Bits` is opaque to the provers.
