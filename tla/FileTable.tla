------------------------------- MODULE FileTable -------------------------------
(****************************************************************************)
(* The table of open files and its reference counts: kernel/fs/file.c, the  *)
(* calls of kernel/fs/fs.c that work on descriptors, what sys_fork and      *)
(* sys_exit do to the files of a process, and the open counts of devices:   *)
(* kernel/dev/dev.c, which kernel/fs/devfs/devfs.c opens and closes.        *)
(*                                                                          *)
(* System calls run with interrupts enabled, so the steps of different      *)
(* processes interleave; the mutexes are those of Sync, which the kernel's  *)
(* mutexes implement (Ipc!ImplementsSync).  Data that only the calling      *)
(* process can reach, and what a mutex protects, changes in one step.       *)
(* sys_close decrements file_t.ref outside the mutex, which is a load and a *)
(* store.                                                                   *)
(****************************************************************************)
EXTENDS Integers, FiniteSets, Sync

CONSTANTS
  NrFile,         \* FILE_TABLE_SIZE
  NrFd,           \* TASK_OFILE_NR
  FirstTask,      \* the process that runs at the start
  NoFile,         \* the null file_t pointer
  Dev,            \* the terminals that dev_open knows
  AllocMutex,     \* file_alloc_mutex
  FatMutex,       \* the mutex of the FAT file system; devfs has none
  FdZeroKept,     \* assumption: programs keep descriptor 0, see below
  ClosesApart     \* assumption: a close meets no conflicting call, see below

File == 0..(NrFile - 1)
Fd   == 0..(NrFd - 1)

ASSUME FileTableAssumption ==
  /\ NrFile \in Nat \ {0} /\ NrFd \in Nat \ {0}
  /\ IsFiniteSet(Task) /\ FirstTask \in Task
  /\ NoTask \notin Task
  /\ NoFile \notin File
  /\ Mutex = {AllocMutex, FatMutex} /\ AllocMutex # FatMutex
  /\ FdZeroKept \in BOOLEAN /\ ClosesApart \in BOOLEAN

VARIABLES
  ref,      \* file_t.ref of each slot of file_table
  on,       \* what each file is on: Fat, or a device under devfs
  openCount,  \* device_t.open_count of each device, 0 if it has no entry
  opened,   \* the files open in their file system (op->open, no op->close yet)
  fds,      \* task_t.file_table of each process
  pc,       \* where each process is
  file,     \* p_file or file: the slot its call works on
  fd,       \* the descriptor its call works on
  loaded,   \* the value of ref that sys_close has read
  exiting,  \* whether the sys_close is called from sys_exit
  kid       \* the process that a sys_fork makes

table == <<ref, on, openCount, opened, fds>>
calls == <<pc, file, fd, loaded, exiting, kid>>
fvars == <<svars, table, calls>>

NoFd == -1   \* task_alloc_fd has found no free descriptor

Fat   == "fat"     \* fs is the FAT file system
NoDev == "no dev"  \* fs is devfs and dev_id no device: dev_open has failed
Null  == "null"    \* fs is the null pointer

FileTableInit ==
  /\ SyncInit
  /\ ref     = [f \in File |-> 0]
  /\ on      = [f \in File |-> Null]
  /\ openCount = [d \in Dev |-> 0]
  /\ opened  = {}
  /\ fds     = [t \in Task |-> [i \in Fd |-> NoFile]]
  /\ pc      = [t \in Task |-> IF t = FirstTask THEN "user" ELSE "none"]
  /\ file    = [t \in Task |-> NoFile]
  /\ fd      = [t \in Task |-> NoFd]
  /\ loaded  = [t \in Task |-> 0]
  /\ exiting = [t \in Task |-> FALSE]
  /\ kid     = [t \in Task |-> NoTask]

-----------------------------------------------------------------------------
Goto(t, a, b) ==
  /\ Free(t)
  /\ pc[t] = a
  /\ pc' = [pc EXCEPT ![t] = b]

\* The call of t returns: its local variables are gone.
Returns(t) ==
  /\ file' = [file EXCEPT ![t] = NoFile]
  /\ fd' = [fd EXCEPT ![t] = NoFd]
  /\ loaded' = [loaded EXCEPT ![t] = 0]

mutex_lock(t, m) == Enter(t, m) \/ AwaitMutex(t, m)
mutex_unlock(t, m) == Leave(t, m)

fs_protect(t, fs)   == IF fs = Fat THEN mutex_lock(t, FatMutex) ELSE UNCHANGED svars
fs_unprotect(t, fs) == IF fs = Fat THEN mutex_unlock(t, FatMutex) ELSE UNCHANGED svars

Least(S) == CHOOSE x \in S : \A y \in S : x <= y

FreeFds(t) == {i \in Fd : fds[t][i] = NoFile}

\* task_alloc_fd
AllocFd(t) == IF FreeFds(t) = {} THEN NoFd ELSE Least(FreeFds(t))

\* MUTANT of RemoveFd: nothing is removed.
RemoveFd_Kept(t, i) == UNCHANGED fds

\* task_remove_fd: it compares fd > 0.
RemoveFd(t, i) ==
  fds' = IF i > 0 THEN [fds EXCEPT ![t][i] = NoFile] ELSE fds

\* MUTANT of DropRef: the count is not compared with zero.
DropRef_Always(f) == ref' = [ref EXCEPT ![f] = @ - 1]

\* The body of file_free.
DropRef(f) == ref' = [ref EXCEPT ![f] = IF @ # 0 THEN @ - 1 ELSE @]

\* Two assumptions on the programs.  FdZeroKept: descriptor 0 is the terminal
\* a process has opened first or inherited; opening it succeeds, and only exit
\* closes it.
\* ClosesApart: while a process is in sys_close no other closes, duplicates or
\* forks the same file, and none opens a file during the close that is a
\* file's last one.
InOpen(t)  == pc[t] \in {"open_alloc", "open_fd", "open_fs", "open_op",
                         "open_free", "open_freed"}
InClose(t) == pc[t] \in {"close_store", "close_fs", "close_op", "close_free",
                         "close_freed"}
Raises(t, f) == \/ pc[t] \in {"dup_lock", "dup_inc"} /\ file[t] = f
                \/ /\ pc[t] \in {"fork_file", "fork_inc"}
                   /\ \E i \in Fd : fds[t][i] = f

MayOpen(t) ==
  ClosesApart => \A u \in Task \ {t} : ~ (InClose(u) /\ loaded[u] = 1)
MayRaise(t, f) ==
  ClosesApart => \A u \in Task \ {t} : ~ (InClose(u) /\ file[u] = f)
MayClose(t, f) ==
  /\ MayRaise(t, f)
  /\ ClosesApart => \A u \in Task \ {t} :
       ~ Raises(u, f) /\ (ref[f] = 1 => ~ InOpen(u))

-----------------------------------------------------------------------------
\* sys_open

OpenLock(t) ==
  /\ Goto(t, "user", "open_alloc")
  /\ MayOpen(t)
  /\ mutex_lock(t, AllocMutex)
  /\ UNCHANGED <<table, file, fd, loaded, exiting, kid>>

OpenAlloc(t) ==
  LET free == {f \in File : ref[f] = 0} IN
  /\ IF free = {}
     THEN /\ Goto(t, "open_alloc", "user")
          /\ UNCHANGED <<ref, on>>
          /\ Returns(t)
     ELSE /\ Goto(t, "open_alloc", "open_fd")
          /\ ref' = [ref EXCEPT ![Least(free)] = 1]
          /\ on' = [on EXCEPT ![Least(free)] = Null]
          /\ file' = [file EXCEPT ![t] = Least(free)]
          /\ UNCHANGED <<fd, loaded>>
  /\ mutex_unlock(t, AllocMutex)
  /\ UNCHANGED <<openCount, opened, fds, exiting, kid>>

OpenFd(t) ==
  /\ Goto(t, "open_fd", IF AllocFd(t) = NoFd THEN "open_free" ELSE "open_fs")
  /\ fd' = [fd EXCEPT ![t] = AllocFd(t)]
  /\ fds' = IF AllocFd(t) = NoFd THEN fds
            ELSE [fds EXCEPT ![t][AllocFd(t)] = file[t]]
  /\ UNCHANGED <<svars, ref, on, openCount, opened, file, loaded, exiting, kid>>

\* The path names a file of one of the two mounted file systems: of the FAT
\* file system, a terminal, or another name under /dev.
OpenFs(t) ==
  \E place \in {Fat, NoDev} \cup Dev :
    /\ Goto(t, "open_fs", "open_op")
    /\ ref' = [ref EXCEPT ![file[t]] = 1]
    /\ on' = [on EXCEPT ![file[t]] = place]
    /\ fs_protect(t, place)
    /\ UNCHANGED <<openCount, opened, fds, file, fd, loaded, exiting, kid>>

\* MUTANT of dev_open: the device that is open already is not counted again.
dev_open_Once(d) == openCount' = [openCount EXCEPT ![d] = 1]

\* dev_open, in a protected region: the entry of an open device is used again,
\* one that is not open gets a free entry and is opened.
dev_open(d) == openCount' = [openCount EXCEPT ![d] = @ + 1]

\* dev_close: at zero the device is closed and its entry cleared.
dev_close(d) == openCount' = [openCount EXCEPT ![d] = @ - 1]

\* fatfs_open, or devfs_open.
OpenOk(t) ==
  LET place == on[file[t]]
  IN  /\ Goto(t, "open_op", "user")
      /\ opened' = opened \cup {file[t]}
      /\ IF place \in Dev THEN dev_open(place) ELSE UNCHANGED openCount
      /\ fs_unprotect(t, place)
      /\ Returns(t)
      /\ UNCHANGED <<ref, on, fds, exiting, kid>>

\* devfs_open never reports a failure.
OpenFails(t) ==
  /\ Goto(t, "open_op", "open_free")
  /\ on[file[t]] = Fat
  /\ FdZeroKept => fd[t] # 0
  /\ fs_unprotect(t, Fat)
  /\ UNCHANGED <<table, file, fd, loaded, exiting, kid>>

OpenFree(t) ==
  /\ Goto(t, "open_free", "open_freed")
  /\ mutex_lock(t, AllocMutex)
  /\ UNCHANGED <<table, file, fd, loaded, exiting, kid>>

OpenFreed(t) ==
  /\ Goto(t, "open_freed", "open_remove")
  /\ DropRef(file[t])
  /\ mutex_unlock(t, AllocMutex)
  /\ UNCHANGED <<on, openCount, opened, fds, file, fd, loaded, exiting, kid>>

OpenRemove(t) ==
  /\ Goto(t, "open_remove", "user")
  /\ RemoveFd(t, fd[t])
  /\ Returns(t)
  /\ UNCHANGED <<svars, ref, on, openCount, opened, exiting, kid>>

-----------------------------------------------------------------------------
\* sys_close: of a descriptor the program chooses, or of every descriptor in
\* turn when the process exits.

CloseFd(t, i) ==
  /\ fds[t][i] # NoFile
  /\ MayClose(t, fds[t][i])
  /\ file' = [file EXCEPT ![t] = fds[t][i]]
  /\ fd' = [fd EXCEPT ![t] = i]
  /\ loaded' = [loaded EXCEPT ![t] = ref[fds[t][i]]]
  /\ UNCHANGED <<svars, table, exiting, kid>>

CloseLoad(t) ==
  /\ Goto(t, "user", "close_store")
  /\ \E i \in Fd : (FdZeroKept => i # 0) /\ CloseFd(t, i)

ExitLoad(t) ==
  /\ Goto(t, "exit", "close_store")
  /\ Fd # FreeFds(t)
  /\ CloseFd(t, Least(Fd \ FreeFds(t)))

\* MUTANTS of CloseStore: the decremented value is compared; every close is
\* taken for the last.
CloseStore_OffByOne(t) ==
  /\ Goto(t, "close_store", IF loaded[t] - 1 = 1 THEN "close_fs" ELSE "close_remove")
  /\ ref' = [ref EXCEPT ![file[t]] = loaded[t] - 1]
  /\ UNCHANGED <<svars, on, openCount, opened, fds, file, fd, loaded, exiting, kid>>
CloseStore_Always(t) ==
  /\ Goto(t, "close_store", "close_fs")
  /\ ref' = [ref EXCEPT ![file[t]] = loaded[t] - 1]
  /\ UNCHANGED <<svars, on, openCount, opened, fds, file, fd, loaded, exiting, kid>>

CloseStore(t) ==
  /\ Goto(t, "close_store", IF loaded[t] = 1 THEN "close_fs" ELSE "close_remove")
  /\ ref' = [ref EXCEPT ![file[t]] = loaded[t] - 1]
  /\ UNCHANGED <<svars, on, openCount, opened, fds, file, fd, loaded, exiting, kid>>

CloseFs(t) ==
  /\ Goto(t, "close_fs", "close_op")
  /\ fs_protect(t, on[file[t]])
  /\ UNCHANGED <<table, file, fd, loaded, exiting, kid>>

\* fatfs_close, or devfs_close.
CloseOp(t) ==
  LET place == on[file[t]]
  IN  /\ Goto(t, "close_op", "close_free")
      /\ opened' = opened \ {file[t]}
      /\ IF place \in Dev THEN dev_close(place) ELSE UNCHANGED openCount
      /\ fs_unprotect(t, place)
      /\ UNCHANGED <<ref, on, fds, file, fd, loaded, exiting, kid>>

CloseFree(t) ==
  /\ Goto(t, "close_free", "close_freed")
  /\ mutex_lock(t, AllocMutex)
  /\ UNCHANGED <<table, file, fd, loaded, exiting, kid>>

CloseFreed(t) ==
  /\ Goto(t, "close_freed", "close_remove")
  /\ DropRef(file[t])
  /\ mutex_unlock(t, AllocMutex)
  /\ UNCHANGED <<on, openCount, opened, fds, file, fd, loaded, exiting, kid>>

\* sys_exit clears the descriptor itself, descriptor 0 too.
CloseRemove(t) ==
  /\ Goto(t, "close_remove", IF exiting[t] THEN "exit" ELSE "user")
  /\ IF exiting[t] THEN fds' = [fds EXCEPT ![t][fd[t]] = NoFile]
                   ELSE RemoveFd(t, fd[t])
  /\ Returns(t)
  /\ UNCHANGED <<svars, ref, on, openCount, opened, exiting, kid>>

\* first_task is a loop and does not exit.
ExitStart(t) ==
  /\ t # FirstTask
  /\ Goto(t, "user", "exit")
  /\ exiting' = [exiting EXCEPT ![t] = TRUE]
  /\ UNCHANGED <<svars, table, file, fd, loaded, kid>>

ExitEnd(t) ==
  /\ Goto(t, "exit", "none")
  /\ FreeFds(t) = Fd
  /\ exiting' = [exiting EXCEPT ![t] = FALSE]
  /\ UNCHANGED <<svars, table, file, fd, loaded, kid>>

-----------------------------------------------------------------------------
\* sys_read, sys_write, sys_lseek and sys_ioctl: the file is looked up and its
\* file system called with the mutex.

UseStart(t) ==
  \E i \in Fd \ FreeFds(t) :
    /\ Goto(t, "user", "use_op")
    /\ file' = [file EXCEPT ![t] = fds[t][i]]
    /\ fs_protect(t, on[fds[t][i]])
    /\ UNCHANGED <<table, fd, loaded, exiting, kid>>

UseEnd(t) ==
  /\ Goto(t, "use_op", "user")
  /\ fs_unprotect(t, on[file[t]])
  /\ Returns(t)
  /\ UNCHANGED <<table, exiting, kid>>

-----------------------------------------------------------------------------
\* sys_dup: the new descriptor is there before the count is raised.

DupFd(t) ==
  \E i \in Fd :
    /\ fds[t][i] # NoFile
    /\ AllocFd(t) # NoFd
    /\ MayRaise(t, fds[t][i])
    /\ Goto(t, "user", "dup_lock")
    /\ fds' = [fds EXCEPT ![t][AllocFd(t)] = fds[t][i]]
    /\ file' = [file EXCEPT ![t] = fds[t][i]]
    /\ UNCHANGED <<svars, ref, on, openCount, opened, fd, loaded, exiting, kid>>

DupLock(t) ==
  /\ Goto(t, "dup_lock", "dup_inc")
  /\ mutex_lock(t, AllocMutex)
  /\ UNCHANGED <<table, file, fd, loaded, exiting, kid>>

\* MUTANT of DupInc: the count is not raised.
DupInc_Uncounted(t) ==
  /\ Goto(t, "dup_inc", "user")
  /\ mutex_unlock(t, AllocMutex)
  /\ Returns(t)
  /\ UNCHANGED <<ref, on, openCount, opened, fds, exiting, kid>>

DupInc(t) ==
  /\ Goto(t, "dup_inc", "user")
  /\ ref' = [ref EXCEPT ![file[t]] = @ + 1]
  /\ mutex_unlock(t, AllocMutex)
  /\ Returns(t)
  /\ UNCHANGED <<on, openCount, opened, fds, exiting, kid>>

-----------------------------------------------------------------------------
\* sys_fork: copy_opened_files visits the descriptors in order; fd is the
\* next one, and file_inc_ref comes before the child's entry.

ForkStart(t) ==
  \E u \in Task :
    /\ pc[u] = "none"
    /\ \A w \in Task : kid[w] # u
    /\ \A i \in Fd \ FreeFds(t) : MayRaise(t, fds[t][i])
    /\ Goto(t, "user", "fork_file")
    /\ kid' = [kid EXCEPT ![t] = u]
    /\ fd' = [fd EXCEPT ![t] = 0]
    /\ UNCHANGED <<svars, table, file, loaded, exiting>>

ForkSkip(t) ==
  /\ Goto(t, "fork_file", "fork_file")
  /\ fd[t] < NrFd
  /\ fds[t][fd[t]] = NoFile
  /\ fd' = [fd EXCEPT ![t] = @ + 1]
  /\ UNCHANGED <<svars, table, file, loaded, exiting, kid>>

ForkLock(t) ==
  /\ Goto(t, "fork_file", "fork_inc")
  /\ fd[t] < NrFd
  /\ fds[t][fd[t]] # NoFile
  /\ mutex_lock(t, AllocMutex)
  /\ UNCHANGED <<table, file, fd, loaded, exiting, kid>>

\* MUTANT of ForkInc: the count is not raised.
ForkInc_Uncounted(t) ==
  /\ Goto(t, "fork_inc", "fork_file")
  /\ fds' = [fds EXCEPT ![kid[t]][fd[t]] = fds[t][fd[t]]]
  /\ fd' = [fd EXCEPT ![t] = @ + 1]
  /\ mutex_unlock(t, AllocMutex)
  /\ UNCHANGED <<ref, on, openCount, opened, file, loaded, exiting, kid>>

ForkInc(t) ==
  /\ Goto(t, "fork_inc", "fork_file")
  /\ ref' = [ref EXCEPT ![fds[t][fd[t]]] = @ + 1]
  /\ fds' = [fds EXCEPT ![kid[t]][fd[t]] = fds[t][fd[t]]]
  /\ fd' = [fd EXCEPT ![t] = @ + 1]
  /\ mutex_unlock(t, AllocMutex)
  /\ UNCHANGED <<on, openCount, opened, file, loaded, exiting, kid>>

ForkEnd(t) ==
  /\ Free(t)
  /\ pc[t] = "fork_file"
  /\ fd[t] = NrFd
  /\ pc' = [pc EXCEPT ![t] = "user", ![kid[t]] = "user"]
  /\ kid' = [kid EXCEPT ![t] = NoTask]
  /\ fd' = [fd EXCEPT ![t] = NoFd]
  /\ UNCHANGED <<svars, table, file, loaded, exiting>>

-----------------------------------------------------------------------------
Open(t)  == \/ OpenLock(t) \/ OpenAlloc(t) \/ OpenFd(t) \/ OpenFs(t)
            \/ OpenOk(t) \/ OpenFails(t) \/ OpenFree(t) \/ OpenFreed(t)
            \/ OpenRemove(t)
Close(t) == \/ CloseLoad(t) \/ CloseStore(t) \/ CloseFs(t) \/ CloseOp(t)
            \/ CloseFree(t) \/ CloseFreed(t) \/ CloseRemove(t)
Exit(t)  == ExitStart(t) \/ ExitLoad(t) \/ ExitEnd(t)
Use(t)   == UseStart(t) \/ UseEnd(t)
Dup(t)   == DupFd(t) \/ DupLock(t) \/ DupInc(t)
Fork(t)  == ForkStart(t) \/ ForkSkip(t) \/ ForkLock(t) \/ ForkInc(t) \/ ForkEnd(t)

FileTableNext ==
  \E t \in Task : Open(t) \/ Close(t) \/ Use(t) \/ Exit(t) \/ Dup(t) \/ Fork(t)

FileTableSpec == FileTableInit /\ [][FileTableNext]_fvars

-----------------------------------------------------------------------------
Labels == {"none", "user", "exit"} \cup
          {"open_alloc", "open_fd", "open_fs", "open_op", "open_free",
           "open_freed", "open_remove"} \cup
          {"close_store", "close_fs", "close_op", "close_free", "close_freed",
           "close_remove"} \cup
          {"use_op", "dup_lock", "dup_inc", "fork_file", "fork_inc"}

\* Every variable has its type.
FileTableTypeOK ==
  /\ ref \in [File -> Nat]
  /\ on \in [File -> {Fat, NoDev, Null} \cup Dev]
  /\ openCount \in [Dev -> Nat]
  /\ opened \subseteq File
  /\ fds \in [Task -> [Fd -> File \cup {NoFile}]]
  /\ pc \in [Task -> Labels]
  /\ file \in [Task -> File \cup {NoFile}]
  /\ fd \in [Task -> {NoFd} \cup 0..NrFd]
  /\ loaded \in [Task -> Nat]
  /\ exiting \in [Task -> BOOLEAN]
  /\ kid \in [Task -> Task \cup {NoTask}]

Quiet == \A t \in Task : pc[t] \in {"none", "user", "exit"}

\* The descriptors that refer to f, in all processes.
RefersTo(f) == {p \in Task \X Fd : fds[p[1]][p[2]] = f}

\* file.h: ref is how many times the file is opened.  When no call is under
\* way it is the number of descriptors that refer to the file.
RefIsOpenCount == Quiet => \A f \in File : ref[f] = Cardinality(RefersTo(f))

\* A descriptor that no call is working on refers to a file that is open: its
\* slot cannot be given to another file.
NoDanglingFd ==
  \A t \in Task : pc[t] = "user" =>
    \A i \in Fd : fds[t][i] # NoFile => ref[fds[t][i]] > 0 /\ fds[t][i] \in opened

\* A slot that sys_open could take is closed in its file system, unless its
\* last sys_close is on the way to do it: no open file is forgotten.
FreeSlotClosed ==
  \A f \in File : (ref[f] = 0 /\ f \in opened) =>
    \E t \in Task : pc[t] \in {"close_fs", "close_op"} /\ file[t] = f

\* No call works on a file that another process has closed.
UsedIsOpen == \A t \in Task : pc[t] = "use_op" => file[t] \in opened

\* A device is open, and its driver set up, while a file on it is open.
DevicesCounted ==
  \A d \in Dev : openCount[d] = Cardinality({f \in opened : on[f] = d})

\* Slots, file systems, devices and descriptors agree about which files are
\* open, at every point of every call.
SlotsAgree == NoDanglingFd /\ FreeSlotClosed /\ UsedIsOpen /\ DevicesCounted

CloseAssertion == \A t \in Task : pc[t] = "close_store" => loaded[t] > 0

\* No count ever falls below zero, and the assertion of sys_close holds: the
\* decrement, outside the mutex, never starts from a zero that another close
\* has left.
RefNeverBelowZero == FileTableTypeOK /\ CloseAssertion

\* A file is closed in its file system when every descriptor that still refers
\* to it is one that its process is removing.
ClosedByLast ==
  [][\A f \in opened \ opened' :
       \A p \in RefersTo(f) :
         /\ pc[p[1]] \in {"close_op", "close_remove", "open_remove"}
         /\ fd[p[1]] = p[2]]_fvars
=============================================================================
