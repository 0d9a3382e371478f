---------------------------------- MODULE Disk ---------------------------------
(****************************************************************************)
(* The disk driver, kernel/dev/disk.c: disk_read, disk_write and the        *)
(* interrupt handler, over the mutex and the semaphore of Sync.             *)
(*                                                                          *)
(* A call sends one command for several sectors; for each it waits on       *)
(* op_sem, polls the status register and moves the data.  The controller is *)
(* external: it works on its own and interrupts once for each sector.  An   *)
(* interrupt is taken before the next instruction of the task, so raising   *)
(* it and handling it are one step.                                         *)
(****************************************************************************)
EXTENDS Integers, Sequences, Sync

CONSTANTS
  Channel, OpSem,   \* the mutex and the semaphore of all disks
  Start, Total,     \* start_sector and total_sector of the partition
  Data,             \* what a sector can hold
  MaxSize           \* bound: sectors of one transfer

ASSUME DiskAssumption ==
  /\ NoTask \notin Task /\ Mutex \cap Sem = {}
  /\ Channel \in Mutex /\ OpSem \in Sem /\ SemInit \in [Sem -> Nat]
  /\ Start \in Nat /\ Total \in Nat \ {0} /\ MaxSize \in Nat \ {0}

VARIABLES
  ctl,       \* the controller: [status, cmd, at, left]
  platter,   \* what the sectors of the disk hold
  dpc,       \* where each task is in disk_read or disk_write
  req,       \* the arguments of its call: [cmd, addr, size]
  dbuf,      \* its buffer
  dcount,    \* count
  image      \* history: the disk as the calls that returned have left it

inCall == <<dpc, req, dbuf, dcount>>
dvars  == <<svars, ctl, platter, inCall, image>>

Sector  == 0..(Start + Total - 1)
Idle    == [status |-> "ready", cmd |-> "none", at |-> 0, left |-> 0]
NoCall  == [cmd |-> "none", addr |-> 0, size |-> 0]

\* mount has read the first sectors before there is a task: by polling, with
\* interrupts disabled.  The last interrupt may be pending still, and task_on_op
\* is set: op_sem may have a token that belongs to no command to come.
SyncMounted ==
  /\ holder  = [m \in Mutex |-> NoTask]
  /\ depth   = [m \in Mutex |-> 0]
  /\ waiting = [q \in Mutex \cup Sem |-> {}]
  /\ \E stale \in {0, 1} :
       tokens = [s \in Sem |-> IF s = OpSem THEN stale ELSE SemInit[s]]

DiskIdle ==
  /\ ctl = Idle
  /\ \E d \in Data : platter = [s \in Sector |-> d]
  /\ image = platter
  /\ dpc = [t \in Task |-> "user"]
  /\ req = [t \in Task |-> NoCall]
  /\ dbuf = [t \in Task |-> <<>>]
  /\ dcount = [t \in Task |-> 0]

DiskInit == SyncMounted /\ DiskIdle

-----------------------------------------------------------------------------
At(t, a, b) ==
  /\ Free(t)
  /\ dpc[t] = a
  /\ dpc' = [dpc EXCEPT ![t] = b]

\* disk_read or disk_write is called.
CallDisk(t) ==
  /\ At(t, "user", "lock")
  /\ UNCHANGED <<svars, ctl, platter, req, dbuf, dcount, image>>

LockChannel(t) ==
  /\ At(t, "lock", "send")
  /\ Enter(t, Channel) \/ AwaitMutex(t, Channel)
  /\ UNCHANGED <<ctl, platter, req, dbuf, dcount, image>>

\* MUTANT of Lba: the address is not relative to the partition.
Lba_Absolute(addr) == addr

Lba(addr) == Start + addr

\* The command, and with it the arguments of the call, which nobody has looked
\* at so far: inside the partition, for disk_read and disk_write do not compare
\* addr with total_sector.  A read starts to work; a write asks for the first
\* sector at once, and disk_write relies on that: it sends it unasked.
disk_send_cmd(t) ==
  /\ At(t, "send", "loop")
  /\ \E cmd \in {"read", "write"}, addr \in 0..(Total - 1), size \in 1..MaxSize :
       /\ addr + size <= Total
       /\ req' = [req EXCEPT ![t] = [cmd |-> cmd, addr |-> addr, size |-> size]]
       /\ ctl' = [status |-> IF cmd = "read" THEN "busy" ELSE "drq",
                  cmd |-> cmd, at |-> Lba(addr), left |-> size]
       /\ IF cmd = "read" THEN UNCHANGED dbuf
          ELSE \E d \in [1..size -> Data] : dbuf' = [dbuf EXCEPT ![t] = d]
  /\ UNCHANGED <<svars, platter, dcount, image>>

\* The loop over the sectors: a write sends the data before it waits.  A
\* sector sent is in the controller's buffer, which is dbuf here, until the
\* controller has stored it.
Loop(t) ==
  /\ \/ dcount[t] < req[t].size /\ At(t, "loop", "wait")
     \/ dcount[t] = req[t].size /\ At(t, "loop", "unlock")
  /\ ctl' = IF req[t].cmd = "write" /\ ctl.status = "drq" /\ dpc'[t] = "wait"
            THEN [ctl EXCEPT !.status = "busy"] ELSE ctl
  /\ UNCHANGED <<svars, platter, req, dbuf, dcount, image>>

\* if (task_current()) sem_wait(disk->op_sem): every caller here is a task.
WaitIrq(t) ==
  /\ At(t, "wait", "poll")
  /\ Take(t, OpSem) \/ AwaitToken(t, OpSem)
  /\ UNCHANGED <<ctl, platter, req, dbuf, dcount, image>>

\* MUTANT of Polled: the interrupt is trusted, the status is not polled.
Polled_Trusting == TRUE

\* disk_wait_data has seen something else than "busy".
Polled == ctl.status # "busy"

\* disk_wait_data, and disk_read_datas of one sector: if the controller does
\* not offer one the port gives anything.
Transfer(t) ==
  /\ Polled
  /\ ctl.status # "error"
  /\ At(t, "poll", "loop")
  /\ dcount' = [dcount EXCEPT ![t] = @ + 1]
  /\ IF req[t].cmd = "write" THEN UNCHANGED <<ctl, dbuf>>
     ELSE /\ \E d \in Data :
               /\ ctl.status = "drq" => d = platter[ctl.at]
               /\ dbuf' = [dbuf EXCEPT ![t] = Append(@, d)]
          /\ ctl' = IF ctl.status # "drq" THEN ctl
                    ELSE IF ctl.left = 1 THEN Idle
                    ELSE [ctl EXCEPT !.status = "busy", !.at = @ + 1, !.left = @ - 1]
  /\ UNCHANGED <<svars, platter, req, image>>

\* MUTANT of TransferFails: the loop is not left.
TransferFails_Again(t) ==
  /\ ctl.status = "error"
  /\ At(t, "poll", "poll")
  /\ UNCHANGED <<svars, ctl, platter, req, dbuf, dcount, image>>

\* disk_wait_data returns -1, and the loop ends.
TransferFails(t) ==
  /\ ctl.status = "error"
  /\ At(t, "poll", "unlock")
  /\ UNCHANGED <<svars, ctl, platter, req, dbuf, dcount, image>>

\* The call returns count; what it has moved is in image.
UnlockChannel(t) ==
  /\ At(t, "unlock", "user")
  /\ Leave(t, Channel)
  /\ image' = IF req[t].cmd = "read" THEN image
              ELSE [s \in Sector |->
                      LET i == s - Start - req[t].addr + 1
                      IN IF i \in 1..dcount[t] THEN dbuf[t][i] ELSE image[s]]
  /\ req' = [req EXCEPT ![t] = NoCall]
  /\ dbuf' = [dbuf EXCEPT ![t] = <<>>]
  /\ dcount' = [dcount EXCEPT ![t] = 0]
  /\ UNCHANGED <<ctl, platter>>

-----------------------------------------------------------------------------
\* task_on_op was set by mount and is never reset.
do_handle_ide_primary == Post(OpSem)

\* The controller has read a sector, or stored one, or given up the command.
Controller ==
  /\ ctl.status = "busy"
  /\ \/ /\ ctl' = [ctl EXCEPT !.status = "error", !.left = 0]
        /\ UNCHANGED platter
     \/ /\ ctl.cmd = "read"
        /\ ctl' = [ctl EXCEPT !.status = "drq"]
        /\ UNCHANGED platter
     \/ /\ ctl.cmd = "write"
        /\ \E t \in Task :
             /\ holder[Channel] = t
             /\ platter' = [platter EXCEPT ![ctl.at] = dbuf[t][dcount[t] + 1]]
        /\ ctl' = IF ctl.left = 1 THEN Idle
                  ELSE [ctl EXCEPT !.status = "drq", !.at = @ + 1, !.left = @ - 1]
  /\ do_handle_ide_primary
  /\ UNCHANGED <<inCall, image>>

DiskStep(t) == \/ LockChannel(t) \/ disk_send_cmd(t) \/ Loop(t) \/ WaitIrq(t)
               \/ Transfer(t) \/ TransferFails(t) \/ UnlockChannel(t)

DiskNext == (\E t \in Task : CallDisk(t) \/ DiskStep(t)) \/ Controller

DiskSpec == DiskInit /\ [][DiskNext]_dvars

\* The controller answers, and a task that can go on does.  (Of two tasks only
\* one can wait for the channel.)
DiskFairness == WF_dvars(Controller) /\ \A t \in Task : WF_dvars(DiskStep(t))

DiskFairSpec == DiskSpec /\ DiskFairness

-----------------------------------------------------------------------------
InTransfer == {"send", "loop", "wait", "poll", "unlock"}

\* The tasks that have the channel, and the sectors a call has moved.
Using == {t \in Task : dpc[t] \in InTransfer /\ t \notin waiting[Channel]}
Moved(t) == [i \in 1..dcount[t] |-> platter[Start + req[t].addr + i - 1]]

\* Whatever tokens are left over from earlier interrupts, one call has the
\* controller at a time, op_sem never has more than the stale token and the one
\* of the sector that is ready, a call returns with exactly the sectors it has
\* moved, at their places in the partition, and has changed no other: the poll
\* makes up for the interrupt that was not waited for.
TransfersExact ==
  /\ \A t, u \in Using : t = u
  /\ Using = {} => ctl.status # "busy"
  /\ tokens[OpSem] <= 2
  /\ \A t \in Using : dcount[t] <= req[t].size /\ SubSeq(dbuf[t], 1, dcount[t]) = Moved(t)
  /\ Using = {} => platter = image
=============================================================================
