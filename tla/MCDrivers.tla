-------------------------------- MODULE MCDrivers ------------------------------
(****************************************************************************)
(* Small instances of the terminal, its rings and the disk for TLC, in one  *)
(* run: part is the one that moves, the others rest in one initial state.   *)
(* Tty and Disk use the same semaphores and mutexes.                        *)
(****************************************************************************)
EXTENDS Tty, Fifo, Disk

CONSTANT Watched  \* tasks are interchangeable: it is enough to follow one

VARIABLE part

ttyown  == <<outs, ins, pc, ch>>
diskown == <<ctl, platter, inCall, image>>
vars    == <<part, svars, ttyown, diskown, fifo>>

\* Initial counts of the semaphores.
Counts == [s \in Sem |-> IF s = OSem THEN OSize ELSE 0]

DriversInit ==
  /\ part \in {"tty", "disk", "fifo"}
  /\ IF part = "disk" THEN SyncMounted ELSE SyncInit
  /\ TtyEmpty /\ DiskIdle /\ FifoInit
  /\ part # "fifo" =>
       LET c == CHOOSE c \in Char : TRUE IN out = c /\ buf = [i \in Index |-> c]
  /\ part # "disk" =>
       LET d == CHOOSE d \in Data : TRUE IN platter = [s \in Sector |-> d]

DriversNext ==
  /\ UNCHANGED part
  /\ \/ part = "tty"  /\ TtyNext  /\ UNCHANGED <<diskown, fifo>>
     \/ part = "disk" /\ DiskNext /\ UNCHANGED <<ttyown, fifo>>
     \/ part = "fifo" /\ FifoNext /\ UNCHANGED <<svars, ttyown, diskown>>

\* TtyFairness and DiskFairness: in the other parts these steps are disabled.
DriversSpec ==
  /\ DriversInit /\ [][DriversNext]_vars
  /\ WF_dvars(part = "disk" /\ Controller)
  /\ \A t \in Task : /\ WF_tvars(part = "tty" /\ InWrite(t))
                    /\ WF_dvars(part = "disk" /\ DiskStep(t))

\* A call of tty_write, the echo of tty_read included, returns with all its
\* characters displayed, though other writers keep the ring full and the drain
\* going; and a call of disk_read or disk_write returns, whether the disk works
\* or not, and however many interrupts were counted before.
CallsReturn ==
  \A t \in Watched : pc[t] = "write" \/ dpc[t] = "lock" ~> pc[t] \notin Writing /\ dpc[t] = "user"
=============================================================================
