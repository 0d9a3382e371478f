------------------------------ MODULE DriverProofs ------------------------------
(****************************************************************************)
(* The safety properties of the disk driver, for any processes, any         *)
(* partition and any size of a transfer, and of the terminal, for any       *)
(* processes, any two sizes of ring and any length of a line.  At the end,  *)
(* that each ring of a terminal is a bounded queue.                         *)
(*                                                                          *)
(* The drivers use the mutexes and semaphores of Sync, which Ipc implements *)
(* (IpcProofs).  The first part says what each operation of Sync does       *)
(* to a client that never enters a mutex it is in.                          *)
(****************************************************************************)
EXTENDS Tty, Disk, Fifo, SequenceTheorems, FiniteSetTheorems, TLAPS

SyncTypes ==
  /\ holder \in [Mutex -> Task \cup {NoTask}]
  /\ depth \in [Mutex -> Nat]
  /\ tokens \in [Sem -> Nat]
  /\ waiting \in [Mutex \cup Sem -> SUBSET Task]

\* A task waits for one thing, and not for a mutex that is free or its own.
SyncOK ==
  /\ SyncTypes
  /\ \A q, r \in Mutex \cup Sem : q # r => waiting[q] \cap waiting[r] = {}
  /\ \A m \in Mutex :
       /\ holder[m] = NoTask => waiting[m] = {}
       /\ holder[m] \notin waiting[m]
       /\ depth[m] = IF holder[m] = NoTask THEN 0 ELSE 1

\* The other mutexes and semaphores than q are left alone.
Apart(q) ==
  /\ \A m \in Mutex \ {q} : holder'[m] = holder[m] /\ depth'[m] = depth[m]
  /\ \A s \in Sem \ {q} : tokens'[s] = tokens[s]
  /\ \A r \in (Mutex \cup Sem) \ {q} : waiting'[r] = waiting[r]

(* The sector of a transfer is in the partition.                            *)
LEMMA SectorInside ==
  ASSUME NEW s \in Nat, NEW total \in Nat, NEW a \in Nat, NEW i \in Nat,
         1 <= i, a + i <= total
  PROVE  s + a + i - 1 \in 0..(s + total - 1)
OBVIOUS

(* A place just emptied becomes a token, or room for the writer let through. *)
LEMMA PlaceMoved ==
  ASSUME NEW w \in Nat, NEW l \in Nat, NEW r \in Nat, NEW e \in Nat
  PROVE  /\ (w + 1) + l + r + (e - 1) = w + l + r + e
         /\ w + l + (r + 1) + (e - 1) = w + l + r + e
OBVIOUS

(* A task that is not inside enters a mutex, or waits for it.               *)
LEMMA LockEffect ==
  ASSUME SyncOK, NEW t \in Task, NEW m \in Mutex, holder[m] # t,
         Enter(t, m) \/ AwaitMutex(t, m)
  PROVE  /\ SyncOK' /\ Apart(m) /\ Free(t)
         /\ \/ /\ holder[m] = NoTask /\ holder'[m] = t
               /\ waiting[m] = {} /\ waiting'[m] = {}
            \/ /\ holder[m] \in Task /\ holder'[m] = holder[m]
               /\ waiting'[m] = waiting[m] \cup {t}
<1>1. NoTask \notin Task /\ m \notin Sem
  BY DiskAssumption
<1>2. SyncTypes /\ Free(t)
  BY DEF SyncOK, Enter, AwaitMutex
<1>3. CASE Enter(t, m)
  <2>1. /\ holder[m] = NoTask /\ depth[m] = 0 /\ waiting[m] = {}
        /\ holder' = [holder EXCEPT ![m] = t]
        /\ depth' = [depth EXCEPT ![m] = @ + 1]
        /\ tokens' = tokens /\ waiting' = waiting
    BY <1>3 DEF Enter, SyncOK
  <2>2. /\ holder'[m] = t /\ depth'[m] = 1
        /\ \A n \in Mutex \ {m} : holder'[n] = holder[n] /\ depth'[n] = depth[n]
    BY <1>2, <2>1 DEF SyncTypes
  <2>3. SyncTypes'
    BY <1>2, <2>1 DEF SyncTypes
  <2>4. SyncOK'
    BY <1>1, <2>1, <2>2, <2>3 DEF SyncOK
  <2> QED
    BY <1>2, <2>1, <2>2, <2>4 DEF Apart
<1>4. CASE AwaitMutex(t, m)
  <2>1. /\ holder[m] \in Task /\ holder[m] # t
        /\ holder' = holder /\ depth' = depth /\ tokens' = tokens
        /\ waiting' = [waiting EXCEPT ![m] = @ \cup {t}]
    BY <1>2, <1>4 DEF AwaitMutex, SyncTypes
  <2>2. /\ waiting'[m] = waiting[m] \cup {t}
        /\ \A q \in (Mutex \cup Sem) \ {m} : waiting'[q] = waiting[q] /\ t \notin waiting[q]
        /\ SyncTypes'
    BY <1>2, <2>1 DEF SyncTypes, Free
  <2>3. SyncOK'
    BY <1>1, <2>1, <2>2 DEF SyncOK
  <2> QED
    BY <1>2, <2>1, <2>2, <2>3 DEF Apart
<1> QED
  BY <1>3, <1>4

(* The task inside leaves: the mutex is free, or a task that waited has it. *)
LEMMA UnlockEffect ==
  ASSUME SyncOK, NEW t \in Task, NEW m \in Mutex, Leave(t, m)
  PROVE  /\ SyncOK' /\ Apart(m) /\ Free(t) /\ holder[m] = t
         /\ \/ /\ waiting[m] = {} /\ waiting'[m] = {}
               /\ holder'[m] = NoTask
            \/ /\ holder'[m] \in waiting[m]
               /\ waiting'[m] = waiting[m] \ {holder'[m]}
<1>1. NoTask \notin Task /\ m \notin Sem
  BY DiskAssumption
<1>2. SyncTypes /\ Free(t) /\ holder[m] = t /\ depth[m] = 1 /\ tokens' = tokens
  BY <1>1 DEF SyncOK, Leave
<1>3. CASE /\ waiting[m] = {}
           /\ holder' = [holder EXCEPT ![m] = NoTask]
           /\ depth' = [depth EXCEPT ![m] = 0]
           /\ waiting' = waiting
  <2>1. /\ holder'[m] = NoTask /\ depth'[m] = 0 /\ SyncTypes'
        /\ \A n \in Mutex \ {m} : holder'[n] = holder[n] /\ depth'[n] = depth[n]
    BY <1>2, <1>3 DEF SyncTypes
  <2>2. SyncOK'
    BY <1>1, <1>3, <2>1 DEF SyncOK
  <2> QED
    BY <1>2, <1>3, <2>1, <2>2 DEF Apart
<1>4. ASSUME NEW u \in waiting[m],
             holder' = [holder EXCEPT ![m] = u], depth' = depth,
             waiting' = [waiting EXCEPT ![m] = @ \ {u}]
      PROVE  /\ SyncOK' /\ Apart(m) /\ holder'[m] = u
             /\ waiting'[m] = waiting[m] \ {u}
  <2>1. u \in Task
    BY <1>2 DEF SyncTypes
  <2>2. /\ holder'[m] = u /\ waiting'[m] = waiting[m] \ {u} /\ SyncTypes'
        /\ \A n \in Mutex \ {m} : holder'[n] = holder[n]
        /\ \A q \in (Mutex \cup Sem) \ {m} : waiting'[q] = waiting[q]
    BY <1>2, <1>4, <2>1 DEF SyncTypes
  <2>3. SyncOK'
    BY <1>1, <1>2, <1>4, <2>1, <2>2 DEF SyncOK
  <2> QED
    BY <1>2, <1>4, <2>2, <2>3 DEF Apart
<1> QED
  BY <1>2, <1>3, <1>4 DEF Leave

(* A task takes a token, or waits for one.                                  *)
LEMMA TakeEffect ==
  ASSUME SyncOK, NEW t \in Task, NEW s \in Sem, Take(t, s) \/ AwaitToken(t, s)
  PROVE  /\ SyncOK' /\ Apart(s) /\ Free(t)
         /\ \/ /\ tokens[s] > 0 /\ tokens'[s] = tokens[s] - 1
               /\ waiting'[s] = waiting[s]
            \/ /\ tokens[s] = 0 /\ tokens'[s] = 0
               /\ waiting'[s] = waiting[s] \cup {t}
<1>1. s \notin Mutex
  BY DiskAssumption
<1>2. SyncTypes /\ Free(t) /\ tokens[s] \in Nat
      /\ holder' = holder /\ depth' = depth
  BY DEF SyncOK, SyncTypes, Take, AwaitToken
<1>3. CASE Take(t, s)
  <2>1. /\ tokens[s] > 0 /\ waiting' = waiting
        /\ tokens' = [tokens EXCEPT ![s] = tokens[s] - 1]
        /\ tokens[s] - 1 \in Nat
    BY <1>2, <1>3 DEF Take
  <2>2. /\ tokens'[s] = tokens[s] - 1 /\ SyncTypes'
        /\ \A r \in Sem \ {s} : tokens'[r] = tokens[r]
    BY <1>2, <2>1 DEF SyncTypes
  <2> QED
    BY <1>2, <2>1, <2>2 DEF Apart, SyncOK
<1>4. CASE AwaitToken(t, s)
  <2>1. /\ tokens[s] = 0 /\ tokens' = tokens
        /\ waiting' = [waiting EXCEPT ![s] = @ \cup {t}]
    BY <1>4 DEF AwaitToken
  <2>2. /\ waiting'[s] = waiting[s] \cup {t} /\ SyncTypes'
        /\ \A q \in (Mutex \cup Sem) \ {s} : waiting'[q] = waiting[q] /\ t \notin waiting[q]
    BY <1>2, <2>1 DEF SyncTypes, Free
  <2>3. SyncOK'
    BY <1>1, <1>2, <2>1, <2>2 DEF SyncOK
  <2> QED
    BY <1>2, <2>1, <2>2, <2>3 DEF Apart
<1> QED
  BY <1>3, <1>4

(* A token is kept if nobody waits for it, or it lets one task through.     *)
LEMMA PostEffect ==
  ASSUME SyncOK, NEW s \in Sem, Post(s)
  PROVE  /\ SyncOK' /\ Apart(s)
         /\ \/ /\ waiting[s] = {} /\ waiting'[s] = {}
               /\ tokens'[s] = tokens[s] + 1
            \/ /\ tokens'[s] = tokens[s]
               /\ \E u \in waiting[s] : waiting'[s] = waiting[s] \ {u}
<1>1. s \notin Mutex
  BY DiskAssumption
<1>2. SyncTypes /\ tokens[s] \in Nat /\ holder' = holder /\ depth' = depth
  BY DEF SyncOK, SyncTypes, Post
<1>3. CASE /\ waiting[s] = {} /\ waiting' = waiting
           /\ tokens' = [tokens EXCEPT ![s] = @ + 1]
  <2>1. /\ tokens'[s] = tokens[s] + 1 /\ SyncTypes'
        /\ \A r \in Sem \ {s} : tokens'[r] = tokens[r]
    BY <1>2, <1>3 DEF SyncTypes
  <2> QED
    BY <1>2, <1>3, <2>1 DEF Apart, SyncOK
<1>4. ASSUME NEW u \in waiting[s], tokens' = tokens,
             waiting' = [waiting EXCEPT ![s] = @ \ {u}]
      PROVE  SyncOK' /\ Apart(s) /\ waiting'[s] = waiting[s] \ {u}
  <2>1. /\ waiting'[s] = waiting[s] \ {u} /\ SyncTypes'
        /\ \A q \in (Mutex \cup Sem) \ {s} : waiting'[q] = waiting[q]
    BY <1>2, <1>4 DEF SyncTypes
  <2>2. SyncOK'
    BY <1>1, <1>2, <2>1 DEF SyncOK
  <2> QED
    BY <1>2, <1>4, <2>1, <2>2 DEF Apart
<1> QED
  BY <1>2, <1>3, <1>4 DEF Post

-----------------------------------------------------------------------------
DiskLabel == {"user", "lock"} \cup InTransfer

DiskTypes ==
  /\ ctl \in [status : {"ready", "busy", "drq", "error"},
              cmd : {"none", "read", "write"}, at : Nat, left : Nat]
  /\ platter \in [Sector -> Data] /\ image \in [Sector -> Data]
  /\ dpc \in [Task -> DiskLabel]
  /\ req \in [Task -> [cmd : {"none", "read", "write"}, addr : Nat, size : Nat]]
  /\ dbuf \in [Task -> Seq(Data)]
  /\ dcount \in [Task -> Nat]

\* The arguments, the count and the buffer of the call of t.
CallOK(t) ==
  IF dpc[t] \in {"user", "lock", "send"}
  THEN req[t] = NoCall /\ dbuf[t] = <<>> /\ dcount[t] = 0
  ELSE /\ req[t].cmd \in {"read", "write"}
       /\ req[t].size > 0 /\ req[t].addr + req[t].size <= Total
       /\ dcount[t] <= req[t].size
       /\ Len(dbuf[t]) = IF req[t].cmd = "read" THEN dcount[t] ELSE req[t].size

\* The sector before the first of the call of t.
Base(t) == Start + req[t].addr - 1

\* The call of t has stored n sectors, or read as many as it has counted, and
\* nothing else is changed.
Exact(t, n) ==
  IF req[t].cmd = "read"
  THEN /\ platter = image
       /\ \A i \in 1..dcount[t] : dbuf[t][i] = platter[Base(t) + i]
  ELSE \A s \in Sector :
         platter[s] = IF s - Base(t) \in 1..n THEN dbuf[t][s - Base(t)] ELSE image[s]

\* The controller is at the sector after the first n of the call of t.
AtSector(t, n) ==
  /\ ctl.cmd = req[t].cmd /\ ctl.at = Base(t) + n + 1
  /\ ctl.left = req[t].size - n

\* The tokens: a stale one, until it is taken, and that of the sector ready.
Surplus(t) ==
  tokens[OpSem] <= (IF dpc[t] = "poll" THEN 0 ELSE 1)
                     + (IF ctl.status = "busy" THEN 0 ELSE 1)

\* No call has the controller.
Resting == ctl.status # "busy" /\ tokens[OpSem] <= 1 /\ platter = image

\* A read and the controller: it offers the next sector, or works on it, or has
\* given up.
Reading(t) ==
  /\ Exact(t, 0)
  /\ \/ /\ dcount[t] = req[t].size /\ dpc[t] = "loop"
        /\ ctl.status = "ready" /\ tokens[OpSem] <= 1
     \/ /\ dcount[t] < req[t].size /\ Surplus(t)
        /\ \/ ctl.status = "error"
           \/ ctl.status \in {"busy", "drq"} /\ AtSector(t, dcount[t])

\* A write and the controller: while the call waits one more sector may be
\* stored than are counted.
Storing(t) ==
  \/ /\ dpc[t] = "loop" /\ tokens[OpSem] <= 1 /\ Exact(t, dcount[t])
     /\ \/ dcount[t] = req[t].size /\ ctl.status = "ready"
        \/ /\ dcount[t] < req[t].size /\ ctl.status = "drq"
           /\ AtSector(t, dcount[t])
  \/ /\ dpc[t] \in {"wait", "poll"} /\ dcount[t] < req[t].size /\ Surplus(t)
     /\ \/ ctl.status = "busy" /\ AtSector(t, dcount[t]) /\ Exact(t, dcount[t])
        \/ ctl.status = "error" /\ Exact(t, dcount[t])
        \/ /\ ctl.status = "drq" /\ dcount[t] + 1 < req[t].size
           /\ AtSector(t, dcount[t] + 1) /\ Exact(t, dcount[t] + 1)
        \/ /\ ctl.status = "ready" /\ dcount[t] + 1 = req[t].size
           /\ Exact(t, dcount[t] + 1)

\* What the call that has the channel may rely on.
Serving(t) ==
  /\ dpc[t] = "send" => Resting
  /\ dpc[t] = "unlock" =>
       ctl.status # "busy" /\ tokens[OpSem] <= 1 /\ Exact(t, dcount[t])
  /\ dpc[t] \in {"loop", "wait", "poll"} =>
       IF req[t].cmd = "read" THEN Reading(t) ELSE Storing(t)

\* Who is inside the channel, who waits for it, and who for an interrupt.
Channels ==
  /\ \A t \in Task : dpc[t] \in InTransfer
                       <=> t = holder[Channel] \/ t \in waiting[Channel]
  /\ \A t \in waiting[Channel] : dpc[t] = "send"
  /\ \A t \in waiting[OpSem] : dpc[t] = "poll"

DiskInv ==
  /\ SyncOK /\ DiskTypes /\ Channels
  /\ \A t \in Task : CallOK(t)
  /\ holder[Channel] = NoTask => Resting
  /\ \A t \in Task : t = holder[Channel] => Serving(t)

-----------------------------------------------------------------------------
(* Of the processes inside a transfer, only the one that has the channel    *)
(* can go on.                                                               *)
LEMMA TransferHolds ==
  ASSUME DiskInv, NEW t \in Task, Free(t), dpc[t] \in InTransfer
  PROVE  t = holder[Channel] /\ t \notin waiting[OpSem] /\ Serving(t) /\ CallOK(t)
<1>1. Channel \in Mutex /\ OpSem \in Sem
  BY DiskAssumption
<1> QED
  BY <1>1 DEF DiskInv, Channels, Free

(* A step of the call that has the channel, or of the controller while it   *)
(* has it, disturbs no other call.                                          *)
LEMMA HolderSteps ==
  ASSUME DiskInv, NEW t \in Task, t = holder[Channel], SyncOK', DiskTypes',
         holder'[Channel] = t, waiting'[Channel] = waiting[Channel],
         dpc'[t] \in InTransfer,
         \A u \in Task \ {t} : /\ dpc'[u] = dpc[u] /\ req'[u] = req[u]
                               /\ dbuf'[u] = dbuf[u] /\ dcount'[u] = dcount[u],
         \A u \in waiting'[OpSem] : dpc'[u] = "poll",
         CallOK(t)', Serving(t)'
  PROVE  DiskInv'
<1>1. /\ t # NoTask /\ Channel \in Mutex
      /\ SyncOK /\ Channels /\ \A u \in Task : CallOK(u)
  BY DiskAssumption DEF DiskInv
<1>2. t \notin waiting[Channel]
  BY <1>1 DEF SyncOK
<1>3. \A u \in Task : CallOK(u)'
  <2> SUFFICES ASSUME NEW u \in Task \ {t} PROVE CallOK(u)'
    OBVIOUS
  <2> QED
    BY <1>1 DEF CallOK
<1>4. Channels'
  <2>1. \A u \in Task : dpc'[u] \in InTransfer
                          <=> u = holder'[Channel] \/ u \in waiting'[Channel]
    BY <1>1 DEF Channels
  <2>2. \A u \in waiting'[Channel] : dpc'[u] = "send"
    <3>1. waiting[Channel] \subseteq Task
      BY <1>1 DEF SyncOK, SyncTypes
    <3> QED
      BY <1>1, <1>2, <3>1 DEF Channels
  <2> QED
    BY <2>1, <2>2 DEF Channels
<1> QED
  BY <1>1, <1>3, <1>4 DEF DiskInv

(* The mounted partition: nobody is in a call, and the controller is idle.  *)
LEMMA DiskInitInv == DiskInit => DiskInv
<1> SUFFICES ASSUME DiskInit PROVE DiskInv
  OBVIOUS
<1>0. /\ NoTask \notin Task /\ Channel \in Mutex /\ OpSem \in Sem /\ Mutex \cap Sem = {}
      /\ Start \in Nat /\ Total \in Nat \ {0}
  BY DiskAssumption
<1>1. /\ holder = [m \in Mutex |-> NoTask] /\ depth = [m \in Mutex |-> 0]
      /\ waiting = [q \in Mutex \cup Sem |-> {}]
  BY DEF DiskInit, SyncMounted
<1>2. PICK stale \in {0, 1} :
        tokens = [s \in Sem |-> IF s = OpSem THEN stale ELSE SemInit[s]]
  BY DEF DiskInit, SyncMounted
<1>3. tokens \in [Sem -> Nat] /\ tokens[OpSem] <= 1
  BY <1>0, <1>2, DiskAssumption
<1>4. SyncOK
  BY <1>0, <1>1, <1>3 DEF SyncOK, SyncTypes
<1>5. /\ ctl = Idle /\ image = platter
      /\ dpc = [t \in Task |-> "user"] /\ req = [t \in Task |-> NoCall]
      /\ dbuf = [t \in Task |-> <<>>] /\ dcount = [t \in Task |-> 0]
  BY DEF DiskInit, DiskIdle
<1>6. PICK d \in Data : platter = [s \in Sector |-> d]
  BY DEF DiskInit, DiskIdle
<1>7. DiskTypes
  BY <1>5, <1>6 DEF DiskTypes, DiskLabel, Idle, NoCall
<1>8. Channels /\ \A t \in Task : CallOK(t)
  BY <1>0, <1>1, <1>5 DEF Channels, CallOK, InTransfer
<1>9. Resting /\ \A t \in Task : t # holder[Channel]
  BY <1>0, <1>1, <1>3, <1>5 DEF Resting, Idle
<1> QED
  BY <1>4, <1>7, <1>8, <1>9 DEF DiskInv

(* disk_read or disk_write is called: nothing but the process has changed.  *)
LEMMA CallDiskInv ==
  ASSUME DiskInv, NEW t \in Task, CallDisk(t)
  PROVE  DiskInv'
<1>1. /\ Free(t) /\ dpc[t] = "user" /\ dpc' = [dpc EXCEPT ![t] = "lock"]
      /\ holder' = holder /\ depth' = depth /\ tokens' = tokens
      /\ waiting' = waiting
      /\ UNCHANGED <<ctl, platter, req, dbuf, dcount, image>>
  BY DEF CallDisk, At, svars
<1>2. /\ Channel \in Mutex /\ OpSem \in Sem /\ SyncOK /\ DiskTypes /\ Channels
      /\ \A u \in Task : CallOK(u)
      /\ holder[Channel] = NoTask => Resting
      /\ \A u \in Task : u = holder[Channel] => Serving(u)
      /\ t \notin waiting[Channel] /\ t \notin waiting[OpSem]
  BY <1>1, DiskAssumption DEF DiskInv, Free
<1>3. t # holder[Channel]
  BY <1>1, <1>2 DEF Channels, InTransfer
<1>4. /\ dpc'[t] = "lock" /\ \A u \in Task \ {t} : dpc'[u] = dpc[u]
      /\ dpc' \in [Task -> DiskLabel]
  BY <1>1, <1>2 DEF DiskTypes, DiskLabel
<1>5. SyncOK' /\ DiskTypes'
  BY <1>1, <1>2, <1>4 DEF SyncOK, SyncTypes, DiskTypes
<1>6. waiting[Channel] \subseteq Task /\ waiting[OpSem] \subseteq Task
  BY <1>2 DEF SyncOK, SyncTypes
<1>7. Channels'
  BY <1>1, <1>2, <1>3, <1>4, <1>6 DEF Channels, InTransfer
<1>8. \A u \in Task : CallOK(u)'
  BY <1>1, <1>2, <1>4 DEF CallOK
<1>9. holder'[Channel] = NoTask => Resting'
  BY <1>1, <1>2 DEF Resting
<1>10. ASSUME NEW u \in Task, u = holder'[Channel]
       PROVE  Serving(u)'
  <2>1. Serving(u) /\ dpc'[u] = dpc[u]
    BY <1>1, <1>2, <1>3, <1>4, <1>10
  <2> QED
    BY <1>1, <2>1
    DEF Serving, Resting, Exact, Base, Reading, Storing, Surplus, AtSector
<1> QED
  BY <1>5, <1>7, <1>8, <1>9, <1>10 DEF DiskInv

(* The channel is entered when nobody has the controller; or it is awaited. *)
LEMMA LockChannelInv ==
  ASSUME DiskInv, NEW t \in Task, LockChannel(t)
  PROVE  DiskInv'
<1>1. /\ Free(t) /\ dpc[t] = "lock" /\ dpc' = [dpc EXCEPT ![t] = "send"]
      /\ Enter(t, Channel) \/ AwaitMutex(t, Channel)
      /\ UNCHANGED <<ctl, platter, req, dbuf, dcount, image>>
  BY DEF LockChannel, At
<1>2. /\ Channel \in Mutex /\ OpSem \in Sem /\ Channel # OpSem
      /\ SyncOK /\ DiskTypes /\ Channels
      /\ \A u \in Task : CallOK(u)
      /\ holder[Channel] = NoTask => Resting
      /\ \A u \in Task : u = holder[Channel] => Serving(u)
      /\ t \notin waiting[Channel] /\ t \notin waiting[OpSem] /\ NoTask \notin Task
  BY <1>1, DiskAssumption DEF DiskInv, Free
<1>3. t # holder[Channel]
  BY <1>1, <1>2 DEF Channels, InTransfer
<1>4. /\ dpc'[t] = "send" /\ \A u \in Task \ {t} : dpc'[u] = dpc[u]
      /\ dpc' \in [Task -> DiskLabel]
  BY <1>1, <1>2 DEF DiskTypes, DiskLabel, InTransfer
<1>5. /\ SyncOK' /\ Apart(Channel)
      /\ \/ /\ holder[Channel] = NoTask /\ holder'[Channel] = t
            /\ waiting[Channel] = {} /\ waiting'[Channel] = {}
         \/ /\ holder[Channel] \in Task /\ holder'[Channel] = holder[Channel]
            /\ waiting'[Channel] = waiting[Channel] \cup {t}
  BY <1>1, <1>2, <1>3, LockEffect
<1>6. tokens'[OpSem] = tokens[OpSem] /\ waiting'[OpSem] = waiting[OpSem]
  BY <1>2, <1>5 DEF Apart
<1>7. DiskTypes'
  BY <1>1, <1>2, <1>4 DEF DiskTypes
<1>8. waiting[Channel] \subseteq Task /\ waiting[OpSem] \subseteq Task
  BY <1>2 DEF SyncOK, SyncTypes
<1>9. Channels'
  BY <1>1, <1>2, <1>3, <1>4, <1>5, <1>6, <1>8 DEF Channels, InTransfer
<1>10. \A u \in Task : CallOK(u)'
  BY <1>1, <1>2, <1>4 DEF CallOK
<1>11. holder'[Channel] # NoTask
  BY <1>2, <1>5
<1>12. ASSUME NEW u \in Task, u = holder'[Channel]
       PROVE  Serving(u)'
  <2>1. CASE holder[Channel] = NoTask
    <3>1. u = t /\ Resting
      BY <1>2, <1>5, <1>12, <2>1
    <3>2. Resting'
      BY <1>1, <1>6, <3>1 DEF Resting
    <3> QED
      BY <1>4, <3>1, <3>2 DEF Serving
  <2>2. CASE holder[Channel] # NoTask
    <3>1. u = holder[Channel] /\ u # t
      BY <1>3, <1>5, <1>12, <2>2
    <3>2. Serving(u) /\ dpc'[u] = dpc[u]
      BY <1>2, <1>4, <3>1
    <3> QED
      BY <1>1, <1>6, <3>2
      DEF Serving, Resting, Exact, Base, Reading, Storing, Surplus, AtSector
  <2> QED
    BY <2>1, <2>2
<1> QED
  BY <1>5, <1>7, <1>9, <1>10, <1>11, <1>12 DEF DiskInv

(* The command goes out when the controller rests.                          *)
LEMMA SendInv ==
  ASSUME DiskInv, NEW t \in Task, disk_send_cmd(t)
  PROVE  DiskInv'
<1>1. PICK cmd \in {"read", "write"}, addr \in 0..(Total - 1), n \in 1..MaxSize :
        /\ addr + n <= Total
        /\ req' = [req EXCEPT ![t] = [cmd |-> cmd, addr |-> addr, size |-> n]]
        /\ ctl' = [status |-> IF cmd = "read" THEN "busy" ELSE "drq",
                   cmd |-> cmd, at |-> Lba(addr), left |-> n]
        /\ IF cmd = "read" THEN UNCHANGED dbuf
           ELSE \E d \in [1..n -> Data] : dbuf' = [dbuf EXCEPT ![t] = d]
  BY DEF disk_send_cmd
<1>2. /\ Free(t) /\ dpc[t] = "send" /\ dpc' = [dpc EXCEPT ![t] = "loop"]
      /\ holder' = holder /\ depth' = depth /\ tokens' = tokens
      /\ waiting' = waiting
      /\ UNCHANGED <<platter, dcount, image>>
  BY DEF disk_send_cmd, At, svars
<1>3. /\ t = holder[Channel] /\ Resting /\ t \notin waiting[OpSem]
      /\ req[t] = NoCall /\ dbuf[t] = <<>> /\ dcount[t] = 0
  <2>1. "send" \in InTransfer
    BY DEF InTransfer
  <2> QED
    BY <1>2, <2>1, TransferHolds DEF Serving, CallOK
<1>4. /\ DiskTypes /\ Start \in Nat /\ Total \in Nat /\ MaxSize \in Nat
      /\ addr \in Nat /\ n \in Nat \ {0} /\ SyncOK /\ Channels
      /\ OpSem \in Sem /\ Channel \in Mutex
      /\ tokens[OpSem] <= 1 /\ tokens[OpSem] \in Nat /\ platter = image
  <2>1. DiskTypes /\ SyncOK /\ Channels
    BY DEF DiskInv
  <2> QED
    BY <1>3, <2>1, DiskAssumption DEF Resting, SyncOK, SyncTypes
<1>5. /\ dpc'[t] = "loop" /\ \A u \in Task \ {t} : dpc'[u] = dpc[u]
      /\ dpc' \in [Task -> DiskLabel]
  BY <1>2, <1>4 DEF DiskTypes, DiskLabel, InTransfer
<1>6. /\ req'[t].cmd = cmd /\ req'[t].addr = addr /\ req'[t].size = n
      /\ \A u \in Task \ {t} : req'[u] = req[u]
      /\ req' \in [Task -> [cmd : {"none", "read", "write"}, addr : Nat, size : Nat]]
  BY <1>1, <1>4 DEF DiskTypes
<1>7. /\ ctl'.status = (IF cmd = "read" THEN "busy" ELSE "drq")
      /\ ctl'.cmd = cmd /\ ctl'.at = Start + addr /\ ctl'.left = n
      /\ ctl' \in [status : {"ready", "busy", "drq", "error"},
                   cmd : {"none", "read", "write"}, at : Nat, left : Nat]
  BY <1>1, <1>4 DEF Lba
<1>8. /\ dbuf' \in [Task -> Seq(Data)] /\ \A u \in Task \ {t} : dbuf'[u] = dbuf[u]
      /\ Len(dbuf'[t]) = IF cmd = "read" THEN 0 ELSE n
  <2>1. CASE cmd = "read"
    BY <1>1, <1>3, <1>4, <2>1 DEF DiskTypes
  <2>2. CASE cmd # "read"
    <3>1. PICK d \in [1..n -> Data] : dbuf' = [dbuf EXCEPT ![t] = d]
      BY <1>1, <2>2
    <3>2. d \in Seq(Data) /\ Len(d) = n
      BY <1>4, <3>1
    <3> QED
      BY <1>4, <2>2, <3>1, <3>2 DEF DiskTypes
  <2> QED
    BY <2>1, <2>2
<1>9. DiskTypes'
  BY <1>2, <1>4, <1>5, <1>6, <1>7, <1>8 DEF DiskTypes
<1>10. CallOK(t)'
  BY <1>1, <1>2, <1>3, <1>4, <1>5, <1>6, <1>8 DEF CallOK
<1>11. Serving(t)'
  <2>1. Base(t)' = Start + addr - 1
    BY <1>6 DEF Base
  <2>2. CASE cmd = "read"
    <3>1. Exact(t, 0)'
      BY <1>2, <1>3, <1>4, <1>6, <2>2 DEF Exact
    <3>2. Surplus(t)'
      BY <1>2, <1>4, <1>5, <1>7, <2>2 DEF Surplus
    <3>3. dcount'[t] = 0 /\ dcount'[t] < req'[t].size
      BY <1>2, <1>3, <1>4, <1>6
    <3>4. AtSector(t, dcount[t])'
      BY <1>4, <1>6, <1>7, <2>1, <3>3 DEF AtSector
    <3>5. Reading(t)'
      BY <1>7, <2>2, <3>1, <3>2, <3>3, <3>4 DEF Reading
    <3> QED
      BY <1>5, <1>6, <2>2, <3>5 DEF Serving
  <2>3. CASE cmd = "write"
    <3>1. dcount'[t] = 0 /\ dcount'[t] < req'[t].size
      BY <1>2, <1>3, <1>4, <1>6
    <3>2. Exact(t, dcount[t])'
      <4>1. \A s \in Sector : platter'[s] = image'[s]
        BY <1>2, <1>4
      <4>2. \A s \in Sector : s - (Start + addr - 1) \notin 1..0
        OBVIOUS
      <4> QED
        BY <1>6, <2>1, <2>3, <3>1, <4>1, <4>2 DEF Exact
    <3>3. AtSector(t, dcount[t])'
      BY <1>4, <1>6, <1>7, <2>1, <3>1 DEF AtSector
    <3>4. Storing(t)'
      BY <1>2, <1>4, <1>5, <1>7, <2>3, <3>1, <3>2, <3>3 DEF Storing
    <3> QED
      BY <1>5, <1>6, <2>3, <3>4 DEF Serving
  <2> QED
    BY <2>2, <2>3
<1>12. SyncOK'
  BY <1>2, <1>4 DEF SyncOK, SyncTypes
<1>13. \A u \in waiting'[OpSem] : dpc'[u] = "poll"
  <2>1. waiting[OpSem] \subseteq Task
    BY <1>4 DEF SyncOK, SyncTypes
  <2> QED
    BY <1>2, <1>3, <1>4, <1>5, <2>1 DEF Channels
<1>14. /\ holder'[Channel] = t /\ waiting'[Channel] = waiting[Channel]
       /\ dpc'[t] \in InTransfer
       /\ \A u \in Task \ {t} : dcount'[u] = dcount[u]
  BY <1>2, <1>3, <1>5 DEF InTransfer
<1> QED
  BY <1>3, <1>5, <1>6, <1>8, <1>9, <1>10, <1>11, <1>12, <1>13, <1>14, HolderSteps

(* A write sends the next sector, and any call waits for the interrupt.     *)
LEMMA LoopInv ==
  ASSUME DiskInv, NEW t \in Task, Loop(t)
  PROVE  DiskInv'
<1>1. /\ Free(t) /\ dpc[t] = "loop"
      /\ \/ dcount[t] < req[t].size /\ dpc' = [dpc EXCEPT ![t] = "wait"]
         \/ dcount[t] = req[t].size /\ dpc' = [dpc EXCEPT ![t] = "unlock"]
      /\ ctl' = IF req[t].cmd = "write" /\ ctl.status = "drq" /\ dpc'[t] = "wait"
                THEN [ctl EXCEPT !.status = "busy"] ELSE ctl
      /\ holder' = holder /\ depth' = depth /\ tokens' = tokens
      /\ waiting' = waiting
      /\ UNCHANGED <<platter, req, dbuf, dcount, image>>
  BY DEF Loop, At, svars
<1>2. t = holder[Channel] /\ t \notin waiting[OpSem] /\ Serving(t) /\ CallOK(t)
  BY <1>1, TransferHolds DEF InTransfer
<1>3. /\ DiskTypes /\ SyncOK /\ Channels
      /\ OpSem \in Sem /\ Channel \in Mutex
      /\ tokens[OpSem] \in Nat /\ dcount[t] \in Nat /\ req[t].size \in Nat
  <2>1. DiskTypes /\ SyncOK /\ Channels
    BY DEF DiskInv
  <2> QED
    BY <2>1, DiskAssumption DEF SyncOK, SyncTypes, DiskTypes
<1>4. /\ \/ dcount[t] < req[t].size /\ dpc'[t] = "wait"
         \/ dcount[t] = req[t].size /\ dpc'[t] = "unlock"
      /\ \A u \in Task \ {t} : dpc'[u] = dpc[u]
      /\ dpc' \in [Task -> DiskLabel]
  BY <1>1, <1>3 DEF DiskTypes, DiskLabel, InTransfer
<1>5. /\ ctl' \in [status : {"ready", "busy", "drq", "error"},
                   cmd : {"none", "read", "write"}, at : Nat, left : Nat]
      /\ ctl'.cmd = ctl.cmd /\ ctl'.at = ctl.at /\ ctl'.left = ctl.left
      /\ ctl'.status = IF req[t].cmd = "write" /\ ctl.status = "drq" /\ dpc'[t] = "wait"
                       THEN "busy" ELSE ctl.status
  BY <1>1, <1>3 DEF DiskTypes
<1>6. DiskTypes'
  BY <1>1, <1>3, <1>4, <1>5 DEF DiskTypes
<1>7. CallOK(t)' /\ req[t].cmd \in {"read", "write"}
  BY <1>1, <1>2, <1>4 DEF CallOK
<1>8. \A n \in Nat : Exact(t, n)' <=> Exact(t, n)
  BY <1>1 DEF Exact, Base
<1>9. \A n \in Nat : AtSector(t, n)' <=> AtSector(t, n)
  BY <1>1, <1>5 DEF AtSector, Base
<1>10. Serving(t)'
  <2>1. CASE req[t].cmd = "read"
    <3>1. Reading(t)
      BY <1>1, <1>2, <2>1 DEF Serving
    <3>2. CASE dcount[t] = req[t].size
      <4>1. ctl.status = "ready" /\ tokens[OpSem] <= 1 /\ Exact(t, 0)
        BY <1>3, <3>1, <3>2 DEF Reading
      <4>2. Exact(t, dcount[t])
        BY <2>1, <4>1 DEF Exact
      <4>3. Exact(t, dcount[t])' /\ ctl'.status = "ready" /\ dpc'[t] = "unlock"
        BY <1>1, <1>3, <1>4, <1>5, <1>8, <2>1, <3>2, <4>1, <4>2
      <4> QED
        BY <1>1, <4>1, <4>3 DEF Serving
    <3>3. CASE dcount[t] < req[t].size
      <4>1. Exact(t, 0)' /\ dpc'[t] = "wait" /\ ctl'.status = ctl.status
        BY <1>3, <1>4, <1>5, <1>8, <2>1, <3>1, <3>3 DEF Reading
      <4>2. Surplus(t)
        BY <1>3, <3>1, <3>3 DEF Reading
      <4>3. Surplus(t)'
        BY <1>1, <4>1, <4>2 DEF Surplus
      <4>4. \/ ctl'.status = "error"
            \/ ctl'.status \in {"busy", "drq"} /\ AtSector(t, dcount[t])'
        BY <1>1, <1>3, <1>9, <3>1, <3>3, <4>1 DEF Reading
      <4>5. Reading(t)'
        BY <1>1, <3>3, <4>1, <4>3, <4>4 DEF Reading
      <4> QED
        BY <1>1, <2>1, <4>1, <4>5 DEF Serving
    <3> QED
      BY <1>1, <3>2, <3>3
  <2>2. CASE req[t].cmd = "write"
    <3>1. Storing(t)
      BY <1>1, <1>2, <2>2 DEF Serving
    <3>2. tokens[OpSem] <= 1 /\ Exact(t, dcount[t])'
      BY <1>1, <1>3, <1>8, <3>1 DEF Storing
    <3>3. CASE dcount[t] = req[t].size
      <4>1. ctl'.status = "ready" /\ dpc'[t] = "unlock"
        BY <1>1, <1>3, <1>4, <1>5, <3>1, <3>3 DEF Storing
      <4> QED
        BY <1>1, <3>2, <4>1 DEF Serving
    <3>4. CASE dcount[t] < req[t].size
      <4>1. ctl.status = "drq" /\ AtSector(t, dcount[t])
        BY <1>1, <1>3, <3>1, <3>4 DEF Storing
      <4>2. ctl'.status = "busy" /\ dpc'[t] = "wait" /\ AtSector(t, dcount[t])'
        BY <1>1, <1>3, <1>4, <1>5, <1>9, <2>2, <3>4, <4>1
      <4>3. Surplus(t)'
        BY <1>1, <3>2, <4>2 DEF Surplus
      <4>4. Storing(t)'
        BY <1>1, <3>2, <3>4, <4>2, <4>3 DEF Storing
      <4> QED
        BY <1>1, <2>2, <4>2, <4>4 DEF Serving
    <3> QED
      BY <1>1, <3>3, <3>4
  <2> QED
    BY <1>7, <2>1, <2>2
<1>11. SyncOK'
  BY <1>1, <1>3 DEF SyncOK, SyncTypes
<1>12. \A u \in waiting'[OpSem] : dpc'[u] = "poll"
  <2>1. waiting[OpSem] \subseteq Task
    BY <1>3 DEF SyncOK, SyncTypes
  <2> QED
    BY <1>1, <1>2, <1>3, <1>4, <2>1 DEF Channels
<1>13. /\ holder'[Channel] = t /\ waiting'[Channel] = waiting[Channel]
       /\ dpc'[t] \in InTransfer
       /\ \A u \in Task \ {t} : /\ dpc'[u] = dpc[u] /\ req'[u] = req[u]
                                /\ dbuf'[u] = dbuf[u] /\ dcount'[u] = dcount[u]
  BY <1>1, <1>2, <1>4 DEF InTransfer
<1> QED
  BY <1>2, <1>6, <1>7, <1>10, <1>11, <1>12, <1>13, HolderSteps

(* The call takes the token of the interrupt, or the stale one, or waits.   *)
LEMMA WaitIrqInv ==
  ASSUME DiskInv, NEW t \in Task, WaitIrq(t)
  PROVE  DiskInv'
<1>1. /\ Free(t) /\ dpc[t] = "wait" /\ dpc' = [dpc EXCEPT ![t] = "poll"]
      /\ Take(t, OpSem) \/ AwaitToken(t, OpSem)
      /\ UNCHANGED <<ctl, platter, req, dbuf, dcount, image>>
  BY DEF WaitIrq, At
<1>2. t = holder[Channel] /\ t \notin waiting[OpSem] /\ Serving(t) /\ CallOK(t)
  BY <1>1, TransferHolds DEF InTransfer
<1>3. /\ DiskTypes /\ SyncOK /\ Channels
      /\ OpSem \in Sem /\ Channel \in Mutex /\ Channel # OpSem
      /\ tokens[OpSem] \in Nat /\ dcount[t] \in Nat /\ req[t].size \in Nat
  <2>1. DiskTypes /\ SyncOK /\ Channels
    BY DEF DiskInv
  <2> QED
    BY <2>1, DiskAssumption DEF SyncOK, SyncTypes, DiskTypes
<1>4. /\ dpc'[t] = "poll" /\ \A u \in Task \ {t} : dpc'[u] = dpc[u]
      /\ dpc' \in [Task -> DiskLabel]
  BY <1>1, <1>3 DEF DiskTypes, DiskLabel, InTransfer
<1>5. /\ SyncOK' /\ Apart(OpSem)
      /\ \/ /\ tokens[OpSem] > 0 /\ tokens'[OpSem] = tokens[OpSem] - 1
            /\ waiting'[OpSem] = waiting[OpSem]
         \/ /\ tokens[OpSem] = 0 /\ tokens'[OpSem] = 0
            /\ waiting'[OpSem] = waiting[OpSem] \cup {t}
  BY <1>1, <1>3, TakeEffect
<1>6. holder'[Channel] = t /\ waiting'[Channel] = waiting[Channel]
  BY <1>2, <1>3, <1>5 DEF Apart
<1>7. DiskTypes'
  BY <1>1, <1>3, <1>4 DEF DiskTypes
<1>8. CallOK(t)' /\ req[t].cmd \in {"read", "write"}
  BY <1>1, <1>2, <1>4 DEF CallOK
<1>9. \A n \in Nat : (Exact(t, n)' <=> Exact(t, n)) /\ (AtSector(t, n)' <=> AtSector(t, n))
  BY <1>1 DEF Exact, AtSector, Base
<1>10. Surplus(t) => Surplus(t)'
  BY <1>1, <1>3, <1>4, <1>5 DEF Surplus
<1>11. Serving(t)'
  <2>1. CASE req[t].cmd = "read"
    <3>1. Reading(t)
      BY <1>1, <1>2, <2>1 DEF Serving
    <3>2. /\ Exact(t, 0) /\ dcount[t] < req[t].size /\ Surplus(t)
          /\ \/ ctl.status = "error"
             \/ ctl.status \in {"busy", "drq"} /\ AtSector(t, dcount[t])
      BY <1>1, <3>1 DEF Reading
    <3>3. Reading(t)'
      BY <1>1, <1>3, <1>9, <1>10, <3>2 DEF Reading
    <3> QED
      BY <1>1, <1>4, <2>1, <3>3 DEF Serving
  <2>2. CASE req[t].cmd = "write"
    <3>1. Storing(t)
      BY <1>1, <1>2, <2>2 DEF Serving
    <3>2. /\ dcount[t] < req[t].size /\ Surplus(t) /\ dcount[t] + 1 \in Nat
      BY <1>1, <1>3, <3>1 DEF Storing
    <3>3. Storing(t)'
      BY <1>1, <1>3, <1>4, <1>9, <1>10, <3>1, <3>2 DEF Storing
    <3> QED
      BY <1>1, <1>4, <2>2, <3>3 DEF Serving
  <2> QED
    BY <1>8, <2>1, <2>2
<1>12. \A u \in waiting'[OpSem] : dpc'[u] = "poll"
  <2>1. waiting[OpSem] \subseteq Task
    BY <1>3 DEF SyncOK, SyncTypes
  <2> QED
    BY <1>3, <1>4, <1>5, <2>1 DEF Channels
<1>13. /\ dpc'[t] \in InTransfer
       /\ \A u \in Task \ {t} : /\ dpc'[u] = dpc[u] /\ req'[u] = req[u]
                                /\ dbuf'[u] = dbuf[u] /\ dcount'[u] = dcount[u]
  BY <1>1, <1>4 DEF InTransfer
<1> QED
  BY <1>2, <1>5, <1>6, <1>7, <1>8, <1>11, <1>12, <1>13, HolderSteps

(* The command has failed: the call gives up, with the sectors it has moved. *)
LEMMA TransferFailsInv ==
  ASSUME DiskInv, NEW t \in Task, TransferFails(t)
  PROVE  DiskInv'
<1>1. /\ Free(t) /\ dpc[t] = "poll" /\ dpc' = [dpc EXCEPT ![t] = "unlock"]
      /\ ctl.status = "error"
      /\ holder' = holder /\ depth' = depth /\ tokens' = tokens
      /\ waiting' = waiting
      /\ UNCHANGED <<ctl, platter, req, dbuf, dcount, image>>
  BY DEF TransferFails, At, svars
<1>2. t = holder[Channel] /\ t \notin waiting[OpSem] /\ Serving(t) /\ CallOK(t)
  BY <1>1, TransferHolds DEF InTransfer
<1>3. /\ DiskTypes /\ SyncOK /\ Channels
      /\ OpSem \in Sem /\ Channel \in Mutex
      /\ tokens[OpSem] \in Nat /\ dcount[t] \in Nat /\ req[t].size \in Nat
  <2>1. DiskTypes /\ SyncOK /\ Channels
    BY DEF DiskInv
  <2> QED
    BY <2>1, DiskAssumption DEF SyncOK, SyncTypes, DiskTypes
<1>4. /\ dpc'[t] = "unlock" /\ \A u \in Task \ {t} : dpc'[u] = dpc[u]
      /\ dpc' \in [Task -> DiskLabel]
  BY <1>1, <1>3 DEF DiskTypes, DiskLabel, InTransfer
<1>5. DiskTypes'
  BY <1>1, <1>3, <1>4 DEF DiskTypes
<1>6. CallOK(t)' /\ req[t].cmd \in {"read", "write"}
  BY <1>1, <1>2, <1>4 DEF CallOK
<1>7. tokens[OpSem] <= 1 /\ Exact(t, dcount[t])
  <2>1. CASE req[t].cmd = "read"
    <3>1. Reading(t)
      BY <1>1, <1>2, <2>1 DEF Serving
    <3>2. Exact(t, 0) /\ Surplus(t)
      BY <1>1, <3>1 DEF Reading
    <3> QED
      BY <1>1, <1>3, <2>1, <3>2 DEF Exact, Surplus
  <2>2. CASE req[t].cmd = "write"
    <3>1. Storing(t)
      BY <1>1, <1>2, <2>2 DEF Serving
    <3>2. Exact(t, dcount[t]) /\ Surplus(t)
      BY <1>1, <3>1 DEF Storing
    <3> QED
      BY <1>1, <1>3, <3>2 DEF Surplus
  <2> QED
    BY <1>6, <2>1, <2>2
<1>8. Exact(t, dcount[t])'
  BY <1>1, <1>7 DEF Exact, Base
<1>9. Serving(t)'
  BY <1>1, <1>4, <1>7, <1>8 DEF Serving
<1>10. SyncOK'
  BY <1>1, <1>3 DEF SyncOK, SyncTypes
<1>11. \A u \in waiting'[OpSem] : dpc'[u] = "poll"
  <2>1. waiting[OpSem] \subseteq Task
    BY <1>3 DEF SyncOK, SyncTypes
  <2> QED
    BY <1>1, <1>2, <1>3, <1>4, <2>1 DEF Channels
<1>12. /\ holder'[Channel] = t /\ waiting'[Channel] = waiting[Channel]
       /\ dpc'[t] \in InTransfer
       /\ \A u \in Task \ {t} : /\ dpc'[u] = dpc[u] /\ req'[u] = req[u]
                                /\ dbuf'[u] = dbuf[u] /\ dcount'[u] = dcount[u]
  BY <1>1, <1>2, <1>4 DEF InTransfer
<1> QED
  BY <1>2, <1>5, <1>6, <1>9, <1>10, <1>11, <1>12, HolderSteps

(* A sector is moved: a read takes it from the controller, which goes on to *)
(* the next; a write counts the one that is stored.                         *)
LEMMA TransferInv ==
  ASSUME DiskInv, NEW t \in Task, Transfer(t)
  PROVE  DiskInv'
<1>1. /\ Free(t) /\ dpc[t] = "poll" /\ dpc' = [dpc EXCEPT ![t] = "loop"]
      /\ ctl.status # "busy" /\ ctl.status # "error"
      /\ dcount' = [dcount EXCEPT ![t] = @ + 1]
      /\ holder' = holder /\ depth' = depth /\ tokens' = tokens
      /\ waiting' = waiting
      /\ UNCHANGED <<platter, req, image>>
  BY DEF Transfer, Polled, At, svars
<1>2. t = holder[Channel] /\ t \notin waiting[OpSem] /\ Serving(t) /\ CallOK(t)
  BY <1>1, TransferHolds DEF InTransfer
<1>3. /\ DiskTypes /\ SyncOK /\ Channels
      /\ OpSem \in Sem /\ Channel \in Mutex
      /\ tokens[OpSem] \in Nat /\ dcount[t] \in Nat
      /\ req[t].size \in Nat /\ req[t].addr \in Nat
      /\ Start \in Nat /\ Total \in Nat /\ dbuf[t] \in Seq(Data)
  <2>1. DiskTypes /\ SyncOK /\ Channels
    BY DEF DiskInv
  <2> QED
    BY <2>1, DiskAssumption DEF SyncOK, SyncTypes, DiskTypes
<1>4. /\ dpc'[t] = "loop" /\ \A u \in Task \ {t} : dpc'[u] = dpc[u]
      /\ dpc' \in [Task -> DiskLabel]
  BY <1>1, <1>3 DEF DiskTypes, DiskLabel, InTransfer
<1>5. /\ dcount'[t] = dcount[t] + 1 /\ \A u \in Task \ {t} : dcount'[u] = dcount[u]
      /\ dcount' \in [Task -> Nat]
  BY <1>1, <1>3 DEF DiskTypes
<1>6. /\ req[t].cmd \in {"read", "write"}
      /\ req[t].size > 0 /\ req[t].addr + req[t].size <= Total
      /\ Len(dbuf[t]) = IF req[t].cmd = "read" THEN dcount[t] ELSE req[t].size
  BY <1>1, <1>2 DEF CallOK
<1>7. ASSUME req[t].cmd = "read"
      PROVE  DiskTypes' /\ CallOK(t)' /\ Serving(t)' /\ \A u \in Task \ {t} : dbuf'[u] = dbuf[u]
  <2>1. /\ Exact(t, 0) /\ dcount[t] < req[t].size /\ tokens[OpSem] <= 1
        /\ ctl.status = "drq" /\ AtSector(t, dcount[t])
    <3>1. Reading(t)
      BY <1>1, <1>2, <1>7 DEF Serving
    <3>2. /\ Exact(t, 0) /\ dcount[t] < req[t].size /\ Surplus(t)
          /\ ctl.status = "drq" /\ AtSector(t, dcount[t])
      BY <1>1, <3>1 DEF Reading
    <3> QED
      BY <1>1, <1>3, <3>2 DEF Surplus
  <2>2. /\ ctl.at = Base(t) + dcount[t] + 1 /\ ctl.left = req[t].size - dcount[t]
        /\ ctl.cmd = "read" /\ Base(t) \in Int /\ Base(t) + 1 \in Nat
    BY <1>3, <1>7, <2>1 DEF AtSector, Base
  <2>3. PICK d \in Data : /\ d = platter[ctl.at]
                          /\ dbuf' = [dbuf EXCEPT ![t] = Append(@, d)]
    BY <1>7, <2>1 DEF Transfer
  <2>4. ctl' = IF ctl.left = 1 THEN Idle
               ELSE [ctl EXCEPT !.status = "busy", !.at = @ + 1, !.left = @ - 1]
    BY <1>7, <2>1 DEF Transfer
  <2>5. /\ dbuf'[t] = Append(dbuf[t], d) /\ \A u \in Task \ {t} : dbuf'[u] = dbuf[u]
        /\ dbuf' \in [Task -> Seq(Data)]
    BY <1>3, <2>3 DEF DiskTypes
  <2>6. Len(dbuf'[t]) = dcount[t] + 1 /\ dbuf'[t][dcount[t] + 1] = d
    BY <1>3, <1>6, <1>7, <2>5
  <2>7. \A i \in 1..dcount[t] : dbuf'[t][i] = dbuf[t][i]
    BY <1>3, <1>6, <1>7, <2>5
  <2>8. Exact(t, 0)'
    <3>1. platter = image /\ \A i \in 1..dcount[t] : dbuf[t][i] = platter[Base(t) + i]
      BY <1>7, <2>1 DEF Exact
    <3>2. platter[Base(t) + (dcount[t] + 1)] = d
      BY <1>3, <2>2, <2>3
    <3>3. \A i \in 1..(dcount[t] + 1) : dbuf'[t][i] = platter[Base(t) + i]
      <4> SUFFICES ASSUME NEW i \in 1..(dcount[t] + 1)
                   PROVE  dbuf'[t][i] = platter[Base(t) + i]
        OBVIOUS
      <4>1. CASE i = dcount[t] + 1
        BY <2>6, <3>2, <4>1
      <4>2. CASE i # dcount[t] + 1
        <5>1. i \in 1..dcount[t]
          BY <1>3, <4>2
        <5> QED
          BY <2>7, <3>1, <5>1
      <4> QED
        BY <4>1, <4>2
    <3> QED
      BY <1>1, <1>5, <1>7, <3>1, <3>3 DEF Exact, Base
  <2>9. /\ ctl' \in [status : {"ready", "busy", "drq", "error"},
                     cmd : {"none", "read", "write"}, at : Nat, left : Nat]
        /\ \/ dcount'[t] = req'[t].size /\ ctl'.status = "ready"
           \/ dcount'[t] < req'[t].size /\ ctl'.status = "busy" /\ AtSector(t, dcount[t])'
    <3>1. req'[t] = req[t] /\ Base(t)' = Base(t)
      BY <1>1 DEF Base
    <3>2. CASE ctl.left = 1
      BY <1>3, <1>5, <2>1, <2>2, <2>4, <3>1, <3>2 DEF Idle
    <3>3. CASE ctl.left # 1
      <4>1. dcount[t] + 1 < req[t].size /\ ctl.left - 1 \in Nat /\ ctl.at + 1 \in Nat
        BY <1>3, <2>1, <2>2, <3>3
      <4>2. /\ ctl'.status = "busy" /\ ctl'.at = ctl.at + 1
            /\ ctl'.left = ctl.left - 1 /\ ctl'.cmd = ctl.cmd
            /\ ctl' \in [status : {"ready", "busy", "drq", "error"},
                         cmd : {"none", "read", "write"}, at : Nat, left : Nat]
        BY <1>3, <2>4, <3>3, <4>1 DEF DiskTypes
      <4>3. AtSector(t, dcount[t])'
        <5>1. dcount[t] \in Nat /\ req[t].size \in Nat /\ Base(t) \in Int
          BY <1>3, <2>2
        <5>2. /\ ctl'.at = Base(t) + (dcount[t] + 1) + 1
              /\ ctl'.left = req[t].size - (dcount[t] + 1)
          BY <2>2, <4>2, <5>1
        <5> QED
          BY <1>5, <1>7, <2>2, <3>1, <4>2, <5>2 DEF AtSector
      <4> QED
        BY <1>5, <3>1, <4>1, <4>2, <4>3
    <3> QED
      BY <3>2, <3>3
  <2>10. DiskTypes'
    BY <1>1, <1>3, <1>4, <1>5, <2>5, <2>9 DEF DiskTypes
  <2>11. CallOK(t)'
    BY <1>1, <1>3, <1>4, <1>5, <1>6, <1>7, <2>1, <2>6 DEF CallOK
  <2>12. Serving(t)'
    <3>1. Surplus(t)' \/ ctl'.status = "ready"
      BY <1>1, <1>4, <2>1, <2>9 DEF Surplus
    <3>2. Reading(t)'
      BY <1>1, <1>4, <2>1, <2>8, <2>9, <3>1 DEF Reading
    <3> QED
      BY <1>1, <1>4, <1>7, <3>2 DEF Serving
  <2> QED
    BY <2>5, <2>10, <2>11, <2>12
<1>8. ASSUME req[t].cmd = "write"
      PROVE  DiskTypes' /\ CallOK(t)' /\ Serving(t)' /\ \A u \in Task \ {t} : dbuf'[u] = dbuf[u]
  <2>1. ctl' = ctl /\ dbuf' = dbuf
    BY <1>8 DEF Transfer
  <2>2. /\ dcount[t] < req[t].size /\ tokens[OpSem] <= 1
        /\ Exact(t, dcount[t] + 1)
        /\ \/ /\ ctl.status = "drq" /\ dcount[t] + 1 < req[t].size
              /\ AtSector(t, dcount[t] + 1)
           \/ ctl.status = "ready" /\ dcount[t] + 1 = req[t].size
    <3>1. Storing(t)
      BY <1>1, <1>2, <1>8 DEF Serving
    <3>2. Surplus(t)
      BY <1>1, <3>1 DEF Storing
    <3>3. tokens[OpSem] <= 1
      BY <1>1, <1>3, <3>2 DEF Surplus
    <3> QED
      BY <1>1, <3>1, <3>3 DEF Storing
  <2>3. DiskTypes'
    BY <1>1, <1>3, <1>4, <1>5, <2>1 DEF DiskTypes
  <2>4. CallOK(t)'
    BY <1>1, <1>3, <1>4, <1>5, <1>6, <1>8, <2>1, <2>2 DEF CallOK
  <2>5. Exact(t, dcount[t])'
    BY <1>1, <1>5, <1>8, <2>1, <2>2 DEF Exact, Base
  <2>6. \/ dcount'[t] = req'[t].size /\ ctl'.status = "ready"
        \/ dcount'[t] < req'[t].size /\ ctl'.status = "drq" /\ AtSector(t, dcount[t])'
    BY <1>1, <1>5, <2>1, <2>2 DEF AtSector, Base
  <2>7. Storing(t)'
    BY <1>1, <1>4, <2>2, <2>5, <2>6 DEF Storing
  <2>8. Serving(t)'
    BY <1>1, <1>4, <1>8, <2>7 DEF Serving
  <2> QED
    BY <2>1, <2>3, <2>4, <2>8
<1>9. SyncOK'
  BY <1>1, <1>3 DEF SyncOK, SyncTypes
<1>10. \A u \in waiting'[OpSem] : dpc'[u] = "poll"
  <2>1. waiting[OpSem] \subseteq Task
    BY <1>3 DEF SyncOK, SyncTypes
  <2> QED
    BY <1>1, <1>2, <1>3, <1>4, <2>1 DEF Channels
<1>11. /\ holder'[Channel] = t /\ waiting'[Channel] = waiting[Channel]
       /\ dpc'[t] \in InTransfer
       /\ \A u \in Task \ {t} : dpc'[u] = dpc[u] /\ req'[u] = req[u]
  BY <1>1, <1>2, <1>4 DEF InTransfer
<1>12. DiskTypes' /\ CallOK(t)' /\ Serving(t)' /\ \A u \in Task \ {t} : dbuf'[u] = dbuf[u]
  BY <1>6, <1>7, <1>8
<1> QED
  BY <1>2, <1>5, <1>9, <1>10, <1>11, <1>12, HolderSteps

(* The call returns: what it has moved is what it says, and the controller  *)
(* is left at rest to the task that had waited, if there is one.            *)
LEMMA UnlockChannelInv ==
  ASSUME DiskInv, NEW t \in Task, UnlockChannel(t)
  PROVE  DiskInv'
<1>1. /\ Free(t) /\ dpc[t] = "unlock" /\ dpc' = [dpc EXCEPT ![t] = "user"]
      /\ Leave(t, Channel)
      /\ req' = [req EXCEPT ![t] = NoCall]
      /\ dbuf' = [dbuf EXCEPT ![t] = <<>>]
      /\ dcount' = [dcount EXCEPT ![t] = 0]
      /\ UNCHANGED <<ctl, platter>>
  BY DEF UnlockChannel, At
<1>2. image' = IF req[t].cmd = "read" THEN image
               ELSE [s \in Sector |->
                       LET i == s - Start - req[t].addr + 1
                       IN IF i \in 1..dcount[t] THEN dbuf[t][i] ELSE image[s]]
  BY DEF UnlockChannel
<1>3. t = holder[Channel] /\ t \notin waiting[OpSem] /\ Serving(t) /\ CallOK(t)
  BY <1>1, TransferHolds DEF InTransfer
<1>4. /\ DiskTypes /\ SyncOK /\ Channels /\ \A u \in Task : CallOK(u)
      /\ OpSem \in Sem /\ Channel \in Mutex /\ Channel # OpSem /\ NoTask \notin Task
      /\ tokens[OpSem] \in Nat /\ dcount[t] \in Nat
      /\ req[t].size \in Nat /\ req[t].addr \in Nat
      /\ Start \in Nat /\ Total \in Nat
      /\ waiting[Channel] \subseteq Task /\ waiting[OpSem] \subseteq Task
  <2>1. DiskTypes /\ SyncOK /\ Channels /\ \A u \in Task : CallOK(u)
    BY DEF DiskInv
  <2> QED
    BY <2>1, DiskAssumption DEF SyncOK, SyncTypes, DiskTypes
<1>5. /\ dpc'[t] = "user" /\ \A u \in Task \ {t} : dpc'[u] = dpc[u]
      /\ dpc' \in [Task -> DiskLabel]
  BY <1>1, <1>4 DEF DiskTypes, DiskLabel, InTransfer
<1>6. /\ req'[t] = NoCall /\ dbuf'[t] = <<>> /\ dcount'[t] = 0
      /\ \A u \in Task \ {t} : /\ req'[u] = req[u] /\ dbuf'[u] = dbuf[u]
                               /\ dcount'[u] = dcount[u]
      /\ req' \in [Task -> [cmd : {"none", "read", "write"}, addr : Nat, size : Nat]]
      /\ dbuf' \in [Task -> Seq(Data)] /\ dcount' \in [Task -> Nat]
  BY <1>1, <1>4 DEF DiskTypes, NoCall
<1>7. /\ SyncOK' /\ Apart(Channel)
      /\ \/ /\ waiting[Channel] = {} /\ waiting'[Channel] = {}
            /\ holder'[Channel] = NoTask
         \/ /\ holder'[Channel] \in waiting[Channel]
            /\ waiting'[Channel] = waiting[Channel] \ {holder'[Channel]}
  BY <1>1, <1>4, UnlockEffect
<1>8. tokens'[OpSem] = tokens[OpSem] /\ waiting'[OpSem] = waiting[OpSem]
  BY <1>4, <1>7 DEF Apart
<1>9. ctl.status # "busy" /\ tokens[OpSem] <= 1 /\ Exact(t, dcount[t])
  BY <1>1, <1>3 DEF Serving
<1>10. image' = platter
  <2>1. CASE req[t].cmd = "read"
    BY <1>2, <1>9, <2>1 DEF Exact
  <2>2. CASE req[t].cmd # "read"
    <3>1. \A s \in Sector : s - Start - req[t].addr + 1 = s - Base(t)
      BY <1>4 DEF Base, Sector
    <3>2. image' = [s \in Sector |-> IF s - Base(t) \in 1..dcount[t]
                                     THEN dbuf[t][s - Base(t)] ELSE image[s]]
      BY <1>2, <2>2, <3>1
    <3>3. \A s \in Sector : image'[s] = platter[s]
      BY <1>9, <2>2, <3>2 DEF Exact
    <3> QED
      BY <1>4, <3>2, <3>3 DEF DiskTypes
  <2> QED
    BY <2>1, <2>2
<1>11. DiskTypes'
  BY <1>1, <1>4, <1>5, <1>6, <1>10 DEF DiskTypes
<1>12. Resting'
  BY <1>1, <1>8, <1>9, <1>10 DEF Resting
<1>13. Channels'
  <2>1. t \notin waiting[Channel] /\ holder'[Channel] # t
    BY <1>3, <1>4, <1>7 DEF SyncOK
  <2>2. "user" \notin InTransfer
    BY DEF InTransfer
  <2>3. \A u \in Task : dpc'[u] \in InTransfer
                          <=> u = holder'[Channel] \/ u \in waiting'[Channel]
    BY <1>3, <1>4, <1>5, <1>7, <2>1, <2>2 DEF Channels
  <2>4. \A u \in waiting'[Channel] : dpc'[u] = "send"
    BY <1>4, <1>5, <1>7, <2>1 DEF Channels
  <2>5. \A u \in waiting'[OpSem] : dpc'[u] = "poll"
    BY <1>3, <1>4, <1>5, <1>8 DEF Channels
  <2> QED
    BY <2>3, <2>4, <2>5 DEF Channels
<1>14. \A u \in Task : CallOK(u)'
  <2> SUFFICES ASSUME NEW u \in Task PROVE CallOK(u)'
    OBVIOUS
  <2>1. CASE u = t
    BY <1>5, <1>6, <2>1 DEF CallOK
  <2>2. CASE u # t
    BY <1>4, <1>5, <1>6, <2>2 DEF CallOK
  <2> QED
    BY <2>1, <2>2
<1>15. ASSUME NEW u \in Task, u = holder'[Channel]
       PROVE  Serving(u)'
  <2>1. u \in waiting[Channel]
    BY <1>4, <1>7, <1>15
  <2>2. dpc[u] = "send" /\ u # t
    BY <1>1, <1>4, <2>1 DEF Channels
  <2> QED
    BY <1>5, <1>12, <2>2 DEF Serving
<1> QED
  BY <1>7, <1>11, <1>12, <1>13, <1>14, <1>15 DEF DiskInv

(* The controller works only for the call that has the channel: it is one   *)
(* sector ahead at most, and its interrupt leaves one token at most.        *)
LEMMA ControllerInv ==
  ASSUME DiskInv, Controller
  PROVE  DiskInv'
<1>1. /\ ctl.status = "busy" /\ Post(OpSem)
      /\ UNCHANGED <<dpc, req, dbuf, dcount, image>>
  BY DEF Controller, do_handle_ide_primary, inCall
<1>2. /\ DiskTypes /\ SyncOK /\ Channels /\ \A u \in Task : CallOK(u)
      /\ holder[Channel] = NoTask => Resting
      /\ \A u \in Task : u = holder[Channel] => Serving(u)
      /\ OpSem \in Sem /\ Channel \in Mutex /\ Channel # OpSem
      /\ Start \in Nat /\ Total \in Nat /\ tokens[OpSem] \in Nat
      /\ holder[Channel] \in Task \cup {NoTask}
  <2>1. /\ DiskTypes /\ SyncOK /\ Channels /\ \A u \in Task : CallOK(u)
        /\ holder[Channel] = NoTask => Resting
        /\ \A u \in Task : u = holder[Channel] => Serving(u)
    BY DEF DiskInv
  <2> QED
    BY <2>1, DiskAssumption DEF SyncOK, SyncTypes
<1>3. PICK t \in Task : t = holder[Channel]
  BY <1>1, <1>2 DEF Resting
<1>4. /\ Serving(t) /\ CallOK(t)
      /\ dcount[t] \in Nat /\ req[t].size \in Nat /\ req[t].addr \in Nat
      /\ dbuf[t] \in Seq(Data)
  BY <1>2, <1>3 DEF DiskTypes
<1>5. dpc[t] \in {"loop", "wait", "poll"}
  <2>1. dpc[t] \in InTransfer
    BY <1>2, <1>3 DEF Channels
  <2> QED
    BY <1>1, <1>4, <2>1 DEF InTransfer, Serving, Resting
<1>6. /\ req[t].cmd \in {"read", "write"}
      /\ req[t].size > 0 /\ req[t].addr + req[t].size <= Total
      /\ Len(dbuf[t]) = IF req[t].cmd = "read" THEN dcount[t] ELSE req[t].size
  BY <1>4, <1>5 DEF CallOK
<1>7. /\ dcount[t] < req[t].size /\ Surplus(t) /\ AtSector(t, dcount[t])
      /\ req[t].cmd = "read" => Exact(t, 0)
      /\ req[t].cmd = "write" => dpc[t] \in {"wait", "poll"} /\ Exact(t, dcount[t])
  <2>1. CASE req[t].cmd = "read"
    <3>1. Reading(t)
      BY <1>4, <1>5, <2>1 DEF Serving
    <3> QED
      BY <1>1, <2>1, <3>1 DEF Reading
  <2>2. CASE req[t].cmd = "write"
    <3>1. Storing(t)
      BY <1>4, <1>5, <2>2 DEF Serving
    <3> QED
      BY <1>1, <2>2, <3>1 DEF Storing
  <2> QED
    BY <1>6, <2>1, <2>2
<1>8. /\ SyncOK' /\ Apart(OpSem)
      /\ \/ /\ waiting[OpSem] = {} /\ waiting'[OpSem] = {}
            /\ tokens'[OpSem] = tokens[OpSem] + 1
         \/ /\ tokens'[OpSem] = tokens[OpSem]
            /\ \E u \in waiting[OpSem] : waiting'[OpSem] = waiting[OpSem] \ {u}
  BY <1>1, <1>2, PostEffect
<1>9. /\ holder'[Channel] = t /\ waiting'[Channel] = waiting[Channel]
      /\ tokens'[OpSem] <= tokens[OpSem] + 1
      /\ waiting'[OpSem] \subseteq waiting[OpSem]
  BY <1>2, <1>3, <1>8 DEF Apart
<1>10. ctl'.status # "busy" => Surplus(t)'
  <2>1. tokens[OpSem] <= IF dpc[t] = "poll" THEN 0 ELSE 1
    BY <1>1, <1>2, <1>7 DEF Surplus
  <2>2. tokens'[OpSem] \in Nat
    BY <1>2, <1>8 DEF SyncOK, SyncTypes
  <2> QED
    BY <1>1, <1>2, <1>9, <2>1, <2>2 DEF Surplus
<1>11. CallOK(t)'
  BY <1>1, <1>4 DEF CallOK
<1>12. /\ ctl.at = Base(t) + dcount[t] + 1 /\ ctl.left = req[t].size - dcount[t]
       /\ ctl.cmd = req[t].cmd /\ Base(t) \in Int /\ Base(t)' = Base(t)
       /\ ctl.at \in Sector
  <2>1. Base(t) = Start + req[t].addr - 1 /\ Base(t)' = Base(t)
    BY <1>1 DEF Base
  <2>2. Base(t) \in Int /\ Base(t) + 1 \in Nat
    BY <1>2, <1>4, <2>1
  <2>3. /\ ctl.at = Base(t) + dcount[t] + 1 /\ ctl.left = req[t].size - dcount[t]
        /\ ctl.cmd = req[t].cmd
    BY <1>7 DEF AtSector
  <2>4. /\ dcount[t] < req[t].size /\ req[t].addr + req[t].size <= Total
        /\ ctl.at = Start + req[t].addr + dcount[t]
    BY <1>2, <1>4, <1>6, <1>7, <2>1, <2>3
  <2>5. ctl.at \in 0..(Start + Total - 1)
    BY <1>2, <1>4, <2>4
  <2> QED
    BY <2>1, <2>2, <2>3, <2>5 DEF Sector
<1>13. DiskTypes' /\ Serving(t)'
  <2>1. CASE /\ ctl' = [ctl EXCEPT !.status = "error", !.left = 0]
             /\ platter' = platter
    <3>1. DiskTypes' /\ ctl'.status = "error"
      BY <1>1, <1>2, <2>1 DEF DiskTypes
    <3>2. \A n \in Nat : Exact(t, n)' <=> Exact(t, n)
      BY <1>1, <2>1 DEF Exact, Base
    <3>3. req[t].cmd = "read" => Reading(t)'
      BY <1>1, <1>7, <1>10, <3>1, <3>2 DEF Reading
    <3>4. req[t].cmd = "write" => Storing(t)'
      BY <1>1, <1>4, <1>7, <1>10, <3>1, <3>2 DEF Storing
    <3> QED
      BY <1>1, <1>5, <1>6, <3>1, <3>3, <3>4 DEF Serving
  <2>2. CASE /\ ctl.cmd = "read" /\ ctl' = [ctl EXCEPT !.status = "drq"]
             /\ platter' = platter
    <3>1. /\ DiskTypes' /\ ctl'.status = "drq"
          /\ ctl'.cmd = ctl.cmd /\ ctl'.at = ctl.at /\ ctl'.left = ctl.left
      BY <1>1, <1>2, <2>2 DEF DiskTypes
    <3>2. Exact(t, 0)' /\ AtSector(t, dcount[t])' /\ req[t].cmd = "read"
      BY <1>1, <1>7, <1>12, <2>2, <3>1 DEF Exact, AtSector, Base
    <3>3. Reading(t)'
      BY <1>1, <1>7, <1>10, <3>1, <3>2 DEF Reading
    <3> QED
      BY <1>1, <1>5, <3>1, <3>2, <3>3 DEF Serving
  <2>3. CASE /\ ctl.cmd = "write"
             /\ \E u \in Task :
                  /\ holder[Channel] = u
                  /\ platter' = [platter EXCEPT ![ctl.at] = dbuf[u][dcount[u] + 1]]
             /\ ctl' = IF ctl.left = 1 THEN Idle
                       ELSE [ctl EXCEPT !.status = "drq", !.at = @ + 1, !.left = @ - 1]
    <3>1. /\ platter' = [platter EXCEPT ![ctl.at] = dbuf[t][dcount[t] + 1]]
          /\ req[t].cmd = "write" /\ Len(dbuf[t]) = req[t].size
          /\ dpc[t] \in {"wait", "poll"} /\ Exact(t, dcount[t])
      BY <1>3, <1>6, <1>7, <1>12, <2>3
    <3>2. dbuf[t][dcount[t] + 1] \in Data
      BY <1>4, <1>7, <3>1
    <3>3. platter' \in [Sector -> Data]
      BY <1>2, <3>1, <3>2 DEF DiskTypes
    <3>4. Exact(t, dcount[t] + 1)'
      <4> SUFFICES ASSUME NEW s \in Sector
                   PROVE  platter'[s] = IF s - Base(t) \in 1..(dcount[t] + 1)
                                        THEN dbuf[t][s - Base(t)] ELSE image[s]
        BY <1>1, <1>12, <3>1 DEF Exact
      <4>0. s \in Int
        BY <1>2 DEF Sector
      <4>1. platter[s] = IF s - Base(t) \in 1..dcount[t]
                         THEN dbuf[t][s - Base(t)] ELSE image[s]
        BY <3>1 DEF Exact
      <4>2. CASE s = ctl.at
        <5>1. s - Base(t) = dcount[t] + 1
          BY <1>4, <1>12, <4>0, <4>2
        <5>2. platter'[s] = dbuf[t][dcount[t] + 1]
          BY <1>2, <3>1, <4>2 DEF DiskTypes
        <5> QED
          BY <1>4, <5>1, <5>2
      <4>3. CASE s # ctl.at
        <5>1. platter'[s] = platter[s]
          BY <1>2, <3>1, <4>3 DEF DiskTypes
        <5>2. s - Base(t) \in 1..(dcount[t] + 1) <=> s - Base(t) \in 1..dcount[t]
          BY <1>4, <1>12, <4>0, <4>3
        <5> QED
          BY <4>1, <5>1, <5>2
      <4> QED
        BY <4>2, <4>3
    <3>5. /\ ctl' \in [status : {"ready", "busy", "drq", "error"},
                       cmd : {"none", "read", "write"}, at : Nat, left : Nat]
          /\ \/ ctl'.status = "ready" /\ dcount[t] + 1 = req[t].size
             \/ /\ ctl'.status = "drq" /\ dcount[t] + 1 < req[t].size
                /\ AtSector(t, dcount[t] + 1)'
      <4>1. CASE ctl.left = 1
        BY <1>4, <1>12, <2>3, <4>1 DEF Idle
      <4>2. CASE ctl.left # 1
        <5>1. dcount[t] + 1 < req[t].size /\ ctl.left - 1 \in Nat /\ ctl.at + 1 \in Nat
          BY <1>2, <1>4, <1>7, <1>12, <4>2 DEF Sector
        <5>2. /\ ctl'.status = "drq" /\ ctl'.at = ctl.at + 1
              /\ ctl'.left = ctl.left - 1 /\ ctl'.cmd = ctl.cmd
              /\ ctl' \in [status : {"ready", "busy", "drq", "error"},
                           cmd : {"none", "read", "write"}, at : Nat, left : Nat]
          BY <1>2, <2>3, <4>2, <5>1 DEF DiskTypes
        <5>3. AtSector(t, dcount[t] + 1)'
          BY <1>1, <1>4, <1>12, <5>2 DEF AtSector
        <5> QED
          BY <5>1, <5>2, <5>3
      <4> QED
        BY <4>1, <4>2
    <3>6. DiskTypes'
      BY <1>1, <1>2, <3>3, <3>5 DEF DiskTypes
    <3>7. Surplus(t)'
      BY <1>10, <3>5
    <3>8. Storing(t)'
      BY <1>1, <1>7, <3>1, <3>4, <3>5, <3>7 DEF Storing
    <3> QED
      BY <1>1, <3>1, <3>6, <3>8 DEF Serving
  <2> QED
    BY <2>1, <2>2, <2>3 DEF Controller
<1>14. \A u \in waiting'[OpSem] : dpc'[u] = "poll"
  BY <1>1, <1>2, <1>9 DEF Channels
<1>15. /\ dpc'[t] \in InTransfer
       /\ \A u \in Task \ {t} : /\ dpc'[u] = dpc[u] /\ req'[u] = req[u]
                                /\ dbuf'[u] = dbuf[u] /\ dcount'[u] = dcount[u]
  BY <1>1, <1>5 DEF InTransfer
<1> QED
  BY <1>3, <1>8, <1>9, <1>11, <1>13, <1>14, <1>15, HolderSteps

-----------------------------------------------------------------------------
(* Every step of the driver and of the controller keeps the invariant.      *)
LEMMA DiskNextInv ==
  ASSUME DiskInv, [DiskNext]_dvars
  PROVE  DiskInv'
<1>1. ASSUME NEW t \in Task, CallDisk(t) \/ DiskStep(t)
      PROVE  DiskInv'
  <2>1. CASE CallDisk(t)
    BY <2>1, CallDiskInv
  <2>2. CASE LockChannel(t)
    BY <2>2, LockChannelInv
  <2>3. CASE disk_send_cmd(t)
    BY <2>3, SendInv
  <2>4. CASE Loop(t)
    BY <2>4, LoopInv
  <2>5. CASE WaitIrq(t)
    BY <2>5, WaitIrqInv
  <2>6. CASE Transfer(t)
    BY <2>6, TransferInv
  <2>7. CASE TransferFails(t)
    BY <2>7, TransferFailsInv
  <2>8. CASE UnlockChannel(t)
    BY <2>8, UnlockChannelInv
  <2> QED
    BY <1>1, <2>1, <2>2, <2>3, <2>4, <2>5, <2>6, <2>7, <2>8 DEF DiskStep
<1>2. CASE Controller
  BY <1>2, ControllerInv
<1>3. CASE UNCHANGED dvars
  <2> USE <1>3 DEF dvars, svars, inCall
  <2>1. SyncOK' /\ DiskTypes' /\ Channels'
    BY DEF DiskInv, SyncOK, SyncTypes, DiskTypes, Channels
  <2>2. \A t \in Task : CallOK(t)'
    BY DEF DiskInv, CallOK
  <2>3. holder'[Channel] = NoTask => Resting'
    BY DEF DiskInv, Resting
  <2>4. ASSUME NEW t \in Task, t = holder'[Channel]
        PROVE  Serving(t)'
    <3>1. Serving(t)
      BY <2>4 DEF DiskInv
    <3> QED
      BY <3>1 DEF Serving, Resting, Exact, Base, Reading, Storing, Surplus, AtSector
  <2> QED
    BY <2>1, <2>2, <2>3, <2>4 DEF DiskInv
<1> QED
  BY <1>1, <1>2, <1>3 DEF DiskNext

(* What a call has in its buffer and on the disk, whatever the tokens were. *)
LEMMA DiskInvExact ==
  ASSUME DiskInv
  PROVE  TransfersExact
<1>1. /\ DiskTypes /\ SyncOK /\ Channels /\ \A t \in Task : CallOK(t)
      /\ holder[Channel] = NoTask => Resting
      /\ \A t \in Task : t = holder[Channel] => Serving(t)
      /\ OpSem \in Sem /\ Channel \in Mutex /\ NoTask \notin Task
      /\ Start \in Nat /\ Total \in Nat /\ tokens[OpSem] \in Nat
      /\ holder[Channel] \in Task \cup {NoTask}
  <2>1. /\ DiskTypes /\ SyncOK /\ Channels /\ \A t \in Task : CallOK(t)
        /\ holder[Channel] = NoTask => Resting
        /\ \A t \in Task : t = holder[Channel] => Serving(t)
    BY DEF DiskInv
  <2> QED
    BY <2>1, DiskAssumption DEF SyncOK, SyncTypes
<1>2. \A t \in Task : t \in Using <=> t = holder[Channel]
  BY <1>1 DEF Using, Channels, SyncOK
<1>3. Using \subseteq Task
  BY DEF Using
<1>4. Using = {} => Resting
  BY <1>1, <1>2
<1>5. ASSUME NEW t \in Using
      PROVE  /\ tokens[OpSem] <= 2 /\ dcount[t] <= req[t].size
             /\ SubSeq(dbuf[t], 1, dcount[t]) = Moved(t)
  <2>1. /\ t \in Task /\ Serving(t) /\ CallOK(t) /\ dpc[t] \in InTransfer
        /\ dcount[t] \in Nat /\ req[t].size \in Nat /\ req[t].addr \in Nat
        /\ dbuf[t] \in Seq(Data)
    BY <1>1, <1>2, <1>3 DEF DiskTypes, Using
  <2>2. CASE dpc[t] = "send"
    <3>1. dcount[t] = 0 /\ dbuf[t] = <<>> /\ req[t].size = 0 /\ tokens[OpSem] <= 1
      BY <2>1, <2>2 DEF CallOK, NoCall, Serving, Resting
    <3> QED
      BY <1>1, <2>1, <3>1, SubSeqEmpty DEF Moved
  <2>3. CASE dpc[t] # "send"
    <3>1. /\ req[t].cmd \in {"read", "write"} /\ dcount[t] <= req[t].size
          /\ req[t].addr + req[t].size <= Total
          /\ Len(dbuf[t]) = IF req[t].cmd = "read" THEN dcount[t] ELSE req[t].size
      BY <2>1, <2>3 DEF CallOK, InTransfer
    <3>2. dpc[t] \in {"loop", "wait", "poll", "unlock"}
      BY <2>1, <2>3 DEF InTransfer
    <3>3. /\ tokens[OpSem] <= 2
          /\ \E n \in {dcount[t], dcount[t] + 1} : Exact(t, n)
      <4>1. CASE dpc[t] = "unlock"
        BY <1>1, <2>1, <4>1 DEF Serving
      <4>2. CASE dpc[t] # "unlock" /\ req[t].cmd = "read"
        <5>1. Reading(t)
          BY <2>1, <3>2, <4>2 DEF Serving
        <5> QED
          BY <1>1, <4>2, <5>1 DEF Reading, Exact, Surplus
      <4>3. CASE dpc[t] # "unlock" /\ req[t].cmd = "write"
        <5>1. Storing(t)
          BY <2>1, <3>2, <4>3 DEF Serving
        <5> QED
          BY <1>1, <5>1 DEF Storing, Surplus
      <4> QED
        BY <3>1, <4>1, <4>2, <4>3
    <3>4. \A i \in 1..dcount[t] : dbuf[t][i] = platter[Start + req[t].addr + i - 1]
      <4> SUFFICES ASSUME NEW i \in 1..dcount[t]
                   PROVE  dbuf[t][i] = platter[Base(t) + i]
        BY <1>1, <2>1 DEF Base
      <4>1. CASE req[t].cmd = "read"
        BY <3>3, <4>1 DEF Exact
      <4>2. CASE req[t].cmd = "write"
        <5>1. PICK n \in Nat : n >= dcount[t] /\ Exact(t, n)
          BY <2>1, <3>3
        <5>2. Base(t) \in Int /\ Base(t) + i \in Sector /\ (Base(t) + i) - Base(t) = i
          <6>1. Base(t) = Start + req[t].addr - 1 /\ i \in Int /\ 1 <= i /\ i <= dcount[t]
            BY <2>1 DEF Base
          <6>2. req[t].addr + i <= Total
            <7>1. dcount[t] <= req[t].size /\ req[t].addr + req[t].size <= Total
              BY <3>1
            <7> QED
              BY <1>1, <2>1, <6>1, <7>1
          <6>3. Base(t) \in Int
            BY <1>1, <2>1, <6>1
          <6>4. Base(t) + i = Start + req[t].addr + i - 1
            BY <1>1, <2>1, <6>1
          <6>5. Start \in Nat /\ Total \in Nat /\ req[t].addr \in Nat /\ i \in Nat
            BY <1>1, <2>1, <6>1
          <6>6. Start + req[t].addr + i - 1 \in 0..(Start + Total - 1)
            BY <6>1, <6>2, <6>5, SectorInside
          <6> QED
            BY <6>1, <6>3, <6>4, <6>6 DEF Sector
        <5>3. i \in 1..n
          BY <2>1, <5>1
        <5> QED
          BY <4>2, <5>1, <5>2, <5>3 DEF Exact
      <4> QED
        BY <3>1, <4>1, <4>2
    <3>5. SubSeq(dbuf[t], 1, dcount[t]) = [i \in 1..dcount[t] |-> dbuf[t][i]]
      <4> DEFINE q == SubSeq(dbuf[t], 1, dcount[t])
      <4>1. \A i \in 1..dcount[t] : dbuf[t][i] \in Data
        BY <2>1, <3>1
      <4>2. /\ q \in Seq(Data) /\ Len(q) = dcount[t]
            /\ \A i \in 1..dcount[t] : q[i] = dbuf[t][i]
        BY <2>1, <4>1, SubSeqProperties
      <4> QED
        BY <2>1, <4>2
    <3> QED
      BY <3>1, <3>3, <3>4, <3>5 DEF Moved
  <2> QED
    BY <2>2, <2>3
<1>6. Using = {} => /\ ctl.status # "busy" /\ tokens[OpSem] <= 2 /\ platter = image
  BY <1>1, <1>4 DEF Resting
<1>7. \A t, u \in Using : t = u
  BY <1>2, <1>3
<1>8. tokens[OpSem] <= 2
  BY <1>5, <1>6
<1> QED
  BY <1>5, <1>6, <1>7, <1>8 DEF TransfersExact

(* One call at a time has the controller, nobody finds it at work, and it is *)
(* never more than one sector ahead of the count of the call.               *)
THEOREM DiskInvAlways == DiskSpec => []DiskInv
<1>1. DiskInit => DiskInv
  BY DiskInitInv
<1>2. DiskInv /\ [DiskNext]_dvars => DiskInv'
  BY DiskNextInv
<1> QED
  BY <1>1, <1>2, PTL DEF DiskSpec

(* A disk_read or disk_write that returns has moved exactly the sectors it  *)
(* counts, whatever interrupts were left over, for any processes, any       *)
(* partition and any size of a transfer.                                    *)
THEOREM CallsMoveWhatTheyCount == DiskSpec => []TransfersExact
<1>1. DiskInv => TransfersExact
  BY DiskInvExact
<1> QED
  BY <1>1, DiskInvAlways, PTL

-----------------------------------------------------------------------------
(* The terminal.                                                            *)

\* The labels of a process that has the console's mutex or waits for it.
Draining == {"get", "notify", "show", "unlock"}

\* Who has the console, who waits for it, and who for room and for a key.
Queues ==
  /\ \A t \in Task : pc[t] \in Draining
                       <=> t = holder[Console] \/ t \in waiting[Console]
  /\ \A t \in waiting[Console] : pc[t] = "get"
  /\ \A t \in waiting[OSem] : pc[t] \in {"cr_put", "put"}
  /\ \A t \in waiting[ISem] : pc[t] = "key_get"

\* What a call of tty_write has still to put: two characters for each at most,
\* one less when the carriage return of a newline is in the ring.  And the line
\* of tty_read, which has room for a key whenever it waits for one.
CharsLeft(t) ==
  /\ hand[t] # None <=> pc[t] \in {"notify", "show"}
  /\ pc[t] \in {"cr_wait", "cr_put", "put_wait", "put"} => left[t] > 0
  /\ sent[t] + 2 * left[t]
       <= 2 * MaxWrite + (IF pc[t] \in {"put_wait", "put"} THEN 1 ELSE 0)

LineRoom(t) ==
  /\ pc[t] \in {"key_wait", "key_get"} => Len(line[t]) < size[t]
  /\ pc[t] = "user" => line[t] = <<>>
  /\ pc[t] \in Writing /\ back[t] = "user" => line[t] = <<>>

Lines == line \in [Task -> Seq({"char", "return", "newline"})]

\* A character that is put and not displayed is in the ring, or in the hand of
\* the process that drains it.
Underway(c) == \/ \E t \in Task : hand[t] = c
               \/ \E i \in 1..Len(ofifo) : ofifo[i] = c

\* The labels at which a call has characters underway.
Pending == {"put_wait", "put", "lock", "get", "notify", "show"}

\* Of every call the characters underway are those after the displayed ones, in
\* their order; and there is none when the call goes on.
Awaited ==
  \A c \in OutChar : Underway(c) <=> shown[c[1]] < c[2] /\ c[2] <= sent[c[1]]

Sorted ==
  \A i, j \in 1..Len(ofifo) :
    i < j /\ ofifo[i][1] = ofifo[j][1] => ofifo[i][2] < ofifo[j][2]

HandFirst ==
  \A t \in Task, j \in 1..Len(ofifo) :
    hand[t] # None /\ hand[t][1] = ofifo[j][1] => hand[t][2] < ofifo[j][2]

Settled ==
  \A t \in Task : /\ shown[t] <= sent[t]
                  /\ pc[t] \notin Pending => shown[t] = sent[t]

InOrder == Awaited /\ Sorted /\ HandFirst /\ Settled

TtyInv ==
  /\ SyncOK /\ Queues
  /\ TtyTypeOK /\ Lines
  /\ \A t \in Task : CharsLeft(t) /\ LineRoom(t)
  /\ OutputAccounted /\ InputAccounted
  /\ InOrder

Labels == Writing \cup {"user", "key_wait", "key_get", "echoed"}

Rooms   == Cardinality(Have({"cr_put", "put"}))
Emptied == Cardinality(Have({"notify"}))
Keys    == Cardinality(Have({"key_get"}))

One(x, L) == IF x \in L THEN 1 ELSE 0

(* Two sets that differ in one element.                                     *)
LEMMA CountOne ==
  ASSUME NEW A, NEW B, NEW t, IsFiniteSet(A), A \ {t} = B \ {t}
  PROVE  /\ Cardinality(A) \in Nat /\ Cardinality(B) \in Nat
         /\ Cardinality(B) = Cardinality(A) - One(t, A) + One(t, B)
<1>1. IsFiniteSet(A \ {t}) /\ Cardinality(A \ {t}) = Cardinality(A) - One(t, A)
  <2>1. Cardinality(A) \in Nat
    BY FS_CardinalityType
  <2> QED
    BY <2>1, FS_RemoveElement DEF One
<1>2. IsFiniteSet((A \ {t}) \cup {t})
  BY <1>1, FS_AddElement
<1>3. IsFiniteSet(B)
  <2>1. B \subseteq (A \ {t}) \cup {t}
    OBVIOUS
  <2> QED
    BY <1>2, <2>1, FS_Subset
<1>4. Cardinality(B \ {t}) = Cardinality(B) - One(t, B)
  <2>1. Cardinality(B) \in Nat
    BY <1>3, FS_CardinalityType
  <2> QED
    BY <1>3, <2>1, FS_RemoveElement DEF One
<1>5. Cardinality(A) \in Nat /\ Cardinality(B) \in Nat /\ One(t, A) \in Nat /\ One(t, B) \in Nat
  BY <1>3, FS_CardinalityType DEF One
<1> QED
  BY <1>1, <1>4, <1>5

(* The count of the processes that have a label, when one moves.            *)
LEMMA HaveMoves ==
  ASSUME NEW L, NEW t \in Task,
         \A u \in Task \ {t} : u \in Have(L)' <=> u \in Have(L)
  PROVE  /\ Cardinality(Have(L)) \in Nat /\ Cardinality(Have(L)') \in Nat
         /\ Cardinality(Have(L)')
              = Cardinality(Have(L)) - One(t, Have(L)) + One(t, Have(L)')
<1>1. Have(L) \subseteq Task /\ Have(L)' \subseteq Task
  BY DEF Have
<1>2. IsFiniteSet(Have(L))
  BY <1>1, TtyAssumption, FS_Subset
<1>3. Have(L) \ {t} = Have(L)' \ {t}
  BY <1>1
<1> QED
  BY <1>2, <1>3, CountOne

(* What waiting says of the others when nobody, t or u begins or ends to    *)
(* wait for q.                                                              *)
LEMMA FreeSame ==
  ASSUME NEW q \in Mutex \cup Sem, Apart(q), waiting'[q] = waiting[q]
  PROVE  \A u \in Task : Free(u)' <=> Free(u)
BY DEF Apart, Free

(* A task that waits is counted at no label.                                *)
LEMMA FreeLost ==
  ASSUME NEW q \in Mutex \cup Sem, Apart(q), NEW t \in Task,
         waiting'[q] = waiting[q] \cup {t}
  PROVE  ~ Free(t)' /\ \A u \in Task \ {t} : Free(u)' <=> Free(u)
BY DEF Apart, Free

(* A task let through is counted at its label.                              *)
LEMMA FreeGained ==
  ASSUME SyncOK, NEW q \in Mutex \cup Sem, Apart(q), NEW u \in waiting[q],
         waiting'[q] = waiting[q] \ {u}
  PROVE  /\ Free(u)' /\ ~ Free(u)
         /\ \A v \in Task \ {u} : Free(v)' <=> Free(v)
<1>1. \A r \in Mutex \cup Sem : r # q => u \notin waiting[r]
  BY DEF SyncOK
<1> QED
  BY <1>1 DEF Apart, Free

(* A process that is not waiting moves, and nobody else does.               *)
LEMMA MoveCounts ==
  ASSUME NEW L, NEW t \in Task, NEW a, NEW b, Goto(t, a, b),
         pc \in [Task -> Labels], \A u \in Task : Free(u)' <=> Free(u)
  PROVE  /\ Cardinality(Have(L)) \in Nat /\ Cardinality(Have(L)') \in Nat
         /\ Cardinality(Have(L)') = Cardinality(Have(L)) - One(a, L) + One(b, L)
<1>1. Free(t) /\ pc[t] = a /\ pc' = [pc EXCEPT ![t] = b]
  BY DEF Goto
<1>2. pc'[t] = b /\ \A u \in Task \ {t} : pc'[u] = pc[u]
  BY <1>1
<1>3. \A u \in Task \ {t} : u \in Have(L)' <=> u \in Have(L)
  BY <1>2 DEF Have
<1>4. (t \in Have(L) <=> a \in L) /\ (t \in Have(L)' <=> b \in L)
  BY <1>1, <1>2 DEF Have
<1> QED
  BY <1>3, <1>4, HaveMoves DEF One

(* A process moves and waits: it is not counted until it is let through.    *)
LEMMA WaitCounts ==
  ASSUME NEW L, NEW t \in Task, NEW a, NEW b, Goto(t, a, b),
         pc \in [Task -> Labels], ~ Free(t)',
         \A u \in Task \ {t} : Free(u)' <=> Free(u)
  PROVE  /\ Cardinality(Have(L)) \in Nat /\ Cardinality(Have(L)') \in Nat
         /\ Cardinality(Have(L)') = Cardinality(Have(L)) - One(a, L)
<1>1. Free(t) /\ pc[t] = a /\ pc' = [pc EXCEPT ![t] = b]
  BY DEF Goto
<1>2. \A u \in Task \ {t} : pc'[u] = pc[u]
  BY <1>1
<1>3. \A u \in Task \ {t} : u \in Have(L)' <=> u \in Have(L)
  BY <1>2 DEF Have
<1>4. (t \in Have(L) <=> a \in L) /\ t \notin Have(L)'
  BY <1>1 DEF Have
<1>5. /\ Cardinality(Have(L)) \in Nat /\ Cardinality(Have(L)') \in Nat
      /\ Cardinality(Have(L)')
           = Cardinality(Have(L)) - One(t, Have(L)) + One(t, Have(L)')
  BY <1>3, HaveMoves
<1> QED
  BY <1>4, <1>5 DEF One

(* A process is let through, and nobody of those counted moves.             *)
LEMMA GainCounts ==
  ASSUME NEW L, NEW u \in Task, ~ Free(u), Free(u)', pc'[u] = pc[u],
         \A v \in Task \ {u} : /\ Free(v)' <=> Free(v)
                               /\ pc'[v] \in L <=> pc[v] \in L
  PROVE  /\ Cardinality(Have(L)) \in Nat /\ Cardinality(Have(L)') \in Nat
         /\ Cardinality(Have(L)') = Cardinality(Have(L)) + One(pc[u], L)
<1>1. \A v \in Task \ {u} : v \in Have(L)' <=> v \in Have(L)
  BY DEF Have
<1>2. u \notin Have(L) /\ (u \in Have(L)' <=> pc[u] \in L)
  BY DEF Have
<1>3. /\ Cardinality(Have(L)) \in Nat /\ Cardinality(Have(L)') \in Nat
      /\ Cardinality(Have(L)')
           = Cardinality(Have(L)) - One(u, Have(L)) + One(u, Have(L)')
  BY <1>1, HaveMoves
<1> QED
  BY <1>2, <1>3 DEF One

SyncPart == SyncOK /\ Queues /\ OutputAccounted /\ InputAccounted

(* What TtyInv says of the constants and the counts.                        *)
LEMMA TtyFacts ==
  ASSUME TtyInv
  PROVE  /\ SyncOK /\ Queues /\ pc \in [Task -> Labels]
         /\ OSem \in Sem /\ ISem \in Sem /\ OSem # ISem /\ Console \in Mutex
         /\ Console # OSem /\ Console # ISem /\ NoTask \notin Task
         /\ tokens[OSem] \in Nat /\ tokens[ISem] \in Nat
         /\ Len(ofifo) \in Nat /\ Len(ififo) \in Nat /\ lost \in Nat
         /\ tokens[OSem] + Len(ofifo) + Rooms + Emptied = OSize
         /\ tokens[ISem] + Keys = Len(ififo) + lost
         /\ \A q \in Mutex \cup Sem : waiting[q] \subseteq Task
<1>1. /\ SyncOK /\ Queues /\ TtyTypeOK /\ OutputAccounted /\ InputAccounted
  BY DEF TtyInv
<1>2. /\ pc \in [Task -> Labels] /\ Len(ofifo) \in Nat /\ Len(ififo) \in Nat
      /\ lost \in Nat
  BY <1>1 DEF TtyTypeOK, Labels
<1>3. /\ OSem \in Sem /\ ISem \in Sem /\ OSem # ISem /\ Console \in Mutex
      /\ Console # OSem /\ Console # ISem /\ NoTask \notin Task
  BY TtyAssumption
<1>4. /\ tokens[OSem] + Len(ofifo) + Rooms + Emptied = OSize
      /\ tokens[ISem] + Keys = Len(ififo) + lost
  BY <1>1 DEF OutputAccounted, InputAccounted, Rooms, Emptied, Keys
<1>5. /\ tokens[OSem] \in Nat /\ tokens[ISem] \in Nat
      /\ \A q \in Mutex \cup Sem : waiting[q] \subseteq Task
  BY <1>1, <1>3 DEF SyncOK, SyncTypes
<1> QED
  BY <1>1, <1>2, <1>3, <1>4, <1>5

(* A step of one process that touches neither semaphore nor mutex.          *)
LEMMA LocalStep ==
  ASSUME TtyInv, NEW t \in Task, NEW a, NEW b, Goto(t, a, b), UNCHANGED svars,
         a \in Draining <=> b \in Draining
  PROVE  /\ SyncOK' /\ Queues'
         /\ Rooms \in Nat /\ Emptied \in Nat /\ Keys \in Nat
         /\ Rooms' = Rooms - One(a, {"cr_put", "put"}) + One(b, {"cr_put", "put"})
         /\ Emptied' = Emptied - One(a, {"notify"}) + One(b, {"notify"})
         /\ Keys' = Keys - One(a, {"key_get"}) + One(b, {"key_get"})
<1>1. /\ Free(t) /\ pc[t] = a /\ pc' = [pc EXCEPT ![t] = b]
      /\ holder' = holder /\ depth' = depth /\ tokens' = tokens
      /\ waiting' = waiting
  BY DEF Goto, svars
<1>2. /\ SyncOK /\ Queues /\ pc \in [Task -> Labels]
      /\ OSem \in Sem /\ ISem \in Sem /\ Console \in Mutex
      /\ \A q \in Mutex \cup Sem : waiting[q] \subseteq Task
  BY TtyFacts
<1>3. pc'[t] = b /\ \A u \in Task \ {t} : pc'[u] = pc[u]
  BY <1>1, <1>2
<1>4. SyncOK'
  BY <1>1, <1>2 DEF SyncOK, SyncTypes
<1>5. t \notin waiting[Console] /\ t \notin waiting[OSem] /\ t \notin waiting[ISem]
  BY <1>1, <1>2 DEF Free
<1>6. Queues'
  BY <1>1, <1>2, <1>3, <1>5 DEF Queues
<1>7. \A u \in Task : Free(u)' <=> Free(u)
  BY <1>1 DEF Free
<1>8. \A L : /\ Cardinality(Have(L)) \in Nat
             /\ Cardinality(Have(L)') = Cardinality(Have(L)) - One(a, L) + One(b, L)
  BY <1>2, <1>7, MoveCounts
<1> QED
  BY <1>4, <1>6, <1>8 DEF Rooms, Emptied, Keys

(* A step that moves a process between labels that are not counted, and     *)
(* leaves the rings alone.                                                  *)
LEMMA QuietStep ==
  ASSUME TtyInv, NEW t \in Task, NEW a, NEW b, Goto(t, a, b), UNCHANGED svars,
         a \in Draining <=> b \in Draining,
         a \notin {"cr_put", "put", "notify", "key_get"},
         b \notin {"cr_put", "put", "notify", "key_get"},
         ofifo' = ofifo, ififo' = ififo, lost' = lost
  PROVE  SyncPart'
<1>1. /\ SyncOK' /\ Queues'
      /\ Rooms \in Nat /\ Emptied \in Nat /\ Keys \in Nat
      /\ Rooms' = Rooms /\ Emptied' = Emptied /\ Keys' = Keys
  <2>1. /\ SyncOK' /\ Queues'
        /\ Rooms \in Nat /\ Emptied \in Nat /\ Keys \in Nat
        /\ Rooms' = Rooms - One(a, {"cr_put", "put"}) + One(b, {"cr_put", "put"})
        /\ Emptied' = Emptied - One(a, {"notify"}) + One(b, {"notify"})
        /\ Keys' = Keys - One(a, {"key_get"}) + One(b, {"key_get"})
    BY LocalStep
  <2>2. /\ One(a, {"cr_put", "put"}) = 0 /\ One(b, {"cr_put", "put"}) = 0
        /\ One(a, {"notify"}) = 0 /\ One(b, {"notify"}) = 0
        /\ One(a, {"key_get"}) = 0 /\ One(b, {"key_get"}) = 0
    BY DEF One
  <2> QED
    BY <2>1, <2>2
<1>2. tokens' = tokens
  BY DEF svars
<1>3. OutputAccounted /\ InputAccounted
  BY DEF TtyInv
<1>4. OutputAccounted' /\ InputAccounted'
  BY <1>1, <1>2, <1>3 DEF OutputAccounted, InputAccounted, Rooms, Emptied, Keys
<1> QED
  BY <1>1, <1>4 DEF SyncPart

(* A character is put: the place that the process had is taken.             *)
LEMMA PutSync ==
  ASSUME TtyInv, NEW t \in Task, PutReturn(t) \/ Put(t)
  PROVE  SyncPart'
<1>1. PICK a \in {"cr_put", "put"}, b \in {"put_wait", "lock"} : Goto(t, a, b)
  BY DEF PutReturn, Put
<1>2. /\ UNCHANGED svars /\ ififo' = ififo /\ lost' = lost
      /\ ofifo' = Append(ofifo, <<t, sent[t] + 1>>)
  BY DEF PutReturn, Put, PutOut, ins
<1>3. /\ SyncOK' /\ Queues'
      /\ Rooms \in Nat /\ Emptied \in Nat /\ Keys \in Nat
      /\ Rooms' = Rooms - One(a, {"cr_put", "put"}) + One(b, {"cr_put", "put"})
      /\ Emptied' = Emptied - One(a, {"notify"}) + One(b, {"notify"})
      /\ Keys' = Keys - One(a, {"key_get"}) + One(b, {"key_get"})
  BY <1>1, <1>2, LocalStep DEF Draining
<1>4. Rooms' = Rooms - 1 /\ Emptied' = Emptied /\ Keys' = Keys
  BY <1>3 DEF One
<1>5. /\ tokens[OSem] \in Nat /\ tokens' = tokens /\ Len(ofifo) \in Nat
      /\ tokens[OSem] + Len(ofifo) + Rooms + Emptied = OSize
      /\ tokens[ISem] + Keys = Len(ififo) + lost
  BY <1>2, TtyFacts DEF svars
<1>6. Len(ofifo') = Len(ofifo) + 1
  <2>1. ofifo \in Seq(OutChar)
    BY DEF TtyInv, TtyTypeOK
  <2> QED
    BY <1>2, <2>1
<1>7. /\ tokens'[OSem] + Len(ofifo') + Rooms' + Emptied' = OSize
      /\ tokens'[ISem] + Keys' = Len(ififo') + lost'
  <2>1. tokens'[OSem] + Len(ofifo') + Rooms' + Emptied' = OSize
    BY <1>3, <1>4, <1>5, <1>6
  <2>2. tokens'[ISem] + Keys' = Len(ififo') + lost'
    BY <1>2, <1>4, <1>5
  <2> QED
    BY <2>1, <2>2
<1>8. OutputAccounted' /\ InputAccounted'
  BY <1>7 DEF OutputAccounted, InputAccounted, Rooms, Emptied, Keys
<1> QED
  BY <1>3, <1>8 DEF SyncPart

(* A character is taken: its place is free, and not yet counted.            *)
LEMMA GetOutSync ==
  ASSUME TtyInv, NEW t \in Task, GetOut(t)
  PROVE  SyncPart'
<1>1. /\ Goto(t, "get", "notify") /\ UNCHANGED svars
      /\ ififo' = ififo /\ lost' = lost
      /\ ofifo # <<>> /\ ofifo' = Tail(ofifo)
  BY DEF GetOut, ins
<1>2. /\ SyncOK' /\ Queues'
      /\ Rooms \in Nat /\ Emptied \in Nat /\ Keys \in Nat
      /\ Rooms' = Rooms - One("get", {"cr_put", "put"}) + One("notify", {"cr_put", "put"})
      /\ Emptied' = Emptied - One("get", {"notify"}) + One("notify", {"notify"})
      /\ Keys' = Keys - One("get", {"key_get"}) + One("notify", {"key_get"})
  BY <1>1, LocalStep DEF Draining
<1>3. /\ Rooms \in Nat /\ Emptied \in Nat
      /\ Rooms' = Rooms /\ Emptied' = Emptied + 1 /\ Keys' = Keys
  BY <1>2 DEF One
<1>4. /\ tokens[OSem] \in Nat /\ tokens' = tokens /\ Len(ofifo) \in Nat
      /\ tokens[OSem] + Len(ofifo) + Rooms + Emptied = OSize
      /\ tokens[ISem] + Keys = Len(ififo) + lost
  BY <1>1, TtyFacts DEF svars
<1>5. Len(ofifo') = Len(ofifo) - 1
  <2>1. ofifo \in Seq(OutChar)
    BY DEF TtyInv, TtyTypeOK
  <2> QED
    BY <1>1, <2>1
<1>6. /\ tokens'[OSem] + Len(ofifo') + Rooms' + Emptied' = OSize
      /\ tokens'[ISem] + Keys' = Len(ififo') + lost'
  <2>1. tokens'[OSem] + Len(ofifo') + Rooms' + Emptied' = OSize
    BY <1>3, <1>4, <1>5
  <2>2. tokens'[ISem] + Keys' = Len(ififo') + lost'
    BY <1>1, <1>3, <1>4
  <2> QED
    BY <2>1, <2>2
<1>7. OutputAccounted' /\ InputAccounted'
  BY <1>6 DEF OutputAccounted, InputAccounted, Rooms, Emptied, Keys
<1> QED
  BY <1>2, <1>7 DEF SyncPart

(* A reader takes a key, or one of the keys that were lost is not there.    *)
LEMMA GetKeySync ==
  ASSUME TtyInv, NEW t \in Task, GetKey(t)
  PROVE  SyncPart' /\ lost' \in Nat
<1>1. /\ UNCHANGED svars /\ ofifo' = ofifo
      /\ \/ ififo # <<>> /\ ififo' = Tail(ififo) /\ lost' = lost
         \/ ififo = <<>> /\ ififo' = ififo /\ lost' = lost - 1
  BY DEF GetKey
<1>2. PICK b \in {"key_wait", "write", "echoed"} : Goto(t, "key_get", b)
  BY DEF GetKey
<1>3. /\ SyncOK' /\ Queues'
      /\ Rooms \in Nat /\ Emptied \in Nat /\ Keys \in Nat
      /\ Rooms' = Rooms - One("key_get", {"cr_put", "put"}) + One(b, {"cr_put", "put"})
      /\ Emptied' = Emptied - One("key_get", {"notify"}) + One(b, {"notify"})
      /\ Keys' = Keys - One("key_get", {"key_get"}) + One(b, {"key_get"})
  BY <1>1, <1>2, LocalStep DEF Draining
<1>4. Rooms' = Rooms /\ Emptied' = Emptied /\ Keys' = Keys - 1
  BY <1>3 DEF One
<1>5. /\ tokens' = tokens /\ tokens[ISem] \in Nat
      /\ Len(ififo) \in Nat /\ lost \in Nat
      /\ tokens[OSem] + Len(ofifo) + Rooms + Emptied = OSize
      /\ tokens[ISem] + Keys = Len(ififo) + lost
  BY <1>1, TtyFacts DEF svars
<1>6. Keys' \in Nat
  <2>1. \A u \in Task : Free(u)' <=> Free(u)
    BY <1>1 DEF svars, Free
  <2> QED
    BY <1>2, <2>1, TtyFacts, MoveCounts DEF Keys
<1>7. Len(ififo') + lost' = Len(ififo) + lost - 1 /\ lost' \in Nat
  <2>1. ififo \in Seq(Key)
    BY DEF TtyInv, TtyTypeOK
  <2>2. CASE ififo # <<>>
    <3>1. lost' = lost /\ Len(ififo') = Len(ififo) - 1 /\ Len(ififo') \in Nat
      <4>1. ififo' = Tail(ififo) /\ lost' = lost
        BY <1>1, <2>2
      <4>2. Tail(ififo) \in Seq(Key) /\ Len(Tail(ififo)) = Len(ififo) - 1
        BY <2>1, <2>2, HeadTailProperties
      <4> QED
        BY <4>1, <4>2
    <3>2. Len(ififo) \in Nat /\ lost \in Nat /\ lost' \in Nat
      BY <1>5, <3>1
    <3> QED
      BY <3>1, <3>2
  <2>3. CASE ififo = <<>>
    <3>1. Len(ififo) = 0 /\ ififo' = ififo /\ lost' = lost - 1
      BY <1>1, <2>3
    <3>2. lost >= 1 /\ Len(ififo') = 0
      BY <1>3, <1>4, <1>5, <1>6, <3>1
    <3> QED
      BY <1>5, <3>1, <3>2
  <2> QED
    BY <2>2, <2>3
<1>8. /\ tokens'[OSem] + Len(ofifo') + Rooms' + Emptied' = OSize
      /\ tokens'[ISem] + Keys' = Len(ififo') + lost'
  <2>1. tokens'[OSem] + Len(ofifo') + Rooms' + Emptied' = OSize
    BY <1>1, <1>4, <1>5
  <2>2. tokens[ISem] + (Keys - 1) = Len(ififo) + lost - 1
    BY <1>3, <1>5
  <2>3. tokens'[ISem] + Keys' = Len(ififo') + lost'
    BY <1>4, <1>5, <1>7, <2>2
  <2> QED
    BY <2>1, <2>3
<1>9. OutputAccounted' /\ InputAccounted'
  BY <1>8 DEF OutputAccounted, InputAccounted, Rooms, Emptied, Keys
<1> QED
  BY <1>3, <1>7, <1>9 DEF SyncPart

(* A writer has a place, or waits and will be counted when it has one.      *)
LEMMA WaitRoomSync ==
  ASSUME TtyInv, NEW t \in Task, WaitRoom(t)
  PROVE  SyncPart'
<1>1. PICK a \in {"cr_wait", "put_wait"}, b \in {"cr_put", "put"} : Goto(t, a, b)
  BY DEF WaitRoom
<1>2. /\ Take(t, OSem) \/ AwaitToken(t, OSem)
      /\ ofifo' = ofifo /\ ififo' = ififo /\ lost' = lost
  BY DEF WaitRoom, sem_wait, outs, ins
<1>3. /\ Free(t) /\ pc[t] = a /\ pc' = [pc EXCEPT ![t] = b]
  BY <1>1 DEF Goto
<1>4. /\ SyncOK /\ Queues /\ pc \in [Task -> Labels]
      /\ OSem \in Sem /\ ISem \in Sem /\ OSem # ISem /\ Console \in Mutex
      /\ Console # OSem /\ Console # ISem
      /\ tokens[OSem] \in Nat /\ Len(ofifo) \in Nat
      /\ tokens[OSem] + Len(ofifo) + Rooms + Emptied = OSize
      /\ tokens[ISem] + Keys = Len(ififo) + lost
      /\ \A q \in Mutex \cup Sem : waiting[q] \subseteq Task
  BY TtyFacts
<1>5. /\ SyncOK' /\ Apart(OSem)
      /\ \/ /\ tokens[OSem] > 0 /\ tokens'[OSem] = tokens[OSem] - 1
            /\ waiting'[OSem] = waiting[OSem]
         \/ /\ tokens[OSem] = 0 /\ tokens'[OSem] = 0
            /\ waiting'[OSem] = waiting[OSem] \cup {t}
  BY <1>2, <1>4, TakeEffect
<1>6. pc'[t] = b /\ \A u \in Task \ {t} : pc'[u] = pc[u]
  BY <1>3, <1>4
<1>7. /\ holder'[Console] = holder[Console] /\ waiting'[Console] = waiting[Console]
      /\ waiting'[ISem] = waiting[ISem] /\ tokens'[ISem] = tokens[ISem]
      /\ t \notin waiting[Console] /\ t \notin waiting[ISem]
  BY <1>3, <1>4, <1>5 DEF Apart, Free
<1>8. Queues'
  <2>1. /\ pc[t] \notin Draining /\ pc'[t] \notin Draining /\ pc'[t] \in {"cr_put", "put"}
    BY <1>3, <1>6 DEF Draining
  <2> QED
    BY <1>4, <1>5, <1>6, <1>7, <2>1 DEF Queues
<1>9. /\ Rooms \in Nat /\ Emptied \in Nat /\ Keys \in Nat
      /\ Emptied' = Emptied /\ Keys' = Keys
      /\ \/ tokens'[OSem] = tokens[OSem] - 1 /\ Rooms' = Rooms + 1
         \/ tokens'[OSem] = tokens[OSem] /\ Rooms' = Rooms
  <2>1. CASE waiting'[OSem] = waiting[OSem] /\ tokens'[OSem] = tokens[OSem] - 1
    <3>1. \A u \in Task : Free(u)' <=> Free(u)
      BY <1>4, <1>5, <2>1, FreeSame
    <3>2. \A L : /\ Cardinality(Have(L)) \in Nat
                 /\ Cardinality(Have(L)') = Cardinality(Have(L)) - One(a, L) + One(b, L)
      BY <1>1, <1>4, <3>1, MoveCounts
    <3>3. /\ Rooms \in Nat /\ Emptied \in Nat /\ Keys \in Nat
          /\ Rooms' = Rooms - One(a, {"cr_put", "put"}) + One(b, {"cr_put", "put"})
          /\ Emptied' = Emptied - One(a, {"notify"}) + One(b, {"notify"})
          /\ Keys' = Keys - One(a, {"key_get"}) + One(b, {"key_get"})
      BY <3>2 DEF Rooms, Emptied, Keys
    <3>4. Rooms' = Rooms + 1 /\ Emptied' = Emptied /\ Keys' = Keys
      BY <3>3 DEF One
    <3> QED
      BY <1>4, <2>1, <3>3, <3>4
  <2>2. CASE waiting'[OSem] = waiting[OSem] \cup {t} /\ tokens'[OSem] = tokens[OSem]
    <3>1. ~ Free(t)' /\ \A u \in Task \ {t} : Free(u)' <=> Free(u)
      BY <1>4, <1>5, <2>2, FreeLost
    <3>2. \A L : /\ Cardinality(Have(L)) \in Nat
                 /\ Cardinality(Have(L)') = Cardinality(Have(L)) - One(a, L)
      BY <1>1, <1>4, <3>1, WaitCounts
    <3>3. /\ Rooms \in Nat /\ Emptied \in Nat /\ Keys \in Nat
          /\ Rooms' = Rooms - One(a, {"cr_put", "put"})
          /\ Emptied' = Emptied - One(a, {"notify"})
          /\ Keys' = Keys - One(a, {"key_get"})
      BY <3>2 DEF Rooms, Emptied, Keys
    <3>4. Rooms' = Rooms /\ Emptied' = Emptied /\ Keys' = Keys
      BY <3>3 DEF One
    <3> QED
      BY <1>4, <2>2, <3>3, <3>4
  <2> QED
    BY <1>5, <2>1, <2>2
<1>10. /\ tokens'[OSem] + Len(ofifo') + Rooms' + Emptied' = OSize
       /\ tokens'[ISem] + Keys' = Len(ififo') + lost'
  <2>1. /\ tokens[OSem] \in Nat /\ Len(ofifo) \in Nat
        /\ Rooms \in Nat /\ Emptied \in Nat
        /\ tokens[OSem] + Len(ofifo) + Rooms + Emptied = OSize
        /\ \/ tokens'[OSem] = tokens[OSem] - 1 /\ Rooms' = Rooms + 1
           \/ tokens'[OSem] = tokens[OSem] /\ Rooms' = Rooms
    BY <1>4, <1>9
  <2>2. tokens'[OSem] + Len(ofifo) + Rooms' + Emptied = OSize
    <3>1. PICK x, n, y, z \in Nat : x = tokens[OSem] /\ n = Len(ofifo) /\ y = Rooms /\ z = Emptied
      BY <2>1
    <3>2. CASE tokens'[OSem] = tokens[OSem] - 1 /\ Rooms' = Rooms + 1
      <4>1. (x - 1) + n + (y + 1) + z = x + n + y + z
        OBVIOUS
      <4> QED
        BY <2>1, <3>1, <3>2, <4>1
    <3>3. CASE tokens'[OSem] = tokens[OSem] /\ Rooms' = Rooms
      BY <2>1, <3>3
    <3> QED
      BY <2>1, <3>2, <3>3
  <2>3. tokens'[OSem] + Len(ofifo') + Rooms' + Emptied' = OSize
    BY <1>2, <1>9, <2>2
  <2>4. tokens'[ISem] + Keys' = Len(ififo') + lost'
    BY <1>2, <1>4, <1>7, <1>9
  <2> QED
    BY <2>3, <2>4
<1>11. OutputAccounted' /\ InputAccounted'
  BY <1>10 DEF OutputAccounted, InputAccounted, Rooms, Emptied, Keys
<1> QED
  BY <1>5, <1>8, <1>11 DEF SyncPart

(* A reader has a key, or waits and will be counted when it has one.        *)
LEMMA WaitKeySync ==
  ASSUME TtyInv, NEW t \in Task, WaitKey(t)
  PROVE  SyncPart'
<1>1. Goto(t, "key_wait", "key_get")
  BY DEF WaitKey
<1>2. /\ Take(t, ISem) \/ AwaitToken(t, ISem)
      /\ ofifo' = ofifo /\ ififo' = ififo /\ lost' = lost
  BY DEF WaitKey, sem_wait, outs, ins
<1>3. /\ Free(t) /\ pc[t] = "key_wait" /\ pc' = [pc EXCEPT ![t] = "key_get"]
  BY <1>1 DEF Goto
<1>4. /\ SyncOK /\ Queues /\ pc \in [Task -> Labels]
      /\ OSem \in Sem /\ ISem \in Sem /\ OSem # ISem /\ Console \in Mutex
      /\ Console # OSem /\ Console # ISem
      /\ tokens[ISem] \in Nat
      /\ tokens[OSem] + Len(ofifo) + Rooms + Emptied = OSize
      /\ tokens[ISem] + Keys = Len(ififo) + lost
      /\ \A q \in Mutex \cup Sem : waiting[q] \subseteq Task
  BY TtyFacts
<1>5. /\ SyncOK' /\ Apart(ISem)
      /\ \/ /\ tokens[ISem] > 0 /\ tokens'[ISem] = tokens[ISem] - 1
            /\ waiting'[ISem] = waiting[ISem]
         \/ /\ tokens[ISem] = 0 /\ tokens'[ISem] = 0
            /\ waiting'[ISem] = waiting[ISem] \cup {t}
  BY <1>2, <1>4, TakeEffect
<1>6. pc'[t] = "key_get" /\ \A u \in Task \ {t} : pc'[u] = pc[u]
  BY <1>3, <1>4
<1>7. /\ holder'[Console] = holder[Console] /\ waiting'[Console] = waiting[Console]
      /\ waiting'[OSem] = waiting[OSem] /\ tokens'[OSem] = tokens[OSem]
      /\ t \notin waiting[Console] /\ t \notin waiting[OSem]
  BY <1>3, <1>4, <1>5 DEF Apart, Free
<1>8. Queues'
  <2>1. pc[t] \notin Draining /\ pc'[t] \notin Draining
    BY <1>3, <1>6 DEF Draining
  <2> QED
    BY <1>4, <1>5, <1>6, <1>7, <2>1 DEF Queues
<1>9. /\ Rooms \in Nat /\ Emptied \in Nat /\ Keys \in Nat
      /\ Rooms' = Rooms /\ Emptied' = Emptied
      /\ \/ tokens'[ISem] = tokens[ISem] - 1 /\ Keys' = Keys + 1
         \/ tokens'[ISem] = tokens[ISem] /\ Keys' = Keys
  <2>1. CASE waiting'[ISem] = waiting[ISem] /\ tokens'[ISem] = tokens[ISem] - 1
    <3>1. \A u \in Task : Free(u)' <=> Free(u)
      BY <1>4, <1>5, <2>1, FreeSame
    <3>2. \A L : /\ Cardinality(Have(L)) \in Nat
                 /\ Cardinality(Have(L)') = Cardinality(Have(L)) - One("key_wait", L) + One("key_get", L)
      BY <1>1, <1>4, <3>1, MoveCounts
    <3>3. /\ Rooms \in Nat /\ Emptied \in Nat /\ Keys \in Nat
          /\ Rooms' = Rooms - One("key_wait", {"cr_put", "put"}) + One("key_get", {"cr_put", "put"})
          /\ Emptied' = Emptied - One("key_wait", {"notify"}) + One("key_get", {"notify"})
          /\ Keys' = Keys - One("key_wait", {"key_get"}) + One("key_get", {"key_get"})
      BY <3>2 DEF Rooms, Emptied, Keys
    <3>4. Rooms' = Rooms /\ Emptied' = Emptied /\ Keys' = Keys + 1
      BY <3>3 DEF One
    <3> QED
      BY <1>4, <2>1, <3>3, <3>4
  <2>2. CASE waiting'[ISem] = waiting[ISem] \cup {t} /\ tokens'[ISem] = tokens[ISem]
    <3>1. ~ Free(t)' /\ \A u \in Task \ {t} : Free(u)' <=> Free(u)
      BY <1>4, <1>5, <2>2, FreeLost
    <3>2. \A L : /\ Cardinality(Have(L)) \in Nat
                 /\ Cardinality(Have(L)') = Cardinality(Have(L)) - One("key_wait", L)
      BY <1>1, <1>4, <3>1, WaitCounts
    <3>3. /\ Rooms \in Nat /\ Emptied \in Nat /\ Keys \in Nat
          /\ Rooms' = Rooms - One("key_wait", {"cr_put", "put"})
          /\ Emptied' = Emptied - One("key_wait", {"notify"})
          /\ Keys' = Keys - One("key_wait", {"key_get"})
      BY <3>2 DEF Rooms, Emptied, Keys
    <3>4. Rooms' = Rooms /\ Emptied' = Emptied /\ Keys' = Keys
      BY <3>3 DEF One
    <3> QED
      BY <1>4, <2>2, <3>3, <3>4
  <2> QED
    BY <1>5, <2>1, <2>2
<1>10. /\ tokens'[OSem] + Len(ofifo') + Rooms' + Emptied' = OSize
       /\ tokens'[ISem] + Keys' = Len(ififo') + lost'
  <2>1. /\ tokens[ISem] \in Nat /\ Keys \in Nat
        /\ tokens[ISem] + Keys = Len(ififo) + lost
        /\ \/ tokens'[ISem] = tokens[ISem] - 1 /\ Keys' = Keys + 1
           \/ tokens'[ISem] = tokens[ISem] /\ Keys' = Keys
    BY <1>4, <1>9
  <2>2. tokens'[ISem] + Keys' = Len(ififo) + lost
    BY <2>1
  <2>3. tokens'[ISem] + Keys' = Len(ififo') + lost'
    BY <1>2, <2>2
  <2>4. tokens'[OSem] + Len(ofifo') + Rooms' + Emptied' = OSize
    BY <1>2, <1>4, <1>7, <1>9
  <2> QED
    BY <2>3, <2>4
<1>11. OutputAccounted' /\ InputAccounted'
  BY <1>10 DEF OutputAccounted, InputAccounted, Rooms, Emptied, Keys
<1> QED
  BY <1>5, <1>8, <1>11 DEF SyncPart

(* The place just emptied is counted, or goes to a writer that waited.      *)
LEMMA NotifyRoomSync ==
  ASSUME TtyInv, NEW t \in Task, NotifyRoom(t)
  PROVE  SyncPart'
<1>1. /\ Free(t) /\ pc[t] = "notify" /\ pc' = [pc EXCEPT ![t] = "show"]
      /\ Post(OSem) /\ ofifo' = ofifo /\ ififo' = ififo /\ lost' = lost
  BY DEF NotifyRoom, Goto, sem_notify, outs, ins
<1>2. /\ SyncOK /\ Queues /\ pc \in [Task -> Labels]
      /\ OSem \in Sem /\ ISem \in Sem /\ OSem # ISem /\ Console \in Mutex
      /\ Console # OSem /\ Console # ISem
      /\ tokens[OSem] \in Nat /\ Len(ofifo) \in Nat
      /\ tokens[OSem] + Len(ofifo) + Rooms + Emptied = OSize
      /\ tokens[ISem] + Keys = Len(ififo) + lost
      /\ \A q \in Mutex \cup Sem : waiting[q] \subseteq Task
  BY TtyFacts
<1>3. pc'[t] = "show" /\ \A u \in Task \ {t} : pc'[u] = pc[u]
  BY <1>1, <1>2
<1>4. /\ SyncOK' /\ Apart(OSem)
      /\ \/ /\ waiting[OSem] = {} /\ waiting'[OSem] = {}
            /\ tokens'[OSem] = tokens[OSem] + 1
         \/ /\ tokens'[OSem] = tokens[OSem]
            /\ \E u \in waiting[OSem] : waiting'[OSem] = waiting[OSem] \ {u}
  BY <1>1, <1>2, PostEffect
<1>5. /\ holder'[Console] = holder[Console] /\ waiting'[Console] = waiting[Console]
      /\ waiting'[ISem] = waiting[ISem] /\ tokens'[ISem] = tokens[ISem]
      /\ waiting'[OSem] \subseteq waiting[OSem]
      /\ \A q \in Mutex \cup Sem : t \notin waiting[q]
  BY <1>1, <1>2, <1>4 DEF Apart, Free
<1>6. Queues'
  <2>1. pc[t] \in Draining /\ pc'[t] \in Draining
    BY <1>1, <1>3 DEF Draining
  <2> QED
    BY <1>2, <1>3, <1>5, <2>1 DEF Queues
<1>7. /\ Rooms \in Nat /\ Emptied \in Nat /\ Keys \in Nat
      /\ Emptied' = Emptied - 1 /\ Keys' = Keys
      /\ \/ tokens'[OSem] = tokens[OSem] + 1 /\ Rooms' = Rooms
         \/ tokens'[OSem] = tokens[OSem] /\ Rooms' = Rooms + 1
  <2>1. CASE /\ waiting[OSem] = {} /\ waiting'[OSem] = {}
             /\ tokens'[OSem] = tokens[OSem] + 1
    <3>1. \A u \in Task : Free(u)' <=> Free(u)
      BY <1>2, <1>4, <2>1, FreeSame
    <3>2. Goto(t, "notify", "show")
      BY <1>1 DEF Goto
    <3>3. \A L : /\ Cardinality(Have(L)) \in Nat
                 /\ Cardinality(Have(L)')
                      = Cardinality(Have(L)) - One("notify", L) + One("show", L)
      BY <1>2, <3>1, <3>2, MoveCounts
    <3>4. /\ Rooms \in Nat /\ Emptied \in Nat /\ Keys \in Nat
          /\ Rooms' = Rooms - One("notify", {"cr_put", "put"}) + One("show", {"cr_put", "put"})
          /\ Emptied' = Emptied - One("notify", {"notify"}) + One("show", {"notify"})
          /\ Keys' = Keys - One("notify", {"key_get"}) + One("show", {"key_get"})
      BY <3>3 DEF Rooms, Emptied, Keys
    <3>5. Rooms' = Rooms /\ Emptied' = Emptied - 1 /\ Keys' = Keys
      BY <3>4 DEF One
    <3> QED
      BY <2>1, <3>4, <3>5
  <2>2. ASSUME NEW u \in waiting[OSem], waiting'[OSem] = waiting[OSem] \ {u},
               tokens'[OSem] = tokens[OSem]
        PROVE  /\ Rooms \in Nat /\ Emptied \in Nat /\ Keys \in Nat
               /\ Rooms' = Rooms + 1 /\ Emptied' = Emptied - 1 /\ Keys' = Keys
    <3>1. /\ Free(u)' /\ ~ Free(u)
          /\ \A v \in Task \ {u} : Free(v)' <=> Free(v)
      BY <1>2, <1>4, <2>2, FreeGained
    <3>2. u \in Task /\ u # t /\ pc[u] \in {"cr_put", "put"} /\ pc'[u] = pc[u]
      BY <1>1, <1>2, <1>3, <3>1 DEF Queues
    <3>3. /\ Cardinality(Have({"cr_put", "put"})) \in Nat
          /\ Cardinality(Have({"cr_put", "put"})')
               = Cardinality(Have({"cr_put", "put"})) + One(pc[u], {"cr_put", "put"})
      <4>1. \A v \in Task \ {u} : pc'[v] \in {"cr_put", "put"} <=> pc[v] \in {"cr_put", "put"}
        BY <1>1, <1>3
      <4> QED
        BY <3>1, <3>2, <4>1, GainCounts
    <3>4. /\ Cardinality(Have({"key_get"})) \in Nat
          /\ Cardinality(Have({"key_get"})')
               = Cardinality(Have({"key_get"})) + One(pc[u], {"key_get"})
      <4>1. \A v \in Task \ {u} : pc'[v] \in {"key_get"} <=> pc[v] \in {"key_get"}
        BY <1>1, <1>3
      <4> QED
        BY <3>1, <3>2, <4>1, GainCounts
    <3>5. /\ Cardinality(Have({"notify"})) \in Nat
          /\ Cardinality(Have({"notify"})') = Cardinality(Have({"notify"})) - 1
      <4>1. \A v \in Task \ {t} : v \in Have({"notify"})' <=> v \in Have({"notify"})
        BY <1>3, <3>1, <3>2 DEF Have
      <4>2. t \in Have({"notify"}) /\ t \notin Have({"notify"})'
        BY <1>1, <1>3 DEF Have
      <4>3. /\ Cardinality(Have({"notify"})) \in Nat
            /\ Cardinality(Have({"notify"})')
                 = Cardinality(Have({"notify"})) - One(t, Have({"notify"}))
                     + One(t, Have({"notify"})')
        BY <4>1, HaveMoves
      <4> QED
        BY <4>2, <4>3 DEF One
    <3>6. One(pc[u], {"cr_put", "put"}) = 1 /\ One(pc[u], {"key_get"}) = 0
      BY <3>2 DEF One
    <3> QED
      BY <3>3, <3>4, <3>5, <3>6 DEF Rooms, Emptied, Keys
  <2> QED
    BY <1>4, <2>1, <2>2
<1>8. /\ tokens'[OSem] + Len(ofifo') + Rooms' + Emptied' = OSize
      /\ tokens'[ISem] + Keys' = Len(ififo') + lost'
  <2>1. /\ tokens[OSem] \in Nat /\ Len(ofifo) \in Nat
        /\ Rooms \in Nat /\ Emptied \in Nat /\ Emptied' = Emptied - 1
        /\ tokens[OSem] + Len(ofifo) + Rooms + Emptied = OSize
        /\ \/ tokens'[OSem] = tokens[OSem] + 1 /\ Rooms' = Rooms
           \/ tokens'[OSem] = tokens[OSem] /\ Rooms' = Rooms + 1
    BY <1>2, <1>7
  <2>2. tokens'[OSem] + Len(ofifo) + Rooms' + Emptied' = OSize
    <3>1. /\ (tokens[OSem] + 1) + Len(ofifo) + Rooms + (Emptied - 1)
               = tokens[OSem] + Len(ofifo) + Rooms + Emptied
          /\ tokens[OSem] + Len(ofifo) + (Rooms + 1) + (Emptied - 1)
               = tokens[OSem] + Len(ofifo) + Rooms + Emptied
      BY <2>1, PlaceMoved
    <3> QED
      BY <2>1, <3>1
  <2>3. tokens'[ISem] + Keys' = Len(ififo') + lost'
    BY <1>1, <1>2, <1>5, <1>7
  <2> QED
    BY <1>1, <2>2, <2>3
<1>9. OutputAccounted' /\ InputAccounted'
  BY <1>8 DEF OutputAccounted, InputAccounted, Rooms, Emptied, Keys
<1> QED
  BY <1>4, <1>6, <1>9 DEF SyncPart

(* The console's mutex counts nothing.                                      *)
LEMMA MutexAccounted ==
  ASSUME TtyInv, Apart(Console), ofifo' = ofifo, ififo' = ififo, lost' = lost,
         Rooms' = Rooms, Emptied' = Emptied, Keys' = Keys
  PROVE  OutputAccounted' /\ InputAccounted'
<1>1. tokens'[OSem] = tokens[OSem] /\ tokens'[ISem] = tokens[ISem]
  BY TtyFacts DEF Apart
<1>2. OutputAccounted /\ InputAccounted
  BY DEF TtyInv
<1> QED
  BY <1>1, <1>2 DEF OutputAccounted, InputAccounted, Rooms, Emptied, Keys

(* console_write takes the mutex, or waits for the process that drains.     *)
LEMMA LockSync ==
  ASSUME TtyInv, NEW t \in Task, Lock(t)
  PROVE  SyncPart'
<1>1. /\ Free(t) /\ pc[t] = "lock" /\ pc' = [pc EXCEPT ![t] = "get"]
      /\ Enter(t, Console) \/ AwaitMutex(t, Console)
      /\ ofifo' = ofifo /\ ififo' = ififo /\ lost' = lost
      /\ Goto(t, "lock", "get")
  BY DEF Lock, Goto, mutex_lock, outs, ins
<1>2. /\ SyncOK /\ Queues /\ pc \in [Task -> Labels]
      /\ OSem \in Sem /\ ISem \in Sem /\ Console \in Mutex /\ NoTask \notin Task
      /\ Console # OSem /\ Console # ISem
      /\ \A q \in Mutex \cup Sem : waiting[q] \subseteq Task
  BY TtyFacts
<1>3. pc'[t] = "get" /\ \A u \in Task \ {t} : pc'[u] = pc[u]
  BY <1>1, <1>2
<1>4. holder[Console] # t /\ t \notin waiting[Console]
  BY <1>1, <1>2 DEF Queues, Draining
<1>5. /\ SyncOK' /\ Apart(Console)
      /\ \/ /\ holder[Console] = NoTask /\ holder'[Console] = t
            /\ waiting[Console] = {} /\ waiting'[Console] = {}
         \/ /\ holder[Console] \in Task /\ holder'[Console] = holder[Console]
            /\ waiting'[Console] = waiting[Console] \cup {t}
  BY <1>1, <1>2, <1>4, LockEffect
<1>6. Queues'
  <2>1. /\ waiting'[OSem] = waiting[OSem] /\ waiting'[ISem] = waiting[ISem]
        /\ t \notin waiting[OSem] /\ t \notin waiting[ISem]
    BY <1>1, <1>2, <1>5 DEF Apart, Free
  <2>2. pc'[t] \in Draining
    BY <1>3 DEF Draining
  <2> QED
    BY <1>2, <1>3, <1>5, <2>1, <2>2 DEF Queues
<1>7. Rooms' = Rooms /\ Emptied' = Emptied /\ Keys' = Keys
  <2>1. CASE waiting'[Console] = waiting[Console]
    <3>1. \A u \in Task : Free(u)' <=> Free(u)
      BY <1>2, <1>5, <2>1, FreeSame
    <3>2. \A L : /\ Cardinality(Have(L)) \in Nat
                 /\ Cardinality(Have(L)')
                      = Cardinality(Have(L)) - One("lock", L) + One("get", L)
      BY <1>1, <1>2, <3>1, MoveCounts
    <3>3. /\ Rooms \in Nat /\ Emptied \in Nat /\ Keys \in Nat
          /\ Rooms' = Rooms - One("lock", {"cr_put", "put"}) + One("get", {"cr_put", "put"})
          /\ Emptied' = Emptied - One("lock", {"notify"}) + One("get", {"notify"})
          /\ Keys' = Keys - One("lock", {"key_get"}) + One("get", {"key_get"})
      BY <3>2 DEF Rooms, Emptied, Keys
    <3> QED
      BY <3>3 DEF One
  <2>2. CASE waiting'[Console] = waiting[Console] \cup {t}
    <3>1. ~ Free(t)' /\ \A u \in Task \ {t} : Free(u)' <=> Free(u)
      BY <1>2, <1>5, <2>2, FreeLost
    <3>2. \A L : /\ Cardinality(Have(L)) \in Nat
                 /\ Cardinality(Have(L)') = Cardinality(Have(L)) - One("lock", L)
      BY <1>1, <1>2, <3>1, WaitCounts
    <3>3. /\ Rooms \in Nat /\ Emptied \in Nat /\ Keys \in Nat
          /\ Rooms' = Rooms - One("lock", {"cr_put", "put"})
          /\ Emptied' = Emptied - One("lock", {"notify"})
          /\ Keys' = Keys - One("lock", {"key_get"})
      BY <3>2 DEF Rooms, Emptied, Keys
    <3> QED
      BY <3>3 DEF One
  <2> QED
    BY <1>5, <2>1, <2>2
<1>8. OutputAccounted' /\ InputAccounted'
  BY <1>1, <1>5, <1>7, MutexAccounted
<1> QED
  BY <1>5, <1>6, <1>8 DEF SyncPart

(* console_write leaves the mutex, and a process that waits has it next.    *)
LEMMA UnlockSync ==
  ASSUME TtyInv, NEW t \in Task, Unlock(t)
  PROVE  SyncPart'
<1>1. /\ Free(t) /\ pc[t] = "unlock" /\ pc' = [pc EXCEPT ![t] = "write"]
      /\ Leave(t, Console)
      /\ ofifo' = ofifo /\ ififo' = ififo /\ lost' = lost
      /\ Goto(t, "unlock", "write")
  BY DEF Unlock, Goto, mutex_unlock, outs, ins
<1>2. /\ SyncOK /\ Queues /\ pc \in [Task -> Labels]
      /\ OSem \in Sem /\ ISem \in Sem /\ Console \in Mutex /\ NoTask \notin Task
      /\ Console # OSem /\ Console # ISem
      /\ \A q \in Mutex \cup Sem : waiting[q] \subseteq Task
  BY TtyFacts
<1>3. pc'[t] = "write" /\ \A u \in Task \ {t} : pc'[u] = pc[u]
  BY <1>1, <1>2
<1>4. /\ SyncOK' /\ Apart(Console) /\ holder[Console] = t
      /\ \/ /\ waiting[Console] = {} /\ waiting'[Console] = {}
            /\ holder'[Console] = NoTask
         \/ /\ holder'[Console] \in waiting[Console]
            /\ waiting'[Console] = waiting[Console] \ {holder'[Console]}
  BY <1>1, <1>2, UnlockEffect
<1>5. t \notin waiting[Console] /\ holder'[Console] # t
  BY <1>1, <1>2, <1>4 DEF Free
<1>6. Queues'
  <2>1. /\ waiting'[OSem] = waiting[OSem] /\ waiting'[ISem] = waiting[ISem]
        /\ t \notin waiting[OSem] /\ t \notin waiting[ISem]
    BY <1>1, <1>2, <1>4 DEF Apart, Free
  <2>2. pc'[t] \notin Draining
    BY <1>3 DEF Draining
  <2>3. \A u \in Task : pc'[u] \in Draining
                          <=> u = holder'[Console] \/ u \in waiting'[Console]
    BY <1>2, <1>3, <1>4, <1>5, <2>2 DEF Queues
  <2>4. \A u \in waiting'[Console] : pc'[u] = "get"
    BY <1>2, <1>3, <1>4, <1>5 DEF Queues
  <2> QED
    BY <1>2, <1>3, <2>1, <2>3, <2>4 DEF Queues
<1>7. Rooms' = Rooms /\ Emptied' = Emptied /\ Keys' = Keys
  <2>1. CASE waiting'[Console] = waiting[Console]
    <3>1. \A u \in Task : Free(u)' <=> Free(u)
      BY <1>2, <1>4, <2>1, FreeSame
    <3>2. \A L : /\ Cardinality(Have(L)) \in Nat
                 /\ Cardinality(Have(L)')
                      = Cardinality(Have(L)) - One("unlock", L) + One("write", L)
      BY <1>1, <1>2, <3>1, MoveCounts
    <3>3. /\ Rooms \in Nat /\ Emptied \in Nat /\ Keys \in Nat
          /\ Rooms' = Rooms - One("unlock", {"cr_put", "put"}) + One("write", {"cr_put", "put"})
          /\ Emptied' = Emptied - One("unlock", {"notify"}) + One("write", {"notify"})
          /\ Keys' = Keys - One("unlock", {"key_get"}) + One("write", {"key_get"})
      BY <3>2 DEF Rooms, Emptied, Keys
    <3> QED
      BY <3>3 DEF One
  <2>2. ASSUME NEW u \in waiting[Console], waiting'[Console] = waiting[Console] \ {u}
        PROVE  Rooms' = Rooms /\ Emptied' = Emptied /\ Keys' = Keys
    <3>1. /\ Free(u)' /\ ~ Free(u)
          /\ \A v \in Task \ {u} : Free(v)' <=> Free(v)
      BY <1>2, <1>4, <2>2, FreeGained
    <3>2. u \in Task /\ u # t /\ pc[u] = "get" /\ pc'[u] = pc[u]
      BY <1>1, <1>2, <1>3, <3>1 DEF Queues
    <3>3. /\ Cardinality(Have({"cr_put", "put"})) \in Nat
          /\ Cardinality(Have({"cr_put", "put"})')
               = Cardinality(Have({"cr_put", "put"})) + One(pc[u], {"cr_put", "put"})
      <4>1. \A v \in Task \ {u} : pc'[v] \in {"cr_put", "put"} <=> pc[v] \in {"cr_put", "put"}
        BY <1>1, <1>3
      <4> QED
        BY <3>1, <3>2, <4>1, GainCounts
    <3>4. /\ Cardinality(Have({"key_get"})) \in Nat
          /\ Cardinality(Have({"key_get"})')
               = Cardinality(Have({"key_get"})) + One(pc[u], {"key_get"})
      <4>1. \A v \in Task \ {u} : pc'[v] \in {"key_get"} <=> pc[v] \in {"key_get"}
        BY <1>1, <1>3
      <4> QED
        BY <3>1, <3>2, <4>1, GainCounts
    <3>5. /\ Cardinality(Have({"notify"})) \in Nat
          /\ Cardinality(Have({"notify"})')
               = Cardinality(Have({"notify"})) + One(pc[u], {"notify"})
      <4>1. \A v \in Task \ {u} : pc'[v] \in {"notify"} <=> pc[v] \in {"notify"}
        BY <1>1, <1>3
      <4> QED
        BY <3>1, <3>2, <4>1, GainCounts
    <3>6. /\ One(pc[u], {"cr_put", "put"}) = 0 /\ One(pc[u], {"key_get"}) = 0
          /\ One(pc[u], {"notify"}) = 0
      BY <3>2 DEF One
    <3> QED
      BY <3>3, <3>4, <3>5, <3>6 DEF Rooms, Emptied, Keys
  <2> QED
    BY <1>4, <2>1, <2>2
<1>8. OutputAccounted' /\ InputAccounted'
  BY <1>1, <1>4, <1>7, MutexAccounted
<1> QED
  BY <1>4, <1>6, <1>8 DEF SyncPart

(* A key arrives, or is lost: it is counted, or goes to a reader.           *)
LEMMA KeySync ==
  ASSUME TtyInv, NEW k \in Key, tty_in(k)
  PROVE  SyncPart' /\ ififo' \in Seq(Key) /\ Len(ififo') <= ISize /\ lost' \in Nat
<1>1. /\ Post(ISem) /\ ofifo' = ofifo /\ pc' = pc
      /\ \/ /\ Len(ififo) < ISize /\ ififo' = Append(ififo, k) /\ lost' = lost
         \/ /\ ~ (Len(ififo) < ISize) /\ ififo' = ififo /\ lost' = lost + 1
  BY DEF tty_in, sem_notify, outs
<1>2. /\ SyncOK /\ Queues /\ pc \in [Task -> Labels]
      /\ OSem \in Sem /\ ISem \in Sem /\ OSem # ISem /\ Console \in Mutex
      /\ Console # OSem /\ Console # ISem
      /\ tokens[ISem] \in Nat /\ Len(ififo) \in Nat /\ lost \in Nat
      /\ tokens[OSem] + Len(ofifo) + Rooms + Emptied = OSize
      /\ tokens[ISem] + Keys = Len(ififo) + lost
      /\ \A q \in Mutex \cup Sem : waiting[q] \subseteq Task
  BY TtyFacts
<1>3. /\ SyncOK' /\ Apart(ISem)
      /\ \/ /\ waiting[ISem] = {} /\ waiting'[ISem] = {}
            /\ tokens'[ISem] = tokens[ISem] + 1
         \/ /\ tokens'[ISem] = tokens[ISem]
            /\ \E u \in waiting[ISem] : waiting'[ISem] = waiting[ISem] \ {u}
  BY <1>1, <1>2, PostEffect
<1>4. /\ holder'[Console] = holder[Console] /\ waiting'[Console] = waiting[Console]
      /\ waiting'[OSem] = waiting[OSem] /\ tokens'[OSem] = tokens[OSem]
      /\ waiting'[ISem] \subseteq waiting[ISem]
  BY <1>2, <1>3 DEF Apart
<1>5. Queues'
  BY <1>1, <1>2, <1>4 DEF Queues
<1>6. /\ Keys \in Nat /\ Rooms' = Rooms /\ Emptied' = Emptied
      /\ \/ tokens'[ISem] = tokens[ISem] + 1 /\ Keys' = Keys
         \/ tokens'[ISem] = tokens[ISem] /\ Keys' = Keys + 1
  <2>1. CASE /\ waiting[ISem] = {} /\ waiting'[ISem] = {}
             /\ tokens'[ISem] = tokens[ISem] + 1
    <3>1. \A u \in Task : Free(u)' <=> Free(u)
      BY <1>2, <1>3, <2>1, FreeSame
    <3>2. \A L : Have(L)' = Have(L)
      BY <1>1, <3>1 DEF Have
    <3>3. Keys \in Nat
      <4>1. IsFiniteSet(Have({"key_get"}))
        BY TtyAssumption, FS_Subset DEF Have
      <4> QED
        BY <4>1, FS_CardinalityType DEF Keys
    <3> QED
      BY <2>1, <3>2, <3>3 DEF Rooms, Emptied, Keys
  <2>2. ASSUME NEW u \in waiting[ISem], waiting'[ISem] = waiting[ISem] \ {u},
               tokens'[ISem] = tokens[ISem]
        PROVE  /\ Keys \in Nat /\ Rooms' = Rooms /\ Emptied' = Emptied
               /\ Keys' = Keys + 1
    <3>1. /\ Free(u)' /\ ~ Free(u)
          /\ \A v \in Task \ {u} : Free(v)' <=> Free(v)
      BY <1>2, <1>3, <2>2, FreeGained
    <3>2. u \in Task /\ pc[u] = "key_get" /\ pc'[u] = pc[u]
      BY <1>1, <1>2 DEF Queues
    <3>3. \A L : /\ Cardinality(Have(L)) \in Nat
                 /\ Cardinality(Have(L)') = Cardinality(Have(L)) + One(pc[u], L)
      BY <1>1, <3>1, <3>2, GainCounts
    <3>4. /\ Rooms \in Nat /\ Emptied \in Nat /\ Keys \in Nat
          /\ Rooms' = Rooms + One(pc[u], {"cr_put", "put"})
          /\ Emptied' = Emptied + One(pc[u], {"notify"})
          /\ Keys' = Keys + One(pc[u], {"key_get"})
      BY <3>3 DEF Rooms, Emptied, Keys
    <3> QED
      BY <3>2, <3>4 DEF One
  <2> QED
    BY <1>3, <2>1, <2>2
<1>7. ififo \in Seq(Key) /\ Len(ififo) <= ISize /\ ISize \in Nat
  BY TtyAssumption DEF TtyInv, TtyTypeOK
<1>8. /\ ififo' \in Seq(Key) /\ Len(ififo') <= ISize /\ lost' \in Nat
      /\ Len(ififo') \in Nat /\ Len(ififo') + lost' = Len(ififo) + lost + 1
  <2>1. CASE Len(ififo) < ISize
    <3>1. ififo' \in Seq(Key) /\ Len(ififo') = Len(ififo) + 1 /\ lost' = lost
      BY <1>1, <1>7, <2>1
    <3>2. lost' \in Nat /\ Len(ififo) \in Nat /\ lost \in Nat
      BY <1>2, <3>1
    <3> QED
      BY <1>7, <2>1, <3>1, <3>2
  <2>2. CASE ~ (Len(ififo) < ISize)
    <3>1. ififo' = ififo /\ lost' = lost + 1
      BY <1>1, <2>2
    <3> QED
      BY <1>2, <1>7, <3>1
  <2> QED
    BY <2>1, <2>2
<1>9. /\ tokens'[OSem] + Len(ofifo') + Rooms' + Emptied' = OSize
      /\ tokens'[ISem] + Keys' = Len(ififo') + lost'
  <2>1. /\ tokens[ISem] \in Nat /\ Keys \in Nat /\ Len(ififo) \in Nat /\ lost \in Nat
        /\ tokens[ISem] + Keys = Len(ififo) + lost
        /\ \/ tokens'[ISem] = tokens[ISem] + 1 /\ Keys' = Keys
           \/ tokens'[ISem] = tokens[ISem] /\ Keys' = Keys + 1
    BY <1>2, <1>6
  <2>2. tokens'[ISem] + Keys' = Len(ififo) + lost + 1
    BY <2>1
  <2>3. tokens'[ISem] + Keys' = Len(ififo') + lost'
    BY <1>8, <2>2
  <2>4. tokens'[OSem] + Len(ofifo') + Rooms' + Emptied' = OSize
    BY <1>1, <1>2, <1>4, <1>6
  <2> QED
    BY <2>3, <2>4
<1>10. OutputAccounted' /\ InputAccounted'
  BY <1>9 DEF OutputAccounted, InputAccounted, Rooms, Emptied, Keys
<1> QED
  BY <1>3, <1>5, <1>8, <1>10 DEF SyncPart

(* Every step keeps semaphores, mutex and rings in agreement.               *)
LEMMA SyncPartNext ==
  ASSUME TtyInv, TtyNext
  PROVE  SyncPart'
<1>1. ASSUME NEW t \in Task, InWrite(t)
      PROVE  SyncPart'
  <2>1. CASE WriteChar(t)
    <3>1. PICK b \in {"cr_wait", "put_wait"} : Goto(t, "write", b)
      BY <2>1 DEF WriteChar
    <3>2. UNCHANGED svars /\ ofifo' = ofifo /\ ififo' = ififo /\ lost' = lost
      BY <2>1 DEF WriteChar, outs, ins
    <3> QED
      BY <3>1, <3>2, QuietStep DEF Draining
  <2>2. CASE WriteReturn(t)
    <3>1. back[t] \in {"user", "echoed"}
      BY DEF TtyInv, TtyTypeOK
    <3>2. PICK b \in {"user", "echoed"} : Goto(t, "write", b)
      BY <2>2, <3>1 DEF WriteReturn
    <3>3. UNCHANGED svars /\ ofifo' = ofifo /\ ififo' = ififo /\ lost' = lost
      BY <2>2 DEF WriteReturn, ins
    <3> QED
      BY <3>2, <3>3, QuietStep DEF Draining
  <2>3. CASE Show(t)
    <3>1. /\ Goto(t, "show", "get") /\ UNCHANGED svars
          /\ ofifo' = ofifo /\ ififo' = ififo /\ lost' = lost
      BY <2>3 DEF Show, ins
    <3> QED
      BY <3>1, QuietStep DEF Draining
  <2>4. CASE Empty(t)
    <3>1. /\ Goto(t, "get", "unlock") /\ UNCHANGED svars
          /\ ofifo' = ofifo /\ ififo' = ififo /\ lost' = lost
      BY <2>4 DEF Empty, outs, ins
    <3> QED
      BY <3>1, QuietStep DEF Draining
  <2> QED
    BY <1>1, <2>1, <2>2, <2>3, <2>4, PutSync, GetOutSync, WaitRoomSync,
       NotifyRoomSync, LockSync, UnlockSync DEF InWrite
<1>2. ASSUME NEW t \in Task, InRead(t)
      PROVE  SyncPart'
  <2>1. CASE Echoed(t)
    <3>1. PICK b \in {"user", "key_wait"} : Goto(t, "echoed", b)
      BY <2>1 DEF Echoed
    <3>2. UNCHANGED svars /\ ofifo' = ofifo /\ ififo' = ififo /\ lost' = lost
      BY <2>1 DEF Echoed, outs
    <3> QED
      BY <3>1, <3>2, QuietStep DEF Draining
  <2> QED
    BY <1>2, <2>1, WaitKeySync, GetKeySync DEF InRead
<1>3. ASSUME NEW t \in Task, Call(t)
      PROVE  SyncPart'
  <2>1. PICK b \in {"write", "key_wait", "user"} : Goto(t, "user", b)
    BY <1>3 DEF Call, Write, Read, tty_control
  <2>2. UNCHANGED svars /\ ofifo' = ofifo /\ ififo' = ififo /\ lost' = lost
    BY <1>3 DEF Call, Write, Read, tty_control, outs, ins
  <2> QED
    BY <2>1, <2>2, QuietStep DEF Draining
<1> QED
  BY <1>1, <1>2, <1>3, KeySync DEF TtyNext

-----------------------------------------------------------------------------
TypePart ==
  TtyTypeOK /\ Lines /\ \A t \in Task : CharsLeft(t) /\ LineRoom(t)

\* The process t moves from a to b; what the others do and have is left.
Alone(t, a, b) ==
  /\ pc[t] = a /\ pc'[t] = b /\ pc' \in [Task -> Labels]
  /\ \A u \in Task \ {t} :
       /\ pc'[u] = pc[u] /\ left'[u] = left[u] /\ back'[u] = back[u]
       /\ hand'[u] = hand[u] /\ line'[u] = line[u] /\ size'[u] = size[u]
       /\ sent'[u] = sent[u]

(* A step of one process keeps the others' part of the types.               *)
LEMMA AloneTypes ==
  ASSUME TypePart, NEW t \in Task, NEW a, NEW b, Alone(t, a, b),
         TtyTypeOK', Lines', CharsLeft(t)', LineRoom(t)'
  PROVE  TypePart'
<1>1. ASSUME NEW u \in Task \ {t}
      PROVE  CharsLeft(u)' /\ LineRoom(u)'
  <2>1. CharsLeft(u) /\ LineRoom(u)
    BY DEF TypePart
  <2>2. /\ pc'[u] = pc[u] /\ left'[u] = left[u] /\ back'[u] = back[u]
        /\ hand'[u] = hand[u] /\ line'[u] = line[u] /\ size'[u] = size[u]
        /\ sent'[u] = sent[u]
    BY DEF Alone
  <2> QED
    BY <2>1, <2>2 DEF CharsLeft, LineRoom
<1> QED
  BY <1>1 DEF TypePart

(* A step in which a process only goes on.                                  *)
LEMMA PcTypes ==
  ASSUME TypePart, NEW t \in Task, NEW a, NEW b \in Labels, Goto(t, a, b),
         UNCHANGED <<outs, ins, ch>>,
         a \in {"notify", "show"} <=> b \in {"notify", "show"},
         b \in {"cr_wait", "cr_put", "put_wait", "put"} => left[t] > 0,
         a \in {"put_wait", "put"} => b \in {"put_wait", "put"},
         \/ a \in Writing /\ b \in Writing
         \/ a = "key_wait" /\ b = "key_get"
  PROVE  TypePart'
<1>1. /\ pc[t] = a /\ pc' = [pc EXCEPT ![t] = b]
      /\ ofifo' = ofifo /\ left' = left /\ back' = back /\ hand' = hand
      /\ sent' = sent /\ shown' = shown /\ ififo' = ififo /\ echo' = echo
      /\ line' = line /\ size' = size /\ lost' = lost /\ ch' = ch
  BY DEF Goto, outs, ins
<1>2. TtyTypeOK /\ Lines /\ CharsLeft(t) /\ LineRoom(t) /\ pc \in [Task -> Labels]
  BY DEF TypePart, TtyTypeOK, Labels
<1>3. /\ pc'[t] = b /\ \A u \in Task \ {t} : pc'[u] = pc[u]
      /\ pc' \in [Task -> Labels]
  BY <1>1, <1>2
<1>4. TtyTypeOK' /\ Lines'
  BY <1>1, <1>2, <1>3 DEF TtyTypeOK, Lines, Labels
<1>5. Alone(t, a, b)
  BY <1>1, <1>3 DEF Alone
<1>6. left[t] \in Nat /\ sent[t] \in Nat /\ MaxWrite \in Nat
  BY <1>2, TtyAssumption DEF TtyTypeOK
<1>7. CharsLeft(t)'
  BY <1>1, <1>2, <1>3, <1>6 DEF CharsLeft
<1>8. LineRoom(t)'
  BY <1>1, <1>2, <1>3 DEF LineRoom, Writing
<1> QED
  BY <1>4, <1>5, <1>7, <1>8, AloneTypes

(* The steps of tty_write and tty_read in which a process only goes on.     *)
LEMMA PcSteps ==
  ASSUME TypePart, NEW t \in Task,
         \/ WriteChar(t) \/ WaitRoom(t) \/ Lock(t) \/ NotifyRoom(t) \/ Empty(t)
         \/ Unlock(t) \/ WaitKey(t)
  PROVE  TypePart'
<1>1. UNCHANGED <<outs, ins, ch>>
  BY DEF WriteChar, WaitRoom, Lock, NotifyRoom, Empty, Unlock, WaitKey
<1>2. CASE WriteChar(t)
  <2>1. left[t] > 0 /\ \E b \in {"cr_wait", "put_wait"} : Goto(t, "write", b)
    BY <1>2 DEF WriteChar
  <2> QED
    BY <1>1, <2>1, PcTypes DEF Labels, Writing
<1>3. CASE WaitRoom(t)
  <2>1. \/ Goto(t, "cr_wait", "cr_put")
        \/ Goto(t, "put_wait", "put")
    BY <1>3 DEF WaitRoom
  <2>2. left[t] > 0
    BY <2>1 DEF TypePart, CharsLeft, Goto
  <2> QED
    BY <1>1, <2>1, <2>2, PcTypes DEF Labels, Writing
<1>4. CASE Lock(t) \/ Empty(t) \/ Unlock(t)
  <2>1. \/ Goto(t, "lock", "get") \/ Goto(t, "get", "unlock")
        \/ Goto(t, "unlock", "write")
    BY <1>4 DEF Lock, Empty, Unlock
  <2> QED
    BY <1>1, <2>1, PcTypes DEF Labels, Writing
<1>5. CASE NotifyRoom(t)
  <2>1. Goto(t, "notify", "show")
    BY <1>5 DEF NotifyRoom
  <2> QED
    BY <1>1, <2>1, PcTypes DEF Labels, Writing
<1>6. CASE WaitKey(t)
  <2>1. Goto(t, "key_wait", "key_get")
    BY <1>6 DEF WaitKey
  <2> QED
    BY <1>1, <2>1, PcTypes DEF Labels, Writing
<1> QED
  BY <1>2, <1>3, <1>4, <1>5, <1>6

(* The types in a form that says more of one process.                       *)
LEMMA TypeFacts ==
  ASSUME TypePart, NEW t \in Task
  PROVE  /\ TtyTypeOK /\ Lines /\ CharsLeft(t) /\ LineRoom(t)
         /\ pc \in [Task -> Labels] /\ pc[t] \in Labels
         /\ left[t] \in Nat /\ left[t] <= MaxWrite
         /\ sent[t] \in Nat /\ sent[t] <= 2 * MaxWrite
         /\ size[t] \in Nat /\ size[t] >= 1 /\ size[t] <= MaxRead
         /\ line[t] \in Seq({"char", "return", "newline"})
         /\ Len(line[t]) \in Nat /\ Len(line[t]) <= size[t]
         /\ back[t] \in {"user", "echoed"} /\ ch[t] \in Key
         /\ MaxWrite \in Nat \ {0} /\ MaxRead \in Nat \ {0}
<1>1. TtyTypeOK /\ Lines /\ CharsLeft(t) /\ LineRoom(t)
  BY DEF TypePart
<1>2. MaxWrite \in Nat \ {0} /\ MaxRead \in Nat \ {0}
  BY TtyAssumption
<1>3. line[t] \in Seq({"char", "return", "newline"}) /\ Len(line[t]) <= size[t]
  BY <1>1 DEF Lines, TtyTypeOK
<1>4. /\ pc \in [Task -> Labels] /\ back[t] \in {"user", "echoed"} /\ ch[t] \in Key
      /\ left[t] \in 0..MaxWrite /\ sent[t] \in 0..(2 * MaxWrite)
      /\ size[t] \in 1..MaxRead
  BY <1>1 DEF TtyTypeOK, Labels
<1> QED
  BY <1>1, <1>2, <1>3, <1>4

(* A call of tty_write has two characters for each to put, and a return     *)
(* none.                                                                    *)
LEMMA CallTypes ==
  ASSUME TypePart, NEW t \in Task, Write(t) \/ WriteReturn(t)
  PROVE  TypePart'
<1>1. /\ TtyTypeOK /\ Lines /\ CharsLeft(t) /\ LineRoom(t)
      /\ pc \in [Task -> Labels] /\ MaxWrite \in Nat \ {0}
      /\ back[t] \in {"user", "echoed"}
  BY TypeFacts
<1>2. /\ ofifo' = ofifo /\ hand' = hand /\ ch' = ch
      /\ ififo' = ififo /\ echo' = echo /\ line' = line /\ size' = size
      /\ lost' = lost
  BY DEF Write, WriteReturn, ins
<1>3. PICK a \in {"user", "write"}, b \in {"write", "user", "echoed"}, n \in 0..MaxWrite :
        /\ Goto(t, a, b) /\ CallWrite(t, n, "user")
        /\ (a = "user" /\ b = "write") \/ (a = "write" /\ b = back[t])
  <2>1. CASE Write(t)
    BY <1>1, <2>1 DEF Write
  <2>2. CASE WriteReturn(t)
    BY <1>1, <2>2 DEF WriteReturn
  <2> QED
    BY <2>1, <2>2
<1>4. /\ pc[t] = a /\ pc' = [pc EXCEPT ![t] = b]
      /\ left' = [left EXCEPT ![t] = n] /\ back' = [back EXCEPT ![t] = "user"]
      /\ sent' = [sent EXCEPT ![t] = 0] /\ shown' = [shown EXCEPT ![t] = 0]
  BY <1>3 DEF Goto, CallWrite
<1>5. pc' \in [Task -> Labels] /\ pc'[t] = b
  BY <1>1, <1>4 DEF Labels, Writing
<1>6. /\ left' \in [Task -> 0..MaxWrite] /\ back' \in [Task -> {"user", "echoed"}]
      /\ sent' \in [Task -> 0..(2 * MaxWrite)] /\ shown' \in [Task -> 0..(2 * MaxWrite)]
      /\ left'[t] = n /\ back'[t] = "user" /\ sent'[t] = 0
  <2>1. 0 \in 0..(2 * MaxWrite)
    BY <1>1
  <2> QED
    BY <1>1, <1>4, <2>1 DEF TtyTypeOK
<1>7. TtyTypeOK' /\ Lines'
  BY <1>1, <1>2, <1>5, <1>6 DEF TtyTypeOK, Lines, Labels
<1>8. Alone(t, a, b)
  BY <1>1, <1>2, <1>4, <1>5 DEF Alone, TtyTypeOK
<1>9. CharsLeft(t)'
  BY <1>1, <1>2, <1>3, <1>4, <1>5, <1>6 DEF CharsLeft
<1>10. LineRoom(t)'
  <2>1. CASE a = "user"
    <3>1. line[t] = <<>> /\ b = "write"
      BY <1>1, <1>3, <1>4, <2>1 DEF LineRoom
    <3> QED
      BY <1>2, <1>5, <3>1 DEF LineRoom
  <2>2. CASE a = "write"
    <3>1. (back[t] = "user" => line[t] = <<>>) /\ b = back[t]
      BY <1>1, <1>3, <1>4, <2>2 DEF LineRoom, Writing
    <3> QED
      BY <1>1, <1>2, <1>5, <3>1 DEF LineRoom, Writing
  <2> QED
    BY <2>1, <2>2
<1> QED
  BY <1>7, <1>8, <1>9, <1>10, AloneTypes

(* A put takes one of the characters the call has left.                     *)
LEMMA PutTypes ==
  ASSUME TypePart, NEW t \in Task, PutReturn(t) \/ Put(t)
  PROVE  TypePart'
<1>1. /\ TtyTypeOK /\ Lines /\ CharsLeft(t) /\ LineRoom(t)
      /\ pc \in [Task -> Labels] /\ MaxWrite \in Nat
      /\ left[t] \in Nat /\ left[t] <= MaxWrite /\ sent[t] \in Nat
  BY TypeFacts
<1>2. /\ Len(ofifo) < OSize /\ ofifo' = Append(ofifo, <<t, sent[t] + 1>>)
      /\ sent' = [sent EXCEPT ![t] = @ + 1]
      /\ back' = back /\ hand' = hand /\ shown' = shown /\ ch' = ch
      /\ ififo' = ififo /\ echo' = echo /\ line' = line /\ size' = size
      /\ lost' = lost
  BY DEF PutReturn, Put, PutOut, ins
<1>3. PICK a \in {"cr_put", "put"}, b \in {"put_wait", "lock"} :
        /\ Goto(t, a, b)
        /\ \/ a = "cr_put" /\ b = "put_wait" /\ left' = left
           \/ a = "put" /\ b = "lock" /\ left' = [left EXCEPT ![t] = @ - 1]
  BY DEF PutReturn, Put
<1>4. pc[t] = a /\ pc' = [pc EXCEPT ![t] = b]
  BY <1>3 DEF Goto
<1>5. pc' \in [Task -> Labels] /\ pc'[t] = b
  BY <1>1, <1>4 DEF Labels, Writing
<1>6. /\ left[t] > 0
      /\ sent[t] + 2 * left[t] <= 2 * MaxWrite + (IF a = "put" THEN 1 ELSE 0)
  BY <1>1, <1>3, <1>4 DEF CharsLeft
<1>7. sent[t] + 1 \in 1..(2 * MaxWrite)
  BY <1>1, <1>6
<1>8. /\ ofifo' \in Seq(OutChar) /\ Len(ofifo') <= OSize
  <2>1. <<t, sent[t] + 1>> \in OutChar
    BY <1>7 DEF OutChar
  <2>2. ofifo \in Seq(OutChar) /\ OSize \in Nat
    BY <1>1, TtyAssumption DEF TtyTypeOK
  <2>3. ofifo' \in Seq(OutChar) /\ Len(ofifo') = Len(ofifo) + 1
    BY <1>2, <2>1, <2>2
  <2> QED
    BY <1>2, <2>2, <2>3
<1>9. /\ sent' \in [Task -> 0..(2 * MaxWrite)] /\ sent'[t] = sent[t] + 1
  BY <1>1, <1>2, <1>7 DEF TtyTypeOK
<1>10. /\ left' \in [Task -> 0..MaxWrite]
       /\ left'[t] = IF a = "put" THEN left[t] - 1 ELSE left[t]
       /\ \A u \in Task \ {t} : left'[u] = left[u]
  <2>1. left[t] - 1 \in 0..MaxWrite
    BY <1>1, <1>6
  <2> QED
    BY <1>1, <1>3, <2>1 DEF TtyTypeOK
<1>11. TtyTypeOK' /\ Lines'
  BY <1>1, <1>2, <1>5, <1>8, <1>9, <1>10 DEF TtyTypeOK, Lines, Labels
<1>12. Alone(t, a, b)
  BY <1>1, <1>2, <1>4, <1>5, <1>10 DEF Alone, TtyTypeOK
<1>13. CharsLeft(t)'
  <2>1. hand'[t] # None <=> pc'[t] \in {"notify", "show"}
    BY <1>1, <1>2, <1>3, <1>4, <1>5 DEF CharsLeft
  <2>2. CASE a = "cr_put" /\ b = "put_wait"
    BY <1>1, <1>5, <1>6, <1>9, <1>10, <2>1, <2>2 DEF CharsLeft
  <2>3. CASE a = "put" /\ b = "lock"
    BY <1>1, <1>5, <1>6, <1>9, <1>10, <2>1, <2>3 DEF CharsLeft
  <2> QED
    BY <1>3, <2>2, <2>3
<1>14. LineRoom(t)'
  BY <1>1, <1>2, <1>3, <1>4, <1>5 DEF LineRoom, Writing
<1> QED
  BY <1>11, <1>12, <1>13, <1>14, AloneTypes

(* The character taken from the ring is in the hand.                        *)
LEMMA GetOutTypes ==
  ASSUME TypePart, NEW t \in Task, GetOut(t)
  PROVE  TypePart'
<1>1. /\ TtyTypeOK /\ Lines /\ CharsLeft(t) /\ LineRoom(t)
      /\ pc \in [Task -> Labels]
  BY TypeFacts
<1>2. /\ ofifo # <<>> /\ ofifo' = Tail(ofifo)
      /\ hand' = [hand EXCEPT ![t] = Head(ofifo)]
      /\ pc[t] = "get" /\ pc' = [pc EXCEPT ![t] = "notify"]
      /\ left' = left /\ back' = back /\ sent' = sent /\ shown' = shown /\ ch' = ch
      /\ ififo' = ififo /\ echo' = echo /\ line' = line /\ size' = size
      /\ lost' = lost
  BY DEF GetOut, Goto, ins
<1>3. pc' \in [Task -> Labels] /\ pc'[t] = "notify"
  BY <1>1, <1>2 DEF Labels, Writing
<1>4. /\ ofifo' \in Seq(OutChar) /\ Len(ofifo') <= OSize /\ Head(ofifo) \in OutChar
  <2>1. ofifo \in Seq(OutChar) /\ Len(ofifo) <= OSize /\ OSize \in Nat
    BY <1>1, TtyAssumption DEF TtyTypeOK
  <2>2. /\ Head(ofifo) \in OutChar /\ Tail(ofifo) \in Seq(OutChar)
        /\ Len(Tail(ofifo)) = Len(ofifo) - 1
    BY <1>2, <2>1, HeadTailProperties
  <2> QED
    BY <1>2, <2>1, <2>2
<1>5. /\ hand' \in [Task -> OutChar \cup {None}] /\ hand'[t] = Head(ofifo)
      /\ \A u \in Task \ {t} : hand'[u] = hand[u]
  BY <1>1, <1>2, <1>4 DEF TtyTypeOK
<1>6. hand'[t] # None
  <2>1. \A c \in OutChar : c # None
    BY DEF OutChar, None
  <2> QED
    BY <1>4, <1>5, <2>1
<1>7. TtyTypeOK' /\ Lines'
  BY <1>1, <1>2, <1>3, <1>4, <1>5 DEF TtyTypeOK, Lines, Labels
<1>8. Alone(t, "get", "notify")
  BY <1>1, <1>2, <1>3, <1>5 DEF Alone
<1>9. CharsLeft(t)' /\ LineRoom(t)'
  BY <1>1, <1>2, <1>3, <1>6 DEF CharsLeft, LineRoom, Writing
<1> QED
  BY <1>7, <1>8, <1>9, AloneTypes

(* The character displayed is no longer in the hand.                        *)
LEMMA ShowTypes ==
  ASSUME TypePart, NEW t \in Task, Show(t)
  PROVE  TypePart'
<1>1. /\ TtyTypeOK /\ Lines /\ CharsLeft(t) /\ LineRoom(t)
      /\ pc \in [Task -> Labels] /\ MaxWrite \in Nat
  BY TypeFacts
<1>2. /\ shown' = [shown EXCEPT ![hand[t][1]] = hand[t][2]]
      /\ hand' = [hand EXCEPT ![t] = None]
      /\ pc[t] = "show" /\ pc' = [pc EXCEPT ![t] = "get"]
      /\ ofifo' = ofifo /\ left' = left /\ back' = back /\ sent' = sent /\ ch' = ch
      /\ ififo' = ififo /\ echo' = echo /\ line' = line /\ size' = size
      /\ lost' = lost
  BY DEF Show, Goto, ins
<1>3. pc' \in [Task -> Labels] /\ pc'[t] = "get"
  BY <1>1, <1>2 DEF Labels, Writing
<1>4. hand[t] \in OutChar
  BY <1>1, <1>2 DEF CharsLeft, TtyTypeOK
<1>5. hand[t][1] \in Task /\ hand[t][2] \in 0..(2 * MaxWrite)
  BY <1>1, <1>4 DEF OutChar
<1>6. shown' \in [Task -> 0..(2 * MaxWrite)]
  BY <1>1, <1>2, <1>5 DEF TtyTypeOK
<1>7. /\ hand' \in [Task -> OutChar \cup {None}] /\ hand'[t] = None
      /\ \A u \in Task \ {t} : hand'[u] = hand[u]
  BY <1>1, <1>2 DEF TtyTypeOK
<1>8. TtyTypeOK' /\ Lines'
  BY <1>1, <1>2, <1>3, <1>6, <1>7 DEF TtyTypeOK, Lines, Labels
<1>9. Alone(t, "show", "get")
  BY <1>1, <1>2, <1>3, <1>7 DEF Alone
<1>10. CharsLeft(t)' /\ LineRoom(t)'
  BY <1>1, <1>2, <1>3, <1>7 DEF CharsLeft, LineRoom, Writing
<1> QED
  BY <1>8, <1>9, <1>10, AloneTypes

(* A key adds two characters to the line at most, and only if there is room. *)
LEMMA EditFits ==
  ASSUME NEW l \in Seq({"char", "return", "newline"}), NEW c \in Key, NEW n \in Nat,
         Len(l) < n, ~ (c = "delete" /\ l = <<>>)
  PROVE  /\ Edit(l, c, n) \in Seq({"char", "return", "newline"})
         /\ Len(Edit(l, c, n)) <= n
<1> DEFINE S == {"char", "return", "newline"}
<1>1. Len(l) \in Nat
  OBVIOUS
<1>2. CASE c = "delete"
  <2>1. Edit(l, c, n) = SubSeq(l, 1, Len(l) - 1) /\ Len(l) > 0
    BY <1>2 DEF Edit
  <2>2. \A i \in 1..(Len(l) - 1) : l[i] \in S
    OBVIOUS
  <2>3. /\ SubSeq(l, 1, Len(l) - 1) \in Seq(S)
        /\ Len(SubSeq(l, 1, Len(l) - 1))
             = IF 1 <= Len(l) - 1 THEN (Len(l) - 1) - 1 + 1 ELSE 0
    BY <1>1, <2>2, SubSeqProperties
  <2> QED
    BY <1>1, <2>1, <2>3
<1>3. CASE c = "newline"
  <2>1. CASE Len(l) < n - 1
    <3>1. Edit(l, c, n) = l \o <<"return", "newline">>
      BY <1>3, <2>1 DEF Edit
    <3>2. <<"return", "newline">> \in Seq(S) /\ Len(<<"return", "newline">>) = 2
      OBVIOUS
    <3>3. /\ l \o <<"return", "newline">> \in Seq(S)
          /\ Len(l \o <<"return", "newline">>) = Len(l) + 2
      BY <3>2, ConcatProperties
    <3> QED
      BY <1>1, <2>1, <3>1, <3>3
  <2>2. CASE ~ (Len(l) < n - 1)
    <3>1. Edit(l, c, n) = Append(l, "newline")
      BY <1>3, <2>2 DEF Edit
    <3> QED
      BY <1>1, <3>1
  <2> QED
    BY <2>1, <2>2
<1>4. CASE c = "char"
  <2>1. Edit(l, c, n) = Append(l, "char")
    BY <1>4 DEF Edit
  <2> QED
    BY <1>1, <2>1
<1> QED
  BY <1>2, <1>3, <1>4 DEF Key

(* The key goes into the line, which had room, and is echoed or not.        *)
LEMMA GetKeyTypes ==
  ASSUME TypePart, NEW t \in Task, GetKey(t), lost' \in Nat
  PROVE  TypePart'
<1>1. /\ TtyTypeOK /\ Lines /\ CharsLeft(t) /\ LineRoom(t)
      /\ pc \in [Task -> Labels] /\ MaxWrite \in Nat \ {0}
      /\ sent[t] \in Nat /\ left[t] \in Nat
      /\ line[t] \in Seq({"char", "return", "newline"})
      /\ Len(line[t]) <= size[t] /\ size[t] \in Nat
  BY TypeFacts
<1>2. /\ ofifo' = ofifo /\ hand' = hand /\ echo' = echo /\ size' = size
      /\ pc[t] = "key_get"
  BY DEF GetKey, Goto
<1>3. /\ ififo' \in Seq(Key) /\ Len(ififo') <= ISize
      /\ ch' \in [Task -> Key] /\ ch'[t] \in Key
  <2>1. ififo \in Seq(Key) /\ Len(ififo) <= ISize /\ ISize \in Nat /\ ch \in [Task -> Key]
    BY <1>1, TtyAssumption DEF TtyTypeOK
  <2>2. CASE ififo # <<>>
    <3>1. ch' = [ch EXCEPT ![t] = Head(ififo)] /\ ififo' = Tail(ififo)
      BY <2>2 DEF GetKey
    <3>2. /\ Head(ififo) \in Key /\ Tail(ififo) \in Seq(Key)
          /\ Len(Tail(ififo)) = Len(ififo) - 1
      BY <2>1, <2>2, HeadTailProperties
    <3> QED
      BY <2>1, <3>1, <3>2
  <2>3. CASE ififo = <<>>
    <3>1. PICK c \in Key : ch' = [ch EXCEPT ![t] = c]
      BY <2>3 DEF GetKey
    <3>2. ififo' = ififo
      BY <2>3 DEF GetKey
    <3> QED
      BY <2>1, <3>1, <3>2
  <2> QED
    BY <2>2, <2>3
<1>4. Len(line[t]) < size[t]
  BY <1>1, <1>2 DEF LineRoom
<1>5. CASE ch'[t] = "delete" /\ line[t] = <<>>
  <2>1. /\ Goto(t, "key_get", "key_wait") /\ line' = line /\ left' = left
        /\ back' = back /\ sent' = sent /\ shown' = shown
    BY <1>5 DEF GetKey
  <2>2. pc' = [pc EXCEPT ![t] = "key_wait"]
    BY <2>1 DEF Goto
  <2>3. pc' \in [Task -> Labels] /\ pc'[t] = "key_wait"
    BY <1>1, <2>2 DEF Labels, Writing
  <2>4. TtyTypeOK' /\ Lines'
    BY <1>1, <1>2, <1>3, <2>1, <2>3 DEF TtyTypeOK, Lines, Labels
  <2>5. Alone(t, "key_get", "key_wait")
    BY <1>1, <1>2, <2>1, <2>2, <2>3 DEF Alone
  <2>6. CharsLeft(t)' /\ LineRoom(t)'
    BY <1>1, <1>2, <1>4, <2>1, <2>3 DEF CharsLeft, LineRoom, Writing
  <2> QED
    BY <2>4, <2>5, <2>6, AloneTypes
<1>6. CASE ~ (ch'[t] = "delete" /\ line[t] = <<>>)
  <2>1. line' = [line EXCEPT ![t] = Edit(@, ch'[t], size[t])]
    BY <1>6 DEF GetKey
  <2>2. PICK l : l = Edit(line[t], ch'[t], size[t])
    OBVIOUS
  <2>3. l \in Seq({"char", "return", "newline"}) /\ Len(l) <= size[t]
    BY <1>1, <1>3, <1>4, <1>6, <2>2, EditFits
  <2>4. /\ line' \in [Task -> Seq({"char", "return", "newline"})]
        /\ line'[t] = l /\ \A u \in Task \ {t} : line'[u] = line[u]
    BY <1>1, <2>1, <2>2, <2>3 DEF Lines
  <2>5. CASE echo
    <3>1. Goto(t, "key_get", "write") /\ CallWrite(t, 1, "echoed")
      BY <1>6, <2>5 DEF GetKey
    <3>2. /\ pc' = [pc EXCEPT ![t] = "write"]
          /\ left' = [left EXCEPT ![t] = 1] /\ back' = [back EXCEPT ![t] = "echoed"]
          /\ sent' = [sent EXCEPT ![t] = 0] /\ shown' = [shown EXCEPT ![t] = 0]
      BY <3>1 DEF Goto, CallWrite
    <3>3. pc' \in [Task -> Labels] /\ pc'[t] = "write"
      BY <1>1, <3>2 DEF Labels, Writing
    <3>4. /\ left' \in [Task -> 0..MaxWrite] /\ back' \in [Task -> {"user", "echoed"}]
          /\ sent' \in [Task -> 0..(2 * MaxWrite)] /\ shown' \in [Task -> 0..(2 * MaxWrite)]
          /\ left'[t] = 1 /\ back'[t] = "echoed" /\ sent'[t] = 0
      <4>1. 0 \in 0..(2 * MaxWrite) /\ 1 \in 0..MaxWrite
        BY <1>1
      <4> QED
        BY <1>1, <3>2, <4>1 DEF TtyTypeOK
    <3>5. \A u \in Task : Len(line'[u]) <= size'[u]
      BY <1>1, <1>2, <2>3, <2>4 DEF TtyTypeOK
    <3>6. TtyTypeOK' /\ Lines'
      BY <1>1, <1>2, <1>3, <2>4, <3>3, <3>4, <3>5 DEF TtyTypeOK, Lines, Labels
    <3>7. Alone(t, "key_get", "write")
      BY <1>1, <1>2, <2>4, <3>2, <3>3 DEF Alone, TtyTypeOK
    <3>8. CharsLeft(t)' /\ LineRoom(t)'
      BY <1>1, <1>2, <3>3, <3>4 DEF CharsLeft, LineRoom, Writing
    <3> QED
      BY <3>6, <3>7, <3>8, AloneTypes
  <2>6. CASE ~ echo
    <3>1. /\ Goto(t, "key_get", "echoed") /\ left' = left /\ back' = back
          /\ sent' = sent /\ shown' = shown
      BY <1>6, <2>6 DEF GetKey
    <3>2. pc' = [pc EXCEPT ![t] = "echoed"]
      BY <3>1 DEF Goto
    <3>3. pc' \in [Task -> Labels] /\ pc'[t] = "echoed"
      BY <1>1, <3>2 DEF Labels, Writing
    <3>4. \A u \in Task : Len(line'[u]) <= size'[u]
      BY <1>1, <1>2, <2>3, <2>4 DEF TtyTypeOK
    <3>5. TtyTypeOK' /\ Lines'
      BY <1>1, <1>2, <1>3, <2>4, <3>1, <3>3, <3>4 DEF TtyTypeOK, Lines, Labels
    <3>6. Alone(t, "key_get", "echoed")
      BY <1>1, <1>2, <2>4, <3>1, <3>2, <3>3 DEF Alone
    <3>7. CharsLeft(t)' /\ LineRoom(t)'
      BY <1>1, <1>2, <3>1, <3>3 DEF CharsLeft, LineRoom, Writing
    <3> QED
      BY <3>5, <3>6, <3>7, AloneTypes
  <2> QED
    BY <2>5, <2>6
<1> QED
  BY <1>5, <1>6

(* A read begins with an empty line, and goes on only while there is room.  *)
LEMMA ReadTypes ==
  ASSUME TypePart, NEW t \in Task, Read(t) \/ Echoed(t) \/ tty_control(t)
  PROVE  TypePart'
<1>1. /\ TtyTypeOK /\ Lines /\ CharsLeft(t) /\ LineRoom(t)
      /\ pc \in [Task -> Labels] /\ MaxRead \in Nat \ {0}
      /\ Len(line[t]) \in Nat /\ size[t] \in Nat /\ size[t] >= 1
  BY TypeFacts
<1>2. /\ ofifo' = ofifo /\ hand' = hand /\ left' = left /\ back' = back
      /\ sent' = sent /\ shown' = shown /\ ififo' = ififo /\ lost' = lost
  BY DEF Read, Echoed, tty_control, outs
<1>3. echo' \in BOOLEAN /\ ch' \in [Task -> Key]
  BY <1>1 DEF Read, Echoed, tty_control, TtyTypeOK, Key
<1>4. PICK a \in {"user", "echoed"}, b \in {"user", "key_wait"} : Goto(t, a, b)
  BY DEF Read, Echoed, tty_control
<1>5. pc[t] = a /\ pc' = [pc EXCEPT ![t] = b]
  BY <1>4 DEF Goto
<1>6. pc' \in [Task -> Labels] /\ pc'[t] = b
  BY <1>1, <1>5 DEF Labels, Writing
<1>7. /\ line' \in [Task -> Seq({"char", "return", "newline"})]
      /\ size' \in [Task -> 1..MaxRead]
      /\ \A u \in Task \ {t} : line'[u] = line[u] /\ size'[u] = size[u]
      /\ b = "user" => line'[t] = <<>>
      /\ b = "key_wait" => Len(line'[t]) < size'[t]
      /\ Len(line'[t]) <= size'[t]
  <2>1. CASE Read(t)
    <3>1. PICK n \in 1..MaxRead : size' = [size EXCEPT ![t] = n]
      BY <2>1 DEF Read
    <3>2. line' = line /\ a = "user" /\ b = "key_wait"
      BY <1>1, <1>5, <1>6, <2>1 DEF Read, Goto
    <3>3. line[t] = <<>> /\ Len(line[t]) = 0
      BY <1>1, <1>5, <3>2 DEF LineRoom
    <3> QED
      BY <1>1, <3>1, <3>2, <3>3 DEF TtyTypeOK, Lines
  <2>2. CASE tty_control(t)
    <3>1. line' = line /\ size' = size /\ a = "user" /\ b = "user"
      BY <1>1, <1>5, <1>6, <2>2 DEF tty_control, Goto
    <3>2. line[t] = <<>> /\ Len(line[t]) = 0
      BY <1>1, <1>5, <3>1 DEF LineRoom
    <3> QED
      BY <1>1, <3>1, <3>2 DEF TtyTypeOK, Lines
  <2>3. CASE Echoed(t)
    <3>1. CASE ch[t] = "newline" \/ Len(line[t]) >= size[t]
      <4>1. /\ line' = [line EXCEPT ![t] = <<>>] /\ size' = [size EXCEPT ![t] = 1]
            /\ b = "user"
        BY <1>1, <1>5, <1>6, <2>3, <3>1 DEF Echoed, Goto
      <4>2. line'[t] = <<>> /\ size'[t] = 1 /\ Len(<<>>) = 0
        BY <1>1, <4>1 DEF TtyTypeOK, Lines
      <4> QED
        BY <1>1, <4>1, <4>2 DEF TtyTypeOK, Lines
    <3>2. CASE ~ (ch[t] = "newline" \/ Len(line[t]) >= size[t])
      <4>1. line' = line /\ size' = size /\ b = "key_wait"
        BY <1>1, <1>5, <1>6, <2>3, <3>2 DEF Echoed, Goto
      <4> QED
        BY <1>1, <3>2, <4>1 DEF TtyTypeOK, Lines
    <3> QED
      BY <3>1, <3>2
  <2> QED
    BY <2>1, <2>2, <2>3
<1>8. \A u \in Task : Len(line'[u]) <= size'[u]
  BY <1>1, <1>7 DEF TtyTypeOK
<1>9. TtyTypeOK' /\ Lines'
  BY <1>1, <1>2, <1>3, <1>6, <1>7, <1>8 DEF TtyTypeOK, Lines, Labels
<1>10. Alone(t, a, b)
  BY <1>1, <1>2, <1>5, <1>6, <1>7 DEF Alone
<1>11. CharsLeft(t)'
  BY <1>1, <1>2, <1>5, <1>6 DEF CharsLeft
<1>12. LineRoom(t)'
  BY <1>6, <1>7 DEF LineRoom, Writing
<1> QED
  BY <1>9, <1>10, <1>11, <1>12, AloneTypes

(* Every step keeps the types, and what each call has left to do.           *)
LEMMA TypePartNext ==
  ASSUME TtyInv, TtyNext
  PROVE  TypePart'
<1>1. TypePart
  BY DEF TtyInv, TypePart
<1>2. ASSUME NEW t \in Task, InWrite(t) \/ InRead(t) \/ Call(t)
      PROVE  TypePart'
  <2>1. CASE GetKey(t)
    BY <1>1, <2>1, GetKeySync, GetKeyTypes
  <2> QED
    BY <1>1, <1>2, <2>1, PcSteps, CallTypes, PutTypes, GetOutTypes, ShowTypes,
       ReadTypes DEF InWrite, InRead, Call
<1>3. ASSUME NEW k \in Key, tty_in(k)
      PROVE  TypePart'
  <2>1. ififo' \in Seq(Key) /\ Len(ififo') <= ISize /\ lost' \in Nat
    BY <1>3, KeySync
  <2>2. /\ ofifo' = ofifo /\ hand' = hand /\ left' = left /\ back' = back
        /\ sent' = sent /\ shown' = shown /\ pc' = pc /\ ch' = ch
        /\ echo' = echo /\ line' = line /\ size' = size
    BY <1>3 DEF tty_in, outs
  <2>3. TtyTypeOK' /\ Lines'
    BY <1>1, <2>1, <2>2 DEF TypePart, TtyTypeOK, Lines
  <2>4. \A u \in Task : CharsLeft(u)' /\ LineRoom(u)'
    BY <1>1, <2>2 DEF TypePart, CharsLeft, LineRoom
  <2> QED
    BY <2>3, <2>4 DEF TypePart
<1> QED
  BY <1>2, <1>3 DEF TtyNext

-----------------------------------------------------------------------------
(* Only the process that has the console holds a character.                 *)
LEMMA OneHand ==
  ASSUME TtyInv, NEW t \in Task, Free(t), pc[t] \in Draining
  PROVE  \A u \in Task \ {t} : hand[u] = None
<1>1. /\ Queues /\ Console \in Mutex
  BY TtyFacts
<1>2. t = holder[Console]
  BY <1>1 DEF Queues, Free
<1>3. ASSUME NEW u \in Task \ {t}, hand[u] # None
      PROVE  FALSE
  <2>1. pc[u] \in {"notify", "show"}
    BY <1>3 DEF TtyInv, CharsLeft
  <2>2. u = holder[Console]
    BY <1>1, <2>1 DEF Queues, Draining
  <2> QED
    BY <1>2, <2>2
<1> QED
  BY <1>3

(* The types of what is underway.                                           *)
LEMMA OrderFacts ==
  ASSUME TtyInv
  PROVE  /\ Awaited /\ Sorted /\ HandFirst /\ Settled
         /\ ofifo \in Seq(OutChar) /\ Len(ofifo) \in Nat
         /\ \A i \in 1..Len(ofifo) : ofifo[i] \in OutChar
         /\ hand \in [Task -> OutChar \cup {None}]
         /\ sent \in [Task -> 0..(2 * MaxWrite)]
         /\ shown \in [Task -> 0..(2 * MaxWrite)]
         /\ \A u \in Task : sent[u] \in Nat /\ shown[u] \in Nat
         /\ pc \in [Task -> Labels]
         /\ MaxWrite \in Nat
         /\ \A c \in OutChar : c[1] \in Task /\ c[2] \in Nat /\ c[2] >= 1
         /\ None \notin OutChar
<1>1. InOrder /\ TtyTypeOK /\ MaxWrite \in Nat
  BY TtyAssumption DEF TtyInv
<1>2. /\ ofifo \in Seq(OutChar) /\ hand \in [Task -> OutChar \cup {None}]
      /\ sent \in [Task -> 0..(2 * MaxWrite)] /\ shown \in [Task -> 0..(2 * MaxWrite)]
      /\ pc \in [Task -> Labels]
  BY <1>1 DEF TtyTypeOK, Labels
<1>3. Len(ofifo) \in Nat /\ \A i \in 1..Len(ofifo) : ofifo[i] \in OutChar
  BY <1>2
<1>4. \A u \in Task : sent[u] \in Nat /\ shown[u] \in Nat
  BY <1>1, <1>2
<1>5. \A c \in OutChar : c[1] \in Task /\ c[2] \in Nat /\ c[2] >= 1
  BY <1>1 DEF OutChar
<1>6. None \notin OutChar
  BY DEF None, OutChar
<1> QED
  BY <1>1, <1>2, <1>3, <1>4, <1>5, <1>6 DEF InOrder

(* A step of one process that neither puts nor takes a character.           *)
LEMMA StillInOrder ==
  ASSUME TtyInv, NEW t \in Task, NEW a, NEW b, Goto(t, a, b),
         ofifo' = ofifo, hand' = hand, sent' = sent, shown' = shown,
         a \notin Pending \/ b \in Pending \/ shown[t] = sent[t]
  PROVE  InOrder'
<1>1. /\ Awaited /\ Sorted /\ HandFirst /\ Settled /\ pc \in [Task -> Labels]
      /\ pc[t] = a /\ pc' = [pc EXCEPT ![t] = b]
  BY OrderFacts DEF Goto
<1>2. pc'[t] = b /\ \A u \in Task \ {t} : pc'[u] = pc[u]
  BY <1>1
<1>3. Awaited' /\ Sorted' /\ HandFirst'
  BY <1>1 DEF Awaited, Underway, Sorted, HandFirst
<1>4. Settled'
  BY <1>1, <1>2 DEF Settled
<1> QED
  BY <1>3, <1>4 DEF InOrder

(* A call begins or ends with nothing underway.                             *)
LEMMA CallInOrder ==
  ASSUME TtyInv, NEW t \in Task, NEW a, NEW b, NEW n, NEW c, Goto(t, a, b),
         CallWrite(t, n, c), a \notin Pending, ofifo' = ofifo, hand' = hand
  PROVE  /\ InOrder'
         /\ shown'[t] = 0 /\ \A u \in Task \ {t} : shown'[u] = shown[u]
<1>1. /\ Awaited /\ Sorted /\ HandFirst /\ Settled /\ pc \in [Task -> Labels]
      /\ sent \in [Task -> 0..(2 * MaxWrite)] /\ shown \in [Task -> 0..(2 * MaxWrite)]
      /\ \A x \in OutChar : x[1] \in Task /\ x[2] \in Nat /\ x[2] >= 1
      /\ \A u \in Task : sent[u] \in Nat /\ shown[u] \in Nat
  BY OrderFacts
<1>2. /\ pc[t] = a /\ pc' = [pc EXCEPT ![t] = b]
      /\ sent' = [sent EXCEPT ![t] = 0] /\ shown' = [shown EXCEPT ![t] = 0]
  BY DEF Goto, CallWrite
<1>3. /\ sent'[t] = 0 /\ shown'[t] = 0
      /\ \A u \in Task \ {t} : /\ sent'[u] = sent[u] /\ shown'[u] = shown[u]
                               /\ pc'[u] = pc[u]
  BY <1>1, <1>2
<1>4. shown[t] = sent[t]
  BY <1>1, <1>2 DEF Settled
<1>5. Awaited'
  <2>1. ASSUME NEW x \in OutChar
        PROVE  Underway(x)' <=> shown'[x[1]] < x[2] /\ x[2] <= sent'[x[1]]
    <3>1. Underway(x)' <=> Underway(x)
      BY DEF Underway
    <3>2. CASE x[1] = t
      <4>1. ~ (shown[x[1]] < x[2] /\ x[2] <= sent[x[1]])
        BY <1>1, <1>4, <3>2
      <4>2. ~ (shown'[x[1]] < x[2] /\ x[2] <= sent'[x[1]])
        BY <1>1, <1>3, <3>2
      <4> QED
        BY <1>1, <3>1, <4>1, <4>2 DEF Awaited
    <3>3. CASE x[1] # t
      BY <1>1, <1>3, <3>1, <3>3 DEF Awaited
    <3> QED
      BY <3>2, <3>3
  <2> QED
    BY <2>1 DEF Awaited
<1>6. Sorted' /\ HandFirst'
  BY <1>1 DEF Sorted, HandFirst
<1>7. Settled'
  BY <1>1, <1>3 DEF Settled
<1> QED
  BY <1>3, <1>5, <1>6, <1>7 DEF InOrder

(* A character put is the last of its call.                                 *)
LEMMA PutInOrder ==
  ASSUME TtyInv, NEW t \in Task, PutReturn(t) \/ Put(t)
  PROVE  InOrder'
<1>1. /\ Awaited /\ Sorted /\ HandFirst /\ Settled
      /\ ofifo \in Seq(OutChar) /\ Len(ofifo) \in Nat
      /\ \A i \in 1..Len(ofifo) : ofifo[i] \in OutChar
      /\ hand \in [Task -> OutChar \cup {None}]
      /\ sent \in [Task -> 0..(2 * MaxWrite)]
      /\ \A u \in Task : sent[u] \in Nat /\ shown[u] \in Nat
      /\ pc \in [Task -> Labels]
      /\ \A x \in OutChar : x[1] \in Task /\ x[2] \in Nat /\ x[2] >= 1
  BY OrderFacts
<1>2. PICK x : x = <<t, sent[t] + 1>>
  OBVIOUS
<1>3. x[1] = t /\ x[2] = sent[t] + 1
  BY <1>2
<1>4. /\ ofifo' = Append(ofifo, x) /\ sent' = [sent EXCEPT ![t] = @ + 1]
      /\ hand' = hand /\ shown' = shown
  BY <1>2 DEF PutReturn, Put, PutOut
<1>5. /\ Len(ofifo') = Len(ofifo) + 1 /\ ofifo'[Len(ofifo) + 1] = x
      /\ \A i \in 1..Len(ofifo) : ofifo'[i] = ofifo[i]
  BY <1>1, <1>4
<1>6. sent'[t] = sent[t] + 1 /\ \A u \in Task \ {t} : sent'[u] = sent[u]
  BY <1>1, <1>4
<1>7. PICK b \in Pending : pc' = [pc EXCEPT ![t] = b]
  BY DEF PutReturn, Put, Goto, Pending
<1>8. pc'[t] \in Pending /\ \A u \in Task \ {t} : pc'[u] = pc[u]
  BY <1>1, <1>7
<1>9. \A c \in OutChar : Underway(c) /\ c[1] = t => c[2] < x[2]
  <2>1. ASSUME NEW c \in OutChar, Underway(c), c[1] = t
        PROVE  c[2] < x[2]
    <3>1. c[2] <= sent[t]
      BY <1>1, <2>1 DEF Awaited
    <3> QED
      BY <1>1, <1>3, <3>1
  <2> QED
    BY <2>1
<1>10. Awaited'
  <2>1. ASSUME NEW c \in OutChar
        PROVE  Underway(c)' <=> shown'[c[1]] < c[2] /\ c[2] <= sent'[c[1]]
    <3>1. Underway(c)' <=> Underway(c) \/ c = x
      <4>1. (\E i \in 1..Len(ofifo') : ofifo'[i] = c)
              <=> ((\E i \in 1..Len(ofifo) : ofifo[i] = c) \/ c = x)
        <5>1. ASSUME NEW i \in 1..Len(ofifo'), ofifo'[i] = c
              PROVE  (\E k \in 1..Len(ofifo) : ofifo[k] = c) \/ c = x
          <6>1. i \in 1..Len(ofifo) \/ i = Len(ofifo) + 1
            BY <1>1, <1>5
          <6> QED
            BY <1>5, <5>1, <6>1
        <5>2. ASSUME NEW i \in 1..Len(ofifo), ofifo[i] = c
              PROVE  i \in 1..Len(ofifo') /\ ofifo'[i] = c
          BY <1>1, <1>5, <5>2
        <5>3. Len(ofifo) + 1 \in 1..Len(ofifo')
          BY <1>1, <1>5
        <5> QED
          BY <1>5, <5>1, <5>2, <5>3
      <4> QED
        BY <1>4, <4>1 DEF Underway
    <3>2. CASE c[1] = t
      <4>1. c = x <=> c[2] = sent[t] + 1
        BY <1>2, <3>2 DEF OutChar
      <4>2. /\ shown[t] <= sent[t] /\ shown[t] \in Nat /\ sent[t] \in Nat
            /\ c[2] \in Nat
        BY <1>1 DEF Settled
      <4>3. Underway(c) <=> shown[t] < c[2] /\ c[2] <= sent[t]
        BY <1>1, <3>2 DEF Awaited
      <4> QED
        BY <1>4, <1>6, <3>1, <3>2, <4>1, <4>2, <4>3
    <3>3. CASE c[1] # t
      <4>1. c # x
        BY <1>3, <3>3
      <4>2. c[1] \in Task \ {t}
        BY <1>1, <3>3
      <4> QED
        BY <1>1, <1>4, <1>6, <3>1, <4>1, <4>2 DEF Awaited
    <3> QED
      BY <3>2, <3>3
  <2> QED
    BY <2>1 DEF Awaited
<1>11. Sorted'
  <2>1. ASSUME NEW i \in 1..Len(ofifo'), NEW j \in 1..Len(ofifo'),
               i < j, ofifo'[i][1] = ofifo'[j][1]
        PROVE  ofifo'[i][2] < ofifo'[j][2]
    <3>1. i \in 1..Len(ofifo) /\ ofifo'[i] = ofifo[i]
      BY <1>1, <1>5, <2>1
    <3>2. CASE j \in 1..Len(ofifo)
      BY <1>1, <1>5, <2>1, <3>1, <3>2 DEF Sorted
    <3>3. CASE j = Len(ofifo) + 1
      <4>1. ofifo[i] \in OutChar /\ Underway(ofifo[i])
        BY <1>1, <3>1 DEF Underway
      <4>2. ofifo[i][1] = t
        BY <1>3, <1>5, <2>1, <3>1, <3>3
      <4> QED
        BY <1>5, <1>9, <3>1, <3>3, <4>1, <4>2
    <3> QED
      BY <1>1, <1>5, <3>2, <3>3
  <2> QED
    BY <2>1 DEF Sorted
<1>12. HandFirst'
  <2>1. ASSUME NEW u \in Task, NEW j \in 1..Len(ofifo'),
               hand[u] # None, hand[u][1] = ofifo'[j][1]
        PROVE  hand[u][2] < ofifo'[j][2]
    <3>1. CASE j \in 1..Len(ofifo)
      BY <1>1, <1>5, <2>1, <3>1 DEF HandFirst
    <3>2. CASE j = Len(ofifo) + 1
      <4>1. hand[u] \in OutChar /\ Underway(hand[u])
        BY <1>1, <2>1 DEF Underway
      <4>2. hand[u][1] = t
        BY <1>3, <1>5, <2>1, <3>2
      <4> QED
        BY <1>5, <1>9, <3>2, <4>1, <4>2
    <3> QED
      BY <1>1, <1>5, <3>1, <3>2
  <2> QED
    BY <1>4, <2>1 DEF HandFirst
<1>13. Settled'
  <2>1. shown[t] <= sent[t] + 1
    BY <1>1 DEF Settled
  <2> QED
    BY <1>1, <1>4, <1>6, <1>8, <2>1 DEF Settled
<1> QED
  BY <1>10, <1>11, <1>12, <1>13 DEF InOrder

(* The oldest character goes from the ring to the hand.                     *)
LEMMA GetOutInOrder ==
  ASSUME TtyInv, NEW t \in Task, GetOut(t)
  PROVE  InOrder'
<1>1. /\ Awaited /\ Sorted /\ HandFirst /\ Settled
      /\ ofifo \in Seq(OutChar) /\ Len(ofifo) \in Nat
      /\ \A i \in 1..Len(ofifo) : ofifo[i] \in OutChar
      /\ hand \in [Task -> OutChar \cup {None}]
      /\ pc \in [Task -> Labels] /\ None \notin OutChar
  BY OrderFacts
<1>2. /\ ofifo # <<>> /\ ofifo' = Tail(ofifo)
      /\ hand' = [hand EXCEPT ![t] = Head(ofifo)]
      /\ Free(t) /\ pc[t] = "get" /\ pc' = [pc EXCEPT ![t] = "notify"]
      /\ sent' = sent /\ shown' = shown
  BY DEF GetOut, Goto
<1>3. /\ Len(ofifo) >= 1 /\ Len(ofifo') = Len(ofifo) - 1
      /\ \A i \in 1..Len(ofifo') : ofifo'[i] = ofifo[i + 1]
      /\ Head(ofifo) = ofifo[1]
  BY <1>1, <1>2, HeadTailProperties
<1>4. \A u \in Task : hand[u] = None
  <2>1. hand[t] = None
    BY <1>2 DEF TtyInv, CharsLeft
  <2> QED
    BY <1>2, <2>1, OneHand DEF Draining
<1>5. hand'[t] = ofifo[1] /\ \A u \in Task \ {t} : hand'[u] = None
  BY <1>1, <1>2, <1>3, <1>4
<1>6. Awaited'
  <2>1. ASSUME NEW c \in OutChar
        PROVE  Underway(c)' <=> Underway(c)
    <3>1. ASSUME Underway(c)
          PROVE  Underway(c)'
      <4>1. c # None
        BY <1>1
      <4>2. PICK i \in 1..Len(ofifo) : ofifo[i] = c
        BY <1>4, <3>1, <4>1 DEF Underway
      <4>3. CASE i = 1
        BY <1>5, <4>2, <4>3 DEF Underway
      <4>4. CASE i # 1
        <5>1. i - 1 \in 1..Len(ofifo') /\ (i - 1) + 1 = i
          BY <1>1, <1>3, <4>4
        <5>2. ofifo'[i - 1] = c
          BY <1>3, <4>2, <5>1
        <5> QED
          BY <5>1, <5>2 DEF Underway
      <4> QED
        BY <4>3, <4>4
    <3>2. ASSUME Underway(c)'
          PROVE  Underway(c)
      <4>1. CASE \E u \in Task : hand'[u] = c
        <5>1. c = ofifo[1] /\ 1 \in 1..Len(ofifo)
          BY <1>1, <1>3, <1>5, <4>1
        <5> QED
          BY <5>1 DEF Underway
      <4>2. CASE \E i \in 1..Len(ofifo') : ofifo'[i] = c
        <5>1. PICK i \in 1..Len(ofifo') : ofifo'[i] = c
          BY <4>2
        <5>2. i + 1 \in 1..Len(ofifo) /\ ofifo[i + 1] = c
          BY <1>1, <1>3, <5>1
        <5> QED
          BY <5>2 DEF Underway
      <4> QED
        BY <3>2, <4>1, <4>2 DEF Underway
    <3> QED
      BY <3>1, <3>2
  <2> QED
    BY <1>1, <1>2, <2>1 DEF Awaited
<1>7. Sorted'
  <2>1. ASSUME NEW i \in 1..Len(ofifo'), NEW j \in 1..Len(ofifo'),
               i < j, ofifo'[i][1] = ofifo'[j][1]
        PROVE  ofifo'[i][2] < ofifo'[j][2]
    <3>1. /\ i + 1 \in 1..Len(ofifo) /\ j + 1 \in 1..Len(ofifo) /\ i + 1 < j + 1
          /\ ofifo'[i] = ofifo[i + 1] /\ ofifo'[j] = ofifo[j + 1]
      BY <1>1, <1>3, <2>1
    <3> QED
      BY <1>1, <2>1, <3>1 DEF Sorted
  <2> QED
    BY <2>1 DEF Sorted
<1>8. HandFirst'
  <2>1. ASSUME NEW u \in Task, NEW j \in 1..Len(ofifo'),
               hand'[u] # None, hand'[u][1] = ofifo'[j][1]
        PROVE  hand'[u][2] < ofifo'[j][2]
    <3>1. u = t
      BY <1>5, <2>1
    <3>2. /\ 1 \in 1..Len(ofifo) /\ j + 1 \in 1..Len(ofifo) /\ 1 < j + 1
          /\ ofifo'[j] = ofifo[j + 1]
      BY <1>1, <1>3, <2>1
    <3> QED
      BY <1>1, <1>5, <2>1, <3>1, <3>2 DEF Sorted
  <2> QED
    BY <2>1 DEF HandFirst
<1>9. Settled'
  <2>1. pc'[t] \in Pending /\ pc[t] \in Pending /\ \A u \in Task \ {t} : pc'[u] = pc[u]
    BY <1>1, <1>2 DEF Pending
  <2> QED
    BY <1>1, <1>2, <2>1 DEF Settled
<1> QED
  BY <1>6, <1>7, <1>8, <1>9 DEF InOrder

(* The character in the hand is the next of its call, and the only one that *)
(* is not in the ring.                                                      *)
LEMMA ShowInOrder ==
  ASSUME TtyInv, NEW t \in Task, Show(t)
  PROVE  /\ InOrder'
         /\ \A u \in Task : shown'[u] \in {shown[u], shown[u] + 1}
<1>1. /\ Awaited /\ Sorted /\ HandFirst /\ Settled
      /\ ofifo \in Seq(OutChar) /\ Len(ofifo) \in Nat
      /\ \A i \in 1..Len(ofifo) : ofifo[i] \in OutChar
      /\ hand \in [Task -> OutChar \cup {None}]
      /\ sent \in [Task -> 0..(2 * MaxWrite)]
      /\ shown \in [Task -> 0..(2 * MaxWrite)]
      /\ \A u \in Task : sent[u] \in Nat /\ shown[u] \in Nat
      /\ pc \in [Task -> Labels] /\ MaxWrite \in Nat
      /\ \A x \in OutChar : x[1] \in Task /\ x[2] \in Nat /\ x[2] >= 1
      /\ None \notin OutChar
  BY OrderFacts
<1>2. /\ shown' = [shown EXCEPT ![hand[t][1]] = hand[t][2]]
      /\ hand' = [hand EXCEPT ![t] = None]
      /\ Free(t) /\ pc[t] = "show" /\ pc' = [pc EXCEPT ![t] = "get"]
      /\ ofifo' = ofifo /\ sent' = sent
  BY DEF Show, Goto
<1>3. PICK h : h = hand[t]
  OBVIOUS
<1>4. h \in OutChar /\ h # None
  <2>1. hand[t] # None
    BY <1>2 DEF TtyInv, CharsLeft
  <2> QED
    BY <1>1, <1>3, <2>1
<1>5. h[1] \in Task /\ h[2] \in Nat
  BY <1>1, <1>4
<1>6. \A u \in Task \ {t} : hand[u] = None
  BY <1>2, OneHand DEF Draining
<1>7. hand'[t] = None /\ \A u \in Task \ {t} : hand'[u] = None
  BY <1>1, <1>2, <1>6
<1>8. /\ shown'[h[1]] = h[2]
      /\ \A u \in Task \ {h[1]} : shown'[u] = shown[u]
  BY <1>1, <1>2, <1>3, <1>5
<1>9. shown[h[1]] < h[2] /\ h[2] <= sent[h[1]]
  BY <1>1, <1>3, <1>4 DEF Awaited, Underway
<1>10. h[2] = shown[h[1]] + 1
  <2>1. PICK x : x = <<h[1], shown[h[1]] + 1>>
    OBVIOUS
  <2>2. x[1] = h[1] /\ x[2] = shown[h[1]] + 1
    BY <2>1
  <2>3. shown[h[1]] \in Nat /\ sent[h[1]] \in 0..(2 * MaxWrite)
    BY <1>1, <1>5
  <2>4. x[2] \in 1..(2 * MaxWrite) /\ x[2] <= sent[h[1]]
    BY <1>1, <1>5, <1>9, <2>2, <2>3
  <2>5. x \in OutChar
    BY <1>5, <2>1, <2>2, <2>4 DEF OutChar
  <2>6. Underway(x)
    <3>1. shown[x[1]] < x[2] /\ x[2] <= sent[x[1]]
      BY <2>2, <2>3, <2>4
    <3> QED
      BY <1>1, <2>5, <3>1 DEF Awaited
  <2>7. SUFFICES ASSUME h[2] # shown[h[1]] + 1
                 PROVE  FALSE
    OBVIOUS
  <2>8. x # h /\ x # None
    BY <1>1, <2>2, <2>5, <2>7
  <2>9. PICK j \in 1..Len(ofifo) : ofifo[j] = x
    BY <1>3, <1>6, <2>6, <2>8 DEF Underway
  <2>10. h[2] < x[2]
    BY <1>1, <1>3, <1>4, <2>2, <2>9 DEF HandFirst
  <2> QED
    BY <1>5, <1>9, <2>2, <2>3, <2>10
<1>11. Awaited'
  <2>1. ASSUME NEW c \in OutChar
        PROVE  Underway(c)' <=> shown'[c[1]] < c[2] /\ c[2] <= sent'[c[1]]
    <3>1. Underway(c)' <=> Underway(c) /\ c # h
      <4>1. c # None
        BY <1>1
      <4>2. ASSUME NEW j \in 1..Len(ofifo), ofifo[j] = h
            PROVE  FALSE
        <5>1. hand[t][1] = ofifo[j][1] /\ hand[t][2] = ofifo[j][2]
          BY <1>3, <4>2
        <5>2. hand[t][2] < ofifo[j][2]
          BY <1>1, <1>3, <1>4, <5>1 DEF HandFirst
        <5> QED
          BY <1>3, <1>5, <5>1, <5>2
      <4>3. Underway(c)' <=> \E i \in 1..Len(ofifo) : ofifo[i] = c
        BY <1>2, <1>7, <4>1 DEF Underway
      <4>4. Underway(c) <=> (c = h \/ \E i \in 1..Len(ofifo) : ofifo[i] = c)
        BY <1>3, <1>6, <4>1 DEF Underway
      <4> QED
        BY <4>2, <4>3, <4>4
    <3>2. CASE c[1] = h[1]
      <4>1. c = h <=> c[2] = h[2]
        BY <1>4, <3>2 DEF OutChar
      <4>2. /\ c[2] \in Nat /\ h[2] \in Nat /\ shown[h[1]] \in Nat /\ sent[h[1]] \in Nat
        BY <1>1, <1>5
      <4>3. Underway(c) <=> shown[h[1]] < c[2] /\ c[2] <= sent[h[1]]
        BY <1>1, <3>2 DEF Awaited
      <4> QED
        BY <1>2, <1>8, <1>10, <3>1, <3>2, <4>1, <4>2, <4>3
    <3>3. CASE c[1] # h[1]
      <4>1. c # h /\ c[1] \in Task \ {h[1]}
        BY <1>1, <3>3
      <4> QED
        BY <1>1, <1>2, <1>8, <3>1, <4>1 DEF Awaited
    <3> QED
      BY <3>2, <3>3
  <2> QED
    BY <2>1 DEF Awaited
<1>12. Sorted' /\ HandFirst'
  BY <1>1, <1>2, <1>7 DEF Sorted, HandFirst
<1>13. Settled'
  <2>1. /\ pc'[t] \in Pending /\ pc[t] \in Pending
        /\ \A u \in Task \ {t} : pc'[u] = pc[u]
    BY <1>1, <1>2 DEF Pending
  <2>2. pc[h[1]] \in Pending
    BY <1>1, <1>5, <1>9 DEF Settled
  <2>3. ASSUME NEW u \in Task
        PROVE  /\ shown'[u] <= sent'[u]
               /\ pc'[u] \notin Pending => shown'[u] = sent'[u]
    <3>1. CASE u = h[1]
      BY <1>2, <1>8, <1>9, <2>1, <2>2, <3>1
    <3>2. CASE u # h[1]
      BY <1>1, <1>2, <1>8, <2>1, <3>2 DEF Settled
    <3> QED
      BY <3>1, <3>2
  <2> QED
    BY <2>3 DEF Settled
<1>14. \A u \in Task : shown'[u] \in {shown[u], shown[u] + 1}
  BY <1>5, <1>8, <1>10
<1> QED
  BY <1>11, <1>12, <1>13, <1>14 DEF InOrder

\* What a step may do to the characters displayed of a call: display the next
\* one, or begin another call.
NextShown == \A t \in Task : shown'[t] \in {shown[t], shown[t] + 1, 0}

(* Every step keeps the order.                                              *)
LEMMA InOrderNext ==
  ASSUME TtyInv, TtyNext
  PROVE  InOrder' /\ NextShown
<1>1. /\ Awaited /\ Settled /\ Len(ofifo) \in Nat
      /\ \A i \in 1..Len(ofifo) : ofifo[i] \in OutChar
      /\ hand \in [Task -> OutChar \cup {None}]
      /\ sent \in [Task -> 0..(2 * MaxWrite)]
      /\ shown \in [Task -> 0..(2 * MaxWrite)]
      /\ \A u \in Task : sent[u] \in Nat /\ shown[u] \in Nat
      /\ MaxWrite \in Nat /\ None \notin OutChar
  BY OrderFacts
<1>2. ASSUME NEW t \in Task, InWrite(t)
      PROVE  InOrder' /\ NextShown
  <2>1. CASE WriteChar(t) \/ WaitRoom(t) \/ Lock(t) \/ NotifyRoom(t) \/ Unlock(t)
    <3>1. UNCHANGED outs
      BY <2>1 DEF WriteChar, WaitRoom, Lock, NotifyRoom, Unlock
    <3>2. \/ \E b \in Labels : Goto(t, "write", b)
          \/ Goto(t, "cr_wait", "cr_put") \/ Goto(t, "put_wait", "put")
          \/ Goto(t, "lock", "get") \/ Goto(t, "notify", "show")
          \/ Goto(t, "unlock", "write")
      BY <2>1 DEF WriteChar, WaitRoom, Lock, NotifyRoom, Unlock, Labels, Writing
    <3>3. PICK a, b : Goto(t, a, b) /\ (a \notin Pending \/ b \in Pending)
      BY <3>2 DEF Pending
    <3>4. ofifo' = ofifo /\ hand' = hand /\ sent' = sent /\ shown' = shown
      BY <3>1 DEF outs
    <3> QED
      BY <3>3, <3>4, StillInOrder DEF NextShown
  <2>2. CASE Empty(t)
    <3>1. /\ ofifo = <<>> /\ Goto(t, "get", "unlock")
          /\ ofifo' = ofifo /\ hand' = hand /\ sent' = sent /\ shown' = shown
      BY <2>2 DEF Empty, outs
    <3>2. \A u \in Task : hand[u] = None
      <4>1. hand[t] = None
        BY <3>1 DEF TtyInv, CharsLeft, Goto
      <4> QED
        BY <3>1, <4>1, OneHand DEF Draining, Goto
    <3>3. \A c \in OutChar : ~ Underway(c)
      BY <1>1, <3>1, <3>2 DEF Underway
    <3>4. shown[t] = sent[t]
      <4>1. SUFFICES ASSUME shown[t] # sent[t]
                     PROVE  FALSE
        OBVIOUS
      <4>2. shown[t] < sent[t] /\ sent[t] \in 1..(2 * MaxWrite)
        BY <1>1, <4>1 DEF Settled
      <4>3. PICK c : c = <<t, sent[t]>>
        OBVIOUS
      <4>4. c \in OutChar /\ c[1] = t /\ c[2] = sent[t]
        BY <4>2, <4>3 DEF OutChar
      <4>5. shown[c[1]] < c[2] /\ c[2] <= sent[c[1]]
        BY <1>1, <4>2, <4>4
      <4> QED
        BY <1>1, <3>3, <4>4, <4>5 DEF Awaited
    <3> QED
      BY <3>1, <3>4, StillInOrder DEF NextShown
  <2>3. CASE WriteReturn(t)
    <3>1. /\ Goto(t, "write", back[t]) /\ CallWrite(t, 0, "user")
          /\ ofifo' = ofifo /\ hand' = hand
      BY <2>3 DEF WriteReturn
    <3>2. "write" \notin Pending
      BY DEF Pending
    <3> QED
      BY <3>1, <3>2, CallInOrder DEF NextShown
  <2>4. CASE PutReturn(t) \/ Put(t)
    <3>1. shown' = shown
      BY <2>4 DEF PutReturn, Put
    <3> QED
      BY <2>4, <3>1, PutInOrder DEF NextShown
  <2>5. CASE GetOut(t)
    <3>1. shown' = shown
      BY <2>5 DEF GetOut
    <3> QED
      BY <2>5, <3>1, GetOutInOrder DEF NextShown
  <2>6. CASE Show(t)
    BY <2>6, ShowInOrder DEF NextShown
  <2> QED
    BY <1>2, <2>1, <2>2, <2>3, <2>4, <2>5, <2>6 DEF InWrite
<1>3. ASSUME NEW t \in Task, InRead(t) \/ Call(t)
      PROVE  InOrder' /\ NextShown
  <2>1. ofifo' = ofifo /\ hand' = hand
    BY <1>3 DEF InRead, Call, WaitKey, GetKey, Echoed, Write, Read, tty_control, outs
  <2>2. \/ \E a, b, n, c : /\ Goto(t, a, b) /\ CallWrite(t, n, c)
                           /\ a \in {"user", "key_get"}
        \/ \E a, b : /\ Goto(t, a, b) /\ sent' = sent /\ shown' = shown
                     /\ a \in {"user", "key_wait", "key_get", "echoed"}
    <3>1. CASE GetKey(t)
      BY <3>1 DEF GetKey
    <3>2. CASE Write(t)
      BY <3>2 DEF Write
    <3>3. CASE WaitKey(t) \/ Echoed(t) \/ Read(t) \/ tty_control(t)
      BY <3>3 DEF WaitKey, Echoed, Read, tty_control, outs
    <3> QED
      BY <1>3, <3>1, <3>2, <3>3 DEF InRead, Call
  <2>3. CASE \E a, b, n, c : /\ Goto(t, a, b) /\ CallWrite(t, n, c)
                             /\ a \in {"user", "key_get"}
    <3>1. PICK a, b, n, c : /\ Goto(t, a, b) /\ CallWrite(t, n, c)
                            /\ a \in {"user", "key_get"}
      BY <2>3
    <3>2. a \notin Pending
      BY <3>1 DEF Pending
    <3> QED
      BY <2>1, <3>1, <3>2, CallInOrder DEF NextShown
  <2>4. CASE \E a, b : /\ Goto(t, a, b) /\ sent' = sent /\ shown' = shown
                       /\ a \in {"user", "key_wait", "key_get", "echoed"}
    <3>1. PICK a, b : /\ Goto(t, a, b) /\ sent' = sent /\ shown' = shown
                      /\ a \in {"user", "key_wait", "key_get", "echoed"}
      BY <2>4
    <3>2. a \notin Pending
      BY <3>1 DEF Pending
    <3> QED
      BY <2>1, <3>1, <3>2, StillInOrder DEF NextShown
  <2> QED
    BY <2>2, <2>3, <2>4
<1>4. ASSUME NEW k \in Key, tty_in(k)
      PROVE  InOrder' /\ NextShown
  <2>1. /\ ofifo' = ofifo /\ hand' = hand /\ sent' = sent /\ shown' = shown
        /\ pc' = pc
    BY <1>4 DEF tty_in, outs
  <2>2. InOrder
    BY DEF TtyInv
  <2> QED
    BY <2>1, <2>2 DEF InOrder, Awaited, Underway, Sorted, HandFirst, Settled, NextShown
<1> QED
  BY <1>2, <1>3, <1>4 DEF TtyNext

-----------------------------------------------------------------------------
(* The first state: no process is anywhere, and osem counts the free places. *)
LEMMA TtyInitInv ==
  ASSUME TtyInit
  PROVE  TtyInv
<1>1. /\ NoTask \notin Task /\ OSem \in Sem /\ ISem \in Sem /\ Console \in Mutex
      /\ Mutex \cap Sem = {} /\ SemInit \in [Sem -> Nat]
      /\ SemInit[OSem] = OSize /\ SemInit[ISem] = 0 /\ OSize \in Nat /\ ISize \in Nat
      /\ MaxWrite \in Nat \ {0} /\ MaxRead \in Nat \ {0}
  BY TtyAssumption
<1>2. /\ holder = [q \in Mutex |-> NoTask] /\ depth = [q \in Mutex |-> 0]
      /\ tokens = [q \in Sem |-> SemInit[q]] /\ waiting = [q \in Mutex \cup Sem |-> {}]
  BY DEF TtyInit, SyncInit
<1>3. SyncOK
  BY <1>1, <1>2 DEF SyncOK, SyncTypes, Queues
<1>4. /\ ofifo = <<>> /\ ififo = <<>> /\ lost = 0 /\ echo = TRUE
      /\ \A t \in Task : /\ pc[t] = "user" /\ left[t] = 0 /\ hand[t] = None
                         /\ line[t] = <<>> /\ sent[t] = 0 /\ shown[t] = 0
  BY DEF TtyInit, TtyEmpty
<1>5. Queues
  BY <1>1, <1>2, <1>4 DEF Queues, Draining
<1>6. TtyTypeOK /\ Lines
  <2>1. /\ ofifo \in Seq(OutChar) /\ ififo \in Seq(Key)
        /\ Len(ofifo) = 0 /\ Len(ififo) = 0
    BY <1>4
  <2>2. 0 \in 0..MaxWrite /\ 1 \in 1..MaxRead /\ 0 \in 0..(2 * MaxWrite)
    BY <1>1
  <2>3. /\ pc \in [Task -> Writing \cup {"user", "key_wait", "key_get", "echoed"}]
        /\ left \in [Task -> 0..MaxWrite] /\ back \in [Task -> {"user", "echoed"}]
        /\ ch \in [Task -> Key] /\ hand \in [Task -> OutChar \cup {None}]
        /\ size \in [Task -> 1..MaxRead] /\ sent \in [Task -> 0..(2 * MaxWrite)]
        /\ shown \in [Task -> 0..(2 * MaxWrite)]
    BY <2>2 DEF TtyInit, TtyEmpty, Key
  <2>4. \A t \in Task : Len(line[t]) <= size[t]
    <3>1. \A t \in Task : line[t] = <<>> /\ size[t] = 1
      BY DEF TtyInit, TtyEmpty
    <3> QED
      BY <3>1
  <2>5. Lines
    BY DEF TtyInit, TtyEmpty, Lines
  <2> QED
    BY <1>1, <1>4, <2>1, <2>3, <2>4, <2>5 DEF TtyTypeOK
<1>7. \A t \in Task : CharsLeft(t) /\ LineRoom(t)
  BY <1>1, <1>4 DEF CharsLeft, LineRoom, Writing
<1>8. OutputAccounted /\ InputAccounted
  <2>1. \A L : "user" \notin L => Have(L) = {}
    BY <1>4 DEF Have
  <2>2. Have({"cr_put", "put"}) = {} /\ Have({"notify"}) = {} /\ Have({"key_get"}) = {}
    BY <2>1
  <2>3. Cardinality({}) = 0
    BY FS_EmptySet
  <2>4. tokens[OSem] = OSize /\ tokens[ISem] = 0 /\ Len(ofifo) = 0 /\ Len(ififo) = 0
    BY <1>1, <1>2, <1>4
  <2>5. /\ Cardinality(Have({"cr_put", "put"})) = 0 /\ Cardinality(Have({"notify"})) = 0
        /\ Cardinality(Have({"key_get"})) = 0
    BY <2>2, <2>3
  <2> QED
    BY <1>1, <1>4, <2>4, <2>5 DEF OutputAccounted, InputAccounted
<1>9. InOrder
  <2>1. Len(ofifo) = 0 /\ 1..0 = {}
    BY <1>4
  <2>2. \A c \in OutChar : c # None /\ c[1] \in Task /\ c[2] \in Nat /\ c[2] >= 1
    <3>1. \A c \in OutChar : c # None
      BY DEF OutChar, None
    <3>2. \A c \in OutChar : c[1] \in Task /\ c[2] \in Nat /\ c[2] >= 1
      BY <1>1 DEF OutChar
    <3> QED
      BY <3>1, <3>2
  <2>3. Awaited
    BY <1>4, <2>1, <2>2 DEF Awaited, Underway
  <2> QED
    BY <1>4, <2>1, <2>3 DEF InOrder, Sorted, HandFirst, Settled
<1> QED
  BY <1>3, <1>5, <1>6, <1>7, <1>8, <1>9 DEF TtyInv

(* A step of the terminal, or of something else, keeps the invariant.       *)
LEMMA TtyInvNext ==
  ASSUME TtyInv, [TtyNext]_tvars
  PROVE  TtyInv' /\ NextShown
<1>1. CASE TtyNext
  BY <1>1, SyncPartNext, TypePartNext, InOrderNext DEF TtyInv, SyncPart, TypePart
<1>2. CASE UNCHANGED tvars
  <2>1. /\ holder' = holder /\ depth' = depth /\ tokens' = tokens /\ waiting' = waiting
        /\ ofifo' = ofifo /\ left' = left /\ back' = back /\ hand' = hand
        /\ sent' = sent /\ shown' = shown /\ ififo' = ififo /\ echo' = echo
        /\ line' = line /\ size' = size /\ lost' = lost /\ pc' = pc /\ ch' = ch
    BY <1>2 DEF tvars, svars, outs, ins
  <2>2. SyncOK' /\ Queues'
    BY <2>1 DEF TtyInv, SyncOK, SyncTypes, Queues
  <2>3. TtyTypeOK' /\ Lines' /\ \A t \in Task : CharsLeft(t)' /\ LineRoom(t)'
    BY <2>1 DEF TtyInv, TtyTypeOK, Lines, CharsLeft, LineRoom
  <2>4. OutputAccounted' /\ InputAccounted'
    BY <2>1 DEF TtyInv, OutputAccounted, InputAccounted, Have, Free
  <2>5. InOrder'
    BY <2>1 DEF TtyInv, InOrder, Awaited, Underway, Sorted, HandFirst, Settled
  <2> QED
    BY <2>1, <2>2, <2>3, <2>4, <2>5 DEF TtyInv, NextShown
<1> QED
  BY <1>1, <1>2

(* The invariant of the terminal holds in every state: the semaphores of    *)
(* tty_write and tty_read, the rings, and the characters on their way.      *)
THEOREM TtyInvAlways == TtySpec => []TtyInv
<1>1. TtyInit => TtyInv
  BY TtyInitInv
<1>2. TtyInv /\ [TtyNext]_tvars => TtyInv'
  BY TtyInvNext
<1> QED
  BY <1>1, <1>2, PTL DEF TtySpec

(* For every number of processes and both sizes of ring: osem and isem of   *)
(* struct tty_t agree with the rings, no put of tty_write fails, and        *)
(* tty_read stays in its buffer.                                            *)
THEOREM RingsAlwaysAccounted == TtySpec => []RingsAccounted
<1>1. TtyInv => RingsAccounted
  BY DEF TtyInv, RingsAccounted
<1> QED
  BY <1>1, TtyInvAlways, PTL

(* When tty_write returns, console_write has displayed what it put, though  *)
(* another process may have drained the ring.                               *)
THEOREM WriteFlushes == TtySpec => []Flushed
<1>1. TtyInv => Flushed
  BY DEF TtyInv, InOrder, Settled, Flushed, Pending
<1> QED
  BY <1>1, TtyInvAlways, PTL

(* No step of any process displays the characters of a call out of their    *)
(* order, twice, or with one left out.                                      *)
THEOREM CharsShownInOrder == TtySpec => ShownInOrder
<1>1. TtyInv /\ [TtyNext]_tvars => [NextShown]_tvars
  BY TtyInvNext
<1>2. [][NextShown]_tvars => ShownInOrder
  BY DEF NextShown, ShownInOrder
<1> QED
  BY <1>1, <1>2, TtyInvAlways, PTL DEF TtySpec

-----------------------------------------------------------------------------
\* The ring of a terminal.

\* n characters from the index r of an array on are a sequence.
LEMMA ReadOut ==
  ASSUME NEW b \in [Index -> Char], NEW r \in Index, NEW n \in 0..Size
  PROVE  LET s == [i \in 1..n |-> b[Wrap(r + i - 1)]]
         IN  s \in Seq(Char) /\ Len(s) = n
<1> DEFINE s == [i \in 1..n |-> b[Wrap(r + i - 1)]]
<1>1. n \in Nat
  BY FifoAssumption
<1>2. ASSUME NEW i \in 1..n  PROVE Wrap(r + i - 1) \in Index
  BY FifoAssumption DEF Wrap, Index
<1>3. s \in [1..n -> Char]
  BY <1>1, <1>2
<1>4. s \in Seq(Char)
  BY <1>1, <1>3
<1>5. Len(s) = n
  BY <1>1, <1>3, <1>4, LenProperties
<1> QED
  BY <1>4, <1>5

\* A ring that is initialised is empty.
LEMMA InitRing == FifoInit => RingOK
  BY FifoAssumption DEF FifoInit, RingOK, Wrap, Index

\* No call breaks the shape of the ring.
LEMMA NextRing == RingOK /\ [FifoNext]_fifo => RingOK'
<1> SUFFICES ASSUME RingOK, [FifoNext]_fifo  PROVE RingOK'
  OBVIOUS
<1>1. ASSUME NEW c \in Char, tty_fifo_put(c)  PROVE RingOK'
  <2>1. CASE count >= Size
    BY <1>1, <2>1, FifoAssumption DEF tty_fifo_put, Fails, ring, RingOK, Wrap, Index
  <2>2. CASE ~ (count >= Size)
    <3>1. buf' \in [Index -> Char]
      BY <1>1, <2>2 DEF tty_fifo_put, RingOK
    <3>2. /\ write' = Advance(write) /\ count' = count + 1
          /\ read' = read /\ out' = out /\ err' = 0 /\ last' = "put"
      BY <1>1, <2>2 DEF tty_fifo_put
    <3> QED
      BY <2>2, <3>1, <3>2, FifoAssumption DEF RingOK, Wrap, Advance, Index
  <2> QED
    BY <2>1, <2>2
<1>2. ASSUME tty_fifo_get  PROVE RingOK'
  <2>1. CASE count <= 0
    BY <1>2, <2>1, FifoAssumption DEF tty_fifo_get, Fails, ring, RingOK, Wrap, Index
  <2>2. CASE ~ (count <= 0)
    BY <1>2, <2>2, FifoAssumption DEF tty_fifo_get, RingOK, Wrap, Advance, Index
  <2> QED
    BY <2>1, <2>2
<1>3. CASE UNCHANGED fifo
  BY <1>3, FifoAssumption DEF fifo, ring, RingOK, Wrap, Index
<1> QED
  BY <1>1, <1>2, <1>3 DEF FifoNext

\* A put appends to what is in the ring.
LEMMA PutItems ==
  ASSUME RingOK, RingOK', NEW c \in Char, tty_fifo_put(c), count < Size
  PROVE  Items' = Append(Items, c)
<1>1. /\ buf' = [buf EXCEPT ![write] = c] /\ count' = count + 1 /\ read' = read
      /\ write = Wrap(read + count) /\ write \in Index /\ read \in Index
      /\ count \in Nat /\ buf \in [Index -> Char]
  BY FifoAssumption DEF tty_fifo_put, RingOK, Index
<1>2. Items \in Seq(Char) /\ Len(Items) = count
  BY ReadOut DEF Items, RingOK
<1>3. Items' \in Seq(Char) /\ Len(Items') = count + 1
  BY ReadOut, <1>1 DEF Items, RingOK
<1>4. /\ Append(Items, c) \in Seq(Char) /\ Len(Append(Items, c)) = count + 1
      /\ \A i \in 1..count : Append(Items, c)[i] = Items[i]
      /\ Append(Items, c)[count + 1] = c
  BY <1>2, AppendProperties
<1>5. ASSUME NEW i \in 1..(count + 1)
      PROVE  Items'[i] = Append(Items, c)[i]
  <2>1. Items'[i] = buf'[Wrap(read + i - 1)]
    BY <1>1 DEF Items
  <2>2. CASE i = count + 1
    BY <2>1, <2>2, <1>1, <1>4
  <2>3. CASE i # count + 1
    <3>1. i \in 1..count
      BY <2>3, <1>1
    <3>2. Wrap(read + i - 1) # write /\ Wrap(read + i - 1) \in Index
      BY <3>1, <1>1, FifoAssumption DEF RingOK, Wrap, Index
    <3>3. Items[i] = buf[Wrap(read + i - 1)]
      BY <3>1 DEF Items
    <3> QED
      BY <2>1, <3>1, <3>2, <3>3, <1>1, <1>4
  <2> QED
    BY <2>2, <2>3
<1> QED
  BY <1>3, <1>4, <1>5, SeqEqual

\* A get removes the oldest character and returns it.
LEMMA GetItems ==
  ASSUME RingOK, RingOK', tty_fifo_get, count > 0
  PROVE  Items # <<>> /\ Items' = Tail(Items) /\ out' = Head(Items)
<1>1. /\ out' = buf[read] /\ read' = Advance(read) /\ count' = count - 1
      /\ buf' = buf /\ read \in Index /\ count \in 1..Size
      /\ buf \in [Index -> Char]
  BY FifoAssumption DEF tty_fifo_get, RingOK, Index
<1>2. Items \in Seq(Char) /\ Len(Items) = count
  BY ReadOut DEF Items, RingOK
<1>3. Items' \in Seq(Char) /\ Len(Items') = count - 1
  BY ReadOut, <1>1 DEF Items, RingOK
<1>4. Items # <<>>
  BY <1>1, <1>2, EmptySeq
<1>5. /\ Tail(Items) \in Seq(Char) /\ Len(Tail(Items)) = count - 1
      /\ \A i \in 1..(count - 1) : Tail(Items)[i] = Items[i + 1]
      /\ Head(Items) = Items[1]
  BY <1>1, <1>2, <1>4, HeadTailProperties
<1>6. ASSUME NEW i \in 1..(count - 1)
      PROVE  Items'[i] = Tail(Items)[i]
  <2>1. Items'[i] = buf[Wrap(Advance(read) + i - 1)]
    BY <1>1 DEF Items
  <2>2. i + 1 \in 1..count /\ Items[i + 1] = buf[Wrap(read + (i + 1) - 1)]
    BY <1>1 DEF Items
  <2>3. Wrap(Advance(read) + i - 1) = Wrap(read + (i + 1) - 1)
    BY <1>1, FifoAssumption DEF Wrap, Advance, Index
  <2> QED
    BY <2>1, <2>2, <2>3, <1>5
<1>7. Items' = Tail(Items)
  BY <1>1, <1>3, <1>5, <1>6, SeqEqual
<1>8. Items[1] = buf[read]
  BY <1>1, FifoAssumption DEF Items, Wrap, Index
<1> QED
  BY <1>1, <1>4, <1>5, <1>7, <1>8

\* Every step of the ring is a step of the queue.
LEMMA StepImplements ==
  RingOK /\ RingOK' /\ [FifoNext]_fifo => [Q!QueueNext]_(Q!qvars)
<1> SUFFICES ASSUME RingOK, RingOK', [FifoNext]_fifo
             PROVE  [Q!QueueNext]_(Q!qvars)
  OBVIOUS
<1>1. Len(Items) = count /\ Items \in Seq(Char)
  BY ReadOut DEF Items, RingOK
<1>2. ASSUME UNCHANGED ring  PROVE Items' = Items
  BY <1>2 DEF ring, Items
<1>3. ASSUME NEW c \in Char, tty_fifo_put(c)  PROVE Q!QueueNext
  <2>1. CASE count >= Size
    <3>1. Items' = Items /\ err' = -1 /\ out' = out /\ last' = "put"
      BY <1>2, <1>3, <2>1, FifoAssumption DEF tty_fifo_put, Fails, RingOK
    <3>2. Len(Items) = Size
      BY <1>1, <2>1, FifoAssumption DEF RingOK
    <3> QED
      BY <3>1, <3>2 DEF Q!QueueNext, Q!Refuse
  <2>2. CASE ~ (count >= Size)
    <3>1. count < Size
      BY <2>2, FifoAssumption DEF RingOK
    <3>2. Items' = Append(Items, c)
      BY <1>3, <3>1, PutItems
    <3>3. err' = 0 /\ out' = out /\ last' = "put"
      BY <1>3, <2>2 DEF tty_fifo_put
    <3> QED
      BY <1>1, <3>1, <3>2, <3>3 DEF Q!QueueNext, Q!Put
  <2> QED
    BY <2>1, <2>2
<1>4. ASSUME tty_fifo_get  PROVE Q!QueueNext
  <2>1. CASE count <= 0
    <3>1. Items' = Items /\ err' = -1 /\ out' = out /\ last' = "get"
      BY <1>2, <1>4, <2>1, FifoAssumption DEF tty_fifo_get, Fails, RingOK
    <3>2. Items = <<>>
      BY <1>1, <2>1, FifoAssumption, EmptySeq DEF RingOK
    <3> QED
      BY <3>1, <3>2 DEF Q!QueueNext, Q!Refuse
  <2>2. CASE ~ (count <= 0)
    <3>1. count > 0
      BY <2>2, FifoAssumption DEF RingOK
    <3>2. Items # <<>> /\ Items' = Tail(Items) /\ out' = Head(Items)
      BY <1>4, <3>1, GetItems
    <3>3. err' = 0 /\ last' = "get"
      BY <1>4, <2>2 DEF tty_fifo_get
    <3> QED
      BY <3>2, <3>3 DEF Q!QueueNext, Q!Get
  <2> QED
    BY <2>1, <2>2
<1>5. ASSUME UNCHANGED fifo  PROVE UNCHANGED Q!qvars
  BY <1>2, <1>5 DEF fifo, Q!qvars
<1> QED
  BY <1>3, <1>4, <1>5 DEF FifoNext

\* It is an empty queue.
LEMMA InitImplements == FifoInit => Q!QueueInit
<1> SUFFICES ASSUME FifoInit  PROVE Q!QueueInit
  OBVIOUS
<1>1. Items \in Seq(Char) /\ Len(Items) = 0
  BY InitRing, ReadOut DEF Items, RingOK, FifoInit
<1> QED
  BY <1>1, EmptySeq DEF FifoInit, Q!QueueInit

\* The indices of the ring stay inside the array, and their distance is the
\* count: no put overwrites what has not been read.
THEOREM RingAlways == FifoSpec => []RingOK
  BY InitRing, NextRing, PTL DEF FifoSpec

\* The ring of a terminal is a bounded first-in first-out queue, whatever its
\* size: nothing is lost, doubled or reordered at the wrap of an index.
THEOREM RingIsQueue == FifoSpec => ImplementsQueue
<1>1. FifoSpec => Q!QueueInit
  BY InitImplements DEF FifoSpec
<1>2. FifoSpec => [][Q!QueueNext]_(Q!qvars)
  BY RingAlways, StepImplements, PTL DEF FifoSpec
<1> QED
  BY <1>1, <1>2, PTL DEF ImplementsQueue, Q!QueueSpec
=============================================================================
