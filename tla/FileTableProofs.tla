----------------------------- MODULE FileTableProofs -----------------------------
(****************************************************************************)
(* The safety properties of FileTable, proved for any number of processes,  *)
(* descriptors, slots and devices, under the two assumptions on programs    *)
(* that the runs make (FdZeroKept and ClosesApart).                         *)
(*                                                                          *)
(* A descriptor holds its file unless its process is removing it.  The      *)
(* inductive invariant says that ref counts the holders, exactly, at every  *)
(* point of every call (Counted), what each call may rely on between its    *)
(* steps (CallsOK, ForksOK, Fresh, Closing), and which files are open in    *)
(* their file systems (OpenWhenHeld, FreeSlotClosed, DevicesCounted).       *)
(****************************************************************************)
EXTENDS FileTable, FiniteSetTheorems, WellFoundedInduction, TLAPS

Removing(t) == pc[t] \in {"close_fs", "close_op", "close_free", "close_freed",
                          "close_remove", "open_remove"}

Holds(t, i, f) == fds[t][i] = f /\ ~ (Removing(t) /\ fd[t] = i)

Holders(f) == {p \in Task \X Fd : Holds(p[1], p[2], f)}

\* sys_dup: the new descriptor holds the file before it is counted.
Duping(t) == pc[t] \in {"dup_lock", "dup_inc"}
Dupers(f) == {t \in Task : Duping(t) /\ file[t] = f}

\* sys_open: the slot is counted before a descriptor, or after none was found.
Undescribed(t) == \/ pc[t] = "open_fd"
                  \/ pc[t] \in {"open_free", "open_freed"} /\ fd[t] = NoFd
Openers(f) == {t \in Task : Undescribed(t) /\ file[t] = f}

Counted ==
  \A f \in File :
    ref[f] + Cardinality(Dupers(f)) = Cardinality(Holders(f)) + Cardinality(Openers(f))

\* From the allocation of a slot to the end of sys_open, or of its clean-up.
Opening(t)   == pc[t] \in {"open_fd", "open_fs", "open_op", "open_free", "open_freed"}
Described(t) == pc[t] \in {"open_fs", "open_op", "open_free", "open_freed"}
Forking(t)   == pc[t] \in {"fork_file", "fork_inc"}

\* What a process knows of its own call.
CallOK(t) ==
  /\ Opening(t) => file[t] \in File
  /\ pc[t] \in {"open_fs", "open_op"} => fd[t] \in Fd /\ fds[t][fd[t]] = file[t]
  /\ pc[t] \in {"open_free", "open_freed", "open_remove"} =>
       \/ fd[t] = NoFd
       \/ fd[t] \in Fd \ {0} /\ fds[t][fd[t]] = file[t] /\ file[t] \in File
  /\ InClose(t) \/ pc[t] = "close_remove" =>
       /\ fd[t] \in Fd /\ fds[t][fd[t]] = file[t] /\ file[t] \in File
       /\ exiting[t] \/ fd[t] # 0
  /\ pc[t] = "use_op" \/ Duping(t) =>
       file[t] \in File /\ \E i \in Fd : fds[t][i] = file[t]
  /\ pc[t] = "exit" => exiting[t]

CallsOK == \A t \in Task : CallOK(t)

\* A process and the child it makes; a slot that is no process has no files.
ForkOK(t) ==
  /\ Forking(t) <=> kid[t] # NoTask
  /\ Forking(t) =>
       /\ fd[t] \in 0..NrFd
       /\ pc[kid[t]] = "none"
       /\ \A i \in Fd : fd[t] <= i => fds[kid[t]][i] = NoFile
       /\ \A u \in Task : kid[u] = kid[t] => u = t
  /\ pc[t] = "fork_inc" => fd[t] \in Fd /\ fds[t][fd[t]] # NoFile
  /\ (pc[t] = "none" /\ \A u \in Task : kid[u] # t) => \A i \in Fd : fds[t][i] = NoFile

ForksOK == \A t \in Task : ForkOK(t)

HeldIsCounted ==
  \A t \in Task, i \in Fd, f \in File : Holds(t, i, f) => ref[f] > 0

\* A file that is being opened is known to its opener only.
FreshFor(t) ==
  Opening(t) =>
    /\ ref[file[t]] = 1
    /\ file[t] \notin opened
    /\ \A u \in Task, i \in Fd :
         Holds(u, i, file[t]) => u = t /\ i = fd[t] /\ pc[t] # "open_fd"
    /\ \A u \in Task \ {t} : Opening(u) => file[u] # file[t]

Fresh == \A t \in Task : FreshFor(t)

\* What ClosesApart gives a process in sys_close, and the two values of ref.
CloseOK(t) ==
  InClose(t) =>
    /\ \A u \in Task \ {t} : /\ InClose(u) => file[u] # file[t]
                             /\ ~ Raises(u, file[t])
                             /\ loaded[t] = 1 => ~ InOpen(u)
    /\ IF pc[t] = "close_store" THEN loaded[t] = ref[file[t]] /\ loaded[t] > 0
       ELSE loaded[t] = 1 /\ ref[file[t]] = 0
    /\ pc[t] \in {"close_store", "close_fs", "close_op"} => file[t] \in opened

Closing == \A t \in Task : CloseOK(t)

OpenWhenHeld ==
  \A t \in Task, i \in Fd, f \in File :
    Holds(t, i, f) => f \in opened \/ (Described(t) /\ fd[t] = i)

Inv ==
  /\ FileTableTypeOK /\ CallsOK /\ ForksOK
  /\ Counted /\ HeldIsCounted /\ Fresh /\ Closing
  /\ OpenWhenHeld /\ FreeSlotClosed /\ DevicesCounted

-----------------------------------------------------------------------------
\* Facts about sets and numbers.

(* Every non-empty set of natural numbers has a least element. *)
LEMMA NatMin ==
  ASSUME NEW S \in SUBSET Nat, S # {}
  PROVE  \E x \in S : \A y \in S : x <= y
<1> DEFINE T == {0..k : k \in S}
<1>1. T \subseteq FiniteSubsetsOf(Nat) /\ T # {}
  <2>1. \A k \in S : 0..k \subseteq Nat /\ IsFiniteSet(0..k)
    BY FS_Interval
  <2> QED
    BY <2>1 DEF FiniteSubsetsOf
<1>2. PICK I \in T : \A J \in T : ~ (<<J, I>> \in StrictSubsetOrdering(Nat))
  <2> HIDE DEF T
  <2> QED
    BY <1>1, WFMin, FS_StrictSubsetOrderingWellFounded
<1>3. PICK x \in S : I = 0..x
  OBVIOUS
<1>4. ASSUME NEW y \in S, y < x
      PROVE  FALSE
  <2>1. 0..y \in T /\ x \in Nat /\ y \in Nat
    OBVIOUS
  <2>2. 0..y \subseteq I /\ x \in I /\ x \notin 0..y
    BY <1>3, <1>4, <2>1
  <2>3. 0..y \in SUBSET Nat /\ I \in SUBSET Nat
    BY <1>3
  <2> HIDE DEF T
  <2> QED
    BY <1>2, <2>1, <2>2, <2>3 DEF StrictSubsetOrdering
<1> QED
  BY <1>4

(* Counting one element more.                                               *)
LEMMA OneMore ==
  ASSUME NEW S, IsFiniteSet(S), NEW x, x \notin S
  PROVE  Cardinality(S \cup {x}) = Cardinality(S) + 1
BY FS_AddElement

(* Counting one element less.                                               *)
LEMMA OneLess ==
  ASSUME NEW S, IsFiniteSet(S), NEW x, x \in S
  PROVE  Cardinality(S \ {x}) = Cardinality(S) - 1
BY FS_RemoveElement

-----------------------------------------------------------------------------
\* What a state says.

(* The constants that stand for nothing differ from every value.            *)
LEMMA Values ==
  /\ NoFd \notin Fd /\ NoFile \notin File /\ NoTask \notin Task
  /\ NrFd \in Nat /\ NrFd > 0
BY FileTableAssumption DEF NoFd, Fd

(* task_alloc_fd returns a free descriptor, if there is one. *)
LEMMA AllocFdFree ==
  ASSUME NEW t \in Task
  PROVE  \/ AllocFd(t) = NoFd
         \/ AllocFd(t) \in Fd /\ fds[t][AllocFd(t)] = NoFile
<1>1. FreeFds(t) \in SUBSET Nat
  BY FileTableAssumption DEF FreeFds, Fd
<1>2. FreeFds(t) # {} => Least(FreeFds(t)) \in FreeFds(t)
  BY <1>1, NatMin DEF Least
<1> QED
  BY <1>2 DEF AllocFd, FreeFds

(* Holders, duplicators and openers are finite sets: tasks and descriptors are.*)
LEMMA Finite ==
  ASSUME NEW f
  PROVE  /\ IsFiniteSet(Holders(f)) /\ IsFiniteSet(Holders(f)')
         /\ IsFiniteSet(Dupers(f)) /\ IsFiniteSet(Dupers(f)')
         /\ IsFiniteSet(Openers(f)) /\ IsFiniteSet(Openers(f)')
<1>1. IsFiniteSet(Fd) /\ IsFiniteSet(Task)
  BY FS_Interval, FileTableAssumption DEF Fd
<1>2. IsFiniteSet(Task \X Fd)
  BY <1>1, FS_Product
<1> QED
  BY <1>1, <1>2, FS_Subset DEF Holders, Dupers, Openers

(* The counts of a file are natural numbers.                                *)
LEMMA Counts ==
  ASSUME NEW f
  PROVE  /\ Cardinality(Holders(f)) \in Nat /\ Cardinality(Holders(f))' \in Nat
         /\ Cardinality(Dupers(f)) \in Nat /\ Cardinality(Dupers(f))' \in Nat
         /\ Cardinality(Openers(f)) \in Nat /\ Cardinality(Openers(f))' \in Nat
BY Finite, FS_CardinalityType

(* A slot that is free: no descriptor holds it, and no call works on it. *)
LEMMA FreeSlot ==
  ASSUME Inv, NEW g \in File, ref[g] = 0
  PROVE  /\ \A u \in Task, i \in Fd : ~ Holds(u, i, g)
         /\ \A u \in Task : /\ Duping(u) \/ Opening(u) => file[u] # g
                            /\ InClose(u) /\ file[u] = g => loaded[u] = 1
<1>1. \A u \in Task, i \in Fd : ~ Holds(u, i, g)
  BY DEF Inv, HeldIsCounted
<1>2. ASSUME NEW u \in Task, Duping(u), file[u] = g
      PROVE  FALSE
  BY <1>1, <1>2 DEF Inv, CallsOK, CallOK, Holds, Duping, Removing
<1>3. ASSUME NEW u \in Task, Opening(u), file[u] = g
      PROVE  FALSE
  BY <1>3 DEF Inv, Fresh, FreshFor
<1>4. ASSUME NEW u \in Task, InClose(u), file[u] = g
      PROVE  loaded[u] = 1
  BY <1>4 DEF Inv, Closing, CloseOK
<1> QED
  BY <1>1, <1>2, <1>3, <1>4

-----------------------------------------------------------------------------
\* What a step that leaves part of the table alone keeps.

\* A step changes the call of one process only.
StepOf(t) ==
  \A u \in Task \ {t} :
    /\ pc'[u] = pc[u] /\ file'[u] = file[u] /\ fd'[u] = fd[u]
    /\ loaded'[u] = loaded[u] /\ exiting'[u] = exiting[u] /\ kid'[u] = kid[u]

(* A step that leaves the table alone, and with it who holds what. *)
LEMMA SameTable ==
  ASSUME Inv, NEW t \in Task, StepOf(t), UNCHANGED table,
         Removing(t)' <=> Removing(t), Removing(t) => fd'[t] = fd[t],
         Duping(t)' <=> Duping(t), Undescribed(t)' <=> Undescribed(t),
         Duping(t) \/ Undescribed(t) => file'[t] = file[t]
  PROVE  /\ \A u \in Task, i \in Fd, f \in File : Holds(u, i, f)' <=> Holds(u, i, f)
         /\ Counted' /\ HeldIsCounted' /\ DevicesCounted'
<1>1. \A u \in Task, i \in Fd, f \in File : Holds(u, i, f)' <=> Holds(u, i, f)
  BY DEF Holds, Removing, StepOf, table
<1>2. ASSUME NEW f \in File
      PROVE  Holders(f)' = Holders(f) /\ Dupers(f)' = Dupers(f) /\ Openers(f)' = Openers(f)
  BY <1>1 DEF Holders, Dupers, Openers, Duping, Undescribed, StepOf
<1> QED
  BY <1>1, <1>2 DEF Inv, Counted, HeldIsCounted, DevicesCounted, table

(* A step of a process that is not in sys_fork, on its own descriptors. *)
LEMMA SameForks ==
  ASSUME Inv, NEW t \in Task, StepOf(t), UNCHANGED kid,
         \A u \in Task \ {t} : fds'[u] = fds[u],
         ~ Forking(t), ~ Forking(t)', pc[t] # "none", pc'[t] # "none"
  PROVE  ForksOK'
<1> SUFFICES ASSUME NEW u \in Task
             PROVE  ForkOK(u)'
  BY DEF ForksOK
<1>1. kid[u] \in Task \cup {NoTask}
  BY DEF Inv, FileTableTypeOK
<1>2. ForkOK(u) /\ ForkOK(t)
  BY DEF Inv, ForksOK
<1>3. CASE u = t
  BY <1>2, <1>3 DEF ForkOK, Forking
<1>4. CASE u # t
  <2>1. pc'[u] = pc[u] /\ fd'[u] = fd[u] /\ fds'[u] = fds[u]
    BY <1>4 DEF StepOf
  <2>2. Forking(u) => kid[u] \in Task /\ kid[u] # t
    BY <1>1, <1>2, Values DEF ForkOK
  <2>3. Forking(u) => pc'[kid[u]] = pc[kid[u]] /\ fds'[kid[u]] = fds[kid[u]]
    BY <2>2 DEF StepOf
  <2> QED
    BY <1>2, <2>1, <2>3 DEF ForkOK, Forking
<1> QED
  BY <1>3, <1>4

-----------------------------------------------------------------------------
\* sys_open.

(* sys_open waits for file_alloc_mutex: a last close is not under way.      *)
LEMMA OpenLockInv ==
  ASSUME Inv, ClosesApart, NEW t \in Task, OpenLock(t)
  PROVE  Inv'
<1>1. /\ pc[t] = "user" /\ pc' = [pc EXCEPT ![t] = "open_alloc"]
      /\ UNCHANGED <<table, file, fd, loaded, exiting, kid>>
      /\ \A u \in Task \ {t} : ~ (InClose(u) /\ loaded[u] = 1)
  BY DEF OpenLock, Goto, Returns, CloseFd, MayOpen
<1>2. FileTableTypeOK /\ FileTableTypeOK'
  BY <1>1, FileTableAssumption DEF Inv, FileTableTypeOK, Labels, table, Fd, NoFd
<1>3. /\ StepOf(t)
      /\ pc'[t] = "open_alloc"
  BY <1>1, <1>2 DEF FileTableTypeOK, StepOf
<1>4. /\ \A u \in Task, i \in Fd, f \in File : Holds(u, i, f)' <=> Holds(u, i, f)
      /\ Counted' /\ HeldIsCounted' /\ DevicesCounted'
  BY <1>1, <1>3, SameTable DEF Removing, Duping, Undescribed
<1>5. CallsOK'
  BY <1>1, <1>2, <1>3, Values DEF Inv, CallsOK, CallOK, Opening, InClose, Duping, StepOf, table, FileTableTypeOK
<1>6. ForksOK'
  BY <1>1, <1>3, SameForks DEF Forking, table
<1>7. Fresh'
  BY <1>1, <1>2, <1>3, <1>4 DEF Inv, Fresh, FreshFor, CallsOK, CallOK, Opening, StepOf, table
<1>8. Closing'
  BY <1>1, <1>2, <1>3, <1>4 DEF Inv, Closing, CloseOK, InClose, InOpen, Raises, StepOf, table
<1>9. OpenWhenHeld' /\ FreeSlotClosed'
  BY <1>1, <1>2, <1>3, <1>4 DEF Inv, OpenWhenHeld, FreeSlotClosed, Described, StepOf, table
<1> QED
  BY <1>2, <1>4, <1>5, <1>6, <1>7, <1>8, <1>9 DEF Inv

(* file_alloc: the slot it takes is held by nobody, and nobody closes it.   *)
LEMMA OpenAllocInv ==
  ASSUME Inv, NEW t \in Task, OpenAlloc(t)
  PROVE  Inv'
<1> DEFINE free == {f \in File : ref[f] = 0}
           g == Least(free)
<1>1. /\ pc[t] = "open_alloc" /\ UNCHANGED <<openCount, opened, fds, exiting, kid>>
      /\ FileTableTypeOK
  BY DEF OpenAlloc, Goto, Inv
<1>2. CASE free = {}
  <2>1. /\ pc' = [pc EXCEPT ![t] = "user"]
        /\ file' = [file EXCEPT ![t] = NoFile]
        /\ fd' = [fd EXCEPT ![t] = NoFd]
        /\ loaded' = [loaded EXCEPT ![t] = 0]
        /\ UNCHANGED table
    BY <1>1, <1>2 DEF OpenAlloc, Goto, Returns, table
  <2>2. FileTableTypeOK'
    BY <1>1, <2>1 DEF FileTableTypeOK, Labels, table
  <2>3. StepOf(t) /\ pc'[t] = "user"
    BY <1>1, <2>1 DEF FileTableTypeOK, StepOf
  <2>4. /\ \A u \in Task, i \in Fd, f \in File : Holds(u, i, f)' <=> Holds(u, i, f)
        /\ Counted' /\ HeldIsCounted' /\ DevicesCounted'
    BY <1>1, <2>1, <2>3, SameTable DEF Removing, Duping, Undescribed
  <2>5. CallsOK'
    BY <1>1, <2>1, <2>3 DEF Inv, CallsOK, CallOK, Opening, InClose, Duping, StepOf, table
  <2>6. ForksOK'
    BY <1>1, <2>1, <2>3, SameForks DEF Forking, table
  <2>7. Fresh' /\ Closing'
    BY <1>1, <2>1, <2>3, <2>4 DEF Inv, Fresh, FreshFor, CallsOK, CallOK, Opening, StepOf, table,
                            Closing, CloseOK, InClose, InOpen, Raises
  <2>8. OpenWhenHeld' /\ FreeSlotClosed'
    BY <1>1, <2>1, <2>3, <2>4 DEF Inv, OpenWhenHeld, FreeSlotClosed, Described, StepOf, table
  <2> QED
    BY <2>2, <2>4, <2>5, <2>6, <2>7, <2>8 DEF Inv
<1>3. CASE free # {}
  <2>1. g \in File /\ ref[g] = 0
    <3>1. free \in SUBSET Nat
      BY FileTableAssumption DEF File
    <3>2. g \in free
      BY <1>3, <3>1, NatMin DEF Least
    <3> QED
      BY <3>2
  <2>2. /\ pc' = [pc EXCEPT ![t] = "open_fd"]
        /\ ref' = [ref EXCEPT ![g] = 1]
        /\ on' = [on EXCEPT ![g] = Null]
        /\ file' = [file EXCEPT ![t] = g]
        /\ UNCHANGED <<fd, loaded>>
    BY <1>3 DEF OpenAlloc, Goto
  <2> HIDE DEF g, free
  <2>3. FileTableTypeOK'
    BY <1>1, <2>1, <2>2 DEF FileTableTypeOK, Labels
  <2>4. /\ StepOf(t)
        /\ pc'[t] = "open_fd" /\ file'[t] = g /\ ref'[g] = 1
        /\ \A f \in File \ {g} : ref'[f] = ref[f] /\ on'[f] = on[f]
    BY <1>1, <2>1, <2>2 DEF FileTableTypeOK, StepOf
  <2>5. /\ \A u \in Task, i \in Fd : ~ Holds(u, i, g)
        /\ \A u \in Task : /\ Duping(u) \/ Opening(u) => file[u] # g
                           /\ InClose(u) => file[u] # g
    BY <1>1, <2>1, FreeSlot DEF InOpen, Inv, Closing, CloseOK, InClose
  <2>6. g \notin opened
    BY <1>1, <2>1, <2>5 DEF Inv, FreeSlotClosed, InClose
  <2>7. \A u \in Task, i \in Fd, f \in File : Holds(u, i, f)' <=> Holds(u, i, f)
    BY <1>1, <2>2, <2>4 DEF Holds, Removing, StepOf
  <2>8. Counted'
    <3> SUFFICES ASSUME NEW f \in File
                 PROVE  (ref[f] + Cardinality(Dupers(f)) = Cardinality(Holders(f)) + Cardinality(Openers(f)))'
      BY DEF Counted
    <3>1. ref[f] + Cardinality(Dupers(f)) = Cardinality(Holders(f)) + Cardinality(Openers(f))
      BY DEF Inv, Counted
    <3>2. Holders(f)' = Holders(f)
      BY <2>7 DEF Holders
    <3>3. Dupers(f)' = Dupers(f)
      BY <1>1, <2>2, <2>4 DEF Dupers, Duping, StepOf
    <3>4. CASE f = g
      <4>1. Openers(f)' = Openers(f) \cup {t} /\ t \notin Openers(f)
        BY <1>1, <2>2, <2>4, <2>5, <3>4 DEF Openers, Undescribed, Opening, StepOf
      <4>2. Cardinality(Openers(f))' = Cardinality(Openers(f)) + 1
        BY <4>1, Finite, OneMore
      <4> QED
        BY <3>1, <3>2, <3>3, <3>4, <4>2, <2>1, <2>4, Counts
    <3>5. CASE f # g
      <4>1. Openers(f)' = Openers(f)
        BY <1>1, <2>2, <2>4, <3>5 DEF Openers, Undescribed, StepOf
      <4> QED
        BY <3>1, <3>2, <3>3, <3>5, <4>1, <2>4
    <3> QED
      BY <3>4, <3>5
  <2>9. HeldIsCounted'
    BY <2>4, <2>5, <2>7 DEF Inv, HeldIsCounted
  <2>10. CallsOK'
    BY <1>1, <2>1, <2>2, <2>4 DEF Inv, CallsOK, CallOK, Opening, InClose, Duping, StepOf
  <2>11. ForksOK'
    BY <1>1, <2>2, <2>4, SameForks DEF Forking
  <2>12. Fresh'
    <3> SUFFICES ASSUME NEW u \in Task, Opening(u)'
                 PROVE  FreshFor(u)'
      BY DEF Fresh, FreshFor
    <3>1. CASE u = t
      BY <1>1, <2>1, <2>4, <2>5, <2>6, <2>7, <3>1 DEF FreshFor, Opening, StepOf
    <3>2. CASE u # t
      <4>1. FreshFor(u) /\ Opening(u) /\ file[u] \in File \ {g}
        BY <2>4, <2>5, <3>2 DEF Inv, Fresh, CallsOK, CallOK, Opening, StepOf
      <4> QED
        BY <1>1, <2>4, <2>7, <3>2, <4>1 DEF FreshFor, Opening, StepOf
    <3> QED
      BY <3>1, <3>2
  <2>13. Closing'
    <3> SUFFICES ASSUME NEW u \in Task, InClose(u)'
                 PROVE  CloseOK(u)'
      BY DEF Closing, CloseOK
    <3>1. u # t /\ InClose(u) /\ CloseOK(u) /\ file[u] \in File \ {g}
      BY <2>4, <2>5 DEF Inv, Closing, CallsOK, CallOK, InClose, StepOf
    <3> QED
      BY <1>1, <2>4, <3>1 DEF CloseOK, InClose, InOpen, Raises, StepOf
  <2>14. OpenWhenHeld'
    BY <1>1, <2>4, <2>7, <2>2 DEF Inv, OpenWhenHeld, Described, StepOf
  <2>15. FreeSlotClosed'
    BY <1>1, <2>4, <2>6 DEF Inv, FreeSlotClosed, StepOf
  <2>16. DevicesCounted'
    <3>1. \A d \in Dev : {f \in opened : on'[f] = d} = {f \in opened : on[f] = d}
      BY <1>1, <2>4, <2>6 DEF FileTableTypeOK
    <3> QED
      BY <1>1, <3>1 DEF Inv, DevicesCounted
  <2> QED
    BY <2>3, <2>8, <2>9, <2>10, <2>11, <2>12, <2>13, <2>14, <2>15, <2>16 DEF Inv
<1> QED
  BY <1>2, <1>3

(* task_alloc_fd: the new descriptor takes over the count of the slot.      *)
LEMMA OpenFdInv ==
  ASSUME Inv, NEW t \in Task, OpenFd(t)
  PROVE  Inv'
<1> DEFINE n == AllocFd(t)
<1>1. n = NoFd \/ (n \in Fd /\ fds[t][n] = NoFile)
  BY AllocFdFree
<1>2. /\ pc[t] = "open_fd" /\ pc' = [pc EXCEPT ![t] = IF n = NoFd THEN "open_free" ELSE "open_fs"]
      /\ fd' = [fd EXCEPT ![t] = n]
      /\ fds' = IF n = NoFd THEN fds ELSE [fds EXCEPT ![t][n] = file[t]]
      /\ UNCHANGED <<ref, on, openCount, opened, file, loaded, exiting, kid>>
  BY DEF OpenFd, Goto
<1>3. FileTableTypeOK
  BY DEF Inv
<1>4. file[t] \in File
  BY <1>2 DEF Inv, CallsOK, CallOK, Opening
<1>N. NoFd \notin Fd /\ NoFile \notin File /\ NoTask \notin Task /\ NrFd \in Nat \ {0}
  BY FileTableAssumption DEF NoFd, Fd
<1> HIDE DEF n
<1>5. FileTableTypeOK'
  BY <1>1, <1>2, <1>3, <1>4, FileTableAssumption DEF FileTableTypeOK, Labels, Fd, NoFd
<1>6. /\ StepOf(t)
      /\ pc'[t] = IF n = NoFd THEN "open_free" ELSE "open_fs"
      /\ fd'[t] = n /\ file'[t] = file[t] /\ kid'[t] = kid[t]
      /\ \A u \in Task \ {t} : fds'[u] = fds[u]
      /\ \A i \in Fd : fds'[t][i] = IF i = n THEN file[t] ELSE fds[t][i]
  BY <1>1, <1>2, <1>3, <1>4, <1>N DEF FileTableTypeOK, StepOf
<1>7. CallsOK'
  BY <1>1, <1>2, <1>3, <1>4, <1>6 DEF Inv, CallsOK, CallOK, Opening, InClose, Duping, StepOf, NoFd
<1>8. ForksOK'
  BY <1>1, <1>2, <1>6, SameForks DEF Forking
<1>9. /\ \A u \in Task, i \in Fd, f \in File :
           Holds(u, i, f)' <=> Holds(u, i, f) \/ (u = t /\ i = n /\ f = file[t])
      /\ n \in Fd => ~ Holds(t, n, file[t])
  BY <1>1, <1>2, <1>3, <1>4, <1>6, <1>N DEF Holds, Removing, StepOf, FileTableTypeOK
<1>10. Counted'
  <2> SUFFICES ASSUME NEW f \in File
               PROVE  (ref[f] + Cardinality(Dupers(f)) = Cardinality(Holders(f)) + Cardinality(Openers(f)))'
    BY DEF Counted
  <2>1. ref[f] + Cardinality(Dupers(f)) = Cardinality(Holders(f)) + Cardinality(Openers(f))
    BY DEF Inv, Counted
  <2>2. Dupers(f)' = Dupers(f)
    BY <1>2, <1>6 DEF Dupers, Duping, StepOf
  <2>3. CASE f = file[t] /\ n \in Fd
    <3>1. Holders(f)' = Holders(f) \cup {<<t, n>>} /\ <<t, n>> \notin Holders(f)
      BY <1>9, <2>3 DEF Holders
    <3>2. Openers(f)' = Openers(f) \ {t} /\ t \in Openers(f)
      BY <1>2, <1>6, <2>3, <1>N DEF Openers, Undescribed, StepOf
    <3>3. /\ Cardinality(Holders(f))' = Cardinality(Holders(f)) + 1
          /\ Cardinality(Openers(f))' = Cardinality(Openers(f)) - 1
      BY <3>1, <3>2, Finite, OneMore, OneLess
    <3> QED
      BY <2>1, <2>2, <3>3, <1>2, <1>3, Counts DEF FileTableTypeOK
  <2>4. CASE ~ (f = file[t] /\ n \in Fd)
    <3>1. Holders(f)' = Holders(f)
      BY <1>9, <2>4 DEF Holders
    <3>2. Openers(f)' = Openers(f)
      BY <1>1, <1>2, <1>6, <2>4 DEF Openers, Undescribed, StepOf
    <3> QED
      BY <2>1, <2>2, <3>1, <3>2, <1>2
  <2> QED
    BY <2>3, <2>4
<1>11. HeldIsCounted' /\ OpenWhenHeld'
  BY <1>2, <1>4, <1>6, <1>9 DEF Inv, HeldIsCounted, OpenWhenHeld, Fresh, FreshFor, Opening, Described, StepOf
<1>12. Fresh'
  BY <1>2, <1>4, <1>6, <1>9 DEF Inv, Fresh, FreshFor, CallsOK, CallOK, Opening, StepOf
<1>13. Closing'
  BY <1>2, <1>4, <1>6, <1>9 DEF Inv, Closing, CloseOK, InClose, InOpen, Raises, StepOf
<1>14. FreeSlotClosed' /\ DevicesCounted'
  BY <1>2, <1>6 DEF Inv, FreeSlotClosed, DevicesCounted, StepOf
<1> QED
  BY <1>5, <1>7, <1>8, <1>10, <1>11, <1>12, <1>13, <1>14 DEF Inv

(* The path is resolved: the count of a fresh slot is 1 already.            *)
LEMMA OpenFsInv ==
  ASSUME Inv, NEW t \in Task, OpenFs(t)
  PROVE  Inv'
<1>1. PICK place \in {Fat, NoDev} \cup Dev :
        /\ pc[t] = "open_fs" /\ pc' = [pc EXCEPT ![t] = "open_op"]
        /\ ref' = [ref EXCEPT ![file[t]] = 1]
        /\ on' = [on EXCEPT ![file[t]] = place]
        /\ UNCHANGED <<openCount, opened, fds, file, fd, loaded, exiting, kid>>
  BY DEF OpenFs, Goto
<1>2. FileTableTypeOK /\ Opening(t) /\ FreshFor(t) /\ file[t] \in File
  BY <1>1 DEF Inv, Fresh, CallsOK, CallOK, Opening
<1>3. UNCHANGED ref
  BY <1>1, <1>2 DEF FreshFor, FileTableTypeOK
<1>4. FileTableTypeOK'
  BY <1>1, <1>2, <1>3 DEF FileTableTypeOK, Labels
<1>5. StepOf(t) /\ pc'[t] = "open_op" /\ \A f \in opened : on'[f] = on[f]
  BY <1>1, <1>2 DEF FileTableTypeOK, StepOf, FreshFor
<1>6. \A u \in Task, i \in Fd, f \in File : Holds(u, i, f)' <=> Holds(u, i, f)
  BY <1>1, <1>5 DEF Holds, Removing, StepOf
<1>7. ASSUME NEW f \in File
      PROVE  Holders(f)' = Holders(f) /\ Dupers(f)' = Dupers(f) /\ Openers(f)' = Openers(f)
  BY <1>1, <1>5, <1>6 DEF Holders, Dupers, Openers, Duping, Undescribed, StepOf
<1>8. Counted' /\ HeldIsCounted'
  BY <1>3, <1>6, <1>7 DEF Inv, Counted, HeldIsCounted
<1>9. DevicesCounted'
  <2>1. \A d \in Dev : {f \in opened : on'[f] = d} = {f \in opened : on[f] = d}
    BY <1>5
  <2> QED
    BY <1>1, <2>1 DEF Inv, DevicesCounted
<1>10. CallsOK'
  BY <1>1, <1>5 DEF Inv, CallsOK, CallOK, Opening, InClose, Duping, StepOf
<1>11. ForksOK'
  BY <1>1, <1>5, SameForks DEF Forking
<1>12. Fresh'
  BY <1>1, <1>3, <1>5, <1>6 DEF Inv, Fresh, FreshFor, CallsOK, CallOK, Opening, StepOf
<1>13. Closing'
  BY <1>1, <1>3, <1>5 DEF Inv, Closing, CloseOK, InClose, InOpen, Raises, StepOf
<1>14. OpenWhenHeld' /\ FreeSlotClosed'
  BY <1>1, <1>3, <1>5, <1>6 DEF Inv, OpenWhenHeld, FreeSlotClosed, Described, StepOf
<1> QED
  BY <1>4, <1>8, <1>9, <1>10, <1>11, <1>12, <1>13, <1>14 DEF Inv

(* op->open has succeeded: the file joins those that are open.              *)
LEMMA OpenOkInv ==
  ASSUME Inv, NEW t \in Task, OpenOk(t)
  PROVE  Inv'
<1> DEFINE g == file[t]
           place == on[g]
<1>1. /\ pc[t] = "open_op" /\ pc' = [pc EXCEPT ![t] = "user"]
      /\ opened' = opened \cup {g}
      /\ IF place \in Dev THEN openCount' = [openCount EXCEPT ![place] = @ + 1]
                          ELSE UNCHANGED openCount
      /\ file' = [file EXCEPT ![t] = NoFile]
      /\ fd' = [fd EXCEPT ![t] = NoFd]
      /\ loaded' = [loaded EXCEPT ![t] = 0]
      /\ UNCHANGED <<ref, on, fds, exiting, kid>>
  BY DEF OpenOk, Goto, Returns, dev_open
<1>2. FileTableTypeOK /\ Opening(t) /\ FreshFor(t) /\ g \in File
  BY <1>1 DEF Inv, Fresh, CallsOK, CallOK, Opening
<1>3. FileTableTypeOK'
  BY <1>1, <1>2 DEF FileTableTypeOK, Labels
<1>4. ref[g] = 1 /\ g \notin opened /\ g = file[t]
  BY <1>2 DEF FreshFor
<1>5. \A d \in Dev : openCount'[d] = openCount[d] + (IF d = place THEN 1 ELSE 0)
  BY <1>1, <1>2 DEF FileTableTypeOK
<1>6. place = on'[g]
  BY <1>1
<1> HIDE DEF g, place
<1>7. StepOf(t) /\ pc'[t] = "user"
  BY <1>1, <1>2 DEF FileTableTypeOK, StepOf
<1>8. \A u \in Task, i \in Fd, f \in File : Holds(u, i, f)' <=> Holds(u, i, f)
  BY <1>1, <1>7 DEF Holds, Removing, StepOf
<1>9. ASSUME NEW f \in File
      PROVE  Holders(f)' = Holders(f) /\ Dupers(f)' = Dupers(f) /\ Openers(f)' = Openers(f)
  BY <1>1, <1>7, <1>8 DEF Holders, Dupers, Openers, Duping, Undescribed, StepOf
<1>10. Counted' /\ HeldIsCounted'
  BY <1>1, <1>8, <1>9 DEF Inv, Counted, HeldIsCounted
<1>11. DevicesCounted'
  <2> SUFFICES ASSUME NEW d \in Dev
               PROVE  (openCount[d] = Cardinality({f \in opened : on[f] = d}))'
    BY DEF DevicesCounted
  <2> DEFINE S == {f \in opened : on[f] = d}
  <2>1. openCount[d] = Cardinality(S) /\ openCount[d] \in Nat
    BY <1>2 DEF Inv, DevicesCounted, FileTableTypeOK
  <2>2. IsFiniteSet(S)
    <3>1. IsFiniteSet(File)
      BY FS_Interval, FileTableAssumption DEF File
    <3> QED
      BY <1>2, <3>1, FS_Subset DEF FileTableTypeOK
  <2>3. CASE d = place
    <3>1. S' = S \cup {g} /\ g \notin S
      BY <1>1, <1>4, <1>6, <2>3
    <3>2. Cardinality(S') = Cardinality(S) + 1
      BY <2>2, <3>1, OneMore
    <3> QED
      BY <1>5, <2>1, <2>3, <3>2
  <2>4. CASE d # place
    <3>1. S' = S
      BY <1>1, <1>6, <2>4
    <3>2. Cardinality(S') = Cardinality(S)
      BY <3>1
    <3>3. openCount'[d] = openCount[d]
      BY <1>5, <2>1, <2>4
    <3> QED
      BY <2>1, <3>2, <3>3
  <2> QED
    BY <2>3, <2>4
<1>12. CallsOK'
  BY <1>1, <1>7 DEF Inv, CallsOK, CallOK, Opening, InClose, Duping, StepOf
<1>13. ForksOK'
  BY <1>1, <1>7, SameForks DEF Forking
<1>14. Fresh'
  BY <1>1, <1>2, <1>4, <1>7, <1>8 DEF Inv, Fresh, FreshFor, CallsOK, CallOK, Opening, StepOf
<1>15. Closing'
  BY <1>1, <1>7 DEF Inv, Closing, CloseOK, InClose, InOpen, Raises, StepOf
<1>16. OpenWhenHeld'
  <2> SUFFICES ASSUME NEW u \in Task, NEW i \in Fd, NEW f \in File, Holds(u, i, f)
               PROVE  (f \in opened \/ (Described(u) /\ fd[u] = i))'
    BY <1>8 DEF OpenWhenHeld
  <2>1. f \in opened \/ (Described(u) /\ fd[u] = i)
    BY DEF Inv, OpenWhenHeld
  <2>2. u = t /\ fd[t] = i => f = g
    BY <1>1, <1>4 DEF Inv, CallsOK, CallOK, Holds
  <2> QED
    BY <1>1, <1>7, <2>1, <2>2 DEF Described, StepOf
<1>17. FreeSlotClosed'
  BY <1>1, <1>4, <1>7 DEF Inv, FreeSlotClosed, StepOf
<1> QED
  BY <1>3, <1>10, <1>11, <1>12, <1>13, <1>14, <1>15, <1>16, <1>17 DEF Inv

(* op->open has failed: the clean-up begins.                                *)
LEMMA OpenFailsInv ==
  ASSUME Inv, FdZeroKept, NEW t \in Task, OpenFails(t)
  PROVE  Inv'
<1>1. /\ pc[t] = "open_op" /\ pc' = [pc EXCEPT ![t] = "open_free"]
      /\ UNCHANGED <<table, file, fd, loaded, exiting, kid>>
      /\ fd[t] # 0
  BY DEF OpenFails, Goto, Returns, CloseFd
<1>2. FileTableTypeOK /\ FileTableTypeOK'
  BY <1>1, FileTableAssumption DEF Inv, FileTableTypeOK, Labels, table, Fd, NoFd
<1>3. /\ StepOf(t)
      /\ pc'[t] = "open_free"
      /\ fd[t] \in Fd \ {0} /\ fds[t][fd[t]] = file[t] /\ file[t] \in File /\ fd[t] # NoFd
  BY <1>1, <1>2, Values DEF Inv, CallsOK, CallOK, Opening, FileTableTypeOK, StepOf
<1>4. /\ \A u \in Task, i \in Fd, f \in File : Holds(u, i, f)' <=> Holds(u, i, f)
      /\ Counted' /\ HeldIsCounted' /\ DevicesCounted'
  BY <1>1, <1>3, SameTable DEF Removing, Duping, Undescribed
<1>5. CallsOK'
  BY <1>1, <1>2, <1>3, Values DEF Inv, CallsOK, CallOK, Opening, InClose, Duping, StepOf, table, FileTableTypeOK
<1>6. ForksOK'
  BY <1>1, <1>3, SameForks DEF Forking, table
<1>7. Fresh'
  BY <1>1, <1>2, <1>3, <1>4 DEF Inv, Fresh, FreshFor, CallsOK, CallOK, Opening, StepOf, table
<1>8. Closing'
  BY <1>1, <1>2, <1>3, <1>4 DEF Inv, Closing, CloseOK, InClose, InOpen, Raises, StepOf, table
<1>9. OpenWhenHeld' /\ FreeSlotClosed'
  BY <1>1, <1>2, <1>3, <1>4 DEF Inv, OpenWhenHeld, FreeSlotClosed, Described, StepOf, table
<1> QED
  BY <1>2, <1>4, <1>5, <1>6, <1>7, <1>8, <1>9 DEF Inv

(* The clean-up waits for file_alloc_mutex.                                 *)
LEMMA OpenFreeInv ==
  ASSUME Inv, NEW t \in Task, OpenFree(t)
  PROVE  Inv'
<1>1. /\ pc[t] = "open_free" /\ pc' = [pc EXCEPT ![t] = "open_freed"]
      /\ UNCHANGED <<table, file, fd, loaded, exiting, kid>>
  BY DEF OpenFree, Goto, Returns, CloseFd
<1>2. FileTableTypeOK /\ FileTableTypeOK'
  BY <1>1, FileTableAssumption DEF Inv, FileTableTypeOK, Labels, table, Fd, NoFd
<1>3. /\ StepOf(t)
      /\ pc'[t] = "open_freed"
  BY <1>1, <1>2 DEF FileTableTypeOK, StepOf
<1>4. /\ \A u \in Task, i \in Fd, f \in File : Holds(u, i, f)' <=> Holds(u, i, f)
      /\ Counted' /\ HeldIsCounted' /\ DevicesCounted'
  BY <1>1, <1>3, SameTable DEF Removing, Duping, Undescribed
<1>5. CallsOK'
  BY <1>1, <1>2, <1>3, Values DEF Inv, CallsOK, CallOK, Opening, InClose, Duping, StepOf, table, FileTableTypeOK
<1>6. ForksOK'
  BY <1>1, <1>3, SameForks DEF Forking, table
<1>7. Fresh'
  BY <1>1, <1>2, <1>3, <1>4 DEF Inv, Fresh, FreshFor, CallsOK, CallOK, Opening, StepOf, table
<1>8. Closing'
  BY <1>1, <1>2, <1>3, <1>4 DEF Inv, Closing, CloseOK, InClose, InOpen, Raises, StepOf, table
<1>9. OpenWhenHeld' /\ FreeSlotClosed'
  BY <1>1, <1>2, <1>3, <1>4 DEF Inv, OpenWhenHeld, FreeSlotClosed, Described, StepOf, table
<1> QED
  BY <1>2, <1>4, <1>5, <1>6, <1>7, <1>8, <1>9 DEF Inv

(* file_free of a slot that was never opened: its last holder is gone.      *)
LEMMA OpenFreedInv ==
  ASSUME Inv, NEW t \in Task, OpenFreed(t)
  PROVE  Inv'
<1>0. file[t] \in File
  BY DEF OpenFreed, Goto, Inv, CallsOK, CallOK, Opening
<1>a. PICK g \in File : g = file[t]
  BY <1>0
<1>1. /\ pc[t] = "open_freed" /\ pc' = [pc EXCEPT ![t] = "open_remove"]
      /\ ref' = [ref EXCEPT ![g] = IF @ # 0 THEN @ - 1 ELSE @]
      /\ UNCHANGED <<on, openCount, opened, fds, file, fd, loaded, exiting, kid>>
  BY <1>a DEF OpenFreed, Goto, DropRef
<1>2. FileTableTypeOK /\ Opening(t) /\ FreshFor(t)
  BY <1>1 DEF Inv, Fresh, CallsOK, CallOK, Opening
<1>3. /\ ref[g] = 1 /\ g \notin opened
      /\ fd[t] = NoFd \/ (fd[t] \in Fd /\ fds[t][fd[t]] = g)
  BY <1>a, <1>1, <1>2 DEF FreshFor, Inv, CallsOK, CallOK
<1>4. ref'[g] = 0 /\ \A f \in File \ {g} : ref'[f] = ref[f]
  BY <1>1, <1>2, <1>a, <1>3 DEF FileTableTypeOK
<1>5. FileTableTypeOK'
  BY <1>1, <1>2, <1>a, <1>3 DEF FileTableTypeOK, Labels
<1>6. StepOf(t) /\ pc'[t] = "open_remove"
  BY <1>1, <1>2 DEF FileTableTypeOK, StepOf
<1>7. /\ \A u \in Task, i \in Fd, f \in File :
           Holds(u, i, f)' <=> Holds(u, i, f) /\ ~ (u = t /\ i = fd[t])
      /\ fd[t] \in Fd => Holds(t, fd[t], g)
  BY <1>1, <1>a, <1>3, <1>6, Values DEF Holds, Removing, StepOf
<1>8. Counted'
  <2> SUFFICES ASSUME NEW f \in File
               PROVE  (ref[f] + Cardinality(Dupers(f)) = Cardinality(Holders(f)) + Cardinality(Openers(f)))'
    BY DEF Counted
  <2>1. ref[f] + Cardinality(Dupers(f)) = Cardinality(Holders(f)) + Cardinality(Openers(f))
    BY DEF Inv, Counted
  <2>2. Dupers(f)' = Dupers(f)
    BY <1>1, <1>6 DEF Dupers, Duping, StepOf
  <2>3. CASE f = g /\ fd[t] \in Fd
    <3>1. Holders(f)' = Holders(f) \ {<<t, fd[t]>>} /\ <<t, fd[t]>> \in Holders(f)
      BY <1>7, <2>3 DEF Holders
    <3>2. Openers(f)' = Openers(f)
      BY <1>1, <1>6, <2>3, Values DEF Openers, Undescribed, StepOf
    <3>3. Cardinality(Holders(f))' = Cardinality(Holders(f)) - 1
      BY <3>1, Finite, OneLess
    <3> QED
      BY <1>a, <1>3, <1>4, <2>1, <2>2, <2>3, <3>2, <3>3, Counts
  <2>4. CASE f = g /\ fd[t] = NoFd
    <3>1. Holders(f)' = Holders(f)
      BY <1>7, <2>4, Values DEF Holders
    <3>2. Openers(f)' = Openers(f) \ {t} /\ t \in Openers(f)
      BY <1>1, <1>a, <1>3, <1>6, <2>4 DEF Openers, Undescribed, StepOf
    <3>3. Cardinality(Openers(f))' = Cardinality(Openers(f)) - 1
      BY <3>2, Finite, OneLess
    <3> QED
      BY <1>a, <1>3, <1>4, <2>1, <2>2, <2>4, <3>1, <3>3, Counts
  <2>5. CASE f # g
    <3>1. \A i \in Fd : i = fd[t] => ~ Holds(t, i, f)
      BY <1>a, <1>3, <2>5, Values DEF Holds
    <3>2. Holders(f)' = Holders(f)
      BY <1>7, <3>1 DEF Holders
    <3>3. Openers(f)' = Openers(f)
      BY <1>1, <1>a, <1>3, <1>6, <2>5 DEF Openers, Undescribed, StepOf
    <3> QED
      BY <1>4, <2>1, <2>2, <2>5, <3>2, <3>3
  <2> QED
    BY <1>a, <1>3, <2>3, <2>4, <2>5
<1>9. HeldIsCounted'
  <2>1. \A u \in Task, i \in Fd : ~ Holds(u, i, g)'
    BY <1>2, <1>a, <1>3, <1>7 DEF FreshFor
  <2> QED
    BY <1>2, <1>4, <1>7, <2>1 DEF Inv, HeldIsCounted
<1>10. CallsOK'
  BY <1>1, <1>2, <1>6 DEF Inv, CallsOK, CallOK, Opening, InClose, Duping, StepOf
<1>11. ForksOK'
  BY <1>1, <1>6, SameForks DEF Forking
<1>12. Fresh'
  <2> SUFFICES ASSUME NEW u \in Task, Opening(u)'
               PROVE  FreshFor(u)'
    BY DEF Fresh, FreshFor
  <2>1. u # t /\ Opening(u) /\ FreshFor(u) /\ file[u] \in File
    BY <1>6 DEF Inv, Fresh, CallsOK, CallOK, Opening, StepOf
  <2>2. file[u] # g
    BY <1>2, <1>a, <1>3, <2>1 DEF FreshFor
  <2> QED
    BY <1>1, <1>4, <1>6, <1>7, <2>1, <2>2 DEF FreshFor, Opening, StepOf
<1>13. Closing'
  <2> SUFFICES ASSUME NEW u \in Task, InClose(u)'
               PROVE  CloseOK(u)'
    BY DEF Closing, CloseOK
  <2>1. u # t /\ InClose(u) /\ CloseOK(u) /\ file[u] \in File
    BY <1>6 DEF Inv, Closing, CallsOK, CallOK, InClose, StepOf
  <2>2. file[u] # g
    BY <1>a, <1>3, <2>1 DEF CloseOK, InClose
  <2> QED
    BY <1>1, <1>4, <1>6, <2>1, <2>2 DEF CloseOK, InClose, InOpen, Raises, StepOf
<1>14. OpenWhenHeld'
  BY <1>1, <1>6, <1>7 DEF Inv, OpenWhenHeld, Described, StepOf
<1>15. FreeSlotClosed'
  BY <1>1, <1>a, <1>3, <1>4, <1>6 DEF Inv, FreeSlotClosed, StepOf
<1>16. DevicesCounted'
  BY <1>1 DEF Inv, DevicesCounted
<1> QED
  BY <1>5, <1>8, <1>9, <1>10, <1>11, <1>12, <1>13, <1>14, <1>15, <1>16 DEF Inv

-----------------------------------------------------------------------------
\* sys_close and sys_exit.

(* Both calls clear the descriptor last, which holds its file no more. *)
LEMMA RemoveInv ==
  ASSUME Inv, NEW t \in Task, NEW b \in {"user", "exit"},
         pc[t] \in {"open_remove", "close_remove"}, pc' = [pc EXCEPT ![t] = b],
         b = "exit" => exiting[t],
         fds' = IF fd[t] \in Fd THEN [fds EXCEPT ![t][fd[t]] = NoFile] ELSE fds,
         Returns(t), UNCHANGED <<ref, on, openCount, opened, exiting, kid>>
  PROVE  Inv'
<1>1. FileTableTypeOK /\ FileTableTypeOK'
  BY DEF Inv, FileTableTypeOK, Labels, Returns
<1>2. /\ StepOf(t) /\ pc'[t] = b
      /\ \A u \in Task \ {t} : fds'[u] = fds[u]
      /\ \A i \in Fd : fds'[t][i] = IF i = fd[t] THEN NoFile ELSE fds[t][i]
  BY <1>1 DEF FileTableTypeOK, StepOf, Returns
<1>3. \A u \in Task, i \in Fd, f \in File : Holds(u, i, f)' <=> Holds(u, i, f)
  BY <1>2, Values DEF Holds, Removing, StepOf
<1>4. ASSUME NEW f \in File
      PROVE  Holders(f)' = Holders(f) /\ Dupers(f)' = Dupers(f) /\ Openers(f)' = Openers(f)
  BY <1>2, <1>3 DEF Holders, Dupers, Openers, Duping, Undescribed, StepOf
<1>5. Counted' /\ HeldIsCounted' /\ DevicesCounted'
  BY <1>3, <1>4 DEF Inv, Counted, HeldIsCounted, DevicesCounted
<1>6. CallsOK'
  BY <1>2 DEF Inv, CallsOK, CallOK, Opening, InClose, Duping, StepOf
<1>7. ForksOK'
  BY <1>2, SameForks DEF Forking
<1>8. Fresh'
  BY <1>2, <1>3 DEF Inv, Fresh, FreshFor, CallsOK, CallOK, Opening, StepOf
<1>9. Closing'
  BY <1>2, Values DEF Inv, Closing, CloseOK, CallsOK, CallOK, InClose, InOpen, Raises, StepOf
<1>10. OpenWhenHeld' /\ FreeSlotClosed'
  BY <1>2, <1>3 DEF Inv, OpenWhenHeld, FreeSlotClosed, Described, StepOf
<1> QED
  BY <1>1, <1>5, <1>6, <1>7, <1>8, <1>9, <1>10 DEF Inv

(* sys_open returns after its clean-up.                                     *)
LEMMA OpenRemoveInv ==
  ASSUME Inv, NEW t \in Task, OpenRemove(t)
  PROVE  Inv'
<1>1. /\ pc[t] = "open_remove" /\ pc' = [pc EXCEPT ![t] = "user"]
      /\ RemoveFd(t, fd[t]) /\ Returns(t)
      /\ UNCHANGED <<ref, on, openCount, opened, exiting, kid>>
  BY DEF OpenRemove, Goto
<1>2. fd[t] = NoFd \/ fd[t] \in Fd \ {0}
  BY <1>1 DEF Inv, CallsOK, CallOK
<1>3. fd[t] > 0 <=> fd[t] \in Fd
  BY <1>2 DEF NoFd, Fd
<1> QED
  BY <1>1, <1>3, RemoveInv DEF RemoveFd

(* Both ways into sys_close. *)
LEMMA CloseFdInv ==
  ASSUME Inv, ClosesApart, NEW t \in Task, NEW i \in Fd, CloseFd(t, i),
         pc[t] \in {"user", "exit"}, pc' = [pc EXCEPT ![t] = "close_store"],
         exiting[t] \/ i # 0
  PROVE  Inv'
<1> DEFINE f == fds[t][i]
<1>1. /\ f # NoFile /\ UNCHANGED <<svars, table, exiting, kid>>
      /\ file' = [file EXCEPT ![t] = f]
      /\ fd' = [fd EXCEPT ![t] = i]
      /\ loaded' = [loaded EXCEPT ![t] = ref[f]]
      /\ \A u \in Task \ {t} : ~ (InClose(u) /\ file[u] = f)
      /\ \A u \in Task \ {t} : ~ Raises(u, f) /\ (ref[f] = 1 => ~ InOpen(u))
  BY DEF CloseFd, MayClose, MayRaise
<1>2. FileTableTypeOK /\ f \in File /\ ref[f] \in Nat
  BY <1>1 DEF Inv, FileTableTypeOK
<1> HIDE DEF f
<1>3. FileTableTypeOK'
  BY <1>1, <1>2, FileTableAssumption DEF FileTableTypeOK, Labels, table, Fd, NoFd
<1>4. /\ StepOf(t)
      /\ pc'[t] = "close_store" /\ file'[t] = f /\ fd'[t] = i /\ loaded'[t] = ref[f]
  BY <1>1, <1>2 DEF FileTableTypeOK, StepOf
<1>5. f = fds[t][i]
  BY DEF f
<1>6. /\ \A u \in Task, j \in Fd, g \in File : Holds(u, j, g)' <=> Holds(u, j, g)
      /\ Counted' /\ HeldIsCounted' /\ DevicesCounted'
  BY <1>1, <1>4, SameTable DEF Removing, Duping, Undescribed
<1>7. CallsOK'
  BY <1>1, <1>2, <1>4, <1>5 DEF Inv, CallsOK, CallOK, Opening, InClose, Duping, StepOf, table
<1>8. ForksOK'
  BY <1>1, <1>4, SameForks DEF Forking, table
<1>9. Fresh'
  BY <1>1, <1>4, <1>6 DEF Inv, Fresh, FreshFor, CallsOK, CallOK, Opening, StepOf, table
<1>10. Holds(t, i, f)
  BY <1>5 DEF Holds, Removing
<1>11. ref[f] > 0 /\ f \in opened
  BY <1>2, <1>10 DEF Inv, HeldIsCounted, OpenWhenHeld, Described
<1>12. Closing'
  BY <1>1, <1>4, <1>11 DEF Inv, Closing, CloseOK, InClose, InOpen, Raises, StepOf, table
<1>13. OpenWhenHeld' /\ FreeSlotClosed'
  BY <1>1, <1>4, <1>6 DEF Inv, OpenWhenHeld, FreeSlotClosed, Described, StepOf, table
<1> QED
  BY <1>3, <1>6, <1>7, <1>8, <1>9, <1>12, <1>13 DEF Inv

(* sys_close of a program: descriptor 0 stays.                              *)
LEMMA CloseLoadInv ==
  ASSUME Inv, FdZeroKept, ClosesApart, NEW t \in Task, CloseLoad(t)
  PROVE  Inv'
<1>1. PICK i \in Fd :
        /\ pc[t] = "user" /\ pc' = [pc EXCEPT ![t] = "close_store"]
        /\ i # 0 /\ CloseFd(t, i)
  BY DEF CloseLoad, Goto
<1> QED
  BY <1>1, CloseFdInv

(* sys_close called by sys_exit, for the least descriptor that is left.     *)
LEMMA ExitLoadInv ==
  ASSUME Inv, FdZeroKept, ClosesApart, NEW t \in Task, ExitLoad(t)
  PROVE  Inv'
<1>1. PICK i \in Fd :
        /\ pc[t] = "exit" /\ pc' = [pc EXCEPT ![t] = "close_store"]
        /\ exiting[t] /\ CloseFd(t, i)
  <2> DEFINE S == Fd \ FreeFds(t)
  <2>1. S \in SUBSET Nat /\ S # {}
    BY FileTableAssumption DEF ExitLoad, Fd, FreeFds
  <2>2. Least(S) \in S
    BY <2>1, NatMin DEF Least
  <2>3. exiting[t]
    BY DEF ExitLoad, Goto, Inv, CallsOK, CallOK
  <2> QED
    BY <2>2, <2>3 DEF ExitLoad, Goto
<1> QED
  BY <1>1, CloseFdInv

(* The decremented count is stored: it counts the other holders.            *)
LEMMA CloseStoreInv ==
  ASSUME Inv, NEW t \in Task, CloseStore(t)
  PROVE  Inv'
<1>1. /\ pc[t] = "close_store"
      /\ pc' = [pc EXCEPT ![t] = IF loaded[t] = 1 THEN "close_fs" ELSE "close_remove"]
      /\ ref' = [ref EXCEPT ![file[t]] = loaded[t] - 1]
      /\ UNCHANGED <<on, openCount, opened, fds, file, fd, loaded, exiting, kid>>
  BY DEF CloseStore, Goto
<1>2. /\ FileTableTypeOK /\ InClose(t) /\ CloseOK(t)
      /\ file[t] \in File /\ fd[t] \in Fd /\ fds[t][fd[t]] = file[t]
      /\ exiting[t] \/ fd[t] # 0
  BY <1>1 DEF Inv, CallsOK, CallOK, InClose, Closing
<1>3. PICK g \in File : g = file[t]
  BY <1>2
<1>4. PICK j \in Fd : j = fd[t]
  BY <1>2
<1>5. /\ ref[g] \in Nat /\ loaded[t] = ref[g] /\ ref[g] > 0 /\ g \in opened
      /\ \A u \in Task \ {t} : (InClose(u) => file[u] # g) /\ ~ Raises(u, g)
      /\ ref[g] = 1 => \A u \in Task \ {t} : ~ InOpen(u)
  BY <1>1, <1>2, <1>3 DEF CloseOK, FileTableTypeOK
<1>6. ref'[g] = ref[g] - 1 /\ \A f \in File \ {g} : ref'[f] = ref[f]
  BY <1>1, <1>3, <1>5, <1>2 DEF FileTableTypeOK
<1>7. FileTableTypeOK'
  BY <1>1, <1>2, <1>3, <1>5 DEF FileTableTypeOK, Labels
<1>8. StepOf(t) /\ pc'[t] = IF ref[g] = 1 THEN "close_fs" ELSE "close_remove"
  BY <1>1, <1>2, <1>5 DEF FileTableTypeOK, StepOf
<1>9. /\ \A u \in Task, i \in Fd, f \in File :
           Holds(u, i, f)' <=> Holds(u, i, f) /\ ~ (u = t /\ i = j)
      /\ Holds(t, j, g)
      /\ \A f \in File \ {g} : ~ Holds(t, j, f)
  BY <1>1, <1>2, <1>3, <1>4, <1>8 DEF Holds, Removing, StepOf
<1>10. Dupers(g) = {}
  BY <1>1, <1>3, <1>5 DEF Dupers, Duping, Raises
<1>11. Holders(g)' = Holders(g) \ {<<t, j>>} /\ <<t, j>> \in Holders(g)
  BY <1>9 DEF Holders
<1>12. Cardinality(Holders(g))' = Cardinality(Holders(g)) - 1
  BY <1>11, Finite, OneLess
<1>13. ref[g] = Cardinality(Holders(g)) + Cardinality(Openers(g))
  <2>1. ref[g] + Cardinality(Dupers(g)) = Cardinality(Holders(g)) + Cardinality(Openers(g))
    BY DEF Inv, Counted
  <2>2. Cardinality(Dupers(g)) = 0
    BY <1>10, FS_EmptySet
  <2> QED
    BY <1>5, <2>1, <2>2, Counts
<1>14. \A f \in File : Dupers(f)' = Dupers(f) /\ Openers(f)' = Openers(f)
  BY <1>1, <1>8 DEF Dupers, Duping, Openers, Undescribed, StepOf
<1>15. Counted'
  <2> SUFFICES ASSUME NEW f \in File
               PROVE  (ref[f] + Cardinality(Dupers(f)) = Cardinality(Holders(f)) + Cardinality(Openers(f)))'
    BY DEF Counted
  <2>1. ref[f] + Cardinality(Dupers(f)) = Cardinality(Holders(f)) + Cardinality(Openers(f))
    BY DEF Inv, Counted
  <2>2. CASE f = g
    BY <1>5, <1>6, <1>12, <1>14, <2>1, <2>2, Counts
  <2>3. CASE f # g
    <3>1. Holders(f)' = Holders(f)
      BY <1>9, <2>3 DEF Holders
    <3> QED
      BY <1>6, <1>14, <2>1, <2>3, <3>1
  <2> QED
    BY <2>2, <2>3
<1>16. ASSUME ref[g] = 1, NEW u \in Task, NEW i \in Fd, Holds(u, i, g)'
       PROVE  FALSE
  <2>1. Cardinality(Holders(g))' = 0
    BY <1>12, <1>13, <1>16, Counts
  <2>2. Holders(g)' = {}
    BY <2>1, Finite, FS_EmptySet
  <2>3. <<u, i>> \in Holders(g)'
    BY <1>16 DEF Holders
  <2> QED
    BY <2>2, <2>3
<1>17. HeldIsCounted'
  BY <1>5, <1>6, <1>9, <1>16 DEF Inv, HeldIsCounted
<1>18. CallsOK'
  BY <1>1, <1>2, <1>8 DEF Inv, CallsOK, CallOK, Opening, InClose, Duping, StepOf
<1>19. ForksOK'
  BY <1>1, <1>8, SameForks DEF Forking
<1>20. Fresh'
  <2> SUFFICES ASSUME NEW u \in Task, Opening(u)'
               PROVE  FreshFor(u)'
    BY DEF Fresh, FreshFor
  <2>1. u # t /\ Opening(u) /\ FreshFor(u) /\ file[u] \in File
    BY <1>8 DEF Inv, Fresh, CallsOK, CallOK, Opening, StepOf
  <2>2. file[u] # g
    BY <1>5, <2>1 DEF FreshFor
  <2>3. \A w \in Task : Opening(w)' => Opening(w)
    BY <1>8 DEF Opening, StepOf
  <2>4. pc'[u] = pc[u] /\ fd'[u] = fd[u] /\ UNCHANGED <<file, opened>>
    BY <1>1, <1>8, <2>1 DEF StepOf
  <2> QED
    BY <1>6, <1>9, <2>1, <2>2, <2>3, <2>4 DEF FreshFor
<1>21. Closing'
  <2> SUFFICES ASSUME NEW u \in Task, InClose(u)'
               PROVE  CloseOK(u)'
    BY DEF Closing, CloseOK
  <2>1. CASE u = t
    BY <1>1, <1>3, <1>5, <1>6, <1>8, <2>1 DEF CloseOK, InClose, InOpen, Raises, StepOf
  <2>2. CASE u # t
    <3>1. InClose(u) /\ CloseOK(u) /\ file[u] \in File \ {g}
      BY <1>5, <1>8, <2>2 DEF Inv, Closing, CallsOK, CallOK, InClose, StepOf
    <3> QED
      BY <1>1, <1>2, <1>6, <1>8, <2>2, <3>1 DEF CloseOK, InClose, InOpen, Raises, StepOf
  <2> QED
    BY <2>1, <2>2
<1>22. OpenWhenHeld'
  BY <1>1, <1>8, <1>9 DEF Inv, OpenWhenHeld, Described, StepOf
<1>23. FreeSlotClosed'
  BY <1>1, <1>3, <1>5, <1>6, <1>8 DEF Inv, FreeSlotClosed, StepOf
<1>24. DevicesCounted'
  BY <1>1 DEF Inv, DevicesCounted
<1> QED
  BY <1>7, <1>15, <1>17, <1>18, <1>19, <1>20, <1>21, <1>22, <1>23, <1>24 DEF Inv

(* The last close enters the file system.                                   *)
LEMMA CloseFsInv ==
  ASSUME Inv, NEW t \in Task, CloseFs(t)
  PROVE  Inv'
<1>1. /\ pc[t] = "close_fs" /\ pc' = [pc EXCEPT ![t] = "close_op"]
      /\ UNCHANGED <<table, file, fd, loaded, exiting, kid>>
  BY DEF CloseFs, Goto, Returns, CloseFd
<1>2. FileTableTypeOK /\ FileTableTypeOK'
  BY <1>1, FileTableAssumption DEF Inv, FileTableTypeOK, Labels, table, Fd, NoFd
<1>3. /\ StepOf(t)
      /\ pc'[t] = "close_op"
  BY <1>1, <1>2 DEF FileTableTypeOK, StepOf
<1>4. /\ \A u \in Task, i \in Fd, f \in File : Holds(u, i, f)' <=> Holds(u, i, f)
      /\ Counted' /\ HeldIsCounted' /\ DevicesCounted'
  BY <1>1, <1>3, SameTable DEF Removing, Duping, Undescribed
<1>5. CallsOK'
  BY <1>1, <1>2, <1>3, Values DEF Inv, CallsOK, CallOK, Opening, InClose, Duping, StepOf, table, FileTableTypeOK
<1>6. ForksOK'
  BY <1>1, <1>3, SameForks DEF Forking, table
<1>7. Fresh'
  BY <1>1, <1>2, <1>3, <1>4 DEF Inv, Fresh, FreshFor, CallsOK, CallOK, Opening, StepOf, table
<1>8. Closing'
  BY <1>1, <1>2, <1>3, <1>4 DEF Inv, Closing, CloseOK, InClose, InOpen, Raises, StepOf, table
<1>9. OpenWhenHeld' /\ FreeSlotClosed'
  BY <1>1, <1>2, <1>3, <1>4 DEF Inv, OpenWhenHeld, FreeSlotClosed, Described, StepOf, table
<1> QED
  BY <1>2, <1>4, <1>5, <1>6, <1>7, <1>8, <1>9 DEF Inv

(* op->close: the file and its device are closed, and nobody holds it.      *)
LEMMA CloseOpInv ==
  ASSUME Inv, NEW t \in Task, CloseOp(t)
  PROVE  Inv'
<1>1. /\ pc[t] = "close_op" /\ pc' = [pc EXCEPT ![t] = "close_free"]
      /\ opened' = opened \ {file[t]}
      /\ IF on[file[t]] \in Dev THEN openCount' = [openCount EXCEPT ![on[file[t]]] = @ - 1]
                                ELSE UNCHANGED openCount
      /\ UNCHANGED <<ref, on, fds, file, fd, loaded, exiting, kid>>
  BY DEF CloseOp, Goto, dev_close
<1>2. /\ FileTableTypeOK /\ InClose(t) /\ CloseOK(t) /\ CallOK(t) /\ file[t] \in File
  BY <1>1 DEF Inv, CallsOK, CallOK, InClose, Closing
<1>3. PICK g \in File : g = file[t]
  BY <1>2
<1>4. /\ ref[g] = 0 /\ loaded[t] = 1 /\ g \in opened
      /\ \A u \in Task \ {t} : (InClose(u) => file[u] # g) /\ ~ Raises(u, g) /\ ~ InOpen(u)
  BY <1>1, <1>2, <1>3 DEF CloseOK
<1>5. \A u \in Task, i \in Fd : ~ Holds(u, i, g)
  BY <1>4, FreeSlot
<1>6. StepOf(t) /\ pc'[t] = "close_free"
  BY <1>1, <1>2 DEF FileTableTypeOK, StepOf
<1>7. \A u \in Task, i \in Fd, f \in File : Holds(u, i, f)' <=> Holds(u, i, f)
  BY <1>1, <1>6 DEF Holds, Removing, StepOf
<1>8. ASSUME NEW f \in File
      PROVE  Holders(f)' = Holders(f) /\ Dupers(f)' = Dupers(f) /\ Openers(f)' = Openers(f)
  BY <1>1, <1>6, <1>7 DEF Holders, Dupers, Openers, Duping, Undescribed, StepOf
<1>9. Counted' /\ HeldIsCounted'
  BY <1>1, <1>7, <1>8 DEF Inv, Counted, HeldIsCounted
<1>10. /\ DevicesCounted'
       /\ on[g] \in Dev => openCount[on[g]] - 1 \in Nat
  <2> SUFFICES ASSUME NEW d \in Dev
               PROVE  /\ (openCount[d] = Cardinality({f \in opened : on[f] = d}))'
                      /\ on[g] = d => openCount[d] - 1 \in Nat
    BY DEF DevicesCounted
  <2> DEFINE S == {f \in opened : on[f] = d}
  <2>1. openCount[d] = Cardinality(S) /\ openCount[d] \in Nat
    BY <1>2 DEF Inv, DevicesCounted, FileTableTypeOK
  <2>2. IsFiniteSet(S)
    <3>1. IsFiniteSet(File)
      BY FS_Interval, FileTableAssumption DEF File
    <3> QED
      BY <1>2, <3>1, FS_Subset DEF FileTableTypeOK
  <2>3. CASE on[g] = d
    <3>1. S' = S \ {g} /\ g \in S
      BY <1>1, <1>3, <1>4, <2>3
    <3>2. Cardinality(S') = Cardinality(S) - 1 /\ IsFiniteSet(S')
      BY <2>2, <3>1, OneLess, FS_RemoveElement
    <3>3. openCount'[d] = openCount[d] - 1
      BY <1>1, <1>2, <1>3, <2>3 DEF FileTableTypeOK
    <3>4. Cardinality(S') \in Nat
      BY <3>2, FS_CardinalityType
    <3> QED
      BY <2>1, <3>2, <3>3, <3>4
  <2>4. CASE on[g] # d
    <3>1. S' = S
      BY <1>1, <1>3, <2>4
    <3>2. Cardinality(S') = Cardinality(S)
      BY <3>1
    <3>3. openCount'[d] = openCount[d]
      BY <1>1, <1>2, <1>3, <2>4 DEF FileTableTypeOK
    <3> QED
      BY <2>1, <2>4, <3>2, <3>3
  <2> QED
    BY <2>3, <2>4
<1>11. FileTableTypeOK'
  BY <1>1, <1>2, <1>3, <1>10 DEF FileTableTypeOK, Labels
<1>12. CallsOK'
  BY <1>1, <1>2, <1>6 DEF Inv, CallsOK, CallOK, Opening, InClose, Duping, StepOf
<1>13. ForksOK'
  BY <1>1, <1>6, SameForks DEF Forking
<1>14. Fresh'
  BY <1>1, <1>6, <1>7 DEF Inv, Fresh, FreshFor, CallsOK, CallOK, Opening, StepOf
<1>15. Closing'
  <2> SUFFICES ASSUME NEW u \in Task, InClose(u)'
               PROVE  CloseOK(u)'
    BY DEF Closing, CloseOK
  <2>1. CASE u = t
    BY <1>1, <1>3, <1>4, <1>6, <2>1 DEF CloseOK, InClose, InOpen, Raises, StepOf
  <2>2. CASE u # t
    <3>1. InClose(u) /\ CloseOK(u) /\ file[u] \in File \ {g}
      BY <1>4, <1>6, <2>2 DEF Inv, Closing, CallsOK, CallOK, InClose, StepOf
    <3> QED
      BY <1>1, <1>2, <1>3, <1>6, <2>2, <3>1 DEF CloseOK, InClose, InOpen, Raises, StepOf
  <2> QED
    BY <2>1, <2>2
<1>16. OpenWhenHeld'
  BY <1>1, <1>3, <1>5, <1>6, <1>7 DEF Inv, OpenWhenHeld, Described, StepOf
<1>17. FreeSlotClosed'
  BY <1>1, <1>3, <1>6 DEF Inv, FreeSlotClosed, StepOf
<1> QED
  BY <1>9, <1>10, <1>11, <1>12, <1>13, <1>14, <1>15, <1>16, <1>17 DEF Inv

(* The last close waits for file_alloc_mutex.                               *)
LEMMA CloseFreeInv ==
  ASSUME Inv, NEW t \in Task, CloseFree(t)
  PROVE  Inv'
<1>1. /\ pc[t] = "close_free" /\ pc' = [pc EXCEPT ![t] = "close_freed"]
      /\ UNCHANGED <<table, file, fd, loaded, exiting, kid>>
  BY DEF CloseFree, Goto, Returns, CloseFd
<1>2. FileTableTypeOK /\ FileTableTypeOK'
  BY <1>1, FileTableAssumption DEF Inv, FileTableTypeOK, Labels, table, Fd, NoFd
<1>3. /\ StepOf(t)
      /\ pc'[t] = "close_freed"
  BY <1>1, <1>2 DEF FileTableTypeOK, StepOf
<1>4. /\ \A u \in Task, i \in Fd, f \in File : Holds(u, i, f)' <=> Holds(u, i, f)
      /\ Counted' /\ HeldIsCounted' /\ DevicesCounted'
  BY <1>1, <1>3, SameTable DEF Removing, Duping, Undescribed
<1>5. CallsOK'
  BY <1>1, <1>2, <1>3, Values DEF Inv, CallsOK, CallOK, Opening, InClose, Duping, StepOf, table, FileTableTypeOK
<1>6. ForksOK'
  BY <1>1, <1>3, SameForks DEF Forking, table
<1>7. Fresh'
  BY <1>1, <1>2, <1>3, <1>4 DEF Inv, Fresh, FreshFor, CallsOK, CallOK, Opening, StepOf, table
<1>8. Closing'
  BY <1>1, <1>2, <1>3, <1>4 DEF Inv, Closing, CloseOK, InClose, InOpen, Raises, StepOf, table
<1>9. OpenWhenHeld' /\ FreeSlotClosed'
  BY <1>1, <1>2, <1>3, <1>4 DEF Inv, OpenWhenHeld, FreeSlotClosed, Described, StepOf, table
<1> QED
  BY <1>2, <1>4, <1>5, <1>6, <1>7, <1>8, <1>9 DEF Inv

(* file_free finds the count at zero and leaves it there.                   *)
LEMMA CloseFreedInv ==
  ASSUME Inv, NEW t \in Task, CloseFreed(t)
  PROVE  Inv'
<1>1. /\ pc[t] = "close_freed" /\ pc' = [pc EXCEPT ![t] = "close_remove"]
      /\ ref' = [ref EXCEPT ![file[t]] = IF @ # 0 THEN @ - 1 ELSE @]
      /\ UNCHANGED <<on, openCount, opened, fds, file, fd, loaded, exiting, kid>>
  BY DEF CloseFreed, Goto, DropRef
<1>2. FileTableTypeOK /\ CallOK(t) /\ InClose(t) /\ CloseOK(t) /\ file[t] \in File
  BY <1>1 DEF Inv, CallsOK, CallOK, InClose, Closing
<1>3. ref[file[t]] = 0
  BY <1>1, <1>2 DEF CloseOK
<1>4. UNCHANGED table
  BY <1>1, <1>2, <1>3 DEF FileTableTypeOK, table
<1>5. FileTableTypeOK'
  BY <1>1, <1>2, <1>4 DEF FileTableTypeOK, Labels, table
<1>6. StepOf(t) /\ pc'[t] = "close_remove"
  BY <1>1, <1>2 DEF FileTableTypeOK, StepOf
<1>7. /\ \A u \in Task, i \in Fd, f \in File : Holds(u, i, f)' <=> Holds(u, i, f)
      /\ Counted' /\ HeldIsCounted' /\ DevicesCounted'
  BY <1>1, <1>4, <1>6, SameTable DEF Removing, Duping, Undescribed
<1>8. CallsOK'
  BY <1>1, <1>2, <1>4, <1>6 DEF Inv, CallsOK, CallOK, Opening, InClose, Duping, StepOf, table
<1>9. ForksOK'
  BY <1>1, <1>6, SameForks DEF Forking
<1>10. Fresh'
  BY <1>1, <1>4, <1>6, <1>7 DEF Inv, Fresh, FreshFor, CallsOK, CallOK, Opening, StepOf, table
<1>11. Closing'
  BY <1>1, <1>4, <1>6 DEF Inv, Closing, CloseOK, InClose, InOpen, Raises, StepOf, table
<1>12. OpenWhenHeld' /\ FreeSlotClosed'
  BY <1>1, <1>4, <1>6, <1>7 DEF Inv, OpenWhenHeld, FreeSlotClosed, Described, StepOf, table
<1> QED
  BY <1>5, <1>7, <1>8, <1>9, <1>10, <1>11, <1>12 DEF Inv

(* sys_close clears the descriptor and returns.                             *)
LEMMA CloseRemoveInv ==
  ASSUME Inv, NEW t \in Task, CloseRemove(t)
  PROVE  Inv'
<1>1. /\ pc[t] = "close_remove" /\ pc' = [pc EXCEPT ![t] = IF exiting[t] THEN "exit" ELSE "user"]
      /\ IF exiting[t] THEN fds' = [fds EXCEPT ![t][fd[t]] = NoFile]
                       ELSE RemoveFd(t, fd[t])
      /\ Returns(t)
      /\ UNCHANGED <<ref, on, openCount, opened, exiting, kid>>
  BY DEF CloseRemove, Goto
<1>2. fd[t] \in Fd /\ (exiting[t] \/ fd[t] # 0)
  BY <1>1 DEF Inv, CallsOK, CallOK
<1>3. fd[t] # 0 => fd[t] > 0
  BY <1>2 DEF Fd
<1> QED
  BY <1>1, <1>2, <1>3, RemoveInv DEF RemoveFd

(* sys_exit begins.                                                         *)
LEMMA ExitStartInv ==
  ASSUME Inv, NEW t \in Task, ExitStart(t)
  PROVE  Inv'
<1>1. /\ pc[t] = "user" /\ pc' = [pc EXCEPT ![t] = "exit"]
      /\ exiting' = [exiting EXCEPT ![t] = TRUE]
      /\ UNCHANGED <<table, file, fd, loaded, kid>>
  BY DEF ExitStart, Goto, Returns, CloseFd
<1>2. FileTableTypeOK /\ FileTableTypeOK'
  BY <1>1, FileTableAssumption DEF Inv, FileTableTypeOK, Labels, table, Fd, NoFd
<1>3. /\ StepOf(t)
      /\ pc'[t] = "exit" /\ exiting'[t] = TRUE
  BY <1>1, <1>2 DEF FileTableTypeOK, StepOf
<1>4. /\ \A u \in Task, i \in Fd, f \in File : Holds(u, i, f)' <=> Holds(u, i, f)
      /\ Counted' /\ HeldIsCounted' /\ DevicesCounted'
  BY <1>1, <1>3, SameTable DEF Removing, Duping, Undescribed
<1>5. CallsOK'
  BY <1>1, <1>2, <1>3, Values DEF Inv, CallsOK, CallOK, Opening, InClose, Duping, StepOf, table, FileTableTypeOK
<1>6. ForksOK'
  BY <1>1, <1>3, SameForks DEF Forking, table
<1>7. Fresh'
  BY <1>1, <1>2, <1>3, <1>4 DEF Inv, Fresh, FreshFor, CallsOK, CallOK, Opening, StepOf, table
<1>8. Closing'
  BY <1>1, <1>2, <1>3, <1>4 DEF Inv, Closing, CloseOK, InClose, InOpen, Raises, StepOf, table
<1>9. OpenWhenHeld' /\ FreeSlotClosed'
  BY <1>1, <1>2, <1>3, <1>4 DEF Inv, OpenWhenHeld, FreeSlotClosed, Described, StepOf, table
<1> QED
  BY <1>2, <1>4, <1>5, <1>6, <1>7, <1>8, <1>9 DEF Inv

(* sys_exit has closed every descriptor.                                    *)
LEMMA ExitEndInv ==
  ASSUME Inv, NEW t \in Task, ExitEnd(t)
  PROVE  Inv'
<1>1. /\ pc[t] = "exit" /\ pc' = [pc EXCEPT ![t] = "none"]
      /\ exiting' = [exiting EXCEPT ![t] = FALSE]
      /\ \A i \in Fd : fds[t][i] = NoFile
      /\ UNCHANGED <<table, file, fd, loaded, kid>>
  BY DEF ExitEnd, Goto, Returns, CloseFd, FreeFds
<1>2. FileTableTypeOK /\ FileTableTypeOK'
  BY <1>1, FileTableAssumption DEF Inv, FileTableTypeOK, Labels, table, Fd, NoFd
<1>3. /\ StepOf(t)
      /\ pc'[t] = "none" /\ exiting'[t] = FALSE
  BY <1>1, <1>2 DEF FileTableTypeOK, StepOf
<1>4. /\ \A u \in Task, i \in Fd, f \in File : Holds(u, i, f)' <=> Holds(u, i, f)
      /\ Counted' /\ HeldIsCounted' /\ DevicesCounted'
  BY <1>1, <1>3, SameTable DEF Removing, Duping, Undescribed
<1>5. CallsOK'
  BY <1>1, <1>2, <1>3, Values DEF Inv, CallsOK, CallOK, Opening, InClose, Duping, StepOf, table, FileTableTypeOK
<1>6. ForksOK'
  <2> SUFFICES ASSUME NEW u \in Task
               PROVE  ForkOK(u)'
    BY DEF ForksOK
  <2>1. ForkOK(u) /\ ForkOK(t)
    BY DEF Inv, ForksOK
  <2>2. Forking(u) => kid[u] \in Task /\ kid[u] # t
    BY <1>1, <1>2, <2>1, Values DEF ForkOK, FileTableTypeOK
  <2> QED
    BY <1>1, <1>3, <2>1, <2>2 DEF ForkOK, Forking, StepOf, table
<1>7. Fresh'
  BY <1>1, <1>2, <1>3, <1>4 DEF Inv, Fresh, FreshFor, CallsOK, CallOK, Opening, StepOf, table
<1>8. Closing'
  BY <1>1, <1>2, <1>3, <1>4 DEF Inv, Closing, CloseOK, InClose, InOpen, Raises, StepOf, table
<1>9. OpenWhenHeld' /\ FreeSlotClosed'
  BY <1>1, <1>2, <1>3, <1>4 DEF Inv, OpenWhenHeld, FreeSlotClosed, Described, StepOf, table
<1> QED
  BY <1>2, <1>4, <1>5, <1>6, <1>7, <1>8, <1>9 DEF Inv

-----------------------------------------------------------------------------
\* sys_read and the like, sys_dup and sys_fork.

(* A call looks its file up and enters the file system.                     *)
LEMMA UseStartInv ==
  ASSUME Inv, NEW t \in Task, UseStart(t)
  PROVE  Inv'
<1>1. PICK i \in Fd \ FreeFds(t) :
        /\ pc[t] = "user" /\ pc' = [pc EXCEPT ![t] = "use_op"]
        /\ file' = [file EXCEPT ![t] = fds[t][i]]
        /\ UNCHANGED <<table, fd, loaded, exiting, kid>>
  BY DEF UseStart, Goto
<1>2. FileTableTypeOK /\ i \in Fd /\ fds[t][i] \in File
  BY <1>1 DEF Inv, FileTableTypeOK, FreeFds
<1>3. FileTableTypeOK'
  BY <1>1, <1>2, FileTableAssumption DEF FileTableTypeOK, Labels, table
<1>4. /\ StepOf(t)
      /\ pc'[t] = "use_op" /\ file'[t] = fds[t][i]
  BY <1>1, <1>2 DEF FileTableTypeOK, StepOf
<1>5. /\ \A u \in Task, j \in Fd, g \in File : Holds(u, j, g)' <=> Holds(u, j, g)
      /\ Counted' /\ HeldIsCounted' /\ DevicesCounted'
  BY <1>1, <1>4, SameTable DEF Removing, Duping, Undescribed
<1>6. CallsOK'
  BY <1>1, <1>2, <1>4 DEF Inv, CallsOK, CallOK, Opening, InClose, Duping, StepOf, table
<1>7. ForksOK'
  BY <1>1, <1>4, SameForks DEF Forking, table
<1>8. Fresh' /\ Closing'
  BY <1>1, <1>4, <1>5 DEF Inv, Fresh, FreshFor, CallsOK, CallOK, Opening, StepOf, table,
                          Closing, CloseOK, InClose, InOpen, Raises
<1>9. OpenWhenHeld' /\ FreeSlotClosed'
  BY <1>1, <1>4, <1>5 DEF Inv, OpenWhenHeld, FreeSlotClosed, Described, StepOf, table
<1> QED
  BY <1>3, <1>5, <1>6, <1>7, <1>8, <1>9 DEF Inv

(* The call returns.                                                        *)
LEMMA UseEndInv ==
  ASSUME Inv, NEW t \in Task, UseEnd(t)
  PROVE  Inv'
<1>1. /\ pc[t] = "use_op" /\ pc' = [pc EXCEPT ![t] = "user"]
      /\ file' = [file EXCEPT ![t] = NoFile] /\ fd' = [fd EXCEPT ![t] = NoFd]
      /\ loaded' = [loaded EXCEPT ![t] = 0]
      /\ UNCHANGED <<table, exiting, kid>>
  BY DEF UseEnd, Goto, Returns, CloseFd
<1>2. FileTableTypeOK /\ FileTableTypeOK'
  BY <1>1, FileTableAssumption DEF Inv, FileTableTypeOK, Labels, table, Fd, NoFd
<1>3. /\ StepOf(t)
      /\ pc'[t] = "user"
  BY <1>1, <1>2 DEF FileTableTypeOK, StepOf
<1>4. /\ \A u \in Task, i \in Fd, f \in File : Holds(u, i, f)' <=> Holds(u, i, f)
      /\ Counted' /\ HeldIsCounted' /\ DevicesCounted'
  BY <1>1, <1>3, SameTable DEF Removing, Duping, Undescribed
<1>5. CallsOK'
  BY <1>1, <1>2, <1>3, Values DEF Inv, CallsOK, CallOK, Opening, InClose, Duping, StepOf, table, FileTableTypeOK
<1>6. ForksOK'
  BY <1>1, <1>3, SameForks DEF Forking, table
<1>7. Fresh'
  BY <1>1, <1>2, <1>3, <1>4 DEF Inv, Fresh, FreshFor, CallsOK, CallOK, Opening, StepOf, table
<1>8. Closing'
  BY <1>1, <1>2, <1>3, <1>4 DEF Inv, Closing, CloseOK, InClose, InOpen, Raises, StepOf, table
<1>9. OpenWhenHeld' /\ FreeSlotClosed'
  BY <1>1, <1>2, <1>3, <1>4 DEF Inv, OpenWhenHeld, FreeSlotClosed, Described, StepOf, table
<1> QED
  BY <1>2, <1>4, <1>5, <1>6, <1>7, <1>8, <1>9 DEF Inv

(* sys_dup: the new descriptor holds the file before it is counted.         *)
LEMMA DupFdInv ==
  ASSUME Inv, ClosesApart, NEW t \in Task, DupFd(t)
  PROVE  Inv'
<1> DEFINE a == AllocFd(t)
<1>1. PICK i \in Fd :
        /\ fds[t][i] # NoFile /\ a # NoFd
        /\ \A u \in Task \ {t} : ~ (InClose(u) /\ file[u] = fds[t][i])
        /\ pc[t] = "user" /\ pc' = [pc EXCEPT ![t] = "dup_lock"]
        /\ fds' = [fds EXCEPT ![t][a] = fds[t][i]]
        /\ file' = [file EXCEPT ![t] = fds[t][i]]
        /\ UNCHANGED <<ref, on, openCount, opened, fd, loaded, exiting, kid>>
  BY DEF DupFd, Goto, MayRaise
<1>2. FileTableTypeOK /\ fds[t][i] \in File
  BY <1>1 DEF Inv, FileTableTypeOK
<1>3. PICK n \in Fd : n = a /\ fds[t][n] = NoFile
  BY <1>1, AllocFdFree
<1> HIDE DEF a
<1>4. PICK g \in File : g = fds[t][i]
  BY <1>2
<1>5. FileTableTypeOK'
  BY <1>1, <1>2, <1>3 DEF FileTableTypeOK, Labels
<1>6. /\ StepOf(t)
      /\ pc'[t] = "dup_lock" /\ file'[t] = g
      /\ \A u \in Task \ {t} : fds'[u] = fds[u]
      /\ \A k \in Fd : fds'[t][k] = IF k = n THEN g ELSE fds[t][k]
  BY <1>1, <1>2, <1>3, <1>4 DEF FileTableTypeOK, StepOf
<1>7. /\ \A u \in Task, k \in Fd, f \in File :
           Holds(u, k, f)' <=> Holds(u, k, f) \/ (u = t /\ k = n /\ f = g)
      /\ ~ Holds(t, n, g) /\ Holds(t, i, g)
  BY <1>1, <1>3, <1>4, <1>6, Values DEF Holds, Removing, StepOf
<1>8. ref[g] > 0 /\ g \in opened
  BY <1>1, <1>7 DEF Inv, HeldIsCounted, OpenWhenHeld, Described
<1>9. Counted'
  <2> SUFFICES ASSUME NEW f \in File
               PROVE  (ref[f] + Cardinality(Dupers(f)) = Cardinality(Holders(f)) + Cardinality(Openers(f)))'
    BY DEF Counted
  <2>1. ref[f] + Cardinality(Dupers(f)) = Cardinality(Holders(f)) + Cardinality(Openers(f))
    BY DEF Inv, Counted
  <2>2. Openers(f)' = Openers(f)
    BY <1>1, <1>6 DEF Openers, Undescribed, StepOf
  <2>3. CASE f = g
    <3>1. Holders(f)' = Holders(f) \cup {<<t, n>>} /\ <<t, n>> \notin Holders(f)
      BY <1>7, <2>3 DEF Holders
    <3>2. Dupers(f)' = Dupers(f) \cup {t} /\ t \notin Dupers(f)
      BY <1>1, <1>6, <2>3 DEF Dupers, Duping, StepOf
    <3>3. /\ Cardinality(Holders(f))' = Cardinality(Holders(f)) + 1
          /\ Cardinality(Dupers(f))' = Cardinality(Dupers(f)) + 1
      BY <3>1, <3>2, Finite, OneMore
    <3>4. ref[f] \in Nat
      BY <1>2 DEF FileTableTypeOK
    <3> QED
      BY <1>1, <2>1, <2>2, <3>3, <3>4, Counts
  <2>4. CASE f # g
    <3>1. Holders(f)' = Holders(f)
      BY <1>7, <2>4 DEF Holders
    <3>2. Dupers(f)' = Dupers(f)
      BY <1>1, <1>6, <2>4 DEF Dupers, Duping, StepOf
    <3> QED
      BY <1>1, <2>1, <2>2, <3>1, <3>2
  <2> QED
    BY <2>3, <2>4
<1>10. HeldIsCounted'
  BY <1>1, <1>7, <1>8 DEF Inv, HeldIsCounted
<1>11. CallsOK'
  BY <1>1, <1>6 DEF Inv, CallsOK, CallOK, Opening, InClose, Duping, StepOf
<1>12. ForksOK'
  BY <1>1, <1>6, SameForks DEF Forking
<1>13. Fresh'
  <2> SUFFICES ASSUME NEW u \in Task, Opening(u)'
               PROVE  FreshFor(u)'
    BY DEF Fresh, FreshFor
  <2>1. u # t /\ Opening(u) /\ FreshFor(u) /\ file[u] \in File
    BY <1>6 DEF Inv, Fresh, CallsOK, CallOK, Opening, StepOf
  <2>2. file[u] # g
    BY <1>8, <2>1 DEF FreshFor
  <2> QED
    BY <1>1, <1>6, <1>7, <2>1, <2>2 DEF FreshFor, Opening, StepOf
<1>14. Closing'
  <2> SUFFICES ASSUME NEW u \in Task, InClose(u)'
               PROVE  CloseOK(u)'
    BY DEF Closing, CloseOK
  <2>1. u # t /\ InClose(u) /\ CloseOK(u) /\ file[u] \in File \ {g}
    BY <1>1, <1>4, <1>6 DEF Inv, Closing, CallsOK, CallOK, InClose, StepOf
  <2> QED
    BY <1>1, <1>6, <2>1 DEF CloseOK, InClose, InOpen, Raises, StepOf
<1>15. OpenWhenHeld'
  BY <1>1, <1>6, <1>7, <1>8 DEF Inv, OpenWhenHeld, Described, StepOf
<1>16. FreeSlotClosed' /\ DevicesCounted'
  BY <1>1, <1>6 DEF Inv, FreeSlotClosed, DevicesCounted, StepOf
<1> QED
  BY <1>5, <1>9, <1>10, <1>11, <1>12, <1>13, <1>14, <1>15, <1>16 DEF Inv

(* sys_dup waits for file_alloc_mutex.                                      *)
LEMMA DupLockInv ==
  ASSUME Inv, NEW t \in Task, DupLock(t)
  PROVE  Inv'
<1>1. /\ pc[t] = "dup_lock" /\ pc' = [pc EXCEPT ![t] = "dup_inc"]
      /\ UNCHANGED <<table, file, fd, loaded, exiting, kid>>
  BY DEF DupLock, Goto, Returns, CloseFd
<1>2. FileTableTypeOK /\ FileTableTypeOK'
  BY <1>1, FileTableAssumption DEF Inv, FileTableTypeOK, Labels, table, Fd, NoFd
<1>3. /\ StepOf(t)
      /\ pc'[t] = "dup_inc"
  BY <1>1, <1>2 DEF FileTableTypeOK, StepOf
<1>4. /\ \A u \in Task, i \in Fd, f \in File : Holds(u, i, f)' <=> Holds(u, i, f)
      /\ Counted' /\ HeldIsCounted' /\ DevicesCounted'
  BY <1>1, <1>3, SameTable DEF Removing, Duping, Undescribed
<1>5. CallsOK'
  BY <1>1, <1>2, <1>3, Values DEF Inv, CallsOK, CallOK, Opening, InClose, Duping, StepOf, table, FileTableTypeOK
<1>6. ForksOK'
  BY <1>1, <1>3, SameForks DEF Forking, table
<1>7. Fresh'
  BY <1>1, <1>2, <1>3, <1>4 DEF Inv, Fresh, FreshFor, CallsOK, CallOK, Opening, StepOf, table
<1>8. Closing'
  BY <1>1, <1>2, <1>3, <1>4 DEF Inv, Closing, CloseOK, InClose, InOpen, Raises, StepOf, table
<1>9. OpenWhenHeld' /\ FreeSlotClosed'
  BY <1>1, <1>2, <1>3, <1>4 DEF Inv, OpenWhenHeld, FreeSlotClosed, Described, StepOf, table
<1> QED
  BY <1>2, <1>4, <1>5, <1>6, <1>7, <1>8, <1>9 DEF Inv

(* sys_dup counts the new descriptor.                                       *)
LEMMA DupIncInv ==
  ASSUME Inv, NEW t \in Task, DupInc(t)
  PROVE  Inv'
<1>1. /\ pc[t] = "dup_inc" /\ pc' = [pc EXCEPT ![t] = "user"]
      /\ ref' = [ref EXCEPT ![file[t]] = @ + 1]
      /\ file' = [file EXCEPT ![t] = NoFile]
      /\ fd' = [fd EXCEPT ![t] = NoFd]
      /\ loaded' = [loaded EXCEPT ![t] = 0]
      /\ UNCHANGED <<on, openCount, opened, fds, exiting, kid>>
  BY DEF DupInc, Goto, Returns
<1>2. FileTableTypeOK /\ file[t] \in File /\ \E i \in Fd : fds[t][i] = file[t]
  BY <1>1 DEF Inv, CallsOK, CallOK, Duping
<1>3. PICK g \in File : g = file[t]
  BY <1>2
<1>4. \E i \in Fd : Holds(t, i, g)
  BY <1>1, <1>2, <1>3 DEF Holds, Removing
<1>5. /\ ref[g] \in Nat /\ ref'[g] = ref[g] + 1
      /\ \A f \in File \ {g} : ref'[f] = ref[f]
  BY <1>1, <1>2, <1>3 DEF FileTableTypeOK
<1>6. FileTableTypeOK'
  BY <1>1, <1>2, <1>3, <1>5 DEF FileTableTypeOK, Labels
<1>7. StepOf(t) /\ pc'[t] = "user"
  BY <1>1, <1>2 DEF FileTableTypeOK, StepOf
<1>8. \A u \in Task, i \in Fd, f \in File : Holds(u, i, f)' <=> Holds(u, i, f)
  BY <1>1, <1>7 DEF Holds, Removing, StepOf
<1>9. Counted'
  <2> SUFFICES ASSUME NEW f \in File
               PROVE  (ref[f] + Cardinality(Dupers(f)) = Cardinality(Holders(f)) + Cardinality(Openers(f)))'
    BY DEF Counted
  <2>1. ref[f] + Cardinality(Dupers(f)) = Cardinality(Holders(f)) + Cardinality(Openers(f))
    BY DEF Inv, Counted
  <2>2. Openers(f)' = Openers(f) /\ Holders(f)' = Holders(f)
    BY <1>1, <1>7, <1>8 DEF Openers, Undescribed, Holders, StepOf
  <2>3. CASE f = g
    <3>1. Dupers(f)' = Dupers(f) \ {t} /\ t \in Dupers(f)
      BY <1>1, <1>3, <1>7, <2>3 DEF Dupers, Duping, StepOf
    <3>2. Cardinality(Dupers(f))' = Cardinality(Dupers(f)) - 1
      BY <3>1, Finite, OneLess
    <3> QED
      BY <1>5, <2>1, <2>2, <2>3, <3>2, Counts
  <2>4. CASE f # g
    <3>1. Dupers(f)' = Dupers(f)
      BY <1>1, <1>3, <1>7, <2>4 DEF Dupers, Duping, StepOf
    <3> QED
      BY <1>5, <2>1, <2>2, <2>4, <3>1
  <2> QED
    BY <2>3, <2>4
<1>10. HeldIsCounted'
  BY <1>5, <1>8 DEF Inv, HeldIsCounted
<1>11. CallsOK'
  BY <1>1, <1>7 DEF Inv, CallsOK, CallOK, Opening, InClose, Duping, StepOf
<1>12. ForksOK'
  BY <1>1, <1>7, SameForks DEF Forking
<1>13. Fresh'
  <2> SUFFICES ASSUME NEW u \in Task, Opening(u)'
               PROVE  FreshFor(u)'
    BY DEF Fresh, FreshFor
  <2>1. u # t /\ Opening(u) /\ FreshFor(u) /\ file[u] \in File
    BY <1>7 DEF Inv, Fresh, CallsOK, CallOK, Opening, StepOf
  <2>2. file[u] # g
    BY <1>4, <2>1 DEF FreshFor
  <2> QED
    BY <1>1, <1>5, <1>7, <1>8, <2>1, <2>2 DEF FreshFor, Opening, StepOf
<1>14. Closing'
  <2> SUFFICES ASSUME NEW u \in Task, InClose(u)'
               PROVE  CloseOK(u)'
    BY DEF Closing, CloseOK
  <2>1. u # t /\ InClose(u) /\ CloseOK(u) /\ file[u] \in File
    BY <1>7 DEF Inv, Closing, CallsOK, CallOK, InClose, StepOf
  <2>2. file[u] # g
    BY <1>1, <1>3, <2>1 DEF CloseOK, Raises
  <2> QED
    BY <1>1, <1>5, <1>7, <2>1, <2>2 DEF CloseOK, InClose, InOpen, Raises, StepOf
<1>15. OpenWhenHeld'
  BY <1>1, <1>7, <1>8 DEF Inv, OpenWhenHeld, Described, StepOf
<1>16. FreeSlotClosed' /\ DevicesCounted'
  BY <1>1, <1>5, <1>7 DEF Inv, FreeSlotClosed, DevicesCounted, StepOf
<1> QED
  BY <1>6, <1>9, <1>10, <1>11, <1>12, <1>13, <1>14, <1>15, <1>16 DEF Inv

(* sys_fork begins: no file of the parent is being closed.                  *)
LEMMA ForkStartInv ==
  ASSUME Inv, ClosesApart, NEW t \in Task, ForkStart(t)
  PROVE  Inv'
<1>1. PICK k \in Task :
        /\ pc[k] = "none" /\ \A w \in Task : kid[w] # k
        /\ pc[t] = "user" /\ pc' = [pc EXCEPT ![t] = "fork_file"]
        /\ kid' = [kid EXCEPT ![t] = k]
        /\ fd' = [fd EXCEPT ![t] = 0]
        /\ \A i \in Fd : fds[t][i] # NoFile =>
             \A u \in Task \ {t} : ~ (InClose(u) /\ file[u] = fds[t][i])
        /\ UNCHANGED <<table, file, loaded, exiting>>
  BY DEF ForkStart, Goto, MayRaise, FreeFds
<1>2. FileTableTypeOK
  BY DEF Inv
<1>3. FileTableTypeOK'
  BY <1>1, <1>2, Values DEF FileTableTypeOK, Labels, table
<1>4. /\ \A u \in Task \ {t} :
           /\ pc'[u] = pc[u] /\ file'[u] = file[u] /\ fd'[u] = fd[u]
           /\ loaded'[u] = loaded[u] /\ exiting'[u] = exiting[u] /\ kid'[u] = kid[u]
      /\ pc'[t] = "fork_file" /\ fd'[t] = 0 /\ kid'[t] = k
  BY <1>1, <1>2 DEF FileTableTypeOK
<1>5. StepOf(t)
  BY <1>4 DEF StepOf
<1>6. /\ \A u \in Task, j \in Fd, g \in File : Holds(u, j, g)' <=> Holds(u, j, g)
      /\ Counted' /\ HeldIsCounted' /\ DevicesCounted'
  BY <1>1, <1>4, <1>5, SameTable DEF Removing, Duping, Undescribed
<1>7. CallsOK'
  BY <1>1, <1>4 DEF Inv, CallsOK, CallOK, Opening, InClose, Duping, table
<1>8. ForksOK'
  <2> SUFFICES ASSUME NEW u \in Task
               PROVE  ForkOK(u)'
    BY DEF ForksOK
  <2>1. ForkOK(u) /\ ForkOK(k) /\ ForkOK(t)
    BY DEF Inv, ForksOK
  <2>2. Forking(u) => kid[u] \in Task /\ kid[u] # t
    BY <1>1, <1>2, <2>1, Values DEF ForkOK, FileTableTypeOK
  <2>5. kid[t] = NoTask
    BY <1>1, <2>1 DEF ForkOK, Forking
  <2>3. CASE u = t
    BY <1>1, <1>4, <2>1, <2>3, Values DEF ForkOK, Forking, table
  <2>4. CASE u # t
    BY <1>1, <1>4, <2>1, <2>2, <2>4, <2>5, Values DEF ForkOK, Forking, table
  <2> QED
    BY <2>3, <2>4
<1>9. Fresh'
  BY <1>1, <1>4, <1>6 DEF Inv, Fresh, FreshFor, CallsOK, CallOK, Opening, table
<1>10. Closing'
  BY <1>1, <1>4, <1>6, Values DEF Inv, Closing, CloseOK, CallsOK, CallOK, InClose, InOpen, Raises, table
<1>11. OpenWhenHeld' /\ FreeSlotClosed'
  BY <1>1, <1>4, <1>6 DEF Inv, OpenWhenHeld, FreeSlotClosed, Described, table
<1> QED
  BY <1>3, <1>6, <1>7, <1>8, <1>9, <1>10, <1>11 DEF Inv

(* copy_opened_files passes over a free descriptor.                         *)
LEMMA ForkSkipInv ==
  ASSUME Inv, NEW t \in Task, ForkSkip(t)
  PROVE  Inv'
<1>1. /\ pc[t] = "fork_file" /\ pc' = [pc EXCEPT ![t] = "fork_file"]
      /\ fd[t] < NrFd
      /\ fd' = [fd EXCEPT ![t] = @ + 1]
      /\ UNCHANGED <<table, file, loaded, exiting, kid>>
  BY DEF ForkSkip, Goto
<1>2. FileTableTypeOK /\ fd[t] \in 0..NrFd
  BY <1>1 DEF Inv, ForksOK, ForkOK, Forking
<1>3. fd[t] + 1 \in 0..NrFd
  BY <1>1, <1>2, Values
<1>4. FileTableTypeOK' /\ pc' = pc
  BY <1>1, <1>2, <1>3 DEF FileTableTypeOK, Labels, table
<1>5. /\ \A u \in Task \ {t} : fd'[u] = fd[u]
      /\ fd'[t] = fd[t] + 1 /\ StepOf(t)
  BY <1>1, <1>2, <1>4 DEF FileTableTypeOK, StepOf
<1>6. /\ \A u \in Task, j \in Fd, g \in File : Holds(u, j, g)' <=> Holds(u, j, g)
      /\ Counted' /\ HeldIsCounted' /\ DevicesCounted'
  BY <1>1, <1>4, <1>5, SameTable DEF Removing, Duping, Undescribed
<1>7. CallsOK'
  BY <1>1, <1>4, <1>5 DEF Inv, CallsOK, CallOK, Opening, InClose, Duping, table
<1>8. ForksOK'
  <2> SUFFICES ASSUME NEW u \in Task
               PROVE  ForkOK(u)'
    BY DEF ForksOK
  <2>1. ForkOK(u)
    BY DEF Inv, ForksOK
  <2>2. \A i \in Fd : fd[t] + 1 <= i => fd[t] <= i
    BY <1>2, Values DEF Fd
  <2> QED
    BY <1>1, <1>3, <1>4, <1>5, <2>1, <2>2 DEF ForkOK, Forking, table
<1>9. Fresh'
  BY <1>1, <1>4, <1>5, <1>6 DEF Inv, Fresh, FreshFor, CallsOK, CallOK, Opening, table
<1>10. Closing'
  BY <1>1, <1>4, <1>5 DEF Inv, Closing, CloseOK, InClose, InOpen, Raises, table
<1>11. OpenWhenHeld' /\ FreeSlotClosed'
  BY <1>1, <1>4, <1>5, <1>6 DEF Inv, OpenWhenHeld, FreeSlotClosed, Described, table
<1> QED
  BY <1>4, <1>6, <1>7, <1>8, <1>9, <1>10, <1>11 DEF Inv

(* copy_opened_files waits for file_alloc_mutex.                            *)
LEMMA ForkLockInv ==
  ASSUME Inv, NEW t \in Task, ForkLock(t)
  PROVE  Inv'
<1>1. /\ pc[t] = "fork_file" /\ pc' = [pc EXCEPT ![t] = "fork_inc"]
      /\ UNCHANGED <<table, file, fd, loaded, exiting, kid>>
      /\ fd[t] < NrFd /\ fds[t][fd[t]] # NoFile
  BY DEF ForkLock, Goto, Returns, CloseFd
<1>2. FileTableTypeOK /\ FileTableTypeOK'
  BY <1>1, FileTableAssumption DEF Inv, FileTableTypeOK, Labels, table, Fd, NoFd
<1>3. /\ StepOf(t)
      /\ pc'[t] = "fork_inc"
  BY <1>1, <1>2 DEF FileTableTypeOK, StepOf
<1>4. /\ \A u \in Task, i \in Fd, f \in File : Holds(u, i, f)' <=> Holds(u, i, f)
      /\ Counted' /\ HeldIsCounted' /\ DevicesCounted'
  BY <1>1, <1>3, SameTable DEF Removing, Duping, Undescribed
<1>5. CallsOK'
  BY <1>1, <1>2, <1>3, Values DEF Inv, CallsOK, CallOK, Opening, InClose, Duping, StepOf, table, FileTableTypeOK
<1>6. ForksOK'
  <2> SUFFICES ASSUME NEW u \in Task
               PROVE  ForkOK(u)'
    BY DEF ForksOK
  <2>1. ForkOK(u) /\ ForkOK(t)
    BY DEF Inv, ForksOK
  <2>2. \A w \in Task : Forking(w)' <=> Forking(w)
    BY <1>1, <1>3 DEF Forking, StepOf
  <2>3. fd[t] \in Fd
    BY <1>1, <2>1, Values DEF ForkOK, Forking, Fd
  <2>4. Forking(u) => kid[u] \in Task /\ kid[u] # t
    BY <1>1, <1>2, <2>1, Values DEF ForkOK, FileTableTypeOK
  <2> QED
    BY <1>1, <1>3, <2>1, <2>2, <2>3, <2>4 DEF ForkOK, Forking, StepOf, table
<1>7. Fresh'
  BY <1>1, <1>2, <1>3, <1>4 DEF Inv, Fresh, FreshFor, CallsOK, CallOK, Opening, StepOf, table
<1>8. Closing'
  BY <1>1, <1>2, <1>3, <1>4 DEF Inv, Closing, CloseOK, InClose, InOpen, Raises, StepOf, table
<1>9. OpenWhenHeld' /\ FreeSlotClosed'
  BY <1>1, <1>2, <1>3, <1>4 DEF Inv, OpenWhenHeld, FreeSlotClosed, Described, StepOf, table
<1> QED
  BY <1>2, <1>4, <1>5, <1>6, <1>7, <1>8, <1>9 DEF Inv

(* The file is counted and the child's descriptor set.                      *)
LEMMA ForkIncInv ==
  ASSUME Inv, NEW t \in Task, ForkInc(t)
  PROVE  Inv'
<1>1. /\ pc[t] = "fork_inc" /\ pc' = [pc EXCEPT ![t] = "fork_file"]
      /\ ref' = [ref EXCEPT ![fds[t][fd[t]]] = @ + 1]
      /\ fds' = [fds EXCEPT ![kid[t]][fd[t]] = fds[t][fd[t]]]
      /\ fd' = [fd EXCEPT ![t] = @ + 1]
      /\ UNCHANGED <<on, openCount, opened, file, loaded, exiting, kid>>
  BY DEF ForkInc, Goto
<1>2. FileTableTypeOK /\ ForkOK(t) /\ Forking(t)
  BY <1>1 DEF Inv, ForksOK, Forking
<1>3. PICK j \in Fd : j = fd[t]
  BY <1>1, <1>2 DEF ForkOK
<1>4. PICK g \in File : g = fds[t][j]
  BY <1>1, <1>2, <1>3 DEF ForkOK, FileTableTypeOK
<1>5. PICK k \in Task : k = kid[t]
  BY <1>2 DEF ForkOK, FileTableTypeOK
<1>6. /\ pc[k] = "none" /\ k # t /\ \A u \in Task : kid[u] = k => u = t
      /\ fds[k][j] = NoFile
      /\ \A i \in Fd : j <= i => fds[k][i] = NoFile
  BY <1>1, <1>2, <1>3, <1>5 DEF ForkOK, Fd
<1>7. /\ ref[g] \in Nat /\ ref'[g] = ref[g] + 1
      /\ \A f \in File \ {g} : ref'[f] = ref[f]
  BY <1>1, <1>2, <1>3, <1>4 DEF FileTableTypeOK
<1>8. j + 1 \in 0..NrFd /\ fd'[t] = j + 1
  BY <1>1, <1>2, <1>3, Values DEF FileTableTypeOK, Fd
<1>9. FileTableTypeOK'
  BY <1>1, <1>2, <1>3, <1>4, <1>5, <1>7, <1>8 DEF FileTableTypeOK, Labels
<1>10. /\ StepOf(t) /\ pc'[t] = "fork_file"
       /\ \A u \in Task \ {k} : fds'[u] = fds[u]
       /\ \A i \in Fd : fds'[k][i] = IF i = j THEN g ELSE fds[k][i]
  BY <1>1, <1>2, <1>3, <1>4, <1>5 DEF FileTableTypeOK, StepOf
<1>11. /\ \A u \in Task, i \in Fd, f \in File :
            Holds(u, i, f)' <=> Holds(u, i, f) \/ (u = k /\ i = j /\ f = g)
       /\ ~ Holds(k, j, g) /\ Holds(t, j, g)
  BY <1>1, <1>4, <1>6, <1>10, Values DEF Holds, Removing, StepOf
<1>12. g \in opened
  BY <1>1, <1>11 DEF Inv, OpenWhenHeld, Described
<1>13. Counted'
  <2> SUFFICES ASSUME NEW f \in File
               PROVE  (ref[f] + Cardinality(Dupers(f)) = Cardinality(Holders(f)) + Cardinality(Openers(f)))'
    BY DEF Counted
  <2>1. ref[f] + Cardinality(Dupers(f)) = Cardinality(Holders(f)) + Cardinality(Openers(f))
    BY DEF Inv, Counted
  <2>2. Openers(f)' = Openers(f) /\ Dupers(f)' = Dupers(f)
    BY <1>1, <1>10 DEF Openers, Undescribed, Dupers, Duping, StepOf
  <2>3. CASE f = g
    <3>1. Holders(f)' = Holders(f) \cup {<<k, j>>} /\ <<k, j>> \notin Holders(f)
      BY <1>11, <2>3 DEF Holders
    <3>2. Cardinality(Holders(f))' = Cardinality(Holders(f)) + 1
      BY <3>1, Finite, OneMore
    <3> QED
      BY <1>7, <2>1, <2>2, <2>3, <3>2, Counts
  <2>4. CASE f # g
    <3>1. Holders(f)' = Holders(f)
      BY <1>11, <2>4 DEF Holders
    <3> QED
      BY <1>7, <2>1, <2>2, <2>4, <3>1
  <2> QED
    BY <2>3, <2>4
<1>14. HeldIsCounted'
  BY <1>7, <1>11 DEF Inv, HeldIsCounted
<1>15. CallsOK'
  BY <1>1, <1>6, <1>10 DEF Inv, CallsOK, CallOK, Opening, InClose, Duping, StepOf
<1>16. ForksOK'
  <2> SUFFICES ASSUME NEW u \in Task
               PROVE  ForkOK(u)'
    BY DEF ForksOK
  <2>1. ForkOK(u)
    BY DEF Inv, ForksOK
  <2>2. Forking(u)' <=> Forking(u)
    BY <1>1, <1>10 DEF Forking, StepOf
  <2>3. CASE u = t
    <3>1. \A i \in Fd : j + 1 <= i => i # j /\ j <= i
      BY DEF Fd
    <3> QED
      BY <1>1, <1>5, <1>6, <1>8, <1>10, <2>1, <2>2, <2>3, <3>1 DEF ForkOK, Forking, StepOf
  <2>4. CASE u # t
    <3>1. Forking(u) => kid[u] \in Task /\ kid[u] # t /\ kid[u] # k
      BY <1>1, <1>2, <1>6, <2>1, <2>4 DEF ForkOK, FileTableTypeOK
    <3> QED
      BY <1>1, <1>5, <1>6, <1>10, <2>1, <2>2, <2>4, <3>1 DEF ForkOK, Forking, StepOf
  <2> QED
    BY <2>3, <2>4
<1>17. Fresh'
  <2> SUFFICES ASSUME NEW u \in Task, Opening(u)'
               PROVE  FreshFor(u)'
    BY DEF Fresh, FreshFor
  <2>1. u # t /\ Opening(u) /\ FreshFor(u) /\ file[u] \in File
    BY <1>10 DEF Inv, Fresh, CallsOK, CallOK, Opening, StepOf
  <2>2. file[u] # g
    BY <1>12, <2>1 DEF FreshFor
  <2> QED
    BY <1>1, <1>7, <1>10, <1>11, <2>1, <2>2 DEF FreshFor, Opening, StepOf
<1>18. Closing'
  <2> SUFFICES ASSUME NEW u \in Task, InClose(u)'
               PROVE  CloseOK(u)'
    BY DEF Closing, CloseOK
  <2>1. u # t /\ InClose(u) /\ CloseOK(u) /\ file[u] \in File
    BY <1>10 DEF Inv, Closing, CallsOK, CallOK, InClose, StepOf
  <2>2. file[u] # g
    BY <1>1, <1>4, <2>1 DEF CloseOK, Raises
  <2>3. \A w \in Task : Raises(w, file[u])' => Raises(w, file[u])
    BY <1>1, <1>6, <1>10, <2>1 DEF Raises, StepOf
  <2> QED
    BY <1>1, <1>7, <1>10, <2>1, <2>2, <2>3 DEF CloseOK, InClose, InOpen, StepOf
<1>19. OpenWhenHeld'
  BY <1>1, <1>10, <1>11, <1>12 DEF Inv, OpenWhenHeld, Described, StepOf
<1>20. FreeSlotClosed' /\ DevicesCounted'
  BY <1>1, <1>7, <1>10 DEF Inv, FreeSlotClosed, DevicesCounted, StepOf
<1> QED
  BY <1>9, <1>13, <1>14, <1>15, <1>16, <1>17, <1>18, <1>19, <1>20 DEF Inv

(* The one step that changes the place of two processes: the child starts. *)
LEMMA ForkEndInv ==
  ASSUME Inv, NEW t \in Task, ForkEnd(t)
  PROVE  Inv'
<1> DEFINE k == kid[t]
<1>1. /\ pc[t] = "fork_file"
      /\ pc' = [pc EXCEPT ![t] = "user", ![k] = "user"]
      /\ kid' = [kid EXCEPT ![t] = NoTask]
      /\ fd' = [fd EXCEPT ![t] = NoFd]
      /\ UNCHANGED <<table, file, loaded, exiting>>
  BY DEF ForkEnd
<1>2. /\ FileTableTypeOK
      /\ k \in Task /\ pc[k] = "none" /\ k # t
      /\ \A u \in Task : kid[u] = k => u = t
  BY <1>1, Values DEF Inv, FileTableTypeOK, ForksOK, ForkOK, Forking
<1> HIDE DEF k
<1>3. FileTableTypeOK'
  BY <1>1, <1>2, Values DEF FileTableTypeOK, Labels, table, NoFd
<1>4. /\ \A u \in Task \ {t} : fd'[u] = fd[u] /\ kid'[u] = kid[u]
      /\ \A u \in Task \ {t, k} : pc'[u] = pc[u]
      /\ pc'[t] = "user" /\ pc'[k] = "user" /\ fd'[t] = NoFd /\ kid'[t] = NoTask
  BY <1>1, <1>2 DEF FileTableTypeOK
<1>5. \A u \in Task, j \in Fd, g \in File : Holds(u, j, g)' <=> Holds(u, j, g)
  BY <1>1, <1>2, <1>4 DEF Holds, Removing, table
<1>6. ASSUME NEW g \in File
      PROVE  Holders(g)' = Holders(g) /\ Dupers(g)' = Dupers(g) /\ Openers(g)' = Openers(g)
  BY <1>1, <1>2, <1>4, <1>5 DEF Holders, Dupers, Openers, Duping, Undescribed
<1>7. Counted' /\ HeldIsCounted' /\ DevicesCounted'
  BY <1>1, <1>5, <1>6 DEF Inv, Counted, HeldIsCounted, DevicesCounted, table
<1>8. CallsOK'
  <2> SUFFICES ASSUME NEW u \in Task
               PROVE  CallOK(u)'
    BY DEF CallsOK
  <2>1. CASE u \in {t, k}
    BY <1>4, <2>1 DEF CallOK, Opening, InClose, Duping
  <2>2. CASE u \notin {t, k}
    <3>1. CallOK(u)
      BY DEF Inv, CallsOK
    <3> QED
      BY <1>1, <1>4, <2>2, <3>1 DEF CallOK, Opening, InClose, Duping, table
  <2> QED
    BY <2>1, <2>2
<1>9. ForksOK'
  <2> SUFFICES ASSUME NEW u \in Task
               PROVE  ForkOK(u)'
    BY DEF ForksOK
  <2>1. ForkOK(u) /\ ForkOK(t) /\ ForkOK(k)
    BY <1>2 DEF Inv, ForksOK
  <2>2. u # t /\ Forking(u) => kid[u] \in Task /\ kid[u] # t /\ kid[u] # k
    BY <1>1, <1>2, <2>1, Values DEF ForkOK, FileTableTypeOK
  <2>3. k = kid[t]
    BY DEF k
  <2>4. CASE u = t
    BY <1>4, <2>4 DEF ForkOK, Forking
  <2>5. CASE u = k
    BY <1>1, <1>2, <1>4, <2>1, <2>5 DEF ForkOK, Forking
  <2>6. CASE u \notin {t, k}
    <3>1. \A w \in Task \ {t} : kid'[w] = kid[w] /\ fd'[w] = fd[w]
      BY <1>4
    <3>2. pc'[u] = pc[u] /\ (Forking(u)' <=> Forking(u))
      BY <1>4, <2>6 DEF Forking
    <3>3. Forking(u) => pc'[kid[u]] = pc[kid[u]] /\ \A w \in Task : kid'[w] = kid[u] => w = u
      BY <1>4, <2>1, <2>2, <2>6, Values DEF ForkOK
    <3>4. (\A w \in Task : kid'[w] # u) => \A w \in Task : kid[w] # u
      BY <1>4, <2>3, <2>6
    <3> QED
      BY <1>1, <2>1, <2>6, <3>1, <3>2, <3>3, <3>4 DEF ForkOK, table
  <2> QED
    BY <2>4, <2>5, <2>6
<1>13. \A u \in Task :
         /\ pc'[u] # pc[u] => u \in {t, k}
         /\ Opening(u)' <=> Opening(u)
         /\ Described(u)' <=> Described(u)
         /\ InClose(u)' <=> InClose(u)
         /\ InOpen(u)' <=> InOpen(u)
         /\ Opening(u) \/ Described(u) \/ InClose(u) \/ InOpen(u) =>
              pc'[u] = pc[u] /\ fd'[u] = fd[u]
         /\ pc'[u] \in {"close_fs", "close_op"} <=> pc[u] \in {"close_fs", "close_op"}
  BY <1>1, <1>2, <1>4 DEF Opening, Described, InClose, InOpen
<1>10. Fresh'
  <2> SUFFICES ASSUME NEW u \in Task, Opening(u)
               PROVE  FreshFor(u)'
    BY <1>13 DEF Fresh, FreshFor
  <2>1. FreshFor(u) /\ file[u] \in File
    BY DEF Inv, Fresh, CallsOK, CallOK
  <2> QED
    BY <1>1, <1>5, <1>13, <2>1 DEF FreshFor, table
<1>11. Closing'
  <2> SUFFICES ASSUME NEW u \in Task, InClose(u)
               PROVE  CloseOK(u)'
    BY <1>13 DEF Closing, CloseOK
  <2>1. CloseOK(u)
    BY DEF Inv, Closing
  <2>2. \A w \in Task : Raises(w, file[u])' => Raises(w, file[u])
    BY <1>1, <1>2, <1>4 DEF Raises, table
  <2> QED
    BY <1>1, <1>13, <2>1, <2>2 DEF CloseOK, table
<1>12. OpenWhenHeld' /\ FreeSlotClosed'
  <2>1. OpenWhenHeld /\ FreeSlotClosed
    BY DEF Inv
  <2>2. OpenWhenHeld'
    <3> SUFFICES ASSUME NEW u \in Task, NEW i \in Fd, NEW f \in File, Holds(u, i, f)
                 PROVE  (f \in opened \/ (Described(u) /\ fd[u] = i))'
      BY <1>5 DEF OpenWhenHeld
    <3>1. f \in opened \/ (Described(u) /\ fd[u] = i)
      BY <2>1 DEF OpenWhenHeld
    <3> QED
      BY <1>1, <1>13, <3>1 DEF table
  <2>3. FreeSlotClosed'
    BY <1>1, <1>13, <2>1 DEF FreeSlotClosed, table
  <2> QED
    BY <2>2, <2>3
<1> QED
  BY <1>3, <1>7, <1>8, <1>9, <1>10, <1>11, <1>12 DEF Inv

-----------------------------------------------------------------------------
\* The theorems.

(* At the start one process runs and no file is open. *)
LEMMA InitInv == FileTableInit => Inv
<1> SUFFICES ASSUME FileTableInit
             PROVE  Inv
  OBVIOUS
<1>1. /\ \A t \in Task : /\ pc[t] \in {"user", "none"} /\ kid[t] = NoTask
                         /\ \A i \in Fd : fds[t][i] = NoFile
      /\ opened = {} /\ \A f \in File : ref[f] = 0
      /\ \A d \in Dev : openCount[d] = 0
  BY DEF FileTableInit
<1>2. FileTableTypeOK
  <2>1. NoFd \in {NoFd} \cup 0..NrFd
    OBVIOUS
  <2> QED
    BY <2>1 DEF FileTableInit, FileTableTypeOK, Labels
<1>3. CallsOK
  BY <1>1 DEF CallsOK, CallOK, Opening, InClose, Duping
<1>4. ForksOK
  BY <1>1 DEF ForksOK, ForkOK, Forking
<1>5. \A t \in Task, i \in Fd, f \in File : ~ Holds(t, i, f)
  BY <1>1, Values DEF Holds
<1>6. Counted
  <2> SUFFICES ASSUME NEW f \in File
               PROVE  ref[f] + Cardinality(Dupers(f)) = Cardinality(Holders(f)) + Cardinality(Openers(f))
    BY DEF Counted
  <2>1. Dupers(f) = {} /\ Openers(f) = {}
    BY <1>1 DEF Dupers, Duping, Openers, Undescribed
  <2>2. Holders(f) = {}
    BY <1>5 DEF Holders
  <2> QED
    BY <1>1, <2>1, <2>2, FS_EmptySet
<1>7. HeldIsCounted /\ OpenWhenHeld
  BY <1>5 DEF HeldIsCounted, OpenWhenHeld
<1>8. Fresh /\ Closing
  BY <1>1 DEF Fresh, FreshFor, Opening, Closing, CloseOK, InClose
<1>9. FreeSlotClosed
  BY <1>1 DEF FreeSlotClosed
<1>10. DevicesCounted
  <2>1. \A d \in Dev : {f \in opened : on[f] = d} = {}
    BY <1>1
  <2> QED
    BY <1>1, <2>1, FS_EmptySet DEF DevicesCounted
<1> QED
  BY <1>2, <1>3, <1>4, <1>6, <1>7, <1>8, <1>9, <1>10 DEF Inv

(* Every step of every call keeps the invariant. *)
LEMMA NextInv ==
  ASSUME Inv, [FileTableNext]_fvars, FdZeroKept, ClosesApart
  PROVE  Inv'
<1>1. CASE FileTableNext
  <2>1. PICK t \in Task :
          Open(t) \/ Close(t) \/ Use(t) \/ Exit(t) \/ Dup(t) \/ Fork(t)
    BY <1>1 DEF FileTableNext
  <2>2. CASE Open(t)
    BY <2>2, OpenLockInv, OpenAllocInv, OpenFdInv, OpenFsInv, OpenOkInv, OpenFailsInv,
       OpenFreeInv, OpenFreedInv, OpenRemoveInv DEF Open
  <2>3. CASE Close(t)
    BY <2>3, CloseLoadInv, CloseStoreInv, CloseFsInv, CloseOpInv, CloseFreeInv,
       CloseFreedInv, CloseRemoveInv DEF Close
  <2>4. CASE Use(t)
    BY <2>4, UseStartInv, UseEndInv DEF Use
  <2>5. CASE Exit(t)
    BY <2>5, ExitStartInv, ExitLoadInv, ExitEndInv DEF Exit
  <2>6. CASE Dup(t)
    BY <2>6, DupFdInv, DupLockInv, DupIncInv DEF Dup
  <2>7. CASE Fork(t)
    BY <2>7, ForkStartInv, ForkSkipInv, ForkLockInv, ForkIncInv, ForkEndInv DEF Fork
  <2> QED
    BY <2>1, <2>2, <2>3, <2>4, <2>5, <2>6, <2>7
<1>2. CASE UNCHANGED fvars
  <2>1. UNCHANGED <<ref, on, openCount, opened, fds, pc, file, fd, loaded, exiting, kid>>
    BY <1>2 DEF fvars, table, calls
  <2>2. /\ FileTableTypeOK' /\ CallsOK' /\ ForksOK' /\ HeldIsCounted'
        /\ Fresh' /\ Closing' /\ OpenWhenHeld' /\ FreeSlotClosed' /\ DevicesCounted'
    <3>1. FileTableTypeOK' /\ CallsOK'
      BY <2>1 DEF Inv, FileTableTypeOK, CallsOK, CallOK, Opening, InClose, Duping
    <3>2. ForksOK' /\ Closing'
      BY <2>1 DEF Inv, ForksOK, ForkOK, Forking, Closing, CloseOK, InClose, InOpen, Raises
    <3>3. HeldIsCounted' /\ OpenWhenHeld'
      BY <2>1 DEF Inv, HeldIsCounted, OpenWhenHeld, Holds, Removing, Described
    <3>4. Fresh'
      BY <2>1 DEF Inv, Fresh, FreshFor, Opening, Holds, Removing
    <3>5. FreeSlotClosed' /\ DevicesCounted'
      BY <2>1 DEF Inv, FreeSlotClosed, DevicesCounted
    <3> QED
      BY <3>1, <3>2, <3>3, <3>4, <3>5
  <2>3. Counted'
    <3>1. \A f \in File : /\ Holders(f)' = Holders(f)
                          /\ Dupers(f)' = Dupers(f) /\ Openers(f)' = Openers(f)
      BY <2>1 DEF Holders, Holds, Removing, Dupers, Duping, Openers, Undescribed
    <3> QED
      BY <2>1, <3>1 DEF Inv, Counted
  <2> QED
    BY <2>2, <2>3 DEF Inv
<1> QED
  BY <1>1, <1>2

(* The invariant holds in every reachable state, for programs that keep     *)
(* their descriptor 0 and do not close, duplicate or fork a file that is    *)
(* being closed.                                                            *)
THEOREM FileTableInvAlways ==
  ASSUME FdZeroKept, ClosesApart
  PROVE  FileTableSpec => []Inv
<1>1. FileTableInit => Inv
  BY InitInv
<1>2. Inv /\ [FileTableNext]_fvars => Inv'
  BY NextInv
<1> QED
  BY <1>1, <1>2, PTL DEF FileTableSpec

(* file_t.ref never falls below zero, and the assertion in sys_close holds  *)
(* although the load and the store of the decrement are apart: nobody else  *)
(* changes the count of the file in between.                                *)
THEOREM RefStaysNatural ==
  ASSUME FdZeroKept, ClosesApart
  PROVE  FileTableSpec => []RefNeverBelowZero
<1>1. Inv => RefNeverBelowZero
  <2> SUFFICES ASSUME Inv, NEW t \in Task, pc[t] = "close_store"
               PROVE  loaded[t] > 0
    BY DEF RefNeverBelowZero, CloseAssertion, Inv
  <2>1. InClose(t)
    BY DEF InClose
  <2> QED
    BY <2>1 DEF Inv, Closing, CloseOK
<1> QED
  BY <1>1, FileTableInvAlways, PTL

(* When no call is under way ref is the number of descriptors, in all       *)
(* processes, that refer to the file: sys_open, sys_dup, sys_fork,          *)
(* sys_close and sys_exit count the same thing.                             *)
THEOREM RefCountsDescriptors ==
  ASSUME FdZeroKept, ClosesApart
  PROVE  FileTableSpec => []RefIsOpenCount
<1>1. Inv => RefIsOpenCount
  <2> SUFFICES ASSUME Inv, Quiet, NEW f \in File
               PROVE  ref[f] = Cardinality(RefersTo(f))
    BY DEF RefIsOpenCount
  <2>1. Dupers(f) = {} /\ Openers(f) = {}
    BY DEF Quiet, Dupers, Duping, Openers, Undescribed
  <2>2. Holders(f) = RefersTo(f)
    BY DEF Quiet, Holders, Holds, Removing, RefersTo
  <2>3. ref[f] + Cardinality(Dupers(f)) = Cardinality(Holders(f)) + Cardinality(Openers(f))
    BY DEF Inv, Counted
  <2>4. Cardinality(Dupers(f)) = 0 /\ Cardinality(Openers(f)) = 0
    BY <2>1, FS_EmptySet
  <2>5. ref[f] \in Nat
    BY DEF Inv, FileTableTypeOK
  <2> QED
    BY <2>2, <2>3, <2>4, <2>5, Counts
<1> QED
  BY <1>1, FileTableInvAlways, PTL

(* Slots, file systems, devices and descriptors agree: a descriptor a       *)
(* program can use is of a file that is open, a slot that can be taken is   *)
(* closed, a file in use is open, and devices count the files open on them. *)
THEOREM SlotsAlwaysAgree ==
  ASSUME FdZeroKept, ClosesApart
  PROVE  FileTableSpec => []SlotsAgree
<1>1. Inv => SlotsAgree
  <2> SUFFICES ASSUME Inv
               PROVE  NoDanglingFd /\ UsedIsOpen
    BY DEF SlotsAgree, Inv
  <2>1. ASSUME NEW t \in Task, NEW i \in Fd, fds[t][i] # NoFile,
               pc[t] \in {"user", "use_op"}
        PROVE  ref[fds[t][i]] > 0 /\ fds[t][i] \in opened
    <3>1. fds[t][i] \in File
      BY <2>1 DEF Inv, FileTableTypeOK
    <3>2. Holds(t, i, fds[t][i])
      BY <2>1 DEF Holds, Removing
    <3>3. ~ Described(t)
      BY <2>1 DEF Described
    <3> QED
      BY <3>1, <3>2, <3>3 DEF Inv, HeldIsCounted, OpenWhenHeld
  <2>2. NoDanglingFd
    BY <2>1 DEF NoDanglingFd
  <2>3. ASSUME NEW t \in Task, pc[t] = "use_op"
        PROVE  file[t] \in opened
    <3>1. PICK i \in Fd : fds[t][i] = file[t]
      BY <2>3 DEF Inv, CallsOK, CallOK
    <3>2. file[t] \in File
      BY <2>3 DEF Inv, CallsOK, CallOK
    <3> QED
      BY <2>1, <2>3, <3>1, <3>2, Values
  <2> QED
    BY <2>2, <2>3 DEF UsedIsOpen
<1> QED
  BY <1>1, FileTableInvAlways, PTL

(* A file is closed in its file system by the last one to hold it: every    *)
(* descriptor that still refers to it is being removed by its process.      *)
THEOREM ClosedByTheLast ==
  ASSUME FdZeroKept, ClosesApart
  PROVE  FileTableSpec => ClosedByLast
<1> DEFINE Last == \A f \in opened \ opened' :
                     \A p \in RefersTo(f) :
                       /\ pc[p[1]] \in {"close_op", "close_remove", "open_remove"}
                       /\ fd[p[1]] = p[2]
<1>1. ASSUME Inv, [FileTableNext]_fvars, NEW f \in opened \ opened'
      PROVE  \E t \in Task : CloseOp(t) /\ f = file[t]
  <2>1. PICK t \in Task :
          Open(t) \/ Close(t) \/ Use(t) \/ Exit(t) \/ Dup(t) \/ Fork(t)
    BY <1>1 DEF FileTableNext, fvars, table
  <2>2. CASE Open(t)
    BY <1>1, <2>2 DEF Open, OpenLock, OpenAlloc, OpenFd, OpenFs, OpenOk, OpenFails, OpenFree,
                      OpenFreed, OpenRemove, table
  <2>3. CASE Close(t)
    BY <1>1, <2>3 DEF Close, CloseLoad, CloseFd, CloseStore, CloseFs, CloseOp, CloseFree,
                      CloseFreed, CloseRemove, table
  <2>4. CASE Use(t) \/ Exit(t)
    BY <1>1, <2>4 DEF Use, UseStart, UseEnd, Exit, ExitStart, ExitLoad, CloseFd, ExitEnd, table
  <2>5. CASE Dup(t) \/ Fork(t)
    BY <1>1, <2>5 DEF Dup, DupFd, DupLock, DupInc, Fork, ForkStart, ForkSkip, ForkLock, ForkInc,
                      ForkEnd, table
  <2> QED
    BY <2>1, <2>2, <2>3, <2>4, <2>5
<1>2. ASSUME Inv, [FileTableNext]_fvars
      PROVE  Last
  <2> SUFFICES ASSUME NEW f \in opened \ opened', NEW u \in Task, NEW i \in Fd, fds[u][i] = f
               PROVE  /\ pc[u] \in {"close_op", "close_remove", "open_remove"}
                      /\ fd[u] = i
    BY DEF RefersTo
  <2>1. PICK t \in Task : CloseOp(t) /\ f = file[t]
    BY <1>1, <1>2
  <2>2. pc[t] = "close_op" /\ InClose(t) /\ f \in File
    BY <1>2, <2>1 DEF CloseOp, Goto, InClose, Inv, FileTableTypeOK
  <2>3. ref[f] = 0 /\ \A w \in Task \ {t} : InClose(w) => file[w] # f
    BY <1>2, <2>1, <2>2 DEF Inv, Closing, CloseOK
  <2>4. ~ Holds(u, i, f)
    BY <1>2, <2>2, <2>3, FreeSlot
  <2>5. Removing(u) /\ fd[u] = i
    BY <2>4 DEF Holds
  <2>6. InClose(u) => file[u] = f
    BY <1>2, <2>5 DEF Inv, CallsOK, CallOK
  <2> QED
    BY <2>2, <2>3, <2>5, <2>6 DEF Removing, InClose
<1>3. Inv /\ [FileTableNext]_fvars => [Last]_fvars
  BY <1>2
<1> QED
  BY <1>3, FileTableInvAlways, PTL DEF FileTableSpec, ClosedByLast
=============================================================================
