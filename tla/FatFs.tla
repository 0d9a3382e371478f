--------------------------------- MODULE FatFs ---------------------------------
(****************************************************************************)
(* The FAT16 file system: kernel/fs/fatfs/fatfs.c.                          *)
(*                                                                          *)
(* Every operation runs under fat->mutex (fs_protect in fs.c), so an        *)
(* operation is one action; the operations of all processes interleave.     *)
(* The disk answers every command: the paths that an error of dev_read or   *)
(* dev_write opens are not taken.                                           *)
(*                                                                          *)
(* A name is a member of Name (the 11 characters of to_sfn), a byte is any  *)
(* value, a cluster holds ClusterSize bytes, and the FAT and the root       *)
(* directory are one sector each.  Both copies of the FAT are written with  *)
(* every change and the second is never read: they are one table here.      *)
(****************************************************************************)
EXTENDS Integers, Sequences, FiniteSets

CONSTANTS
  Name,          \* file names
  Handle,        \* file_t slots
  RootEntCnt,    \* fat->root_ent_cnt
  ClusterTotal,  \* c_total: clusters are numbered 2..ClusterTotal-1
  ClusterSize,   \* fat->cluster_byte_size
  OpenMode,      \* the flags programs open files with
  Exclusive,     \* assumption: nobody touches a file that is open for writing
  SeekAnywhere,  \* whether programs seek outside of a file's first cluster
  CallSize,      \* bound: how many bytes a program reads or writes at once
  MaxSize        \* bound: the size of a file

FAT_CLUSTER_FREE    == 0
FAT_CLUSTER_INVALID == 65528    \* 0xFFF8
HostEndOfChain      == 65535    \* 0xFFFF, the end mark other systems write

DIRITEM_NAME_END  == "end"      \* 0x00
DIRITEM_NAME_FREE == "free"     \* 0xE5

Flag == {"write", "creat", "trunc"}

ASSUME FatFsAssumption ==
  /\ RootEntCnt \in Nat \ {0} /\ ClusterSize \in Nat \ {0}
  /\ ClusterTotal \in 3..(FAT_CLUSTER_INVALID - 1)
  /\ OpenMode \subseteq SUBSET Flag
  /\ Exclusive \in BOOLEAN /\ SeekAnywhere \in BOOLEAN
  /\ CallSize \subseteq Nat \ {0} /\ MaxSize \in Nat /\ ClusterSize <= MaxSize
  /\ {DIRITEM_NAME_END, DIRITEM_NAME_FREE} \cap Name = {}

Slot    == 0..(RootEntCnt - 1)
Cluster == 2..(ClusterTotal - 1)

VARIABLES
  root,     \* the root directory on disk
  fat,      \* the table of clusters on disk
  data,     \* the bytes of every cluster
  files,    \* the open file_t's
  sector,   \* fat->curr_sector: the sector fat_buffer is said to hold
  buffer,   \* the sector fat_buffer does hold
  wrote,    \* history: the bytes acknowledged for the file of each slot
  full,     \* history: the slots whose writer has met a full disk
  reply     \* history: what the last fatfs_read returned

disk   == <<root, fat, data>>
ghosts == <<wrote, full>>
vars   == <<root, fat, data, files, sector, buffer, wrote, full, reply>>

NoFile  == [slot |-> -1]
NoReply == [slot |-> -1]
Empty   == [name |-> DIRITEM_NAME_END, size |-> 0, sblk |-> 0]
Open    == {h \in Handle : files[h] # NoFile}
Writer(i) == {h \in Open : files[h].slot = i /\ "write" \in files[h].mode}
Reader(i) == {h \in Open : files[h].slot = i} \ Writer(i)

MinOf(S)     == CHOOSE x \in S : \A y \in S : x <= y
Lesser(a, b) == IF a < b THEN a ELSE b
UpTo(n)      == (n + ClusterSize - 1) \div ClusterSize

Offset(f)    == f.pos % ClusterSize

-----------------------------------------------------------------------------
\* Chains of clusters

cluster_is_valid(c) == 2 <= c /\ c < FAT_CLUSTER_INVALID

cluster_get_next(t, c) == IF c \in Cluster THEN t[c] ELSE FAT_CLUSTER_INVALID

cluster_set_next(t, c, next) == IF c \in Cluster THEN [t EXCEPT ![c] = next] ELSE t

\* The cluster n steps after c.
Nth(t, c, n) ==
  LET after[k \in 0..n] == IF k = 0 THEN c ELSE cluster_get_next(t, after[k - 1])
  IN  after[n]

\* The clusters reached from c.
Chain(t, c) == {Nth(t, c, k) : k \in 0..ClusterTotal} \cap Cluster

cluster_free_chain(t, c) ==
  [d \in Cluster |-> IF d \in Chain(t, c) THEN FAT_CLUSTER_FREE ELSE t[d]]

FreeClusters(t) == {c \in Cluster : t[c] = FAT_CLUSTER_FREE}

\* cluster_alloc_free takes the first cnt free clusters.  When there are
\* fewer it frees those it has linked, which leaves the table as it was.
CanAlloc(t, cnt) == cnt <= Cardinality(FreeClusters(t))
Taken(t, cnt) ==
  {c \in FreeClusters(t) : Cardinality({d \in FreeClusters(t) : d < c}) < cnt}

cluster_alloc_free(t, cnt) ==
  [c \in Cluster |->
     LET later == {d \in Taken(t, cnt) : c < d}
     IN  IF c \notin Taken(t, cnt) THEN t[c]
         ELSE IF later = {} THEN FAT_CLUSTER_INVALID ELSE MinOf(later)]

-----------------------------------------------------------------------------
\* What an operation has done so far: w.t is the table, w.d the data, w.f the
\* file, w.sec and w.buf the two views of fat_buffer, w.ok that no step failed,
\* w.left the bytes to go and w.out those that are done.
Work(f, n) == [t |-> fat, d |-> data, f |-> f, sec |-> sector, buf |-> buffer,
               ok |-> TRUE, left |-> n, out |-> <<>>]

\* fat_buffer is read from sector s, or found to hold it.
bread_sector(w, s) == [w EXCEPT !.sec = s, !.buf = IF w.sec = s THEN @ ELSE s]

\* The clusters that expand_file allocates for incr more bytes.
ClustersFor(f, incr) ==
  LET cfree == ClusterSize - (f.size % ClusterSize)
  IN  IF f.size = 0 THEN UpTo(incr)
      ELSE IF cfree > incr THEN 0
      ELSE IF incr = cfree THEN 1 ELSE UpTo(incr - cfree)

\* MUTANT of expand_file: the new clusters are not linked to the file's last.
expand_file_Apart(w, incr) ==
  LET cnt   == ClustersFor(w.f, incr)
      start == MinOf(FreeClusters(w.t))
      found == [bread_sector(w, "fat") EXCEPT !.t = cluster_alloc_free(w.t, cnt)]
  IN  IF cnt = 0 THEN w
      ELSE IF ~ CanAlloc(w.t, cnt) THEN [bread_sector(w, "fat") EXCEPT !.ok = FALSE]
      ELSE [found EXCEPT !.f.sblk = start, !.f.cblk = start]

expand_file(w, incr) ==
  LET cnt   == ClustersFor(w.f, incr)
      start == MinOf(FreeClusters(w.t))
      found == [bread_sector(w, "fat") EXCEPT !.t = cluster_alloc_free(w.t, cnt)]
  IN  IF cnt = 0 THEN w
      ELSE IF ~ CanAlloc(w.t, cnt) THEN [bread_sector(w, "fat") EXCEPT !.ok = FALSE]
      ELSE IF ~ cluster_is_valid(w.f.sblk)
           THEN [found EXCEPT !.f.sblk = start, !.f.cblk = start]
      ELSE [found EXCEPT !.t  = cluster_set_next(@, w.f.cblk, start),
                         !.ok = cluster_is_valid(w.f.cblk)]

\* cluster_get_next reads the table only for a valid cluster.
LookUp(w) == IF w.f.cblk \in Cluster THEN bread_sector(w, "fat") ELSE w

\* MUTANT of move_file_pos: a cluster that is exactly full is not left.
move_file_pos_Stays(w, n, expand) ==
  LET next(x)  == cluster_get_next(x.t, x.f.cblk)
      advance(x) == [LookUp(x) EXCEPT !.f.cblk = next(x), !.f.pos = @ + n]
      grown == expand_file(LookUp(w), ClusterSize)
  IN  IF Offset(w.f) + n <= ClusterSize THEN [w EXCEPT !.f.pos = @ + n]
      ELSE IF next(w) # FAT_CLUSTER_INVALID \/ ~ expand THEN advance(w)
      ELSE IF grown.ok THEN advance(grown) ELSE grown

move_file_pos(w, n, expand) ==
  LET next(x)  == cluster_get_next(x.t, x.f.cblk)
      advance(x) == [LookUp(x) EXCEPT !.f.cblk = next(x), !.f.pos = @ + n]
      grown == expand_file(LookUp(w), ClusterSize)
  IN  IF Offset(w.f) + n < ClusterSize THEN [w EXCEPT !.f.pos = @ + n]
      ELSE IF next(w) # FAT_CLUSTER_INVALID \/ ~ expand THEN advance(w)
      ELSE IF grown.ok THEN advance(grown) ELSE grown

\* The bytes of one round of the loops of fatfs_read and fatfs_write: up to
\* the end of the cluster.  A round for a whole cluster bypasses fat_buffer,
\* any other reads the cluster into it.
Round(w) == Lesser(w.left, ClusterSize - Offset(w.f))
Whole(w) == Offset(w.f) = 0 /\ w.left = ClusterSize

\* MUTANT of ThroughBuffer: curr_sector keeps its value.
ThroughBuffer_Kept(w) == IF Whole(w) THEN w ELSE [w EXCEPT !.buf = "data"]

ThroughBuffer(w) ==
  IF Whole(w) THEN w ELSE [w EXCEPT !.sec = "none", !.buf = "data"]

ReadRound(w) ==
  LET off == Offset(w.f)
      got == IF w.f.cblk \in Cluster
             THEN SubSeq(w.d[w.f.cblk], off + 1, off + Round(w))
             ELSE [i \in 1..Round(w) |-> "outside"]  \* sectors behind the FAT's
      w2  == [ThroughBuffer(w) EXCEPT !.left = @ - Round(w), !.out = @ \o got]
  IN  IF w.left = 0 THEN w ELSE move_file_pos(w2, Round(w), FALSE)

\* MUTANT of WriteRound: the bytes are always put at the start of the cluster.
WriteRound_Start(w, bytes) ==
  LET n   == Round(w)
      put == SubSeq(bytes, Len(w.out) + 1, Len(w.out) + n)
      new == [i \in 1..ClusterSize |->
                IF i \in 1..n THEN put[i] ELSE w.d[w.f.cblk][i]]
      w2  == [ThroughBuffer(w) EXCEPT
                !.d = IF w.f.cblk \in Cluster THEN [@ EXCEPT ![w.f.cblk] = new] ELSE @,
                !.left = @ - n, !.out = @ \o put, !.f.size = @ + n]
  IN  IF w.left = 0 \/ ~ w.ok THEN w ELSE move_file_pos(w2, n, TRUE)

WriteRound(w, bytes) ==
  LET off == Offset(w.f)
      n   == Round(w)
      put == SubSeq(bytes, Len(w.out) + 1, Len(w.out) + n)
      new == [i \in 1..ClusterSize |->
                IF i \in off + 1..off + n THEN put[i - off] ELSE w.d[w.f.cblk][i]]
      w2  == [ThroughBuffer(w) EXCEPT
                !.d = IF w.f.cblk \in Cluster THEN [@ EXCEPT ![w.f.cblk] = new] ELSE @,
                !.left = @ - n, !.out = @ \o put, !.f.size = @ + n]
  IN  IF w.left = 0 \/ ~ w.ok THEN w ELSE move_file_pos(w2, n, TRUE)

\* Every round does one byte at least.
ReadLoop(w) ==
  LET after[k \in 0..w.left] == IF k = 0 THEN w ELSE ReadRound(after[k - 1])
  IN  after[w.left]

WriteLoop(w, bytes) ==
  LET after[k \in 0..w.left] == IF k = 0 THEN w ELSE WriteRound(after[k - 1], bytes)
  IN  after[w.left]

Commit(h, w) ==
  /\ fat' = w.t /\ data' = w.d
  /\ files' = [files EXCEPT ![h] = w.f]
  /\ sector' = w.sec /\ buffer' = w.buf

ReadsRoot ==
  /\ sector' = "root"
  /\ buffer' = IF sector = "root" THEN buffer ELSE "root"

-----------------------------------------------------------------------------
\* The root directory

\* The scan of fatfs_open and fatfs_unlink ends at the first match or at the
\* first DIRITEM_NAME_END.
Seen(i)     == \A j \in 0..(i - 1) : root[j].name # DIRITEM_NAME_END
Matches(n)  == {i \in Slot : Seen(i) /\ root[i].name = n}
Vacant      == {i \in Slot : Seen(i) /\ root[i].name \in {DIRITEM_NAME_END, DIRITEM_NAME_FREE}}

\* p_index: the slot of the end, or else the last free one before it.
FreeSlot == CHOOSE i \in Vacant : \A j \in Vacant : j <= i

FileOf(i, item, mode) ==
  [slot |-> i, mode |-> mode, size |-> item.size, pos |-> 0,
   sblk |-> item.sblk, cblk |-> item.sblk]

\* With Exclusive, a program opens a file for writing only if it is not open,
\* and for reading only if it is not open for writing.
MayOpen(i, mode) ==
  Exclusive => Writer(i) = {} /\ ("write" \in mode => Reader(i) = {})

\* fatfs_open of a file that is there.
OpenFound(h, n, mode) ==
  LET i    == MinOf(Matches(n))
      f    == FileOf(i, root[i], mode)
      trunc == "trunc" \in mode
  IN  /\ Matches(n) # {}
      /\ MayOpen(i, mode)
      /\ files' = [files EXCEPT ![h] =
           IF trunc THEN [f EXCEPT !.size = 0, !.sblk = FAT_CLUSTER_INVALID,
                                   !.cblk = FAT_CLUSTER_INVALID]
           ELSE f]
      /\ IF trunc
         THEN /\ fat' = cluster_free_chain(fat, f.sblk)
              /\ wrote' = [wrote EXCEPT ![i] = <<>>]
              /\ full' = full \ {i}
         ELSE UNCHANGED <<fat, ghosts>>
      /\ IF trunc /\ f.sblk \in Cluster
         THEN sector' = "fat" /\ buffer' = "fat" ELSE ReadsRoot
      /\ reply' = NoReply
      /\ UNCHANGED <<root, data>>

\* fatfs_open of a file that is not there; diritem_init.
OpenCreate(h, n, mode) ==
  LET item == [name |-> n, size |-> 0, sblk |-> FAT_CLUSTER_INVALID]
  IN  /\ Matches(n) = {}
      /\ "creat" \in mode
      /\ Vacant # {}
      /\ root' = [root EXCEPT ![FreeSlot] = item]
      /\ files' = [files EXCEPT ![h] = FileOf(FreeSlot, item, mode)]
      /\ wrote' = [wrote EXCEPT ![FreeSlot] = <<>>]
      /\ full' = full \ {FreeSlot}
      /\ ReadsRoot
      /\ reply' = NoReply
      /\ UNCHANGED <<fat, data>>

\* fatfs_open of a file that is not there and cannot be made.
OpenFails(n, mode) ==
  /\ Matches(n) = {}
  /\ "creat" \in mode => Vacant = {}
  /\ ReadsRoot
  /\ reply' = NoReply
  /\ UNCHANGED <<disk, files, ghosts>>

fatfs_open(h, n, mode) ==
  /\ h \notin Open
  /\ OpenFound(h, n, mode) \/ OpenCreate(h, n, mode) \/ OpenFails(n, mode)

\* fatfs_close stores size and first cluster, whatever the mode: O_RDONLY is
\* zero, so its test of the mode never holds.
fatfs_close(h) ==
  LET f == files[h]
  IN  /\ h \in Open
      /\ root' = [root EXCEPT ![f.slot].size = f.size, ![f.slot].sblk = f.sblk]
      /\ files' = [files EXCEPT ![h] = NoFile]
      /\ ReadsRoot
      /\ reply' = NoReply
      /\ UNCHANGED <<fat, data, ghosts>>

\* fatfs_unlink of a file that is there: its chain is freed, its entry zeroed.
Unlink(n) ==
  LET i == MinOf(Matches(n))
  IN  /\ Matches(n) # {}
      /\ Exclusive => Writer(i) \cup Reader(i) = {}
      /\ fat' = cluster_free_chain(fat, root[i].sblk)
      /\ root' = [root EXCEPT ![i] = Empty]
      /\ sector' = "root" /\ buffer' = "root"
      /\ wrote' = [wrote EXCEPT ![i] = <<>>]
      /\ full' = full \ {i}
      /\ reply' = NoReply
      /\ UNCHANGED <<data, files>>

\* fatfs_unlink of a file that is not there, and fatfs_readdir: the directory
\* is read.  The index of fatfs_readdir is kept in the caller's DIR.
LookAtRoot ==
  /\ ReadsRoot
  /\ reply' = NoReply
  /\ UNCHANGED <<disk, files, ghosts>>

-----------------------------------------------------------------------------
\* Open files.  Programs read what they have opened for reading and write what
\* they have opened for writing: sys_read and sys_write only log the contrary.

\* MUTANT of fatfs_read: the size is compared without the position.
fatfs_read_NoPos(h, n) ==
  LET f == files[h]
      w == ReadLoop(Work(f, Lesser(n, f.size)))
  IN  /\ h \in Open /\ "write" \notin f.mode
      /\ Commit(h, w)
      /\ reply' = [slot |-> f.slot, from |-> f.pos, asked |-> n, bytes |-> w.out]
      /\ UNCHANGED <<root, ghosts>>

fatfs_read(h, n) ==
  LET f == files[h]
      w == ReadLoop(Work(f, IF f.pos + n > f.size THEN f.size - f.pos ELSE n))
  IN  /\ h \in Open /\ "write" \notin f.mode
      /\ Commit(h, w)
      /\ reply' = [slot |-> f.slot, from |-> f.pos, asked |-> n, bytes |-> w.out]
      /\ UNCHANGED <<root, ghosts>>

fatfs_write(h, bytes) ==
  LET f    == files[h]
      n    == Len(bytes)
      room == IF f.pos + n > f.size
              THEN expand_file(Work(f, n), f.pos + n - f.size) ELSE Work(f, n)
      w    == IF room.ok THEN WriteLoop(room, bytes) ELSE room
  IN  /\ h \in Open /\ "write" \in f.mode
      /\ f.size + n <= MaxSize
      /\ Commit(h, w)
      /\ wrote' = [wrote EXCEPT ![f.slot] = @ \o w.out]
      /\ full' = IF room.ok /\ ~ w.ok THEN full \cup {f.slot} ELSE full
      /\ reply' = NoReply
      /\ UNCHANGED root

\* fatfs_seek walks from the file's current cluster.  Programs seek in files
\* they read, to an offset inside, and unless SeekAnywhere only while they are
\* in the first cluster.
fatfs_seek(h, offset) ==
  LET f    == files[h]
      hops == offset \div ClusterSize
      c    == Nth(fat, f.cblk, hops)
  IN  /\ h \in Open /\ "write" \notin f.mode
      /\ SeekAnywhere \/ f.cblk = f.sblk
      /\ offset \in 0..f.size
      /\ IF \E k \in 1..hops : ~ cluster_is_valid(Nth(fat, f.cblk, k))
         THEN UNCHANGED files
         ELSE files' = [files EXCEPT ![h].pos = offset, ![h].cblk = c]
      /\ IF hops > 0 /\ f.cblk \in Cluster
         THEN sector' = "fat" /\ buffer' = IF sector = "fat" THEN buffer ELSE "fat"
         ELSE UNCHANGED <<sector, buffer>>
      /\ reply' = NoReply
      /\ UNCHANGED <<disk, ghosts>>

-----------------------------------------------------------------------------
\* A volume that another system has formatted: some slots in front are deleted
\* files, or the first holds a file of that system, one cluster long.
HostBytes == [i \in 1..ClusterSize |-> "host"]

Init ==
  /\ \/ \E k \in 0..RootEntCnt :
          root = [i \in Slot |-> IF i < k THEN [Empty EXCEPT !.name = DIRITEM_NAME_FREE]
                                 ELSE Empty]
     \/ \E n \in Name :
          root = [i \in Slot |-> IF i = 0
                  THEN [name |-> n, size |-> ClusterSize, sblk |-> 2] ELSE Empty]
  /\ fat = [c \in Cluster |-> IF c = root[0].sblk THEN HostEndOfChain
                              ELSE FAT_CLUSTER_FREE]
  /\ data = [c \in Cluster |-> HostBytes]
  /\ files = [h \in Handle |-> NoFile]
  /\ sector = "none" /\ buffer = "data"
  /\ wrote = [i \in Slot |-> IF root[i].size = 0 THEN <<>> ELSE HostBytes]
  /\ full = {}
  /\ reply = NoReply

\* The next n bytes a program writes to h: a pattern whose period is not that
\* of the clusters, so that a byte in the wrong place shows.
Bytes(h, n) ==
  [i \in 1..n |-> (Len(wrote[files[h].slot]) + i) % (ClusterSize + 1)]

Next ==
  \/ \E h \in Handle, n \in Name, mode \in OpenMode : fatfs_open(h, n, mode)
  \/ \E h \in Handle : fatfs_close(h)
  \/ \E n \in Name : Unlink(n)
  \/ LookAtRoot
  \/ \E h \in Handle, n \in CallSize : fatfs_read(h, n)
  \/ \E h \in Handle, n \in CallSize : h \in Open /\ fatfs_write(h, Bytes(h, n))
  \/ \E h \in Handle, offset \in 0..MaxSize : fatfs_seek(h, offset)

FatFsSpec == Init /\ [][Next]_vars

-----------------------------------------------------------------------------
\* The type invariant: cluster numbers are in range, a reply is at most what
\* was asked for (fat_t, diritem_t and file_t of fatfs.h and file.h).
Link == Cluster \cup {FAT_CLUSTER_FREE, FAT_CLUSTER_INVALID, HostEndOfChain}
FatFsTypeOK ==
  /\ \A i \in Slot : /\ root[i].name \in Name \cup {DIRITEM_NAME_END, DIRITEM_NAME_FREE}
                     /\ root[i].size \in 0..MaxSize /\ root[i].sblk \in Link
                     /\ Len(wrote[i]) \in 0..MaxSize
  /\ fat \in [Cluster -> Link]
  /\ \A c \in Cluster : Len(data[c]) = ClusterSize
  /\ \A h \in Open : /\ files[h].slot \in Slot /\ files[h].mode \in OpenMode
                     /\ files[h].pos \in 0..files[h].size
                     /\ files[h].size \in 0..MaxSize
                     /\ {files[h].sblk, files[h].cblk} \subseteq Link
  /\ sector \in {"none", "root", "fat"} /\ buffer \in {"data", "root", "fat"}
  /\ full \subseteq Slot
  /\ reply # NoReply => Len(reply.bytes) <= reply.asked

\* fat_buffer holds directory, table and file data in turn; what bread_sector
\* takes from it without reading the disk is what curr_sector says it is, so
\* that no cluster number or size is read from a buffer of something else.
CacheHonest == FatFsTypeOK /\ (sector # "none" => buffer = sector)

\* The first cluster of the file of slot i: its writer's, until the close
\* stores it.
First(i) == IF Writer(i) = {} THEN root[i].sblk
            ELSE files[CHOOSE h \in Writer(i) : TRUE].sblk

Used == {i \in Slot : root[i].name \in Name}

\* Every cluster that is not free belongs to exactly one file, and every chain
\* has an end: writing, truncating and removing one file neither takes a
\* cluster from another nor loses one, also when an allocation fails half-way
\* (cluster_alloc_free, cluster_free_chain, expand_file).
ClustersOwned ==
  /\ \A i, j \in Used : i # j => Chain(fat, First(i)) \cap Chain(fat, First(j)) = {}
  /\ UNION {Chain(fat, First(i)) : i \in Used} = Cluster \ FreeClusters(fat)
  /\ \A i \in Used : Chain(fat, First(i)) # {} =>
       \E c \in Chain(fat, First(i)) : fat[c] \notin Cluster

\* The current cluster is the one the position is in, counted from the first
\* (move_file_pos, expand_file and fatfs_seek keep cblk and pos together).
Positioned ==
  \A h \in Open :
    files[h].cblk = Nth(fat, files[h].sblk, files[h].pos \div ClusterSize)

\* A read returns the bytes that were acknowledged, in their order, and as
\* many as were asked for if the file has them, over any sequence of writes of
\* any sizes; except for a file whose writer has found the disk full just
\* when a cluster was complete (fatfs_read, fatfs_write, fatfs_close).
ReadsBack ==
  reply # NoReply /\ reply.slot \notin full =>
    reply.bytes = SubSeq(wrote[reply.slot], reply.from + 1,
                         Lesser(reply.from + reply.asked, Len(wrote[reply.slot])))
=============================================================================
