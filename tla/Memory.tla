--------------------------------- MODULE Memory ---------------------------------
(****************************************************************************)
(* Physical pages and the address spaces of processes: kernel/core/memory.c *)
(* and what tss_init, sys_fork, sys_execve, sys_wait and sys_sbrk of        *)
(* kernel/core do with them.                                                *)
(*                                                                          *)
(* The bitmap of pages changes under the mutex of paddr_alloc only, a page  *)
(* at a time, and between two such changes a process works on page tables   *)
(* that no other process reaches: a step is one change of the bitmap with   *)
(* what its caller does until the next.  The steps of the processes         *)
(* interleave, so memory may run out in any of them at any point.           *)
(*                                                                          *)
(* A page used as directory or table has its entries in "entry"; 0 is an    *)
(* entry that is not present, or no page.  What a program, or an earlier    *)
(* use, has left in any other page is "Junk".  Only the part of a directory *)
(* above MEMORY_TASK_BASE is kept: the rest is the kernel's and the same in *)
(* all, with every page present that a heap_end of 0 leads to.              *)
(****************************************************************************)
EXTENDS Integers, FiniteSets

CONSTANTS
  Proc,        \* slots of task_table
  First,       \* the process that is there when the model begins
  NrPage,      \* pages of memory above 1 MB that first_task does not use
  NrPde,       \* entries of a directory
  NrPte,       \* entries of a table
  PageSize,    \* MEM_PAGE_SIZE, in bytes
  ImageSize,   \* the sizes of programs
  Incr,        \* the arguments of sbrk
  MaxHeap      \* assumption: a heap ends below this, so never in the stack

Page   == 1..NrPage
Index  == 0..(IF NrPde < NrPte THEN NrPte - 1 ELSE NrPde - 1)
Vpage  == 0..(NrPde * NrPte - 1)     \* virtual pages, the last one for the stack
StackAt == NrPde * NrPte - 1

ASSUME MemoryAssumption ==
  /\ First \in Proc
  /\ {NrPage, NrPde, NrPte, PageSize} \subseteq Nat \ {0}
  /\ NrPage >= 6 /\ NrPde >= 2   \* those that MemoryInit uses
  /\ MaxHeap \in 1..(StackAt * PageSize)
  /\ ImageSize \subseteq 1..MaxHeap /\ Incr \subseteq Nat \ {0}

VARIABLES
  used,    \* the bits of paddr_alloc.bitmap that are set
  entry,   \* the entries of each page
  cr3,     \* tss.cr3 of each process: its page directory
  stack,   \* the page under tss.esp0: its kernel stack
  heap,    \* task_t.heap_end: its offset from MEMORY_TASK_BASE, 0 if below
  pc,      \* where each process is
  dir,     \* the directory its call works on
  at,      \* how far that work is
  to,      \* where it ends
  page,    \* the page that addr_alloc_page has returned to it
  other,   \* the process it forks or reaps
  lost,    \* history: pages that nothing refers to any more
  starved  \* history: processes that have run out of memory

tables == <<used, entry>>
space  == <<cr3, stack, heap>>
calls  == <<pc, dir, at, to, page, other>>
ghosts == <<lost, starved>>
mvars  == <<tables, space, calls, ghosts>>

-----------------------------------------------------------------------------
\* The page allocator

Zero == [i \in Index |-> 0]
Junk == [i \in Index |-> 1]

\* MUTANT of FirstFree: the search runs over the end of the bitmap.
FirstFree_PastEnd == CHOOSE x \in 1..(NrPage + 1) \ used : 1..(x - 1) \subseteq used

\* bitmap_alloc_nbits takes the first free page; 0 when there is none.
FirstFree == IF used = Page THEN 0
             ELSE CHOOSE x \in Page \ used : \A y \in Page \ used : x <= y

addr_alloc_page == used' = IF FirstFree = 0 THEN used ELSE used \cup {FirstFree}

addr_free_page(x) == used' = used \ {x} /\ entry' = [entry EXCEPT ![x] = Junk]

UpTo(n) == (n + PageSize - 1) \div PageSize

-----------------------------------------------------------------------------
\* Page tables

Table(e, d, v) == e[d][v \div NrPte]

\* memory_get_paddr: the page behind v in d, or 0.
Frame(e, d, v) == IF Table(e, d, v) = 0 THEN 0 ELSE e[Table(e, d, v)][v % NrPte]

Mapped(d) == {v \in Vpage : Frame(entry, d, v) # 0}

\* MUTANT of WithTable: a new table keeps what its page held before.
WithTable_Stale(e, d, v, t) == [e EXCEPT ![d][v \div NrPte] = t]

\* find_pte enters a new table t, with no entry present.
WithTable(e, d, v, t) == [e EXCEPT ![t] = Zero, ![d][v \div NrPte] = t]

\* memory_create_map for one page x: a table is allocated if there is none.
NeedsTable(d, v) == Table(entry, d, v) = 0
MapFails(d, v)   == NeedsTable(d, v) /\ FirstFree = 0
memory_create_map(d, v, x) ==
  LET e == IF NeedsTable(d, v) THEN WithTable(entry, d, v, FirstFree) ELSE entry
  IN  /\ IF NeedsTable(d, v) THEN addr_alloc_page ELSE UNCHANGED used
      /\ entry' = [e EXCEPT ![Table(e, d, v)][v % NrPte] = x]

\* The order in which memory_destroy_uvm gives pages back: of every entry of
\* the directory the frames and then the table.
Place      == 0..(NrPde * (NrPte + 1) - 1)
PageAt(d, k) ==
  LET i == k \div (NrPte + 1)
      j == k % (NrPte + 1)
  IN  IF entry[d][i] = 0 THEN 0
      ELSE IF j < NrPte THEN entry[entry[d][i]][j] ELSE entry[d][i]

-----------------------------------------------------------------------------
Goto(p, label) == pc' = [pc EXCEPT ![p] = label]

\* The work of p is on the directory d, from v on.
Work(p, d, v, w) ==
  /\ dir' = [dir EXCEPT ![p] = d] /\ page' = [page EXCEPT ![p] = 0]
  /\ at' = [at EXCEPT ![p] = v] /\ to' = [to EXCEPT ![p] = w]

\* The call of p returns.
Return(p) == Goto(p, "user") /\ Work(p, 0, 0, 0) /\ other' = [other EXCEPT ![p] = p]

\* memory_destroy_uvm of d begins; it ends in FreeDir.
BeginDestroy(p, d, label) == Goto(p, label) /\ Work(p, d, 0, 0) /\ UNCHANGED other

\* memory_alloc_for_page_dir is to map the pages from v up to w in d.
BeginAlloc(p, d, v, w, label) == Goto(p, label) /\ Work(p, d, v, w) /\ UNCHANGED other

-----------------------------------------------------------------------------
\* sys_sbrk

\* MUTANT of sys_sbrk: the rest of the page at the heap's end is not used up.
sys_sbrk_NoRest(p, incr) ==
  /\ pc[p] = "user" /\ heap[p] > 0 /\ heap[p] + incr <= MaxHeap
  /\ heap' = [heap EXCEPT ![p] = @ + incr]
  /\ BeginAlloc(p, cr3[p], heap[p] \div PageSize, UpTo(heap[p] + incr), "sbrk")
  /\ UNCHANGED <<tables, cr3, stack, ghosts>>

\* MUTANT of sys_sbrk: the last page is left out if it is not used up.
sys_sbrk_Down(p, incr) ==
  /\ pc[p] = "user" /\ heap[p] > 0 /\ heap[p] + incr <= MaxHeap
  /\ heap' = [heap EXCEPT ![p] = @ + incr]
  /\ IF UpTo(heap[p]) >= (heap[p] + incr) \div PageSize
     THEN UNCHANGED calls
     ELSE BeginAlloc(p, cr3[p], UpTo(heap[p]), (heap[p] + incr) \div PageSize, "sbrk")
  /\ UNCHANGED <<tables, cr3, stack, ghosts>>

\* The heap's end moves when the call returns; no other process reads it.
sys_sbrk(p, incr) ==
  /\ pc[p] = "user" /\ heap[p] > 0 /\ heap[p] + incr <= MaxHeap
  /\ heap' = [heap EXCEPT ![p] = @ + incr]
  /\ IF UpTo(heap[p]) = UpTo(heap[p] + incr)
     THEN UNCHANGED calls
     ELSE BeginAlloc(p, cr3[p], UpTo(heap[p]), UpTo(heap[p] + incr), "sbrk")
  /\ UNCHANGED <<tables, cr3, stack, ghosts>>

\* A child of fork that has not executed a program has a heap_end of 0: its
\* sbrk maps a page of the kernel and fails the assertion, unless there is no
\* page to map.
SbrkBelow(p) ==
  /\ pc[p] = "user" /\ heap[p] = 0 /\ FirstFree # 0
  /\ addr_alloc_page
  /\ page' = [page EXCEPT ![p] = FirstFree]
  /\ Goto(p, "panic")
  /\ UNCHANGED <<entry, space, dir, at, to, other, ghosts>>

-----------------------------------------------------------------------------
\* The loop of memory_alloc_for_page_dir, for sys_sbrk and for sys_execve
Allocating(p) == pc[p] \in {"sbrk", "image", "stack"}

\* load_phdr has its pages and reads the program, which may be too short.
ImageRead(p) ==
  \/ /\ \E size \in ImageSize : UpTo(size) = to[p] /\ heap' = [heap EXCEPT ![p] = size]
     /\ BeginAlloc(p, dir[p], StackAt, StackAt + 1, "stack")
  \/ BeginDestroy(p, dir[p], "undo") /\ UNCHANGED heap

\* copy_args fails when the page for the arguments is not there; otherwise the
\* new directory is loaded and the old one destroyed.
StackReady(p, ok) ==
  IF ok THEN cr3' = [cr3 EXCEPT ![p] = dir[p]] /\ BeginDestroy(p, cr3[p], "undo")
        ELSE UNCHANGED cr3 /\ BeginDestroy(p, dir[p], "undo")

\* What the callers do after it.  It returns 0 also when it fails.
AfterAlloc(p, ok) ==
  CASE pc[p] = "sbrk"  -> Return(p) /\ UNCHANGED <<cr3, heap>>
    [] pc[p] = "image" -> ImageRead(p) /\ UNCHANGED cr3
    [] pc[p] = "stack" -> StackReady(p, ok) /\ UNCHANGED heap

\* Now heap_end may be above the pages there are, or belong to a program that
\* exec has failed to start.
Starve(p) == starved' = starved \cup {p}

AllocPage(p) ==
  /\ Allocating(p) /\ page[p] = 0
  /\ addr_alloc_page
  /\ IF FirstFree = 0
     THEN AfterAlloc(p, FALSE) /\ Starve(p)
     ELSE page' = [page EXCEPT ![p] = FirstFree]
          /\ UNCHANGED <<pc, dir, at, to, other, cr3, heap, starved>>
  /\ UNCHANGED <<entry, stack, lost>>

\* When the page cannot be mapped, the address that addr_free_page is given is
\* the virtual one: outside the bitmap, so that the page stays taken.
AllocMap(p) ==
  LET v == at[p]
      Fails   == MapFails(dir[p], v)
      Present == ~ NeedsTable(dir[p], v) /\ Frame(entry, dir[p], v) # 0
      Maps    == ~ Fails /\ ~ Present
  IN  /\ Allocating(p) /\ page[p] # 0
      /\ IF Maps THEN memory_create_map(dir[p], v, page[p]) ELSE UNCHANGED tables
      /\ lost' = IF Fails THEN lost \cup {page[p]} ELSE lost
      /\ IF Fails THEN Starve(p) ELSE UNCHANGED starved
      /\ \/ Present /\ Goto(p, "panic") /\ UNCHANGED <<dir, at, to, page, other, cr3, heap>>
         \/ Fails /\ AfterAlloc(p, FALSE)
         \/ Maps /\ v + 1 = to[p] /\ AfterAlloc(p, TRUE)
         \/ /\ Maps /\ v + 1 < to[p]
            /\ Work(p, dir[p], v + 1, to[p]) /\ UNCHANGED <<pc, other, cr3, heap>>
      /\ UNCHANGED stack

-----------------------------------------------------------------------------
\* sys_fork

\* task_table_mutex, which sys_wait holds while it reaps and alloc_task takes.
TableFree == \A q \in Proc : pc[q] \notin {"reap", "reap_stack"}

\* tss_init allocates a kernel stack and then a directory; when one fails,
\* task_init goes on and the child has no TSS.
ForkStack(p, c) ==
  /\ pc[p] = "user" /\ pc[c] = "none" /\ TableFree
  /\ addr_alloc_page
  /\ stack' = [stack EXCEPT ![c] = FirstFree]
  /\ other' = [other EXCEPT ![p] = c]
  /\ pc' = [pc EXCEPT ![p] = IF FirstFree = 0 THEN "copy_dir" ELSE "fork_dir", ![c] = "new"]
  /\ UNCHANGED <<entry, cr3, heap, dir, at, to, page, ghosts>>

\* memory_create_uvm: an empty directory.
NewDir == addr_alloc_page /\ entry' = [entry EXCEPT ![FirstFree] = Zero]

ForkDir(p) ==
  LET c == other[p]
  IN  /\ pc[p] = "fork_dir"
      /\ IF FirstFree = 0
         THEN addr_free_page(stack[c]) /\ stack' = [stack EXCEPT ![c] = 0] /\ UNCHANGED cr3
         ELSE NewDir /\ cr3' = [cr3 EXCEPT ![c] = FirstFree] /\ UNCHANGED stack
      /\ Goto(p, "copy_dir")
      /\ UNCHANGED <<heap, dir, at, to, page, other, ghosts>>

\* memory_copy_uvm returns 0 when memory runs out, and sys_fork tests for a
\* negative number: it starts a child without page directory.  The directory
\* of tss_init is overwritten in any case.
ForkEnds(p, d) ==
  LET c == other[p]
      Runs == d # 0 /\ stack[c] # 0
  IN  /\ cr3' = [cr3 EXCEPT ![c] = d]
      /\ lost' = lost \cup ({cr3[c]} \ {0})
      /\ pc' = [pc EXCEPT ![p] = "user", ![c] = IF Runs THEN "user" ELSE "faulted"]
      /\ Work(p, 0, 0, 0)
      /\ other' = [other EXCEPT ![p] = p]
      /\ UNCHANGED <<stack, heap, starved>>  \* heap_end stays 0, as task_init sets it

CopyDir(p) ==
  /\ pc[p] = "copy_dir"
  /\ IF FirstFree = 0
     THEN ForkEnds(p, 0) /\ UNCHANGED tables
     ELSE /\ NewDir
          /\ Goto(p, "copy") /\ Work(p, FirstFree, 0, 0)
          /\ UNCHANGED <<space, other, ghosts>>

\* The pages of the parent that are still to be copied.
ToCopy(p) == {v \in Mapped(cr3[p]) : v >= at[p]}
NextCopy(p) == CHOOSE v \in ToCopy(p) : \A u \in ToCopy(p) : v <= u

CopyPage(p) ==
  /\ pc[p] = "copy" /\ page[p] = 0 /\ ToCopy(p) # {}
  /\ addr_alloc_page
  /\ IF FirstFree = 0
     THEN BeginDestroy(p, dir[p], "copy_undo")
     ELSE /\ page' = [page EXCEPT ![p] = FirstFree]
          /\ at' = [at EXCEPT ![p] = NextCopy(p)]
          /\ UNCHANGED <<pc, dir, to, other>>
  /\ UNCHANGED <<entry, space, ghosts>>

\* MUTANT of CopyMap: the child gets the parent's page.
CopyMap_Shared(p) ==
  /\ pc[p] = "copy" /\ page[p] # 0
  /\ ~ MapFails(dir[p], at[p])
  /\ memory_create_map(dir[p], at[p], Frame(entry, cr3[p], at[p]))
  /\ Work(p, dir[p], at[p] + 1, 0)
  /\ UNCHANGED <<space, pc, other, ghosts>>

\* When the page cannot be mapped it is not given back either.
CopyMap(p) ==
  /\ pc[p] = "copy" /\ page[p] # 0
  /\ IF MapFails(dir[p], at[p])
     THEN /\ BeginDestroy(p, dir[p], "copy_undo")
          /\ lost' = lost \cup {page[p]}
          /\ UNCHANGED tables
     ELSE /\ memory_create_map(dir[p], at[p], page[p])
          /\ Work(p, dir[p], at[p] + 1, 0)
          /\ UNCHANGED <<pc, other, lost>>
  /\ UNCHANGED <<space, starved>>

\* MUTANT of CopyDone: the last page is left out.
CopyDone_Early(p) ==
  /\ pc[p] = "copy" /\ page[p] = 0 /\ Cardinality(ToCopy(p)) <= 1
  /\ ForkEnds(p, dir[p])
  /\ UNCHANGED tables

CopyDone(p) ==
  /\ pc[p] = "copy" /\ page[p] = 0 /\ ToCopy(p) = {}
  /\ ForkEnds(p, dir[p])
  /\ UNCHANGED tables

-----------------------------------------------------------------------------
\* sys_execve

ExecDir(p) ==
  /\ pc[p] = "user"
  /\ FirstFree # 0   \* otherwise the call returns and nothing has changed
  /\ NewDir
  /\ Goto(p, "load") /\ Work(p, FirstFree, 0, 0)
  /\ UNCHANGED <<space, other, ghosts>>

\* load_elf_file: the file is not there, or no program.
LoadFails(p) ==
  /\ pc[p] = "load"
  /\ BeginDestroy(p, dir[p], "undo")
  /\ UNCHANGED <<tables, space, ghosts>>

\* load_phdr of a program that is one segment.
load_phdr(p, size) ==
  /\ pc[p] = "load"
  /\ BeginAlloc(p, dir[p], 0, UpTo(size), "image")
  /\ UNCHANGED <<tables, space, ghosts>>

-----------------------------------------------------------------------------
\* sys_exit and sys_wait.  Which process is whose parent is in Lifecycle.

Exit(p) ==
  /\ pc[p] = "user" /\ p # First
  /\ Goto(p, "zombie")
  /\ UNCHANGED <<tables, space, dir, at, to, page, other, ghosts>>

Reap(p, c) ==
  /\ pc[p] = "user" /\ pc[c] = "zombie" /\ TableFree
  /\ other' = [other EXCEPT ![p] = c]
  /\ cr3' = [cr3 EXCEPT ![c] = 0]
  /\ Work(p, cr3[c], 0, 0)
  /\ pc' = [pc EXCEPT ![p] = "reap", ![c] = "gone"]
  /\ UNCHANGED <<tables, stack, heap, ghosts>>

ReapStack(p) ==
  LET c == other[p]
  IN  /\ pc[p] = "reap_stack"
      /\ addr_free_page(stack[c])
      /\ stack' = [stack EXCEPT ![c] = 0]
      /\ heap' = [heap EXCEPT ![c] = 0]
      /\ starved' = starved \ {c}
      /\ pc' = [pc EXCEPT ![p] = "user", ![c] = "none"]
      /\ other' = [other EXCEPT ![p] = p]
      /\ UNCHANGED <<cr3, dir, at, to, page, lost>>

-----------------------------------------------------------------------------
\* memory_destroy_uvm

Destroying(p) == pc[p] \in {"copy_undo", "undo", "reap"}

\* MUTANT of StillHeld: the frames behind the first table are forgotten.
StillHeld_OneTable(p) ==
  {k \in Place : k >= at[p] /\ k <= NrPte /\ PageAt(dir[p], k) # 0}

StillHeld(p) == {k \in Place : k >= at[p] /\ PageAt(dir[p], k) # 0}

FreeNext(p) ==
  LET k == CHOOSE x \in StillHeld(p) : \A y \in StillHeld(p) : x <= y
  IN  /\ Destroying(p) /\ StillHeld(p) # {}
      /\ addr_free_page(PageAt(dir[p], k))
      /\ at' = [at EXCEPT ![p] = k + 1]
      /\ UNCHANGED <<space, pc, dir, to, page, other, ghosts>>

FreeDir(p) ==
  /\ Destroying(p) /\ StillHeld(p) = {}
  /\ addr_free_page(dir[p])
  /\ CASE pc[p] = "copy_undo" -> ForkEnds(p, 0)
       [] pc[p] = "undo" -> Return(p) /\ UNCHANGED <<space, ghosts>>
       [] pc[p] = "reap" -> /\ Goto(p, "reap_stack") /\ Work(p, 0, 0, 0)
                            /\ UNCHANGED <<space, other, ghosts>>

-----------------------------------------------------------------------------
\* One process that has executed a program of one page.
MemoryInit ==
  /\ used = 1..6
  /\ entry = [x \in Page |->
                CASE x = 2 -> [Zero EXCEPT ![0] = 3, ![StackAt \div NrPte] = 5]
                  [] x = 3 -> [Zero EXCEPT ![0] = 4]
                  [] x = 5 -> [Zero EXCEPT ![StackAt % NrPte] = 6]
                  [] OTHER -> Junk]
  /\ stack = [p \in Proc |-> IF p = First THEN 1 ELSE 0]
  /\ cr3   = [p \in Proc |-> IF p = First THEN 2 ELSE 0]
  /\ heap  = [p \in Proc |-> IF p = First THEN 1 ELSE 0]
  /\ pc    = [p \in Proc |-> IF p = First THEN "user" ELSE "none"]
  /\ dir   = [p \in Proc |-> 0] /\ page = [p \in Proc |-> 0]
  /\ at    = [p \in Proc |-> 0] /\ to = [p \in Proc |-> 0]
  /\ other = [p \in Proc |-> p]
  /\ lost = {} /\ starved = {}

Step(p) ==
  \/ \E incr \in Incr : sys_sbrk(p, incr)
  \/ SbrkBelow(p) \/ AllocPage(p) \/ AllocMap(p)
  \/ \E c \in Proc : ForkStack(p, c)
  \/ ForkDir(p) \/ CopyDir(p) \/ CopyPage(p) \/ CopyMap(p) \/ CopyDone(p)
  \/ ExecDir(p) \/ LoadFails(p) \/ \E size \in ImageSize : load_phdr(p, size)
  \/ Exit(p) \/ \E c \in Proc : Reap(p, c)
  \/ ReapStack(p)
  \/ FreeNext(p) \/ FreeDir(p)

\* An assertion that fails stops the kernel.
MemoryNext == (\A p \in Proc : pc[p] # "panic") /\ \E p \in Proc : Step(p)
MemorySpec == MemoryInit /\ [][MemoryNext]_mvars

-----------------------------------------------------------------------------
\* The type invariant of the allocator and the tables (addr_alloc_t, pde_t,
\* pte_t, tss.cr3): a page number or none.
MemoryTypeOK ==
  /\ used \subseteq Page /\ lost \subseteq Page /\ starved \subseteq Proc
  /\ entry \in [Page -> [Index -> Page \cup {0}]]
  /\ {cr3[p] : p \in Proc} \cup {stack[p] : p \in Proc} \cup {dir[p] : p \in Proc}
       \cup {page[p] : p \in Proc} \subseteq Page \cup {0}
  /\ \A p \in Proc : heap[p] \in 0..MaxHeap /\ other[p] \in Proc
  /\ \A p \in Proc : at[p] \in 0..(NrPde * (NrPte + 1)) /\ to[p] \in 0..(StackAt + 1)

\* Who refers to which page: an address space by its directory and what is in
\* it, a process by its kernel stack, a call by the page it has in hand and by
\* the address space it makes or destroys.
Spaces == {[use |-> "own", of |-> p, dir |-> cr3[p], from |-> 0] : p \in Proc} \cup
          {[use |-> "work", of |-> p, dir |-> dir[p],
            from |-> IF Destroying(p) THEN at[p] ELSE 0] :
             p \in {q \in Proc : dir[q] # cr3[q]}}

SpaceRefs(s) ==
  IF s.dir = 0 THEN {}
  ELSE {<<s.use, s.of, -1, s.dir>>} \cup
       {<<s.use, s.of, k, PageAt(s.dir, k)>> : k \in {j \in Place : j >= s.from}}

References ==
  {r \in (UNION {SpaceRefs(s) : s \in Spaces})
        \cup {<<"stack", p, 0, stack[p]>> : p \in Proc}
        \cup {<<"page", p, 0, page[p]>> : p \in Proc}
        \cup {<<"lost", First, x, x>> : x \in lost} : r[4] # 0}

\* A page that is taken has exactly one use, and a page that is in use is
\* taken: no page is in two address spaces, none is freed while a table still
\* refers to it, and none gets lost but in the places that lost names, whatever
\* fork, exec, sbrk and wait run into (addr_alloc_page, memory_create_map,
\* memory_copy_uvm, memory_destroy_uvm).
PagesAccounted ==
  /\ {r[4] : r \in References} = used
  /\ Cardinality(References) = Cardinality(used)

MapAssertion == \A p \in Proc \ starved : pc[p] = "panic" => heap[p] = 0

\* A program's image and heap have pages up to heap_end, unless memory has run
\* out (sys_sbrk counts in bytes and maps pages); and the assertion of
\* memory_create_map, that the page it is to map is not present, fails only for
\* a process that has run out of memory, or that calls sbrk between its fork
\* and an exec.
HeapMapped ==
  /\ MapAssertion
  /\ \A p \in Proc \ starved : pc[p] = "user" /\ heap[p] > 0 =>
       0..(UpTo(heap[p]) - 1) \subseteq Mapped(cr3[p])

\* A child that runs has the pages of its parent at the time of the fork, no
\* more and no less (memory_copy_uvm).
ChildComplete ==
  [][\A p, c \in Proc : pc[p] = "copy" /\ pc'[p] = "user" /\ other[p] = c =>
       Mapped(cr3[c])' = Mapped(cr3[p])]_mvars

=============================================================================
