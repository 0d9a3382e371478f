-------------------------------- MODULE Selectors ------------------------------
(****************************************************************************)
(* The descriptors of the GDT that processes take: gdt_alloc_desc and       *)
(* gdt_free_sel of kernel/cpu/cpu.c, and their callers tss_init, task_init  *)
(* and sys_wait of kernel/core/task.c.                                      *)
(*                                                                          *)
(* gdt_alloc_desc looks for a descriptor under a mutex and does not reserve *)
(* it; segment_desc_set, which marks it, takes no mutex.  A fork is         *)
(* preempted between any two of these calls.  Forks of the model take       *)
(* different slots of task_table.                                           *)
(****************************************************************************)
EXTENDS Naturals, FiniteSets

CONSTANTS
  Proc,    \* slots of task_table
  GdtSize  \* descriptors that are free when first_task starts

ASSUME SelectorsAssumption == GdtSize \in Nat

VARIABLES
  gdt,      \* the descriptors with attr # 0
  tss_sel,  \* task_t.tss_sel; 0 in a cleared slot
  stage,    \* where the fork that makes each slot is
  found,    \* tss_sel in tss_init: what gdt_alloc_desc has returned
  leaked,   \* history: descriptors of the tasks that sys_wait has cleared, and
            \* whether their forks had crossed others
  crossed   \* history: slots whose fork crossed another in an open window

selvars == <<gdt, tss_sel, stage, found, leaked, crossed>>

Sel  == 1..GdtSize
NoSel == 0   \* also the selector of a cleared slot

SelectorsInit ==
  /\ gdt     = {}
  /\ tss_sel = [p \in Proc |-> NoSel]
  /\ stage   = [p \in Proc |-> "free"]
  /\ found   = [p \in Proc |-> NoSel]
  /\ leaked  = {}
  /\ crossed = {}

-----------------------------------------------------------------------------
FromTo(p, a, b) == stage[p] = a /\ stage' = [stage EXCEPT ![p] = b]

\* The other slots whose fork has found, or whose task has, a descriptor.
Others(p, s) == {q \in Proc \ {p} : s \in {found[q], tss_sel[q]}}

\* The first free descriptor of the table, or none.
Lowest(free) == IF free = {} THEN NoSel ELSE CHOOSE s \in free : \A r \in free : s <= r

\* tss_init, called by task_init for a fork.
gdt_alloc_desc(p) ==
  /\ LET s == Lowest(Sel \ gdt)
         w == IF s = NoSel THEN {} ELSE Others(p, s)
     IN /\ FromTo(p, "free", IF s = NoSel THEN "broken" ELSE "found")
        /\ found' = [found EXCEPT ![p] = s]
        /\ crossed' = IF w = {} THEN crossed ELSE crossed \cup w \cup {p}
  /\ UNCHANGED <<gdt, tss_sel, leaked>>

\* MUTANT of segment_desc_set: the descriptor is left absent.
segment_desc_set_Absent(p) ==
  /\ FromTo(p, "found", "marked")
  /\ UNCHANGED <<gdt, tss_sel, found, leaked, crossed>>

segment_desc_set(p) ==
  /\ FromTo(p, "found", "marked")
  /\ gdt' = gdt \cup {found[p]}
  /\ UNCHANGED <<tss_sel, found, leaked, crossed>>

\* tss_init goes well, and the task runs.
TssDone(p) ==
  /\ FromTo(p, "marked", "live")
  /\ tss_sel' = [tss_sel EXCEPT ![p] = found[p]]
  /\ found' = [found EXCEPT ![p] = NoSel]
  /\ UNCHANGED <<gdt, leaked, crossed>>

\* gdt_free_sel.
Unmark(p) ==
  /\ gdt' = gdt \ {found[p]}
  /\ crossed' = crossed \cup Others(p, found[p])

\* memory_create_uvm finds no page: gdt_free_sel, and then the code at
\* tss_init_failed calls it again.
NoDirectory(p) ==
  /\ FromTo(p, "marked", "again")
  /\ Unmark(p)
  /\ UNCHANGED <<tss_sel, found, leaked>>

\* MUTANT of TssFailed: the descriptor is not given back.
TssFailed_Kept(p) ==
  /\ FromTo(p, "marked", "broken") \/ FromTo(p, "again", "broken")
  /\ found' = [found EXCEPT ![p] = NoSel]
  /\ UNCHANGED <<gdt, tss_sel, leaked, crossed>>

\* tss_init_failed, from there or because there is no page for the stack.
\* task_init ignores the failure, and sys_fork starts a task without a TSS.
\* Whoever has taken the descriptor in the meantime loses the mark.
TssFailed(p) ==
  /\ FromTo(p, "marked", "broken") \/ FromTo(p, "again", "broken")
  /\ Unmark(p)
  /\ found' = [found EXCEPT ![p] = NoSel]
  /\ UNCHANGED <<tss_sel, leaked>>

\* sys_wait clears the task_t of a zombie, without task_uninit: nobody gives
\* its descriptor back.
Clear(p) ==
  /\ FromTo(p, "live", "free")
  /\ tss_sel' = [tss_sel EXCEPT ![p] = NoSel]
  /\ leaked' = leaked \cup {<<tss_sel[p], p \in crossed>>}
  /\ crossed' = crossed \ {p}
  /\ UNCHANGED <<gdt, found>>

\* The far jump to selector 0 faults in the kernel, which then halts.
Fault(p) == stage[p] = "broken" /\ UNCHANGED selvars

SelectorsNext ==
  \E p \in Proc :
    \/ gdt_alloc_desc(p) \/ segment_desc_set(p) \/ TssDone(p)
    \/ NoDirectory(p) \/ TssFailed(p) \/ Clear(p) \/ Fault(p)

SelectorsSpec == SelectorsInit /\ [][SelectorsNext]_selvars

-----------------------------------------------------------------------------
LiveTasks == {p \in Proc : stage[p] = "live"}

\* A live task has a descriptor of its own, that is marked as used, unless its
\* fork crossed another between gdt_alloc_desc and segment_desc_set, or between
\* the two gdt_free_sel of a failure: these are the only windows.  And every
\* descriptor that is used belongs to a task, to a fork under way, or was lost
\* when sys_wait cleared a task: after GdtSize processes no fork gets one.
SelectorsOwned ==
  /\ \A p \in LiveTasks \ crossed :
       /\ tss_sel[p] \in gdt
       /\ \A q \in LiveTasks \ (crossed \cup {p}) : tss_sel[p] # tss_sel[q]
  /\ gdt \subseteq {l[1] : l \in leaked} \cup {tss_sel[p] : p \in LiveTasks}
       \cup {found[p] : p \in {q \in Proc : stage[q] = "marked"}}
  /\ \A l \in leaked : l[2] \/ l[1] \in gdt
=============================================================================
