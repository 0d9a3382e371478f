------------------------------ MODULE DeviceProofs -----------------------------
(****************************************************************************)
(* The safety properties of the components of MCDevices that are machines   *)
(* of their own, proved for every size: the descriptors of the GDT, the     *)
(* remembered commands and the line of the shell, the screen of a console,  *)
(* the keyboard, the linked lists, and the clock and its calendars.  Each    *)
(* has an inductive invariant: SelInv, LineInv, ConsoleInv, KeyInv, LInv,   *)
(* and ReadInv with WalkInv.                                                *)
(****************************************************************************)
EXTENDS LineEdit, Console, Keyboard, Selectors, LinkedList, Clock,
        SequenceTheorems, FiniteSetTheorems, WellFoundedInduction, TLAPS

(* Every non-empty set of natural numbers has a least element. *)
LEMMA NatMin ==
  ASSUME NEW S \in SUBSET Nat, S # {}
  PROVE  \E x \in S : \A y \in S : x <= y
<1> DEFINE T == {0..k : k \in S}
<1>1. T \subseteq FiniteSubsetsOf(Nat) /\ T # {}
  <2>1. \A k \in S : 0..k \subseteq Nat /\ IsFiniteSet(0..k)
    BY FS_Interval
  <2> QED
    BY <2>1 DEF FiniteSubsetsOf
<1>2. PICK I \in T : \A J \in T : ~ (<<J, I>> \in StrictSubsetOrdering(Nat))
  <2> HIDE DEF T
  <2> QED
    BY <1>1, WFMin, FS_StrictSubsetOrderingWellFounded
<1>3. PICK x \in S : I = 0..x
  OBVIOUS
<1>4. ASSUME NEW y \in S, y < x
      PROVE  FALSE
  <2>1. 0..y \in T /\ x \in Nat /\ y \in Nat
    OBVIOUS
  <2>2. 0..y \subseteq I /\ x \in I /\ x \notin 0..y
    BY <1>3, <1>4, <2>1
  <2>3. 0..y \in SUBSET Nat /\ I \in SUBSET Nat
    BY <1>3
  <2> HIDE DEF T
  <2> QED
    BY <1>2, <2>1, <2>2, <2>3 DEF StrictSubsetOrdering
<1> QED
  BY <1>4

-----------------------------------------------------------------------------
\* Descriptors: Selectors.

Stage == {"free", "found", "marked", "again", "live", "broken"}

SelectorsTypeOK ==
  /\ gdt \subseteq Sel
  /\ stage \in [Proc -> Stage]
  /\ found \in [Proc -> Sel \cup {NoSel}]
  /\ tss_sel \in [Proc -> Sel \cup {NoSel}]
  /\ crossed \subseteq Proc
  /\ leaked \subseteq Sel \X BOOLEAN

\* A fork has found a descriptor from gdt_alloc_desc on until tss_init ends; a
\* task has one while it is in the table.
StagesKnown ==
  \A p \in Proc :
    /\ found[p] # NoSel <=> stage[p] \in {"found", "marked", "again"}
    /\ tss_sel[p] # NoSel <=> stage[p] = "live"

\* Whoever has crossed nobody shares its descriptor with nobody.
ApartUnlessCrossed ==
  \A p \in Proc \ crossed, q \in Proc :
    p # q => \A s \in Sel : s \in {found[p], tss_sel[p]} => s \notin {found[q], tss_sel[q]}

\* Whoever has crossed nobody keeps the mark on its descriptor.
MarkedUnlessCrossed ==
  \A p \in Proc \ crossed :
    /\ stage[p] = "live" => tss_sel[p] \in gdt
    /\ stage[p] = "marked" => found[p] \in gdt

\* A lost descriptor is in use by nobody, so nobody takes its mark away.
LostForGood ==
  \A l \in leaked :
    l[2] \/ (l[1] \in gdt /\ \A q \in Proc : l[1] \notin {found[q], tss_sel[q]})

MarksExplained ==
  gdt \subseteq {l[1] : l \in leaked} \cup {tss_sel[p] : p \in LiveTasks}
    \cup {found[p] : p \in {q \in Proc : stage[q] = "marked"}}

SelInv ==
  /\ SelectorsTypeOK /\ StagesKnown /\ ApartUnlessCrossed
  /\ MarkedUnlessCrossed /\ LostForGood /\ MarksExplained

(* The invariant says what the run checks.                                  *)
LEMMA SelInvImplies == SelInv => SelectorsOwned
<1> SUFFICES ASSUME SelInv  PROVE SelectorsOwned
  OBVIOUS
<1>1. ASSUME NEW p \in LiveTasks \ crossed
      PROVE  /\ tss_sel[p] \in gdt
             /\ \A q \in LiveTasks \ (crossed \cup {p}) : tss_sel[p] # tss_sel[q]
  <2>1. p \in Proc /\ p \notin crossed /\ stage[p] = "live" /\ tss_sel[p] # NoSel
    BY DEF LiveTasks, SelInv, StagesKnown
  <2>2. tss_sel[p] \in Sel
    BY <2>1 DEF SelInv, SelectorsTypeOK
  <2>3. tss_sel[p] \in gdt
    BY <2>1 DEF SelInv, MarkedUnlessCrossed
  <2>4. ASSUME NEW q \in LiveTasks \ (crossed \cup {p})  PROVE tss_sel[p] # tss_sel[q]
    <3>1. q \in Proc /\ p # q
      BY DEF LiveTasks
    <3> QED
      BY <2>1, <2>2, <3>1 DEF SelInv, ApartUnlessCrossed
  <2> QED
    BY <2>3, <2>4
<1>2. \A l \in leaked : l[2] \/ l[1] \in gdt
  BY DEF SelInv, LostForGood
<1> QED
  BY <1>1, <1>2 DEF SelectorsOwned, SelInv, MarksExplained

(* No process has a descriptor yet.                                         *)
LEMMA SelInitInv == SelectorsInit => SelInv
BY SelectorsAssumption
DEF SelectorsInit, SelInv, SelectorsTypeOK, StagesKnown, ApartUnlessCrossed,
    MarkedUnlessCrossed, LostForGood, MarksExplained, LiveTasks, Sel, NoSel, Stage

(* gdt_alloc_desc takes a descriptor that has no mark, if there is one.     *)
LEMMA LowestIsFree ==
  ASSUME NEW F \in SUBSET Sel
  PROVE  IF F = {} THEN Lowest(F) = NoSel ELSE Lowest(F) \in F
<1>1. CASE F = {}
  BY <1>1 DEF Lowest
<1>2. CASE F # {}
  <2>1. F \subseteq Nat
    BY SelectorsAssumption DEF Sel
  <2>2. \E x \in F : \A y \in F : x <= y
    BY <1>2, <2>1, NatMin
  <2> QED
    BY <1>2, <2>2 DEF Lowest
<1> QED
  BY <1>1, <1>2

(* A fork looks for a descriptor.                                           *)
LEMMA AllocInv ==
  ASSUME SelInv, NEW p \in Proc, gdt_alloc_desc(p)
  PROVE  SelInv'
<1>1. PICK s : s = Lowest(Sel \ gdt)
  OBVIOUS
<1>2. /\ s = NoSel \/ s \in Sel \ gdt
      /\ NoSel \notin Sel
  BY <1>1, LowestIsFree, SelectorsAssumption DEF Sel, NoSel
<1>3. PICK w : w = IF s = NoSel THEN {} ELSE Others(p, s)
  OBVIOUS
<1>4. /\ stage[p] = "free"
      /\ stage' = [stage EXCEPT ![p] = IF s = NoSel THEN "broken" ELSE "found"]
      /\ found' = [found EXCEPT ![p] = s]
      /\ crossed' = IF w = {} THEN crossed ELSE crossed \cup w \cup {p}
      /\ gdt' = gdt /\ tss_sel' = tss_sel /\ leaked' = leaked
  BY <1>1, <1>3 DEF gdt_alloc_desc, FromTo
<1>5. w \subseteq Proc
  BY <1>3 DEF Others
<1>6. SelectorsTypeOK'
  BY <1>2, <1>4, <1>5 DEF SelInv, SelectorsTypeOK, Stage
<1>7. found[p] = NoSel /\ tss_sel[p] = NoSel
  BY <1>4 DEF SelInv, StagesKnown
<1>8. StagesKnown'
  BY <1>2, <1>4, <1>7 DEF SelInv, StagesKnown, SelectorsTypeOK
<1>9. ApartUnlessCrossed'
  <2> SUFFICES ASSUME NEW a \in Proc, a \notin crossed', NEW b \in Proc, a # b,
                      NEW x \in Sel, x \in {found'[a], tss_sel'[a]},
                      x \in {found'[b], tss_sel'[b]}
               PROVE  FALSE
    BY DEF ApartUnlessCrossed
  <2>1. a \notin crossed
    BY <1>4
  <2>2. x # NoSel
    BY <1>2
  <2>3. CASE a = p
    <3>1. x = s /\ x \in {found[b], tss_sel[b]}
      BY <1>4, <1>7, <2>2, <2>3 DEF SelInv, SelectorsTypeOK
    <3>2. b \in w
      BY <1>3, <2>2, <2>3, <3>1 DEF Others
    <3> QED
      BY <1>4, <2>3, <3>2
  <2>4. CASE a # p
    <3>1. x \in {found[a], tss_sel[a]}
      BY <1>4, <2>4 DEF SelInv, SelectorsTypeOK
    <3>2. CASE b = p
      <4>1. x = s
        BY <1>4, <1>7, <2>2, <3>2 DEF SelInv, SelectorsTypeOK
      <4>2. a \in w
        BY <1>3, <2>2, <2>4, <3>1, <4>1 DEF Others
      <4> QED
        BY <1>4, <4>2
    <3>3. CASE b # p
      BY <1>4, <2>1, <3>1, <3>3 DEF SelInv, SelectorsTypeOK, ApartUnlessCrossed
    <3> QED
      BY <3>2, <3>3
  <2> QED
    BY <2>3, <2>4
<1>10. MarkedUnlessCrossed'
  BY <1>4 DEF SelInv, SelectorsTypeOK, MarkedUnlessCrossed
<1>11. LostForGood'
  <2> SUFFICES ASSUME NEW l \in leaked, ~ l[2], NEW q \in Proc
               PROVE  l[1] \in gdt /\ l[1] \notin {found'[q], tss_sel'[q]}
    BY <1>4 DEF LostForGood
  <2>1. l[1] \in gdt /\ l[1] \notin {found[q], tss_sel[q]}
    BY DEF SelInv, LostForGood
  <2>2. l[1] # s
    BY <1>2, <2>1 DEF SelInv, SelectorsTypeOK
  <2> QED
    BY <1>4, <2>1, <2>2 DEF SelInv, SelectorsTypeOK
<1>12. MarksExplained'
  <2>1. LiveTasks' = LiveTasks
    BY <1>4 DEF LiveTasks, SelInv, SelectorsTypeOK
  <2>2. {q \in Proc : stage'[q] = "marked"} = {q \in Proc : stage[q] = "marked"}
    BY <1>4 DEF SelInv, SelectorsTypeOK
  <2>3. \A q \in Proc : stage[q] = "marked" => found'[q] = found[q]
    BY <1>4 DEF SelInv, SelectorsTypeOK
  <2> QED
    BY <1>4, <2>1, <2>2, <2>3 DEF SelInv, MarksExplained
<1> QED
  BY <1>6, <1>8, <1>9, <1>10, <1>11, <1>12 DEF SelInv

(* It marks what it has found.                                              *)
LEMMA MarkInv ==
  ASSUME SelInv, NEW p \in Proc, segment_desc_set(p)
  PROVE  SelInv'
<1>1. /\ stage[p] = "found" /\ stage' = [stage EXCEPT ![p] = "marked"]
      /\ gdt' = gdt \cup {found[p]}
      /\ tss_sel' = tss_sel /\ found' = found /\ leaked' = leaked
      /\ crossed' = crossed
  BY DEF segment_desc_set, FromTo
<1>2. found[p] # NoSel
  BY <1>1 DEF SelInv, StagesKnown
<1>3. SelectorsTypeOK'
  BY <1>1, <1>2 DEF SelInv, SelectorsTypeOK, Stage
<1>4. StagesKnown' /\ ApartUnlessCrossed'
  BY <1>1 DEF SelInv, SelectorsTypeOK, StagesKnown, ApartUnlessCrossed
<1>5. MarkedUnlessCrossed' /\ LostForGood'
  BY <1>1 DEF SelInv, SelectorsTypeOK, MarkedUnlessCrossed, LostForGood
<1>6. MarksExplained'
  <2>1. LiveTasks' = LiveTasks
    BY <1>1 DEF LiveTasks, SelInv, SelectorsTypeOK
  <2>2. {q \in Proc : stage'[q] = "marked"} = {q \in Proc : stage[q] = "marked"} \cup {p}
    BY <1>1 DEF SelInv, SelectorsTypeOK
  <2> QED
    BY <1>1, <2>1, <2>2 DEF SelInv, MarksExplained
<1> QED
  BY <1>3, <1>4, <1>5, <1>6 DEF SelInv

(* tss_init ends, and the task keeps the descriptor.                        *)
LEMMA TssDoneInv ==
  ASSUME SelInv, NEW p \in Proc, TssDone(p)
  PROVE  SelInv'
<1>1. /\ stage[p] = "marked" /\ stage' = [stage EXCEPT ![p] = "live"]
      /\ tss_sel' = [tss_sel EXCEPT ![p] = found[p]]
      /\ found' = [found EXCEPT ![p] = NoSel]
      /\ gdt' = gdt /\ leaked' = leaked /\ crossed' = crossed
  BY DEF TssDone, FromTo
<1>2. found[p] # NoSel /\ NoSel \notin Sel
  BY <1>1, SelectorsAssumption DEF SelInv, StagesKnown, Sel, NoSel
<1>3. SelectorsTypeOK'
  BY <1>1 DEF SelInv, SelectorsTypeOK, Stage
<1>4. StagesKnown'
  BY <1>1, <1>2 DEF SelInv, SelectorsTypeOK, StagesKnown
<1>5. \A q \in Proc : \A x \in Sel :
        x \in {found'[q], tss_sel'[q]} => x \in {found[q], tss_sel[q]}
  BY <1>1, <1>2 DEF SelInv, SelectorsTypeOK
<1>6. ApartUnlessCrossed'
  BY <1>1, <1>5 DEF SelInv, ApartUnlessCrossed
<1>7. MarkedUnlessCrossed'
  BY <1>1 DEF SelInv, SelectorsTypeOK, MarkedUnlessCrossed
<1>8. LostForGood'
  BY <1>1, <1>5 DEF SelInv, SelectorsTypeOK, LostForGood
<1>9. MarksExplained'
  <2>1. LiveTasks' = LiveTasks \cup {p}
    BY <1>1 DEF LiveTasks, SelInv, SelectorsTypeOK
  <2>2. \A q \in Proc : stage[q] = "marked" =>
          \/ stage'[q] = "marked" /\ found'[q] = found[q]
          \/ q = p /\ tss_sel'[p] = found[p]
    BY <1>1 DEF SelInv, SelectorsTypeOK
  <2>3. \A q \in LiveTasks : tss_sel'[q] = tss_sel[q]
    BY <1>1 DEF LiveTasks, SelInv, SelectorsTypeOK
  <2> QED
    BY <1>1, <2>1, <2>2, <2>3 DEF SelInv, MarksExplained
<1> QED
  BY <1>3, <1>4, <1>6, <1>7, <1>8, <1>9 DEF SelInv

(* gdt_free_sel: the mark is gone, for all who have the descriptor; they    *)
(* are crossed then.                                                        *)
LEMMA UnmarkInv ==
  ASSUME SelInv, NEW p \in Proc, stage[p] \in {"marked", "again"},
         NEW to \in {"again", "broken"}, NEW f,
         stage' = [stage EXCEPT ![p] = to], Unmark(p),
         f = IF to = "again" THEN found[p] ELSE NoSel,
         found' = [found EXCEPT ![p] = f],
         tss_sel' = tss_sel, leaked' = leaked
  PROVE  SelInv'
<1>1. /\ gdt' = gdt \ {found[p]}
      /\ crossed' = crossed \cup Others(p, found[p])
  BY DEF Unmark
<1>2. /\ found[p] # NoSel /\ NoSel \notin Sel /\ found[p] \in Sel
      /\ Others(p, found[p]) \subseteq Proc
  BY SelectorsAssumption
  DEF SelInv, SelectorsTypeOK, StagesKnown, Sel, NoSel, Others
<1>3. SelectorsTypeOK'
  BY <1>1, <1>2 DEF SelInv, SelectorsTypeOK, Stage
<1>4. StagesKnown'
  BY <1>2 DEF SelInv, SelectorsTypeOK, StagesKnown
<1>5. \A q \in Proc : \A x \in Sel :
        x \in {found'[q], tss_sel'[q]} => x \in {found[q], tss_sel[q]}
  BY <1>2 DEF SelInv, SelectorsTypeOK
<1>6. ApartUnlessCrossed'
  BY <1>1, <1>5 DEF SelInv, ApartUnlessCrossed
<1>7. MarkedUnlessCrossed'
  <2> SUFFICES ASSUME NEW q \in Proc, q \notin crossed'
               PROVE  /\ stage'[q] = "live" => tss_sel'[q] \in gdt'
                      /\ stage'[q] = "marked" => found'[q] \in gdt'
    BY DEF MarkedUnlessCrossed
  <2>1. CASE q = p
    BY <2>1 DEF SelInv, SelectorsTypeOK
  <2>2. CASE q # p
    <3>1. q \notin crossed /\ found[p] \notin {found[q], tss_sel[q]}
      BY <1>1, <2>2 DEF Others
    <3> QED
      BY <1>1, <2>2, <3>1 DEF SelInv, SelectorsTypeOK, MarkedUnlessCrossed
  <2> QED
    BY <2>1, <2>2
<1>8. LostForGood'
  <2> SUFFICES ASSUME NEW l \in leaked, ~ l[2], NEW q \in Proc
               PROVE  l[1] \in gdt' /\ l[1] \notin {found'[q], tss_sel'[q]}
    BY DEF LostForGood
  <2>1. /\ l[1] \in gdt /\ l[1] \in Sel /\ l[1] # found[p]
        /\ l[1] \notin {found[q], tss_sel[q]}
    BY DEF SelInv, LostForGood, SelectorsTypeOK
  <2> QED
    BY <1>1, <1>5, <2>1
<1>9. MarksExplained'
  <2>1. LiveTasks' = LiveTasks
    BY DEF LiveTasks, SelInv, SelectorsTypeOK
  <2>2. \A q \in Proc : stage[q] = "marked" =>
          \/ stage'[q] = "marked" /\ found'[q] = found[q]
          \/ found[q] = found[p]
    BY DEF SelInv, SelectorsTypeOK
  <2> QED
    BY <1>1, <2>1, <2>2 DEF SelInv, MarksExplained
<1> QED
  BY <1>3, <1>4, <1>6, <1>7, <1>8, <1>9 DEF SelInv

(* sys_wait forgets the descriptor of the task it clears.                   *)
LEMMA ClearInv ==
  ASSUME SelInv, NEW p \in Proc, Clear(p)
  PROVE  SelInv'
<1>1. /\ stage[p] = "live" /\ stage' = [stage EXCEPT ![p] = "free"]
      /\ tss_sel' = [tss_sel EXCEPT ![p] = NoSel]
      /\ leaked' = leaked \cup {<<tss_sel[p], p \in crossed>>}
      /\ crossed' = crossed \ {p}
      /\ gdt' = gdt /\ found' = found
  BY DEF Clear, FromTo
<1>2. /\ found[p] = NoSel /\ NoSel \notin Sel /\ tss_sel[p] \in Sel
  BY <1>1, SelectorsAssumption
  DEF SelInv, SelectorsTypeOK, StagesKnown, Sel, NoSel
<1>3. SelectorsTypeOK'
  <2>1. <<tss_sel[p], p \in crossed>> \in Sel \X BOOLEAN
    <3>1. CASE p \in crossed
      <4>1. (p \in crossed) = TRUE
        BY <3>1
      <4>2. <<tss_sel[p], TRUE>> \in Sel \X BOOLEAN
        BY <1>2
      <4> QED
        BY <4>1, <4>2
    <3>2. CASE p \notin crossed
      <4>1. (p \in crossed) = FALSE
        BY <3>2
      <4>2. <<tss_sel[p], FALSE>> \in Sel \X BOOLEAN
        BY <1>2
      <4> QED
        BY <4>1, <4>2
    <3> QED
      BY <3>1, <3>2
  <2> QED
    BY <1>1, <2>1 DEF SelInv, SelectorsTypeOK, Stage
<1>4. StagesKnown'
  BY <1>1 DEF SelInv, SelectorsTypeOK, StagesKnown
<1>5. \A q \in Proc : \A x \in Sel :
        x \in {found'[q], tss_sel'[q]} => q # p /\ x \in {found[q], tss_sel[q]}
  BY <1>1, <1>2 DEF SelInv, SelectorsTypeOK
<1>6. ApartUnlessCrossed'
  BY <1>1, <1>5 DEF SelInv, ApartUnlessCrossed
<1>7. MarkedUnlessCrossed'
  BY <1>1 DEF SelInv, SelectorsTypeOK, MarkedUnlessCrossed
<1>8. LostForGood'
  <2> SUFFICES ASSUME NEW l \in leaked', ~ l[2], NEW q \in Proc
               PROVE  l[1] \in gdt /\ l[1] \notin {found'[q], tss_sel'[q]}
    BY <1>1 DEF LostForGood
  <2>1. CASE l \in leaked
    <3>1. l[1] \in gdt /\ l[1] \in Sel /\ l[1] \notin {found[q], tss_sel[q]}
      BY <2>1 DEF SelInv, LostForGood, SelectorsTypeOK
    <3> QED
      BY <1>5, <3>1
  <2>2. CASE l \notin leaked
    <3>1. l = <<tss_sel[p], p \in crossed>>
      BY <1>1, <2>2
    <3>2. l[1] = tss_sel[p] /\ p \notin crossed
      BY <3>1
    <3>3. l[1] \in gdt
      BY <1>1, <3>2 DEF SelInv, MarkedUnlessCrossed
    <3>4. q # p => l[1] \notin {found[q], tss_sel[q]}
      BY <1>2, <3>2 DEF SelInv, ApartUnlessCrossed
    <3> QED
      BY <1>2, <1>5, <3>2, <3>3, <3>4
  <2> QED
    BY <2>1, <2>2
<1>9. MarksExplained'
  <2>1. LiveTasks \subseteq LiveTasks' \cup {p}
    BY <1>1 DEF LiveTasks, SelInv, SelectorsTypeOK
  <2>2. \A q \in LiveTasks' : tss_sel'[q] = tss_sel[q]
    BY <1>1 DEF LiveTasks, SelInv, SelectorsTypeOK
  <2>3. {q \in Proc : stage'[q] = "marked"} = {q \in Proc : stage[q] = "marked"}
    BY <1>1 DEF SelInv, SelectorsTypeOK
  <2>4. /\ {l[1] : l \in leaked} \subseteq {l[1] : l \in leaked'}
        /\ tss_sel[p] \in {l[1] : l \in leaked'}
    <3>1. leaked \subseteq leaked'
      BY <1>1
    <3>2. PICK l \in leaked' : l = <<tss_sel[p], p \in crossed>>
      BY <1>1
    <3>3. l[1] = tss_sel[p]
      BY <3>2
    <3> QED
      BY <3>1, <3>2, <3>3
  <2> QED
    BY <1>1, <2>1, <2>2, <2>3, <2>4 DEF SelInv, MarksExplained
<1> QED
  BY <1>3, <1>4, <1>6, <1>7, <1>8, <1>9 DEF SelInv

(* Every step of a fork, and sys_wait, keep the invariant.                  *)
LEMMA SelNextInv == SelInv /\ [SelectorsNext]_selvars => SelInv'
<1> SUFFICES ASSUME SelInv, [SelectorsNext]_selvars  PROVE SelInv'
  OBVIOUS
<1>1. ASSUME NEW p \in Proc, gdt_alloc_desc(p)  PROVE SelInv'
  BY <1>1, AllocInv
<1>2. ASSUME NEW p \in Proc, segment_desc_set(p)  PROVE SelInv'
  BY <1>2, MarkInv
<1>3. ASSUME NEW p \in Proc, TssDone(p)  PROVE SelInv'
  BY <1>3, TssDoneInv
<1>4. ASSUME NEW p \in Proc, NoDirectory(p)  PROVE SelInv'
  <2>1. /\ stage[p] = "marked" /\ stage' = [stage EXCEPT ![p] = "again"]
        /\ Unmark(p) /\ found' = found /\ tss_sel' = tss_sel /\ leaked' = leaked
    BY <1>4 DEF NoDirectory, FromTo
  <2>2. PICK f : f = found[p]
    OBVIOUS
  <2>3. found' = [found EXCEPT ![p] = f]
    BY <2>1, <2>2 DEF SelInv, SelectorsTypeOK
  <2>4. f = IF "again" = "again" THEN found[p] ELSE NoSel
    BY <2>2
  <2> QED
    BY <2>1, <2>3, <2>4, UnmarkInv
<1>5. ASSUME NEW p \in Proc, TssFailed(p)  PROVE SelInv'
  <2>1. /\ stage[p] \in {"marked", "again"}
        /\ stage' = [stage EXCEPT ![p] = "broken"]
        /\ Unmark(p) /\ found' = [found EXCEPT ![p] = NoSel]
        /\ tss_sel' = tss_sel /\ leaked' = leaked
    BY <1>5 DEF TssFailed, FromTo
  <2>2. NoSel = IF "broken" = "again" THEN found[p] ELSE NoSel
    OBVIOUS
  <2> QED
    BY <2>1, <2>2, UnmarkInv
<1>6. ASSUME NEW p \in Proc, Clear(p)  PROVE SelInv'
  BY <1>6, ClearInv
<1>7. CASE UNCHANGED selvars
  BY <1>7
  DEF selvars, SelInv, SelectorsTypeOK, StagesKnown, ApartUnlessCrossed,
      MarkedUnlessCrossed, LostForGood, MarksExplained, LiveTasks
<1> QED
  BY <1>1, <1>2, <1>3, <1>4, <1>5, <1>6, <1>7 DEF SelectorsNext, Fault

(* SelectorsOwned, for any number of processes and any table: the only      *)
(* windows in which the GDT goes wrong are the two that crossed names, the  *)
(* one between gdt_alloc_desc and segment_desc_set and the one between the  *)
(* two calls of gdt_free_sel in tss_init; and sys_wait loses one            *)
(* descriptor each time.                                                    *)
THEOREM DescriptorsOwned == SelectorsSpec => []SelectorsOwned
<1>1. SelectorsInit => SelInv
  BY SelInitInv
<1>2. SelInv /\ [SelectorsNext]_selvars => SelInv'
  BY SelNextInv
<1>3. SelInv => SelectorsOwned
  BY SelInvImplies
<1> QED
  BY <1>1, <1>2, <1>3, PTL DEF SelectorsSpec

-----------------------------------------------------------------------------
\* The remembered commands: History, and the line of the shell: LineEdit.

\* A ring whose latest entry is b holds the commands s, except that the entries
\* in J are being written.
RingHolds(h, b, s, J) ==
  /\ Len(s) <= HistSize
  /\ Len(s) < HistSize =>
       /\ b = IF Len(s) = 0 THEN Last ELSE Len(s) - 1
       /\ \A i \in (0..Last) \ J : h[i] = IF i < Len(s) THEN s[i + 1] ELSE NoCmd
  /\ Len(s) = HistSize =>
       \A i \in (0..Last) \ J : h[i] = s[IF i > b THEN i - b ELSE i - b + HistSize]

Previous(i) == IF i = 0 THEN Last ELSE i - 1

HistoryTypeOK ==
  /\ his_cmds \in [0..Last -> Seq(Letter)]
  /\ his_idx \in 0..Last /\ curr_his_idx \in -1..Last
  /\ adding \in [todo : {"none", "init", "copy"}, cmd : Seq(Letter)]
  /\ adding.todo # "none" => adding.cmd # NoCmd
  /\ kept \in Seq(Seq(Letter) \ {NoCmd})

HistInv ==
  /\ HistoryTypeOK
  /\ adding.todo = "none" => RingHolds(his_cmds, his_idx, kept, {})
  /\ adding.todo = "init" => RingHolds(his_cmds, Previous(his_idx), kept, {})
  /\ adding.todo = "copy" => RingHolds(his_cmds, Previous(his_idx), kept, {his_idx})

(* The remainders that sys_get_history takes.                               *)
LEMMA Remainder ==
  ASSUME NEW n \in Nat \ {0}, NEW x \in Nat
  PROVE  /\ x < n => x % n = x
         /\ x >= n /\ x < 2 * n => x % n = x - n
OBVIOUS

(* What sys_get_history copies out is what the ring holds.                  *)
LEMMA ListingIsKept ==
  ASSUME HistInv, adding.todo = "none"
  PROVE  sys_get_history = kept
<1>1. /\ HistSize \in Nat \ {0} /\ HistSize > 1
      /\ Last \in Nat /\ Last = HistSize - 1
      /\ his_idx \in 0..Last /\ kept \in Seq(Seq(Letter) \ {NoCmd})
      /\ Len(kept) \in Nat
      /\ \A k \in 1..Len(kept) : kept[k] # NoCmd
      /\ RingHolds(his_cmds, his_idx, kept, {})
  BY HistoryAssumption DEF HistInv, HistoryTypeOK, Last
<1>2. his_cmds[Last] # NoCmd <=> Len(kept) = HistSize
  <2>1. CASE Len(kept) < HistSize
    BY <1>1, <2>1 DEF RingHolds
  <2>2. CASE Len(kept) = HistSize
    <3>1. PICK j : j = IF Last > his_idx THEN Last - his_idx ELSE Last - his_idx + HistSize
      OBVIOUS
    <3>2. j \in 1..Len(kept)
      BY <1>1, <2>2, <3>1
    <3>3. his_cmds[Last] = kept[j]
      BY <1>1, <2>2, <3>1 DEF RingHolds
    <3> QED
      BY <1>1, <2>2, <3>2, <3>3
  <2> QED
    BY <1>1, <2>1, <2>2 DEF RingHolds
<1>3. history_count = Len(kept)
  <2>1. CASE Len(kept) < HistSize
    BY <1>1, <1>2, <2>1 DEF RingHolds, history_count
  <2>2. CASE Len(kept) = HistSize
    BY <1>2, <2>2 DEF history_count
  <2> QED
    BY <1>1, <2>1, <2>2 DEF RingHolds
<1>4. ASSUME NEW k \in 1..Len(kept)
      PROVE  his_cmds[(oldest + k - 1) % HistSize] = kept[k]
  <2>1. CASE Len(kept) < HistSize
    <3>1. oldest = 0
      BY <1>1, <1>2, <2>1 DEF oldest
    <3>2. PICK x : x = oldest + k - 1
      OBVIOUS
    <3>3. x \in Nat /\ x < HistSize /\ x < Len(kept) /\ x + 1 = k /\ x \in 0..Last
      BY <1>1, <2>1, <3>1, <3>2
    <3>4. x % HistSize = x
      BY <1>1, <3>3, Remainder
    <3> QED
      BY <1>1, <2>1, <3>2, <3>3, <3>4 DEF RingHolds
  <2>2. CASE Len(kept) = HistSize
    <3>1. oldest = IF his_idx # Last THEN his_idx + 1 ELSE 0
      BY <1>2, <2>2 DEF oldest
    <3>2. PICK x : x = oldest + k - 1
      OBVIOUS
    <3>3. x \in Nat /\ x < 2 * HistSize
      BY <1>1, <2>2, <3>1, <3>2
    <3>4. PICK i : i = IF x < HistSize THEN x ELSE x - HistSize
      OBVIOUS
    <3>5. x % HistSize = i
      <4>1. CASE x < HistSize
        BY <1>1, <3>3, <3>4, <4>1, Remainder
      <4>2. CASE ~ (x < HistSize)
        <5>1. x >= HistSize
          BY <1>1, <3>3, <4>2
        <5> QED
          BY <1>1, <3>3, <3>4, <4>2, <5>1, Remainder
      <4> QED
        BY <4>1, <4>2
    <3>6. /\ i \in 0..Last
          /\ (IF i > his_idx THEN i - his_idx ELSE i - his_idx + HistSize) = k
      BY <1>1, <2>2, <3>1, <3>2, <3>4
    <3> QED
      BY <1>1, <2>2, <3>2, <3>5, <3>6 DEF RingHolds
  <2> QED
    BY <1>1, <2>1, <2>2 DEF RingHolds
<1>5. kept = [k \in 1..Len(kept) |-> kept[k]]
  BY <1>1
<1> QED
  BY <1>3, <1>4, <1>5 DEF sys_get_history

(* The invariant says what the run checks.                                  *)
LEMMA HistInvImplies == HistInv => HistoryInOrder
BY ListingIsKept DEF HistoryInOrder, HistInv, HistoryTypeOK

(* The ring is empty.                                                       *)
LEMMA HistInitInv == HistoryInit => HistInv
<1> SUFFICES ASSUME HistoryInit  PROVE HistInv
  OBVIOUS
<1>1. HistSize \in Nat /\ HistSize > 1 /\ Last = HistSize - 1
  BY HistoryAssumption DEF Last
<1>2. HistoryTypeOK
  BY <1>1 DEF HistoryInit, HistoryTypeOK, NoAdding, NoCmd
<1>3. RingHolds(his_cmds, his_idx, kept, {})
  BY <1>1 DEF HistoryInit, RingHolds
<1> QED
  BY <1>2, <1>3 DEF HistInv, HistoryInit, NoAdding

(* add begins: the index moves on to the next entry.                        *)
LEMMA AddIndexInv ==
  ASSUME HistInv, NEW cmd \in Seq(Letter) \ {NoCmd}, AddIndex(cmd)
  PROVE  HistInv'
<1>1. HistSize \in Nat /\ HistSize > 1 /\ Last = HistSize - 1
  BY HistoryAssumption DEF Last
<1>2. CASE peek_pre_cmd = cmd
  BY <1>2 DEF AddIndex, hvars, HistInv, HistoryTypeOK
<1>3. CASE peek_pre_cmd # cmd
  <2>1. /\ adding.todo = "none"
        /\ his_idx' = IF his_idx = Last THEN 0 ELSE his_idx + 1
        /\ curr_his_idx' = -1
        /\ adding' = [todo |-> "init", cmd |-> cmd]
        /\ his_cmds' = his_cmds /\ kept' = kept
    BY <1>3 DEF AddIndex
  <2>2. HistoryTypeOK'
    BY <1>1, <2>1 DEF HistInv, HistoryTypeOK
  <2>3. Previous(his_idx') = his_idx
    BY <1>1, <2>1 DEF Previous, HistInv, HistoryTypeOK
  <2> QED
    BY <2>1, <2>2, <2>3 DEF HistInv
<1> QED
  BY <1>2, <1>3

(* add empties the entry.                                                   *)
LEMMA AddClearInv ==
  ASSUME HistInv, AddClear
  PROVE  HistInv'
<1>1. HistSize \in Nat /\ HistSize > 1 /\ Last = HistSize - 1
  BY HistoryAssumption DEF Last
<1>2. /\ adding.todo = "init" /\ adding' = [adding EXCEPT !.todo = "copy"]
      /\ his_cmds' = [his_cmds EXCEPT ![his_idx] = NoCmd]
      /\ his_idx' = his_idx /\ curr_his_idx' = curr_his_idx /\ kept' = kept
  BY DEF AddClear
<1>3. /\ adding' \in [todo : {"none", "init", "copy"}, cmd : Seq(Letter)]
      /\ adding'.todo = "copy" /\ adding'.cmd = adding.cmd
  BY <1>2 DEF HistInv, HistoryTypeOK
<1>5. his_cmds' \in [0..Last -> Seq(Letter)]
  <2>1. NoCmd \in Seq(Letter)
    BY DEF NoCmd
  <2> QED
    BY <1>2, <2>1 DEF HistInv, HistoryTypeOK
<1>6. HistoryTypeOK'
  BY <1>2, <1>3, <1>5 DEF HistInv, HistoryTypeOK
<1>4. RingHolds(his_cmds', Previous(his_idx), kept, {his_idx})
  BY <1>2 DEF HistInv, HistoryTypeOK, RingHolds
<1> QED
  BY <1>2, <1>3, <1>4, <1>6 DEF HistInv, Previous

(* The entry behind the latest is written, and the oldest may be gone.      *)
LEMMA AddCopyInv ==
  ASSUME HistInv, AddCopy
  PROVE  HistInv'
<1>1. HistSize \in Nat /\ HistSize > 1 /\ Last = HistSize - 1
  BY HistoryAssumption DEF Last
<1>2. PICK j, c, b, k :
        j = his_idx /\ c = adding.cmd /\ b = Previous(his_idx) /\ k = Append(kept, c)
  OBVIOUS
<1>3. /\ adding.todo = "copy" /\ adding' = NoAdding
      /\ his_cmds' = [his_cmds EXCEPT ![j] = c]
      /\ his_idx' = j /\ curr_his_idx' = curr_his_idx
      /\ kept' = IF Len(k) > HistSize THEN Tail(k) ELSE k
  BY <1>2 DEF AddCopy
<1>4. /\ j \in 0..Last /\ c \in Seq(Letter) \ {NoCmd}
      /\ b \in 0..Last /\ b = IF j = 0 THEN Last ELSE j - 1
      /\ RingHolds(his_cmds, b, kept, {j})
  BY <1>1, <1>2, <1>3 DEF HistInv, HistoryTypeOK, Previous
<1>5. /\ kept \in Seq(Seq(Letter) \ {NoCmd}) /\ Len(kept) \in Nat
      /\ Len(kept) <= HistSize
  BY <1>4 DEF HistInv, HistoryTypeOK, RingHolds
<1>6. /\ k \in Seq(Seq(Letter) \ {NoCmd}) /\ Len(k) = Len(kept) + 1
      /\ k[Len(kept) + 1] = c
      /\ \A n \in 1..Len(kept) : k[n] = kept[n]
  BY <1>2, <1>4, <1>5
<1>7. HistoryTypeOK'
  <2>1. kept' \in Seq(Seq(Letter) \ {NoCmd})
    BY <1>3, <1>5, <1>6
  <2> QED
    BY <1>3, <1>4, <2>1 DEF HistInv, HistoryTypeOK, NoAdding, NoCmd
<1>8. /\ his_cmds'[j] = c
      /\ \A i \in (0..Last) \ {j} : his_cmds'[i] = his_cmds[i]
  BY <1>3, <1>4 DEF HistInv, HistoryTypeOK
<1>9. RingHolds(his_cmds', j, kept', {})
  <2>1. CASE Len(kept) < HistSize
    <3>1. kept' = k /\ Len(k) <= HistSize
      BY <1>1, <1>3, <1>5, <1>6, <2>1
    <3>2. j = Len(kept)
      BY <1>1, <1>4, <1>5, <2>1 DEF RingHolds
    <3>3. ASSUME NEW i \in 0..Last
          PROVE  his_cmds'[i] = IF i < Len(k) THEN k[i + 1] ELSE NoCmd
      <4>1. CASE i = j
        BY <1>5, <1>6, <1>8, <3>2, <4>1
      <4>2. CASE i # j
        <5>1. his_cmds'[i] = IF i < Len(kept) THEN kept[i + 1] ELSE NoCmd
          BY <1>4, <1>8, <2>1, <4>2 DEF RingHolds
        <5> QED
          BY <1>1, <1>5, <1>6, <3>2, <4>2, <5>1
      <4> QED
        BY <4>1, <4>2
    <3>4. Len(k) = HistSize => j = Last
      BY <1>1, <1>5, <1>6, <3>2
    <3>5. ASSUME Len(k) = HistSize, NEW i \in 0..Last
          PROVE  his_cmds'[i] = k[IF i > j THEN i - j ELSE i - j + HistSize]
      BY <1>1, <3>3, <3>4, <3>5
    <3>6. j = IF Len(k) = 0 THEN Last ELSE Len(k) - 1
      BY <1>5, <1>6, <3>2
    <3>7. PICK h, s : h = his_cmds' /\ s = kept'
      OBVIOUS
    <3>8. RingHolds(h, j, s, {})
      BY <3>1, <3>3, <3>5, <3>6, <3>7 DEF RingHolds
    <3> QED
      BY <3>7, <3>8
  <2>2. CASE Len(kept) = HistSize
    <3>1. /\ kept' = Tail(k) /\ Len(kept') = HistSize
          /\ \A n \in 1..HistSize : kept'[n] = k[n + 1]
      BY <1>1, <1>3, <1>5, <1>6, <2>2
    <3>2. ASSUME NEW i \in 0..Last
          PROVE  his_cmds'[i] = kept'[IF i > j THEN i - j ELSE i - j + HistSize]
      <4>1. CASE i = j
        BY <1>1, <1>4, <1>6, <1>8, <2>2, <3>1, <4>1
      <4>2. CASE i # j
        <5>1. PICK n, m : /\ n = IF i > b THEN i - b ELSE i - b + HistSize
                          /\ m = IF i > j THEN i - j ELSE i - j + HistSize
          OBVIOUS
        <5>2. n = m + 1 /\ m \in 1..HistSize /\ n \in 1..HistSize
          BY <1>1, <1>4, <4>2, <5>1
        <5>3. his_cmds'[i] = kept[n]
          BY <1>4, <1>8, <2>2, <4>2, <5>1 DEF RingHolds
        <5> QED
          BY <1>6, <2>2, <3>1, <5>1, <5>2, <5>3
      <4> QED
        BY <4>1, <4>2
    <3>3. PICK h, s : h = his_cmds' /\ s = kept'
      OBVIOUS
    <3>4. Len(s) = HistSize /\ HistSize \in Nat
      BY <1>1, <3>1, <3>3
    <3>5. \A i \in 0..Last : h[i] = s[IF i > j THEN i - j ELSE i - j + HistSize]
      BY <3>2, <3>3
    <3>6. RingHolds(h, j, s, {})
      BY <3>4, <3>5 DEF RingHolds
    <3> QED
      BY <3>3, <3>6
  <2> QED
    BY <1>1, <1>5, <2>1, <2>2
<1> QED
  BY <1>3, <1>7, <1>9 DEF HistInv, NoAdding

(* The arrow keys stay in the ring.                                         *)
LEMMA ArrowInv ==
  ASSUME HistInv, NEW cmd, pre_cmd(cmd) \/ next_cmd(cmd)
  PROVE  HistInv'
<1>1. HistSize \in Nat /\ HistSize > 1 /\ Last = HistSize - 1
  BY HistoryAssumption DEF Last
<1>2. UNCHANGED <<his_cmds, his_idx, adding, kept>>
  BY DEF pre_cmd, next_cmd
<1>3. curr_his_idx' \in -1..Last
  <2>1. CASE pre_cmd(cmd)
    BY <1>1, <2>1 DEF pre_cmd, HistInv, HistoryTypeOK
  <2>2. CASE next_cmd(cmd)
    BY <1>1, <2>2 DEF next_cmd, HistInv, HistoryTypeOK
  <2> QED
    BY <2>1, <2>2
<1>4. HistoryTypeOK'
  BY <1>2, <1>3 DEF HistInv, HistoryTypeOK
<1> QED
  BY <1>2, <1>4 DEF HistInv

-----------------------------------------------------------------------------
Key == Letter \cup {"delete", "newline"}

LineTypeOK ==
  /\ keys \in Seq(Key) /\ inbuf \in Seq(Letter)
  /\ reader \in {"wait", "echo", "exec"}
  /\ row \in Seq(Letter \cup {"prompt"})
  /\ input_len \in Int
  /\ reader = "echo" => echoed \in Key

\* What the row shows of the line, between the steps of tty_read: a character
\* that is in buf and not on the screen yet, or on the screen and not in buf.
RowShows ==
  /\ reader = "wait" => row = Prompt \o inbuf
  /\ reader = "echo" /\ echoed = "delete" =>
       Len(row) > 1 /\ SubSeq(row, 1, Len(row) - 1) = Prompt \o inbuf
  /\ reader = "echo" /\ echoed \notin {"delete", "newline"} =>
       Append(row, echoed) = Prompt \o inbuf
  /\ input_len <= Len(inbuf)

LineInv ==
  /\ HistInv /\ LineTypeOK
  /\ ~ muddled => RowShows
  /\ reader = "exec" \/ (reader = "echo" /\ echoed = "newline") => input_len = 0

(* The invariant says what the run checks.                                  *)
LEMMA LineInvImplies == LineInv => HistoryInOrder /\ ShownIsLine
BY HistInvImplies DEF LineInv, ShownIsLine, Settled, RowShows

(* A line with its prompt.                                                  *)
LEMMA PromptedLine ==
  ASSUME NEW s \in Seq(Letter)
  PROVE  /\ Prompt \o s \in Seq(Letter \cup {"prompt"})
         /\ Len(Prompt \o s) = Len(s) + 1
         /\ (Prompt \o s)[1] = "prompt"
         /\ \A i \in 1..Len(s) : (Prompt \o s)[i + 1] = s[i]
<1>1. Prompt \in Seq(Letter \cup {"prompt"}) /\ Len(Prompt) = 1 /\ Prompt[1] = "prompt"
  BY DEF Prompt
<1>2. s \in Seq(Letter \cup {"prompt"}) /\ Len(s) \in Nat
  OBVIOUS
<1>3. PICK p, t \in Seq(Letter \cup {"prompt"}), l \in Nat :
        p = Prompt /\ t = p \o s /\ l = Len(s)
  BY <1>1, <1>2, ConcatProperties
<1>4. /\ Len(t) = 1 + l
      /\ \A i \in 1..(1 + l) : t[i] = IF i <= 1 THEN p[i] ELSE s[i - 1]
  <2>1. PICK a : a = Len(p)
    OBVIOUS
  <2>2. /\ Len(p \o s) = a + Len(s)
        /\ \A i \in 1..(a + Len(s)) : (p \o s)[i] = IF i <= a THEN p[i] ELSE s[i - a]
    BY <1>2, <2>1, ConcatProperties
  <2>3. a = 1
    BY <1>1, <1>3, <2>1
  <2> QED
    BY <1>3, <2>2, <2>3
<1>5. 1 + l = l + 1 /\ 1 \in 1..(1 + l) /\ 1 <= 1
  OBVIOUS
<1>6. \A i \in 1..l : i + 1 \in 1..(1 + l) /\ ~ (i + 1 <= 1) /\ (i + 1) - 1 = i
  OBVIOUS
<1> QED
  BY <1>1, <1>3, <1>4, <1>5, <1>6

(* Two sequences with the same elements are the same.                       *)
LEMMA SameLine ==
  ASSUME NEW s \in Seq(Letter \cup {"prompt"}), NEW t \in Seq(Letter \cup {"prompt"}),
         Len(s) = Len(t), \A i \in 1..Len(s) : s[i] = t[i]
  PROVE  s = t
BY SeqEqual

(* A character at the end of the line.                                      *)
LEMMA TypedLine ==
  ASSUME NEW s \in Seq(Letter), NEW c \in Letter
  PROVE  Append(Prompt \o s, c) = Prompt \o Append(s, c)
<1>1. PICK r : r = Prompt \o s
  OBVIOUS
<1>2. /\ r \in Seq(Letter \cup {"prompt"}) /\ Len(r) = Len(s) + 1
      /\ r[1] = "prompt" /\ \A i \in 1..Len(s) : r[i + 1] = s[i]
      /\ Len(s) \in Nat
  BY <1>1, PromptedLine
<1>3. /\ Append(s, c) \in Seq(Letter) /\ Len(Append(s, c)) = Len(s) + 1
      /\ \A i \in 1..Len(s) : Append(s, c)[i] = s[i]
      /\ Append(s, c)[Len(s) + 1] = c
  OBVIOUS
<1>4. PICK t : t = Prompt \o Append(s, c)
  OBVIOUS
<1>5. /\ t \in Seq(Letter \cup {"prompt"}) /\ Len(t) = Len(s) + 2
      /\ t[1] = "prompt" /\ \A i \in 1..(Len(s) + 1) : t[i + 1] = Append(s, c)[i]
  BY <1>2, <1>3, <1>4, PromptedLine
<1>6. /\ Append(r, c) \in Seq(Letter \cup {"prompt"}) /\ Len(Append(r, c)) = Len(s) + 2
      /\ \A i \in 1..(Len(s) + 1) : Append(r, c)[i] = r[i]
      /\ Append(r, c)[Len(s) + 2] = c
  BY <1>2
<1>7. ASSUME NEW i \in 1..(Len(s) + 2)  PROVE Append(r, c)[i] = t[i]
  <2>1. CASE i = 1
    BY <1>2, <1>5, <1>6, <2>1
  <2>2. CASE i = Len(s) + 2
    <3>1. Len(s) + 1 \in 1..(Len(s) + 1) /\ i = (Len(s) + 1) + 1
      BY <1>2, <2>2
    <3> QED
      BY <1>3, <1>5, <1>6, <2>2, <3>1
  <2>3. CASE i # 1 /\ i # Len(s) + 2
    <3>1. PICK k : k = i - 1
      OBVIOUS
    <3>2. k \in 1..Len(s) /\ k \in 1..(Len(s) + 1) /\ i = k + 1 /\ i \in 1..(Len(s) + 1)
      BY <1>2, <2>3, <3>1
    <3> QED
      BY <1>2, <1>3, <1>5, <1>6, <3>2
  <2> QED
    BY <2>1, <2>2, <2>3
<1> QED
  BY <1>1, <1>4, <1>5, <1>6, <1>7, SameLine

(* The line without its last character.                                     *)
LEMMA ShortenedLine ==
  ASSUME NEW s \in Seq(Letter), s # <<>>
  PROVE  /\ Len(Prompt \o s) > 1
         /\ SubSeq(Prompt \o s, 1, Len(Prompt \o s) - 1)
              = Prompt \o SubSeq(s, 1, Len(s) - 1)
         /\ SubSeq(s, 1, Len(s) - 1) \in Seq(Letter)
         /\ Len(SubSeq(s, 1, Len(s) - 1)) = Len(s) - 1
<1>1. PICK r, n : r = Prompt \o s /\ n = Len(s)
  OBVIOUS
<1>2. /\ r \in Seq(Letter \cup {"prompt"}) /\ Len(r) = n + 1
      /\ r[1] = "prompt" /\ \A i \in 1..n : r[i + 1] = s[i]
      /\ n \in Nat /\ n >= 1
  BY <1>1, PromptedLine
<1>3. PICK u : u = SubSeq(s, 1, n - 1)
  OBVIOUS
<1>4. /\ u \in Seq(Letter) /\ Len(u) = n - 1
      /\ \A i \in 1..(n - 1) : u[i] = s[i]
  BY <1>1, <1>2, <1>3, SubSeqProperties
<1>5. PICK t : t = Prompt \o u
  OBVIOUS
<1>6. /\ t \in Seq(Letter \cup {"prompt"}) /\ Len(t) = n
      /\ t[1] = "prompt" /\ \A i \in 1..(n - 1) : t[i + 1] = u[i]
  BY <1>2, <1>4, <1>5, PromptedLine
<1>7. PICK v : v = SubSeq(r, 1, n)
  OBVIOUS
<1>8. /\ v \in Seq(Letter \cup {"prompt"}) /\ Len(v) = n
      /\ \A i \in 1..n : v[i] = r[i]
  BY <1>2, <1>7, SubSeqProperties
<1>9. ASSUME NEW i \in 1..n  PROVE v[i] = t[i]
  <2>1. CASE i = 1
    BY <1>2, <1>6, <1>8, <2>1
  <2>2. CASE i # 1
    <3>1. PICK k : k = i - 1
      OBVIOUS
    <3>2. k \in 1..(n - 1) /\ k \in 1..n /\ i = k + 1
      BY <1>2, <2>2, <3>1
    <3> QED
      BY <1>2, <1>4, <1>6, <1>8, <3>2
  <2> QED
    BY <2>1, <2>2
<1>10. v = t
  BY <1>6, <1>8, <1>9, SameLine
<1> QED
  BY <1>1, <1>2, <1>3, <1>4, <1>5, <1>7, <1>10

(* erase_backword takes at most what there is.                              *)
LEMMA ErasedRow ==
  ASSUME LineTypeOK, NEW n \in Int
  PROVE  /\ Erased(n) \in Seq(Letter \cup {"prompt"})
         /\ n <= 0 => Erased(n) = row
         /\ n = 1 /\ Len(row) > 1 => Erased(n) = SubSeq(row, 1, Len(row) - 1)
<1>1. row \in Seq(Letter \cup {"prompt"}) /\ Len(row) \in Nat
  BY DEF LineTypeOK
<1>2. PICK m : m = IF n > Len(row) THEN 0 ELSE IF n < 0 THEN Len(row) ELSE Len(row) - n
  OBVIOUS
<1>3. m \in 0..Len(row) /\ Erased(n) = SubSeq(row, 1, m)
  BY <1>1, <1>2 DEF Erased
<1>4. SubSeq(row, 1, m) \in Seq(Letter \cup {"prompt"})
  <2>1. CASE m = 0
    <3>1. SubSeq(row, 1, 0) = <<>>
      BY <1>1, SubSeqEmpty
    <3> QED
      BY <2>1, <3>1
  <2>2. CASE m # 0
    BY <1>1, <1>3, <2>2, SubSeqProperties
  <2> QED
    BY <2>1, <2>2
<1>5. ASSUME n <= 0  PROVE Erased(n) = row
  <2>1. m = Len(row)
    BY <1>1, <1>2, <1>5
  <2> QED
    BY <1>1, <1>3, <2>1
<1>6. ASSUME n = 1, Len(row) > 1  PROVE Erased(n) = SubSeq(row, 1, Len(row) - 1)
  BY <1>1, <1>2, <1>3, <1>6
<1> QED
  BY <1>3, <1>4, <1>5, <1>6

(* Nothing is typed yet.                                                    *)
LEMMA LineInitInv == LineInit => LineInv
<1> SUFFICES ASSUME LineInit  PROVE LineInv
  OBVIOUS
<1>1. HistInv
  BY HistInitInv DEF LineInit
<1>2. Prompt \in Seq(Letter \cup {"prompt"}) /\ Prompt = Prompt \o <<>>
  BY DEF Prompt
<1>3. LineTypeOK
  BY <1>2 DEF LineInit, LineTypeOK
<1>4. RowShows
  BY <1>2 DEF LineInit, RowShows
<1> QED
  BY <1>1, <1>3, <1>4 DEF LineInv, LineInit

(* A key is pressed: only the input ring changes.                           *)
LEMMA PressInv ==
  ASSUME LineInv, Press
  PROVE  LineInv'
<1>1. PICK k \in Key : keys' = Append(keys, k)
  BY DEF Press, Key
<1>2. UNCHANGED <<hvars, inbuf, reader, echoed, row, input_len, muddled>>
  BY DEF Press
<1>3. LineTypeOK'
  BY <1>1, <1>2 DEF LineInv, LineTypeOK
<1>4. HistInv'
  BY <1>2 DEF LineInv, HistInv, HistoryTypeOK, hvars
<1> QED
  BY <1>2, <1>3, <1>4 DEF LineInv, RowShows

(* A command is recalled.  It replaces what input_len counts, and that is   *)
(* the whole line only if the line is empty.                                *)
LEMMA RecallInv ==
  ASSUME LineInv, ArrowKey
  PROVE  LineInv'
<1>1. PICK cmd \in Cmd \cup {NoCmd} : (pre_cmd(cmd) \/ next_cmd(cmd)) /\ show_his_cmd(cmd)
  BY DEF ArrowKey
<1>2. inbuf' = inbuf /\ reader' = reader /\ echoed' = echoed
  BY DEF ArrowKey
<1>3. HistInv'
  BY <1>1, ArrowInv DEF LineInv
<1>4. CASE cmd = NoCmd
  BY <1>1, <1>2, <1>3, <1>4 DEF show_his_cmd, LineInv, LineTypeOK, RowShows
<1>5. CASE cmd # NoCmd
  <2>1. /\ row' = Erased(input_len) /\ input_len' = 0 /\ keys' = keys \o cmd
        /\ muddled' = (muddled \/ reader # "wait" \/ keys # <<>> \/ inbuf # <<>>)
    BY <1>1, <1>5 DEF show_his_cmd
  <2>2. cmd \in Seq(Letter)
    BY <1>1, <1>5 DEF Cmd
  <2>3. row' \in Seq(Letter \cup {"prompt"})
    BY <2>1, ErasedRow DEF LineInv, LineTypeOK
  <2>4. keys' \in Seq(Key)
    BY <2>1, <2>2 DEF LineInv, LineTypeOK, Key
  <2>5. LineTypeOK'
    BY <1>2, <2>1, <2>3, <2>4 DEF LineInv, LineTypeOK
  <2>6. ASSUME ~ muddled'  PROVE RowShows'
    <3>1. ~ muddled /\ reader = "wait" /\ inbuf = <<>>
      BY <2>1, <2>6
    <3>2. row = Prompt \o <<>> /\ input_len <= 0 /\ input_len \in Int
      BY <3>1 DEF LineInv, RowShows, LineTypeOK
    <3>3. row' = row
      BY <2>1, <3>2, ErasedRow DEF LineInv
    <3> QED
      BY <1>2, <2>1, <3>1, <3>2, <3>3 DEF RowShows
  <2> QED
    BY <1>2, <1>3, <2>1, <2>5, <2>6 DEF LineInv
<1> QED
  BY <1>4, <1>5

(* tty_read takes a character.                                              *)
LEMMA ReadKeyInv ==
  ASSUME LineInv, ReadKey
  PROVE  LineInv'
<1>1. /\ reader = "wait" /\ keys # <<>>
      /\ keys' = Tail(keys) /\ echoed' = Head(keys)
      /\ row' = row /\ muddled' = muddled
      /\ UNCHANGED hvars
  BY DEF ReadKey
<1>2. HistInv'
  BY <1>1 DEF LineInv, HistInv, HistoryTypeOK, hvars
<1>3. /\ keys' \in Seq(Key) /\ echoed' \in Key
      /\ inbuf \in Seq(Letter) /\ Len(inbuf) \in Nat /\ input_len \in Int
      /\ row \in Seq(Letter \cup {"prompt"})
  BY <1>1 DEF LineInv, LineTypeOK
<1>4. ASSUME ~ muddled  PROVE row = Prompt \o inbuf /\ input_len <= Len(inbuf)
  BY <1>1, <1>4 DEF LineInv, RowShows
<1>5. CASE echoed' = "delete" /\ inbuf = <<>>
  <2>1. UNCHANGED <<inbuf, input_len, reader>>
    BY <1>5 DEF ReadKey
  <2> QED
    BY <1>1, <1>2, <1>3, <1>4, <2>1 DEF LineInv, LineTypeOK, RowShows
<1>6. CASE echoed' = "delete" /\ inbuf # <<>>
  <2>1. /\ inbuf' = SubSeq(inbuf, 1, Len(inbuf) - 1)
        /\ input_len' = input_len - 1 /\ reader' = "echo"
    BY <1>6 DEF ReadKey
  <2>2. /\ Len(Prompt \o inbuf) > 1
        /\ SubSeq(Prompt \o inbuf, 1, Len(Prompt \o inbuf) - 1) = Prompt \o inbuf'
        /\ inbuf' \in Seq(Letter) /\ Len(inbuf') = Len(inbuf) - 1
    BY <1>3, <1>6, <2>1, ShortenedLine
  <2>3. LineTypeOK'
    BY <1>1, <1>3, <2>1, <2>2 DEF LineTypeOK
  <2>4. ASSUME ~ muddled  PROVE RowShows'
    <3>1. input_len' <= Len(inbuf')
      BY <1>3, <1>4, <2>1, <2>2, <2>4
    <3>2. Len(row') > 1 /\ SubSeq(row', 1, Len(row') - 1) = Prompt \o inbuf'
      BY <1>1, <1>4, <2>2, <2>4
    <3> QED
      BY <1>6, <2>1, <3>1, <3>2 DEF RowShows
  <2> QED
    BY <1>1, <1>2, <1>6, <2>1, <2>3, <2>4 DEF LineInv
<1>7. CASE echoed' = "newline"
  <2>1. input_len' = 0 /\ reader' = "echo" /\ inbuf' = inbuf
    BY <1>7 DEF ReadKey
  <2>2. LineTypeOK'
    BY <1>1, <1>3, <2>1 DEF LineTypeOK
  <2> QED
    BY <1>1, <1>2, <1>3, <1>7, <2>1, <2>2 DEF LineInv, RowShows
<1>8. CASE echoed' \notin {"delete", "newline"}
  <2>1. inbuf' = Append(inbuf, echoed') /\ input_len' = input_len + 1 /\ reader' = "echo"
    BY <1>8 DEF ReadKey
  <2>2. PICK c \in Letter : c = echoed'
    BY <1>3, <1>8 DEF Key
  <2>3. inbuf' \in Seq(Letter) /\ Len(inbuf') = Len(inbuf) + 1
    BY <1>3, <2>1, <2>2
  <2>4. LineTypeOK'
    BY <1>1, <1>3, <2>1, <2>3 DEF LineTypeOK
  <2>5. ASSUME ~ muddled  PROVE RowShows'
    <3>1. input_len' <= Len(inbuf')
      BY <1>3, <1>4, <2>1, <2>3, <2>5
    <3>2. Append(row', echoed') = Prompt \o inbuf'
      BY <1>1, <1>3, <1>4, <2>1, <2>2, <2>5, TypedLine
    <3> QED
      BY <1>8, <2>1, <3>1, <3>2 DEF RowShows
  <2> QED
    BY <1>1, <1>2, <1>8, <2>1, <2>4, <2>5 DEF LineInv
<1> QED
  BY <1>5, <1>6, <1>7, <1>8

(* And echoes it.                                                           *)
LEMMA EchoInv ==
  ASSUME LineInv, Echo
  PROVE  LineInv'
<1>1. /\ reader = "echo" /\ UNCHANGED <<hvars, keys, inbuf, echoed, muddled>>
  BY DEF Echo
<1>2. HistInv'
  BY <1>1 DEF LineInv, HistInv, HistoryTypeOK, hvars
<1>3. /\ keys \in Seq(Key) /\ inbuf \in Seq(Letter) /\ Len(inbuf) \in Nat
      /\ row \in Seq(Letter \cup {"prompt"}) /\ input_len \in Int /\ echoed \in Key
  BY <1>1 DEF LineInv, LineTypeOK
<1>4. CASE echoed = "delete"
  <2>1. row' = Erased(1) /\ input_len' = input_len - 1 /\ reader' = "wait"
    BY <1>4 DEF Echo, EchoDelete
  <2>2. row' \in Seq(Letter \cup {"prompt"})
    BY <2>1, ErasedRow DEF LineInv
  <2>3. LineTypeOK'
    BY <1>1, <1>3, <2>1, <2>2 DEF LineTypeOK
  <2>4. ASSUME ~ muddled  PROVE RowShows'
    <3>1. /\ Len(row) > 1 /\ SubSeq(row, 1, Len(row) - 1) = Prompt \o inbuf
          /\ input_len <= Len(inbuf)
      BY <1>1, <1>4, <2>4 DEF LineInv, RowShows
    <3>2. row' = Prompt \o inbuf
      <4>1. LineTypeOK /\ 1 \in Int
        BY DEF LineInv
      <4>2. Erased(1) = SubSeq(row, 1, Len(row) - 1)
        BY <3>1, <4>1, ErasedRow
      <4> QED
        BY <2>1, <3>1, <4>2
    <3>3. input_len' <= Len(inbuf)
      BY <1>3, <2>1, <3>1
    <3> QED
      BY <1>1, <2>1, <3>2, <3>3 DEF RowShows
  <2> QED
    BY <1>1, <1>2, <2>1, <2>3, <2>4 DEF LineInv
<1>5. CASE echoed = "newline"
  <2>1. reader' = "exec" /\ row' = row /\ input_len' = input_len
    BY <1>5 DEF Echo
  <2>2. LineTypeOK'
    BY <1>1, <1>3, <2>1 DEF LineTypeOK
  <2> QED
    BY <1>1, <1>2, <1>5, <2>1, <2>2 DEF LineInv, RowShows
<1>6. CASE echoed \notin {"delete", "newline"}
  <2>1. row' = Append(row, echoed) /\ reader' = "wait" /\ input_len' = input_len
    BY <1>6 DEF Echo
  <2>2. row' \in Seq(Letter \cup {"prompt"})
    BY <1>3, <1>6, <2>1 DEF Key
  <2>3. LineTypeOK'
    BY <1>1, <1>3, <2>1, <2>2 DEF LineTypeOK
  <2> QED
    BY <1>1, <1>2, <1>6, <2>1, <2>3 DEF LineInv, RowShows
<1> QED
  BY <1>4, <1>5, <1>6

(* The shell has the line.                                                  *)
LEMMA ExecInv ==
  ASSUME LineInv, Exec
  PROVE  LineInv'
<1>1. /\ reader = "exec" /\ inbuf # <<>> /\ inbuf' = <<>>
      /\ UNCHANGED <<keys, reader, echoed, row, input_len, muddled>>
  BY DEF Exec
<1>2. inbuf \in Seq(Letter) \ {NoCmd}
  BY <1>1 DEF LineInv, LineTypeOK, NoCmd
<1>3. HistInv'
  <2>1. CASE AddIndex(inbuf)
    BY <1>2, <2>1, AddIndexInv DEF LineInv
  <2>2. CASE UNCHANGED hvars
    BY <2>2 DEF LineInv, HistInv, HistoryTypeOK, hvars
  <2> QED
    BY <2>1, <2>2 DEF Exec
<1>4. LineTypeOK' /\ input_len' = 0
  BY <1>1 DEF LineInv, LineTypeOK
<1>5. RowShows'
  BY <1>1, <1>4 DEF RowShows
<1> QED
  BY <1>1, <1>3, <1>4, <1>5 DEF LineInv

(* The next prompt.                                                         *)
LEMMA NextLineInv ==
  ASSUME LineInv, NextLine
  PROVE  LineInv'
<1>1. /\ reader = "exec" /\ inbuf = <<>>
      /\ row' = Prompt /\ reader' = "wait"
      /\ UNCHANGED <<hvars, keys, inbuf, echoed, input_len>>
  BY DEF NextLine
<1>2. HistInv'
  BY <1>1 DEF LineInv, HistInv, HistoryTypeOK, hvars
<1>3. Prompt \in Seq(Letter \cup {"prompt"}) /\ Prompt = Prompt \o <<>>
  BY DEF Prompt
<1>4. LineTypeOK' /\ input_len' = 0
  BY <1>1, <1>3 DEF LineInv, LineTypeOK
<1>5. RowShows'
  BY <1>1, <1>3, <1>4 DEF RowShows
<1> QED
  BY <1>1, <1>2, <1>4, <1>5 DEF LineInv

(* Every step of the keyboard, the reader and the shell keeps the invariant. *)
LEMMA LineNextInv == LineInv /\ [LineNext]_lvars => LineInv'
<1> SUFFICES ASSUME LineInv, [LineNext]_lvars  PROVE LineInv'
  OBVIOUS
<1>1. CASE Press
  BY <1>1, PressInv
<1>2. CASE ArrowKey
  BY <1>2, RecallInv
<1>3. CASE ReadKey
  BY <1>3, ReadKeyInv
<1>4. CASE Echo
  BY <1>4, EchoInv
<1>5. CASE Exec
  BY <1>5, ExecInv
<1>6. CASE NextLine
  BY <1>6, NextLineInv
<1>7. CASE /\ AddClear \/ AddCopy
           /\ UNCHANGED <<keys, inbuf, reader, echoed, row, input_len, muddled>>
  <2>1. HistInv'
    BY <1>7, AddClearInv, AddCopyInv DEF LineInv
  <2> QED
    BY <1>7, <2>1 DEF LineInv, LineTypeOK, RowShows
<1>8. CASE UNCHANGED lvars
  BY <1>8 DEF lvars, hvars, LineInv, HistInv, HistoryTypeOK, LineTypeOK, RowShows
<1> QED
  BY <1>1, <1>2, <1>3, <1>4, <1>5, <1>6, <1>7, <1>8 DEF LineNext

(* So it holds in every reachable state.                                    *)
LEMMA LineInvAlways == LineSpec => []LineInv
<1> QED
  BY LineInitInv, LineNextInv, PTL DEF LineSpec

(* HistoryInOrder, for any ring and any commands: the listing is the last   *)
(* commands that add did not drop, whether the ring is partly filled, full  *)
(* or has wrapped, and an arrow key between two steps of add stays in it.   *)
THEOREM HistoryAlwaysInOrder == LineSpec => []HistoryInOrder
BY LineInvAlways, LineInvImplies, PTL

(* ShownIsLine, for lines of any length: whatever the order of the keys,    *)
(* the reader's steps and the arrow keys, the row shows the line that       *)
(* tty_read will return unless a command was recalled into a line that was  *)
(* not empty.                                                               *)
THEOREM RowShowsLine == LineSpec => []ShownIsLine
BY LineInvAlways, LineInvImplies, PTL

-----------------------------------------------------------------------------
\* What a console shows: Console.

\* From where the typing began to the cursor all is filled, and what was
\* deleted behind the cursor is blank.
TypedIsFilled ==
  /\ home \in Nat /\ high \in Nat /\ home <= Place /\ Place <= high
  /\ filled \subseteq Screen
  /\ \A i \in Screen : /\ i >= home /\ i < Place => i \in filled
                       /\ i >= Place /\ i < high => i \notin filled

ConsoleOK ==
  /\ InScreen(cursor_row, cursor_col) /\ InScreen(old_cursor_row, old_cursor_col)
  /\ curr_param_index \in 0..EscMax
  /\ esc_param \in [0..(EscMax - 1) -> Nat]
  /\ TypedIsFilled

ConsoleInv == strayed = {} => ConsoleOK

(* The places of a row, and of the row behind it.                           *)
LEMMA RowPlaces ==
  ASSUME NEW R \in Nat, NEW C \in Nat, NEW r \in 0..(R - 1)
  PROVE  /\ r * C \in Nat /\ R * C \in Nat
         /\ (r + 1) * C = r * C + C
         /\ r * C + C <= R * C
<1>1. PICK d \in Nat : R = r + 1 + d
  <2>1. R - r - 1 \in Nat /\ R = r + 1 + (R - r - 1)
    OBVIOUS
  <2> QED
    BY <2>1
<1>2. r \in Nat /\ d * C \in Nat /\ r * C \in Nat
  OBVIOUS
<1>3. (r + 1) * C = r * C + C
  BY <1>2
<1>4. (r + 1 + d) * C = (r + 1) * C + d * C
  BY <1>2
<1> QED
  BY <1>1, <1>2, <1>3, <1>4

(* The place of the cursor is on the screen.                                *)
LEMMA PlaceOnScreen ==
  ASSUME NEW r, NEW c, InScreen(r, c)
  PROVE  /\ r * Cols + c \in Screen /\ r * Cols + c \in Nat /\ r * Cols \in Nat
         /\ (r + 1) * Cols = r * Cols + Cols /\ Rows * Cols \in Nat
         /\ r = Rows - 1 => r * Cols = Rows * Cols - Cols
<1>1. r \in 0..(Rows - 1) /\ c \in 0..(Cols - 1) /\ Rows \in Nat /\ Cols \in Nat
  BY ConsoleAssumption DEF InScreen
<1>2. PICK a, b : a = r * Cols /\ b = Rows * Cols
  OBVIOUS
<1>3. a \in Nat /\ b \in Nat /\ a + Cols <= b /\ (r + 1) * Cols = a + Cols
  BY <1>1, <1>2, RowPlaces
<1>4. ASSUME r = Rows - 1  PROVE a = b - Cols
  <2>1. r + 1 = Rows
    BY <1>1, <1>4
  <2> QED
    BY <1>1, <1>2, <1>3, <2>1
<1>5. a + c \in 0..(b - 1) /\ a + c \in Nat
  BY <1>1, <1>3
<1> QED
  BY <1>2, <1>3, <1>4, <1>5 DEF Screen

(* Where the cursor jumps to, nothing has been typed.                       *)
LEMMA JumpOK ==
  ASSUME ConsoleOK, NEW r, NEW c, InScreen(r, c), JumpTo(r, c),
         filled' \in SUBSET Screen
  PROVE  InScreen(cursor_row', cursor_col') /\ TypedIsFilled'
<1>1. /\ cursor_row' = r /\ cursor_col' = c
      /\ home' = r * Cols + c /\ high' = r * Cols + c
  BY DEF JumpTo
<1>2. Place' = r * Cols + c
  BY <1>1 DEF Place
<1>3. PICK p \in Nat : p = r * Cols + c
  BY PlaceOnScreen
<1>4. \A i \in Screen : i \in Int
  BY PlaceOnScreen DEF Screen
<1>5. home' = p /\ high' = p /\ Place' = p
  BY <1>1, <1>2, <1>3
<1> QED
  BY <1>1, <1>4, <1>5 DEF TypedIsFilled, InScreen, Screen

(* The state before the step was sound, if the one behind it has not        *)
(* strayed.                                                                 *)
LEMMA StillSound ==
  ASSUME ConsoleInv, strayed \subseteq strayed', strayed' = {}
  PROVE  ConsoleOK
BY DEF ConsoleInv

(* Scrolling moves the filled places up by one row.                         *)
LEMMA ScrolledOnScreen ==
  ASSUME NEW cells
  PROVE  Scrolled(cells) \in SUBSET Screen
BY DEF Scrolled

(* A character fills the place of the cursor, and the cursor goes on; in    *)
(* the last place of the screen everything moves up by a row.               *)
LEMMA ShowCharOK ==
  ASSUME ConsoleOK, show_char
  PROVE  InScreen(cursor_row', cursor_col') /\ TypedIsFilled'
<1>1. /\ cursor_row \in 0..(Rows - 1) /\ cursor_col \in 0..(Cols - 1)
      /\ Rows \in Nat \ {0, 1} /\ Cols \in Nat \ {0, 1}
  BY ConsoleAssumption DEF ConsoleOK, InScreen
<1>2. PICK a, b, p, cells, top :
        /\ a = cursor_row * Cols /\ b = Rows * Cols /\ p = Place
        /\ cells = filled \cup ({Place} \cap Screen)
        /\ top = IF high > Place THEN high ELSE Place + 1
  OBVIOUS
<1>3. /\ a \in Nat /\ b \in Nat /\ p = a + cursor_col
      /\ p \in 0..(b - 1) /\ Screen = 0..(b - 1)
      /\ (cursor_row + 1) * Cols = a + Cols
      /\ cursor_row = Rows - 1 => a = b - Cols
  BY <1>2, PlaceOnScreen DEF ConsoleOK, Place, Screen
<1>4. /\ home \in Nat /\ high \in Nat /\ home <= p /\ p <= high
      /\ filled \subseteq Screen
      /\ \A i \in Screen : /\ i >= home /\ i < p => i \in filled
                           /\ i >= p /\ i < high => i \notin filled
  BY <1>2 DEF ConsoleOK, TypedIsFilled
<1>5. cells = filled \cup {p} /\ top = IF high > p THEN high ELSE p + 1
  BY <1>2, <1>3
<1>6. CASE ~ (cursor_col + 1 >= Cols /\ cursor_row + 1 >= Rows)
  <2>1. /\ filled' = cells
        /\ cursor_col' = (IF cursor_col + 1 >= Cols THEN 0 ELSE cursor_col + 1)
        /\ cursor_row' = (IF cursor_col + 1 >= Cols THEN cursor_row + 1 ELSE cursor_row)
        /\ home' = (IF home > 0 THEN home - 0 ELSE 0)
        /\ high' = top - 0
    BY <1>2, <1>6 DEF show_char
  <2>2. InScreen(cursor_row', cursor_col')
    BY <1>1, <1>6, <2>1 DEF InScreen
  <2>3. Place' = p + 1
    <3>1. CASE cursor_col + 1 >= Cols
      <4>1. cursor_row' = cursor_row + 1 /\ cursor_col' = 0 /\ cursor_col + 1 = Cols
        BY <1>1, <2>1, <3>1
      <4>2. Place' = (cursor_row + 1) * Cols + 0
        BY <4>1 DEF Place
      <4> QED
        BY <1>1, <1>3, <4>1, <4>2
    <3>2. CASE ~ (cursor_col + 1 >= Cols)
      <4>1. Place' = cursor_row * Cols + (cursor_col + 1)
        BY <2>1, <3>2 DEF Place
      <4> QED
        BY <1>1, <1>2, <1>3, <4>1
    <3> QED
      BY <3>1, <3>2
  <2>4. home' = home /\ high' = top /\ top \in Nat
    BY <1>3, <1>4, <1>5, <2>1
  <2>5. ASSUME NEW i \in Screen
        PROVE  /\ i >= home /\ i < p + 1 => i \in cells
               /\ i >= p + 1 /\ i < top => i \notin cells
    BY <1>3, <1>4, <1>5
  <2>6. cells \subseteq Screen /\ home <= p + 1 /\ p + 1 <= top
    <3>1. p \in Int /\ p \in Screen
      BY <1>3
    <3>2. cells \subseteq Screen
      BY <1>4, <1>5, <3>1
    <3>3. home <= p + 1 /\ p + 1 <= top
      BY <1>4, <1>5, <3>1
    <3> QED
      BY <3>2, <3>3
  <2>7. TypedIsFilled'
    BY <1>4, <2>1, <2>3, <2>4, <2>5, <2>6 DEF TypedIsFilled, Screen
  <2> QED
    BY <2>2, <2>7
<1>7. CASE cursor_col + 1 >= Cols /\ cursor_row + 1 >= Rows
  <2>1. /\ filled' = Scrolled(cells)
        /\ cursor_col' = 0 /\ cursor_row' = cursor_row
        /\ home' = (IF home > Cols THEN home - Cols ELSE 0)
        /\ high' = top - Cols
    BY <1>2, <1>7 DEF show_char
  <2>2. InScreen(cursor_row', cursor_col')
    BY <1>1, <2>1 DEF InScreen
  <2>3. cursor_col = Cols - 1 /\ p = b - 1 /\ Cols <= b
    BY <1>1, <1>3, <1>7
  <2>4. Place' = b - Cols
    <3>1. Place' = cursor_row * Cols + 0
      BY <2>1 DEF Place
    <3> QED
      BY <1>1, <1>2, <1>3, <1>7, <3>1
  <2>5. ASSUME NEW i \in Screen
        PROVE  /\ i >= home' /\ i < b - Cols => i \in Scrolled(cells)
               /\ i >= b - Cols => i \notin Scrolled(cells)
    <3>1. i + Cols \in Screen <=> i < b - Cols
      BY <1>1, <1>3
    <3>2. ASSUME i >= home', i < b - Cols  PROVE i + Cols \in cells
      <4>1. i + Cols >= home /\ i + Cols < b /\ i + Cols \in Screen
        BY <1>1, <1>3, <1>4, <2>1, <3>1, <3>2
      <4> QED
        BY <1>3, <1>4, <1>5, <2>3, <4>1
    <3> QED
      BY <1>1, <1>3, <3>1, <3>2 DEF Scrolled
  <2>6. /\ home' \in Nat /\ high' \in Nat
        /\ home' <= b - Cols /\ b - Cols <= high'
    BY <1>1, <1>3, <1>4, <1>5, <2>1, <2>3
  <2>7. TypedIsFilled'
    BY <2>1, <2>4, <2>5, <2>6, ScrolledOnScreen DEF TypedIsFilled, Screen
  <2> QED
    BY <2>2, <2>7
<1> QED
  BY <1>6, <1>7

(* The place that a delete or '\b' goes to.                                 *)
LEMMA BeforePlace ==
  ASSUME ConsoleOK
  PROVE  /\ InScreen(Before[1], Before[2])
         /\ <<cursor_row, cursor_col>> # Before
              => Before[1] * Cols + Before[2] = Place - 1
<1>1. /\ cursor_row \in 0..(Rows - 1) /\ cursor_col \in 0..(Cols - 1)
      /\ Rows \in Nat \ {0, 1} /\ Cols \in Nat \ {0, 1}
  BY ConsoleAssumption DEF ConsoleOK, InScreen
<1>2. CASE cursor_col > 0
  <2>1. Before[1] = cursor_row /\ Before[2] = cursor_col - 1
    BY <1>2 DEF Before
  <2>2. cursor_row * Cols \in Nat
    BY PlaceOnScreen DEF ConsoleOK
  <2> QED
    BY <1>1, <1>2, <2>1, <2>2 DEF InScreen, Place
<1>3. CASE cursor_col = 0 /\ cursor_row > 0
  <2>1. Before[1] = cursor_row - 1 /\ Before[2] = Cols - 1
    BY <1>3 DEF Before
  <2>2. InScreen(cursor_row - 1, Cols - 1)
    BY <1>1, <1>3 DEF InScreen
  <2>3. PICK r : r = cursor_row - 1
    OBVIOUS
  <2>4. r * Cols \in Nat /\ (r + 1) * Cols = r * Cols + Cols /\ r + 1 = cursor_row
    BY <1>1, <2>2, <2>3, PlaceOnScreen
  <2> QED
    BY <1>1, <1>3, <2>1, <2>2, <2>3, <2>4 DEF Place
<1>4. CASE cursor_col = 0 /\ cursor_row = 0
  <2>1. Before = <<cursor_row, cursor_col>>
    BY <1>4 DEF Before
  <2> QED
    BY <2>1 DEF ConsoleOK
<1> QED
  BY <1>1, <1>2, <1>3, <1>4

(* A delete takes off the last character, over the beginning of a row.      *)
LEMMA EraseOK ==
  ASSUME ConsoleOK, erase_backword
  PROVE  InScreen(cursor_row', cursor_col') /\ TypedIsFilled'
<1>1. CASE <<cursor_row, cursor_col>> = Before
  <2>1. JumpTo(cursor_row, cursor_col) /\ filled' = filled
    BY <1>1 DEF erase_backword
  <2> QED
    BY <2>1, JumpOK DEF ConsoleOK, TypedIsFilled
<1>2. CASE <<cursor_row, cursor_col>> # Before
  <2>1. PICK p, at : p = Place /\ at = Before[1] * Cols + Before[2]
    OBVIOUS
  <2>2. /\ cursor_row' = Before[1] /\ cursor_col' = Before[2]
        /\ filled' = filled \ {at} /\ high' = high
        /\ home' = IF home > at THEN at ELSE home
    BY <1>2, <2>1 DEF erase_backword
  <2>3. /\ InScreen(cursor_row', cursor_col') /\ at = p - 1
        /\ p \in Nat /\ at \in Nat /\ at \in Screen /\ \A i \in Screen : i \in Int
    BY <1>2, <2>1, <2>2, BeforePlace, PlaceOnScreen DEF ConsoleOK, Place, Screen
  <2>4. Place' = at
    BY <2>1, <2>2 DEF Place
  <2>5. /\ home \in Nat /\ high \in Nat /\ home <= p /\ p <= high
        /\ filled \subseteq Screen
        /\ \A i \in Screen : /\ i >= home /\ i < p => i \in filled
                             /\ i >= p /\ i < high => i \notin filled
    BY <2>1 DEF ConsoleOK, TypedIsFilled
  <2>6. home' \in Nat /\ home' <= at /\ at <= high /\ home' <= home
    BY <2>2, <2>3, <2>5
  <2>7. ASSUME NEW i \in Screen
        PROVE  /\ i >= home' /\ i < at => i \in filled'
               /\ i >= at /\ i < high => i \notin filled'
    BY <2>2, <2>3, <2>5, <2>6
  <2> QED
    BY <2>2, <2>3, <2>4, <2>5, <2>6, <2>7 DEF TypedIsFilled, Screen
<1> QED
  BY <1>1, <1>2

(* '\r', '\b' and '\n'.                                                     *)
LEMMA MoveOK ==
  ASSUME ConsoleOK,
         \/ move_backword \/ move_next_line
         \/ JumpTo(cursor_row, 0) /\ UNCHANGED filled
  PROVE  InScreen(cursor_row', cursor_col') /\ TypedIsFilled'
<1>1. /\ cursor_row \in 0..(Rows - 1) /\ cursor_col \in 0..(Cols - 1)
      /\ Rows \in Nat \ {0, 1} /\ Cols \in Nat \ {0, 1}
      /\ filled \in SUBSET Screen
  BY ConsoleAssumption DEF ConsoleOK, InScreen, TypedIsFilled
<1>2. CASE move_backword
  <2>1. JumpTo(Before[1], Before[2]) /\ filled' = filled
    BY <1>2 DEF move_backword
  <2> QED
    BY <1>1, <2>1, BeforePlace, JumpOK
<1>3. CASE move_next_line
  <2>1. PICK r : r = IF cursor_row + 1 >= Rows THEN cursor_row ELSE cursor_row + 1
    OBVIOUS
  <2>2. /\ JumpTo(r, cursor_col)
        /\ filled' = IF cursor_row + 1 >= Rows THEN Scrolled(filled) ELSE filled
    BY <1>3, <2>1 DEF move_next_line
  <2>3. InScreen(r, cursor_col)
    BY <1>1, <2>1 DEF InScreen
  <2>4. filled' \in SUBSET Screen
    BY <1>1, <2>2, ScrolledOnScreen
  <2> QED
    BY <2>2, <2>3, <2>4, JumpOK
<1>4. CASE JumpTo(cursor_row, 0) /\ UNCHANGED filled
  <2>1. InScreen(cursor_row, 0)
    BY <1>1 DEF InScreen
  <2> QED
    BY <1>1, <1>4, <2>1, JumpOK
<1> QED
  BY <1>2, <1>3, <1>4

(* The cursor is anywhere on the screen.                                    *)
LEMMA ConsoleInitInv == ConsoleInit => ConsoleInv
<1> SUFFICES ASSUME ConsoleInit  PROVE ConsoleOK
  BY DEF ConsoleInv
<1>1. InScreen(cursor_row, cursor_col) /\ InScreen(old_cursor_row, old_cursor_col)
  BY DEF ConsoleInit, InScreen
<1>2. PICK p \in Nat : p = Place /\ p \in Screen
  BY <1>1, PlaceOnScreen DEF Place
<1>3. PICK b \in Nat : b = Rows * Cols
  BY ConsoleAssumption
<1>4. /\ home = p /\ high = p /\ filled = 0..(p - 1) /\ Screen = 0..(b - 1)
      /\ curr_param_index = 0 /\ esc_param = [i \in 0..(EscMax - 1) |-> 0]
  BY <1>2, <1>3 DEF ConsoleInit, Screen
<1>5. filled \subseteq Screen
  BY <1>2, <1>4
<1>6. TypedIsFilled
  BY <1>2, <1>4, <1>5 DEF TypedIsFilled
<1>7. curr_param_index \in 0..EscMax /\ esc_param \in [0..(EscMax - 1) -> Nat]
  BY <1>4, ConsoleAssumption
<1> QED
  BY <1>1, <1>6, <1>7 DEF ConsoleOK

(* An ordinary character.                                                   *)
LEMMA NormalInv ==
  ASSUME ConsoleInv, write_normal
  PROVE  ConsoleInv'
<1>1. UNCHANGED <<old_cursor_row, old_cursor_col, esc_param, curr_param_index>>
  BY DEF write_normal
<1>2. UNCHANGED strayed
  BY DEF write_normal, show_char, erase_backword, move_backword, move_next_line
<1> SUFFICES ASSUME ConsoleOK  PROVE ConsoleOK'
  BY <1>2 DEF ConsoleInv
<1>3. InScreen(cursor_row', cursor_col') /\ TypedIsFilled'
  <2>1. CASE UNCHANGED shownvars
    BY <2>1 DEF shownvars, ConsoleOK, TypedIsFilled, InScreen, Place, Screen
  <2>2. CASE show_char
    BY <2>2, ShowCharOK
  <2>3. CASE erase_backword
    BY <2>3, EraseOK
  <2>4. CASE \/ move_backword \/ move_next_line
             \/ JumpTo(cursor_row, 0) /\ UNCHANGED filled
    BY <2>4, MoveOK
  <2> QED
    BY <2>1, <2>2, <2>3, <2>4 DEF write_normal
<1> QED
  BY <1>1, <1>3 DEF ConsoleOK, InScreen

(* The character behind ESC.                                                *)
LEMMA EscInv ==
  ASSUME ConsoleInv, write_esc
  PROVE  ConsoleInv'
<1>1. UNCHANGED strayed
  BY DEF write_esc
<1> SUFFICES ASSUME ConsoleOK  PROVE ConsoleOK'
  BY <1>1 DEF ConsoleInv
<1>2. CASE /\ old_cursor_row' = cursor_row /\ old_cursor_col' = cursor_col
           /\ UNCHANGED <<shownvars, esc_param, curr_param_index>>
  BY <1>2 DEF shownvars, ConsoleOK, TypedIsFilled, InScreen, Place, Screen
<1>3. CASE /\ JumpTo(old_cursor_row, old_cursor_col)
           /\ UNCHANGED <<filled, old_cursor_row, old_cursor_col, esc_param, curr_param_index>>
  <2>1. InScreen(old_cursor_row, old_cursor_col) /\ filled' \in SUBSET Screen
    BY <1>3 DEF ConsoleOK, TypedIsFilled
  <2>2. InScreen(cursor_row', cursor_col') /\ TypedIsFilled'
    BY <1>3, <2>1, JumpOK
  <2> QED
    BY <1>3, <2>2 DEF ConsoleOK, InScreen
<1>4. CASE /\ esc_param' = [i \in 0..(EscMax - 1) |-> 0] /\ curr_param_index' = 0
           /\ UNCHANGED <<shownvars, old_cursor_row, old_cursor_col>>
  <2>1. curr_param_index' \in 0..EscMax /\ esc_param' \in [0..(EscMax - 1) -> Nat]
    BY <1>4, ConsoleAssumption
  <2> QED
    BY <1>4, <2>1 DEF shownvars, ConsoleOK, TypedIsFilled, InScreen, Place, Screen
<1>5. CASE UNCHANGED <<shownvars, old_cursor_row, old_cursor_col, esc_param, curr_param_index>>
  BY <1>5 DEF shownvars, ConsoleOK, TypedIsFilled, InScreen, Place, Screen
<1> QED
  BY <1>2, <1>3, <1>4, <1>5 DEF write_esc

(* A digit or a separator.                                                  *)
LEMMA ParamInv ==
  ASSUME ConsoleInv, Param \/ Separator
  PROVE  ConsoleInv'
<1>1. UNCHANGED <<shownvars, old_cursor_row, old_cursor_col>>
  BY DEF Param, Separator
<1> SUFFICES ASSUME strayed' = {}  PROVE ConsoleOK'
  BY DEF ConsoleInv
<1>2. strayed \subseteq strayed'
  BY DEF Param, Separator
<1>3. ConsoleOK
  BY <1>2, StillSound
<1>4. curr_param_index' \in 0..EscMax /\ esc_param' \in [0..(EscMax - 1) -> Nat]
  <2>1. CASE Param
    <3>1. PICK d \in Digit :
            /\ curr_param_index < EscMax
            /\ curr_param_index' = curr_param_index
            /\ esc_param' = [esc_param EXCEPT ![curr_param_index]
                                = esc_param[curr_param_index] * 10 + d]
      BY <2>1 DEF Param
    <3>2. d \in Nat /\ EscMax \in Nat
      BY ConsoleAssumption
    <3>3. curr_param_index \in 0..(EscMax - 1)
      BY <1>3, <3>1, <3>2 DEF ConsoleOK
    <3>4. esc_param[curr_param_index] * 10 + d \in Nat
      BY <1>3, <3>2, <3>3 DEF ConsoleOK
    <3> QED
      BY <1>3, <3>1, <3>4 DEF ConsoleOK
  <2>2. CASE Separator
    BY <1>3, <2>2, ConsoleAssumption DEF Separator, ConsoleOK
  <2> QED
    BY <2>1, <2>2
<1> QED
  BY <1>1, <1>3, <1>4 DEF shownvars, ConsoleOK, TypedIsFilled, InScreen, Place, Screen

(* The character that ends a sequence.                                      *)
LEMMA SquareInv ==
  ASSUME ConsoleInv, write_esc_square
  PROVE  ConsoleInv'
<1>1. UNCHANGED <<old_cursor_row, old_cursor_col, esc_param, curr_param_index>>
  BY DEF write_esc_square
<1> SUFFICES ASSUME strayed' = {}  PROVE ConsoleOK'
  BY DEF ConsoleInv
<1>2. strayed \subseteq strayed'
  BY DEF write_esc_square, move_cursor, erase_in_display
<1>3. ConsoleOK
  BY <1>2, StillSound
<1>4. /\ cursor_row \in 0..(Rows - 1) /\ cursor_col \in 0..(Cols - 1)
      /\ Rows \in Nat \ {0, 1} /\ Cols \in Nat \ {0, 1}
      /\ filled \in SUBSET Screen
  BY <1>3, ConsoleAssumption DEF ConsoleOK, InScreen, TypedIsFilled
<1>5. PICK n \in Nat : n = esc_param[0]
  BY <1>3, ConsoleAssumption DEF ConsoleOK
<1>6. PICK k \in Nat : k = Steps(n) /\ k > 0
  BY DEF Steps
<1>7. InScreen(cursor_row', cursor_col') /\ TypedIsFilled'
  <2>1. CASE move_left(esc_param[0]) /\ UNCHANGED filled
    <3>1. PICK c : c = IF cursor_col > k THEN cursor_col - k ELSE 0
      OBVIOUS
    <3>2. JumpTo(cursor_row, c)
      BY <1>5, <1>6, <2>1, <3>1 DEF move_left
    <3>3. InScreen(cursor_row, c)
      BY <1>4, <3>1 DEF InScreen
    <3> QED
      BY <1>3, <1>4, <2>1, <3>2, <3>3, JumpOK
  <2>2. CASE move_right(esc_param[0]) /\ UNCHANGED filled
    <3>1. PICK c : c = IF cursor_col + k >= Cols THEN Cols - 1 ELSE cursor_col + k
      OBVIOUS
    <3>2. JumpTo(cursor_row, c)
      BY <1>5, <1>6, <2>2, <3>1 DEF move_right
    <3>3. InScreen(cursor_row, c)
      BY <1>4, <3>1 DEF InScreen
    <3> QED
      BY <1>3, <1>4, <2>2, <3>2, <3>3, JumpOK
  <2>3. CASE move_cursor
    <3>1. InScreen(esc_param[0], esc_param[1])
      BY <2>3 DEF move_cursor
    <3> QED
      BY <1>3, <1>4, <2>3, <3>1, JumpOK DEF move_cursor
  <2>4. CASE erase_in_display
    <3>1. CASE UNCHANGED <<shownvars, strayed>>
      BY <1>3, <3>1 DEF shownvars, ConsoleOK, TypedIsFilled, InScreen, Place, Screen
    <3>2. CASE JumpTo(0, 0) /\ filled' = {}
      <4>1. InScreen(0, 0) /\ filled' \in SUBSET Screen
        BY <1>4, <3>2 DEF InScreen
      <4> QED
        BY <1>3, <3>2, <4>1, JumpOK
    <3> QED
      BY <2>4, <3>1, <3>2 DEF erase_in_display
  <2>5. CASE UNCHANGED shownvars
    BY <1>3, <2>5 DEF shownvars, ConsoleOK, TypedIsFilled, InScreen, Place, Screen
  <2> QED
    BY <2>1, <2>2, <2>3, <2>4, <2>5 DEF write_esc_square
<1> QED
  BY <1>1, <1>3, <1>7 DEF ConsoleOK, InScreen

(* Every character that is written keeps the invariant.                     *)
LEMMA ConsoleNextInv == ConsoleInv /\ [ConsoleNext]_cvars => ConsoleInv'
<1> SUFFICES ASSUME ConsoleInv, [ConsoleNext]_cvars  PROVE ConsoleInv'
  OBVIOUS
<1>1. CASE write_normal
  BY <1>1, NormalInv
<1>2. CASE write_esc
  BY <1>2, EscInv
<1>3. CASE Param \/ Separator
  BY <1>3, ParamInv
<1>4. CASE write_esc_square
  BY <1>4, SquareInv
<1>5. CASE UNCHANGED cvars
  BY <1>5
  DEF cvars, shownvars, ConsoleInv, ConsoleOK, TypedIsFilled, InScreen, Place, Screen
<1> QED
  BY <1>1, <1>2, <1>3, <1>4, <1>5 DEF ConsoleNext

(* The invariant says what the run checks.                                  *)
LEMMA ConsoleInvImplies == ConsoleInv => ConsoleSound
<1> SUFFICES ASSUME ConsoleInv, strayed = {}
             PROVE  /\ InScreen(cursor_row, cursor_col)
                    /\ InScreen(old_cursor_row, old_cursor_col)
                    /\ curr_param_index <= EscMax /\ TypedIsFilled
  BY DEF ConsoleSound, TypedIsFilled
<1> QED
  BY ConsoleAssumption DEF ConsoleInv, ConsoleOK

(* ConsoleSound, for a screen of any size: whatever a program writes, the   *)
(* cursor stays on the screen, except after H, f or an eleventh parameter,  *)
(* and each delete takes back the last character, over the ends of the rows *)
(* and after the screen has scrolled.                                       *)
THEOREM ConsoleStaysSound == ConsoleSpec => []ConsoleSound
<1> QED
  BY ConsoleInitInv, ConsoleNextInv, ConsoleInvImplies, PTL DEF ConsoleSpec

-----------------------------------------------------------------------------
\* The keyboard: Keyboard.

Code  == Plain \cup {"up", "numlock"}
Byte  == {E0, E1} \cup (Code \X BOOLEAN)
Shown == {"a", "A", "1", "!"}
Flags == Modifiers \cup {CapsLock}

\* What the driver keeps from one byte to the next, and the characters that
\* have not come.
DriverState ==
  [recv : {"NORMAL", "BEGIN_E0", "BEGIN_E1"}, flags : SUBSET Flags, tty : Fx, want : Seq(Shown)]

Now == [recv |-> recv_state, flags |-> keyboard_state, tty |-> curr_tty, want |-> wanted]

\* Mapped, with the flags as a parameter.
MappedBy(flags, c) ==
  LET m == IF flags \cap Shifts # {} THEN IF c = "1" THEN "!" ELSE "A" ELSE c
  IN IF CapsLock \in flags THEN Upper(m) ELSE m

FlagsAfter(key, make, flags) == IF make THEN flags \cup {key} ELSE flags \ {key}

\* A byte takes the driver from one state to another, with the right character
\* if it gives one.
FeedsKey(c, make, s, t) ==
  IF <<"plain", c>> \in Modifiers
  THEN t = [s EXCEPT !.flags = FlagsAfter(<<"plain", c>>, make, s.flags)]
  ELSE IF c = "caps"
  THEN t = IF make THEN [s EXCEPT !.flags = FlagsAfter(CapsLock, CapsLock \notin s.flags, s.flags)]
           ELSE s
  ELSE IF c \in Fx THEN t = [s EXCEPT !.tty = c]
  ELSE IF make /\ c \in {"a", "1"}
  THEN /\ s.want # <<>> /\ Head(s.want) = MappedBy(s.flags, c)
       /\ t = [s EXCEPT !.want = Tail(s.want)]
  ELSE c # "up" /\ t = s

Feeds(b, s, t) ==
  IF b = E0 THEN t = [s EXCEPT !.recv = "BEGIN_E0"]
  ELSE IF b = E1 THEN t = [s EXCEPT !.recv = "BEGIN_E1"]
  ELSE IF s.recv = "NORMAL" THEN FeedsKey(b[1], b[2], s, t)
  ELSE IF s.recv = "BEGIN_E1" THEN t = [s EXCEPT !.recv = "NORMAL"]
  ELSE IF b[1] = "up" THEN t = [s EXCEPT !.recv = "NORMAL"]
  ELSE /\ <<"after0", b[1]>> \in Modifiers
       /\ t = [s EXCEPT !.recv = "NORMAL",
                        !.flags = FlagsAfter(<<"after0", b[1]>>, b[2], s.flags)]

\* The bytes bs take the driver from s to g.
Decodes(bs, s, g) ==
  \E run \in Seq(DriverState) :
    /\ Len(run) = Len(bs) + 1
    /\ run[1] = s /\ run[Len(bs) + 1] = g
    /\ \A i \in 1..Len(bs) : Feeds(bs[i], run[i], run[i + 1])

\* What the driver has to come to: the keys that are down, no character missing.
Aim(g) ==
  /\ g.recv = "NORMAL" /\ g.want = <<>>
  /\ g.flags = (held \cap Modifiers) \cup (IF caps THEN {CapsLock} ELSE {})
  /\ both \/ g.tty = chosen

KeyInv ==
  /\ held \subseteq KeyHeld /\ bytes \in Seq(Byte) /\ caps \in BOOLEAN
  /\ ~ wrong
  /\ both \/ \A f \in Fx : <<"plain", f>> \in held => f = chosen
  /\ \E g \in DriverState : Decodes(bytes, Now, g) /\ Aim(g)

(* No bytes, no change.                                                     *)
LEMMA DecodesNone ==
  /\ \A s, g : Decodes(<<>>, s, g) => s = g
  /\ \A s \in DriverState : Decodes(<<>>, s, s)
<1>1. ASSUME NEW s, NEW g, Decodes(<<>>, s, g)  PROVE s = g
  BY <1>1 DEF Decodes
<1>2. ASSUME NEW s \in DriverState  PROVE Decodes(<<>>, s, s)
  <2>1. /\ <<s>> \in Seq(DriverState) /\ Len(<<s>>) = Len(<<>>) + 1
        /\ <<s>>[1] = s /\ <<s>>[Len(<<>>) + 1] = s
    OBVIOUS
  <2>2. \A i \in 1..Len(<<>>) : Feeds(<<>>[i], <<s>>[i], <<s>>[i + 1])
    OBVIOUS
  <2> QED
    BY <2>1, <2>2 DEF Decodes
<1> QED
  BY <1>1, <1>2

(* One byte more at the end.                                                *)
LEMMA DecodesMore ==
  ASSUME NEW bs \in Seq(Byte), NEW s, NEW g, Decodes(bs, s, g),
         NEW b \in Byte, NEW h \in DriverState, Feeds(b, g, h)
  PROVE  Decodes(Append(bs, b), s, h)
<1>1. PICK run \in Seq(DriverState) :
        /\ Len(run) = Len(bs) + 1
        /\ run[1] = s /\ run[Len(bs) + 1] = g
        /\ \A i \in 1..Len(bs) : Feeds(bs[i], run[i], run[i + 1])
  BY DEF Decodes
<1>2. PICK n, r, c : n = Len(bs) /\ r = Append(run, h) /\ c = Append(bs, b)
  OBVIOUS
<1>3. /\ n \in Nat /\ r \in Seq(DriverState) /\ Len(r) = n + 2
      /\ \A i \in 1..(n + 1) : r[i] = run[i]
      /\ r[n + 2] = h
      /\ Len(c) = n + 1 /\ c[n + 1] = b
      /\ \A i \in 1..n : c[i] = bs[i]
  BY <1>1, <1>2
<1>4. ASSUME NEW i \in 1..(n + 1)  PROVE Feeds(c[i], r[i], r[i + 1])
  <2>1. CASE i = n + 1
    <3>1. i + 1 = n + 2 /\ i \in 1..(n + 1) /\ c[i] = b
      BY <1>3, <2>1
    <3>2. r[i] = g /\ r[i + 1] = h
      BY <1>1, <1>2, <1>3, <2>1, <3>1
    <3> QED
      BY <3>1, <3>2
  <2>2. CASE i # n + 1
    <3>1. i \in 1..n /\ i + 1 \in 1..(n + 1)
      BY <1>3, <2>2
    <3>2. Feeds(bs[i], run[i], run[i + 1])
      BY <1>1, <1>2, <3>1
    <3>3. c[i] = bs[i] /\ r[i] = run[i] /\ r[i + 1] = run[i + 1]
      BY <1>3, <3>1
    <3> QED
      BY <3>2, <3>3
  <2> QED
    BY <2>1, <2>2
<1>5. r[1] = s /\ Len(r) = Len(c) + 1 /\ r[Len(c) + 1] = h
  BY <1>1, <1>3
<1> QED
  BY <1>2, <1>3, <1>4, <1>5 DEF Decodes

(* One byte less at the front.                                              *)
LEMMA DecodesRest ==
  ASSUME NEW bs \in Seq(Byte), bs # <<>>, NEW s, NEW g, Decodes(bs, s, g)
  PROVE  \E t \in DriverState : Feeds(Head(bs), s, t) /\ Decodes(Tail(bs), t, g)
<1>1. PICK run \in Seq(DriverState) :
        /\ Len(run) = Len(bs) + 1
        /\ run[1] = s /\ run[Len(bs) + 1] = g
        /\ \A i \in 1..Len(bs) : Feeds(bs[i], run[i], run[i + 1])
  BY DEF Decodes
<1>2. PICK n, r, c : n = Len(bs) /\ r = Tail(run) /\ c = Tail(bs)
  OBVIOUS
<1>3. n \in Nat /\ n >= 1 /\ Head(bs) = bs[1] /\ run # <<>>
  BY <1>1, <1>2
<1>4. /\ r \in Seq(DriverState) /\ Len(r) = n
      /\ \A i \in 1..n : r[i] = run[i + 1]
      /\ c \in Seq(Byte) /\ Len(c) = n - 1
      /\ \A i \in 1..(n - 1) : c[i] = bs[i + 1]
  BY <1>1, <1>2, <1>3, HeadTailProperties
<1>5. r[1] \in DriverState /\ Feeds(Head(bs), s, r[1])
  <2>1. 1 \in 1..n /\ 1 + 1 = 2 /\ r[1] = run[2]
    BY <1>3, <1>4
  <2>2. Feeds(bs[1], run[1], run[1 + 1])
    BY <1>1, <1>2, <2>1
  <2> QED
    BY <1>1, <1>3, <1>4, <2>1, <2>2
<1>6. ASSUME NEW i \in 1..(n - 1)  PROVE Feeds(c[i], r[i], r[i + 1])
  <2>1. i + 1 \in 1..n /\ i \in 1..n /\ (i + 1) + 1 \in Int
    BY <1>3
  <2>2. Feeds(bs[i + 1], run[i + 1], run[(i + 1) + 1])
    BY <1>1, <1>2, <2>1
  <2> QED
    BY <1>4, <2>1, <2>2
<1>7. r[n] = g
  BY <1>1, <1>2, <1>3, <1>4
<1>8. Decodes(c, r[1], g)
  <2>1. Len(r) = Len(c) + 1 /\ r[Len(c) + 1] = g
    BY <1>3, <1>4, <1>7
  <2>2. \A i \in 1..Len(c) : Feeds(c[i], r[i], r[i + 1])
    BY <1>4, <1>6
  <2> QED
    BY <1>4, <2>1, <2>2 DEF Decodes
<1> QED
  BY <1>2, <1>5, <1>8

\* A key with a character has been pressed, behind all that the driver has still
\* to read.
Awaits(s, x) == [s EXCEPT !.want = Append(s.want, x)]

(* The bytes that are under way do not see it.                              *)
LEMMA FeedsAwaits ==
  ASSUME NEW b, NEW s \in DriverState, NEW t \in DriverState, NEW x \in Shown,
         Feeds(b, s, t)
  PROVE  Feeds(b, Awaits(s, x), Awaits(t, x))
<1>1. PICK p, w : p = Awaits(s, x) /\ w = Append(s.want, x)
  OBVIOUS
<1>2. /\ p = [s EXCEPT !.want = w] /\ w \in Seq(Shown) /\ s.want \in Seq(Shown)
      /\ p.recv = s.recv /\ p.flags = s.flags /\ p.tty = s.tty /\ p.want = w
  BY <1>1 DEF Awaits, DriverState
<1>4. CASE b \in {E0, E1}
  BY <1>1, <1>2, <1>4 DEF Feeds, DriverState, Awaits
<1>5. CASE b \notin {E0, E1} /\ s.recv # "NORMAL"
  <2>1. CASE s.recv = "BEGIN_E1" \/ b[1] = "up"
    BY <1>1, <1>2, <1>5, <2>1 DEF Feeds, DriverState, Awaits
  <2>2. CASE s.recv # "BEGIN_E1" /\ b[1] # "up"
    <3>1. PICK f : f = FlagsAfter(<<"after0", b[1]>>, b[2], s.flags)
      OBVIOUS
    <3>2. <<"after0", b[1]>> \in Modifiers /\ t = [s EXCEPT !.recv = "NORMAL", !.flags = f]
      BY <1>5, <2>2, <3>1 DEF Feeds
    <3>3. Awaits(t, x) = [p EXCEPT !.recv = "NORMAL", !.flags = f]
      BY <1>1, <1>2, <3>2 DEF DriverState, Awaits
    <3> QED
      BY <1>1, <1>2, <1>5, <2>2, <3>1, <3>2, <3>3 DEF Feeds
  <2> QED
    BY <2>1, <2>2
<1>6. CASE b \notin {E0, E1} /\ s.recv = "NORMAL"
  <2>1. PICK c, m : c = b[1] /\ m = b[2]
    OBVIOUS
  <2>2. FeedsKey(c, m, s, t)
    BY <1>6, <2>1 DEF Feeds
  <2>3. ASSUME FeedsKey(c, m, p, Awaits(t, x))  PROVE Feeds(b, Awaits(s, x), Awaits(t, x))
    BY <1>1, <1>2, <1>6, <2>1, <2>3 DEF Feeds
  <2>4. CASE <<"plain", c>> \in Modifiers
    <3>1. PICK f : f = FlagsAfter(<<"plain", c>>, m, s.flags)
      OBVIOUS
    <3>2. t = [s EXCEPT !.flags = f]
      BY <2>2, <2>4, <3>1 DEF FeedsKey
    <3>3. Awaits(t, x) = [p EXCEPT !.flags = f]
      BY <1>1, <1>2, <3>2 DEF DriverState, Awaits
    <3> QED
      BY <1>2, <2>3, <2>4, <3>1, <3>3 DEF FeedsKey
  <2>5. CASE <<"plain", c>> \notin Modifiers /\ c = "caps"
    <3>1. PICK f : f = FlagsAfter(CapsLock, CapsLock \notin s.flags, s.flags)
      OBVIOUS
    <3>2. t = IF m THEN [s EXCEPT !.flags = f] ELSE s
      BY <2>2, <2>5, <3>1 DEF FeedsKey
    <3>3. Awaits(t, x) = IF m THEN [p EXCEPT !.flags = f] ELSE p
      BY <1>1, <1>2, <3>2 DEF DriverState, Awaits
    <3> QED
      BY <1>2, <2>3, <2>5, <3>1, <3>3 DEF FeedsKey
  <2>6. CASE <<"plain", c>> \notin Modifiers /\ c # "caps" /\ c \in Fx
    <3>1. t = [s EXCEPT !.tty = c]
      BY <2>2, <2>6 DEF FeedsKey
    <3>2. Awaits(t, x) = [p EXCEPT !.tty = c]
      BY <1>1, <1>2, <3>1 DEF DriverState, Awaits
    <3> QED
      BY <1>2, <2>3, <2>6, <3>2 DEF FeedsKey
  <2>7. CASE /\ <<"plain", c>> \notin Modifiers /\ c # "caps" /\ c \notin Fx
             /\ m /\ c \in {"a", "1"}
    <3>1. /\ s.want # <<>> /\ Head(s.want) = MappedBy(s.flags, c)
          /\ t = [s EXCEPT !.want = Tail(s.want)]
      BY <2>2, <2>7 DEF FeedsKey
    <3>2. w # <<>> /\ Head(w) = Head(s.want) /\ Tail(w) = Append(Tail(s.want), x)
      BY <1>1, <1>2, <3>1
    <3>3. Awaits(t, x) = [p EXCEPT !.want = Tail(w)]
      BY <1>2, <3>1, <3>2 DEF Awaits, DriverState
    <3> QED
      BY <1>2, <2>3, <2>7, <3>1, <3>2, <3>3 DEF FeedsKey
  <2>8. CASE /\ <<"plain", c>> \notin Modifiers /\ c # "caps" /\ c \notin Fx
             /\ ~ (m /\ c \in {"a", "1"})
    <3>1. c # "up" /\ t = s
      BY <2>2, <2>8 DEF FeedsKey
    <3> QED
      BY <1>1, <2>3, <2>8, <3>1 DEF FeedsKey
  <2> QED
    BY <2>4, <2>5, <2>6, <2>7, <2>8
<1> QED
  BY <1>4, <1>5, <1>6

(* It is a state of the driver, that differs in the characters only.        *)
LEMMA AwaitsState ==
  ASSUME NEW s \in DriverState, NEW x \in Shown
  PROVE  /\ Awaits(s, x) \in DriverState
         /\ Awaits(s, x).recv = s.recv /\ Awaits(s, x).flags = s.flags
         /\ Awaits(s, x).tty = s.tty /\ Awaits(s, x).want = Append(s.want, x)
<1>1. PICK w : w = Append(s.want, x)
  OBVIOUS
<1>2. s.want \in Seq(Shown)
  BY DEF DriverState
<1>3. w \in Seq(Shown)
  BY <1>1, <1>2
<1> QED
  BY <1>1, <1>3 DEF Awaits, DriverState

(* Nor does a run of them.                                                  *)
LEMMA DecodesAwaits ==
  ASSUME NEW bs \in Seq(Byte), NEW s, NEW g, NEW x \in Shown, Decodes(bs, s, g)
  PROVE  Decodes(bs, Awaits(s, x), Awaits(g, x))
<1>1. PICK run \in Seq(DriverState) :
        /\ Len(run) = Len(bs) + 1
        /\ run[1] = s /\ run[Len(bs) + 1] = g
        /\ \A i \in 1..Len(bs) : Feeds(bs[i], run[i], run[i + 1])
  BY DEF Decodes
<1>2. PICK n : n = Len(bs) /\ n \in Nat
  OBVIOUS
<1>3. PICK r : r = [i \in 1..(n + 1) |-> Awaits(run[i], x)]
  OBVIOUS
<1>4. ASSUME NEW i \in 1..(n + 1)
      PROVE  run[i] \in DriverState /\ Awaits(run[i], x) \in DriverState
  <2>1. run[i] \in DriverState
    BY <1>1, <1>2
  <2> QED
    BY <2>1, AwaitsState
<1>5. r \in Seq(DriverState) /\ Len(r) = n + 1
  BY <1>2, <1>3, <1>4
<1>6. ASSUME NEW i \in 1..n  PROVE Feeds(bs[i], r[i], r[i + 1])
  <2>1. i \in 1..(n + 1) /\ i + 1 \in 1..(n + 1)
    BY <1>2
  <2>2. /\ run[i] \in DriverState /\ run[i + 1] \in DriverState
        /\ Feeds(bs[i], run[i], run[i + 1])
    BY <1>1, <1>2, <1>4, <2>1
  <2>3. r[i] = Awaits(run[i], x) /\ r[i + 1] = Awaits(run[i + 1], x)
    BY <1>3, <2>1
  <2> QED
    BY <2>2, <2>3, FeedsAwaits
<1>7. r[1] = Awaits(s, x) /\ r[n + 1] = Awaits(g, x)
  BY <1>1, <1>2, <1>3
<1> QED
  BY <1>2, <1>5, <1>6, <1>7 DEF Decodes

(* The codes of the keys differ.                                            *)
LEMMA Codes ==
  /\ Fx \cap {"lshift", "rshift", "caps", "ctrl", "alt", "a", "1", "esc", "up", "numlock"} = {}
  /\ \A c : <<"plain", c>> \in Modifiers <=> c \in {"lshift", "rshift", "ctrl", "alt"}
  /\ \A c : <<"after0", c>> \in Modifiers <=> c \in {"ctrl", "alt"}
  /\ Shifts \subseteq Modifiers /\ CapsLock \notin Modifiers
  /\ E0 \notin Code \X BOOLEAN /\ E1 \notin Code \X BOOLEAN /\ E0 # E1
<1>1. Fx \cap {"lshift", "rshift", "caps", "ctrl", "alt", "a", "1", "esc", "up", "numlock"} = {}
  BY KeyboardAssumption
<1>2. E0 \notin Code \X BOOLEAN /\ E1 \notin Code \X BOOLEAN /\ E0 # E1
  <2>1. "prefix" \notin Code
    BY KeyboardAssumption DEF Code, Plain
  <2> QED
    BY <2>1 DEF E0, E1
<1> QED
  BY <1>1, <1>2 DEF Modifiers, Shifts, CapsLock

(* The driver does to its state what Feeds says, and gives the right        *)
(* character.                                                               *)
LEMMA HandleFeeds ==
  ASSUME ~ wrong, bytes \in Seq(Byte), bytes # <<>>, Now \in DriverState,
         do_handle_keyboard, NEW t, Feeds(Head(bytes), Now, t)
  PROVE  t = Now' /\ ~ wrong'
<1>1. PICK b \in Byte : b = Head(bytes)
  OBVIOUS
<1>2. /\ Now.recv = recv_state /\ Now.flags = keyboard_state
      /\ Now.tty = curr_tty /\ Now.want = wanted
      /\ wanted \in Seq(Shown) /\ recv_state \in {"NORMAL", "BEGIN_E0", "BEGIN_E1"}
  BY DEF Now, DriverState
<1>3. CASE b \in {E0, E1}
  <2>1. /\ recv_state' = IF b = E0 THEN "BEGIN_E0" ELSE "BEGIN_E1"
        /\ UNCHANGED <<keyboard_state, curr_tty, wanted, wrong>>
    BY <1>1, <1>3 DEF do_handle_keyboard
  <2> QED
    BY <1>1, <1>3, <2>1 DEF Feeds, Now
<1>4. CASE b \notin {E0, E1}
  <2>1. PICK c, m : c = b[1] /\ m = b[2] /\ c \in Code /\ m \in BOOLEAN
    BY <1>1, <1>4 DEF Byte
  <2>2. /\ recv_state' = "NORMAL"
        /\ \/ recv_state = "NORMAL" /\ do_normal_key(c, m)
           \/ recv_state = "BEGIN_E0" /\ do_e0_key(c, m)
           \/ recv_state = "BEGIN_E1" /\ UNCHANGED <<keyboard_state, curr_tty, wanted, wrong>>
    BY <1>1, <1>4, <2>1 DEF do_handle_keyboard
  <2>3. CASE recv_state = "BEGIN_E1"
    <3>1. UNCHANGED <<keyboard_state, curr_tty, wanted, wrong>>
      BY <2>2, <2>3
    <3>2. t = [Now EXCEPT !.recv = "NORMAL"]
      BY <1>1, <1>2, <1>4, <2>3 DEF Feeds
    <3> QED
      BY <2>2, <3>1, <3>2 DEF Now
  <2>4. CASE recv_state = "BEGIN_E0"
    <3>1. do_e0_key(c, m)
      BY <2>2, <2>4
    <3>2. CASE c = "up"
      <4>1. UNCHANGED <<keyboard_state, curr_tty, wanted, wrong>>
        BY <3>1, <3>2, Codes DEF do_e0_key
      <4>2. t = [Now EXCEPT !.recv = "NORMAL"]
        BY <1>1, <1>2, <1>4, <2>1, <2>4, <3>2 DEF Feeds
      <4> QED
        BY <2>2, <4>1, <4>2 DEF Now
    <3>3. CASE c # "up"
      <4>1. PICK f : f = FlagsAfter(<<"after0", c>>, m, keyboard_state)
        OBVIOUS
      <4>2. keyboard_state' = f /\ UNCHANGED <<curr_tty, wanted, wrong>>
        BY <3>1, <3>3, <4>1 DEF do_e0_key, Flag, FlagsAfter
      <4>3. t = [Now EXCEPT !.recv = "NORMAL", !.flags = f]
        BY <1>1, <1>2, <1>4, <2>1, <2>4, <3>3, <4>1 DEF Feeds
      <4> QED
        BY <2>2, <4>2, <4>3 DEF Now
    <3> QED
      BY <3>2, <3>3
  <2>5. CASE recv_state = "NORMAL"
    <3>1. do_normal_key(c, m) /\ FeedsKey(c, m, Now, t)
      BY <1>1, <1>2, <1>4, <2>1, <2>2, <2>5 DEF Feeds
    <3>2. CASE <<"plain", c>> \in Modifiers
      <4>1. PICK f : f = FlagsAfter(<<"plain", c>>, m, keyboard_state)
        OBVIOUS
      <4>2. c \notin Fx \cup {"caps", "a", "1", "esc", "numlock"}
        BY <3>2, Codes
      <4>3. keyboard_state' = f /\ UNCHANGED <<curr_tty, wanted, wrong>>
        BY <3>1, <3>2, <4>1, <4>2 DEF do_normal_key, Flag, FlagsAfter
      <4>4. t = [Now EXCEPT !.flags = f]
        BY <1>2, <3>1, <3>2, <4>1 DEF FeedsKey
      <4> QED
        BY <2>2, <2>5, <4>3, <4>4 DEF Now
    <3>3. CASE c = "caps"
      <4>1. PICK f : f = FlagsAfter(CapsLock, CapsLock \notin keyboard_state, keyboard_state)
        OBVIOUS
      <4>2. <<"plain", c>> \notin Modifiers /\ c \notin Fx \cup {"a", "1", "esc", "numlock"}
        BY <3>3, Codes
      <4>3. /\ keyboard_state' = IF m THEN f ELSE keyboard_state
            /\ UNCHANGED <<curr_tty, wanted, wrong>>
        BY <3>1, <3>3, <4>1, <4>2 DEF do_normal_key, Flag, FlagsAfter
      <4>4. t = IF m THEN [Now EXCEPT !.flags = f] ELSE Now
        BY <1>2, <3>1, <3>3, <4>1, <4>2 DEF FeedsKey
      <4> QED
        BY <2>2, <2>5, <4>3, <4>4 DEF Now
    <3>4. CASE c \in Fx
      <4>1. <<"plain", c>> \notin Modifiers /\ c \notin {"caps", "a", "1", "esc", "numlock"}
        BY <3>4, Codes
      <4>2. curr_tty' = c /\ UNCHANGED <<keyboard_state, wanted, wrong>>
        BY <3>1, <3>4, <4>1 DEF do_normal_key, do_fx_key
      <4>3. t = [Now EXCEPT !.tty = c]
        BY <1>2, <3>1, <3>4, <4>1 DEF FeedsKey
      <4> QED
        BY <2>2, <2>5, <4>2, <4>3 DEF Now
    <3>5. CASE <<"plain", c>> \notin Modifiers /\ c # "caps" /\ c \notin Fx
      <4>1. do_default(c, m)
        BY <3>1, <3>5 DEF do_normal_key
      <4>2. CASE m /\ c \in {"a", "1"}
        <5>1. /\ wanted # <<>> /\ Head(wanted) = MappedBy(keyboard_state, c)
              /\ t = [Now EXCEPT !.want = Tail(wanted)]
          BY <1>2, <3>1, <3>5, <4>2 DEF FeedsKey
        <5>2. Mapped(c) = MappedBy(keyboard_state, c) /\ Mapped(c) # "NUL"
          BY <4>2 DEF Mapped, MappedBy, Upper
        <5>3. /\ wrong' = (wrong \/ wanted = <<>> \/ Head(wanted) # Mapped(c))
              /\ wanted' = IF wanted = <<>> THEN <<>> ELSE Tail(wanted)
              /\ UNCHANGED <<keyboard_state, curr_tty>>
          BY <4>1, <4>2, <5>2 DEF do_default
        <5>4. ~ wrong' /\ wanted' = Tail(wanted)
          BY <5>1, <5>2, <5>3
        <5> QED
          BY <2>2, <2>5, <5>1, <5>3, <5>4 DEF Now
      <4>3. CASE ~ (m /\ c \in {"a", "1"})
        <5>1. ~ (m /\ Mapped(c) # "NUL")
          BY <4>3 DEF Mapped
        <5>2. UNCHANGED <<wrong, wanted, keyboard_state, curr_tty>>
          BY <4>1, <5>1 DEF do_default
        <5>3. t = Now
          BY <3>1, <3>5, <4>3 DEF FeedsKey
        <5> QED
          BY <2>2, <2>5, <5>2, <5>3 DEF Now
      <4> QED
        BY <4>2, <4>3
    <3> QED
      BY <3>2, <3>3, <3>4, <3>5
  <2> QED
    BY <1>2, <2>3, <2>4, <2>5
<1> QED
  BY <1>3, <1>4

(* No key is down.                                                          *)
LEMMA KeyInitInv == KeyboardInit => KeyInv
<1> SUFFICES ASSUME KeyboardInit  PROVE KeyInv
  OBVIOUS
<1>1. /\ held = {} /\ bytes = <<>> /\ recv_state = "NORMAL" /\ keyboard_state = {}
      /\ curr_tty \in Fx /\ wanted = <<>> /\ caps = FALSE
      /\ chosen = curr_tty /\ ~ wrong
  BY DEF KeyboardInit
<1>2. Now \in DriverState
  BY <1>1 DEF Now, DriverState, Flags
<1>3. Decodes(bytes, Now, Now)
  BY <1>1, <1>2, DecodesNone
<1>4. Aim(Now)
  BY <1>1 DEF Now, Aim
<1>5. held \subseteq KeyHeld /\ bytes \in Seq(Byte) /\ caps \in BOOLEAN
  <2>1. <<>> \in Seq(Byte)
    OBVIOUS
  <2>2. bytes = <<>> /\ held = {} /\ caps = FALSE
    BY <1>1
  <2> QED
    BY <2>1, <2>2
<1>6. \A f \in Fx : <<"plain", f>> \in held => f = chosen
  BY <1>1
<1> QED
  BY <1>1, <1>2, <1>3, <1>4, <1>5, <1>6 DEF KeyInv

(* The driver reads a byte.                                                 *)
LEMMA HandleInv ==
  ASSUME KeyInv, do_handle_keyboard
  PROVE  KeyInv'
<1>1. PICK g \in DriverState : Decodes(bytes, Now, g) /\ Aim(g)
  BY DEF KeyInv
<1>2. /\ bytes # <<>> /\ bytes' = Tail(bytes) /\ bytes \in Seq(Byte) /\ ~ wrong
      /\ UNCHANGED <<held, caps, chosen, both>>
  BY DEF do_handle_keyboard, KeyInv
<1>3. Now \in DriverState
  <2>1. PICK run \in Seq(DriverState) : Len(run) = Len(bytes) + 1 /\ run[1] = Now
    BY <1>1 DEF Decodes
  <2>2. Len(bytes) \in Nat /\ 1 \in 1..Len(run)
    BY <1>2, <2>1
  <2> QED
    BY <2>1, <2>2
<1>4. PICK t \in DriverState : Feeds(Head(bytes), Now, t) /\ Decodes(Tail(bytes), t, g)
  BY <1>1, <1>2, DecodesRest
<1>5. t = Now' /\ ~ wrong'
  BY <1>2, <1>3, <1>4, HandleFeeds
<1>6. Decodes(bytes', Now', g)
  BY <1>2, <1>4, <1>5
<1>7. Aim(g)'
  BY <1>1, <1>2 DEF Aim
<1>8. bytes' \in Seq(Byte)
  BY <1>2
<1> QED
  BY <1>1, <1>2, <1>5, <1>6, <1>7, <1>8 DEF KeyInv

(* What the keyboard sends of one key takes the driver to where the key is  *)
(* known.                                                                   *)
LEMMA SendsDecodes ==
  ASSUME bytes \in Seq(Byte), NEW s, NEW g \in DriverState, Decodes(bytes, s, g),
         g.recv = "NORMAL",
         NEW k \in KeyHeld, NEW make \in BOOLEAN, Sends(k, make),
         NEW h \in DriverState,
         IF k[1] = "plain" THEN FeedsKey(k[2], make, g, h)
         ELSE h = IF k \in Modifiers THEN [g EXCEPT !.flags = FlagsAfter(k, make, g.flags)]
                  ELSE g
  PROVE  bytes' \in Seq(Byte) /\ Decodes(bytes', s, h)
<1>1. PICK b : b = <<k[2], make>>
  OBVIOUS
<1>2. b \in Code \X BOOLEAN /\ b \in Byte /\ b # E0 /\ b # E1 /\ b[1] = k[2] /\ b[2] = make
  <2>1. k[2] \in Code
    BY DEF KeyHeld, Code, Plain, After0
  <2> QED
    BY <1>1, <2>1, Codes DEF Byte
<1>3. CASE k[1] = "plain"
  <2>1. bytes' = Append(bytes, b)
    BY <1>1, <1>3 DEF Sends
  <2>2. Feeds(b, g, h)
    BY <1>2, <1>3 DEF Feeds
  <2> QED
    BY <1>2, <2>1, <2>2, DecodesMore
<1>4. CASE k[1] # "plain"
  <2>1. PICK c \in After0 : k = <<"after0", c>>
    BY <1>4 DEF KeyHeld
  <2>2. bytes' = bytes \o <<E0, b>>
    BY <1>1, <2>1 DEF Sends
  <2>3. E0 \in Byte
    BY DEF Byte
  <2>4. bytes' = Append(Append(bytes, E0), b)
    BY <1>2, <2>2, <2>3
  <2>5. PICK u : u = [g EXCEPT !.recv = "BEGIN_E0"]
    OBVIOUS
  <2>6. /\ u \in DriverState /\ u.recv = "BEGIN_E0" /\ u.flags = g.flags
        /\ g = [u EXCEPT !.recv = "NORMAL"]
    BY <2>5 DEF DriverState
  <2>7. Feeds(E0, g, u)
    BY <2>5 DEF Feeds
  <2>8. Feeds(b, u, h)
    <3>1. CASE c = "up"
      <4>1. h = g
        BY <1>4, <2>1, <3>1, Codes
      <4> QED
        BY <1>2, <2>1, <2>6, <3>1, <4>1 DEF Feeds
    <3>2. CASE c # "up"
      <4>1. c \in {"ctrl", "alt"} /\ k \in Modifiers
        BY <2>1, <3>2, Codes DEF After0
      <4>2. PICK f : f = FlagsAfter(k, make, g.flags)
        OBVIOUS
      <4>3. h = [g EXCEPT !.flags = f]
        BY <1>4, <4>1, <4>2
      <4>4. h = [u EXCEPT !.recv = "NORMAL", !.flags = f]
        BY <2>5, <2>6, <4>3 DEF DriverState
      <4> QED
        BY <1>2, <2>1, <2>6, <4>1, <4>2, <4>4 DEF Feeds
    <3> QED
      BY <3>1, <3>2
  <2>9. Append(bytes, E0) \in Seq(Byte) /\ Decodes(Append(bytes, E0), s, u)
    <3>1. Append(bytes, E0) \in Seq(Byte)
      BY <2>3
    <3> QED
      BY <2>3, <2>6, <2>7, <3>1, DecodesMore
  <2>10. PICK a : a = Append(bytes, E0) /\ a \in Seq(Byte)
    BY <2>9
  <2>11. Decodes(Append(a, b), s, h)
    BY <1>2, <2>6, <2>8, <2>9, <2>10, DecodesMore
  <2>12. Append(a, b) \in Seq(Byte)
    BY <1>2, <2>10
  <2> QED
    BY <2>4, <2>10, <2>11, <2>12
<1> QED
  BY <1>3, <1>4

(* A key goes up.                                                           *)
LEMMA UpInv ==
  ASSUME KeyInv, Up
  PROVE  KeyInv'
<1>1. PICK g \in DriverState : Decodes(bytes, Now, g) /\ Aim(g)
  BY DEF KeyInv
<1>2. PICK k \in held : held' = held \ {k} /\ Sends(k, FALSE)
  BY DEF Up
<1>3. /\ UNCHANGED <<recv_state, keyboard_state, curr_tty, wanted, caps, chosen, both, wrong>>
      /\ k \in KeyHeld /\ bytes \in Seq(Byte) /\ Now' = Now
  BY DEF Up, KeyInv, Now
<1>4. /\ g.recv = "NORMAL" /\ g.want = <<>>
      /\ g.flags = (held \cap Modifiers) \cup (IF caps THEN {CapsLock} ELSE {})
      /\ g.flags \subseteq Flags
      /\ both \/ g.tty = chosen
  BY <1>1 DEF Aim, DriverState
<1>5. both \/ \A f \in Fx : <<"plain", f>> \in held => f = chosen
  BY DEF KeyInv
<1>6. PICK f : f = FlagsAfter(k, FALSE, g.flags)
  OBVIOUS
<1>7. PICK h : h = IF k \in Modifiers THEN [g EXCEPT !.flags = f]
                   ELSE IF k[1] = "plain" /\ k[2] \in Fx THEN [g EXCEPT !.tty = k[2]]
                   ELSE g
  OBVIOUS
<1>8. f = g.flags \ {k} /\ f \subseteq Flags
  BY <1>4, <1>6 DEF FlagsAfter
<1>9. /\ h \in DriverState /\ h.recv = "NORMAL" /\ h.want = <<>>
      /\ h.flags = IF k \in Modifiers THEN f ELSE g.flags
      /\ h.tty = IF k \notin Modifiers /\ k[1] = "plain" /\ k[2] \in Fx THEN k[2] ELSE g.tty
  BY <1>4, <1>7, <1>8 DEF DriverState
<1>10. ASSUME k[1] = "plain"  PROVE FeedsKey(k[2], FALSE, g, h)
  <2>1. k = <<"plain", k[2]>> /\ k[2] \in Plain
    BY <1>3, <1>10 DEF KeyHeld
  <2>2. k[2] # "up"
    BY <2>1, Codes DEF Plain
  <2>3. CASE k \in Modifiers
    BY <1>6, <1>7, <2>1, <2>3 DEF FeedsKey
  <2>4. CASE k \notin Modifiers
    <3>1. k[2] = "caps" => k[2] \notin Fx
      BY Codes
    <3> QED
      BY <1>7, <1>10, <2>1, <2>2, <2>4, <3>1 DEF FeedsKey
  <2> QED
    BY <2>3, <2>4
<1>11. ASSUME k[1] # "plain"
       PROVE  h = IF k \in Modifiers THEN [g EXCEPT !.flags = FlagsAfter(k, FALSE, g.flags)] ELSE g
  BY <1>6, <1>7, <1>11
<1>12. bytes' \in Seq(Byte) /\ Decodes(bytes', Now, h)
  BY <1>1, <1>2, <1>3, <1>4, <1>9, <1>10, <1>11, SendsDecodes
<1>13. h.flags = (held' \cap Modifiers) \cup (IF caps THEN {CapsLock} ELSE {})
  BY <1>2, <1>4, <1>8, <1>9, Codes
<1>14. both \/ h.tty = chosen
  <2>1. CASE k[1] = "plain" /\ k[2] \in Fx
    <3>1. k = <<"plain", k[2]>>
      BY <1>3, <2>1 DEF KeyHeld
    <3> QED
      BY <1>2, <1>4, <1>5, <1>9, <2>1, <3>1
  <2>2. CASE ~ (k[1] = "plain" /\ k[2] \in Fx)
    BY <1>4, <1>9, <2>2
  <2> QED
    BY <2>1, <2>2
<1>15. Aim(h)'
  BY <1>3, <1>9, <1>13, <1>14 DEF Aim
<1>16. held' \subseteq KeyHeld /\ (both \/ \A x \in Fx : <<"plain", x>> \in held' => x = chosen)
  BY <1>2, <1>5 DEF KeyInv
<1> QED
  BY <1>3, <1>9, <1>12, <1>15, <1>16 DEF KeyInv

(* The character that the driver makes when all before it is read is the    *)
(* one that was meant.                                                      *)
LEMMA MeantIsMapped ==
  ASSUME NEW c \in {"a", "1"}, caps \in BOOLEAN, NEW flags,
         flags = (held \cap Modifiers) \cup (IF caps THEN {CapsLock} ELSE {})
  PROVE  MappedBy(flags, c) = Meant(c) /\ Meant(c) \in Shown
<1>1. flags \cap Shifts # {} <=> Shifts \cap held # {}
  BY Codes
<1>2. CapsLock \in flags <=> caps
  BY Codes
<1>3. CASE Shifts \cap held # {} /\ caps
  <2>1. (Shifts \cap held # {}) = TRUE /\ caps = TRUE
    BY <1>3
  <2> QED
    BY <1>1, <1>2, <2>1 DEF MappedBy, Meant, Upper, Shown
<1>4. CASE Shifts \cap held # {} /\ ~ caps
  <2>1. (Shifts \cap held # {}) = TRUE /\ caps = FALSE
    BY <1>4
  <2> QED
    BY <1>1, <1>2, <2>1 DEF MappedBy, Meant, Upper, Shown
<1>5. CASE Shifts \cap held = {} /\ caps
  <2>1. (Shifts \cap held # {}) = FALSE /\ caps = TRUE
    BY <1>5
  <2> QED
    BY <1>1, <1>2, <2>1 DEF MappedBy, Meant, Upper, Shown
<1>6. CASE Shifts \cap held = {} /\ ~ caps
  <2>1. (Shifts \cap held # {}) = FALSE /\ caps = FALSE
    BY <1>6
  <2> QED
    BY <1>1, <1>2, <2>1 DEF MappedBy, Meant, Upper, Shown
<1> QED
  BY <1>3, <1>4, <1>5, <1>6

(* A key with a character goes down.                                        *)
LEMMA TypeInv ==
  ASSUME KeyInv, NEW k \in KeyHeld, k[2] \in {"a", "1"},
         held' = held \cup {k}, Sends(k, TRUE),
         wanted' = Append(wanted, Meant(k[2])),
         UNCHANGED <<recv_state, keyboard_state, curr_tty, wrong, caps, chosen, both>>
  PROVE  KeyInv'
<1>1. PICK g \in DriverState : Decodes(bytes, Now, g) /\ Aim(g)
  BY DEF KeyInv
<1>2. /\ k = <<"plain", k[2]>> /\ k \notin Modifiers /\ k[2] \notin Fx \cup {"caps", "up"}
  BY Codes DEF KeyHeld, After0
<1>3. /\ g.recv = "NORMAL" /\ g.want = <<>>
      /\ g.flags = (held \cap Modifiers) \cup (IF caps THEN {CapsLock} ELSE {})
      /\ both \/ g.tty = chosen
      /\ caps \in BOOLEAN /\ bytes \in Seq(Byte)
  BY <1>1 DEF Aim, KeyInv
<1>4. PICK x \in Shown : x = Meant(k[2]) /\ x = MappedBy(g.flags, k[2])
  BY <1>3, MeantIsMapped
<1>5. Now' = Awaits(Now, x)
  <2>1. PICK v : v = Append(wanted, x) /\ v = wanted'
    BY <1>4
  <2>2. PICK r, f, t : r = recv_state /\ f = keyboard_state /\ t = curr_tty
    OBVIOUS
  <2>3. Now' = [recv |-> r, flags |-> f, tty |-> t, want |-> v]
    BY <2>1, <2>2, Zenon DEF Now
  <2>4. Now = [recv |-> r, flags |-> f, tty |-> t, want |-> wanted]
    BY <2>2, Zenon DEF Now
  <2>5. [Now EXCEPT !.want = v] = [recv |-> r, flags |-> f, tty |-> t, want |-> v] /\ Now.want = wanted
    BY <2>4
  <2> QED
    BY <2>1, <2>3, <2>5, Zenon DEF Awaits
<1>6. PICK w : w = Awaits(g, x)
  OBVIOUS
<1>7. /\ w \in DriverState /\ w.recv = "NORMAL" /\ w.flags = g.flags /\ w.tty = g.tty
      /\ w.want = <<x>> /\ w.want # <<>> /\ Head(w.want) = x /\ Tail(w.want) = <<>>
  BY <1>3, <1>6, AwaitsState
<1>8. Decodes(bytes, Now', w)
  BY <1>1, <1>3, <1>5, <1>6, DecodesAwaits
<1>9. PICK h, e : h = [w EXCEPT !.want = e] /\ e = Tail(w.want)
  OBVIOUS
<1>10. /\ h \in DriverState /\ h.recv = "NORMAL" /\ h.flags = g.flags /\ h.tty = g.tty
       /\ h.want = <<>>
  <2>1. e = <<>> /\ e \in Seq(Shown)
    BY <1>7, <1>9
  <2> QED
    BY <1>7, <1>9, <2>1 DEF DriverState
<1>11. FeedsKey(k[2], TRUE, w, h) /\ k[1] = "plain"
  BY <1>2, <1>4, <1>7, <1>9 DEF FeedsKey
<1>12. bytes' \in Seq(Byte) /\ Decodes(bytes', Now', h)
  BY <1>3, <1>7, <1>8, <1>10, <1>11, SendsDecodes
<1>13. held' \cap Modifiers = held \cap Modifiers
  BY <1>2
<1>14. Aim(h)'
  BY <1>3, <1>10, <1>13 DEF Aim
<1>15. held' \subseteq KeyHeld /\ (both \/ \A f \in Fx : <<"plain", f>> \in held' => f = chosen)
  BY <1>2 DEF KeyInv
<1> QED
  BY <1>3, <1>10, <1>12, <1>14, <1>15 DEF KeyInv

(* Any other key goes down.                                                 *)
LEMMA PressOtherInv ==
  ASSUME KeyInv, NEW k \in KeyHeld, k[2] \notin {"a", "1"},
         held' = held \cup {k}, Sends(k, TRUE),
         caps' = (IF k[2] = "caps" THEN ~ caps ELSE caps),
         IF k[2] \in Fx
         THEN chosen' = k[2] /\ both' = (\E f \in Fx \ {k[2]} : <<"plain", f>> \in held)
         ELSE UNCHANGED <<chosen, both>>,
         UNCHANGED <<recv_state, keyboard_state, curr_tty, wrong, wanted>>
  PROVE  KeyInv'
<1>1. PICK g \in DriverState : Decodes(bytes, Now, g) /\ Aim(g)
  BY DEF KeyInv
<1>2. /\ g.recv = "NORMAL" /\ g.want = <<>>
      /\ g.flags = (held \cap Modifiers) \cup (IF caps THEN {CapsLock} ELSE {})
      /\ g.flags \subseteq Flags
      /\ both \/ g.tty = chosen
      /\ caps \in BOOLEAN /\ bytes \in Seq(Byte) /\ Now' = Now
  BY <1>1 DEF Aim, KeyInv, DriverState, Now
<1>3. PICK key, on : /\ key = (IF k[2] = "caps" THEN CapsLock ELSE k)
                     /\ on = (IF k[2] = "caps" THEN CapsLock \notin g.flags ELSE TRUE)
  OBVIOUS
<1>4. PICK f : f = FlagsAfter(key, on, g.flags)
  OBVIOUS
<1>5. k[2] = "caps" => k = CapsLock /\ k[2] \notin Fx /\ k \notin Modifiers
  BY Codes DEF KeyHeld, After0, CapsLock
<1>6. PICK h : h = IF k \in Modifiers \cup {CapsLock} THEN [g EXCEPT !.flags = f]
                   ELSE IF k[2] \in Fx THEN [g EXCEPT !.tty = k[2]]
                   ELSE g
  OBVIOUS
<1>7. k \in Modifiers => k[2] \notin Fx \cup {"caps"}
  <2>1. ASSUME k[1] = "plain", k \in Modifiers  PROVE k[2] \notin Fx \cup {"caps"}
    <3>1. k = <<"plain", k[2]>>
      BY <2>1 DEF KeyHeld
    <3> QED
      BY <2>1, <3>1, Codes
  <2>2. ASSUME k[1] # "plain"  PROVE k[2] \notin Fx \cup {"caps"}
    BY <2>2, Codes DEF KeyHeld, After0
  <2> QED
    BY <2>1, <2>2
<1>8. /\ k \in Modifiers => f = g.flags \cup {k}
      /\ k = CapsLock => f = (held \cap Modifiers) \cup (IF ~ caps THEN {CapsLock} ELSE {})
      /\ k \in Modifiers \cup {CapsLock} => f \subseteq Flags
  <2>1. ASSUME k \in Modifiers  PROVE f = g.flags \cup {k} /\ f \subseteq Flags
    BY <1>2, <1>3, <1>4, <1>7, <2>1 DEF FlagsAfter, Flags
  <2>2. ASSUME k = CapsLock
        PROVE  /\ f = (held \cap Modifiers) \cup (IF ~ caps THEN {CapsLock} ELSE {})
               /\ f \subseteq Flags
    <3>1. k[2] = "caps"
      BY <2>2 DEF CapsLock
    <3>2. CapsLock \in g.flags <=> caps
      BY <1>2, Codes
    <3>3. f = IF caps THEN g.flags \ {CapsLock} ELSE g.flags \cup {CapsLock}
      BY <1>2, <1>3, <1>4, <3>1, <3>2 DEF FlagsAfter
    <3> QED
      BY <1>2, <3>3, Codes DEF Flags
  <2> QED
    BY <2>1, <2>2
<1>9. /\ h \in DriverState /\ h.recv = "NORMAL" /\ h.want = <<>>
      /\ h.flags = IF k \in Modifiers \cup {CapsLock} THEN f ELSE g.flags
      /\ h.tty = IF k[2] \in Fx THEN k[2] ELSE g.tty
  <2>1. CASE k \in Modifiers \cup {CapsLock}
    <3>1. k[2] \notin Fx /\ h = [g EXCEPT !.flags = f] /\ f \subseteq Flags
      <4>1. k = CapsLock => k[2] = "caps"
        BY DEF CapsLock
      <4> QED
        BY <1>5, <1>6, <1>7, <1>8, <2>1, <4>1
    <3> QED
      BY <1>2, <2>1, <3>1 DEF DriverState
  <2>2. CASE k \notin Modifiers \cup {CapsLock} /\ k[2] \in Fx
    BY <1>2, <1>6, <2>2 DEF DriverState
  <2>3. CASE k \notin Modifiers \cup {CapsLock} /\ k[2] \notin Fx
    BY <1>2, <1>6, <2>3
  <2> QED
    BY <2>1, <2>2, <2>3
<1>10. ASSUME k[1] = "plain"  PROVE FeedsKey(k[2], TRUE, g, h)
  <2>1. k = <<"plain", k[2]>> /\ k[2] \in Plain /\ (k = CapsLock <=> k[2] = "caps")
    BY <1>10 DEF KeyHeld, CapsLock
  <2>2. k[2] # "up"
    BY <2>1, Codes DEF Plain
  <2>3. CASE k \in Modifiers
    <3>1. f = FlagsAfter(k, TRUE, g.flags)
      BY <1>3, <1>4, <1>7, <2>3
    <3> QED
      BY <1>6, <2>1, <2>3, <3>1 DEF FeedsKey
  <2>4. CASE k = CapsLock
    <3>1. f = FlagsAfter(CapsLock, CapsLock \notin g.flags, g.flags)
      BY <1>3, <1>4, <2>1, <2>4
    <3>2. k \notin Modifiers /\ h = [g EXCEPT !.flags = f] /\ k[2] = "caps"
      BY <1>5, <1>6, <2>1, <2>4
    <3> QED
      BY <2>1, <3>1, <3>2 DEF FeedsKey
  <2>5. CASE k \notin Modifiers \cup {CapsLock}
    BY <1>6, <2>1, <2>2, <2>5 DEF FeedsKey
  <2> QED
    BY <2>3, <2>4, <2>5
<1>11. ASSUME k[1] # "plain"
       PROVE  h = IF k \in Modifiers THEN [g EXCEPT !.flags = FlagsAfter(k, TRUE, g.flags)] ELSE g
  <2>1. k # CapsLock /\ k[2] \notin Fx \cup {"caps"}
    BY <1>11, Codes DEF KeyHeld, After0, CapsLock
  <2> QED
    BY <1>3, <1>4, <1>6, <2>1
<1>12. bytes' \in Seq(Byte) /\ Decodes(bytes', Now', h)
  BY <1>1, <1>2, <1>9, <1>10, <1>11, SendsDecodes
<1>13. h.flags = (held' \cap Modifiers) \cup (IF caps' THEN {CapsLock} ELSE {})
  <2>1. CASE k = CapsLock
    <3>1. k[2] = "caps" /\ held' \cap Modifiers = held \cap Modifiers
      BY <2>1, Codes DEF CapsLock
    <3> QED
      BY <1>8, <1>9, <2>1, <3>1
  <2>2. CASE k # CapsLock
    <3>1. k[2] # "caps"
      BY <1>5, <2>2
    <3> QED
      BY <1>2, <1>8, <1>9, <2>2, <3>1
  <2> QED
    BY <2>1, <2>2
<1>14. both' \/ h.tty = chosen'
  BY <1>2, <1>9
<1>15. Aim(h)'
  BY <1>9, <1>13, <1>14 DEF Aim
<1>16. caps' \in BOOLEAN /\ held' \subseteq KeyHeld
  BY <1>2 DEF KeyInv
<1>17. both' \/ \A x \in Fx : <<"plain", x>> \in held' => x = chosen'
  <2>1. CASE k[2] \in Fx
    <3>1. ASSUME ~ both', NEW x \in Fx, <<"plain", x>> \in held'  PROVE x = chosen'
      <4>1. CASE <<"plain", x>> \in held
        BY <2>1, <3>1, <4>1
      <4>2. CASE <<"plain", x>> = k
        <5>1. x = k[2]
          BY <4>2
        <5> QED
          BY <2>1, <5>1
      <4> QED
        BY <3>1, <4>1, <4>2
    <3> QED
      BY <3>1
  <2>2. CASE k[2] \notin Fx
    <3>1. \A x \in Fx : <<"plain", x>> # k
      BY <2>2
    <3> QED
      BY <2>2, <3>1 DEF KeyInv
  <2> QED
    BY <2>1, <2>2
<1> QED
  BY <1>9, <1>12, <1>15, <1>16, <1>17 DEF KeyInv

(* The six bytes of the pause key: four are dropped behind 0xE1, and the    *)
(* other two have no character.                                             *)
LEMMA PauseInv ==
  ASSUME KeyInv, Pause
  PROVE  KeyInv'
<1>1. PICK g \in DriverState : Decodes(bytes, Now, g) /\ Aim(g)
  BY DEF KeyInv
<1>2. /\ bytes = <<>>
      /\ bytes' = <<E1, <<"ctrl", TRUE>>, <<"numlock", TRUE>>,
                    E1, <<"ctrl", FALSE>>, <<"numlock", FALSE>>>>
      /\ UNCHANGED <<held, recv_state, keyboard_state, curr_tty, wanted, caps, chosen, both, wrong>>
  BY DEF Pause
<1>3. Now' = g /\ g.recv = "NORMAL"
  <2>1. Now = g
    BY <1>1, <1>2, DecodesNone
  <2> QED
    BY <1>1, <1>2, <2>1, DecodesNone DEF Now, Aim
<1>4. PICK u : u = [g EXCEPT !.recv = "BEGIN_E1"]
  OBVIOUS
<1>5. /\ u \in DriverState /\ u.recv = "BEGIN_E1" /\ g = [u EXCEPT !.recv = "NORMAL"]
      /\ Feeds(E1, g, u)
  BY <1>3, <1>4, Codes DEF DriverState, Feeds
<1>6. ASSUME NEW make \in BOOLEAN
      PROVE  /\ <<"ctrl", make>> \in Byte /\ Feeds(<<"ctrl", make>>, u, g)
             /\ <<"numlock", make>> \in Byte /\ Feeds(<<"numlock", make>>, g, g)
  <2>1. /\ <<"ctrl", make>> \in Code \X BOOLEAN /\ <<"numlock", make>> \in Code \X BOOLEAN
    BY DEF Code, Plain
  <2>2. Feeds(<<"ctrl", make>>, u, g)
    BY <1>5, <2>1, Codes DEF Feeds
  <2>3. FeedsKey("numlock", make, g, g)
    BY Codes DEF FeedsKey
  <2>4. Feeds(<<"numlock", make>>, g, g)
    BY <1>3, <2>1, <2>3, Codes DEF Feeds
  <2> QED
    BY <2>1, <2>2, <2>4 DEF Byte
<1>7. E1 \in Byte
  BY DEF Byte
<1>8. PICK c1, n1, c2, n2 : /\ c1 = <<"ctrl", TRUE>> /\ n1 = <<"numlock", TRUE>>
                            /\ c2 = <<"ctrl", FALSE>> /\ n2 = <<"numlock", FALSE>>
  OBVIOUS
<1>9. /\ c1 \in Byte /\ n1 \in Byte /\ c2 \in Byte /\ n2 \in Byte
      /\ Feeds(c1, u, g) /\ Feeds(n1, g, g) /\ Feeds(c2, u, g) /\ Feeds(n2, g, g)
  BY <1>6, <1>8
<1>10. PICK bs, run : bs = <<E1, c1, n1, E1, c2, n2>> /\ run = <<g, u, g, g, u, g, g>>
  OBVIOUS
<1>11. /\ bs \in Seq(Byte) /\ Len(bs) = 6
       /\ bs[1] = E1 /\ bs[2] = c1 /\ bs[3] = n1 /\ bs[4] = E1 /\ bs[5] = c2 /\ bs[6] = n2
  BY <1>7, <1>9, <1>10
<1>12. /\ run \in Seq(DriverState) /\ Len(run) = 7
       /\ run[1] = g /\ run[2] = u /\ run[3] = g /\ run[4] = g
       /\ run[5] = u /\ run[6] = g /\ run[7] = g
  BY <1>5, <1>10
<1>13. ASSUME NEW i \in 1..6  PROVE Feeds(bs[i], run[i], run[i + 1])
  <2>1. CASE i \in {1, 4}
    <3>1. bs[i] = E1 /\ run[i] = g /\ run[i + 1] = u
      BY <1>11, <1>12, <2>1
    <3> QED
      BY <1>5, <3>1
  <2>2. CASE i \in {2, 5}
    <3>1. bs[i] \in {c1, c2} /\ run[i] = u /\ run[i + 1] = g
      BY <1>11, <1>12, <2>2
    <3> QED
      BY <1>9, <3>1
  <2>3. CASE i \in {3, 6}
    <3>1. bs[i] \in {n1, n2} /\ run[i] = g /\ run[i + 1] = g
      BY <1>11, <1>12, <2>3
    <3> QED
      BY <1>9, <3>1
  <2> QED
    BY <2>1, <2>2, <2>3
<1>14. Decodes(bs, g, g)
  BY <1>11, <1>12, <1>13 DEF Decodes
<1>15. bytes' = bs
  BY <1>2, <1>8, <1>10
<1>16. bytes' \in Seq(Byte) /\ Decodes(bytes', Now', g)
  BY <1>3, <1>11, <1>14, <1>15
<1>17. Aim(g)'
  BY <1>1, <1>2 DEF Aim
<1> QED
  BY <1>2, <1>16, <1>17 DEF KeyInv

(* Every byte sent and every byte read keeps the invariant.                 *)
LEMMA KeyNextInv == KeyInv /\ [KeyboardNext]_kvars => KeyInv'
<1> SUFFICES ASSUME KeyInv, [KeyboardNext]_kvars  PROVE KeyInv'
  OBVIOUS
<1>1. CASE Down
  <2>1. PICK k \in KeyHeld :
          /\ held' = held \cup {k} /\ Sends(k, TRUE)
          /\ wanted' = IF k[2] \in {"a", "1"} THEN Append(wanted, Meant(k[2])) ELSE wanted
          /\ caps' = (IF k[2] = "caps" THEN ~ caps ELSE caps)
          /\ IF k[2] \in Fx
             THEN chosen' = k[2] /\ both' = (\E f \in Fx \ {k[2]} : <<"plain", f>> \in held)
             ELSE UNCHANGED <<chosen, both>>
    BY <1>1 DEF Down
  <2>2. UNCHANGED <<recv_state, keyboard_state, curr_tty, wrong>>
    BY <1>1 DEF Down
  <2>3. CASE k[2] \in {"a", "1"}
    <3>1. k[2] \notin Fx /\ k[2] # "caps"
      BY <2>3, Codes
    <3>2. wanted' = Append(wanted, Meant(k[2])) /\ UNCHANGED <<caps, chosen, both>>
      BY <2>1, <2>3, <3>1
    <3> QED
      BY <2>1, <2>2, <2>3, <3>2, TypeInv
  <2>4. CASE k[2] \notin {"a", "1"}
    <3>1. wanted' = wanted
      BY <2>1, <2>4
    <3> QED
      BY <2>1, <2>2, <2>4, <3>1, PressOtherInv
  <2> QED
    BY <2>3, <2>4
<1>2. CASE Up
  BY <1>2, UpInv
<1>3. CASE Pause
  BY <1>3, PauseInv
<1>4. CASE do_handle_keyboard
  BY <1>4, HandleInv
<1>5. CASE UNCHANGED kvars
  <2>1. Now' = Now /\ bytes' = bytes /\ held' = held /\ caps' = caps
    BY <1>5 DEF kvars, Now
  <2>2. ASSUME NEW g \in DriverState, Decodes(bytes, Now, g), Aim(g)
        PROVE  Decodes(bytes', Now', g) /\ Aim(g)'
    BY <1>5, <2>1, <2>2 DEF Aim, kvars
  <2> QED
    BY <1>5, <2>2 DEF kvars, KeyInv
<1> QED
  BY <1>1, <1>2, <1>3, <1>4, <1>5 DEF KeyboardNext

(* When no byte is left the driver is where it has to come to.              *)
LEMMA KeyInvImplies == KeyInv => KeysUnderstood
<1> SUFFICES ASSUME KeyInv  PROVE KeysUnderstood
  OBVIOUS
<1>1. ASSUME bytes = <<>>  PROVE Aim(Now)
  BY <1>1, DecodesNone DEF KeyInv
<1> QED
  BY <1>1 DEF KeyInv, KeysUnderstood, Aim, Now

(* KeysUnderstood, for any function keys and any number of bytes that the   *)
(* driver has not read: each character comes once, as its key was meant     *)
(* when it went down, and the prefixes disturb nothing.                     *)
THEOREM KeysAlwaysUnderstood == KeyboardSpec => []KeysUnderstood
<1> QED
  BY KeyInitInv, KeyNextInv, KeyInvImplies, PTL DEF KeyboardSpec

-----------------------------------------------------------------------------
\* The lists of kernel/tools/list.c are the sequences their callers mean, for
\* any number of lists and nodes.  The inductive invariant is that of the run,
\* ListsAgree, with the types; that no node is in two places is what keeps the
\* pointers of the other lists.
Pointer == Node \cup {Null}

ListTypes ==
  /\ pre \in [Node -> Pointer] /\ next \in [Node -> Pointer]
  /\ list_first \in [List -> Pointer] /\ list_last \in [List -> Pointer]
  /\ list_count \in [List -> Nat]
  /\ order \in [List -> Seq(Node)]

LInv == ListTypes /\ ListsAgree

-----------------------------------------------------------------------------
\* What removing the i-th element does to a sequence.
LEMMA WithoutFacts ==
  ASSUME NEW s \in Seq(Node), NEW i \in 1..Len(s)
  PROVE  /\ Without(s, i) \in Seq(Node)
         /\ Len(Without(s, i)) = Len(s) - 1
         /\ \A j \in 1..(Len(s) - 1) :
              Without(s, i)[j] = IF j < i THEN s[j] ELSE s[j + 1]
<1> DEFINE w == [j \in 1..(Len(s) - 1) |-> IF j < i THEN s[j] ELSE s[j + 1]]
<1>1. Len(s) - 1 \in Nat
  OBVIOUS
<1>2. \A j \in 1..(Len(s) - 1) : w[j] \in Node
  OBVIOUS
<1>3. w \in [1..(Len(s) - 1) -> Node]
  BY <1>2
<1>4. w \in Seq(Node) /\ Len(w) = Len(s) - 1
  BY <1>1, <1>3
<1> QED
  BY <1>4 DEF Without

\* A list keeps its sequence when a call changes neither its ends nor the
\* pointers of its nodes.
LEMMA OtherLists ==
  ASSUME NEW m \in List, ListTypes, Holds(m),
         order'[m] = order[m], list_first'[m] = list_first[m],
         list_last'[m] = list_last[m], list_count'[m] = list_count[m],
         \A k \in 1..Len(order[m]) : /\ next'[order[m][k]] = next[order[m][k]]
                                     /\ pre'[order[m][k]] = pre[order[m][k]]
  PROVE  Holds(m)'
<1> DEFINE s == order[m]
<1>1. /\ list_count[m] = Len(s)
      /\ list_first[m] = IF Len(s) = 0 THEN Null ELSE s[1]
      /\ list_last[m]  = IF Len(s) = 0 THEN Null ELSE s[Len(s)]
  BY DEF Holds
<1>2. \A k \in 1..Len(s) : /\ next[s[k]] = IF k = Len(s) THEN Null ELSE s[k + 1]
                           /\ pre[s[k]]  = IF k = 1 THEN Null ELSE s[k - 1]
  BY DEF Holds
<1>3. \A k \in 1..Len(s) : /\ next'[s[k]] = IF k = Len(s) THEN Null ELSE s[k + 1]
                           /\ pre'[s[k]]  = IF k = 1 THEN Null ELSE s[k - 1]
  <2> TAKE k \in 1..Len(s)
  <2>1. next'[s[k]] = next[s[k]] /\ pre'[s[k]] = pre[s[k]]
    OBVIOUS
  <2> HIDE DEF s
  <2> QED
    BY <1>2, <2>1
<1>4. order'[m] = s
  OBVIOUS
<1> HIDE DEF s
<1> QED
  BY <1>1, <1>3, <1>4 DEF Holds

\* A node that is in no list goes to the end of one.
LEMMA InsertLastKeeps ==
  ASSUME LInv, NEW l \in List, NEW n \in Node, list_insert_last(l, n)
  PROVE  LInv'
<1> DEFINE s == order[l]
           t == Append(s, n)
<1> USE LinkedListAssumption
<1>1. /\ s \in Seq(Node) /\ Len(s) \in Nat /\ t \in Seq(Node) /\ Len(t) = Len(s) + 1
      /\ \A i \in 1..Len(s) : t[i] = s[i] /\ s[i] \in Node
      /\ t[Len(s) + 1] = n
  BY DEF LInv, ListTypes
<1>2. /\ order'[l] = t
      /\ \A m \in List : m # l => order'[m] = order[m]
  BY DEF LInv, ListTypes, list_insert_last
<1>3. /\ \A m \in List : \A i \in 1..Len(order[m]) : order[m][i] # n
      /\ Holds(l)
  BY DEF LInv, ListsAgree, list_insert_last, Unlisted, InList
<1>4. list_last[l] \in Pointer /\ (list_count[l] # 0 => list_last[l] = s[Len(s)] /\ list_last[l] \in Node)
  BY <1>1, <1>3 DEF LInv, ListTypes, Holds
<1>5. ListTypes'
  <2>1. pre' \in [Node -> Pointer] /\ next' \in [Node -> Pointer]
    BY <1>4 DEF LInv, ListTypes, list_insert_last, Pointer
  <2>2. list_first' \in [List -> Pointer] /\ list_last' \in [List -> Pointer]
    BY DEF LInv, ListTypes, list_insert_last, Pointer
  <2>3. list_count' \in [List -> Nat] /\ order' \in [List -> Seq(Node)]
    BY <1>1 DEF LInv, ListTypes, list_insert_last
  <2> QED
    BY <2>1, <2>2, <2>3 DEF ListTypes
<1>6. Once'
  <2> SUFFICES ASSUME NEW a \in List, NEW b \in List,
                      NEW i \in 1..Len(order'[a]), NEW j \in 1..Len(order'[b]),
                      order'[a][i] = order'[b][j]
               PROVE  a = b /\ i = j
    BY DEF Once
  <2>1. CASE a # l /\ b # l
    BY <2>1, <1>2 DEF LInv, ListsAgree, Once
  <2>2. CASE a = l /\ b # l
    <3>1. CASE i = Len(s) + 1
      BY <2>2, <3>1, <1>1, <1>2, <1>3
    <3>2. CASE i \in 1..Len(s)
      BY <2>2, <3>2, <1>1, <1>2 DEF LInv, ListsAgree, Once
    <3> QED
      BY <2>2, <3>1, <3>2, <1>1, <1>2
  <2>3. CASE a # l /\ b = l
    <3>1. CASE j = Len(s) + 1
      BY <2>3, <3>1, <1>1, <1>2, <1>3
    <3>2. CASE j \in 1..Len(s)
      BY <2>3, <3>2, <1>1, <1>2 DEF LInv, ListsAgree, Once
    <3> QED
      BY <2>3, <3>1, <3>2, <1>1, <1>2
  <2>4. CASE a = l /\ b = l
    <3>1. \A x, y \in 1..Len(s) : s[x] = s[y] => x = y
      BY DEF LInv, ListsAgree, Once
    <3> QED
      BY <2>4, <3>1, <1>1, <1>2, <1>3
  <2> QED
    BY <2>1, <2>2, <2>3, <2>4
<1>7. ASSUME NEW m \in List PROVE Holds(m)'
  <2>1. CASE m # l
    <3>1. \A k \in 1..Len(order[m]) : /\ order[m][k] # n
                                      /\ list_count[l] # 0 => order[m][k] # list_last[l]
      BY <2>1, <1>1, <1>3, <1>4 DEF LInv, ListsAgree, Once, Holds
    <3>2. \A k \in 1..Len(order[m]) : /\ next'[order[m][k]] = next[order[m][k]]
                                      /\ pre'[order[m][k]] = pre[order[m][k]]
      BY <3>1, <1>4 DEF LInv, ListTypes, list_insert_last
    <3>3. /\ list_first'[m] = list_first[m] /\ list_last'[m] = list_last[m] /\ list_count'[m] = list_count[m]
          /\ Holds(m)
      BY <2>1 DEF LInv, ListTypes, ListsAgree, list_insert_last
    <3> QED
      BY <2>1, <1>2, <3>2, <3>3, OtherLists DEF LInv
  <2>2. CASE m = l
    <3>1. \A x, y \in 1..Len(s) : s[x] = s[y] => x = y
      BY DEF LInv, ListsAgree, Once
    <3>2. list_count'[l] = Len(t) /\ list_last'[l] = n /\ (list_first'[l] = IF Len(s) = 0 THEN n ELSE s[1])
      BY <1>1, <1>3 DEF LInv, ListTypes, list_insert_last, Holds
    <3>3. /\ next'[n] = Null
          /\ pre'[n] = IF Len(s) = 0 THEN Null ELSE s[Len(s)]
      BY <1>1, <1>3, <1>4 DEF LInv, ListTypes, list_insert_last, Holds
    <3>4. \A k \in 1..Len(s) : /\ next'[s[k]] = IF k = Len(s) THEN n ELSE s[k + 1]
                               /\ pre'[s[k]] = IF k = 1 THEN Null ELSE s[k - 1]
      <4> SUFFICES ASSUME NEW k \in 1..Len(s)
                   PROVE  /\ next'[s[k]] = IF k = Len(s) THEN n ELSE s[k + 1]
                          /\ pre'[s[k]] = IF k = 1 THEN Null ELSE s[k - 1]
        OBVIOUS
      <4>1. s[k] # n /\ list_count[l] # 0 /\ s[k] \in Node
        BY <1>1, <1>3 DEF Holds
      <4>2. pre'[s[k]] = pre[s[k]]
        BY <4>1 DEF LInv, ListTypes, list_insert_last
      <4>3. CASE k = Len(s)
        BY <4>1, <4>2, <4>3, <1>3, <1>4 DEF LInv, ListTypes, list_insert_last, Holds
      <4>4. CASE k # Len(s)
        <5>1. s[k] # list_last[l]
          BY <4>1, <4>4, <1>1, <1>4, <3>1
        <5>2. next'[s[k]] = next[s[k]]
          BY <4>1, <5>1, <1>4 DEF LInv, ListTypes, list_insert_last
        <5> QED
          BY <4>2, <4>4, <5>2, <1>3 DEF Holds
      <4> QED
        BY <4>3, <4>4
    <3>5. Holds(l)'
      BY <1>1, <1>2, <3>2, <3>3, <3>4 DEF Holds
    <3> QED
      BY <2>2, <1>2, <3>5 DEF Holds
  <2> QED
    BY <2>1, <2>2
<1> QED
  BY <1>5, <1>6, <1>7 DEF LInv, ListsAgree

\* A node that is in no list goes to the front of one.
LEMMA InsertFirstKeeps ==
  ASSUME LInv, NEW l \in List, NEW n \in Node, list_insert_first(l, n)
  PROVE  LInv'
<1> DEFINE s == order[l]
           t == <<n>> \o s
<1> USE LinkedListAssumption
<1>1. /\ s \in Seq(Node) /\ Len(s) \in Nat /\ t \in Seq(Node) /\ Len(t) = Len(s) + 1
      /\ \A i \in 1..Len(s) : t[i + 1] = s[i] /\ s[i] \in Node
      /\ t[1] = n
  BY DEF LInv, ListTypes
<1>2. /\ order'[l] = t
      /\ \A m \in List : m # l => order'[m] = order[m]
  BY DEF LInv, ListTypes, list_insert_first
<1>3. /\ \A m \in List : \A i \in 1..Len(order[m]) : order[m][i] # n
      /\ Holds(l)
  BY DEF LInv, ListsAgree, list_insert_first, Unlisted, InList
<1>4. list_first[l] \in Pointer /\ (list_count[l] # 0 => list_first[l] = s[1] /\ list_first[l] \in Node)
  BY <1>1, <1>3 DEF LInv, ListTypes, Holds
<1>5. ListTypes'
  <2>1. pre' \in [Node -> Pointer] /\ next' \in [Node -> Pointer]
    BY <1>4 DEF LInv, ListTypes, list_insert_first, Pointer
  <2>2. list_first' \in [List -> Pointer] /\ list_last' \in [List -> Pointer]
    BY DEF LInv, ListTypes, list_insert_first, Pointer
  <2>3. list_count' \in [List -> Nat] /\ order' \in [List -> Seq(Node)]
    BY <1>1 DEF LInv, ListTypes, list_insert_first
  <2> QED
    BY <2>1, <2>2, <2>3 DEF ListTypes
<1>6. Once'
  <2>1. \A i \in 1..Len(t) : i = 1 \/ (i - 1 \in 1..Len(s) /\ t[i] = s[i - 1])
    BY <1>1
  <2> SUFFICES ASSUME NEW a \in List, NEW b \in List,
                      NEW i \in 1..Len(order'[a]), NEW j \in 1..Len(order'[b]),
                      order'[a][i] = order'[b][j]
               PROVE  a = b /\ i = j
    BY DEF Once
  <2>2. CASE a # l /\ b # l
    BY <2>2, <1>2 DEF LInv, ListsAgree, Once
  <2>3. CASE a = l /\ b # l
    BY <2>1, <2>3, <1>1, <1>2, <1>3 DEF LInv, ListsAgree, Once
  <2>4. CASE a # l /\ b = l
    BY <2>1, <2>4, <1>1, <1>2, <1>3 DEF LInv, ListsAgree, Once
  <2>5. CASE a = l /\ b = l
    <3>1. \A x, y \in 1..Len(s) : s[x] = s[y] => x = y
      BY DEF LInv, ListsAgree, Once
    <3>2. i \in 1..Len(t) /\ j \in 1..Len(t) /\ t[i] = t[j]
      BY <2>5, <1>2
    <3>3. \A k \in 1..Len(s) : s[k] # n
      BY <1>3
    <3> HIDE DEF t, s
    <3>4. CASE i = 1 \/ j = 1
      BY <2>1, <2>5, <3>2, <3>3, <3>4, <1>1
    <3>5. CASE i # 1 /\ j # 1
      <4>1. i - 1 = j - 1
        BY <2>1, <3>1, <3>2, <3>5
      <4> QED
        BY <2>5, <3>2, <4>1, <1>1
    <3> QED
      BY <2>5, <3>4, <3>5
  <2> QED
    BY <2>2, <2>3, <2>4, <2>5
<1>7. ASSUME NEW m \in List PROVE Holds(m)'
  <2>1. CASE m # l
    <3>1. \A k \in 1..Len(order[m]) : /\ order[m][k] # n
                                      /\ list_count[l] # 0 => order[m][k] # list_first[l]
      BY <2>1, <1>1, <1>3, <1>4 DEF LInv, ListsAgree, Once, Holds
    <3>2. \A k \in 1..Len(order[m]) : /\ next'[order[m][k]] = next[order[m][k]]
                                      /\ pre'[order[m][k]] = pre[order[m][k]]
      BY <3>1, <1>4 DEF LInv, ListTypes, list_insert_first
    <3>3. /\ list_first'[m] = list_first[m] /\ list_last'[m] = list_last[m] /\ list_count'[m] = list_count[m]
          /\ Holds(m)
      BY <2>1 DEF LInv, ListTypes, ListsAgree, list_insert_first
    <3> QED
      BY <2>1, <1>2, <3>2, <3>3, OtherLists DEF LInv
  <2>2. CASE m = l
    <3>1. \A x, y \in 1..Len(s) : s[x] = s[y] => x = y
      BY DEF LInv, ListsAgree, Once
    <3>2. /\ list_count'[l] = Len(t) /\ list_first'[l] = n
          /\ list_last'[l] = IF Len(s) = 0 THEN n ELSE s[Len(s)]
      BY <1>1, <1>3 DEF LInv, ListTypes, list_insert_first, Holds
    <3>3. /\ pre'[n] = Null
          /\ next'[n] = IF Len(s) = 0 THEN Null ELSE s[1]
      BY <1>1, <1>3, <1>4 DEF LInv, ListTypes, list_insert_first, Holds
    <3>4. \A k \in 1..Len(s) : /\ next'[s[k]] = IF k = Len(s) THEN Null ELSE s[k + 1]
                               /\ pre'[s[k]] = IF k = 1 THEN n ELSE s[k - 1]
      <4> SUFFICES ASSUME NEW k \in 1..Len(s)
                   PROVE  /\ next'[s[k]] = IF k = Len(s) THEN Null ELSE s[k + 1]
                          /\ pre'[s[k]] = IF k = 1 THEN n ELSE s[k - 1]
        OBVIOUS
      <4>1. s[k] # n /\ list_count[l] # 0 /\ s[k] \in Node
        BY <1>1, <1>3 DEF Holds
      <4>2. next'[s[k]] = next[s[k]]
        BY <4>1 DEF LInv, ListTypes, list_insert_first
      <4>3. CASE k = 1
        BY <4>1, <4>2, <4>3, <1>3, <1>4 DEF LInv, ListTypes, list_insert_first, Holds
      <4>4. CASE k # 1
        <5>1. s[k] # list_first[l]
          BY <4>1, <4>4, <1>1, <1>4, <3>1
        <5>2. pre'[s[k]] = pre[s[k]]
          BY <4>1, <5>1, <1>4 DEF LInv, ListTypes, list_insert_first
        <5> QED
          BY <4>2, <4>4, <5>2, <1>3 DEF Holds
      <4> QED
        BY <4>3, <4>4
    <3>5. \A k \in 1..Len(t) : /\ next'[t[k]] = IF k = Len(t) THEN Null ELSE t[k + 1]
                               /\ pre'[t[k]] = IF k = 1 THEN Null ELSE t[k - 1]
      <4> SUFFICES ASSUME NEW k \in 1..Len(t)
                   PROVE  /\ next'[t[k]] = IF k = Len(t) THEN Null ELSE t[k + 1]
                          /\ pre'[t[k]] = IF k = 1 THEN Null ELSE t[k - 1]
        OBVIOUS
      <4>1. CASE k = 1
        BY <4>1, <1>1, <3>3
      <4>2. CASE k # 1
        <5>1. k - 1 \in 1..Len(s) /\ t[k] = s[k - 1]
          BY <4>2, <1>1
        <5>2. k - 1 # 1 => k - 2 \in 1..Len(s) /\ t[k - 1] = s[k - 2]
          BY <5>1, <1>1
        <5>3. k # Len(t) => k \in 1..Len(s) /\ t[k + 1] = s[k]
          BY <5>1, <1>1
        <5> QED
          BY <4>2, <5>1, <5>2, <5>3, <3>4, <1>1
      <4> QED
        BY <4>1, <4>2
    <3>6. list_first'[l] = t[1] /\ list_last'[l] = t[Len(t)] /\ Len(t) # 0
      BY <1>1, <3>2
    <3>7. Holds(l)'
      <4>1. order'[l] = t
        BY <1>2
      <4> HIDE DEF t, s
      <4> QED
        BY <4>1, <3>2, <3>5, <3>6 DEF Holds
    <3> QED
      BY <2>2, <3>7
  <2> QED
    BY <2>1, <2>2
<1> QED
  BY <1>5, <1>6, <1>7 DEF LInv, ListsAgree

\* A node leaves the list it is in, from any place.
LEMMA RemoveKeeps ==
  ASSUME LInv, NEW l \in List, NEW n \in Node, list_remove(l, n)
  PROVE  LInv'
<1> USE LinkedListAssumption
<1> DEFINE s == order[l]
<1>1. PICK i \in 1..Len(s) :
        /\ s[i] = n
        /\ list_first' = IF n = list_first[l] THEN [list_first EXCEPT ![l] = next[n]] ELSE list_first
        /\ list_last' = IF n = list_last[l] THEN [list_last EXCEPT ![l] = pre[n]] ELSE list_last
        /\ next' = IF pre[n] = Null THEN [next EXCEPT ![n] = Null]
                   ELSE [next EXCEPT ![pre[n]] = next[n], ![n] = Null]
        /\ pre'  = IF next[n] = Null THEN [pre EXCEPT ![n] = Null]
                   ELSE [pre EXCEPT ![next[n]] = pre[n], ![n] = Null]
        /\ list_count' = [list_count EXCEPT ![l] = @ - 1]
        /\ order' = [order EXCEPT ![l] = Without(@, i)]
  BY DEF list_remove
<1> DEFINE t == Without(s, i)
           p == IF i = 1 THEN Null ELSE s[i - 1]
           q == IF i = Len(s) THEN Null ELSE s[i + 1]
<1>2. /\ s \in Seq(Node) /\ Len(s) \in Nat /\ t \in Seq(Node) /\ Len(t) = Len(s) - 1
      /\ \A j \in 1..Len(t) : t[j] = IF j < i THEN s[j] ELSE s[j + 1]
      /\ \A j \in 1..Len(s) : s[j] \in Node
  <2>1. s \in Seq(Node)
    BY DEF LInv, ListTypes
  <2>2. /\ t \in Seq(Node) /\ Len(t) = Len(s) - 1
        /\ \A j \in 1..(Len(s) - 1) : t[j] = IF j < i THEN s[j] ELSE s[j + 1]
    <3> HIDE DEF s
    <3> QED
      BY <2>1, WithoutFacts
  <2> HIDE DEF s, t
  <2> QED
    BY <2>1, <2>2
<1>3. \A x, y \in 1..Len(s) : s[x] = s[y] => x = y
  BY DEF LInv, ListsAgree, Once
<1>4. /\ order'[l] = t
      /\ \A m \in List : m # l => order'[m] = order[m]
  BY <1>1 DEF LInv, ListTypes
<1>5. Holds(l) /\ pre[n] = p /\ next[n] = q /\ p \in Pointer /\ q \in Pointer
  <2>1. Holds(l)
    BY DEF LInv, ListsAgree
  <2>2. pre[n] = p /\ next[n] = q
    BY <1>1, <2>1 DEF Holds
  <2> QED
    BY <1>2, <2>1, <2>2 DEF Pointer
<1>6. ListTypes'
  <2>1. pre' \in [Node -> Pointer] /\ next' \in [Node -> Pointer]
    BY <1>1, <1>5 DEF LInv, ListTypes, Pointer
  <2>2. list_first' \in [List -> Pointer] /\ list_last' \in [List -> Pointer]
    BY <1>1, <1>5 DEF LInv, ListTypes, Pointer
  <2>3. list_count' \in [List -> Nat]
    <3>1. list_count[l] \in Nat /\ list_count[l] = Len(s)
      BY <1>2, <1>5 DEF Holds
    <3> QED
      BY <1>1, <1>2, <3>1 DEF LInv, ListTypes
  <2>4. order' \in [List -> Seq(Node)]
    BY <1>1, <1>2 DEF LInv, ListTypes
  <2> QED
    BY <2>1, <2>2, <2>3, <2>4 DEF ListTypes
<1>7. Once'
  <2>1. \A a \in List : \A x \in 1..Len(order'[a]) :
          \E y \in 1..Len(order[a]) : /\ order'[a][x] = order[a][y]
                                      /\ y = IF a = l /\ x >= i THEN x + 1 ELSE x
    <3> SUFFICES ASSUME NEW a \in List, NEW x \in 1..Len(order'[a])
                 PROVE \E y \in 1..Len(order[a]) :
                          /\ order'[a][x] = order[a][y]
                          /\ y = IF a = l /\ x >= i THEN x + 1 ELSE x
      OBVIOUS
    <3>1. CASE a # l
      BY <3>1, <1>4
    <3>2. CASE a = l
      <4>1. x \in 1..Len(t) /\ order'[a] = t
        BY <3>2, <1>4
      <4> HIDE DEF t
      <4> QED
        BY <3>2, <4>1, <1>2
    <3> QED
      BY <3>1, <3>2
  <2> SUFFICES ASSUME NEW a \in List, NEW b \in List,
                      NEW x \in 1..Len(order'[a]), NEW y \in 1..Len(order'[b]),
                      order'[a][x] = order'[b][y]
               PROVE  a = b /\ x = y
    BY DEF Once
  <2>2. PICK u \in 1..Len(order[a]) : /\ order'[a][x] = order[a][u]
                                     /\ u = IF a = l /\ x >= i THEN x + 1 ELSE x
    BY <2>1
  <2>3. PICK v \in 1..Len(order[b]) : /\ order'[b][y] = order[b][v]
                                     /\ v = IF b = l /\ y >= i THEN y + 1 ELSE y
    BY <2>1
  <2>4. order[a][u] = order[b][v]
    BY <2>2, <2>3
  <2>5. a = b /\ u = v
    BY <2>4 DEF LInv, ListsAgree, Once
  <2>6. x \in Int /\ y \in Int /\ i \in Int
    BY <1>1
  <2> QED
    BY <2>2, <2>3, <2>5, <2>6
<1>8. ASSUME NEW m \in List PROVE Holds(m)'
  <2>1. CASE m # l
    <3>1. \A k \in 1..Len(order[m]) : \A j \in 1..Len(s) : order[m][k] # s[j]
      BY <2>1 DEF LInv, ListsAgree, Once
    <3>2. p = Null \/ \E j \in 1..Len(s) : p = s[j]
      BY <1>1
    <3>3. q = Null \/ \E j \in 1..Len(s) : q = s[j]
      BY <1>1
    <3>4. \A k \in 1..Len(order[m]) : order[m][k] \in Node
      BY DEF LInv, ListTypes
    <3>5. \A k \in 1..Len(order[m]) : order[m][k] \notin {n, p, q}
      BY <3>1, <3>2, <3>3, <3>4, <1>1
    <3>6. \A k \in 1..Len(order[m]) : /\ next'[order[m][k]] = next[order[m][k]]
                                      /\ pre'[order[m][k]] = pre[order[m][k]]
      <4> HIDE DEF p, q, s
      <4> QED
        BY <3>5, <1>1, <1>5 DEF LInv, ListTypes
    <3>7. /\ list_first'[m] = list_first[m] /\ list_last'[m] = list_last[m] /\ list_count'[m] = list_count[m]
          /\ Holds(m)
      BY <2>1, <1>1 DEF LInv, ListTypes, ListsAgree
    <3> QED
      BY <2>1, <1>4, <3>6, <3>7, OtherLists DEF LInv
  <2>2. CASE m = l
    <3>0. /\ list_first[l] = s[1] /\ list_last[l] = s[Len(s)]
          /\ 1 \in 1..Len(s) /\ Len(s) \in 1..Len(s) /\ s[i] = n
          /\ l \in DOMAIN list_first /\ l \in DOMAIN list_last
      <4>1. 1 \in 1..Len(s) /\ Len(s) \in 1..Len(s) /\ Len(s) # 0
        BY <1>2
      <4>2. s[i] = n
        BY <1>1
      <4> QED
        BY <1>5, <4>1, <4>2 DEF Holds, LInv, ListTypes
    <3>1. n = list_first[l] <=> i = 1
      <4> HIDE DEF s
      <4> QED
        BY <1>3, <3>0
    <3>2. n = list_last[l] <=> i = Len(s)
      <4> HIDE DEF s
      <4> QED
        BY <1>3, <3>0
    <3>3. list_first'[l] = IF i = 1 THEN q ELSE s[1]
      <4>1. list_first' = IF n = list_first[l] THEN [list_first EXCEPT ![l] = next[n]] ELSE list_first
        BY <1>1
      <4> HIDE DEF s, q
      <4> QED
        BY <4>1, <1>5, <3>0, <3>1
    <3>4. list_last'[l] = IF i = Len(s) THEN p ELSE s[Len(s)]
      <4>1. list_last' = IF n = list_last[l] THEN [list_last EXCEPT ![l] = pre[n]] ELSE list_last
        BY <1>1
      <4> HIDE DEF s, p
      <4> QED
        BY <4>1, <1>5, <3>0, <3>2
    <3>5. list_count'[l] = Len(t)
      BY <1>1, <1>2, <1>5 DEF LInv, ListTypes, Holds
    <3>6. \A k \in 1..Len(s) : k # i =>
            /\ next'[s[k]] = IF k + 1 = i THEN q ELSE next[s[k]]
            /\ pre'[s[k]] = IF k = i + 1 THEN p ELSE pre[s[k]]
      <4> SUFFICES ASSUME NEW k \in 1..Len(s), k # i
                   PROVE  /\ next'[s[k]] = IF k + 1 = i THEN q ELSE next[s[k]]
                          /\ pre'[s[k]] = IF k = i + 1 THEN p ELSE pre[s[k]]
        OBVIOUS
      <4>1. s[k] # n /\ s[k] \in Node /\ s[k] # Null
        BY <1>1, <1>2, <1>3
      <4>2. s[k] = p <=> k + 1 = i
        <5>1. i # 1 => i - 1 \in 1..Len(s) /\ p = s[i - 1]
          BY <1>1, <1>2
        <5>2. i # 1 => (s[k] = s[i - 1] <=> k = i - 1)
          BY <5>1, <1>3
        <5>3. i = 1 => p = Null /\ k + 1 # i
          OBVIOUS
        <5> HIDE DEF p, s
        <5> QED
          BY <4>1, <5>1, <5>2, <5>3, <1>1, <1>2
      <4>3. s[k] = q <=> k = i + 1
        <5>1. i # Len(s) => i + 1 \in 1..Len(s) /\ q = s[i + 1]
          BY <1>1, <1>2
        <5>2. i # Len(s) => (s[k] = s[i + 1] <=> k = i + 1)
          BY <5>1, <1>3
        <5>3. i = Len(s) => q = Null /\ k # i + 1
          BY <1>2
        <5> HIDE DEF q, s
        <5> QED
          BY <4>1, <5>1, <5>2, <5>3
      <4>4. (p = Null <=> i = 1) /\ (q = Null <=> i = Len(s))
        BY <1>1, <1>2
      <4> HIDE DEF p, q
      <4>5. next'[s[k]] = IF k + 1 = i THEN q ELSE next[s[k]]
        BY <4>1, <4>2, <4>4, <1>1, <1>5 DEF LInv, ListTypes
      <4>6. pre'[s[k]] = IF k = i + 1 THEN p ELSE pre[s[k]]
        BY <4>1, <4>3, <4>4, <1>1, <1>5 DEF LInv, ListTypes
      <4> QED
        BY <4>5, <4>6
    <3>7. \A k \in 1..Len(t) : /\ next'[t[k]] = IF k = Len(t) THEN Null ELSE t[k + 1]
                               /\ pre'[t[k]] = IF k = 1 THEN Null ELSE t[k - 1]
      <4> SUFFICES ASSUME NEW k \in 1..Len(t)
                   PROVE  /\ next'[t[k]] = IF k = Len(t) THEN Null ELSE t[k + 1]
                          /\ pre'[t[k]] = IF k = 1 THEN Null ELSE t[k - 1]
        OBVIOUS
      <4>1. \A j \in 1..Len(s) : /\ next[s[j]] = IF j = Len(s) THEN Null ELSE s[j + 1]
                                 /\ pre[s[j]] = IF j = 1 THEN Null ELSE s[j - 1]
        BY <1>5 DEF Holds
      <4>2. k \in 1..(Len(s) - 1) /\ Len(t) = Len(s) - 1 /\ i \in 1..Len(s)
        BY <1>1, <1>2
      <4>3. /\ t[k] = IF k < i THEN s[k] ELSE s[k + 1]
            /\ k # Len(t) => t[k + 1] = IF k + 1 < i THEN s[k + 1] ELSE s[k + 2]
            /\ k # 1 => t[k - 1] = IF k - 1 < i THEN s[k - 1] ELSE s[k]
        <5>1. \A j \in 1..(Len(s) - 1) : t[j] = IF j < i THEN s[j] ELSE s[j + 1]
          BY <1>2
        <5> HIDE DEF t, s
        <5>2. PICK top \in Nat : top = Len(s) - 1
          BY <1>1, <4>2
        <5>3. t[k] = IF k < i THEN s[k] ELSE s[k + 1]
          BY <4>2, <5>1
        <5>4. ASSUME k # Len(t)
              PROVE  t[k + 1] = IF k + 1 < i THEN s[k + 1] ELSE s[k + 2]
          <6>1. k + 1 \in 1..top /\ (k + 1) + 1 = k + 2
            BY <4>2, <5>2, <5>4
          <6> QED
            BY <5>1, <5>2, <6>1
        <5>5. ASSUME k # 1
              PROVE  t[k - 1] = IF k - 1 < i THEN s[k - 1] ELSE s[k]
          <6>1. k - 1 \in 1..top /\ (k - 1) + 1 = k
            BY <4>2, <5>2, <5>5
          <6> QED
            BY <5>1, <5>2, <6>1
        <5> QED
          BY <5>3, <5>4, <5>5
      <4>4. /\ i = 1 => p = Null
            /\ i # 1 => p = s[i - 1]
            /\ i = Len(s) => q = Null
            /\ i # Len(s) => q = s[i + 1]
        OBVIOUS
      <4> HIDE DEF t, s, p, q
      <4>5. CASE k < i
        <5>1. k \in 1..Len(s) /\ k # i /\ k # i + 1 /\ k # Len(s) /\ t[k] = s[k]
          BY <4>2, <4>3, <4>5
        <5>2. next'[s[k]] = IF k + 1 = i THEN q ELSE next[s[k]]
          BY <5>1, <3>6
        <5>3. pre'[s[k]] = pre[s[k]]
          BY <5>1, <3>6
        <5>4. pre'[t[k]] = IF k = 1 THEN Null ELSE t[k - 1]
          <6>1. pre[s[k]] = IF k = 1 THEN Null ELSE s[k - 1]
            BY <5>1, <4>1
          <6>2. k # 1 => t[k - 1] = s[k - 1]
            BY <4>2, <4>3, <4>5
          <6> QED
            BY <5>1, <5>3, <6>1, <6>2
        <5>5. CASE k + 1 < i
          <6>1. next[s[k]] = s[k + 1]
            BY <5>1, <4>1
          <6>2. k # Len(t) /\ t[k + 1] = s[k + 1]
            BY <4>2, <4>3, <5>5
          <6> QED
            BY <5>1, <5>2, <5>4, <5>5, <6>1, <6>2
        <5>6. CASE k + 1 = i
          <6>1. k # Len(t) => i # Len(s) /\ t[k + 1] = s[i + 1]
            BY <4>2, <4>3, <5>6
          <6>2. k = Len(t) => i = Len(s)
            BY <4>2, <5>6
          <6> QED
            BY <5>1, <5>2, <5>4, <5>6, <4>4, <6>1, <6>2
        <5> QED
          BY <4>2, <4>5, <5>5, <5>6
      <4>6. CASE k > i
        <5>1. /\ k + 1 \in 1..Len(s) /\ k + 1 # i /\ k + 1 # i + 1 /\ (k + 1) + 1 # i
              /\ t[k] = s[k + 1] /\ k # 1 /\ t[k - 1] = s[k]
              /\ k # Len(t) => t[k + 1] = s[k + 2]
          BY <4>2, <4>3, <4>6
        <5>2. next'[s[k + 1]] = next[s[k + 1]] /\ pre'[s[k + 1]] = pre[s[k + 1]]
          BY <5>1, <4>2, <3>6
        <5>3. next[s[k + 1]] = IF k = Len(t) THEN Null ELSE s[k + 2]
          <6>1. next[s[k + 1]] = IF k + 1 = Len(s) THEN Null ELSE s[(k + 1) + 1]
            BY <5>1, <4>1
          <6>2. (k + 1 = Len(s) <=> k = Len(t)) /\ (k + 1) + 1 = k + 2
            BY <4>2, <1>2
          <6> QED
            BY <6>1, <6>2
        <5>4. pre[s[k + 1]] = s[k]
          BY <5>1, <4>1, <4>2
        <5> QED
          BY <5>1, <5>2, <5>3, <5>4
      <4>7. CASE k = i
        <5>1. /\ k + 1 \in 1..Len(s) /\ k + 1 # i
              /\ t[k] = s[k + 1] /\ (k # 1 => t[k - 1] = s[k - 1])
              /\ k # Len(t) => t[k + 1] = s[k + 2]
          BY <4>2, <4>3, <4>7
        <5>2. next'[s[k + 1]] = next[s[k + 1]] /\ pre'[s[k + 1]] = p
          BY <5>1, <4>2, <4>7, <3>6
        <5>3. next[s[k + 1]] = IF k = Len(t) THEN Null ELSE s[k + 2]
          <6>1. next[s[k + 1]] = IF k + 1 = Len(s) THEN Null ELSE s[(k + 1) + 1]
            BY <5>1, <4>1
          <6>2. (k + 1 = Len(s) <=> k = Len(t)) /\ (k + 1) + 1 = k + 2
            BY <4>2, <1>2
          <6> QED
            BY <6>1, <6>2
        <5> QED
          BY <5>1, <5>2, <5>3, <4>4, <4>7
      <4> QED
        BY <4>2, <4>5, <4>6, <4>7
    <3>8. /\ list_first'[l] = IF Len(t) = 0 THEN Null ELSE t[1]
          /\ list_last'[l] = IF Len(t) = 0 THEN Null ELSE t[Len(t)]
      <4> HIDE DEF t, s
      <4> QED
        BY <3>3, <3>4, <1>1, <1>2
    <3>9. Holds(l)'
      <4>1. order'[l] = t
        BY <1>4
      <4> HIDE DEF t, s
      <4> QED
        BY <4>1, <3>5, <3>7, <3>8 DEF Holds
    <3> QED
      BY <2>2, <3>9
  <2> QED
    BY <2>1, <2>2
<1> QED
  BY <1>6, <1>7, <1>8 DEF LInv, ListsAgree

\* Removing an end of a list is removing that node.
LEMMA EndsAreRemoved ==
  ASSUME LInv, NEW l \in List
  PROVE  /\ list_remove_first(l) => \E n \in Node : list_remove(l, n)
         /\ list_remove_last(l) => \E n \in Node : list_remove(l, n)
<1> USE LinkedListAssumption
<1> DEFINE s == order[l]
<1>1. s \in Seq(Node) /\ Len(s) \in Nat /\ \A j \in 1..Len(s) : s[j] \in Node
  BY DEF LInv, ListTypes
<1>2. Holds(l) /\ \A x, y \in 1..Len(s) : s[x] = s[y] => x = y
  BY DEF LInv, ListsAgree, Once
<1>3. ASSUME list_remove_first(l) PROVE \E n \in Node : list_remove(l, n)
  <2> DEFINE n == list_first[l]
  <2>1. 1 \in 1..Len(s) /\ s[1] = n /\ n \in Node
    BY <1>1, <1>2, <1>3 DEF list_remove_first, Holds
  <2>2. pre[n] = Null /\ (next[n] = Null <=> Len(s) = 1)
    <3>1. pre[n] = Null /\ next[n] = IF 1 = Len(s) THEN Null ELSE s[1 + 1]
      <4> HIDE DEF n
      <4> QED
        BY <1>2, <2>1 DEF Holds
    <3>2. 1 # Len(s) => s[1 + 1] \in Node
      <4>1. 1 # Len(s) => 1 + 1 \in 1..Len(s)
        <5>1. Len(s) \in Nat /\ 1 <= Len(s)
          BY <1>1, <2>1
        <5>2. \A x \in Nat : 1 <= x /\ 1 # x => 1 + 1 \in 1..x
          OBVIOUS
        <5> HIDE DEF s
        <5> QED
          BY <5>1, <5>2
      <4> QED
        BY <1>1, <4>1
    <3> HIDE DEF n, s
    <3> QED
      BY <3>1, <3>2
  <2>3. n = list_last[l] <=> Len(s) = 1
    <3>1. list_last[l] = s[Len(s)] /\ Len(s) \in 1..Len(s)
      BY <1>1, <1>2, <2>1 DEF Holds
    <3> HIDE DEF n, s
    <3> QED
      BY <3>1, <1>2, <2>1
  <2>4. list_remove(l, n)
    BY <1>3, <2>1, <2>2, <2>3 DEF list_remove_first, list_remove
  <2> QED
    BY <2>1, <2>4
<1>4. ASSUME list_remove_last(l) PROVE \E n \in Node : list_remove(l, n)
  <2> DEFINE n == list_last[l]
  <2>1. Len(s) \in 1..Len(s) /\ s[Len(s)] = n /\ n \in Node
    BY <1>1, <1>2, <1>4 DEF list_remove_last, Holds
  <2>2. next[n] = Null /\ (pre[n] = Null <=> Len(s) = 1)
    <3>1. next[n] = Null /\ pre[n] = IF Len(s) = 1 THEN Null ELSE s[Len(s) - 1]
      BY <1>2, <2>1 DEF Holds
    <3>2. 1 # Len(s) => s[Len(s) - 1] \in Node
      <4>1. 1 # Len(s) => Len(s) - 1 \in 1..Len(s)
        <5>1. Len(s) \in Nat /\ 1 <= Len(s)
          BY <1>1, <2>1
        <5>2. \A x \in Nat : 1 <= x /\ 1 # x => x - 1 \in 1..x
          OBVIOUS
        <5> HIDE DEF s
        <5> QED
          BY <5>1, <5>2
      <4> QED
        BY <1>1, <4>1
    <3> HIDE DEF n, s
    <3> QED
      BY <3>1, <3>2
  <2>3. n = list_first[l] <=> Len(s) = 1
    <3>1. list_first[l] = s[1] /\ 1 \in 1..Len(s)
      BY <1>1, <1>2, <2>1 DEF Holds
    <3> HIDE DEF n, s
    <3> QED
      BY <3>1, <1>2, <2>1
  <2>4. list_remove(l, n)
    BY <1>4, <2>1, <2>2, <2>3 DEF list_remove_last, list_remove
  <2> QED
    BY <2>1, <2>4
<1> QED
  BY <1>3, <1>4

-----------------------------------------------------------------------------
LEMMA LInvInit == LinkedListInit => LInv
BY LinkedListAssumption
   DEF LinkedListInit, LInv, ListTypes, ListsAgree, Once, Holds, Pointer

LEMMA LInvStep == LInv /\ [LinkedListNext]_listvars => LInv'
<1> SUFFICES ASSUME LInv, [LinkedListNext]_listvars PROVE LInv'
  OBVIOUS
<1>1. CASE UNCHANGED listvars
  BY <1>1 DEF listvars, LInv, ListTypes, ListsAgree, Once, Holds
<1>2. ASSUME NEW l \in List, NEW n \in Node, list_insert_first(l, n) PROVE LInv'
  BY <1>2, InsertFirstKeeps
<1>3. ASSUME NEW l \in List, NEW n \in Node, list_insert_last(l, n) PROVE LInv'
  BY <1>3, InsertLastKeeps
<1>4. ASSUME NEW l \in List, NEW n \in Node, list_remove(l, n) PROVE LInv'
  BY <1>4, RemoveKeeps
<1>5. ASSUME NEW l \in List, list_remove_first(l) \/ list_remove_last(l) PROVE LInv'
  BY <1>4, <1>5, EndsAreRemoved
<1> QED
  BY <1>1, <1>2, <1>3, <1>4, <1>5 DEF LinkedListNext

\* In every state the lists are the sequences that the calls ask for.
THEOREM ListsAreSequences == LinkedListSpec => []ListsAgree
<1>1. LInv => ListsAgree
  BY DEF LInv
<1> QED
  BY LInvInit, LInvStep, <1>1, PTL DEF LinkedListSpec

-----------------------------------------------------------------------------
\* Reading the clock.

\* The clock has not moved since the first register was read, or it is known
\* that it has: less than a minute lies between two looks at the seconds.
ReadInv ==
  /\ now \in Nat /\ since \in 0..(Radix - 1) /\ since <= now
  /\ register \in {"sec", "min", "hour", "again", "done"}
  /\ \E s, m, h : tm = [sec |-> s, min |-> m, hour |-> h]
  /\ register \in {"min", "hour", "again"} => tm.sec = Registers(now - since).sec
  /\ register \in {"hour", "again"} /\ since = 0 => tm.min = Registers(now).min
  /\ register = "again" /\ since = 0 => tm.hour = Registers(now).hour
  /\ register = "done" => tm = Registers(now - since)

(* Two instants less than a minute apart that show the same second.         *)
LEMMA SameSecond ==
  ASSUME NEW n \in Nat, NEW s \in 0..(Radix - 1), s <= n, (n - s) % Radix = n % Radix
  PROVE  s = 0
<1>1. PICK R \in Nat \ {0, 1} : R = Radix
  BY ClockAssumption
<1>2. PICK a \in Nat, r \in 0..(R - 1) : n = a * R + r /\ n % R = r
  <2>1. n \div R \in Nat /\ n % R \in 0..(R - 1) /\ n = R * (n \div R) + (n % R)
    BY Z3
  <2>2. R * (n \div R) = (n \div R) * R
    OBVIOUS
  <2> QED
    BY <2>1, <2>2
<1>3. PICK m \in Nat : m = n - s
  OBVIOUS
<1>4. PICK b \in Nat, t \in 0..(R - 1) : m = b * R + t /\ m % R = t
  <2>1. m \div R \in Nat /\ m % R \in 0..(R - 1) /\ m = R * (m \div R) + (m % R)
    BY Z3
  <2>2. R * (m \div R) = (m \div R) * R
    OBVIOUS
  <2> QED
    BY <2>1, <2>2
<1>5. t = r
  BY <1>1, <1>2, <1>3, <1>4
<1>6. s = a * R - b * R
  BY <1>2, <1>3, <1>4, <1>5
<1>7. PICK d \in Int : d = a - b
  OBVIOUS
<1>8. s = d * R
  <2>1. (a - b) * R = a * R - b * R
    OBVIOUS
  <2> QED
    BY <1>6, <1>7, <2>1
<1>9. ~ (d >= 1)
  <2>1. d >= 1 => (d - 1) * R >= 0 /\ d * R = (d - 1) * R + R
    OBVIOUS
  <2> QED
    BY <1>1, <1>8, <2>1
<1>10. ~ (d <= -1)
  <2>1. d <= -1 => (-1 - d) * R >= 0 /\ d * R = -((-1 - d) * R) - R
    OBVIOUS
  <2> QED
    BY <1>1, <1>8, <2>1
<1>11. d = 0
  BY <1>9, <1>10
<1> QED
  BY <1>8, <1>11

(* One instant later.                                                       *)
LEMMA SecondKeeps == ReadInv /\ Second => ReadInv'
<1> SUFFICES ASSUME ReadInv, Second PROVE ReadInv'
  OBVIOUS
<1>1. PICK R \in Nat \ {0, 1} : R = Radix
  BY ClockAssumption
<1>2. /\ now' = now + 1 /\ since' = since + 1 /\ since < R - 1
      /\ tm' = tm /\ register' = register
  BY <1>1 DEF Second
<1>3. /\ now \in Nat /\ since \in 0..(R - 1) /\ since <= now
  BY <1>1 DEF ReadInv
<1>4. /\ now' \in Nat /\ since' \in 0..(R - 1) /\ since' <= now'
      /\ since' # 0 /\ now' - since' = now - since
  BY <1>2, <1>3
<1> QED
  BY <1>1, <1>2, <1>4 DEF ReadInv, Registers

(* A register is read.                                                      *)
LEMMA CmosReadKeeps == ReadInv /\ cmos_read => ReadInv'
<1> SUFFICES ASSUME ReadInv, cmos_read PROVE ReadInv'
  OBVIOUS
<1>1. PICK R \in Nat \ {0, 1} : R = Radix
  BY ClockAssumption
<1>2. /\ now' = now /\ now \in Nat /\ since \in 0..(R - 1) /\ since <= now
      /\ tm' = [tm EXCEPT ![register] = Registers(now)[register]]
  BY <1>1 DEF ReadInv, cmos_read
<1>3. PICK s, m, h : tm = [sec |-> s, min |-> m, hour |-> h]
  BY DEF ReadInv
<1>4. PICK g : g = Registers(now)
  OBVIOUS
<1>5. g = [sec |-> g.sec, min |-> g.min, hour |-> g.hour]
  BY <1>4 DEF Registers
<1>6. CASE register = "sec"
  <2>1. /\ register' = "min" /\ since' = 0
        /\ tm' = [sec |-> g.sec, min |-> m, hour |-> h]
    BY <1>2, <1>3, <1>4, <1>5, <1>6 DEF cmos_read
  <2>2. now - 0 = now /\ 0 \in 0..(R - 1) /\ 0 <= now
    BY <1>2
  <2>3. tm'.sec = Registers(now' - since').sec
    BY <1>2, <1>4, <2>1, <2>2 DEF Registers
  <2> QED
    BY <1>1, <1>2, <2>1, <2>2, <2>3 DEF ReadInv
<1>7. CASE register = "min"
  <2>1. /\ register' = "hour" /\ since' = since /\ tm'.sec = tm.sec /\ tm'.min = g.min
        /\ tm' = [sec |-> s, min |-> g.min, hour |-> h]
    BY <1>2, <1>3, <1>4, <1>5, <1>7 DEF cmos_read
  <2>2. tm.sec = Registers(now - since).sec
    BY <1>7 DEF ReadInv
  <2> QED
    BY <1>1, <1>2, <1>4, <2>1, <2>2 DEF ReadInv, Registers
<1>8. CASE register = "hour"
  <2>1. /\ register' = "again" /\ since' = since /\ tm'.sec = tm.sec /\ tm'.min = tm.min
        /\ tm'.hour = g.hour /\ tm' = [sec |-> s, min |-> m, hour |-> g.hour]
    BY <1>2, <1>3, <1>4, <1>5, <1>8 DEF cmos_read
  <2>2. /\ tm.sec = Registers(now - since).sec
        /\ since = 0 => tm.min = Registers(now).min
    BY <1>8 DEF ReadInv
  <2> QED
    BY <1>1, <1>2, <1>4, <2>1, <2>2 DEF ReadInv, Registers
<1> QED
  BY <1>6, <1>7, <1>8 DEF cmos_read

(* The comparison: if the second is the same, so is the instant.            *)
LEMMA ReadAgainKeeps == ReadInv /\ (ReadAgain \/ ReadNext) => ReadInv'
<1> SUFFICES ASSUME ReadInv, ReadAgain \/ ReadNext PROVE ReadInv'
  OBVIOUS
<1>1. /\ now \in Nat /\ since \in 0..(Radix - 1) /\ since <= now
      /\ now' = now /\ tm' = tm /\ since' = since
      /\ \E s, m, h : tm = [sec |-> s, min |-> m, hour |-> h]
  BY DEF ReadInv, ReadAgain, ReadNext
<1>2. CASE register' = "sec"
  BY <1>1, <1>2 DEF ReadInv
<1>3. CASE register' # "sec"
  <2>1. register = "again" /\ register' = "done" /\ Unchanged
    BY <1>3 DEF ReadAgain, ReadNext
  <2>2. tm.sec = Registers(now - since).sec /\ tm.sec = Registers(now).sec
    BY <2>1 DEF ReadInv, Unchanged
  <2>3. (now - since) % Radix = now % Radix
    BY <2>2 DEF Registers
  <2>4. since = 0 /\ now - since = now
    <3>1. since = 0
      BY <1>1, <2>3, SameSecond
    <3> QED
      BY <1>1, <3>1
  <2>5. tm.min = Registers(now).min /\ tm.hour = Registers(now).hour
    BY <2>1, <2>4 DEF ReadInv
  <2>6. tm = Registers(now)
    BY <1>1, <2>2, <2>5 DEF Registers
  <2> QED
    BY <1>1, <2>1, <2>4, <2>6 DEF ReadInv
<1> QED
  BY <1>2, <1>3

(* What ClocksAgree says of it.                                             *)
LEMMA ReadInvImplies ==
  ReadInv => (register = "done" => \E s \in 0..since : tm = Registers(now - s))
<1> SUFFICES ASSUME ReadInv, register = "done"
             PROVE  \E s \in 0..since : tm = Registers(now - s)
  OBVIOUS
<1>1. tm = Registers(now - since) /\ since \in 0..since
  BY ClockAssumption DEF ReadInv
<1> QED
  BY <1>1

(* A clock of which nothing has been read.                                  *)
LEMMA ReadInitInv == ReadInit => ReadInv
<1> SUFFICES ASSUME ReadInit PROVE ReadInv
  OBVIOUS
<1>1. PICK R \in Nat \ {0, 1} : R = Radix
  BY ClockAssumption
<1>2. now \in Nat
  BY <1>1 DEF ReadInit
<1>3. since = 0 /\ 0 \in 0..(R - 1) /\ since <= now
  BY <1>1, <1>2 DEF ReadInit
<1> QED
  BY <1>1, <1>2, <1>3 DEF ReadInit, ReadInv, Registers

-----------------------------------------------------------------------------
\* The calendars.

\* Days of a year before a month.
DaysAt(y, m) == month[m] - (IF m > 2 /\ ~ Leap(y) THEN 1 ELSE 0)

WalkInv ==
  /\ date.year \in Years /\ date.mon \in 1..12
  /\ date = [year |-> date.year, mon |-> date.mon, mday |-> date.mday]
  /\ date.mday \in 1..MonthDays(date.year)[date.mon]
  /\ days = DaysBefore(date.year) + DaysAt(date.year, date.mon) + date.mday - 1

(* The tables of the months.                                                *)
LEMMA Months ==
  ASSUME NEW y, NEW m \in 1..12
  PROVE  /\ MonthDays(y)[m] \in 28..31 /\ DaysAt(y, m) \in Nat
         /\ m < 12 => DaysAt(y, m + 1) = DaysAt(y, m) + MonthDays(y)[m]
         /\ m = 12 => YearDays(y) = DaysAt(y, m) + MonthDays(y)[m]
         /\ MonthDays(y)[m] = IF m = 2 /\ Leap(y) THEN 29 ELSE MonthDays(1970)[m]
         /\ YearDays(y) \in {365, 366}
<1>1. Leap(y) \in BOOLEAN /\ ~ Leap(1970)
  BY DEF Leap
<1>2. PICK L \in BOOLEAN : L = Leap(y)
  BY <1>1
<1>3. /\ MonthDays(y) = <<31, IF L THEN 29 ELSE 28, 31, 30, 31, 30, 31, 31, 30, 31, 30, 31>>
      /\ MonthDays(1970) = <<31, 28, 31, 30, 31, 30, 31, 31, 30, 31, 30, 31>>
      /\ YearDays(y) = IF L THEN 366 ELSE 365
      /\ \A k : DaysAt(y, k) = month[k] - (IF k > 2 /\ ~ L THEN 1 ELSE 0)
  BY <1>1, <1>2 DEF MonthDays, YearDays, DaysAt
<1>4. CASE m = 1
  BY <1>2, <1>3, <1>4 DEF month
<1>5. CASE m = 2
  BY <1>2, <1>3, <1>5 DEF month
<1>6. CASE m = 3
  BY <1>2, <1>3, <1>6 DEF month
<1>7. CASE m = 4
  BY <1>2, <1>3, <1>7 DEF month
<1>8. CASE m = 5
  BY <1>2, <1>3, <1>8 DEF month
<1>9. CASE m = 6
  BY <1>2, <1>3, <1>9 DEF month
<1>10. CASE m = 7
  BY <1>2, <1>3, <1>10 DEF month
<1>11. CASE m = 8
  BY <1>2, <1>3, <1>11 DEF month
<1>12. CASE m = 9
  BY <1>2, <1>3, <1>12 DEF month
<1>13. CASE m = 10
  BY <1>2, <1>3, <1>13 DEF month
<1>14. CASE m = 11
  BY <1>2, <1>3, <1>14 DEF month
<1>15. CASE m = 12
  BY <1>2, <1>3, <1>15 DEF month
<1> QED
  BY <1>4, <1>5, <1>6, <1>7, <1>8, <1>9, <1>10, <1>11, <1>12, <1>13, <1>14, <1>15

(* The leap years from 1970 to 2037, and the days they add.                 *)
LEMMA YearFacts ==
  ASSUME NEW y \in 1970..2037
  PROVE  /\ Leap(y) <=> y % 4 = 0
         /\ DaysBefore(y) \in Nat /\ 365 * (y - 1970) <= DaysBefore(y)
         /\ DaysBefore(y + 1) = DaysBefore(y) + YearDays(y)
         /\ \A z \in 1970..y : DaysBefore(z) <= DaysBefore(y)
         /\ SinceEpoch(y % 100) = y - 1970
<1>1. Leap(y) <=> y % 4 = 0
  BY DEF Leap
<1>2. YearDays(y) = IF y % 4 = 0 THEN 366 ELSE 365
  BY <1>1 DEF YearDays
<1>3. DaysBefore(y) \in Nat /\ 365 * (y - 1970) <= DaysBefore(y)
  BY DEF DaysBefore
<1>4. DaysBefore(y + 1) = DaysBefore(y) + YearDays(y)
  BY <1>2 DEF DaysBefore
<1>5. \A z \in 1970..y : DaysBefore(z) <= DaysBefore(y)
  BY DEF DaysBefore
<1>6. SinceEpoch(y % 100) = y - 1970
  BY DEF SinceEpoch
<1> QED
  BY <1>1, <1>3, <1>4, <1>5, <1>6

(* The ranges of the date.                                                  *)
LEMMA WalkTypes ==
  ASSUME WalkInv
  PROVE  date.year \in 1970..2037 /\ date.mon \in 1..12 /\ date.mday \in Nat
<1>1. MonthDays(date.year)[date.mon] \in 28..31
  BY Months DEF WalkInv
<1> QED
  BY <1>1, ClockAssumption DEF WalkInv

(* A walk begins on a first of January.                                     *)
LEMMA WalkInitInv == WalkInit => WalkInv
<1> SUFFICES ASSUME WalkInit PROVE WalkInv
  OBVIOUS
<1>1. PICK y \in Years : /\ date = [year |-> y, mon |-> 1, mday |-> 1]
                         /\ days = DaysBefore(y)
  BY DEF WalkInit
<1>2. DaysAt(y, 1) = 0 /\ MonthDays(y)[1] \in 28..31
  <2>1. MonthDays(y)[1] \in 28..31
    BY Months
  <2>2. month[1] = 0
    BY DEF month
  <2> QED
    BY <2>1, <2>2 DEF DaysAt
<1>3. DaysBefore(y) \in Nat
  BY ClockAssumption, YearFacts
<1> QED
  BY <1>1, <1>2, <1>3 DEF WalkInv

(* The next day.                                                            *)
LEMMA NextDayKeeps == WalkInv /\ NextDay => WalkInv'
<1> SUFFICES ASSUME WalkInv, NextDay PROVE WalkInv'
  OBVIOUS
<1>1. PICK y \in Years, m \in 1..12, d \in Nat :
        date = [year |-> y, mon |-> m, mday |-> d] /\ d \in 1..MonthDays(y)[m]
  BY WalkTypes DEF WalkInv
<1>2. PICK a \in Nat, b \in Nat : /\ a = DaysBefore(y) /\ b = DaysAt(y, m)
                                  /\ days = a + b + d - 1
  <2>1. DaysBefore(y) \in Nat
    BY ClockAssumption, YearFacts
  <2>2. DaysAt(y, m) \in Nat
    BY Months
  <2>3. days = DaysBefore(y) + DaysAt(y, m) + d - 1
    BY <1>1 DEF WalkInv
  <2> QED
    BY <2>1, <2>2, <2>3
<1>3. MonthDays(y)[m] \in 28..31 /\ days' = days + 1
  BY Months DEF NextDay
<1>4. CASE d < MonthDays(y)[m] /\ date' = [date EXCEPT !.mday = @ + 1]
  <2>1. date' = [year |-> y, mon |-> m, mday |-> d + 1]
    BY <1>1, <1>4
  <2>2. d + 1 \in 1..MonthDays(y)[m] /\ days' = a + b + (d + 1) - 1
    BY <1>2, <1>3, <1>4
  <2> QED
    BY <1>2, <2>1, <2>2 DEF WalkInv
<1>5. CASE d = MonthDays(y)[m] /\ m < 12 /\ date' = [date EXCEPT !.mon = @ + 1, !.mday = 1]
  <2>1. PICK k \in 1..12 : k = m + 1
    BY <1>5
  <2>2. date' = [year |-> y, mon |-> k, mday |-> 1]
    BY <1>1, <1>5, <2>1
  <2>3. DaysAt(y, k) = b + d
    BY <1>2, <1>5, <2>1, Months
  <2>4. days' = a + DaysAt(y, k) + 1 - 1 /\ 1 \in 1..MonthDays(y)[k]
    <3>1. MonthDays(y)[k] \in 28..31
      BY Months
    <3> QED
      BY <1>2, <1>3, <2>3, <3>1
  <2> QED
    BY <1>2, <2>2, <2>4 DEF WalkInv
<1> QED
  BY <1>1, <1>4, <1>5 DEF NextDay

(* What sys_mktime and get_yday make of the date.                           *)
LEMMA MktimeIs ==
  ASSUME WalkInv
  PROVE  sys_mktime(date) = days /\ get_yday(date) = days - DaysBefore(date.year) + 1
<1>1. PICK y \in 1970..2037, m \in 1..12, d \in Nat :
        y = date.year /\ m = date.mon /\ d = date.mday
  BY WalkTypes
<1>3. PICK e \in 0..67 : e = y - 1970
  OBVIOUS
<1>4. SinceEpoch(date.year % 100) = e
  BY <1>1, <1>3, YearFacts
<1>5. (e + 2) % 4 = 0 <=> Leap(y)
  <2>1. (e + 2) % 4 = y % 4
    BY <1>3
  <2> QED
    BY <2>1, YearFacts
<1>6. DaysBefore(y) = 365 * e + (e + 1) \div 4
  BY <1>3 DEF DaysBefore
<1>7. days = DaysBefore(y) + DaysAt(y, m) + d - 1
  BY <1>1 DEF WalkInv
<1>8. PICK a \in Nat : a = 365 * e + (e + 1) \div 4
  <2>1. 365 * e + (e + 1) \div 4 \in Nat
    BY <1>3
  <2> QED
    BY <2>1
<1>9. PICK b \in Nat : b = month[m]
  <2>1. month[m] \in Nat
    BY DEF month
  <2> QED
    BY <2>1
<1>10. PICK c \in Nat : c = IF m > 2 /\ ~ Leap(y) THEN 1 ELSE 0
  OBVIOUS
<1>11. DaysAt(y, m) = b - c
  BY <1>9, <1>10 DEF DaysAt
<1>12. sys_mktime(date) = a + b - c + d - 1 /\ get_yday(date) = b + d - c
  BY <1>1, <1>4, <1>5, <1>8, <1>9, <1>10 DEF sys_mktime, get_yday
<1> QED
  BY <1>1, <1>6, <1>7, <1>8, <1>11, <1>12

(* Induction on the natural numbers, over a set in place of a predicate.    *)
LEMMA NatInd ==
  ASSUME NEW S \in SUBSET Nat, 0 \in S, \A k \in S : k + 1 \in S
  PROVE  S = Nat
<1> DEFINE R == Nat \ S
<1>1. SUFFICES ASSUME R # {} PROVE FALSE
  OBVIOUS
<1>2. PICK m \in R : \A y \in R : m <= y
  <2>1. R \in SUBSET Nat
    OBVIOUS
  <2> HIDE DEF R
  <2> QED
    BY <1>1, <2>1, NatMin
<1>3. m \in Nat /\ m # 0 /\ m - 1 \in Nat /\ m = (m - 1) + 1
  OBVIOUS
<1>4. m - 1 \notin R
  BY <1>2, <1>3
<1> QED
  BY <1>3, <1>4

\* The first m rounds of fml_stamp_to_time for the days n.
Rounds(n, m, f) ==
  f = [k \in 0..m |-> IF k = 0 THEN [year |-> 1970, mon |-> 0, left |-> n]
                      ELSE IF k <= n \div 365 THEN YearRound(f[k - 1])
                      ELSE MonthRound(f[k - 1])]

(* They exist.                                                              *)
LEMMA RoundsExist ==
  ASSUME NEW n, NEW m \in Nat
  PROVE  \E f : Rounds(n, m, f)
<1> DEFINE Start == [year |-> 1970, mon |-> 0, left |-> n]
           Step(k, d) == IF k <= n \div 365 THEN YearRound(d) ELSE MonthRound(d)
           R(p, f) == f = [k \in 0..p |-> IF k = 0 THEN Start ELSE Step(k, f[k - 1])]
           Good == {p \in Nat : \E f : R(p, f)}
<1>1. 0 \in Good
  <2> DEFINE f == [k \in 0..0 |-> Start]
  <2>1. R(0, f)
    OBVIOUS
  <2> QED
    BY <2>1
<1>2. ASSUME NEW p \in Good
      PROVE  p + 1 \in Good
  <2>1. p \in Nat
    OBVIOUS
  <2>2. PICK q \in Nat : q = p + 1
    OBVIOUS
  <2>3. PICK g : R(p, g)
    OBVIOUS
  <2> HIDE DEF Start, Step
  <2> DEFINE f == [k \in 0..q |-> IF k < q THEN g[k] ELSE Step(q, g[p])]
  <2> HIDE DEF Good
  <2>4. g = [k \in 0..p |-> IF k = 0 THEN Start ELSE Step(k, g[k - 1])]
    BY <2>3
  <2>5. /\ \A k \in 0..p : f[k] = g[k]
        /\ f[q] = Step(q, g[p])
        /\ f = [k \in 0..q |-> f[k]]
    BY <2>1, <2>2
  <2>6. \A k \in 0..p : g[k] = IF k = 0 THEN Start ELSE Step(k, g[k - 1])
    BY <2>4
  <2> HIDE DEF f
  <2>7. \A k \in 0..q : f[k] = IF k = 0 THEN Start ELSE Step(k, f[k - 1])
    <3>1. ASSUME NEW k \in 0..p
          PROVE  f[k] = IF k = 0 THEN Start ELSE Step(k, f[k - 1])
      <4>1. k # 0 => k - 1 \in 0..p
        BY <2>1
      <4>2. k # 0 => f[k - 1] = g[k - 1]
        BY <2>5, <4>1
      <4> QED
        BY <2>1, <2>5, <2>6, <4>2
    <3>2. f[q] = IF q = 0 THEN Start ELSE Step(q, f[q - 1])
      <4>1. q - 1 = p /\ p \in 0..p
        BY <2>1, <2>2
      <4>2. f[q - 1] = g[p]
        BY <2>5, <4>1
      <4> QED
        BY <2>1, <2>2, <2>5, <4>2
    <3> QED
      BY <2>1, <2>2, <3>1, <3>2
  <2>8. R(q, f)
    BY <2>5, <2>7
  <2> QED
    BY <2>2, <2>8 DEF Good
<1> HIDE DEF Good
<1>3. Good = Nat
  <2>1. Good \in SUBSET Nat
    BY DEF Good
  <2> QED
    BY <1>1, <1>2, <2>1, NatInd
<1>4. \A f : R(m, f) => Rounds(n, m, f)
  BY DEF Rounds
<1> HIDE DEF R
<1> QED
  BY <1>3, <1>4 DEF Good

\* f are the rounds of fml_stamp_to_time for n, and its result is of the last.
Stamped(n, years, f) ==
  /\ f[0] = [year |-> 1970, mon |-> 0, left |-> n]
  /\ \A k \in 0..(years + 11) :
       f[k + 1] = IF k + 1 <= years THEN YearRound(f[k]) ELSE MonthRound(f[k])
  /\ fml_stamp_to_time(n) = [year |-> f[years + 12].year, mon |-> f[years + 12].mon + 1,
                             mday |-> f[years + 12].left + 1]

(* The equations of fml_stamp_to_time.                                      *)
LEMMA StampRounds ==
  ASSUME NEW n \in Nat, NEW years \in Nat, years = n \div 365
  PROVE  \E f : Stamped(n, years, f)
<1> DEFINE P(f) == f = [k \in 0..(years + 12) |->
                          IF k = 0 THEN [year |-> 1970, mon |-> 0, left |-> n]
                          ELSE IF k <= years THEN YearRound(f[k - 1])
                          ELSE MonthRound(f[k - 1])]
<1>1. PICK m \in Nat : m = years + 12
  OBVIOUS
<1>2. \A f : P(f) <=> Rounds(n, m, f)
  BY <1>1 DEF Rounds
<1>3. \E f : P(f)
  <2> HIDE DEF P
  <2> QED
    BY <1>2, RoundsExist
<1>4. fml_stamp_to_time(n) = LET end == (CHOOSE f : P(f))[m]
                             IN [year |-> end.year, mon |-> end.mon + 1, mday |-> end.left + 1]
  BY <1>1 DEF fml_stamp_to_time
<1>5. PICK f : f = CHOOSE g : P(g)
  OBVIOUS
<1>6. P(f)
  <2> HIDE DEF P
  <2> QED
    BY <1>3, <1>5
<1>7. \A k \in 0..m : f[k] = IF k = 0 THEN [year |-> 1970, mon |-> 0, left |-> n]
                             ELSE IF k <= years THEN YearRound(f[k - 1]) ELSE MonthRound(f[k - 1])
  BY <1>1, <1>6
<1>8. f[0] = [year |-> 1970, mon |-> 0, left |-> n]
  <2> HIDE DEF P
  <2>1. 0 \in 0..m
    OBVIOUS
  <2> QED
    BY <1>7, <2>1
<1>9. ASSUME NEW k \in 0..(years + 11)
      PROVE  f[k + 1] = IF k + 1 <= years THEN YearRound(f[k]) ELSE MonthRound(f[k])
  <2>0. k \in Nat /\ k <= years + 11
    OBVIOUS
  <2> HIDE DEF P
  <2>1. PICK j \in 0..m : j = k + 1
    <3>1. k + 1 \in 0..m
      BY <1>1, <2>0
    <3> QED
      BY <3>1
  <2>2. j # 0 /\ j - 1 = k
    BY <2>1
  <2> QED
    BY <1>7, <2>1, <2>2
<1> HIDE DEF P
<1>10. fml_stamp_to_time(n) = [year |-> f[years + 12].year, mon |-> f[years + 12].mon + 1,
                               mday |-> f[years + 12].left + 1]
  BY <1>1, <1>4, <1>5
<1>11. \A k \in 0..(years + 11) :
         f[k + 1] = IF k + 1 <= years THEN YearRound(f[k]) ELSE MonthRound(f[k])
  BY <1>9
<1>12. Stamped(n, years, f)
  BY <1>8, <1>10, <1>11 DEF Stamped
<1> QED
  BY <1>12

\* The loop is at a day of a year, which it has found, and of a month.
LoopAt(d, y, i, r) == d = [year |-> y, mon |-> i, left |-> r]

\* It is, in a year with the right months; the next round ends the loop or
\* takes the month off.
MonthAt(d, y, i, r) ==
  /\ y \in 1970..2037 /\ y # 2000 /\ i \in 0..11 /\ r \in Nat
  /\ d.year = y /\ d.mon = i /\ d.left = r

MonthTaken(d, y, i, r) ==
  /\ r < MonthDays(y)[i + 1] => MonthRound(d) = d
  /\ r >= MonthDays(y)[i + 1] =>
       MonthRound(d) = [year |-> y, mon |-> i + 1, left |-> r - MonthDays(y)[i + 1]]

\* n is the day r of the year y, counted from 0; r is the day d of the month m.
YearOf(n, years, y, r) ==
  /\ n \in Nat /\ years \in Nat /\ years = n \div 365
  /\ y \in 1970..2037 /\ r \in Nat /\ n = DaysBefore(y) + r /\ r < YearDays(y)

MonthOf(r, y, m, d) ==
  /\ y \in 1970..2037 /\ y # 2000 /\ m \in 1..12 /\ d \in 1..MonthDays(y)[m]
  /\ r = DaysAt(y, m) + d - 1

(* A round takes the days of a month, but for the year 2000.                *)
LEMMA MonthRoundIs ==
  ASSUME NEW d, NEW y, NEW i, NEW r, MonthAt(d, y, i, r)
  PROVE  MonthTaken(d, y, i, r)
<1> USE DEF MonthAt
<1>1. PICK m \in 1..12 : m = i + 1
  OBVIOUS
<1>2. PICK len \in 28..31 : len = MonthDays(y)[m]
  BY Months
<1>3. len = IF m = 2 /\ Leap(y) THEN 29 ELSE MonthDays(1970)[m]
  BY <1>2, Months
<1>4. len = IF (i = 1 /\ y % 4 = 0 /\ y % 100 # 0) \/ y % 400 = 0 THEN 29
            ELSE MonthDays(1970)[i + 1]
  <2>1. y % 400 # 0
    OBVIOUS
  <2>2. m = 2 <=> i = 1
    BY <1>1
  <2> QED
    BY <1>1, <1>3, <2>1, <2>2 DEF Leap
<1>5. MonthRound(d) = IF r < len THEN d ELSE [year |-> y, mon |-> i + 1, left |-> r - len]
  <2>1. d.year = y /\ d.mon = i /\ d.left = r /\ i # 12
    OBVIOUS
  <2> QED
    BY <1>4, <2>1 DEF MonthRound
<1>7. MonthDays(y)[i + 1] = len
  BY <1>1, <1>2
<1>8. r >= len <=> ~ (r < len)
  BY <1>2
<1> QED
  BY <1>5, <1>7, <1>8 DEF MonthTaken

(* The loop over the years finds the year.                                  *)
LEMMA YearsFound ==
  ASSUME NEW n, NEW years, NEW f, Stamped(n, years, f), NEW y, NEW r, YearOf(n, years, y, r)
  PROVE  LoopAt(f[years], y, 0, r)
<1> USE DEF YearOf
<1>1. PICK last \in 0..67 : last = y - 1970
  OBVIOUS
<1>2. last <= years
  <2>1. 365 * last <= DaysBefore(y) /\ DaysBefore(y) \in Nat
    BY <1>1, YearFacts
  <2>2. 365 * last <= n
    BY <2>1
  <2> QED
    BY <2>2
<1> DEFINE At(k) == [year |-> 1970 + k, mon |-> 0, left |-> n - DaysBefore(1970 + k)]
           S == {k \in Nat : k <= years => f[k] = At(IF k <= last THEN k ELSE last)}
<1>3. /\ f[0] = [year |-> 1970, mon |-> 0, left |-> n]
      /\ \A k \in 0..(years + 11) : k + 1 <= years => f[k + 1] = YearRound(f[k])
  BY DEF Stamped
<1>4. 0 \in S
  <2>1. DaysBefore(1970) = 0
    BY DEF DaysBefore
  <2>2. At(0) = [year |-> 1970, mon |-> 0, left |-> n]
    BY <2>1
  <2> QED
    BY <1>3, <2>2
<1>5. ASSUME NEW k \in S
      PROVE  k + 1 \in S
  <2>1. k \in Nat
    OBVIOUS
  <2>2. SUFFICES ASSUME k + 1 <= years
                 PROVE  f[k + 1] = At(IF k + 1 <= last THEN k + 1 ELSE last)
    BY <2>1
  <2>3. f[k] = At(IF k <= last THEN k ELSE last) /\ f[k + 1] = YearRound(f[k])
    BY <1>3, <2>1, <2>2
  <2>4. CASE k < last
    <3>1. PICK z \in 1970..2037 : z = 1970 + k
      BY <1>1, <2>1, <2>4
    <3>2. PICK a \in Nat, b \in Nat : a = DaysBefore(z) /\ b = YearDays(z)
      BY <2>1, YearFacts DEF YearDays
    <3>3. DaysBefore(z + 1) = a + b /\ a + b <= n
      <4>1. DaysBefore(z + 1) = a + b
        BY <3>2, YearFacts
      <4>2. z + 1 \in 1970..y
        BY <1>1, <2>1, <2>4, <3>1
      <4>3. DaysBefore(z + 1) <= DaysBefore(y) /\ DaysBefore(y) \in Nat
        BY <4>2, YearFacts
      <4> QED
        BY <4>1, <4>3
    <3>4. f[k] = [year |-> z, mon |-> 0, left |-> n - a]
      BY <2>1, <2>3, <2>4, <3>1, <3>2
    <3>5. ~ (n - a < b) /\ n - a - b = n - (a + b)
      BY <3>2, <3>3
    <3>6. YearRound(f[k]) = [year |-> z + 1, mon |-> 0, left |-> n - (a + b)]
      <4>1. PICK x : x = f[k]
        OBVIOUS
      <4>2. x.year = z /\ x.left = n - a /\ x = [year |-> z, mon |-> 0, left |-> n - a]
        BY <3>4, <4>1
      <4>3. x.mon = 0
        BY <4>2
      <4>4. YearRound(x) = [year |-> z + 1, mon |-> 0, left |-> n - a - b]
        BY <3>2, <3>5, <4>2, <4>3 DEF YearRound
      <4> QED
        BY <3>5, <4>1, <4>4
    <3>7. z + 1 = 1970 + (k + 1) /\ k + 1 <= last
      BY <2>1, <2>4, <3>1
    <3>8. At(k + 1) = [year |-> z + 1, mon |-> 0, left |-> n - (a + b)]
      BY <3>3, <3>7
    <3> QED
      BY <2>3, <3>6, <3>7, <3>8
  <2>5. CASE ~ (k < last)
    <3>1. (IF k <= last THEN k ELSE last) = last /\ ~ (k + 1 <= last)
      BY <2>1, <2>5
    <3>2. At(last) = [year |-> y, mon |-> 0, left |-> r]
      <4>1. 1970 + last = y /\ DaysBefore(y) \in Nat
        BY <1>1, YearFacts
      <4>2. n - DaysBefore(y) = r
        BY <4>1
      <4> QED
        BY <4>1, <4>2
    <3>3. YearRound(At(last)) = At(last)
      BY <3>2 DEF YearRound
    <3> QED
      BY <2>3, <3>1, <3>3
  <2> QED
    BY <2>4, <2>5
<1> HIDE DEF S
<1>6. S = Nat
  <2>1. S \in SUBSET Nat
    BY DEF S
  <2> QED
    BY <1>4, <1>5, <2>1, NatInd
<1>7. f[years] = At(last)
  <2>1. (IF years <= last THEN years ELSE last) = last
    BY <1>2
  <2>2. f[years] = At(IF years <= last THEN years ELSE last)
    BY <1>6 DEF S
  <2> QED
    BY <2>1, <2>2
<1>8. 1970 + last = y /\ DaysBefore(y) \in Nat
  BY <1>1, YearFacts
<1>9. n - DaysBefore(y) = r
  BY <1>8
<1> QED
  BY <1>7, <1>8, <1>9 DEF LoopAt

(* The loop over the months finds the month.                                *)
LEMMA MonthsFound ==
  ASSUME NEW n, NEW years \in Nat, NEW f, Stamped(n, years, f),
         NEW y, NEW m, NEW d, NEW r, MonthOf(r, y, m, d), LoopAt(f[years], y, 0, r)
  PROVE  LoopAt(f[years + 12], y, m - 1, d - 1)
<1> USE DEF MonthOf
<1>0. f[years] = [year |-> y, mon |-> 0, left |-> r]
  BY DEF LoopAt
<1>1. PICK last \in 0..11 : last = m - 1
  OBVIOUS
<1>2. PICK a \in Nat : a = DaysAt(y, m)
  <2>1. DaysAt(y, m) \in Nat
    BY Months
  <2> QED
    BY <2>1
<1>3. d \in Nat /\ 1 <= d /\ d <= MonthDays(y)[m] /\ MonthDays(y)[m] \in Nat
  <2>1. MonthDays(y)[m] \in 28..31
    BY Months
  <2> QED
    BY <2>1
<1>4. PICK rest \in Nat : rest = a + d - 1
  BY <1>3
<1> DEFINE At(k) == [year |-> y, mon |-> k, left |-> rest - DaysAt(y, k + 1)]
           S == {k \in Nat : k <= 12 => f[years + k] = At(IF k <= last THEN k ELSE last)}
<1>5. \A k \in 0..11 : f[years + (k + 1)] = MonthRound(f[years + k])
  <2> TAKE k \in 0..11
  <2>1. PICK j \in 0..(years + 11) : j = years + k
    OBVIOUS
  <2>2. ~ (j + 1 <= years) /\ j + 1 = years + (k + 1)
    BY <2>1
  <2>3. f[j + 1] = IF j + 1 <= years THEN YearRound(f[j]) ELSE MonthRound(f[j])
    BY DEF Stamped
  <2> QED
    BY <2>1, <2>2, <2>3
<1>6. DaysAt(y, 1) = 0
  BY DEF DaysAt, month
\* The days before the months grow.
<1>7. \A k \in 1..12 : k < m => DaysAt(y, k + 1) <= a
  <2> DEFINE T == {j \in Nat : j < m => DaysAt(y, m - j) <= a}
  <2>1. 0 \in T
    BY <1>2
  <2>2. ASSUME NEW j \in T
        PROVE  j + 1 \in T
    <3>1. SUFFICES ASSUME j + 1 < m  PROVE DaysAt(y, m - (j + 1)) <= a
      OBVIOUS
    <3>2. PICK k \in 1..12 : k = m - (j + 1)
      BY <3>1
    <3>3. k < 12 /\ k + 1 = m - j /\ k + 1 \in 1..12
      BY <3>1, <3>2
    <3>4. DaysAt(y, k + 1) = DaysAt(y, k) + MonthDays(y)[k] /\ MonthDays(y)[k] \in 28..31
          /\ DaysAt(y, k) \in Nat
      BY <3>3, Months
    <3>5. DaysAt(y, k + 1) <= a
      BY <3>1, <3>3
    <3> QED
      BY <3>2, <3>4, <3>5
  <2> HIDE DEF T
  <2>3. T = Nat
    <3>1. T \in SUBSET Nat
      BY DEF T
    <3> QED
      BY <2>1, <2>2, <3>1, NatInd
  <2> TAKE k \in 1..12
  <2>4. SUFFICES ASSUME k < m  PROVE DaysAt(y, k + 1) <= a
    OBVIOUS
  <2>5. PICK j \in Nat : j = m - (k + 1)
    BY <2>4
  <2>6. j < m /\ m - j = k + 1
    BY <2>5
  <2>7. j \in T
    BY <2>3
  <2>8. j < m => DaysAt(y, m - j) <= a
    BY <2>7 DEF T
  <2> QED
    BY <2>6, <2>8
<1>8. 0 \in S
  <2>1. At(0) = [year |-> y, mon |-> 0, left |-> rest]
    BY <1>4, <1>6
  <2>2. f[years + 0] = f[years]
    OBVIOUS
  <2> QED
    BY <1>0, <1>1, <1>2, <1>4, <2>1, <2>2
<1>9. ASSUME NEW k \in S
      PROVE  k + 1 \in S
  <2>1. k \in Nat
    OBVIOUS
  <2>2. SUFFICES ASSUME k + 1 <= 12
                 PROVE  f[years + (k + 1)] = At(IF k + 1 <= last THEN k + 1 ELSE last)
    BY <2>1
  <2>3. /\ f[years + k] = At(IF k <= last THEN k ELSE last)
        /\ f[years + (k + 1)] = MonthRound(f[years + k])
    BY <1>5, <2>1, <2>2
  <2>4. CASE k < last
    <3>1. PICK i \in 0..11, z \in 1..12 : i = k /\ z = i + 1
      BY <1>1, <2>1, <2>4
    <3>2. PICK b \in Nat, len \in Nat : b = DaysAt(y, z) /\ len = MonthDays(y)[z]
      <4>1. DaysAt(y, z) \in Nat /\ MonthDays(y)[z] \in 28..31
        BY Months
      <4> QED
        BY <4>1
    <3>3. z < 12 /\ z < m
      BY <1>1, <2>4, <3>1
    <3>4. DaysAt(y, z + 1) = b + len /\ b + len <= a
      BY <1>7, <3>2, <3>3, Months
    <3>5. PICK t \in Nat : t = rest - b
      BY <1>3, <1>4, <3>4
    <3>6. t >= len /\ t - len = rest - (b + len)
      BY <1>3, <1>4, <3>4, <3>5
    <3>7. PICK x : x = f[years + k]
      OBVIOUS
    <3>8. x.year = y /\ x.mon = i /\ x.left = t
      BY <2>3, <2>4, <3>1, <3>2, <3>5, <3>7
    <3>9. MonthRound(x) = [year |-> y, mon |-> i + 1, left |-> t - len]
      <4>1. t >= MonthDays(y)[i + 1] /\ MonthDays(y)[i + 1] = len
        BY <3>1, <3>2, <3>6
      <4>2. MonthAt(x, y, i, t)
        BY <3>8 DEF MonthAt
      <4>3. MonthTaken(x, y, i, t)
        BY <4>2, MonthRoundIs
      <4> QED
        BY <4>1, <4>3 DEF MonthTaken
    <3>10. k + 1 <= last /\ z + 1 = (k + 1) + 1 /\ i + 1 = k + 1
      BY <1>1, <2>1, <2>4, <3>1
    <3>11. At(k + 1) = [year |-> y, mon |-> i + 1, left |-> t - len]
      BY <3>4, <3>6, <3>10
    <3> QED
      BY <2>3, <3>7, <3>9, <3>10, <3>11
  <2>5. CASE ~ (k < last)
    <3>1. (IF k <= last THEN k ELSE last) = last
          /\ (IF k + 1 <= last THEN k + 1 ELSE last) = last
      BY <2>1, <2>5
    <3>2. PICK t \in Nat : t = d - 1
      BY <1>3
    <3>3. At(last) = [year |-> y, mon |-> last, left |-> t]
      <4>1. last + 1 = m /\ rest - a = d - 1
        BY <1>1, <1>3, <1>4
      <4> QED
        BY <1>2, <3>2, <4>1
    <3>4. t < MonthDays(y)[last + 1]
      <4>1. last + 1 = m
        BY <1>1
      <4> QED
        BY <1>3, <3>2, <4>1
    <3>5. PICK x : x = f[years + k]
      OBVIOUS
    <3>6. x = At(last) /\ x.year = y /\ x.mon = last /\ x.left = t
      BY <2>3, <3>1, <3>3, <3>5
    <3>7. MonthRound(x) = x
      <4>1. MonthAt(x, y, last, t)
        BY <3>6 DEF MonthAt
      <4>2. MonthTaken(x, y, last, t)
        BY <4>1, MonthRoundIs
      <4> QED
        BY <3>4, <4>2 DEF MonthTaken
    <3> QED
      BY <2>3, <3>1, <3>5, <3>6, <3>7
  <2> QED
    BY <2>4, <2>5
<1> HIDE DEF S
<1>10. S = Nat
  <2>1. S \in SUBSET Nat
    BY DEF S
  <2> QED
    BY <1>8, <1>9, <2>1, NatInd
<1>11. f[years + 12] = At(last)
  <2>1. 12 \in S /\ (IF 12 <= last THEN 12 ELSE last) = last /\ 12 <= 12
    BY <1>10
  <2> QED
    BY <2>1 DEF S
<1>12. last + 1 = m /\ rest - a = d - 1
  BY <1>1, <1>3, <1>4
<1> QED
  BY <1>1, <1>2, <1>11, <1>12 DEF LoopAt

(* fml_stamp_to_time makes the date of the days.                            *)
LEMMA StampIs ==
  ASSUME WalkInv, date.year # 2000
  PROVE  fml_stamp_to_time(days) = date
<1>1. PICK y \in 1970..2037, m \in 1..12, d \in Nat :
        y = date.year /\ m = date.mon /\ d = date.mday
  BY WalkTypes
<1>2. date = [year |-> y, mon |-> m, mday |-> d] /\ d \in 1..MonthDays(y)[m]
  BY <1>1 DEF WalkInv
<1>3. PICK a \in Nat, b \in Nat, len \in Nat :
        a = DaysBefore(y) /\ b = DaysAt(y, m) /\ len = MonthDays(y)[m]
  <2>1. DaysBefore(y) \in Nat
    BY YearFacts
  <2>2. DaysAt(y, m) \in Nat /\ MonthDays(y)[m] \in 28..31
    BY Months
  <2> QED
    BY <2>1, <2>2
<1>4. days = a + b + d - 1
  BY <1>1, <1>3 DEF WalkInv
<1>5. PICK r \in Nat : r = b + d - 1
  BY <1>2, <1>3
<1>6. PICK n \in Nat, years \in Nat : n = days /\ years = n \div 365
  <2>1. days \in Nat
    BY <1>2, <1>3, <1>4
  <2>2. days \div 365 \in Nat
    BY <2>1
  <2> QED
    BY <2>1, <2>2
<1>7. n = DaysBefore(y) + r
  BY <1>2, <1>3, <1>4, <1>5, <1>6
<1>8. r < YearDays(y)
  <2>1. DaysAt(y, m) + MonthDays(y)[m] <= YearDays(y)
    <3> DEFINE T == {j \in Nat : j < 12 => DaysAt(y, 12 - j) + MonthDays(y)[12 - j] <= YearDays(y)}
    <3>1. 0 \in T
      <4>1. YearDays(y) = DaysAt(y, 12) + MonthDays(y)[12] /\ YearDays(y) \in {365, 366}
        BY Months
      <4> QED
        BY <4>1
    <3>2. ASSUME NEW j \in T
          PROVE  j + 1 \in T
      <4>1. SUFFICES ASSUME j + 1 < 12
                     PROVE  DaysAt(y, 12 - (j + 1)) + MonthDays(y)[12 - (j + 1)] <= YearDays(y)
        OBVIOUS
      <4>2. PICK k \in 1..12, z \in 1..12 : k = 12 - (j + 1) /\ z = k + 1
        BY <4>1
      <4>3. k < 12 /\ z = 12 - j
        BY <4>1, <4>2
      <4>4. /\ DaysAt(y, z) = DaysAt(y, k) + MonthDays(y)[k] /\ MonthDays(y)[k] \in 28..31
            /\ DaysAt(y, k) \in Nat
        BY <4>2, <4>3, Months
      <4>5. MonthDays(y)[z] \in 28..31 /\ YearDays(y) \in {365, 366}
        BY Months
      <4>6. DaysAt(y, z) + MonthDays(y)[z] <= YearDays(y)
        BY <4>1, <4>3
      <4> QED
        BY <4>2, <4>4, <4>5, <4>6
    <3> HIDE DEF T
    <3>3. T = Nat
      <4>1. T \in SUBSET Nat
        BY DEF T
      <4> QED
        BY <3>1, <3>2, <4>1, NatInd
    <3>4. PICK j \in Nat : j = 12 - m
      OBVIOUS
    <3>5. j < 12 /\ 12 - j = m
      BY <3>4
    <3>6. j \in T
      BY <3>3
    <3>7. j < 12 => DaysAt(y, 12 - j) + MonthDays(y)[12 - j] <= YearDays(y)
      BY <3>6 DEF T
    <3> QED
      BY <3>5, <3>7
  <2>2. YearDays(y) \in {365, 366}
    BY Months
  <2> QED
    BY <1>2, <1>3, <1>5, <2>1, <2>2
<1>9. PICK f : Stamped(n, years, f)
  BY <1>6, StampRounds
<1>10. f[years] = [year |-> y, mon |-> 0, left |-> r]
  <2>1. YearOf(n, years, y, r)
    BY <1>6, <1>7, <1>8 DEF YearOf
  <2>2. LoopAt(f[years], y, 0, r)
    BY <1>9, <2>1, YearsFound
  <2> QED
    BY <2>2 DEF LoopAt
<1>11. f[years + 12] = [year |-> y, mon |-> m - 1, left |-> d - 1]
  <2>1. MonthOf(r, y, m, d)
    BY <1>1, <1>2, <1>3, <1>5 DEF MonthOf
  <2>2. LoopAt(f[years], y, 0, r)
    BY <1>10 DEF LoopAt
  <2>3. LoopAt(f[years + 12], y, m - 1, d - 1)
    BY <1>9, <2>1, <2>2, MonthsFound
  <2> QED
    BY <2>3 DEF LoopAt
<1>12. PICK x : x = f[years + 12]
  OBVIOUS
<1>13. x.year = y /\ x.mon + 1 = m /\ x.left + 1 = d
  BY <1>2, <1>11, <1>12
<1>14. fml_stamp_to_time(n) = [year |-> x.year, mon |-> x.mon + 1, mday |-> x.left + 1]
  BY <1>9, <1>12 DEF Stamped
<1> QED
  BY <1>2, <1>6, <1>13, <1>14

-----------------------------------------------------------------------------
(* ClocksAgree of Clock: whatever the registers do while time_read_bcd       *)
(* reads them, what it returns is the time of one instant; and both           *)
(* calendars of time.c are right until 2038, but for the known year.         *)
THEOREM ClocksAlwaysAgree == ClockSpec => []ClocksAgree
<1> DEFINE I == ReadInv /\ WalkInv
<1>1. ClockInit => I
  BY ReadInitInv, WalkInitInv DEF ClockInit
<1>2. I /\ [ClockNext]_clockvars => I'
  <2> SUFFICES ASSUME I, [ClockNext]_clockvars PROVE I'
    OBVIOUS
  <2>1. UNCHANGED readvars => ReadInv'
    BY DEF readvars, ReadInv
  <2>2. UNCHANGED walkvars => WalkInv'
    BY DEF walkvars, WalkInv
  <2>3. ReadClock => ReadInv'
    BY SecondKeeps, CmosReadKeeps, ReadAgainKeeps DEF ReadClock
  <2>4. Walk => WalkInv'
    BY <2>2, NextDayKeeps DEF Walk, EndOfYear
  <2> QED
    BY <2>1, <2>2, <2>3, <2>4 DEF ClockNext, clockvars
<1>3. I => ClocksAgree
  BY ReadInvImplies, MktimeIs, StampIs DEF ClocksAgree
<1> HIDE DEF I
<1> QED
  BY <1>1, <1>2, <1>3, PTL DEF ClockSpec
=============================================================================
