---------------------------- MODULE SchedulerProofs ----------------------------
(****************************************************************************)
(* What the operators of Scheduler do to the ready list and the sleep list, *)
(* for any number of tasks.  First the list operations as facts about the   *)
(* set of the elements of a list, then one lemma per scheduler function.    *)
(****************************************************************************)
EXTENDS Scheduler, SequenceTheorems, FiniteSetTheorems, TLAPS

(* list_insert_last adds one element, which is not repeated if it is new. *)
LEMMA AppendList ==
  ASSUME NEW S, NEW s \in Seq(S), NEW x \in S
  PROVE  /\ Append(s, x) \in Seq(S)
         /\ ToSet(Append(s, x)) = ToSet(s) \cup {x}
         /\ NoRepeat(s) /\ x \notin ToSet(s) => NoRepeat(Append(s, x))
<1> DEFINE a == Append(s, x)
<1>1. /\ a \in Seq(S) /\ Len(s) \in Nat
      /\ DOMAIN s = 1..Len(s) /\ DOMAIN a = 1..(Len(s) + 1)
      /\ \A i \in 1..Len(s) : a[i] = s[i]
      /\ a[Len(s) + 1] = x
  BY AppendProperties, LenProperties
<1> HIDE DEF a
<1>2. ToSet(a) = ToSet(s) \cup {x}
  BY <1>1 DEF ToSet
<1>3. ASSUME NoRepeat(s), x \notin ToSet(s)
      PROVE  NoRepeat(a)
  BY <1>1, <1>3 DEF NoRepeat, ToSet
<1> QED
  BY <1>1, <1>2, <1>3 DEF a

(* list_remove_first removes one element. *)
LEMMA TailList ==
  ASSUME NEW S, NEW s \in Seq(S), s # <<>>, NoRepeat(s)
  PROVE  /\ Tail(s) \in Seq(S) /\ NoRepeat(Tail(s))
         /\ Head(s) \in ToSet(s) /\ Head(s) \in S
         /\ ToSet(Tail(s)) = ToSet(s) \ {Head(s)}
<1> DEFINE u == Tail(s)
           h == Head(s)
<1>1. /\ u \in Seq(S) /\ Len(s) \in Nat /\ Len(s) > 0 /\ h \in S
      /\ DOMAIN s = 1..Len(s) /\ DOMAIN u = 1..(Len(s) - 1)
      /\ \A i \in 1..(Len(s) - 1) : u[i] = s[i + 1]
      /\ h = s[1]
  BY HeadTailProperties, LenProperties, EmptySeq
<1> HIDE DEF u, h
<1>2. NoRepeat(u)
  <2> SUFFICES ASSUME NEW i \in 1..(Len(s) - 1), NEW j \in 1..(Len(s) - 1),
                      u[i] = u[j]
               PROVE  i = j
    BY <1>1 DEF NoRepeat
  <2>1. i + 1 \in 1..Len(s) /\ j + 1 \in 1..Len(s) /\ s[i + 1] = s[j + 1]
    BY <1>1
  <2>2. i + 1 = j + 1
    BY <2>1, <1>1 DEF NoRepeat
  <2> QED
    BY <2>2, <1>1
<1>3. ToSet(u) \subseteq ToSet(s) \ {h}
  <2> SUFFICES ASSUME NEW i \in 1..(Len(s) - 1)
               PROVE  u[i] \in ToSet(s) \ {h}
    BY <1>1 DEF ToSet
  <2>1. i + 1 \in 1..Len(s) /\ i + 1 # 1 /\ u[i] = s[i + 1]
    BY <1>1
  <2>2. s[i + 1] # s[1]
    BY <2>1, <1>1 DEF NoRepeat
  <2> QED
    BY <1>1, <2>1, <2>2 DEF ToSet
<1>4. ToSet(s) \ {h} \subseteq ToSet(u)
  <2> SUFFICES ASSUME NEW i \in 1..Len(s), s[i] # h
               PROVE  s[i] \in ToSet(u)
    BY <1>1 DEF ToSet
  <2>1. i - 1 \in 1..(Len(s) - 1) /\ (i - 1) + 1 = i
    BY <1>1
  <2>2. u[i - 1] = s[i]
    BY <2>1, <1>1
  <2> QED
    BY <2>1, <2>2, <1>1 DEF ToSet
<1>5. h \in ToSet(s)
  BY <1>1 DEF ToSet
<1> QED
  BY <1>1, <1>2, <1>3, <1>4, <1>5 DEF u, h

(* list_remove of a node that is in the list removes that node only. *)
LEMMA WithoutList ==
  ASSUME NEW S, NEW s \in Seq(S), NEW x \in ToSet(s), NoRepeat(s)
  PROVE  /\ Without(s, x) \in Seq(S) /\ NoRepeat(Without(s, x))
         /\ ToSet(Without(s, x)) = ToSet(s) \ {x}
<1>1. /\ Len(s) \in Nat /\ DOMAIN s = 1..Len(s)
      /\ \A i \in 1..Len(s) : s[i] \in S
  BY LenProperties, ElementOfSeq
<1> DEFINE p == CHOOSE i \in DOMAIN s : s[i] = x
           a == SubSeq(s, 1, p - 1)
           b == SubSeq(s, p + 1, Len(s))
           w == a \o b
<1>2. p \in 1..Len(s) /\ s[p] = x
  BY <1>1 DEF ToSet
<1>3. Without(s, x) = w
  BY DEF Without, RemoveAt
<1> HIDE DEF p
<1>4. /\ a \in Seq(S) /\ Len(a) = p - 1
      /\ \A i \in 1..(p - 1) : a[i] = s[i]
  BY <1>1, <1>2, SubSeqProperties
<1>5. /\ b \in Seq(S) /\ Len(b) = Len(s) - p
      /\ \A i \in 1..(Len(s) - p) : b[i] = s[p + i]
  <2>1. /\ p + 1 \in Int /\ Len(s) \in Int
        /\ \A i \in (p + 1)..Len(s) : s[i] \in S
    BY <1>1, <1>2
  <2>2. /\ b \in Seq(S)
        /\ Len(b) = IF p + 1 <= Len(s) THEN Len(s) - (p + 1) + 1 ELSE 0
        /\ \A i \in 1..(Len(s) - (p + 1) + 1) : b[i] = s[(p + 1) + i - 1]
    BY <2>1, SubSeqProperties
  <2> HIDE DEF b
  <2>3. \A i \in 1..(Len(s) - p) : (p + 1) + i - 1 = p + i
    BY <1>1, <1>2
  <2>4. Len(s) - (p + 1) + 1 = Len(s) - p
    BY <1>1, <1>2
  <2>5. \A i \in 1..(Len(s) - p) : b[i] = s[p + i]
    BY <2>2, <2>3, <2>4
  <2>6. Len(b) = Len(s) - p
    <3>1. CASE p + 1 <= Len(s)
      BY <3>1, <2>2, <2>4
    <3>2. CASE p = Len(s)
      BY <3>2, <2>2, <1>1
    <3>3. p + 1 <= Len(s) \/ p = Len(s)
      <4>1. PICK n \in Nat : n = Len(s)
        BY <1>1
      <4>2. p \in 1..n
        BY <4>1, <1>2
      <4>3. p + 1 <= n \/ p = n
        BY <4>2
      <4> QED
        BY <4>1, <4>3
    <3> QED
      BY <3>1, <3>2, <3>3
  <2> QED
    BY <2>2, <2>5, <2>6
<1> HIDE DEF a, b
<1>6. /\ w \in Seq(S) /\ Len(w) = Len(s) - 1 /\ DOMAIN w = 1..(Len(s) - 1)
      /\ \A i \in 1..(Len(s) - 1) :
           w[i] = IF i <= p - 1 THEN s[i] ELSE s[i + 1]
  <2>1. /\ w \in Seq(S) /\ Len(w) = Len(s) - 1
        /\ \A i \in 1..(Len(s) - 1) :
             w[i] = IF i <= p - 1 THEN a[i] ELSE b[i - (p - 1)]
    <3>1. /\ w \in Seq(S) /\ Len(w) = Len(a) + Len(b)
          /\ \A i \in 1..(Len(a) + Len(b)) :
               w[i] = IF i <= Len(a) THEN a[i] ELSE b[i - Len(a)]
      BY <1>4, <1>5, ConcatProperties
    <3>2. Len(a) + Len(b) = Len(s) - 1
      BY <1>1, <1>2, <1>4, <1>5
    <3> QED
      BY <3>1, <3>2, <1>4
  <2>2. ASSUME NEW i \in 1..(Len(s) - 1)
        PROVE  w[i] = IF i <= p - 1 THEN s[i] ELSE s[i + 1]
    BY <1>1, <1>2, <1>4, <1>5, <2>1
  <2>3. DOMAIN w = 1..Len(w)
    BY <2>1, LenProperties
  <2> QED
    BY <2>1, <2>2, <2>3
<1> HIDE DEF w
<1>7. NoRepeat(w)
  BY <1>1, <1>2, <1>6 DEF NoRepeat
<1>8. ToSet(w) \subseteq ToSet(s) \ {x}
  <2> SUFFICES ASSUME NEW i \in 1..(Len(s) - 1)
               PROVE  w[i] \in ToSet(s) \ {x}
    BY <1>6 DEF ToSet
  <2>1. PICK j \in 1..Len(s) : w[i] = s[j] /\ j # p
    BY <1>1, <1>2, <1>6
  <2>2. s[j] # s[p]
    BY <2>1, <1>1, <1>2 DEF NoRepeat
  <2> QED
    BY <2>1, <2>2, <1>1, <1>2 DEF ToSet
<1>9. ToSet(s) \ {x} \subseteq ToSet(w)
  <2> SUFFICES ASSUME NEW i \in 1..Len(s), i # p
               PROVE  s[i] \in ToSet(w)
    BY <1>1, <1>2 DEF ToSet
  <2>1. CASE i < p
    BY <2>1, <1>1, <1>2, <1>6 DEF ToSet
  <2>2. CASE i > p
    <3>1. i - 1 \in 1..(Len(s) - 1) /\ ~ (i - 1 <= p - 1) /\ (i - 1) + 1 = i
      BY <2>2, <1>1, <1>2
    <3>2. w[i - 1] = s[i]
      BY <3>1, <1>6
    <3> QED
      BY <3>1, <3>2, <1>6 DEF ToSet
  <2> QED
    BY <2>1, <2>2, <1>2
<1> QED
  BY <1>3, <1>6, <1>7, <1>8, <1>9

(* Two lists with no common element, joined. *)
LEMMA ConcatList ==
  ASSUME NEW S, NEW s \in Seq(S), NEW u \in Seq(S)
  PROVE  /\ s \o u \in Seq(S)
         /\ ToSet(s \o u) = ToSet(s) \cup ToSet(u)
         /\ NoRepeat(s) /\ NoRepeat(u) /\ ToSet(s) \cap ToSet(u) = {}
              => NoRepeat(s \o u)
<1> DEFINE c == s \o u
<1>1. /\ c \in Seq(S) /\ Len(s) \in Nat /\ Len(u) \in Nat
      /\ DOMAIN s = 1..Len(s) /\ DOMAIN u = 1..Len(u)
      /\ DOMAIN c = 1..(Len(s) + Len(u))
      /\ \A i \in 1..(Len(s) + Len(u)) :
           c[i] = IF i <= Len(s) THEN s[i] ELSE u[i - Len(s)]
  BY ConcatProperties, LenProperties
<1> HIDE DEF c
<1>2. ToSet(c) \subseteq ToSet(s) \cup ToSet(u)
  <2> SUFFICES ASSUME NEW i \in 1..(Len(s) + Len(u))
               PROVE  c[i] \in ToSet(s) \cup ToSet(u)
    BY <1>1 DEF ToSet
  <2>1. CASE i <= Len(s)
    <3>1. i \in 1..Len(s)
      BY <2>1, <1>1
    <3>2. c[i] = s[i]
      BY <2>1, <1>1
    <3> QED
      BY <3>1, <3>2, <1>1 DEF ToSet
  <2>2. CASE i > Len(s)
    <3>1. i - Len(s) \in 1..Len(u) /\ c[i] = u[i - Len(s)]
      <4>1. i \in Nat /\ Len(s) \in Nat /\ Len(u) \in Nat /\ ~ (i <= Len(s))
        BY <2>2, <1>1
      <4>2. i - Len(s) \in 1..Len(u)
        BY <4>1
      <4> QED
        BY <1>1, <4>1, <4>2
    <3> QED
      BY <3>1, <1>1 DEF ToSet
  <2> QED
    BY <2>1, <2>2, <1>1
<1>3. ToSet(s) \subseteq ToSet(c)
  BY <1>1 DEF ToSet
<1>4. ToSet(u) \subseteq ToSet(c)
  <2> SUFFICES ASSUME NEW i \in 1..Len(u)
               PROVE  u[i] \in ToSet(c)
    BY <1>1 DEF ToSet
  <2>1. /\ Len(s) + i \in 1..(Len(s) + Len(u))
        /\ ~ (Len(s) + i <= Len(s)) /\ (Len(s) + i) - Len(s) = i
    BY <1>1
  <2>2. c[Len(s) + i] = u[i]
    BY <2>1, <1>1
  <2> QED
    BY <2>1, <2>2, <1>1 DEF ToSet
<1>5. ASSUME NoRepeat(s), NoRepeat(u), ToSet(s) \cap ToSet(u) = {}
      PROVE  NoRepeat(c)
  <2> SUFFICES ASSUME NEW i \in 1..(Len(s) + Len(u)),
                      NEW j \in 1..(Len(s) + Len(u)),
                      c[i] = c[j], i < j
               PROVE  FALSE
    BY <1>1 DEF NoRepeat
  <2>1. CASE j <= Len(s)
    BY <2>1, <1>1, <1>5 DEF NoRepeat
  <2>2. CASE i <= Len(s) /\ j > Len(s)
    <3>1. j - Len(s) \in 1..Len(u) /\ c[j] = u[j - Len(s)] /\ c[i] = s[i]
          /\ i \in 1..Len(s)
      BY <2>2, <1>1
    <3>2. c[j] \in ToSet(u) /\ c[i] \in ToSet(s)
      BY <3>1, <1>1 DEF ToSet
    <3> QED
      BY <3>2, <1>5
  <2>3. CASE i > Len(s)
    <3>1. /\ i - Len(s) \in 1..Len(u) /\ c[i] = u[i - Len(s)]
          /\ j - Len(s) \in 1..Len(u) /\ c[j] = u[j - Len(s)]
          /\ i - Len(s) # j - Len(s)
      BY <2>3, <1>1
    <3> QED
      BY <3>1, <1>1, <1>5 DEF NoRepeat
  <2> QED
    BY <2>1, <2>2, <2>3, <1>1
<1> QED
  BY <1>1, <1>2, <1>3, <1>4, <1>5 DEF c

(* A listing of a finite set in some order has exactly its elements. *)
LEMMA InOrderList ==
  ASSUME NEW S, IsFiniteSet(S), NEW s, NEW q \in InOrder(S, s)
  PROVE  q \in Seq(S) /\ NoRepeat(q) /\ ToSet(q) = S
<1> DEFINE n == Cardinality(S)
<1>1. n \in Nat
  BY FS_CardinalityType
<1>2. /\ q \in [1..n -> S]
      /\ \A i, j \in 1..n : i # j => q[i] # q[j]
  BY DEF InOrder, SetToSeqs
<1>3. q \in Seq(S) /\ NoRepeat(q)
  BY <1>1, <1>2 DEF NoRepeat
<1>4. q \in Injection(1..n, S)
  BY <1>2 DEF Injection, IsInjective
<1>5. Cardinality(1..n) = n
  BY <1>1, FS_Interval
<1>6. q \in Surjection(1..n, S)
  BY <1>1, <1>4, <1>5, FS_Injection
<1>7. ToSet(q) = S
  BY <1>2, <1>6 DEF Surjection, ToSet
<1> QED
  BY <1>3, <1>7

-----------------------------------------------------------------------------
(* A well-formed scheduler record: a task is once in one list at most.      *)
WellFormed(k) ==
  /\ k \in Scheduling
  /\ NoRepeat(k.ready) /\ NoRepeat(k.asleep)
  /\ ToSet(k.ready) \cap ToSet(k.asleep) = {}

Listed(k) == ToSet(k.ready) \cup ToSet(k.asleep)

(* The elements of the lists are tasks. *)
LEMMA ListedAreTasks ==
  ASSUME NEW S, NEW s \in Seq(S)
  PROVE  ToSet(s) \subseteq S /\ IsFiniteSet(ToSet(s))
<1>1. Len(s) \in Nat /\ DOMAIN s = 1..Len(s) /\ \A i \in 1..Len(s) : s[i] \in S
  BY LenProperties, ElementOfSeq
<1>2. ToSet(s) \subseteq S
  BY <1>1 DEF ToSet
<1>3. IsFiniteSet(1..Len(s))
  BY <1>1, FS_Interval
<1>4. s \in Surjection(1..Len(s), ToSet(s))
  BY <1>1, LenProperties DEF Surjection, ToSet
<1>5. IsFiniteSet(ToSet(s))
  BY <1>3, <1>4, FS_Surjection
<1> QED
  BY <1>2, <1>5

(* task_set_ready of a task that is in no list. *)
LEMMA SetReadyEffect ==
  ASSUME NEW k, WellFormed(k), NEW t \in Task, t \notin Listed(k)
  PROVE  LET n == task_set_ready(k, t)
         IN /\ WellFormed(n)
            /\ n.curr = k.curr
            /\ n.ready = Append(k.ready, t)
            /\ ToSet(n.ready) = ToSet(k.ready) \cup {t}
            /\ n.asleep = k.asleep /\ n.slice = k.slice
            /\ n.sleepTicks = k.sleepTicks
            /\ n.state = [k.state EXCEPT ![t] = "READY"]
<1> DEFINE r == Append(k.ready, t)
           n == [k EXCEPT !.ready = r, !.state[t] = "READY"]
<1>1. task_set_ready(k, t) = n
  BY SchedulerAssumption DEF task_set_ready
<1>2. r \in Seq(Task) /\ ToSet(r) = ToSet(k.ready) \cup {t} /\ NoRepeat(r)
  BY AppendList DEF WellFormed, Scheduling, Listed
<1> HIDE DEF r
<1>3. /\ n \in Scheduling /\ n.curr = k.curr /\ n.ready = r
      /\ n.asleep = k.asleep /\ n.slice = k.slice
      /\ n.sleepTicks = k.sleepTicks
      /\ n.state = [k.state EXCEPT ![t] = "READY"]
  BY <1>2 DEF WellFormed, Scheduling, TaskState
<1> HIDE DEF n
<1>4. WellFormed(n)
  BY <1>2, <1>3 DEF WellFormed, Listed
<1> QED
  BY <1>1, <1>2, <1>3, <1>4 DEF r

(* task_set_block of a task that is in the ready list. *)
LEMMA SetBlockEffect ==
  ASSUME NEW k, WellFormed(k), NEW t \in ToSet(k.ready)
  PROVE  LET n == task_set_block(k, t)
         IN /\ WellFormed(n)
            /\ n.curr = k.curr
            /\ ToSet(n.ready) = ToSet(k.ready) \ {t}
            /\ n.asleep = k.asleep /\ n.slice = k.slice
            /\ n.sleepTicks = k.sleepTicks /\ n.state = k.state
<1> DEFINE r == Without(k.ready, t)
           n == [k EXCEPT !.ready = r]
<1>1. t \in Task
  BY ListedAreTasks DEF WellFormed, Scheduling
<1>2. task_set_block(k, t) = n
  BY <1>1, SchedulerAssumption DEF task_set_block
<1>3. r \in Seq(Task) /\ ToSet(r) = ToSet(k.ready) \ {t} /\ NoRepeat(r)
  BY WithoutList DEF WellFormed, Scheduling
<1> HIDE DEF r
<1>4. /\ n \in Scheduling /\ n.curr = k.curr /\ n.ready = r
      /\ n.asleep = k.asleep /\ n.slice = k.slice
      /\ n.sleepTicks = k.sleepTicks /\ n.state = k.state
  BY <1>3 DEF WellFormed, Scheduling
<1> HIDE DEF n
<1>5. WellFormed(n)
  BY <1>3, <1>4 DEF WellFormed
<1> QED
  BY <1>2, <1>3, <1>4, <1>5

(* task_set_sleep, for at least one tick, of a task that is in no list. *)
LEMMA SetSleepEffect ==
  ASSUME NEW k, WellFormed(k), NEW t \in Task, t \notin Listed(k),
         NEW d \in Nat \ {0}
  PROVE  LET n == task_set_sleep(k, t, d)
         IN /\ WellFormed(n)
            /\ n.curr = k.curr /\ n.ready = k.ready /\ n.slice = k.slice
            /\ ToSet(n.asleep) = ToSet(k.asleep) \cup {t}
            /\ n.sleepTicks = [k.sleepTicks EXCEPT ![t] = d]
            /\ n.state = [k.state EXCEPT ![t] = "SLEEP"]
<1> DEFINE a == Append(k.asleep, t)
           n == [k EXCEPT !.sleepTicks[t] = d, !.state[t] = "SLEEP",
                          !.asleep = a]
<1>1. task_set_sleep(k, t, d) = n
  <2>1. ~ (d <= 0)
    OBVIOUS
  <2> QED
    BY <2>1 DEF task_set_sleep
<1>2. a \in Seq(Task) /\ ToSet(a) = ToSet(k.asleep) \cup {t} /\ NoRepeat(a)
  BY AppendList DEF WellFormed, Scheduling, Listed
<1> HIDE DEF a
<1>3. /\ n \in Scheduling /\ n.curr = k.curr /\ n.ready = k.ready
      /\ n.asleep = a /\ n.slice = k.slice
      /\ n.sleepTicks = [k.sleepTicks EXCEPT ![t] = d]
      /\ n.state = [k.state EXCEPT ![t] = "SLEEP"]
  BY <1>2 DEF WellFormed, Scheduling, TaskState
<1> HIDE DEF n
<1>4. WellFormed(n)
  BY <1>2, <1>3 DEF WellFormed, Listed
<1> QED
  BY <1>1, <1>2, <1>3, <1>4

(* task_dispatch chooses the head of the ready list, and moves nothing. *)
LEMMA DispatchEffect ==
  ASSUME NEW k, WellFormed(k)
  PROVE  LET n == task_dispatch(k)
         IN /\ WellFormed(n)
            /\ n.curr = task_next_run(k) /\ n.curr = task_next_run(n)
            /\ n.ready = k.ready /\ n.asleep = k.asleep /\ n.slice = k.slice
            /\ n.sleepTicks = k.sleepTicks
            /\ n.curr \in ToSet(k.ready) \cup {Idle}
            /\ \/ n.state = k.state
               \/ n.state = [k.state EXCEPT ![n.curr] = "RUNNING"]
<1> DEFINE to == task_next_run(k)
           n == [k EXCEPT !.curr = to, !.state[to] = "RUNNING"]
<1>1. to \in ToSet(k.ready) \cup {Idle}
  BY TailList DEF task_next_run, WellFormed, Scheduling
<1>2. to \in Task \cup {Idle}
  BY <1>1, ListedAreTasks DEF WellFormed, Scheduling
<1>3. task_dispatch(k) = IF to = k.curr THEN k ELSE n
  BY DEF task_dispatch
<1> HIDE DEF to
<1>4. /\ n \in Scheduling /\ n.curr = to /\ n.ready = k.ready
      /\ n.asleep = k.asleep /\ n.slice = k.slice
      /\ n.sleepTicks = k.sleepTicks
      /\ n.state = [k.state EXCEPT ![to] = "RUNNING"]
  BY <1>2 DEF WellFormed, Scheduling, TaskState
<1> HIDE DEF n
<1>5. WellFormed(n)
  BY <1>4 DEF WellFormed
<1>6. task_next_run(n) = to
  BY <1>4 DEF task_next_run, to
<1>7. CASE to = k.curr
  BY <1>1, <1>3, <1>7 DEF to
<1>8. CASE to # k.curr
  BY <1>1, <1>3, <1>4, <1>5, <1>6, <1>8 DEF to
<1> QED
  BY <1>7, <1>8

SliceInRange(k) == \A t \in Task \cup {Idle} : k.slice[t] \in 1..TimeSlice

(* The slice of the running task: at its end the task changes its place in  *)
(* the ready list, and no list gains or loses a task.                       *)
LEMMA SliceTickEffect ==
  ASSUME NEW k, WellFormed(k), k.slice[k.curr] \in 1..TimeSlice,
         k.curr \in ToSet(k.ready) \cup {Idle}
  PROVE  LET n == SliceTick(k)
         IN /\ WellFormed(n)
            /\ n.slice[k.curr] \in 1..TimeSlice
            /\ \A t \in (Task \cup {Idle}) \ {k.curr} : n.slice[t] = k.slice[t]
            /\ n.curr = k.curr
            /\ ToSet(n.ready) = ToSet(k.ready)
            /\ n.asleep = k.asleep
            /\ n.sleepTicks = k.sleepTicks
            /\ \/ n.state = k.state
               \/ /\ k.curr \in ToSet(k.ready)
                  /\ n.state = [k.state EXCEPT ![k.curr] = "READY"]
<1> DEFINE c == k.curr
           left == k.slice[c] - 1
           dec == [k EXCEPT !.slice[c] = left]
           full == [k EXCEPT !.slice[c] = TimeSlice]
           n == SliceTick(k)
           Counted(m) ==
             /\ m.slice[c] \in 1..TimeSlice
             /\ \A t \in (Task \cup {Idle}) \ {c} : m.slice[t] = k.slice[t]
<1>1. /\ c \in Task \cup {Idle} /\ k.slice \in [Task \cup {Idle} -> Nat]
      /\ k.slice[c] \in 1..TimeSlice /\ TimeSlice \in Nat \ {0}
      /\ k \in Scheduling
  BY SchedulerAssumption DEF WellFormed, Scheduling
<1>2. n = IF left # 0 THEN dec
          ELSE task_set_ready(task_set_block(full, c), c)
  BY DEF SliceTick
<1>3. CASE left # 0
  <2>1. left \in 1..TimeSlice /\ left \in Nat
    BY <1>1, <1>3
  <2> HIDE DEF left
  <2>2. /\ dec \in Scheduling /\ dec.curr = c /\ dec.ready = k.ready
        /\ dec.asleep = k.asleep /\ dec.sleepTicks = k.sleepTicks
        /\ dec.state = k.state
        /\ dec.slice = [k.slice EXCEPT ![c] = left]
    BY <1>1, <2>1 DEF Scheduling
  <2> HIDE DEF dec
  <2>3. Counted(dec)
    BY <1>1, <2>1, <2>2
  <2>4. WellFormed(dec)
    BY <2>2 DEF WellFormed
  <2> QED
    BY <1>2, <1>3, <2>2, <2>3, <2>4
<1>4. CASE left = 0
  <2>1. /\ full \in Scheduling /\ full.curr = c /\ full.ready = k.ready
        /\ full.asleep = k.asleep /\ full.sleepTicks = k.sleepTicks
        /\ full.state = k.state
        /\ full.slice = [k.slice EXCEPT ![c] = TimeSlice]
    BY <1>1 DEF Scheduling
  <2> HIDE DEF full
  <2>2. WellFormed(full)
    BY <2>1 DEF WellFormed
  <2>3. Counted(full)
    BY <1>1, <2>1
  <2>4. CASE c = Idle
    <3>1. n = full
      BY <1>2, <1>4, <2>4 DEF task_set_ready, task_set_block
    <3> QED
      BY <3>1, <2>1, <2>2, <2>3
  <2>5. CASE c \in ToSet(k.ready)
    <3> DEFINE b == task_set_block(full, c)
    <3>1. /\ WellFormed(b) /\ b.curr = c
          /\ ToSet(b.ready) = ToSet(k.ready) \ {c}
          /\ b.asleep = k.asleep /\ b.slice = full.slice
          /\ b.sleepTicks = k.sleepTicks /\ b.state = k.state
      BY <2>1, <2>2, <2>5, SetBlockEffect
    <3> HIDE DEF b
    <3>2. c \in Task /\ c \notin Listed(b)
      BY <1>1, <2>5, <3>1, ListedAreTasks
      DEF WellFormed, Scheduling, Listed
    <3>3. LET r == task_set_ready(b, c)
          IN /\ WellFormed(r)
             /\ r.curr = b.curr
             /\ ToSet(r.ready) = ToSet(b.ready) \cup {c}
             /\ r.asleep = b.asleep /\ r.slice = b.slice
             /\ r.sleepTicks = b.sleepTicks
             /\ r.state = [b.state EXCEPT ![c] = "READY"]
      BY <3>1, <3>2, SetReadyEffect
    <3>4. n = task_set_ready(b, c)
      BY <1>2, <1>4 DEF b
    <3>5. Counted(n)
      BY <2>3, <3>1, <3>3, <3>4
    <3> QED
      BY <2>5, <3>1, <3>3, <3>4, <3>5
  <2> QED
    BY <2>4, <2>5
<1> QED
  BY <1>3, <1>4

SleepersPositive(k) == \A t \in ToSet(k.asleep) : k.sleepTicks[t] \in 1..MaxSleep

(* The pass over the sleep list: the sleepers whose time has come, and only *)
(* they, go from one list to the other, and the time of the others is left  *)
(* positive.                                                                *)
LEMMA SleepScanEffect ==
  ASSUME NEW k, WellFormed(k), SleepersPositive(k), NEW n \in SleepScan(k)
  PROVE  /\ WellFormed(n) /\ SleepersPositive(n)
         /\ n.curr = k.curr /\ n.slice = k.slice
         /\ ToSet(n.ready) = ToSet(k.ready) \cup Due(k)
         /\ ToSet(n.asleep) = ToSet(k.asleep) \ Due(k)
         /\ n.state = [t \in Task \cup {Idle} |->
                         IF t \in Due(k) THEN "READY" ELSE k.state[t]]
<1> DEFINE D == Due(k)
           A == ToSet(k.asleep)
<1>1. /\ k.asleep \in Seq(Task) /\ k.ready \in Seq(Task)
      /\ A \subseteq Task /\ IsFiniteSet(A)
      /\ D \subseteq A /\ IsFiniteSet(D) /\ IsFiniteSet(A \ D)
  <2>1. k.asleep \in Seq(Task) /\ k.ready \in Seq(Task)
    BY DEF WellFormed, Scheduling
  <2>2. A \subseteq Task /\ IsFiniteSet(A) /\ D \subseteq A
    BY <2>1, ListedAreTasks DEF Due
  <2> QED
    BY <2>1, <2>2, FS_Subset
<1>2. PICK woken \in InOrder(D, k.asleep), kept \in InOrder(A \ D, k.asleep) :
        n = AfterScan(k, woken, kept)
  BY DEF SleepScan
<1>3. woken \in Seq(D) /\ NoRepeat(woken) /\ ToSet(woken) = D
  BY <1>1, InOrderList
<1>4. kept \in Seq(A \ D) /\ NoRepeat(kept) /\ ToSet(kept) = A \ D
  BY <1>1, InOrderList
<1>5. woken \in Seq(Task) /\ kept \in Seq(Task)
  BY <1>1, <1>3, <1>4, SeqMonotonic
<1> DEFINE r == k.ready \o woken
           ticks == [t \in Task |->
                       IF t \in A THEN k.sleepTicks[t] - 1 ELSE k.sleepTicks[t]]
           st == [t \in Task \cup {Idle} |->
                    IF t \in D THEN "READY" ELSE k.state[t]]
<1>6. r \in Seq(Task) /\ ToSet(r) = ToSet(k.ready) \cup D /\ NoRepeat(r)
  <2>1. ToSet(k.ready) \cap D = {}
    BY <1>1 DEF WellFormed
  <2> QED
    BY <1>1, <1>3, <1>5, <2>1, ConcatList DEF WellFormed
<1>7. ticks \in [Task -> Nat]
  BY <1>1 DEF WellFormed, Scheduling, SleepersPositive
<1>8. st \in [Task \cup {Idle} -> TaskState]
  BY DEF WellFormed, Scheduling, TaskState
<1>9. n = [k EXCEPT !.sleepTicks = ticks, !.asleep = kept,
                    !.ready = r, !.state = st]
  BY <1>2 DEF AfterScan
<1> HIDE DEF r, ticks, st, D, A
<1>10. /\ n \in Scheduling /\ n.curr = k.curr /\ n.slice = k.slice
       /\ n.ready = r /\ n.asleep = kept /\ n.sleepTicks = ticks
       /\ n.state = st
  BY <1>5, <1>6, <1>7, <1>8, <1>9 DEF WellFormed, Scheduling
<1>11. WellFormed(n)
  BY <1>1, <1>4, <1>6, <1>10 DEF WellFormed, A
<1>12. SleepersPositive(n)
  <2> SUFFICES ASSUME NEW t \in A \ D
               PROVE  ticks[t] \in 1..MaxSleep
    BY <1>4, <1>10 DEF SleepersPositive
  <2>1. ticks[t] = k.sleepTicks[t] - 1
    BY <1>1 DEF ticks
  <2>2. k.sleepTicks[t] \in 1..MaxSleep /\ k.sleepTicks[t] - 1 # 0
    BY DEF SleepersPositive, A, D, Due
  <2> QED
    BY <2>1, <2>2, SchedulerAssumption
<1> QED
  BY <1>4, <1>6, <1>10, <1>11, <1>12 DEF A, D, st

-----------------------------------------------------------------------------
(* The scheduler invariant, for a record k and the set W of the tasks that  *)
(* are started but in neither list (they wait, or the function that runs is *)
(* moving them): the lists are well formed, the counters positive, and the  *)
(* states say where each task is.                                           *)
Sane(k, W) ==
  /\ WellFormed(k) /\ SliceInRange(k) /\ SleepersPositive(k)
  /\ W \cap Listed(k) = {}
  /\ \A t \in Task :
       /\ k.state[t] # "CREATED" <=> t \in Listed(k) \cup W
       /\ k.state[t] = "SLEEP" <=> t \in ToSet(k.asleep)

(* Sane survives task_set_ready of a task in no list.                       *)
LEMMA SetReadySane ==
  ASSUME NEW k, NEW W, Sane(k, W), NEW t \in Task, t \notin Listed(k)
  PROVE  /\ Sane(task_set_ready(k, t), W \ {t})
         /\ Listed(task_set_ready(k, t)) = Listed(k) \cup {t}
<1> DEFINE n == task_set_ready(k, t)
<1>1. /\ WellFormed(n) /\ ToSet(n.ready) = ToSet(k.ready) \cup {t}
      /\ n.asleep = k.asleep /\ n.slice = k.slice
      /\ n.sleepTicks = k.sleepTicks
      /\ n.state = [k.state EXCEPT ![t] = "READY"]
  BY SetReadyEffect DEF Sane
<1> HIDE DEF n
<1>2. k.state \in [Task \cup {Idle} -> TaskState]
  BY DEF Sane, WellFormed, Scheduling
<1>3. Listed(n) = Listed(k) \cup {t}
  BY <1>1 DEF Listed
<1>4. SliceInRange(n) /\ SleepersPositive(n)
  BY <1>1 DEF Sane, SliceInRange, SleepersPositive
<1>5. ASSUME NEW u \in Task
      PROVE  /\ n.state[u] # "CREATED" <=> u \in Listed(n) \cup (W \ {t})
             /\ n.state[u] = "SLEEP" <=> u \in ToSet(n.asleep)
  <2>1. CASE u = t
    BY <1>1, <1>2, <1>3, <2>1 DEF Listed
  <2>2. CASE u # t
    BY <1>1, <1>2, <1>3, <2>2 DEF Sane
  <2> QED
    BY <2>1, <2>2
<1>6. (W \ {t}) \cap Listed(n) = {}
  BY <1>3 DEF Sane
<1> QED
  BY <1>1, <1>3, <1>4, <1>5, <1>6 DEF Sane, n

(* Sane survives task_set_block of a ready task, which is then outside.     *)
LEMMA SetBlockSane ==
  ASSUME NEW k, NEW W, Sane(k, W), NEW t \in ToSet(k.ready)
  PROVE  /\ Sane(task_set_block(k, t), W \cup {t})
         /\ Listed(task_set_block(k, t)) = Listed(k) \ {t}
         /\ t \in Task
<1> DEFINE n == task_set_block(k, t)
<1>1. /\ WellFormed(n) /\ ToSet(n.ready) = ToSet(k.ready) \ {t}
      /\ n.asleep = k.asleep /\ n.slice = k.slice
      /\ n.sleepTicks = k.sleepTicks /\ n.state = k.state
  BY SetBlockEffect DEF Sane
<1> HIDE DEF n
<1>2. t \in Task /\ t \notin ToSet(k.asleep)
  BY ListedAreTasks DEF Sane, WellFormed, Scheduling
<1>3. Listed(n) = Listed(k) \ {t}
  BY <1>1, <1>2 DEF Listed
<1>4. SliceInRange(n) /\ SleepersPositive(n)
  BY <1>1 DEF Sane, SliceInRange, SleepersPositive
<1>5. Listed(n) \cup (W \cup {t}) = Listed(k) \cup W
  BY <1>3 DEF Listed
<1>6. (W \cup {t}) \cap Listed(n) = {}
  BY <1>3 DEF Sane
<1> QED
  BY <1>1, <1>2, <1>3, <1>4, <1>5, <1>6 DEF Sane, n

(* Sane survives task_set_sleep of a task in no list.                       *)
LEMMA SetSleepSane ==
  ASSUME NEW k, NEW W, Sane(k, W), NEW t \in Task, t \notin Listed(k),
         NEW d \in 1..MaxSleep
  PROVE  /\ Sane(task_set_sleep(k, t, d), W \ {t})
         /\ Listed(task_set_sleep(k, t, d)) = Listed(k) \cup {t}
<1> DEFINE n == task_set_sleep(k, t, d)
<1>1. d \in Nat \ {0}
  BY SchedulerAssumption
<1>2. /\ WellFormed(n) /\ ToSet(n.asleep) = ToSet(k.asleep) \cup {t}
      /\ n.ready = k.ready /\ n.slice = k.slice
      /\ n.sleepTicks = [k.sleepTicks EXCEPT ![t] = d]
      /\ n.state = [k.state EXCEPT ![t] = "SLEEP"]
  BY <1>1, SetSleepEffect DEF Sane
<1> HIDE DEF n
<1>3. /\ k.state \in [Task \cup {Idle} -> TaskState]
      /\ k.sleepTicks \in [Task -> Nat]
      /\ ToSet(k.asleep) \subseteq Task
  BY ListedAreTasks DEF Sane, WellFormed, Scheduling
<1>4. Listed(n) = Listed(k) \cup {t}
  BY <1>2 DEF Listed
<1>5. SliceInRange(n)
  BY <1>2 DEF Sane, SliceInRange
<1>6. SleepersPositive(n)
  BY <1>2, <1>3 DEF Sane, SleepersPositive
<1>7. ASSUME NEW u \in Task
      PROVE  /\ n.state[u] # "CREATED" <=> u \in Listed(n) \cup (W \ {t})
             /\ n.state[u] = "SLEEP" <=> u \in ToSet(n.asleep)
  <2>1. CASE u = t
    BY <1>2, <1>3, <1>4, <2>1
  <2>2. CASE u # t
    BY <1>2, <1>3, <1>4, <2>2 DEF Sane
  <2> QED
    BY <2>1, <2>2
<1>8. (W \ {t}) \cap Listed(n) = {}
  BY <1>4 DEF Sane
<1> QED
  BY <1>2, <1>4, <1>5, <1>6, <1>7, <1>8 DEF Sane, n

(* Sane survives task_dispatch, and the first ready task runs.              *)
LEMMA DispatchSane ==
  ASSUME NEW k, NEW W, Sane(k, W)
  PROVE  /\ Sane(task_dispatch(k), W)
         /\ Listed(task_dispatch(k)) = Listed(k)
         /\ task_dispatch(k).curr = task_next_run(task_dispatch(k))
<1> DEFINE n == task_dispatch(k)
<1>1. /\ WellFormed(n) /\ n.curr = task_next_run(n)
      /\ n.ready = k.ready /\ n.asleep = k.asleep /\ n.slice = k.slice
      /\ n.sleepTicks = k.sleepTicks
      /\ n.curr \in ToSet(k.ready) \cup {Idle}
      /\ \/ n.state = k.state
         \/ n.state = [k.state EXCEPT ![n.curr] = "RUNNING"]
  BY DispatchEffect DEF Sane
<1> HIDE DEF n
<1>2. k.state \in [Task \cup {Idle} -> TaskState]
  BY DEF Sane, WellFormed, Scheduling
<1>3. Listed(n) = Listed(k) /\ SliceInRange(n) /\ SleepersPositive(n)
  BY <1>1 DEF Sane, Listed, SliceInRange, SleepersPositive
<1>4. ASSUME NEW u \in Task
      PROVE  /\ n.state[u] # "CREATED" <=> u \in Listed(n) \cup W
             /\ n.state[u] = "SLEEP" <=> u \in ToSet(n.asleep)
  <2>1. CASE n.state[u] = k.state[u]
    BY <1>1, <1>3, <2>1 DEF Sane
  <2>2. CASE n.state[u] = "RUNNING" /\ u = n.curr
    <3>1. u \in ToSet(k.ready)
      BY <1>1, <2>2, SchedulerAssumption
    <3> QED
      BY <1>1, <1>3, <2>2, <3>1 DEF Sane, WellFormed, Listed
  <2> QED
    BY <1>1, <1>2, <2>1, <2>2
<1> QED
  BY <1>1, <1>3, <1>4 DEF Sane, n

(* The whole of task_time_tick but for its last call, task_dispatch.        *)
LEMMA TickSane ==
  ASSUME NEW k, NEW W, Sane(k, W), k.curr \in ToSet(k.ready) \cup {Idle},
         NEW n \in SleepScan(SliceTick(k))
  PROVE  Sane(n, W) /\ Listed(n) = Listed(k)
<1> DEFINE m == SliceTick(k)
<1>0. k.curr \in Task \cup {Idle} /\ k.slice[k.curr] \in 1..TimeSlice
  BY DEF Sane, WellFormed, Scheduling, SliceInRange
<1>1. /\ WellFormed(m) /\ SliceInRange(m)
      /\ ToSet(m.ready) = ToSet(k.ready)
      /\ m.asleep = k.asleep /\ m.sleepTicks = k.sleepTicks
      /\ \/ m.state = k.state
         \/ /\ k.curr \in ToSet(k.ready)
            /\ m.state = [k.state EXCEPT ![k.curr] = "READY"]
  BY <1>0, SliceTickEffect DEF Sane, SliceInRange
<1>2. n \in SleepScan(m)
  OBVIOUS
<1> HIDE DEF m
<1>3. k.state \in [Task \cup {Idle} -> TaskState]
  BY DEF Sane, WellFormed, Scheduling
<1>4. Sane(m, W) /\ Listed(m) = Listed(k)
  <2>1. Listed(m) = Listed(k) /\ SleepersPositive(m)
    BY <1>1 DEF Sane, Listed, SleepersPositive
  <2>2. ASSUME NEW u \in Task
        PROVE  /\ m.state[u] # "CREATED" <=> u \in Listed(m) \cup W
               /\ m.state[u] = "SLEEP" <=> u \in ToSet(m.asleep)
    <3>1. CASE m.state[u] = k.state[u]
      BY <1>1, <2>1, <3>1 DEF Sane
    <3>2. CASE m.state[u] = "READY" /\ u \in ToSet(k.ready)
      BY <1>1, <2>1, <3>2 DEF Sane, WellFormed, Listed
    <3> QED
      BY <1>1, <1>3, <3>1, <3>2
  <2> QED
    BY <1>1, <2>1, <2>2 DEF Sane
<1>5. /\ WellFormed(n) /\ SleepersPositive(n)
      /\ n.slice = m.slice
      /\ ToSet(n.ready) = ToSet(m.ready) \cup Due(m)
      /\ ToSet(n.asleep) = ToSet(m.asleep) \ Due(m)
      /\ n.state = [t \in Task \cup {Idle} |->
                      IF t \in Due(m) THEN "READY" ELSE m.state[t]]
  BY <1>2, <1>4, SleepScanEffect DEF Sane
<1>6. Due(m) \subseteq ToSet(m.asleep)
  BY DEF Due
<1>7. Listed(n) = Listed(m) /\ SliceInRange(n)
  BY <1>4, <1>5, <1>6 DEF Sane, Listed, SliceInRange
<1>8. ASSUME NEW u \in Task
      PROVE  /\ n.state[u] # "CREATED" <=> u \in Listed(n) \cup W
             /\ n.state[u] = "SLEEP" <=> u \in ToSet(n.asleep)
  <2>1. CASE u \in Due(m)
    BY <1>5, <1>6, <1>7, <2>1 DEF Listed
  <2>2. CASE u \notin Due(m)
    BY <1>4, <1>5, <1>7, <2>2 DEF Sane
  <2> QED
    BY <2>1, <2>2
<1> QED
  BY <1>4, <1>5, <1>7, <1>8 DEF Sane
=============================================================================
