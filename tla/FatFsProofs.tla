------------------------------ MODULE FatFsProofs ------------------------------
(****************************************************************************)
(* Theorems about FatFs, for any directory, any table and any cluster size: *)
(* the file system stays consistent (FatFsInv) under the programs of        *)
(* Behaved, and with it each of the four invariants of the run.             *)
(*                                                                          *)
(* The argument, from below:                                                *)
(*   - Nth, ReadLoop and WriteLoop are recursive functions; each is shown   *)
(*     to satisfy its equations, and NatInd then counts along them;         *)
(*   - a chain is a Path: a sequence of distinct clusters that the table    *)
(*     links and that ends outside of Cluster;                              *)
(*   - the clusters that an allocation takes are the free ones in the order *)
(*     of their Rank, and make a path of their own;                         *)
(*   - fatfs_read and fatfs_write are followed round by round through the   *)
(*     work record (Held, Reading, Writing);                                *)
(*   - an operation changes one slot (OneSlot), and the others stay as they *)
(*     are because their clusters are not its own.                          *)
(****************************************************************************)
EXTENDS FatFs, SequenceTheorems, FiniteSetTheorems, WellFoundedInduction, TLAPS

(* A set of natural numbers that is not empty has a smallest element.       *)
LEMMA NatMin ==
  ASSUME NEW S \in SUBSET Nat, S # {}
  PROVE  \E x \in S : \A y \in S : x <= y
<1> DEFINE T == {0..k : k \in S}
<1>1. T \subseteq FiniteSubsetsOf(Nat) /\ T # {}
  <2>1. \A k \in S : 0..k \subseteq Nat /\ IsFiniteSet(0..k)
    BY FS_Interval
  <2> QED
    BY <2>1 DEF FiniteSubsetsOf
<1>2. PICK I \in T : \A J \in T : ~ (<<J, I>> \in StrictSubsetOrdering(Nat))
  <2> HIDE DEF T
  <2> QED
    BY <1>1, WFMin, FS_StrictSubsetOrderingWellFounded
<1>3. PICK x \in S : I = 0..x
  OBVIOUS
<1>4. ASSUME NEW y \in S, y < x
      PROVE  FALSE
  <2>1. 0..y \in T /\ x \in Nat /\ y \in Nat
    OBVIOUS
  <2>2. 0..y \subseteq I /\ x \in I /\ x \notin 0..y
    BY <1>3, <1>4, <2>1
  <2>3. 0..y \in SUBSET Nat /\ I \in SUBSET Nat
    BY <1>3
  <2> HIDE DEF T
  <2> QED
    BY <1>2, <2>1, <2>2, <2>3 DEF StrictSubsetOrdering
<1> QED
  BY <1>4

(* Induction on the natural numbers, over a set in place of a predicate.    *)
LEMMA NatInd ==
  ASSUME NEW S \in SUBSET Nat, 0 \in S, \A k \in S : k + 1 \in S
  PROVE  S = Nat
<1> DEFINE R == Nat \ S
<1>1. SUFFICES ASSUME R # {} PROVE FALSE
  OBVIOUS
<1>2. PICK m \in R : \A y \in R : m <= y
  <2>1. R \in SUBSET Nat
    OBVIOUS
  <2> HIDE DEF R
  <2> QED
    BY <1>1, <2>1, NatMin
<1>3. m \in Nat /\ m # 0 /\ m - 1 \in Nat /\ m = (m - 1) + 1
  OBVIOUS
<1>4. m - 1 \notin R
  BY <1>2, <1>3
<1> QED
  BY <1>3, <1>4

-----------------------------------------------------------------------------
\* What a recursive definition of FatFs repeats: the walk along a chain, or
\* one of the two loops.
Repeated(kind, a, x) ==
  IF kind = "walk" THEN cluster_get_next(a, x)
  ELSE IF kind = "read" THEN ReadRound(x) ELSE WriteRound(x, a)

Run(kind, a, c, n, f) ==
  f = [k \in 0..n |-> IF k = 0 THEN c ELSE Repeated(kind, a, f[k - 1])]

(* The function that such a definition describes exists.                    *)
LEMMA RunExists ==
  ASSUME NEW kind, NEW a, NEW c, NEW n \in Nat
  PROVE  \E f : Run(kind, a, c, n, f)
<1> DEFINE Good == {m \in Nat : \E f : Run(kind, a, c, m, f)}
<1>1. 0 \in Good
  <2> DEFINE f == [k \in 0..0 |-> c]
  <2>1. Run(kind, a, c, 0, f)
    BY DEF Run
  <2> QED
    BY <2>1
<1>2. ASSUME NEW p \in Good
      PROVE  p + 1 \in Good
  <2>1. p \in Nat
    OBVIOUS
  <2>2. PICK m \in Nat : m = p + 1
    OBVIOUS
  <2>3. PICK g : Run(kind, a, c, p, g)
    OBVIOUS
  <2> DEFINE f == [k \in 0..m |-> IF k < m THEN g[k] ELSE Repeated(kind, a, g[p])]
  <2> HIDE DEF Good
  <2>4. g = [k \in 0..p |-> IF k = 0 THEN c ELSE Repeated(kind, a, g[k - 1])]
    BY <2>3 DEF Run
  <2>5. /\ \A k \in 0..p : f[k] = g[k]
        /\ f[m] = Repeated(kind, a, g[p])
        /\ f = [k \in 0..m |-> f[k]]
    BY <2>1, <2>2
  <2>6. \A k \in 0..p : g[k] = IF k = 0 THEN c ELSE Repeated(kind, a, g[k - 1])
    BY <2>4
  <2> HIDE DEF f
  <2>7. \A k \in 0..m : f[k] = IF k = 0 THEN c ELSE Repeated(kind, a, f[k - 1])
    <3>1. ASSUME NEW k \in 0..p
          PROVE  f[k] = IF k = 0 THEN c ELSE Repeated(kind, a, f[k - 1])
      <4>1. k # 0 => k - 1 \in 0..p
        BY <2>1
      <4>2. k # 0 => f[k - 1] = g[k - 1]
        BY <2>5, <4>1
      <4> QED
        BY <2>1, <2>5, <2>6, <4>2
    <3>2. f[m] = IF m = 0 THEN c ELSE Repeated(kind, a, f[m - 1])
      <4>1. m - 1 = p /\ p \in 0..p
        BY <2>1, <2>2
      <4>2. f[m - 1] = g[p]
        BY <2>5, <4>1
      <4> QED
        BY <2>1, <2>2, <2>5, <4>2
    <3> QED
      BY <2>1, <2>2, <3>1, <3>2
  <2>8. Run(kind, a, c, m, f)
    BY <2>5, <2>7 DEF Run
  <2> QED
    BY <2>2, <2>8 DEF Good
<1> HIDE DEF Good
<1>3. Good = Nat
  <2>1. Good \in SUBSET Nat
    BY DEF Good
  <2> QED
    BY <1>1, <1>2, <2>1, NatInd
<1> QED
  BY <1>3 DEF Good

(* Round k + 1 of a run is what is repeated, of round k.                    *)
LEMMA RunRounds ==
  ASSUME NEW kind, NEW a, NEW c, NEW n \in Nat, NEW f, Run(kind, a, c, n, f)
  PROVE  /\ f[0] = c
         /\ \A k \in 0..(n - 1) : f[k + 1] = Repeated(kind, a, f[k])
<1>1. \A k \in 0..n : f[k] = IF k = 0 THEN c ELSE Repeated(kind, a, f[k - 1])
  BY DEF Run
<1>2. f[0] = c
  BY <1>1
<1>3. ASSUME NEW k \in 0..(n - 1)
      PROVE  f[k + 1] = Repeated(kind, a, f[k])
  <2>1. PICK m \in 0..n : m = k + 1
    OBVIOUS
  <2>2. m # 0 /\ m - 1 = k
    BY <2>1
  <2> QED
    BY <1>1, <2>1, <2>2
<1> QED
  BY <1>2, <1>3

(* Nth as a run.                                                            *)
LEMMA NthRun ==
  ASSUME NEW t, NEW c, NEW n \in Nat
  PROVE  \E f : Run("walk", t, c, n, f) /\ Nth(t, c, n) = f[n]
<1> DEFINE P(f) == f = [k \in 0..n |-> IF k = 0 THEN c ELSE cluster_get_next(t, f[k - 1])]
<1>1. \A f : P(f) <=> Run("walk", t, c, n, f)
  BY DEF Run, Repeated
<1>2. \E f : P(f)
  BY <1>1, RunExists
<1>3. Nth(t, c, n) = (CHOOSE f : P(f))[n]
  BY DEF Nth
<1> HIDE DEF P
<1>4. PICK f : f = CHOOSE g : P(g)
  OBVIOUS
<1>5. P(f)
  BY <1>2, <1>4
<1> QED
  BY <1>1, <1>3, <1>4, <1>5

(* The loop of fatfs_read as a run.                                         *)
LEMMA ReadLoopRun ==
  ASSUME NEW w, w.left \in Nat
  PROVE  \E f : Run("read", w, w, w.left, f) /\ ReadLoop(w) = f[w.left]
<1> DEFINE n == w.left
           P(f) == f = [k \in 0..n |-> IF k = 0 THEN w ELSE ReadRound(f[k - 1])]
<1>1. \A f : P(f) <=> Run("read", w, w, n, f)
  BY DEF Run, Repeated
<1>2. \E f : P(f)
  <2> HIDE DEF P
  <2> QED
    BY <1>1, RunExists
<1>3. ReadLoop(w) = (CHOOSE f : P(f))[n]
  BY DEF ReadLoop
<1> HIDE DEF P
<1>4. PICK f : f = CHOOSE g : P(g)
  OBVIOUS
<1>5. P(f)
  BY <1>2, <1>4
<1> QED
  BY <1>1, <1>3, <1>4, <1>5

(* The loop of fatfs_write as a run.                                        *)
LEMMA WriteLoopRun ==
  ASSUME NEW w, NEW bytes, w.left \in Nat
  PROVE  \E f : Run("write", bytes, w, w.left, f) /\ WriteLoop(w, bytes) = f[w.left]
<1> DEFINE n == w.left
           P(f) == f = [k \in 0..n |-> IF k = 0 THEN w ELSE WriteRound(f[k - 1], bytes)]
<1>1. \A f : P(f) <=> Run("write", bytes, w, n, f)
  BY DEF Run, Repeated
<1>2. \E f : P(f)
  <2> HIDE DEF P
  <2> QED
    BY <1>1, RunExists
<1>3. WriteLoop(w, bytes) = (CHOOSE f : P(f))[n]
  BY DEF WriteLoop
<1> HIDE DEF P
<1>4. PICK f : f = CHOOSE g : P(g)
  OBVIOUS
<1>5. P(f)
  BY <1>2, <1>4
<1> QED
  BY <1>1, <1>3, <1>4, <1>5

(* Two runs of the same start agree as far as both go.                      *)
LEMMA RunsAgree ==
  ASSUME NEW kind, NEW a, NEW c, NEW m \in Nat, NEW n \in Nat, m <= n,
         NEW f, Run(kind, a, c, m, f), NEW g, Run(kind, a, c, n, g)
  PROVE  \A k \in 0..m : f[k] = g[k]
<1> DEFINE S == {k \in Nat : k <= m => f[k] = g[k]}
<1>1. 0 \in S
  <2>1. f[0] = c
    BY RunRounds
  <2>2. g[0] = c
    BY RunRounds
  <2> QED
    BY <2>1, <2>2
<1>2. ASSUME NEW k \in S
      PROVE  k + 1 \in S
  <2>1. CASE k + 1 <= m
    <3>1. k \in 0..(m - 1) /\ k \in 0..(n - 1)
      BY <2>1
    <3>2. f[k] = g[k]
      BY <2>1
    <3> QED
      BY <3>1, <3>2, RunRounds
  <2> QED
    BY <2>1
<1> HIDE DEF S
<1>3. S = Nat
  <2>1. S \in SUBSET Nat
    BY DEF S
  <2> QED
    BY <1>1, <1>2, <2>1, NatInd
<1> QED
  BY <1>3 DEF S

(* The cluster zero steps after c is c, and each step is one look-up        *)
(* (the equations of Nth).                                                  *)
LEMMA NthSteps ==
  ASSUME NEW t, NEW c
  PROVE  /\ Nth(t, c, 0) = c
         /\ \A n \in Nat : Nth(t, c, n + 1) = cluster_get_next(t, Nth(t, c, n))
<1>1. Nth(t, c, 0) = c
  <2>1. PICK f : Run("walk", t, c, 0, f) /\ Nth(t, c, 0) = f[0]
    BY NthRun
  <2> QED
    BY <2>1, RunRounds
<1>2. ASSUME NEW n \in Nat
      PROVE  Nth(t, c, n + 1) = cluster_get_next(t, Nth(t, c, n))
  <2>1. PICK m \in Nat : m = n + 1
    OBVIOUS
  <2>2. PICK f : Run("walk", t, c, n, f) /\ Nth(t, c, n) = f[n]
    BY NthRun
  <2>3. PICK g : Run("walk", t, c, m, g) /\ Nth(t, c, m) = g[m]
    BY NthRun
  <2>4. f[n] = g[n]
    BY <2>1, <2>2, <2>3, RunsAgree
  <2>5. g[n + 1] = Repeated("walk", t, g[n])
    <3>1. n \in 0..(m - 1)
      BY <2>1
    <3> QED
      BY <2>3, <3>1, RunRounds
  <2> QED
    BY <2>1, <2>2, <2>3, <2>4, <2>5 DEF Repeated
<1> QED
  BY <1>1, <1>2

-----------------------------------------------------------------------------
\* Positions in clusters.
Quot(a) == a \div ClusterSize
Rem(a)  == a % ClusterSize

(* A position is some clusters and a remainder.                             *)
LEMMA QuotRem ==
  ASSUME NEW a \in Nat
  PROVE  /\ Quot(a) \in Nat /\ Rem(a) \in 0..(ClusterSize - 1)
         /\ a = Quot(a) * ClusterSize + Rem(a)
<1>1. PICK c \in Nat \ {0} : c = ClusterSize
  BY FatFsAssumption
<1>2. a \div c \in Nat /\ a % c \in 0..(c - 1) /\ a = (a \div c) * c + (a % c)
  OBVIOUS
<1> QED
  BY <1>1, <1>2 DEF Quot, Rem

(* Only that pair of numbers is it.                                         *)
LEMMA QuotRemUnique ==
  ASSUME NEW q \in Nat, NEW r \in 0..(ClusterSize - 1)
  PROVE  Quot(q * ClusterSize + r) = q /\ Rem(q * ClusterSize + r) = r
<1>1. PICK c \in Nat \ {0} : c = ClusterSize
  BY FatFsAssumption
<1>2. (q * c + r) \div c = q /\ (q * c + r) % c = r
  BY <1>1
<1> QED
  BY <1>1, <1>2 DEF Quot, Rem

(* Moving on inside of a cluster, and to the start of the next.             *)
LEMMA QuotForward ==
  ASSUME NEW a \in Nat, NEW n \in Nat
  PROVE  /\ Rem(a) + n < ClusterSize => Quot(a + n) = Quot(a) /\ Rem(a + n) = Rem(a) + n
         /\ Rem(a) + n = ClusterSize => Quot(a + n) = Quot(a) + 1 /\ Rem(a + n) = 0
<1>1. PICK c \in Nat \ {0} : c = ClusterSize
  BY FatFsAssumption
<1>2. PICK q \in Nat, r \in 0..(c - 1) : q = Quot(a) /\ r = Rem(a) /\ a = q * c + r
  BY <1>1, QuotRem
<1>3. CASE r + n < c
  <2>1. a + n = q * c + (r + n) /\ r + n \in 0..(c - 1)
    BY <1>2, <1>3
  <2>2. Quot(q * c + (r + n)) = q /\ Rem(q * c + (r + n)) = r + n
    BY <1>1, <2>1, QuotRemUnique
  <2> QED
    BY <1>1, <1>2, <1>3, <2>1, <2>2
<1>4. CASE r + n = c
  <2>1. a + n = (q + 1) * c + 0 /\ q + 1 \in Nat /\ 0 \in 0..(c - 1)
    BY <1>2, <1>4
  <2>2. Quot((q + 1) * c + 0) = q + 1 /\ Rem((q + 1) * c + 0) = 0
    BY <1>1, <2>1, QuotRemUnique
  <2> QED
    BY <1>1, <1>2, <1>4, <2>1, <2>2
<1> QED
  BY <1>1, <1>2, <1>3, <1>4

(* A later position is in the same cluster or in a later one.               *)
LEMMA QuotGrows ==
  ASSUME NEW a \in Nat, NEW b \in Nat, a <= b
  PROVE  Quot(a) <= Quot(b)
<1>1. PICK c \in Nat \ {0} : c = ClusterSize
  BY FatFsAssumption
<1>2. PICK q \in Nat, r \in 0..(c - 1) : q = Quot(a) /\ a = q * c + r
  BY <1>1, QuotRem
<1>3. PICK u \in Nat, v \in 0..(c - 1) : u = Quot(b) /\ b = u * c + v
  BY <1>1, QuotRem
<1>4. ASSUME u < q  PROVE FALSE
  <2>1. PICK d \in Nat : q = u + 1 + d
    <3>1. q - u - 1 \in Nat /\ q = u + 1 + (q - u - 1)
      BY <1>4
    <3> QED
      BY <3>1
  <2>2. q * c = u * c + c + d * c /\ d * c \in Nat /\ u * c \in Nat
    BY <2>1
  <2> QED
    BY <1>2, <1>3, <2>2
<1> QED
  BY <1>2, <1>3, <1>4

-----------------------------------------------------------------------------
\* The chain of a file as the sequence of its clusters.
Clusters(p) == {p[k] : k \in 1..Len(p)}

Path(t, c, p) ==
  /\ p \in Seq(Cluster)
  /\ \A k, l \in 1..Len(p) : p[k] = p[l] => k = l
  /\ IF Len(p) = 0 THEN c \notin Cluster ELSE c = p[1]
  /\ \A k \in 1..Len(p) : IF k < Len(p) THEN t[p[k]] = p[k + 1] ELSE t[p[k]] \notin Cluster

(* What an entry of the table may hold beside a cluster is no cluster.      *)
LEMMA LinkFacts ==
  /\ Cluster \subseteq Nat
  /\ FAT_CLUSTER_FREE \notin Cluster /\ FAT_CLUSTER_INVALID \notin Cluster
  /\ HostEndOfChain \notin Cluster
  /\ FAT_CLUSTER_FREE # FAT_CLUSTER_INVALID /\ HostEndOfChain # FAT_CLUSTER_FREE
  /\ FAT_CLUSTER_INVALID \in Link /\ FAT_CLUSTER_FREE \in Link
  /\ \A c \in Link : cluster_is_valid(c) <=> c \in Cluster
BY FatFsAssumption DEF Cluster, FAT_CLUSTER_FREE, FAT_CLUSTER_INVALID, HostEndOfChain,
   Link, cluster_is_valid

(* The types of a path.                                                     *)
LEMMA PathTypes ==
  ASSUME NEW t, NEW c, NEW p, Path(t, c, p)
  PROVE  Len(p) \in Nat /\ \A k \in 1..Len(p) : p[k] \in Cluster
BY LenProperties, ElementOfSeq DEF Path

(* Nth counts along the path, and behind it finds no cluster.               *)
LEMMA NthOnPath ==
  ASSUME NEW t, NEW c, NEW p, Path(t, c, p)
  PROVE  \A k \in Nat : IF k < Len(p) THEN Nth(t, c, k) = p[k + 1]
                        ELSE Nth(t, c, k) \notin Cluster
<1> DEFINE G(k) == IF k < Len(p) THEN Nth(t, c, k) = p[k + 1]
                   ELSE Nth(t, c, k) \notin Cluster
           S == {k \in Nat : G(k)}
<1>1. Len(p) \in Nat /\ \A k \in 1..Len(p) : p[k] \in Cluster
  BY PathTypes
<1>2. 0 \in S
  <2>1. Nth(t, c, 0) = c
    BY NthSteps
  <2>2. IF Len(p) = 0 THEN c \notin Cluster ELSE c = p[1]
    BY DEF Path
  <2> QED
    BY <1>1, <2>1, <2>2
<1>3. ASSUME NEW k \in S
      PROVE  k + 1 \in S
  <2>1. k \in Nat /\ G(k)
    OBVIOUS
  <2>2. Nth(t, c, k + 1) = cluster_get_next(t, Nth(t, c, k))
    BY <2>1, NthSteps
  <2>3. CASE k >= Len(p)
    <3>1. Nth(t, c, k) \notin Cluster
      BY <1>1, <2>1, <2>3
    <3>2. Nth(t, c, k + 1) \notin Cluster
      BY <2>2, <3>1, LinkFacts DEF cluster_get_next
    <3> QED
      BY <1>1, <2>1, <2>3, <3>2
  <2>4. CASE k < Len(p)
    <3>1. PICK m \in 1..Len(p) : m = k + 1
      BY <1>1, <2>1, <2>4
    <3>2. Nth(t, c, k) = p[m] /\ p[m] \in Cluster
      BY <1>1, <2>1, <2>4, <3>1
    <3>3. Nth(t, c, m) = t[p[m]]
      BY <2>2, <3>1, <3>2 DEF cluster_get_next
    <3>4. IF m < Len(p) THEN t[p[m]] = p[m + 1] ELSE t[p[m]] \notin Cluster
      BY <3>1 DEF Path
    <3>5. G(m)
      BY <3>3, <3>4
    <3> QED
      BY <3>1, <3>5
  <2> QED
    BY <1>1, <2>1, <2>3, <2>4
<1> HIDE DEF S
<1>4. S = Nat
  <2>1. S \in SUBSET Nat
    BY DEF S
  <2> QED
    BY <1>2, <1>3, <2>1, NatInd
<1> QED
  BY <1>4 DEF S

(* A path is not longer than there are clusters.                            *)
LEMMA PathShort ==
  ASSUME NEW t, NEW c, NEW p, Path(t, c, p)
  PROVE  Len(p) <= ClusterTotal
<1>1. Len(p) \in Nat /\ ClusterTotal \in Nat /\ ClusterTotal >= 3
  <2>1. Len(p) \in Nat
    BY PathTypes
  <2>2. ClusterTotal \in Nat /\ ClusterTotal >= 3
    BY FatFsAssumption DEF FAT_CLUSTER_INVALID
  <2> QED
    BY <2>1, <2>2
<1>2. IsFiniteSet(Cluster) /\ Cardinality(Cluster) = ClusterTotal - 2
  BY <1>1, FS_Interval DEF Cluster
<1>3. IsFiniteSet(1..Len(p)) /\ Cardinality(1..Len(p)) = Len(p)
  BY <1>1, FS_Interval
<1>4. p \in [1..Len(p) -> Cluster]
  BY LenProperties DEF Path
<1>5. ASSUME Len(p) > ClusterTotal - 2  PROVE FALSE
  <2>1. \E x, y \in 1..Len(p) : x # y /\ p[x] = p[y]
    BY <1>2, <1>3, <1>4, <1>5, FS_PigeonHole
  <2> QED
    BY <2>1 DEF Path
<1> QED
  BY <1>1, <1>5

(* Chain is the set of the clusters of the path.                            *)
LEMMA ChainOnPath ==
  ASSUME NEW t, NEW c, NEW p, Path(t, c, p)
  PROVE  Chain(t, c) = Clusters(p)
<1>1. Len(p) \in Nat /\ \A k \in 1..Len(p) : p[k] \in Cluster
  BY PathTypes
<1>2. Len(p) <= ClusterTotal /\ ClusterTotal \in Nat
  BY PathShort, FatFsAssumption DEF FAT_CLUSTER_INVALID
<1>3. \A k \in Nat : IF k < Len(p) THEN Nth(t, c, k) = p[k + 1]
                     ELSE Nth(t, c, k) \notin Cluster
  BY NthOnPath
<1>4. ASSUME NEW d \in Chain(t, c)
      PROVE  d \in Clusters(p)
  <2>1. PICK k \in 0..ClusterTotal : d = Nth(t, c, k) /\ d \in Cluster
    BY DEF Chain
  <2>2. k \in Nat /\ k < Len(p) /\ k + 1 \in 1..Len(p)
    BY <1>1, <1>3, <2>1
  <2> QED
    BY <1>3, <2>1, <2>2 DEF Clusters
<1>5. ASSUME NEW d \in Clusters(p)
      PROVE  d \in Chain(t, c)
  <2>1. PICK m \in 1..Len(p) : d = p[m]
    BY DEF Clusters
  <2>2. PICK k \in 0..ClusterTotal : k = m - 1 /\ k < Len(p) /\ k \in Nat /\ m = k + 1
    BY <1>1, <1>2, <2>1
  <2>3. Nth(t, c, k) = d /\ d \in Cluster
    BY <1>1, <1>3, <2>1, <2>2
  <2> QED
    BY <2>2, <2>3 DEF Chain
<1> QED
  BY <1>4, <1>5

(* A table that agrees on the clusters of a path has the same path.         *)
LEMMA PathKept ==
  ASSUME NEW t, NEW u, NEW c, NEW p, Path(t, c, p),
         \A d \in Clusters(p) : u[d] = t[d]
  PROVE  Path(u, c, p)
<1>1. \A k \in 1..Len(p) : u[p[k]] = t[p[k]]
  BY DEF Clusters
<1> QED
  BY <1>1 DEF Path

(* And Nth finds the same in both.                                          *)
LEMMA NthKept ==
  ASSUME NEW t, NEW u, NEW c, NEW p, Path(t, c, p),
         \A d \in Clusters(p) : u[d] = t[d]
  PROVE  \A k \in Nat : Nth(u, c, k) = Nth(t, c, k)
<1> DEFINE S == {k \in Nat : Nth(u, c, k) = Nth(t, c, k)}
<1>1. 0 \in S
  <2>1. Nth(t, c, 0) = c
    BY NthSteps
  <2>2. Nth(u, c, 0) = c
    BY NthSteps
  <2> QED
    BY <2>1, <2>2
<1>2. ASSUME NEW k \in S
      PROVE  k + 1 \in S
  <2>1. k \in Nat /\ Nth(u, c, k) = Nth(t, c, k)
    OBVIOUS
  <2>2. Nth(t, c, k + 1) = cluster_get_next(t, Nth(t, c, k))
    BY <2>1, NthSteps
  <2>3. Nth(u, c, k + 1) = cluster_get_next(u, Nth(u, c, k))
    BY <2>1, NthSteps
  <2>4. PICK x : x = Nth(t, c, k)
    OBVIOUS
  <2>5. x \in Cluster => x \in Clusters(p)
    <3>1. Len(p) \in Nat
      BY PathTypes
    <3>2. IF k < Len(p) THEN x = p[k + 1] ELSE x \notin Cluster
      BY <2>1, <2>4, NthOnPath
    <3> QED
      BY <2>1, <3>1, <3>2 DEF Clusters
  <2>6. cluster_get_next(u, x) = cluster_get_next(t, x)
    BY <2>5 DEF cluster_get_next
  <2> QED
    BY <2>1, <2>2, <2>3, <2>4, <2>6
<1> HIDE DEF S
<1>3. S = Nat
  <2>1. S \in SUBSET Nat
    BY DEF S
  <2> QED
    BY <1>1, <1>2, <2>1, NatInd
<1> QED
  BY <1>3 DEF S

(* Nth stays among the values of an entry.                                  *)
LEMMA NthTyped ==
  ASSUME NEW t \in [Cluster -> Link], NEW c \in Link
  PROVE  \A k \in Nat : Nth(t, c, k) \in Link
<1> DEFINE S == {k \in Nat : Nth(t, c, k) \in Link}
<1>1. 0 \in S
  BY NthSteps
<1>2. ASSUME NEW k \in S
      PROVE  k + 1 \in S
  <2>1. Nth(t, c, k + 1) = cluster_get_next(t, Nth(t, c, k))
    BY NthSteps
  <2>2. cluster_get_next(t, Nth(t, c, k)) \in Link
    BY LinkFacts DEF cluster_get_next
  <2> QED
    BY <2>1, <2>2
<1> HIDE DEF S
<1>3. S = Nat
  <2>1. S \in SUBSET Nat
    BY DEF S
  <2> QED
    BY <1>1, <1>2, <2>1, NatInd
<1> QED
  BY <1>3 DEF S

-----------------------------------------------------------------------------
\* Allocation: cluster_alloc_free.

(* MinOf is the smallest element.                                           *)
LEMMA MinOfIs ==
  ASSUME NEW S \in SUBSET Nat, NEW x \in S, \A y \in S : x <= y
  PROVE  MinOf(S) = x
<1>1. \E z \in S : \A y \in S : z <= y
  OBVIOUS
<1>2. MinOf(S) \in S /\ \A y \in S : MinOf(S) <= y
  BY <1>1 DEF MinOf
<1>3. PICK z : z = MinOf(S)
  OBVIOUS
<1>4. z \in Nat /\ x \in Nat /\ z <= x /\ x <= z
  BY <1>2, <1>3
<1> QED
  BY <1>3, <1>4

(* A set of numbers that is not empty has a MinOf.                          *)
LEMMA MinOfIn ==
  ASSUME NEW S \in SUBSET Nat, S # {}
  PROVE  MinOf(S) \in S /\ \A y \in S : MinOf(S) <= y
BY NatMin DEF MinOf

\* How many free clusters are in front of one.
Rank(t, c) == Cardinality({d \in FreeClusters(t) : d < c})

(* There are finitely many free clusters.                                   *)
LEMMA FreeFinite ==
  ASSUME NEW t
  PROVE  /\ FreeClusters(t) \subseteq Cluster
         /\ \A X \in SUBSET FreeClusters(t) : IsFiniteSet(X) /\ Cardinality(X) \in Nat
<1>1. IsFiniteSet(Cluster)
  BY FatFsAssumption, FS_Interval DEF Cluster, FAT_CLUSTER_INVALID
<1>2. FreeClusters(t) \in SUBSET Cluster
  BY DEF FreeClusters
<1>3. IsFiniteSet(FreeClusters(t))
  BY <1>1, <1>2, FS_Subset
<1>4. ASSUME NEW X \in SUBSET FreeClusters(t)
      PROVE  IsFiniteSet(X) /\ Cardinality(X) \in Nat
  BY <1>3, FS_Subset, FS_CardinalityType
<1> QED
  BY <1>2, <1>4

(* The ranks of the free clusters grow with them, below their number.       *)
LEMMA RankGrows ==
  ASSUME NEW t, NEW c \in FreeClusters(t)
  PROVE  /\ Rank(t, c) \in Nat /\ Rank(t, c) < Cardinality(FreeClusters(t))
         /\ \A d \in FreeClusters(t) : c < d => Rank(t, c) < Rank(t, d)
<1> DEFINE F == FreeClusters(t)
           B(x) == {d \in F : d < x}
<1>1. F \subseteq Nat /\ IsFiniteSet(F) /\ Cardinality(F) \in Nat
  BY FreeFinite, LinkFacts
<1>2. \A x : B(x) \in SUBSET F /\ IsFiniteSet(B(x)) /\ Cardinality(B(x)) \in Nat
  <2> SUFFICES ASSUME NEW x
               PROVE  B(x) \in SUBSET F /\ IsFiniteSet(B(x)) /\ Cardinality(B(x)) \in Nat
    OBVIOUS
  <2>1. B(x) \in SUBSET F
    OBVIOUS
  <2> HIDE DEF B
  <2> QED
    BY <2>1, FreeFinite
<1>3. c \notin B(c)
  BY <1>1
<1>4. ASSUME NEW X \in SUBSET F, B(c) \in SUBSET X, c \in X
      PROVE  Cardinality(B(c)) < Cardinality(X)
  <2>1. IsFiniteSet(X) /\ Cardinality(X) \in Nat
    BY FreeFinite
  <2>2. B(c) # X
    BY <1>3, <1>4
  <2> HIDE DEF B
  <2>3. Cardinality(B(c)) <= Cardinality(X) /\ Cardinality(X) # Cardinality(B(c))
    BY <1>4, <2>1, <2>2, FS_Subset
  <2> QED
    BY <1>2, <2>1, <2>3
<1>5. Cardinality(B(c)) < Cardinality(F)
  <2>1. B(c) \in SUBSET F
    OBVIOUS
  <2> HIDE DEF B
  <2> QED
    BY <1>4, <2>1
<1>6. ASSUME NEW d \in F, c < d
      PROVE  Cardinality(B(c)) < Cardinality(B(d))
  <2>1. B(c) \in SUBSET B(d) /\ c \in B(d) /\ B(d) \in SUBSET F
    BY <1>1, <1>6
  <2> HIDE DEF B
  <2> QED
    BY <1>4, <2>1
<1> QED
  BY <1>2, <1>5, <1>6 DEF Rank

(* Two free clusters of one rank are one.                                   *)
LEMMA RankOne ==
  ASSUME NEW t, NEW c \in FreeClusters(t), NEW d \in FreeClusters(t), Rank(t, c) = Rank(t, d)
  PROVE  c = d
<1>1. c \in Nat /\ d \in Nat
  BY FreeFinite, LinkFacts
<1>2. /\ Rank(t, c) \in Nat /\ Rank(t, d) \in Nat
      /\ c < d => Rank(t, c) < Rank(t, d)
      /\ d < c => Rank(t, d) < Rank(t, c)
  BY RankGrows
<1> QED
  BY <1>1, <1>2

(* Every number below that of the free clusters is the rank of one.         *)
LEMMA RankOnto ==
  ASSUME NEW t, NEW k \in Nat, k < Cardinality(FreeClusters(t))
  PROVE  \E c \in FreeClusters(t) : Rank(t, c) = k
<1> DEFINE F == FreeClusters(t)
<1>1. IsFiniteSet(F) /\ Cardinality(F) \in Nat
  BY FreeFinite
<1>2. PICK n \in Nat : n = Cardinality(F)
  BY <1>1
<1> DEFINE T == (0..(n - 1)) \ {k}
           r == [c \in F |-> Rank(t, c)]
<1>3. IsFiniteSet(T) /\ Cardinality(T) < n
  <2>1. IsFiniteSet(0..(n - 1)) /\ Cardinality(0..(n - 1)) = n
    BY FS_Interval
  <2>2. k \in 0..(n - 1)
    BY <1>2
  <2>3. IsFiniteSet(T) /\ Cardinality(T) = n - 1
    BY <2>1, <2>2, FS_RemoveElement
  <2> QED
    BY <2>3
<1>4. SUFFICES ASSUME \A c \in F : Rank(t, c) # k PROVE FALSE
  OBVIOUS
<1>5. \A c \in F : Rank(t, c) \in T
  <2> TAKE c \in F
  <2>1. Rank(t, c) \in Nat /\ Rank(t, c) < n
    BY <1>2, RankGrows
  <2> QED
    BY <1>4, <2>1
<1>6. r \in [F -> T]
  BY <1>5
<1>7. \E x, y \in F : x # y /\ r[x] = r[y]
  <2> HIDE DEF r, T
  <2> QED
    BY <1>1, <1>2, <1>3, <1>6, FS_PigeonHole
<1> QED
  BY <1>7, RankOne

\* q is the clusters that cluster_alloc_free takes, in their order.
TakenSeq(t, cnt, q) ==
  /\ q \in Seq(Cluster) /\ Len(q) = cnt
  /\ Clusters(q) = Taken(t, cnt) /\ Clusters(q) \subseteq FreeClusters(t)
  /\ \A k, l \in 1..cnt : k < l => q[k] < q[l]
  /\ cnt > 0 => q[1] = MinOf(FreeClusters(t))

(* Such a sequence exists when there are enough.                            *)
LEMMA TakenSeqExists ==
  ASSUME NEW t, NEW cnt \in Nat, CanAlloc(t, cnt)
  PROVE  \E q : TakenSeq(t, cnt, q)
<1> DEFINE F == FreeClusters(t)
           q == [k \in 1..cnt |-> CHOOSE c \in F : Rank(t, c) = k - 1]
<1>1. Cardinality(F) \in Nat /\ cnt <= Cardinality(F) /\ F \subseteq Cluster /\ F \subseteq Nat
  BY FreeFinite, LinkFacts DEF CanAlloc
<1>2. ASSUME NEW k \in 1..cnt
      PROVE  q[k] \in F /\ Rank(t, q[k]) = k - 1
  <2>1. k - 1 \in Nat /\ k - 1 < Cardinality(F)
    BY <1>1
  <2>2. \E c \in F : Rank(t, c) = k - 1
    BY <2>1, RankOnto
  <2> QED
    BY <2>2
<1>3. q \in Seq(Cluster) /\ Len(q) = cnt
  <2>1. \A k \in 1..cnt : q[k] \in Cluster
    BY <1>1, <1>2
  <2>2. q \in [1..cnt -> Cluster]
    BY <2>1
  <2> QED
    BY <2>2
<1> HIDE DEF q
<1>4. \A k, l \in 1..cnt : k < l => q[k] < q[l]
  <2> TAKE k, l \in 1..cnt
  <2>1. CASE k < l /\ ~ (q[k] < q[l])
    <3>1. /\ q[k] \in F /\ Rank(t, q[k]) = k - 1
          /\ q[l] \in F /\ Rank(t, q[l]) = l - 1
      BY <1>2
    <3>2. PICK x \in F, y \in F : x = q[k] /\ y = q[l]
      BY <3>1
    <3>3. x \in Nat /\ y \in Nat /\ (y < x \/ x = y)
      BY <1>1, <2>1, <3>2
    <3>4. y < x => Rank(t, y) < Rank(t, x)
      BY RankGrows
    <3> QED
      BY <2>1, <3>1, <3>2, <3>3, <3>4
  <2> QED
    BY <2>1
<1>5. Taken(t, cnt) = {c \in F : Rank(t, c) < cnt}
  BY DEF Taken, Rank
<1>6. Clusters(q) = Taken(t, cnt)
  <2>1. ASSUME NEW k \in 1..cnt
        PROVE  q[k] \in Taken(t, cnt)
    BY <1>2, <1>5
  <2>2. ASSUME NEW c \in Taken(t, cnt)
        PROVE  c \in Clusters(q)
    <3>1. c \in F /\ Rank(t, c) < cnt /\ Rank(t, c) \in Nat
      BY <1>5, RankGrows
    <3>2. PICK k \in 1..cnt : k = Rank(t, c) + 1
      BY <3>1
    <3>3. q[k] \in F /\ Rank(t, q[k]) = Rank(t, c)
      BY <1>2, <3>1, <3>2
    <3>4. q[k] = c
      BY <3>1, <3>3, RankOne
    <3> QED
      BY <1>3, <3>4 DEF Clusters
  <2> QED
    BY <1>3, <2>1, <2>2 DEF Clusters
<1>7. Clusters(q) \subseteq F
  BY <1>2, <1>3 DEF Clusters
<1>8. ASSUME cnt > 0
      PROVE  q[1] = MinOf(F)
  <2>1. q[1] \in F /\ Rank(t, q[1]) = 0
    BY <1>2, <1>8
  <2>2. PICK x \in F : x = q[1] /\ Rank(t, x) = 0
    BY <2>1
  <2>3. ASSUME NEW y \in F, ~ (x <= y)
        PROVE  FALSE
    <3>1. y < x
      BY <1>1, <2>3
    <3>2. Rank(t, y) \in Nat /\ Rank(t, y) < Rank(t, x)
      BY <3>1, RankGrows
    <3> QED
      BY <2>2, <3>2
  <2>4. \A y \in F : x <= y
    BY <2>3
  <2>5. MinOf(F) = x
    BY <1>1, <2>4, MinOfIs
  <2> QED
    BY <2>2, <2>5
<1> QED
  BY <1>3, <1>4, <1>6, <1>7, <1>8 DEF TakenSeq

(* The clusters taken are a path of the new table, and nothing else changes *)
(* (cluster_alloc_free).                                                    *)
LEMMA AllocPath ==
  ASSUME NEW t \in [Cluster -> Link], NEW cnt \in Nat, NEW q, TakenSeq(t, cnt, q)
  PROVE  /\ cluster_alloc_free(t, cnt) \in [Cluster -> Link]
         /\ \A c \in Cluster \ Clusters(q) : cluster_alloc_free(t, cnt)[c] = t[c]
         /\ \A k \in 1..cnt : cluster_alloc_free(t, cnt)[q[k]] =
              IF k < cnt THEN q[k + 1] ELSE FAT_CLUSTER_INVALID
<1> DEFINE L(c) == {d \in Taken(t, cnt) : c < d}
           E(c) == IF c \notin Taken(t, cnt) THEN t[c]
                   ELSE IF L(c) = {} THEN FAT_CLUSTER_INVALID ELSE MinOf(L(c))
<1>1. PICK u : u = cluster_alloc_free(t, cnt)
  OBVIOUS
<1>2. u = [c \in Cluster |-> E(c)]
  BY <1>1 DEF cluster_alloc_free
<1>3. Taken(t, cnt) \subseteq Cluster /\ Clusters(q) = Taken(t, cnt) /\ Len(q) = cnt
  BY FreeFinite DEF TakenSeq
<1>4. \A k \in 1..cnt : q[k] \in Taken(t, cnt) /\ q[k] \in Nat
  BY <1>3, LinkFacts DEF Clusters
<1>5. \A k, l \in 1..cnt : k < l => q[k] < q[l]
  BY DEF TakenSeq
<1>6. ASSUME NEW k \in 1..cnt
      PROVE  E(q[k]) = IF k < cnt THEN q[k + 1] ELSE FAT_CLUSTER_INVALID
  <2>1. ASSUME NEW d \in L(q[k])
        PROVE  \E l \in 1..cnt : d = q[l] /\ k < l
    <3>1. PICK l \in 1..cnt : d = q[l]
      BY <1>3 DEF Clusters
    <3>2. q[k] < q[l] /\ q[k] \in Nat /\ q[l] \in Nat
      BY <1>4, <3>1
    <3>3. ~ (l < k) /\ l # k
      BY <1>5, <3>2
    <3> QED
      BY <3>1, <3>3
  <2>2. CASE k = cnt
    <3>1. L(q[k]) = {}
      <4>1. ASSUME NEW d \in L(q[k])  PROVE FALSE
        <5>1. PICK l \in 1..cnt : k < l
          BY <2>1, <4>1
        <5> QED
          BY <2>2, <5>1
      <4> HIDE DEF L
      <4> QED
        BY <4>1
    <3> HIDE DEF L
    <3> QED
      BY <1>4, <2>2, <3>1
  <2>3. CASE k < cnt
    <3>1. PICK m \in 1..cnt : m = k + 1
      BY <2>3
    <3>2. q[m] \in L(q[k])
      <4>1. q[m] \in Taken(t, cnt) /\ q[k] < q[m]
        BY <1>4, <1>5, <3>1
      <4> QED
        BY <4>1
    <3>3. L(q[k]) \in SUBSET Nat
      BY <1>3, LinkFacts
    <3>4. ASSUME NEW d \in L(q[k])
          PROVE  q[m] <= d
      <4>1. PICK l \in 1..cnt : d = q[l] /\ k < l
        BY <2>1
      <4>2. m = l \/ m < l
        BY <3>1, <4>1
      <4> QED
        BY <1>4, <1>5, <4>1, <4>2
    <3> HIDE DEF L
    <3>5. MinOf(L(q[k])) = q[m]
      BY <3>2, <3>3, <3>4, MinOfIs
    <3> QED
      BY <1>4, <2>3, <3>1, <3>2, <3>5
  <2> QED
    BY <2>2, <2>3
<1>7. \A k \in 1..cnt : u[q[k]] = IF k < cnt THEN q[k + 1] ELSE FAT_CLUSTER_INVALID
  <2> HIDE DEF E
  <2> QED
    BY <1>2, <1>3, <1>4, <1>6
<1>8. \A c \in Cluster \ Clusters(q) : u[c] = t[c]
  BY <1>2, <1>3
<1>9. u \in [Cluster -> Link]
  <2>1. ASSUME NEW c \in Cluster
        PROVE  u[c] \in Link
    <3>1. CASE c \in Clusters(q)
      <4>1. PICK k \in 1..cnt : c = q[k]
        BY <1>3, <3>1 DEF Clusters
      <4>2. u[c] = IF k < cnt THEN q[k + 1] ELSE FAT_CLUSTER_INVALID
        BY <1>7, <4>1
      <4>3. k < cnt => k + 1 \in 1..cnt
        OBVIOUS
      <4>4. k < cnt => q[k + 1] \in Cluster
        BY <1>3, <1>4, <4>3
      <4> QED
        BY <4>2, <4>4, LinkFacts DEF Link
    <3>2. CASE c \notin Clusters(q)
      BY <1>8, <3>2
    <3> QED
      BY <3>1, <3>2
  <2> HIDE DEF E
  <2>2. u = [c \in Cluster |-> u[c]]
    BY <1>2
  <2> QED
    BY <2>1, <2>2
<1> QED
  BY <1>1, <1>7, <1>8, <1>9

\* The table t has the path p from c, the clusters of O belong to other files,
\* and the rest is free.
Owns(t, c, p, O) ==
  /\ t \in [Cluster -> Link]
  /\ Path(t, c, p)
  /\ O \subseteq Cluster /\ Clusters(p) \cap O = {}
  /\ \A d \in Cluster : t[d] = FAT_CLUSTER_FREE <=> d \notin Clusters(p) \cup O

\* The end mark that this system writes.
Ended(t, p) == Len(p) > 0 => t[p[Len(p)]] = FAT_CLUSTER_INVALID

\* In u, cnt free clusters of t have been put behind the path, which then starts
\* at first.
Linked(t, c, p, cnt, start, u, first) ==
  /\ cnt \in Nat \ {0} /\ CanAlloc(t, cnt)
  /\ start = MinOf(FreeClusters(t))
  /\ u = IF Len(p) = 0 THEN cluster_alloc_free(t, cnt)
         ELSE cluster_set_next(cluster_alloc_free(t, cnt), p[Len(p)], start)
  /\ first = IF Len(p) = 0 THEN start ELSE c

Longer(p, q) == Len(p) <= Len(q) /\ \A k \in 1..Len(p) : q[k] = p[k]

(* cluster_free_chain frees the clusters of the path and no other.          *)
LEMMA FreePath ==
  ASSUME NEW t \in [Cluster -> Link], NEW c, NEW p, Path(t, c, p)
  PROVE  /\ cluster_free_chain(t, c) \in [Cluster -> Link]
         /\ \A d \in Cluster : cluster_free_chain(t, c)[d] =
              IF d \in Clusters(p) THEN FAT_CLUSTER_FREE ELSE t[d]
<1>1. Chain(t, c) = Clusters(p)
  BY ChainOnPath
<1>2. cluster_free_chain(t, c) =
        [d \in Cluster |-> IF d \in Clusters(p) THEN FAT_CLUSTER_FREE ELSE t[d]]
  BY <1>1 DEF cluster_free_chain
<1> QED
  BY <1>2, LinkFacts

(* New clusters behind a path, which may be empty: cluster_alloc_free and   *)
(* cluster_set_next of expand_file.                                         *)
LEMMA PathGrows ==
  ASSUME NEW t, NEW c, NEW p, NEW O, Owns(t, c, p, O), Ended(t, p),
         NEW cnt, NEW start, NEW u, NEW first, Linked(t, c, p, cnt, start, u, first)
  PROVE  /\ start \in Cluster
         /\ \A d \in O : u[d] = t[d]
         /\ \E q : /\ Owns(u, first, q, O) /\ Ended(u, q)
                   /\ Longer(p, q) /\ Len(q) = Len(p) + cnt
                   /\ Len(p) = 0 => q[1] = start
<1>0. /\ cnt \in Nat \ {0} /\ CanAlloc(t, cnt)
      /\ start = MinOf(FreeClusters(t))
      /\ u = IF Len(p) = 0 THEN cluster_alloc_free(t, cnt)
             ELSE cluster_set_next(cluster_alloc_free(t, cnt), p[Len(p)], start)
      /\ first = IF Len(p) = 0 THEN start ELSE c
  BY DEF Linked
<1> USE <1>0
<1> DEFINE m == Len(p)
<1>1. PICK a : a = cluster_alloc_free(t, cnt)
  OBVIOUS
<1>2. PICK s : TakenSeq(t, cnt, s)
  BY TakenSeqExists
<1>3. /\ s \in Seq(Cluster) /\ Len(s) = cnt /\ s[1] = start
      /\ \A k, l \in 1..cnt : k < l => s[k] < s[l]
      /\ \A k \in 1..cnt : s[k] \in Cluster /\ s[k] \in Nat
      /\ Clusters(s) \subseteq FreeClusters(t)
  <2>1. s \in Seq(Cluster) /\ Len(s) = cnt
    BY <1>2 DEF TakenSeq
  <2>2. \A k \in 1..cnt : s[k] \in Cluster
    BY <2>1, ElementOfSeq
  <2>3. s[1] = start
    <3>1. cnt > 0
      OBVIOUS
    <3> QED
      BY <1>2, <3>1 DEF TakenSeq
  <2>4. \A k, l \in 1..cnt : k < l => s[k] < s[l]
    BY <1>2 DEF TakenSeq
  <2>5. Clusters(s) \subseteq FreeClusters(t)
    BY <1>2 DEF TakenSeq
  <2> QED
    BY <2>1, <2>2, <2>3, <2>4, <2>5, LinkFacts
<1>4. \A k \in 1..cnt : s[k] \in FreeClusters(t)
  BY <1>3 DEF Clusters
<1>5. /\ t \in [Cluster -> Link] /\ Path(t, c, p) /\ p \in Seq(Cluster) /\ O \subseteq Cluster
      /\ m \in Nat /\ \A k \in 1..m : p[k] \in Cluster
  BY PathTypes DEF Owns, Path
<1>6. /\ a \in [Cluster -> Link]
      /\ \A d \in Cluster \ Clusters(s) : a[d] = t[d]
      /\ \A k \in 1..cnt : a[s[k]] = IF k < cnt THEN s[k + 1] ELSE FAT_CLUSTER_INVALID
  BY <1>1, <1>2, <1>5, AllocPath
<1>7. start \in Cluster
  BY <1>3
<1>8. u = IF m = 0 THEN a ELSE [a EXCEPT ![p[m]] = start]
  <2>1. m # 0 => p[m] \in Cluster
    BY <1>5
  <2> QED
    BY <1>1, <2>1 DEF cluster_set_next
<1>9. /\ u \in [Cluster -> Link]
      /\ \A d \in Cluster : u[d] = IF m # 0 /\ d = p[m] THEN start ELSE a[d]
  <2>1. m # 0 => p[m] \in Cluster
    BY <1>5
  <2> QED
    BY <1>6, <1>7, <1>8, <2>1 DEF Link
<1> DEFINE r == p \o s
<1>10. /\ r \in Seq(Cluster) /\ Len(r) = m + cnt
       /\ \A k \in 1..m : r[k] = p[k]
       /\ \A k \in 1..cnt : r[m + k] = s[k]
  <2>1. /\ r \in Seq(Cluster) /\ Len(r) = m + cnt
        /\ \A k \in 1..(m + cnt) : r[k] = IF k <= m THEN p[k] ELSE s[k - m]
    BY <1>3, <1>5, ConcatProperties
  <2>2. \A k \in 1..m : r[k] = p[k]
    BY <1>5, <2>1
  <2>3. ASSUME NEW k \in 1..cnt
        PROVE  r[m + k] = s[k]
    <3>1. PICK j \in 1..(m + cnt) : j = m + k
      BY <1>5
    <3>2. ~ (j <= m) /\ j - m = k
      BY <1>5, <3>1
    <3> QED
      BY <2>1, <3>1, <3>2
  <2> QED
    BY <2>1, <2>2, <2>3
<1> HIDE DEF r
\* A position of the new path is one of the old or one of the new clusters.
<1>11. \A k \in 1..(m + cnt) : (k \in 1..m) \/ (\E j \in 1..cnt : k = m + j)
  <2> SUFFICES ASSUME NEW k \in 1..(m + cnt), k \notin 1..m
               PROVE  \E j \in 1..cnt : k = m + j
    OBVIOUS
  <2>1. k - m \in 1..cnt /\ k = m + (k - m)
    BY <1>5
  <2> QED
    BY <2>1
<1>12. \A k \in 1..m : p[k] \notin FreeClusters(t)
  <2>1. \A k \in 1..m : p[k] \in Clusters(p)
    BY DEF Clusters
  <2> QED
    BY <1>5, <2>1 DEF Owns, FreeClusters
<1>13. Clusters(r) = Clusters(p) \cup Clusters(s)
  <2>1. ASSUME NEW k \in 1..(m + cnt)
        PROVE  r[k] \in Clusters(p) \cup Clusters(s)
    <3>1. CASE k \in 1..m
      BY <1>10, <3>1 DEF Clusters
    <3>2. ASSUME NEW j \in 1..cnt, k = m + j
          PROVE  r[k] \in Clusters(s)
      BY <1>3, <1>10, <3>2 DEF Clusters
    <3> QED
      BY <1>11, <3>1, <3>2
  <2>2. Clusters(p) \subseteq Clusters(r)
    <3>1. \A k \in 1..m : k \in 1..(m + cnt)
      BY <1>5
    <3> QED
      BY <1>10, <3>1 DEF Clusters
  <2>3. Clusters(s) \subseteq Clusters(r)
    <3>1. \A k \in 1..cnt : m + k \in 1..(m + cnt)
      BY <1>5
    <3> QED
      BY <1>3, <1>10, <3>1 DEF Clusters
  <2>4. Clusters(r) \subseteq Clusters(p) \cup Clusters(s)
    BY <1>10, <2>1 DEF Clusters
  <2> QED
    BY <2>2, <2>3, <2>4
<1>14. \A k, l \in 1..(m + cnt) : r[k] = r[l] => k = l
  <2> SUFFICES ASSUME NEW k \in 1..(m + cnt), NEW l \in 1..(m + cnt), r[k] = r[l]
               PROVE  k = l
    OBVIOUS
  <2>1. CASE k \in 1..m /\ l \in 1..m
    BY <1>5, <1>10, <2>1 DEF Path
  <2>2. ASSUME k \in 1..m, NEW j \in 1..cnt, l = m + j  PROVE FALSE
    BY <1>4, <1>10, <1>12, <2>2
  <2>3. ASSUME l \in 1..m, NEW j \in 1..cnt, k = m + j  PROVE FALSE
    BY <1>4, <1>10, <1>12, <2>3
  <2>4. ASSUME NEW i \in 1..cnt, k = m + i, NEW j \in 1..cnt, l = m + j  PROVE k = l
    <3>1. s[i] = s[j] /\ s[i] \in Nat /\ s[j] \in Nat
      BY <1>3, <1>10, <2>4
    <3>2. i < j => s[i] < s[j]
      BY <1>3
    <3>3. j < i => s[j] < s[i]
      BY <1>3
    <3>4. i = j
      BY <3>1, <3>2, <3>3
    <3> QED
      BY <2>4, <3>4
  <2> QED
    BY <1>11, <2>1, <2>2, <2>3, <2>4
<1>15. \A k \in 1..cnt : u[s[k]] = IF k < cnt THEN s[k + 1] ELSE FAT_CLUSTER_INVALID
  <2> TAKE k \in 1..cnt
  <2>1. ~ (m # 0 /\ s[k] = p[m])
    <3>1. m # 0 => m \in 1..m
      BY <1>5
    <3> QED
      BY <1>4, <1>12, <3>1
  <2> QED
    BY <1>3, <1>6, <1>9, <2>1
<1>16. \A k \in 1..m : u[p[k]] = IF k < m THEN p[k + 1] ELSE start
  <2> TAKE k \in 1..m
  <2>1. p[k] \notin Clusters(s) /\ p[k] \in Cluster
    BY <1>3, <1>5, <1>12
  <2>2. CASE k = m
    BY <1>9, <2>1, <2>2
  <2>3. CASE k < m
    <3>1. p[k] # p[m]
      <4>1. m \in 1..m /\ k # m
        BY <1>5, <2>3
      <4> QED
        BY <1>5, <4>1 DEF Path
    <3>2. t[p[k]] = p[k + 1]
      BY <1>5, <2>3 DEF Path
    <3> QED
      BY <1>6, <1>9, <2>1, <2>3, <3>1, <3>2
  <2> QED
    BY <1>5, <2>2, <2>3
<1>17. \A k \in 1..(m + cnt) : IF k < m + cnt THEN u[r[k]] = r[k + 1]
                               ELSE u[r[k]] = FAT_CLUSTER_INVALID
  <2> TAKE k \in 1..(m + cnt)
  <2>1. CASE k \in 1..m
    <3>1. CASE k < m
      <4>1. k + 1 \in 1..m /\ k < m + cnt
        BY <1>5, <3>1
      <4> QED
        BY <1>10, <1>16, <2>1, <3>1, <4>1
    <3>2. CASE k = m
      <4>1. r[m + 1] = s[1] /\ k < m + cnt
        BY <1>5, <1>10, <3>2
      <4> QED
        BY <1>3, <1>10, <1>16, <2>1, <3>2, <4>1
    <3> QED
      BY <1>5, <2>1, <3>1, <3>2
  <2>2. ASSUME NEW j \in 1..cnt, k = m + j
        PROVE  IF k < m + cnt THEN u[r[k]] = r[k + 1]
               ELSE u[r[k]] = FAT_CLUSTER_INVALID
    <3>1. r[k] = s[j]
      BY <1>10, <2>2
    <3>2. CASE j < cnt
      <4>1. PICK i \in 1..cnt : i = j + 1
        BY <3>2
      <4>2. r[m + i] = s[i] /\ m + i = k + 1 /\ k < m + cnt
        BY <1>5, <1>10, <2>2, <3>2, <4>1
      <4> QED
        BY <1>15, <3>1, <3>2, <4>1, <4>2
    <3>3. CASE j = cnt
      <4>1. ~ (k < m + cnt)
        BY <1>5, <2>2, <3>3
      <4> QED
        BY <1>15, <3>1, <3>3, <4>1
    <3> QED
      BY <3>2, <3>3
  <2> QED
    BY <1>11, <2>1, <2>2
<1>18. first = IF m = 0 THEN start ELSE c
  OBVIOUS
<1>19. Len(r) # 0 /\ first = r[1] /\ (m = 0 => r[1] = start)
  <2>1. CASE m = 0
    <3>1. r[m + 1] = s[1]
      BY <1>10
    <3> QED
      BY <1>3, <1>10, <1>18, <2>1, <3>1
  <2>2. CASE m # 0
    <3>1. 1 \in 1..m
      BY <1>5, <2>2
    <3> QED
      BY <1>5, <1>10, <1>18, <2>2, <3>1 DEF Path
  <2> QED
    BY <2>1, <2>2
<1>20. Path(u, first, r)
  <2>1. \A k \in 1..Len(r) : IF k < Len(r) THEN u[r[k]] = r[k + 1] ELSE u[r[k]] \notin Cluster
    BY <1>10, <1>17, LinkFacts
  <2>2. \A k, l \in 1..Len(r) : r[k] = r[l] => k = l
    BY <1>10, <1>14
  <2> QED
    BY <1>10, <1>19, <2>1, <2>2 DEF Path
<1>21. Ended(u, r)
  <2>1. m + cnt \in 1..(m + cnt)
    BY <1>5
  <2> QED
    BY <1>10, <1>17, <2>1 DEF Ended
<1>22. \A d \in Cluster : d \notin Clusters(p) \cup Clusters(s) => u[d] = t[d]
  <2> SUFFICES ASSUME NEW d \in Cluster, d \notin Clusters(p) \cup Clusters(s)
               PROVE  u[d] = t[d]
    OBVIOUS
  <2>1. m # 0 => d # p[m]
    <3>1. m # 0 => m \in 1..m
      BY <1>5
    <3> QED
      BY <3>1 DEF Clusters
  <2> QED
    BY <1>6, <1>9, <2>1
<1>23. Clusters(r) \cap O = {} /\ \A d \in O : u[d] = t[d]
  <2>1. \A d \in O : d \in Cluster /\ t[d] # FAT_CLUSTER_FREE /\ d \notin Clusters(p)
    BY DEF Owns
  <2>2. \A d \in O : d \notin Clusters(s)
    BY <1>3, <2>1 DEF FreeClusters
  <2> QED
    BY <1>13, <1>22, <2>1, <2>2
<1>24. \A d \in Cluster : u[d] = FAT_CLUSTER_FREE <=> d \notin Clusters(r) \cup O
  <2> TAKE d \in Cluster
  <2>1. CASE d \in Clusters(p)
    <3>1. PICK k \in 1..m : d = p[k]
      BY <2>1 DEF Clusters
    <3>2. k < m => p[k + 1] \in Cluster
      BY <1>5
    <3>3. u[d] \in Cluster
      BY <1>7, <1>16, <3>1, <3>2
    <3> QED
      BY <1>13, <2>1, <3>3, LinkFacts
  <2>2. CASE d \in Clusters(s)
    <3>1. PICK k \in 1..cnt : d = s[k]
      BY <1>3, <2>2 DEF Clusters
    <3>2. k < cnt => s[k + 1] \in Cluster
      BY <1>3
    <3>3. u[d] \in Cluster \/ u[d] = FAT_CLUSTER_INVALID
      BY <1>15, <3>1, <3>2
    <3> QED
      BY <1>13, <2>2, <3>3, LinkFacts
  <2>3. CASE d \notin Clusters(p) \cup Clusters(s)
    <3>1. u[d] = t[d]
      BY <1>22, <2>3
    <3>2. d \notin Clusters(r)
      BY <1>13, <2>3
    <3>3. t[d] = FAT_CLUSTER_FREE <=> d \notin O
      BY <2>3 DEF Owns
    <3> QED
      BY <3>1, <3>2, <3>3
  <2> QED
    BY <2>1, <2>2, <2>3
<1>25. Owns(u, first, r, O)
  BY <1>5, <1>9, <1>20, <1>23, <1>24 DEF Owns
<1>26. Longer(p, r)
  BY <1>5, <1>10 DEF Longer
<1> QED
  BY <1>7, <1>10, <1>18, <1>19, <1>21, <1>23, <1>25, <1>26

(* The clusters that n bytes take.                                          *)
LEMMA UpToFacts ==
  ASSUME NEW n \in Nat
  PROVE  /\ UpTo(n) \in Nat /\ UpTo(n) <= Quot(n) + 1
         /\ n > 0 => UpTo(n) >= 1
         /\ n > 0 /\ n <= ClusterSize => UpTo(n) = 1
<1>1. PICK c \in Nat \ {0} : c = ClusterSize
  BY FatFsAssumption
<1>2. PICK q \in Nat, r \in 0..(c - 1) : q = Quot(n) /\ n = q * c + r
  BY <1>1, QuotRem
<1>3. UpTo(n) = Quot(n + c - 1)
  BY <1>1 DEF UpTo, Quot
<1>4. CASE r = 0
  <2>1. n + c - 1 = q * c + (c - 1) /\ c - 1 \in 0..(c - 1)
    BY <1>2, <1>4
  <2>2. UpTo(n) = q
    <3>1. Quot(q * c + (c - 1)) = q
      BY <1>1, <2>1, QuotRemUnique
    <3> QED
      BY <1>3, <2>1, <3>1
  <2>3. n > 0 => q >= 1
    <3>1. CASE q = 0
      BY <1>2, <1>4, <3>1
    <3> QED
      BY <3>1
  <2>4. n > 0 /\ n <= c => q = 1
    <3>1. ASSUME q > 1, n <= c  PROVE FALSE
      <4>1. PICK e \in Nat : q = e + 2
        <5>1. q - 2 \in Nat /\ q = (q - 2) + 2
          BY <3>1
        <5> QED
          BY <5>1
      <4>2. q * c = e * c + c + c /\ e * c \in Nat
        BY <4>1
      <4> QED
        BY <1>2, <1>4, <3>1, <4>2
    <3> QED
      BY <2>3, <3>1
  <2> QED
    BY <1>1, <1>2, <2>2, <2>3, <2>4
<1>5. CASE r # 0
  <2>1. n + c - 1 = (q + 1) * c + (r - 1) /\ r - 1 \in 0..(c - 1) /\ q + 1 \in Nat
    <3>1. (q + 1) * c = q * c + c /\ q * c \in Nat
      OBVIOUS
    <3> QED
      BY <1>2, <1>5, <3>1
  <2>2. UpTo(n) = q + 1
    <3>1. Quot((q + 1) * c + (r - 1)) = q + 1
      BY <1>1, <2>1, QuotRemUnique
    <3> QED
      BY <1>3, <2>1, <3>1
  <2>3. n <= c => q = 0
    <3>1. ASSUME q > 0, n <= c  PROVE FALSE
      <4>1. PICK e \in Nat : q = e + 1
        <5>1. q - 1 \in Nat /\ q = (q - 1) + 1
          BY <3>1
        <5> QED
          BY <5>1
      <4>2. q * c = e * c + c /\ e * c \in Nat
        BY <4>1
      <4> QED
        BY <1>2, <1>5, <3>1, <4>2
    <3> QED
      BY <3>1
  <2> QED
    BY <1>1, <1>2, <2>2, <2>3
<1> QED
  BY <1>4, <1>5

(* Some clusters further.                                                   *)
LEMMA QuotPlus ==
  ASSUME NEW k \in Nat, NEW x \in Nat
  PROVE  Quot(k * ClusterSize + x) = k + Quot(x)
<1>1. PICK c \in Nat \ {0} : c = ClusterSize
  BY FatFsAssumption
<1>2. PICK q \in Nat, r \in 0..(c - 1) : q = Quot(x) /\ x = q * c + r
  BY <1>1, QuotRem
<1>3. k * c + x = (k + q) * c + r /\ k + q \in Nat
  BY <1>2
<1>4. Quot((k + q) * c + r) = k + q
  BY <1>1, <1>3, QuotRemUnique
<1> QED
  BY <1>1, <1>2, <1>3, <1>4

(* expand_file allocates what incr more bytes take, and never more than     *)
(* they reach into (ClustersFor).                                           *)
LEMMA GrowthFits ==
  ASSUME NEW f, f.size \in Nat, NEW incr \in Nat
  PROVE  /\ ClustersFor(f, incr) \in Nat
         /\ f.size = 0 => /\ ClustersFor(f, incr) <= Quot(incr) + 1
                          /\ incr > 0 => ClustersFor(f, incr) > 0
         /\ f.size > 0 => /\ Quot(f.size) + ClustersFor(f, incr) <= Quot(f.size + incr)
                          /\ incr = ClusterSize => ClustersFor(f, incr) = 1
<1>1. PICK c \in Nat \ {0} : c = ClusterSize
  BY FatFsAssumption
<1>2. PICK s \in Nat : s = f.size
  OBVIOUS
<1>3. PICK q \in Nat, r \in 0..(c - 1) : q = Quot(s) /\ r = Rem(s) /\ s = q * c + r
  BY <1>1, QuotRem
<1>4. PICK cfree \in Nat : cfree = c - r /\ cfree > 0 /\ r + cfree = c
  <2>1. c - r \in Nat /\ c - r > 0 /\ r + (c - r) = c
    OBVIOUS
  <2> QED
    BY <2>1
<1>5. ClustersFor(f, incr) = IF s = 0 THEN UpTo(incr)
                             ELSE IF cfree > incr THEN 0
                             ELSE IF incr = cfree THEN 1 ELSE UpTo(incr - cfree)
  BY <1>1, <1>2, <1>3, <1>4 DEF ClustersFor, Rem
<1>6. CASE s = 0
  BY <1>2, <1>5, <1>6, UpToFacts
<1>7. CASE s # 0 /\ cfree > incr
  <2>1. Quot(s) <= Quot(s + incr)
    <3>1. s + incr \in Nat /\ s <= s + incr
      OBVIOUS
    <3> QED
      BY <3>1, QuotGrows
  <2>2. incr = c => r = c
    BY <1>4, <1>7
  <2>3. CASE incr = c
    BY <1>3, <1>4, <1>7, <2>3
  <2> QED
    BY <1>1, <1>2, <1>3, <1>5, <1>7, <2>1, <2>3
<1>8. CASE s # 0 /\ cfree = incr
  <2>1. Quot(s + incr) = q + 1
    BY <1>1, <1>3, <1>4, <1>8, QuotForward
  <2> QED
    BY <1>2, <1>3, <1>5, <1>8, <2>1
<1>9. CASE s # 0 /\ cfree < incr
  <2>1. PICK x \in Nat : x = incr - cfree /\ x > 0
    <3>1. incr - cfree \in Nat /\ incr - cfree > 0
      BY <1>9
    <3> QED
      BY <3>1
  <2>2. s + incr = (q + 1) * c + x /\ q + 1 \in Nat
    BY <1>3, <1>4, <2>1
  <2>3. Quot(s + incr) = q + 1 + Quot(x)
    BY <1>1, <2>1, <2>2, QuotPlus
  <2>4. UpTo(x) \in Nat /\ UpTo(x) <= Quot(x) + 1 /\ Quot(x) \in Nat
    BY UpToFacts, QuotRem
  <2>5. incr = c => UpTo(x) = 1
    <3>1. incr = c => x <= c
      BY <1>4, <2>1
    <3> QED
      BY <1>1, <2>1, <3>1, UpToFacts
  <2>6. ClustersFor(f, incr) = UpTo(x)
    BY <1>5, <1>9, <2>1
  <2> QED
    BY <1>1, <1>2, <1>3, <1>9, <2>3, <2>4, <2>5, <2>6
<1> QED
  BY <1>4, <1>6, <1>7, <1>8, <1>9

-----------------------------------------------------------------------------
\* What an operation works on.
Byte  == 0..ClusterSize \cup {"host", "outside"}
Block == [1..ClusterSize -> Byte]
File  == [slot : Slot, mode : OpenMode, size : Nat, pos : Nat, sblk : Link, cblk : Link]
Sector == {"none", "root", "fat"}
Buffer == {"data", "root", "fat"}

WorkRec == [t : [Cluster -> Link], d : [Cluster -> Block], f : File, sec : Sector,
            buf : Buffer, ok : BOOLEAN, left : Nat, out : Seq(Byte)]

Cached(s, b) == s # "none" => b = s

\* Work w on a file whose clusters are p, beside those of O.
Held(w, p, O) ==
  /\ w \in WorkRec /\ Cached(w.sec, w.buf)
  /\ Owns(w.t, w.f.sblk, p, O) /\ Ended(w.t, p)

\* v is w but for the table, fat_buffer, the two clusters of the file and ok.
SameBytes(w, v) ==
  /\ v.d = w.d /\ v.left = w.left /\ v.out = w.out
  /\ v.f.slot = w.f.slot /\ v.f.mode = w.f.mode
  /\ v.f.size = w.f.size /\ v.f.pos = w.f.pos

(* bread_sector changes what fat_buffer holds and is said to hold.          *)
LEMMA BreadSector ==
  ASSUME NEW w \in WorkRec, Cached(w.sec, w.buf), NEW s \in {"root", "fat"}
  PROVE  /\ bread_sector(w, s) \in WorkRec
         /\ bread_sector(w, s) = [w EXCEPT !.sec = s, !.buf = s]
BY DEF bread_sector, WorkRec, Cached, Sector, Buffer

(* expand_file adds its clusters to the end of the path, or fails and       *)
(* changes nothing.                                                         *)
LEMMA ExpandFile ==
  ASSUME NEW w, NEW p, NEW O, Held(w, p, O), w.ok, NEW incr \in Nat,
         NEW cnt, cnt = ClustersFor(w.f, incr),
         cnt > 0 /\ Len(p) > 0 => w.f.cblk = p[Len(p)],
         NEW v, v = expand_file(w, incr)
  PROVE  /\ SameBytes(w, v) /\ \A d \in O : v.t[d] = w.t[d]
         /\ \E q : /\ Held(v, q, O) /\ Longer(p, q)
                   /\ v.ok => /\ Len(q) = Len(p) + cnt
                              /\ v.f.cblk = IF Len(p) = 0 /\ cnt > 0 THEN q[1] ELSE w.f.cblk
                   /\ ~ v.ok => q = p /\ v.f = w.f /\ v.t = w.t /\ cnt > 0
<1>1. cnt \in Nat
  BY GrowthFits DEF Held, WorkRec, File
<1>2. w \in WorkRec /\ Cached(w.sec, w.buf) /\ Owns(w.t, w.f.sblk, p, O) /\ Ended(w.t, p)
  BY DEF Held
<1>3. Len(p) \in Nat /\ \A k \in 1..Len(p) : p[k] \in Cluster
  BY <1>2, PathTypes DEF Owns
<1>4. Longer(p, p)
  BY <1>3 DEF Longer
<1>5. CASE cnt = 0
  <2>1. v = w
    BY <1>5 DEF expand_file
  <2> QED
    BY <1>2, <1>3, <1>4, <1>5, <2>1 DEF Held, SameBytes
<1>6. CASE cnt # 0 /\ ~ CanAlloc(w.t, cnt)
  <2>1. v = [bread_sector(w, "fat") EXCEPT !.ok = FALSE]
    BY <1>6 DEF expand_file
  <2>2. v = [w EXCEPT !.sec = "fat", !.buf = "fat", !.ok = FALSE]
    BY <1>2, <2>1, BreadSector DEF WorkRec
  <2>3. v \in WorkRec /\ v.t = w.t /\ v.f = w.f /\ ~ v.ok /\ SameBytes(w, v) /\ Cached(v.sec, v.buf)
    BY <1>2, <2>2 DEF WorkRec, SameBytes, Cached, Sector, Buffer
  <2>4. Held(v, p, O)
    BY <1>2, <2>3 DEF Held
  <2> QED
    BY <1>1, <1>4, <1>6, <2>3, <2>4
<1>7. CASE cnt # 0 /\ CanAlloc(w.t, cnt)
  <2>1. PICK start : start = MinOf(FreeClusters(w.t))
    OBVIOUS
  <2>2. PICK a : a = cluster_alloc_free(w.t, cnt)
    OBVIOUS
  <2>3. PICK u : u = IF Len(p) = 0 THEN a ELSE cluster_set_next(a, p[Len(p)], start)
    OBVIOUS
  <2>4. PICK first : first = IF Len(p) = 0 THEN start ELSE w.f.sblk
    OBVIOUS
  <2>5. cnt \in Nat \ {0}
    BY <1>1, <1>7
  <2>6. /\ start \in Cluster /\ \A d \in O : u[d] = w.t[d]
        /\ \E q : /\ Owns(u, first, q, O) /\ Ended(u, q)
                  /\ Longer(p, q) /\ Len(q) = Len(p) + cnt
                  /\ Len(p) = 0 => q[1] = start
    <3>1. PICK t, c : t = w.t /\ c = w.f.sblk
      OBVIOUS
    <3>2. Owns(t, c, p, O) /\ Ended(t, p)
      BY <1>2, <3>1
    <3>4. Linked(t, c, p, cnt, start, u, first)
      BY <1>7, <2>1, <2>2, <2>3, <2>4, <2>5, <3>1 DEF Linked
    <3>5. /\ start \in Cluster /\ \A d \in O : u[d] = t[d]
          /\ \E q : /\ Owns(u, first, q, O) /\ Ended(u, q)
                    /\ Longer(p, q) /\ Len(q) = Len(p) + cnt
                    /\ Len(p) = 0 => q[1] = start
      BY <3>2, <3>4, PathGrows
    <3> QED
      BY <3>1, <3>5
  <2>7. PICK q : /\ Owns(u, first, q, O) /\ Ended(u, q)
                 /\ Longer(p, q) /\ Len(q) = Len(p) + cnt
                 /\ Len(p) = 0 => q[1] = start
    BY <2>6
  <2>8. u \in [Cluster -> Link] /\ start \in Link /\ first \in Link
    BY <1>2, <2>4, <2>6, <2>7 DEF Owns, Link, WorkRec, File
  <2>9. Len(p) = 0 <=> ~ cluster_is_valid(w.f.sblk)
    <3>1. w.f.sblk \in Link
      BY <1>2 DEF WorkRec, File
    <3>2. IF Len(p) = 0 THEN w.f.sblk \notin Cluster ELSE w.f.sblk = p[1]
      BY <1>2 DEF Owns, Path
    <3>3. Len(p) # 0 => w.f.sblk \in Cluster
      BY <1>3, <3>2
    <3> QED
      BY <3>1, <3>2, <3>3, LinkFacts
  <2>10. PICK x : x = [bread_sector(w, "fat") EXCEPT !.t = a]
    OBVIOUS
  <2>11. x = [w EXCEPT !.sec = "fat", !.buf = "fat", !.t = a]
    BY <1>2, <2>10, BreadSector DEF WorkRec
  <2>12. v = IF Len(p) = 0 THEN [x EXCEPT !.f.sblk = start, !.f.cblk = start]
             ELSE [x EXCEPT !.t = cluster_set_next(@, w.f.cblk, start),
                            !.ok = cluster_is_valid(w.f.cblk)]
    BY <1>7, <2>1, <2>2, <2>9, <2>10 DEF expand_file
  <2>13. CASE Len(p) = 0
    <3> DEFINE g == [w.f EXCEPT !.sblk = start, !.cblk = start]
    <3>0. g \in File /\ g.sblk = start /\ g.cblk = start
      BY <1>2, <2>8 DEF WorkRec, File
    <3>1. v = [w EXCEPT !.sec = "fat", !.buf = "fat", !.t = a, !.f = g]
      BY <1>2, <2>11, <2>12, <2>13 DEF WorkRec, File
    <3>2. u = a /\ first = start
      BY <2>3, <2>4, <2>13
    <3>3. v \in WorkRec /\ v.t = u /\ v.f.sblk = start /\ v.f.cblk = start /\ v.ok
      <4> HIDE DEF g
      <4> QED
        BY <1>2, <2>8, <3>0, <3>1, <3>2 DEF WorkRec, Sector, Buffer
    <3>4. SameBytes(w, v) /\ Cached(v.sec, v.buf)
      BY <1>2, <3>1 DEF WorkRec, File, SameBytes, Cached
    <3>5. Held(v, q, O)
      BY <2>7, <3>2, <3>3, <3>4 DEF Held
    <3> QED
      BY <2>5, <2>6, <2>7, <2>13, <3>3, <3>4, <3>5
  <2>14. CASE Len(p) # 0
    <3>1. w.f.cblk = p[Len(p)] /\ w.f.cblk \in Cluster
      <4>1. Len(p) \in 1..Len(p)
        BY <1>3, <2>14
      <4> QED
        BY <1>3, <2>5, <2>14, <4>1
    <3>2. cluster_is_valid(w.f.cblk) /\ w.f.cblk \in Link
      BY <3>1, LinkFacts DEF Link
    <3>3. v = [w EXCEPT !.sec = "fat", !.buf = "fat", !.t = u, !.ok = TRUE]
      BY <1>2, <2>3, <2>11, <2>12, <2>14, <3>1, <3>2 DEF WorkRec
    <3>4. v \in WorkRec /\ v.t = u /\ v.f = w.f /\ v.ok
      BY <1>2, <2>8, <3>3 DEF WorkRec, Sector, Buffer
    <3>5. SameBytes(w, v) /\ Cached(v.sec, v.buf)
      BY <1>2, <3>3 DEF WorkRec, SameBytes, Cached
    <3>6. Held(v, q, O)
      BY <2>4, <2>7, <2>14, <3>4, <3>5 DEF Held
    <3> QED
      BY <2>6, <2>7, <2>14, <3>4, <3>5, <3>6
  <2> QED
    BY <2>13, <2>14
<1> QED
  BY <1>5, <1>6, <1>7

-----------------------------------------------------------------------------
\* Reading.

\* The k-th byte of a file whose chain starts at c.
ByteAt(t, d, c, k) ==
  LET b == Nth(t, c, Quot(k - 1))
  IN  IF b \in Cluster THEN d[b][Rem(k - 1) + 1] ELSE "outside"

(* A function on 1..n is a sequence.                                        *)
LEMMA FunSeq ==
  ASSUME NEW S, NEW n \in Nat, NEW g \in [1..n -> S]
  PROVE  g \in Seq(S) /\ Len(g) = n
OBVIOUS

(* A round does one byte at least and ends with the cluster.                *)
LEMMA RoundFacts ==
  ASSUME NEW w \in WorkRec, w.left # 0
  PROVE  /\ Round(w) \in Nat /\ Round(w) >= 1 /\ Round(w) <= w.left
         /\ Rem(w.f.pos) + Round(w) <= ClusterSize
         /\ Offset(w.f) = Rem(w.f.pos) /\ w.f.pos \in Nat
         /\ Rem(w.f.pos) \in 0..(ClusterSize - 1)
<1>1. w.left \in Nat /\ w.f.pos \in Nat
  BY DEF WorkRec, File
<1>2. Rem(w.f.pos) \in 0..(ClusterSize - 1) /\ Offset(w.f) = Rem(w.f.pos) /\ ClusterSize \in Nat
  BY <1>1, QuotRem, FatFsAssumption DEF Offset, Rem
<1> QED
  BY <1>1, <1>2 DEF Round, Lesser

(* What moves through fat_buffer changes nothing else.                      *)
LEMMA ThroughBufferFacts ==
  ASSUME NEW w \in WorkRec, Cached(w.sec, w.buf)
  PROVE  /\ ThroughBuffer(w) \in WorkRec /\ Cached(ThroughBuffer(w).sec, ThroughBuffer(w).buf)
         /\ \E s \in Sector, b \in Buffer : ThroughBuffer(w) = [w EXCEPT !.sec = s, !.buf = b]
<1>1. CASE Whole(w)
  <2>1. ThroughBuffer(w) = w
    BY <1>1 DEF ThroughBuffer
  <2>2. w = [w EXCEPT !.sec = w.sec, !.buf = w.buf] /\ w.sec \in Sector /\ w.buf \in Buffer
    BY DEF WorkRec
  <2> QED
    BY <2>1, <2>2
<1>2. CASE ~ Whole(w)
  BY <1>2 DEF ThroughBuffer, WorkRec, Cached, Sector, Buffer
<1> QED
  BY <1>1, <1>2

(* LookUp reads the table into fat_buffer, or nothing.                      *)
LEMMA LookUpFacts ==
  ASSUME NEW w \in WorkRec, Cached(w.sec, w.buf)
  PROVE  /\ LookUp(w) \in WorkRec /\ Cached(LookUp(w).sec, LookUp(w).buf)
         /\ \E s \in Sector, b \in Buffer : LookUp(w) = [w EXCEPT !.sec = s, !.buf = b]
<1>1. CASE w.f.cblk \in Cluster
  BY <1>1, BreadSector DEF LookUp, WorkRec, Cached, Sector, Buffer
<1>2. CASE w.f.cblk \notin Cluster
  <2>1. LookUp(w) = w
    BY <1>2 DEF LookUp
  <2>2. w = [w EXCEPT !.sec = w.sec, !.buf = w.buf] /\ w.sec \in Sector /\ w.buf \in Buffer
    BY DEF WorkRec
  <2> QED
    BY <2>1, <2>2
<1> QED
  BY <1>1, <1>2

\* w is work on a file whose current cluster is the one its position is in.
InPlace(w) == w.f.cblk = Nth(w.t, w.f.sblk, Quot(w.f.pos))

\* v is w, n bytes further, but for fat_buffer.
Further(w, v, n) ==
  /\ v \in WorkRec /\ Cached(v.sec, v.buf)
  /\ v.t = w.t /\ v.d = w.d /\ v.ok = w.ok /\ v.left = w.left /\ v.out = w.out
  /\ v.f.slot = w.f.slot /\ v.f.mode = w.f.mode /\ v.f.size = w.f.size
  /\ v.f.sblk = w.f.sblk /\ v.f.pos = w.f.pos + n
  /\ InPlace(v)

(* move_file_pos inside of a cluster.                                       *)
LEMMA MoveInside ==
  ASSUME NEW w \in WorkRec, Cached(w.sec, w.buf), InPlace(w), NEW n \in Nat, NEW expand,
         Rem(w.f.pos) + n < ClusterSize, NEW v, v = move_file_pos(w, n, expand)
  PROVE  Further(w, v, n)
<1>1. w.f.pos \in Nat /\ w.f \in File /\ Offset(w.f) = Rem(w.f.pos)
  BY DEF WorkRec, File, Offset, Rem
<1>2. v = [w EXCEPT !.f.pos = @ + n]
  BY <1>1 DEF move_file_pos
<1>3. PICK g : g = [w.f EXCEPT !.pos = w.f.pos + n]
  OBVIOUS
<1>9. g \in File
  BY <1>1, <1>3 DEF File
<1>4. /\ g.slot = w.f.slot /\ g.mode = w.f.mode /\ g.size = w.f.size
      /\ g.sblk = w.f.sblk /\ g.cblk = w.f.cblk /\ g.pos = w.f.pos + n
  BY <1>1, <1>3 DEF File
<1>5. v = [w EXCEPT !.f = g]
  BY <1>2, <1>3 DEF WorkRec, File
<1>6. /\ v \in WorkRec /\ v.f = g /\ v.sec = w.sec /\ v.buf = w.buf
      /\ v.t = w.t /\ v.d = w.d /\ v.ok = w.ok /\ v.left = w.left /\ v.out = w.out
  BY <1>5, <1>9 DEF WorkRec
<1>7. Quot(w.f.pos + n) = Quot(w.f.pos)
  BY <1>1, QuotForward
<1>8. InPlace(v)
  BY <1>4, <1>6, <1>7 DEF InPlace
<1> QED
  BY <1>4, <1>6, <1>8 DEF Further

\* advance of move_file_pos.
Advance(x, n) ==
  [LookUp(x) EXCEPT !.f.cblk = cluster_get_next(x.t, x.f.cblk), !.f.pos = @ + n]

(* The end of a cluster: the next one in the table.                         *)
LEMMA AdvanceFacts ==
  ASSUME NEW w \in WorkRec, Cached(w.sec, w.buf), InPlace(w), NEW n \in Nat,
         Rem(w.f.pos) + n = ClusterSize, NEW v, v = Advance(w, n)
  PROVE  Further(w, v, n)
<1>1. w.f.pos \in Nat /\ w.f \in File /\ w.t \in [Cluster -> Link] /\ w.f.cblk \in Link
  BY DEF WorkRec, File
<1>2. PICK next \in Link : next = cluster_get_next(w.t, w.f.cblk)
  BY <1>1, LinkFacts DEF cluster_get_next
<1>3. PICK s \in Sector, b \in Buffer : LookUp(w) = [w EXCEPT !.sec = s, !.buf = b]
  BY LookUpFacts
<1>4. Cached(s, b)
  <2>1. PICK x : x = LookUp(w)
    OBVIOUS
  <2>2. Cached(x.sec, x.buf)
    BY <2>1, LookUpFacts
  <2>3. x.sec = s /\ x.buf = b
    BY <1>3, <2>1 DEF WorkRec
  <2> QED
    BY <2>2, <2>3
<1>5. PICK g : g = [w.f EXCEPT !.cblk = next, !.pos = w.f.pos + n]
  OBVIOUS
<1>12. g \in File
  <2>1. PICK x \in File, y \in Nat : x = w.f /\ y = w.f.pos + n
    BY <1>1
  <2>2. g = [x EXCEPT !.cblk = next, !.pos = y]
    BY <1>5, <2>1
  <2> QED
    BY <1>2, <2>2 DEF File
<1>6. /\ g.slot = w.f.slot /\ g.mode = w.f.mode /\ g.size = w.f.size
      /\ g.sblk = w.f.sblk /\ g.cblk = next /\ g.pos = w.f.pos + n
  BY <1>1, <1>5 DEF File
<1>7. v = [w EXCEPT !.sec = s, !.buf = b, !.f = g]
  BY <1>2, <1>3, <1>5 DEF Advance, WorkRec, File
<1>8. /\ v \in WorkRec /\ v.f = g /\ v.sec = s /\ v.buf = b
      /\ v.t = w.t /\ v.d = w.d /\ v.ok = w.ok /\ v.left = w.left /\ v.out = w.out
  BY <1>7, <1>12 DEF WorkRec
<1>9. Quot(w.f.pos + n) = Quot(w.f.pos) + 1
  BY <1>1, QuotForward
<1>10. next = Nth(w.t, w.f.sblk, Quot(w.f.pos) + 1)
  <2>1. Quot(w.f.pos) \in Nat
    BY <1>1, QuotRem
  <2> QED
    BY <1>2, <2>1, NthSteps DEF InPlace
<1>11. InPlace(v)
  BY <1>6, <1>8, <1>9, <1>10 DEF InPlace
<1> QED
  BY <1>4, <1>6, <1>8, <1>11 DEF Further

(* move_file_pos without expansion, as fatfs_read calls it.                 *)
LEMMA MoveToRead ==
  ASSUME NEW w \in WorkRec, Cached(w.sec, w.buf), InPlace(w), NEW n \in Nat,
         Rem(w.f.pos) + n <= ClusterSize, NEW v, v = move_file_pos(w, n, FALSE)
  PROVE  Further(w, v, n)
<1>3. w.f.pos \in Nat /\ Rem(w.f.pos) \in Nat /\ ClusterSize \in Nat
  <2>1. PICK a \in Nat : a = w.f.pos
    BY DEF WorkRec, File
  <2>2. Rem(a) \in 0..(ClusterSize - 1) /\ ClusterSize \in Nat
    BY QuotRem, FatFsAssumption
  <2> QED
    BY <2>1, <2>2
<1>1. CASE Rem(w.f.pos) + n < ClusterSize
  BY <1>1, MoveInside
<1>2. CASE Rem(w.f.pos) + n = ClusterSize
  <2>1. Offset(w.f) = Rem(w.f.pos)
    BY DEF Offset, Rem
  <2>2. v = Advance(w, n)
    BY <1>2, <1>3, <2>1 DEF move_file_pos, Advance
  <2> QED
    BY <1>2, <2>2, AdvanceFacts
<1>4. Rem(w.f.pos) + n < ClusterSize \/ Rem(w.f.pos) + n = ClusterSize
  BY <1>3
<1> QED
  BY <1>1, <1>2, <1>4

\* The read that began with w0 has come to w.
Reading(w, w0) ==
  /\ w \in WorkRec /\ Cached(w.sec, w.buf) /\ InPlace(w)
  /\ w.t = w0.t /\ w.d = w0.d
  /\ w.f.slot = w0.f.slot /\ w.f.mode = w0.f.mode /\ w.f.size = w0.f.size
  /\ w.f.sblk = w0.f.sblk /\ w.f.pos = w0.f.pos + Len(w.out)
  /\ Len(w.out) + w.left = w0.left
  /\ \A k \in 1..Len(w.out) : w.out[k] = ByteAt(w0.t, w0.d, w0.f.sblk, w0.f.pos + k)

(* The bytes of one round are those of the file at its position.            *)
LEMMA RoundBytes ==
  ASSUME NEW w \in WorkRec, InPlace(w), w.left # 0, NEW got,
         got = IF w.f.cblk \in Cluster
               THEN SubSeq(w.d[w.f.cblk], Offset(w.f) + 1, Offset(w.f) + Round(w))
               ELSE [i \in 1..Round(w) |-> "outside"]
  PROVE  /\ got \in Seq(Byte) /\ Len(got) = Round(w)
         /\ \A j \in 1..Round(w) : got[j] = ByteAt(w.t, w.d, w.f.sblk, w.f.pos + j)
<1>1. PICK n \in Nat, off \in Nat : n = Round(w) /\ off = Rem(w.f.pos) /\ off = Offset(w.f)
  BY RoundFacts
<1>2. n >= 1 /\ off + n <= ClusterSize /\ w.f.pos \in Nat /\ ClusterSize \in Nat
  BY <1>1, RoundFacts, FatFsAssumption
<1>3. ASSUME NEW j \in 1..n
      PROVE  ByteAt(w.t, w.d, w.f.sblk, w.f.pos + j) =
               IF w.f.cblk \in Cluster THEN w.d[w.f.cblk][off + j] ELSE "outside"
  <2>1. PICK m \in Nat : m = j - 1 /\ off + m < ClusterSize
    <3>1. j - 1 \in Nat /\ off + (j - 1) < ClusterSize
      BY <1>2
    <3> QED
      BY <3>1
  <2>2. Quot(w.f.pos + m) = Quot(w.f.pos) /\ Rem(w.f.pos + m) = off + m
    <3>1. PICK a \in Nat : a = w.f.pos
      BY <1>2
    <3>2. Rem(a) + m < ClusterSize
      BY <1>1, <2>1, <3>1
    <3>3. Quot(a + m) = Quot(a) /\ Rem(a + m) = Rem(a) + m
      BY <3>2, QuotForward
    <3> QED
      BY <1>1, <3>1, <3>3
  <2>3. (w.f.pos + j) - 1 = w.f.pos + m /\ (off + m) + 1 = off + j
    BY <1>2, <2>1
  <2>4. ByteAt(w.t, w.d, w.f.sblk, w.f.pos + j) =
          IF Nth(w.t, w.f.sblk, Quot(w.f.pos + m)) \in Cluster
          THEN w.d[Nth(w.t, w.f.sblk, Quot(w.f.pos + m))][Rem(w.f.pos + m) + 1] ELSE "outside"
    BY <2>3 DEF ByteAt
  <2> QED
    BY <2>2, <2>3, <2>4 DEF InPlace
<1>4. CASE w.f.cblk \in Cluster
  <2>1. PICK blk \in Block : blk = w.d[w.f.cblk]
    BY <1>4 DEF WorkRec
  <2>2. got = SubSeq(blk, off + 1, off + n)
    BY <1>1, <1>4, <2>1
  <2>3. \A i \in (off + 1)..(off + n) : blk[i] \in Byte
    BY <1>2, <2>1 DEF Block
  <2>4. /\ got \in Seq(Byte)
        /\ Len(got) = IF off + 1 <= off + n THEN (off + n) - (off + 1) + 1 ELSE 0
        /\ \A j \in 1..((off + n) - (off + 1) + 1) : got[j] = blk[(off + 1) + j - 1]
    <3>1. PICK x \in Int, y \in Int : x = off + 1 /\ y = off + n
      OBVIOUS
    <3>2. \A i \in x..y : blk[i] \in Byte
      BY <2>3, <3>1
    <3>3. /\ SubSeq(blk, x, y) \in Seq(Byte)
          /\ Len(SubSeq(blk, x, y)) = IF x <= y THEN y - x + 1 ELSE 0
          /\ \A j \in 1..(y - x + 1) : SubSeq(blk, x, y)[j] = blk[x + j - 1]
      BY <3>2, SubSeqProperties
    <3> QED
      BY <2>2, <3>1, <3>3
  <2>5. Len(got) = n /\ \A j \in 1..n : got[j] = blk[off + j]
    <3>1. (off + n) - (off + 1) + 1 = n /\ off + 1 <= off + n
      BY <1>2
    <3>2. \A j \in 1..n : (off + 1) + j - 1 = off + j
      OBVIOUS
    <3> QED
      BY <2>4, <3>1, <3>2
  <2> QED
    BY <1>1, <1>3, <1>4, <2>1, <2>4, <2>5
<1>5. CASE w.f.cblk \notin Cluster
  <2>1. got = [i \in 1..n |-> "outside"]
    BY <1>1, <1>5
  <2>2. got \in [1..n -> Byte] /\ \A j \in 1..n : got[j] = "outside"
    BY <2>1 DEF Byte
  <2>3. got \in Seq(Byte) /\ Len(got) = n
    BY <2>2, FunSeq
  <2> QED
    BY <1>1, <1>3, <1>5, <2>2, <2>3
<1> QED
  BY <1>4, <1>5

(* One round of the loop of fatfs_read.                                     *)
LEMMA ReadRoundFacts ==
  ASSUME NEW w, NEW w0 \in WorkRec, Reading(w, w0), w.left # 0, NEW v, v = ReadRound(w)
  PROVE  Reading(v, w0) /\ v.left < w.left
<1>1. /\ w \in WorkRec /\ Cached(w.sec, w.buf) /\ InPlace(w) /\ w.t = w0.t /\ w.d = w0.d
      /\ w.f.slot = w0.f.slot /\ w.f.mode = w0.f.mode /\ w.f.size = w0.f.size
      /\ w.f.sblk = w0.f.sblk /\ w.f.pos = w0.f.pos + Len(w.out)
      /\ Len(w.out) + w.left = w0.left
      /\ \A k \in 1..Len(w.out) : w.out[k] = ByteAt(w0.t, w0.d, w0.f.sblk, w0.f.pos + k)
  BY DEF Reading
<1>2. PICK n \in Nat : /\ n = Round(w) /\ n >= 1 /\ n <= w.left
                       /\ Rem(w.f.pos) + n <= ClusterSize
  BY <1>1, RoundFacts
<1>3. PICK got : got = IF w.f.cblk \in Cluster
               THEN SubSeq(w.d[w.f.cblk], Offset(w.f) + 1, Offset(w.f) + Round(w))
               ELSE [i \in 1..Round(w) |-> "outside"]
  OBVIOUS
<1>4. /\ got \in Seq(Byte) /\ Len(got) = n
      /\ \A j \in 1..n : got[j] = ByteAt(w.t, w.d, w.f.sblk, w.f.pos + j)
  BY <1>1, <1>2, <1>3, RoundBytes
<1>5. PICK s \in Sector, b \in Buffer : ThroughBuffer(w) = [w EXCEPT !.sec = s, !.buf = b]
  BY <1>1, ThroughBufferFacts
<1>6. Cached(s, b)
  <2>1. PICK x : x = ThroughBuffer(w)
    OBVIOUS
  <2>2. Cached(x.sec, x.buf)
    BY <1>1, <2>1, ThroughBufferFacts
  <2>3. x.sec = s /\ x.buf = b
    BY <1>1, <1>5, <2>1 DEF WorkRec
  <2> QED
    BY <2>2, <2>3
<1>7. /\ w.out \in Seq(Byte) /\ Len(w.out) \in Nat /\ w.left \in Nat /\ w.left - n \in Nat
      /\ w0.f.pos \in Nat /\ w0.left \in Nat /\ w.f.pos \in Nat
  BY <1>1, <1>2, LenProperties DEF WorkRec, File
<1>8. PICK o : /\ o \in Seq(Byte) /\ o = w.out \o got /\ Len(o) = Len(w.out) + n
               /\ \A k \in 1..(Len(w.out) + n) :
                    o[k] = IF k <= Len(w.out) THEN w.out[k] ELSE got[k - Len(w.out)]
  <2>1. PICK x : x = w.out /\ x \in Seq(Byte)
    BY <1>7
  <2>2. /\ x \o got \in Seq(Byte) /\ Len(x \o got) = Len(x) + Len(got)
        /\ \A k \in 1..(Len(x) + Len(got)) :
             (x \o got)[k] = IF k <= Len(x) THEN x[k] ELSE got[k - Len(x)]
    BY <1>4, <2>1, ConcatProperties
  <2> QED
    BY <1>4, <2>1, <2>2
<1>9. PICK w2 : w2 = [ThroughBuffer(w) EXCEPT !.left = @ - Round(w), !.out = @ \o got]
  OBVIOUS
<1>10. w2 = [w EXCEPT !.sec = s, !.buf = b, !.left = w.left - n, !.out = o]
  BY <1>1, <1>2, <1>5, <1>8, <1>9 DEF WorkRec
<1>11. /\ w2 \in WorkRec /\ w2.sec = s /\ w2.buf = b /\ w2.left = w.left - n /\ w2.out = o
       /\ w2.t = w.t /\ w2.d = w.d /\ w2.f = w.f
  BY <1>1, <1>7, <1>8, <1>10 DEF WorkRec
<1>12. v = move_file_pos(w2, n, FALSE)
  BY <1>2, <1>3, <1>9 DEF ReadRound
<1>13. Further(w2, v, n)
  <2>1. InPlace(w2) /\ Cached(w2.sec, w2.buf) /\ Rem(w2.f.pos) + n <= ClusterSize
    BY <1>1, <1>2, <1>6, <1>11 DEF InPlace
  <2> QED
    BY <1>11, <1>12, <2>1, MoveToRead
<1>14. \A k \in 1..Len(o) : o[k] = ByteAt(w0.t, w0.d, w0.f.sblk, w0.f.pos + k)
  <2> TAKE k \in 1..Len(o)
  <2>1. CASE k <= Len(w.out)
    BY <1>1, <1>7, <1>8, <2>1
  <2>2. CASE ~ (k <= Len(w.out))
    <3>0. PICK x \in Nat, z \in Nat : x = Len(w.out) /\ z = w0.f.pos
      BY <1>7
    <3>1. PICK j \in 1..n : j = k - Len(w.out)
      <4>1. Len(o) = x + n /\ ~ (k <= x)
        BY <1>8, <2>2, <3>0
      <4>2. k - x \in 1..n
        BY <4>1
      <4> QED
        BY <3>0, <4>2
    <3>2. w.f.pos + j = w0.f.pos + k
      <4>1. j = k - x /\ w.f.pos = z + x
        BY <1>1, <3>0, <3>1
      <4>2. (z + x) + j = z + k
        BY <4>1
      <4> QED
        BY <3>0, <4>1, <4>2
    <3> QED
      BY <1>1, <1>4, <1>7, <1>8, <2>2, <3>1, <3>2
  <2> QED
    BY <2>1, <2>2
<1>15. /\ v.out = o /\ v.left = w.left - n /\ v.t = w0.t /\ v.d = w0.d
       /\ v.f.pos = w.f.pos + n
  BY <1>1, <1>11, <1>13 DEF Further
<1>16. Len(o) + (w.left - n) = w0.left /\ w.f.pos + n = w0.f.pos + Len(o) /\ w.left - n < w.left
  <2>1. PICK x \in Nat, y \in Nat, z \in Nat : x = Len(w.out) /\ y = w.left /\ z = w0.f.pos
    BY <1>7
  <2>2. Len(o) = x + n /\ x + y = w0.left /\ w.f.pos = z + x
    BY <1>1, <1>8, <2>1
  <2>3. (x + n) + (y - n) = x + y /\ (z + x) + n = z + (x + n) /\ y - n < y
    BY <1>2
  <2> QED
    BY <2>1, <2>2, <2>3
<1>17. /\ v \in WorkRec /\ Cached(v.sec, v.buf) /\ InPlace(v)
       /\ v.f.slot = w0.f.slot /\ v.f.mode = w0.f.mode /\ v.f.size = w0.f.size
       /\ v.f.sblk = w0.f.sblk
  BY <1>1, <1>11, <1>13 DEF Further
<1> QED
  BY <1>14, <1>15, <1>16, <1>17 DEF Reading

(* The loop of fatfs_read ends with every byte read.                        *)
LEMMA ReadLoopFacts ==
  ASSUME NEW w \in WorkRec, Cached(w.sec, w.buf), InPlace(w), Len(w.out) = 0,
         NEW v, v = ReadLoop(w)
  PROVE  Reading(v, w) /\ v.left = 0
<1>1. PICK n \in Nat : n = w.left
  BY DEF WorkRec
<1>2. PICK f : Run("read", w, w, n, f) /\ v = f[n]
  BY <1>1, ReadLoopRun
<1>3. f[0] = w /\ \A k \in 0..(n - 1) : f[k + 1] = Repeated("read", w, f[k])
  <2>1. Run("read", w, w, n, f)
    BY <1>2
  <2> QED
    BY <2>1, RunRounds
<1>4. \A k \in 0..(n - 1) : f[k + 1] = ReadRound(f[k])
  BY <1>3 DEF Repeated
<1> DEFINE G(k) == Reading(f[k], w) /\ f[k].left + k <= n
           S == {k \in Nat : k <= n => G(k)}
<1>5. 0 \in S
  <2>1. Reading(w, w)
    <3>1. w.f.pos \in Nat /\ w.left \in Nat
      BY DEF WorkRec, File
    <3> QED
      BY <3>1 DEF Reading
  <2> QED
    BY <1>1, <1>3, <2>1
<1>6. ASSUME NEW k \in S
      PROVE  k + 1 \in S
  <2>1. SUFFICES ASSUME k + 1 <= n PROVE G(k + 1)
    OBVIOUS
  <2>2. k \in Nat /\ G(k) /\ f[k + 1] = ReadRound(f[k])
    BY <1>4, <2>1
  <2>3. PICK x, y : x = f[k] /\ y = f[k + 1]
    OBVIOUS
  <2>4. Reading(x, w) /\ x.left + k <= n /\ y = ReadRound(x) /\ x.left \in Nat
    BY <2>2, <2>3 DEF Reading, WorkRec
  <2>5. CASE x.left = 0
    <3>1. y = x
      BY <2>4, <2>5 DEF ReadRound
    <3> QED
      BY <2>1, <2>2, <2>3, <2>4, <2>5, <3>1
  <2>6. CASE x.left # 0
    <3>1. Reading(y, w) /\ y.left < x.left
      BY <2>4, <2>6, ReadRoundFacts
    <3>2. y.left \in Nat
      BY <3>1 DEF Reading, WorkRec
    <3>3. y.left + (k + 1) <= n
      BY <2>2, <2>4, <3>1, <3>2
    <3> QED
      BY <2>3, <3>1, <3>3
  <2> QED
    BY <2>5, <2>6
<1> HIDE DEF S
<1>7. S = Nat
  <2>1. S \in SUBSET Nat
    BY DEF S
  <2> QED
    BY <1>5, <1>6, <2>1, NatInd
<1>8. G(n)
  BY <1>7 DEF S
<1>9. Reading(v, w) /\ v.left + n <= n /\ v.left \in Nat
  BY <1>2, <1>8 DEF Reading, WorkRec
<1> QED
  BY <1>9

-----------------------------------------------------------------------------
\* Writing.

(* The current cluster of work in place is on the path.                     *)
LEMMA PlaceOnPath ==
  ASSUME NEW w \in WorkRec, NEW p, Path(w.t, w.f.sblk, p), InPlace(w), Quot(w.f.pos) < Len(p)
  PROVE  /\ Quot(w.f.pos) \in Nat /\ Quot(w.f.pos) + 1 \in 1..Len(p)
         /\ w.f.cblk = p[Quot(w.f.pos) + 1] /\ w.f.cblk \in Cluster
<1>1. PICK a \in Nat : a = w.f.pos
  BY DEF WorkRec, File
<1>2. PICK k \in Nat : k = Quot(a)
  BY QuotRem
<1>3. Len(p) \in Nat /\ \A j \in 1..Len(p) : p[j] \in Cluster
  BY PathTypes
<1>4. IF k < Len(p) THEN Nth(w.t, w.f.sblk, k) = p[k + 1] ELSE Nth(w.t, w.f.sblk, k) \notin Cluster
  BY NthOnPath
<1>5. k + 1 \in 1..Len(p)
  BY <1>1, <1>2, <1>3
<1> QED
  BY <1>1, <1>2, <1>3, <1>4, <1>5 DEF InPlace

(* On two paths from the same cluster, Nth agrees as far as the shorter.    *)
LEMMA NthLonger ==
  ASSUME NEW t, NEW u, NEW c, NEW e, NEW p, NEW q, Path(t, c, p), Path(u, e, q), Longer(p, q),
         NEW k \in Nat, k < Len(p)
  PROVE  Nth(u, e, k) = p[k + 1] /\ Nth(t, c, k) = p[k + 1] /\ p[k + 1] \in Cluster
<1>1. Len(p) \in Nat /\ Len(q) \in Nat /\ \A j \in 1..Len(p) : p[j] \in Cluster
  BY PathTypes
<1>2. k + 1 \in 1..Len(p) /\ k < Len(q)
  BY <1>1 DEF Longer
<1>3. Nth(t, c, k) = p[k + 1]
  BY NthOnPath
<1>4. Nth(u, e, k) = q[k + 1]
  BY <1>2, NthOnPath
<1> QED
  BY <1>1, <1>2, <1>3, <1>4 DEF Longer

(* A path that has grown starts where it did.                               *)
LEMMA StartKept ==
  ASSUME NEW t, NEW u, NEW c, NEW e, NEW p, NEW q, Path(t, c, p), Path(u, e, q), Longer(p, q),
         Len(p) > 0
  PROVE  c = e
<1>1. Len(p) \in Nat /\ Len(q) \in Nat
  BY PathTypes
<1>2. 1 \in 1..Len(p) /\ Len(q) # 0 /\ Len(p) # 0
  BY <1>1 DEF Longer
<1> QED
  BY <1>2 DEF Path, Longer

\* move_file_pos has brought w, whose path is p, n bytes forward, or has met a
\* full disk at the end of the last cluster.
Moved(w, v, n, p, q, O) ==
  /\ Held(v, q, O) /\ InPlace(v) /\ Longer(p, q) /\ Quot(v.f.pos) < Len(q)
  /\ v.d = w.d /\ v.left = w.left /\ v.out = w.out
  /\ v.f.slot = w.f.slot /\ v.f.mode = w.f.mode /\ v.f.size = w.f.size
  /\ v.f.sblk = w.f.sblk
  /\ \A d \in O : v.t[d] = w.t[d]
  /\ v.ok => /\ v.f.pos = w.f.pos + n
             /\ Len(q) = Len(p) \/ Len(q) = Quot(v.f.pos) + 1
  /\ ~ v.ok => v.f.pos = w.f.pos /\ Len(q) = Len(p) /\ Len(q) = Quot(v.f.pos) + 1

(* A step that neither allocates nor fails.                                 *)
LEMMA FurtherMoves ==
  ASSUME NEW w, NEW p, NEW O, Held(w, p, O), w.ok, NEW n \in Nat, NEW v, Further(w, v, n),
         Quot(v.f.pos) < Len(p)
  PROVE  Moved(w, v, n, p, p, O)
<1>1. Longer(p, p)
  <2>1. Len(p) \in Nat
    BY PathTypes DEF Held, Owns
  <2> QED
    BY <2>1 DEF Longer
<1>2. Held(v, p, O)
  BY DEF Held, Further
<1> QED
  BY <1>1, <1>2 DEF Moved, Further

(* move_file_pos with expansion, as fatfs_write calls it.                   *)
LEMMA MoveToWrite ==
  ASSUME NEW w, NEW p, NEW O, Held(w, p, O), w.ok, InPlace(w), Quot(w.f.pos) < Len(p),
         w.f.size > 0, NEW n \in Nat, Rem(w.f.pos) + n <= ClusterSize,
         NEW v, v = move_file_pos(w, n, TRUE)
  PROVE  \E q : Moved(w, v, n, p, q, O)
<1>1. /\ w \in WorkRec /\ Cached(w.sec, w.buf) /\ Path(w.t, w.f.sblk, p)
      /\ w.t \in [Cluster -> Link] /\ Ended(w.t, p)
  BY DEF Held, Owns
<1>2. PICK a \in Nat : a = w.f.pos
  BY <1>1 DEF WorkRec, File
<1>3. PICK k \in Nat, r \in Nat : k = Quot(a) /\ r = Rem(a)
  BY QuotRem
<1>4. PICK m \in Nat : m = Len(p)
  BY <1>1, PathTypes
<1>5. k < m /\ k + 1 \in 1..m /\ w.f.cblk = p[k + 1] /\ w.f.cblk \in Cluster
  BY <1>1, <1>2, <1>3, <1>4, PlaceOnPath
<1>6. ClusterSize \in Nat /\ r + n <= ClusterSize /\ Offset(w.f) = r
  BY <1>2, <1>3, FatFsAssumption DEF Offset, Rem
<1>7. CASE r + n < ClusterSize
  <2>1. Further(w, v, n)
    BY <1>1, <1>2, <1>3, <1>7, MoveInside
  <2>2. Quot(v.f.pos) = k
    <3>1. Quot(a + n) = Quot(a)
      BY <1>3, <1>7, QuotForward
    <3> QED
      BY <1>2, <1>3, <2>1, <3>1 DEF Further
  <2>3. Quot(v.f.pos) < Len(p)
    BY <1>4, <1>5, <2>2
  <2> QED
    BY <2>1, <2>3, FurtherMoves
<1>8. CASE r + n = ClusterSize
  <2>1. Quot(a + n) = k + 1
    BY <1>3, <1>8, QuotForward
  <2>2. cluster_get_next(w.t, w.f.cblk) = w.t[p[k + 1]]
    BY <1>5 DEF cluster_get_next
  <2>3. ~ (Offset(w.f) + n < ClusterSize)
    BY <1>6, <1>8
  <2>4. CASE cluster_get_next(w.t, w.f.cblk) # FAT_CLUSTER_INVALID
    <3>1. v = Advance(w, n)
      BY <2>3, <2>4 DEF move_file_pos, Advance
    <3>2. Further(w, v, n)
      BY <1>1, <1>2, <1>3, <1>8, <3>1, AdvanceFacts
    <3>3. k + 1 # m
      BY <1>4, <1>5, <1>1, <2>2, <2>4 DEF Ended
    <3>4. Quot(v.f.pos) < Len(p)
      <4>1. v.f.pos = a + n
        BY <1>2, <3>2 DEF Further
      <4>2. k + 1 < m
        BY <1>5, <3>3
      <4> QED
        BY <1>4, <4>1, <2>1, <4>2
    <3> QED
      BY <3>2, <3>4, FurtherMoves
  <2>5. CASE cluster_get_next(w.t, w.f.cblk) = FAT_CLUSTER_INVALID
    <3>1. k + 1 = m
      <4>1. ASSUME k + 1 < m  PROVE FALSE
        <5>1. PICK i \in 1..m : i = k + 1 /\ i < m /\ i + 1 \in 1..m
          BY <1>5, <4>1
        <5>2. w.t[p[i]] = p[i + 1] /\ p[i + 1] \in Cluster
          BY <1>1, <1>4, <5>1, PathTypes DEF Path
        <5> QED
          BY <2>2, <2>5, <5>1, <5>2, LinkFacts
      <4> QED
        BY <1>5, <4>1
    <3>2. PICK x : x = LookUp(w)
      OBVIOUS
    <3>3. /\ x \in WorkRec /\ Cached(x.sec, x.buf)
          /\ x.t = w.t /\ x.d = w.d /\ x.f = w.f /\ x.ok = w.ok /\ x.left = w.left
          /\ x.out = w.out
      <4>1. PICK s \in Sector, b \in Buffer : x = [w EXCEPT !.sec = s, !.buf = b]
        BY <1>1, <3>2, LookUpFacts
      <4>2. x \in WorkRec /\ Cached(x.sec, x.buf)
        BY <1>1, <3>2, LookUpFacts
      <4> QED
        BY <1>1, <4>1, <4>2 DEF WorkRec
    <3>4. Held(x, p, O)
      BY <3>3 DEF Held
    <3>5. PICK g : g = expand_file(x, ClusterSize)
      OBVIOUS
    <3>6. v = IF g.ok THEN Advance(g, n) ELSE g
      BY <2>3, <2>5, <3>2, <3>5 DEF move_file_pos, Advance
    <3>7. PICK cnt : cnt = ClustersFor(x.f, ClusterSize)
      OBVIOUS
    <3>8. cnt = 1
      <4>1. PICK f : f = x.f
        OBVIOUS
      <4>2. f.size \in Nat /\ f.size > 0
        BY <1>1, <3>3, <4>1 DEF WorkRec, File
      <4> QED
        BY <1>6, <3>7, <4>1, <4>2, GrowthFits
    <3>9. x.f.cblk = p[Len(p)] /\ x.ok
      BY <1>4, <1>5, <3>1, <3>3
    <3>17. PICK incr \in Nat : incr = ClusterSize
      BY <1>6
    <3>18. cnt = ClustersFor(x.f, incr) /\ g = expand_file(x, incr)
      BY <3>5, <3>7, <3>17
    <3>10. /\ SameBytes(x, g) /\ \A d \in O : g.t[d] = x.t[d]
           /\ \E q : /\ Held(g, q, O) /\ Longer(p, q)
                     /\ g.ok => /\ Len(q) = Len(p) + cnt
                                /\ g.f.cblk = IF Len(p) = 0 /\ cnt > 0 THEN q[1] ELSE x.f.cblk
                     /\ ~ g.ok => q = p /\ g.f = x.f /\ g.t = x.t /\ cnt > 0
      BY <3>4, <3>9, <3>18, ExpandFile
    <3>11. PICK q : /\ Held(g, q, O) /\ Longer(p, q)
                    /\ g.ok => /\ Len(q) = Len(p) + cnt
                               /\ g.f.cblk = IF Len(p) = 0 /\ cnt > 0 THEN q[1] ELSE x.f.cblk
                    /\ ~ g.ok => q = p /\ g.f = x.f /\ g.t = x.t /\ cnt > 0
      BY <3>10
    <3>12. /\ g.d = w.d /\ g.left = w.left /\ g.out = w.out
           /\ g.f.slot = w.f.slot /\ g.f.mode = w.f.mode
           /\ g.f.size = w.f.size /\ g.f.pos = w.f.pos
           /\ \A d \in O : g.t[d] = w.t[d]
      BY <3>3, <3>10 DEF SameBytes
    <3>13. g \in WorkRec /\ Cached(g.sec, g.buf) /\ Path(g.t, g.f.sblk, q)
      BY <3>11 DEF Held, Owns
    <3>14. g.f.sblk = w.f.sblk
      <4>1. PICK t, c, u, e : t = w.t /\ c = w.f.sblk /\ u = g.t /\ e = g.f.sblk
        OBVIOUS
      <4>2. Path(t, c, p) /\ Path(u, e, q) /\ Longer(p, q) /\ Len(p) > 0
        BY <1>1, <1>4, <1>5, <3>11, <3>13, <4>1
      <4> QED
        BY <4>1, <4>2, StartKept
    <3>15. CASE g.ok
      <4>1. Len(q) = m + 1 /\ g.f.cblk = p[k + 1]
        BY <1>4, <1>5, <3>3, <3>8, <3>11, <3>15
      <4>2. InPlace(g)
        <5>1. PICK t, c, u, e : t = w.t /\ c = w.f.sblk /\ u = g.t /\ e = g.f.sblk
          OBVIOUS
        <5>2. Path(t, c, p) /\ Path(u, e, q) /\ Longer(p, q) /\ k < Len(p)
          BY <1>1, <1>4, <1>5, <3>11, <3>13, <5>1
        <5>3. Nth(u, e, k) = p[k + 1]
          BY <5>2, NthLonger
        <5> QED
          BY <1>2, <1>3, <3>12, <4>1, <5>1, <5>3 DEF InPlace
      <4>3. v = Advance(g, n)
        BY <3>6, <3>15
      <4>4. Rem(g.f.pos) + n = ClusterSize
        BY <1>2, <1>3, <1>8, <3>12
      <4>5. Further(g, v, n)
        BY <3>13, <4>2, <4>3, <4>4, AdvanceFacts
      <4>6. /\ v.f.pos = a + n /\ v.ok /\ v.t = g.t /\ v.f.sblk = g.f.sblk
            /\ v \in WorkRec /\ Cached(v.sec, v.buf) /\ InPlace(v)
            /\ v.d = w.d /\ v.left = w.left /\ v.out = w.out
            /\ v.f.slot = w.f.slot /\ v.f.mode = w.f.mode /\ v.f.size = w.f.size
        BY <1>2, <3>12, <3>15, <4>5 DEF Further
      <4>7. Held(v, q, O)
        BY <3>11, <4>6 DEF Held
      <4>8. Quot(v.f.pos) < Len(q) /\ Len(q) = Quot(v.f.pos) + 1
        <5>1. Quot(v.f.pos) = k + 1
          BY <2>1, <4>6
        <5>2. Len(q) = (k + 1) + 1
          BY <3>1, <4>1
        <5>3. k + 1 < (k + 1) + 1
          BY <1>3
        <5> QED
          BY <5>1, <5>2, <5>3
      <4>9. \A d \in O : v.t[d] = w.t[d]
        BY <3>12, <4>6
      <4> QED
        BY <1>2, <3>11, <3>14, <4>6, <4>7, <4>8, <4>9 DEF Moved
    <3>16. CASE ~ g.ok
      <4>1. v = g /\ q = p /\ g.f = w.f /\ g.t = w.t
        BY <3>3, <3>6, <3>11, <3>16
      <4>2. InPlace(v) /\ Held(v, p, O) /\ Longer(p, p)
        BY <3>11, <4>1 DEF InPlace
      <4>3. Quot(v.f.pos) < Len(p) /\ Len(p) = Quot(v.f.pos) + 1
        BY <1>2, <1>3, <1>4, <1>5, <3>1, <4>1
      <4> QED
        BY <3>12, <3>16, <4>1, <4>2, <4>3 DEF Moved
    <3> QED
      BY <3>15, <3>16
  <2> QED
    BY <2>4, <2>5
<1>9. r + n < ClusterSize \/ r + n = ClusterSize
  BY <1>6
<1> QED
  BY <1>7, <1>8, <1>9

(* Both parts of a position are numbers.                                    *)
LEMMA RemNat ==
  ASSUME NEW a \in Nat
  PROVE  Quot(a) \in Nat /\ Rem(a) \in Nat
<1>1. PICK c \in Nat \ {0} : c = ClusterSize
  BY FatFsAssumption
<1>2. a \div c \in Nat /\ a % c \in Nat
  OBVIOUS
<1> QED
  BY <1>1, <1>2 DEF Quot, Rem

\* The bytes of txt are in the clusters of p, in their order.
Stored(d, p, txt) ==
  \A k \in 1..Len(txt) :
    Quot(k - 1) < Len(p) /\ d[p[Quot(k - 1) + 1]][Rem(k - 1) + 1] = txt[k]

(* What is stored in the clusters of a file is what its bytes are.          *)
LEMMA StoredIsRead ==
  ASSUME NEW t, NEW d, NEW c, NEW p, Path(t, c, p), NEW txt, Len(txt) \in Nat, Stored(d, p, txt)
  PROVE  \A k \in 1..Len(txt) : ByteAt(t, d, c, k) = txt[k]
<1> TAKE k \in 1..Len(txt)
<1>1. PICK a \in Nat : a = k - 1
  <2>1. k - 1 \in Nat
    OBVIOUS
  <2> QED
    BY <2>1
<1>2. PICK q \in Nat : q = Quot(a)
  BY QuotRem
<1>3. q < Len(p) /\ d[p[q + 1]][Rem(a) + 1] = txt[k]
  BY <1>1, <1>2 DEF Stored
<1>4. Len(p) \in Nat /\ \A j \in 1..Len(p) : p[j] \in Cluster
  BY PathTypes
<1>5. q + 1 \in 1..Len(p)
  BY <1>3, <1>4
<1>6. Nth(t, c, q) = p[q + 1]
  BY <1>3, NthOnPath
<1> QED
  BY <1>1, <1>2, <1>3, <1>4, <1>5, <1>6 DEF ByteAt

(* It stays there when the path grows.                                      *)
LEMMA StoredLonger ==
  ASSUME NEW d, NEW p, NEW q, Longer(p, q), Len(p) \in Nat, Len(q) \in Nat,
         NEW txt, Len(txt) \in Nat, Stored(d, p, txt)
  PROVE  Stored(d, q, txt)
<1> SUFFICES ASSUME NEW k \in 1..Len(txt)
             PROVE  Quot(k - 1) < Len(q) /\ d[q[Quot(k - 1) + 1]][Rem(k - 1) + 1] = txt[k]
  BY DEF Stored
<1>1. k - 1 \in Nat
  OBVIOUS
<1>2. PICK x \in Nat : x = Quot(k - 1)
  BY <1>1, QuotRem
<1>3. x < Len(p) /\ d[p[x + 1]][Rem(k - 1) + 1] = txt[k]
  BY <1>2 DEF Stored
<1>4. x + 1 \in 1..Len(p) /\ x < Len(q)
  BY <1>3 DEF Longer
<1>5. q[x + 1] = p[x + 1]
  BY <1>4 DEF Longer
<1> QED
  BY <1>2, <1>3, <1>4, <1>5

(* It stays there when the clusters of the path are left alone.             *)
LEMMA StoredKept ==
  ASSUME NEW d, NEW e, NEW p, Len(p) \in Nat, \A c \in Clusters(p) : e[c] = d[c],
         NEW txt, Len(txt) \in Nat, Stored(d, p, txt)
  PROVE  Stored(e, p, txt)
<1> SUFFICES ASSUME NEW k \in 1..Len(txt)
             PROVE  Quot(k - 1) < Len(p) /\ e[p[Quot(k - 1) + 1]][Rem(k - 1) + 1] = txt[k]
  BY DEF Stored
<1>1. k - 1 \in Nat
  OBVIOUS
<1>2. PICK x \in Nat : x = Quot(k - 1)
  BY <1>1, QuotRem
<1>3. x < Len(p) /\ d[p[x + 1]][Rem(k - 1) + 1] = txt[k]
  BY <1>2 DEF Stored
<1>4. x + 1 \in 1..Len(p)
  BY <1>3
<1>5. p[x + 1] \in Clusters(p)
  BY <1>4 DEF Clusters
<1> QED
  BY <1>2, <1>3, <1>5

\* The cluster at c with put behind its first off bytes, as a round of
\* fatfs_write puts them there.
Put(d, c, off, put) ==
  [d EXCEPT ![c] = [i \in 1..ClusterSize |->
                      IF i \in off + 1..off + Len(put) THEN put[i - off] ELSE d[c][i]]]

(* The round changes the bytes behind off in that cluster and no other.     *)
LEMMA PutFacts ==
  ASSUME NEW d \in [Cluster -> Block], NEW c \in Cluster, NEW off \in Nat,
         NEW put \in Seq(Byte), off + Len(put) <= ClusterSize
  PROVE  /\ Put(d, c, off, put) \in [Cluster -> Block]
         /\ \A e \in Cluster : e # c => Put(d, c, off, put)[e] = d[e]
         /\ \A i \in 1..off : Put(d, c, off, put)[c][i] = d[c][i]
         /\ \A j \in 1..Len(put) : Put(d, c, off, put)[c][off + j] = put[j]
<1>1. PICK n \in Nat : n = Len(put)
  BY LenProperties
<1>2. ClusterSize \in Nat /\ off + n <= ClusterSize
  BY <1>1, FatFsAssumption
<1>3. \A j \in 1..n : put[j] \in Byte
  BY <1>1, ElementOfSeq
<1>4. PICK new : new = [i \in 1..ClusterSize |->
                         IF i \in off + 1..off + n THEN put[i - off] ELSE d[c][i]]
  OBVIOUS
<1>5. new \in Block
  <2>1. ASSUME NEW i \in 1..ClusterSize
        PROVE  (IF i \in off + 1..off + n THEN put[i - off] ELSE d[c][i]) \in Byte
    <3>1. CASE i \in off + 1..off + n
      <4>1. i - off \in 1..n
        BY <3>1
      <4> QED
        BY <1>3, <3>1, <4>1
    <3>2. CASE i \notin off + 1..off + n
      <4>1. d[c] \in Block
        OBVIOUS
      <4> QED
        BY <3>2, <4>1 DEF Block
    <3> QED
      BY <3>1, <3>2
  <2> QED
    BY <1>4, <2>1 DEF Block
<1>6. \A i \in 1..off : new[i] = d[c][i]
  BY <1>2, <1>4
<1>7. \A j \in 1..n : new[off + j] = put[j]
  <2> TAKE j \in 1..n
  <2>1. PICK i \in 1..ClusterSize : i = off + j /\ i \in off + 1..off + n /\ i - off = j
    <3>1. off + j \in 1..ClusterSize /\ off + j \in off + 1..off + n /\ (off + j) - off = j
      BY <1>2
    <3> QED
      BY <3>1
  <2> QED
    BY <1>4, <2>1
<1>8. Put(d, c, off, put) = [d EXCEPT ![c] = new]
  BY <1>1, <1>4 DEF Put
<1> QED
  BY <1>1, <1>5, <1>6, <1>7, <1>8

(* Bytes put at the end of what is stored are stored behind it.             *)
LEMMA StoredPut ==
  ASSUME NEW t, NEW c, NEW p, Path(t, c, p), NEW d \in [Cluster -> Block],
         NEW txt \in Seq(Byte), Stored(d, p, txt), Quot(Len(txt)) < Len(p),
         NEW put \in Seq(Byte), Rem(Len(txt)) + Len(put) <= ClusterSize,
         NEW e, e = Put(d, p[Quot(Len(txt)) + 1], Rem(Len(txt)), put)
  PROVE  Stored(e, p, txt \o put)
<1>1. PICK a \in Nat, n \in Nat : a = Len(txt) /\ n = Len(put)
  BY LenProperties
<1>2. PICK q \in Nat, off \in Nat : q = Quot(a) /\ off = Rem(a) /\ off + n <= ClusterSize
  <2>1. Quot(a) \in Nat /\ Rem(a) \in Nat
    BY RemNat
  <2> QED
    BY <1>1, <2>1
<1>3. PICK m \in Nat : m = Len(p)
  BY PathTypes
<1>4. q + 1 \in 1..m /\ \A j \in 1..m : p[j] \in Cluster
  BY <1>1, <1>2, <1>3, PathTypes
<1>5. PICK b \in Cluster : b = p[q + 1]
  BY <1>4
<1>6. /\ e = Put(d, b, off, put)
      /\ \A x \in Cluster : x # b => e[x] = d[x]
      /\ \A i \in 1..off : e[b][i] = d[b][i]
      /\ \A j \in 1..n : e[b][off + j] = put[j]
  <2>1. e = Put(d, b, off, put) /\ off + Len(put) <= ClusterSize
    BY <1>1, <1>2, <1>5
  <2> QED
    BY <1>1, <2>1, PutFacts
<1>7. /\ txt \o put \in Seq(Byte) /\ Len(txt \o put) = a + n
      /\ \A k \in 1..(a + n) : (txt \o put)[k] = IF k <= a THEN txt[k] ELSE put[k - a]
  BY <1>1, ConcatProperties
<1>8. ASSUME NEW k \in 1..(a + n)
      PROVE  Quot(k - 1) < m /\ e[p[Quot(k - 1) + 1]][Rem(k - 1) + 1] = (txt \o put)[k]
  <2>1. PICK y \in Nat : y = k - 1
    <3>1. k - 1 \in Nat
      OBVIOUS
    <3> QED
      BY <3>1
  <2>2. PICK x \in Nat, r \in Nat : x = Quot(y) /\ r = Rem(y) /\ y = x * ClusterSize + r
    <3>1. Quot(y) \in Nat /\ Rem(y) \in Nat
      BY RemNat
    <3>2. y = Quot(y) * ClusterSize + Rem(y)
      BY QuotRem
    <3> QED
      BY <3>1, <3>2
  <2>3. CASE k <= a
    <3>1. x < m /\ d[p[x + 1]][r + 1] = txt[k]
      <4>1. k \in 1..Len(txt)
        BY <1>1, <2>3
      <4> QED
        BY <1>3, <2>1, <2>2, <4>1 DEF Stored
    <3>2. x + 1 \in 1..m /\ p[x + 1] \in Cluster
      BY <1>4, <3>1
    <3>3. CASE p[x + 1] # b
      BY <1>6, <1>7, <2>1, <2>2, <2>3, <3>1, <3>2, <3>3
    <3>4. CASE p[x + 1] = b
      <4>1. x = q
        <5>1. x + 1 = q + 1
          BY <1>3, <1>4, <1>5, <3>2, <3>4 DEF Path
        <5> QED
          BY <5>1
      <4>2. a = x * ClusterSize + off
        BY <1>2, <4>1, QuotRem
      <4>3. PICK z \in Nat : z = x * ClusterSize
        BY FatFsAssumption
      <4>4. r < off
        <5>1. y < a
          BY <2>1, <2>3
        <5>2. y = z + r /\ a = z + off
          BY <2>2, <4>2, <4>3
        <5> QED
          BY <5>1, <5>2
      <4>5. r + 1 \in 1..off
        BY <4>4
      <4> QED
        BY <1>6, <1>7, <2>1, <2>2, <2>3, <3>1, <3>4, <4>5
    <3> QED
      BY <3>3, <3>4
  <2>4. CASE ~ (k <= a)
    <3>1. PICK j \in 1..n : j = k - a
      <4>1. k - a \in 1..n
        BY <2>4
      <4> QED
        BY <4>1
    <3>2. PICK i \in Nat : i = j - 1
      <4>1. j - 1 \in Nat
        OBVIOUS
      <4> QED
        BY <4>1
    <3>3. y = a + i /\ off + i < ClusterSize /\ i + 1 = j
      <4>1. ClusterSize \in Nat
        BY FatFsAssumption
      <4> QED
        BY <1>2, <2>1, <3>1, <3>2, <4>1
    <3>4. Quot(a + i) = q /\ Rem(a + i) = off + i
      <4>1. Rem(a) + i < ClusterSize
        BY <1>2, <3>3
      <4>2. Quot(a + i) = Quot(a) /\ Rem(a + i) = Rem(a) + i
        BY <4>1, QuotForward
      <4> QED
        BY <1>2, <4>2
    <3>5. Quot(k - 1) = q /\ Rem(k - 1) + 1 = off + j
      <4>1. (off + i) + 1 = off + j
        BY <3>3
      <4> QED
        BY <2>1, <3>3, <3>4, <4>1
    <3>6. e[b][off + j] = put[j] /\ (txt \o put)[k] = put[j]
      BY <1>6, <1>7, <2>4, <3>1
    <3> QED
      BY <1>4, <1>5, <3>5, <3>6
  <2> QED
    BY <2>3, <2>4
<1> QED
  BY <1>3, <1>7, <1>8 DEF Stored

\* The write of bytes that began with w0, to a file of which txt had been
\* acknowledged, has come to w, and the file to the clusters of p.  If the
\* position was the size (clean), it is while no step fails.
Writing(w, w0, p, O, txt, clean) ==
  /\ Held(w, p, O) /\ InPlace(w)
  /\ Quot(w.f.pos) < Len(p) /\ Len(p) <= Quot(w.f.pos + w.left) + 1
  /\ w.f.slot = w0.f.slot /\ w.f.mode = w0.f.mode
  /\ w.f.size = Len(txt) + Len(w.out) /\ w.f.pos <= w.f.size
  /\ Len(w.out) + w.left = w0.left
  /\ \A c \in O : w.t[c] = w0.t[c] /\ w.d[c] = w0.d[c]
  /\ ~ w.ok => Quot(w.f.pos) + 1 = Len(p) /\ Len(w.out) > 0
  /\ clean /\ w.ok => w.f.pos = w.f.size /\ Stored(w.d, p, txt \o w.out)

\* A round of fatfs_write before it moves on.
Filled(w, put) ==
  [ThroughBuffer(w) EXCEPT
     !.d = IF w.f.cblk \in Cluster THEN Put(w.d, w.f.cblk, Offset(w.f), put) ELSE @,
     !.left = @ - Len(put), !.out = @ \o put, !.f.size = @ + Len(put)]

\* The bytes fit behind the offset, and are among those to go.
Fits(w, off, put) ==
  /\ w \in WorkRec /\ Cached(w.sec, w.buf) /\ w.f.cblk \in Cluster
  /\ put \in Seq(Byte) /\ off \in Nat /\ off = Offset(w.f)
  /\ off + Len(put) <= ClusterSize /\ Len(put) <= w.left

\* v is w with the bytes put behind the offset, but for fat_buffer.
FilledTo(w, off, put, v) ==
  /\ v \in WorkRec /\ Cached(v.sec, v.buf) /\ v.t = w.t /\ v.ok = w.ok
  /\ v.d = Put(w.d, w.f.cblk, off, put)
  /\ v.left = w.left - Len(put) /\ v.out = w.out \o put
  /\ Len(v.out) = Len(w.out) + Len(put)
  /\ v.f.slot = w.f.slot /\ v.f.mode = w.f.mode /\ v.f.pos = w.f.pos
  /\ v.f.sblk = w.f.sblk /\ v.f.cblk = w.f.cblk
  /\ v.f.size = w.f.size + Len(put)

(* What it has changed by then.                                             *)
LEMMA FilledFacts ==
  ASSUME NEW w, NEW off, NEW put, Fits(w, off, put), NEW v, v = Filled(w, put)
  PROVE  FilledTo(w, off, put, v)
<1>0. /\ w \in WorkRec /\ Cached(w.sec, w.buf) /\ w.f.cblk \in Cluster
      /\ put \in Seq(Byte) /\ off \in Nat /\ off = Offset(w.f)
      /\ off + Len(put) <= ClusterSize /\ Len(put) <= w.left
  BY DEF Fits
<1>1. PICK n \in Nat : n = Len(put)
  BY <1>0, LenProperties
<1>2. /\ w.d \in [Cluster -> Block] /\ w.out \in Seq(Byte) /\ w.left \in Nat
      /\ w.f \in File /\ w.f.size \in Nat /\ n <= w.left
  BY <1>0, <1>1 DEF WorkRec, File
<1>3. PICK d \in [Cluster -> Block] : d = Put(w.d, w.f.cblk, off, put)
  BY <1>0, <1>2, PutFacts
<1>4. PICK o \in Seq(Byte) : o = w.out \o put /\ Len(o) = Len(w.out) + n
  <2>1. PICK x \in Seq(Byte) : x = w.out
    BY <1>2
  <2>2. x \o put \in Seq(Byte) /\ Len(x \o put) = Len(x) + Len(put)
    BY <1>0, <2>1, ConcatProperties
  <2> QED
    BY <1>1, <2>1, <2>2
<1>5. PICK l \in Nat : l = w.left - n
  <2>1. w.left - n \in Nat
    BY <1>2
  <2> QED
    BY <2>1
<1>6. PICK s \in Nat : s = w.f.size + n
  <2>1. w.f.size + n \in Nat
    BY <1>2
  <2> QED
    BY <2>1
<1>7. PICK g : g = [w.f EXCEPT !.size = s]
  OBVIOUS
<1>8. g \in File /\ g.size = s
  BY <1>2, <1>7 DEF File
<1>9. /\ g.slot = w.f.slot /\ g.mode = w.f.mode /\ g.pos = w.f.pos
      /\ g.sblk = w.f.sblk /\ g.cblk = w.f.cblk
  BY <1>2, <1>7 DEF File
<1>10. PICK x \in Sector, b \in Buffer : ThroughBuffer(w) = [w EXCEPT !.sec = x, !.buf = b]
  BY <1>0, ThroughBufferFacts
<1>11. Cached(x, b)
  <2>1. PICK y : y = ThroughBuffer(w)
    OBVIOUS
  <2>2. Cached(y.sec, y.buf)
    BY <1>0, <2>1, ThroughBufferFacts
  <2>3. y.sec = x /\ y.buf = b
    BY <1>0, <1>10, <2>1 DEF WorkRec
  <2> QED
    BY <2>2, <2>3
<1>12. PICK y : y = ThroughBuffer(w)
  OBVIOUS
<1>13. y \in WorkRec /\ y.f = w.f /\ y.left = w.left /\ y.out = w.out
  BY <1>0, <1>10, <1>12 DEF WorkRec
<1>14. v = [y EXCEPT !.d = d, !.left = @ - n, !.out = @ \o put, !.f.size = @ + n]
  BY <1>0, <1>1, <1>3, <1>12 DEF Filled
<1>15. v = [y EXCEPT !.d = d, !.left = l, !.out = o, !.f = g]
  BY <1>4, <1>5, <1>6, <1>7, <1>13, <1>14 DEF WorkRec, File
<1>16. v = [w EXCEPT !.sec = x, !.buf = b, !.d = d, !.left = l, !.out = o, !.f = g]
  BY <1>0, <1>10, <1>12, <1>15 DEF WorkRec
<1>17. /\ v \in WorkRec /\ v.sec = x /\ v.buf = b /\ v.d = d /\ v.left = l /\ v.out = o
       /\ v.f = g /\ v.t = w.t /\ v.ok = w.ok
  BY <1>0, <1>8, <1>16 DEF WorkRec
<1> QED
  BY <1>1, <1>3, <1>4, <1>5, <1>6, <1>8, <1>9, <1>11, <1>17 DEF FilledTo

(* WriteRound is that and the move.                                         *)
LEMMA WriteRoundIs ==
  ASSUME NEW w \in WorkRec, w.left # 0, w.ok, NEW bytes \in Seq(Byte),
         Len(w.out) + w.left = Len(bytes)
  PROVE  \E put \in Seq(Byte) :
           /\ Len(put) = Round(w)
           /\ WriteRound(w, bytes) = move_file_pos(Filled(w, put), Round(w), TRUE)
<1>1. PICK n \in Nat : n = Round(w) /\ n <= w.left /\ n >= 1
  BY RoundFacts
<1>2. PICK a \in Nat, l \in Nat : a = Len(w.out) /\ l = w.left
  BY LenProperties DEF WorkRec
<1>3. PICK x \in Int, y \in Int : x = a + 1 /\ y = a + n
  OBVIOUS
<1>4. \A i \in x..y : bytes[i] \in Byte
  <2>1. \A i \in x..y : i \in 1..Len(bytes)
    <3>1. a + l = Len(bytes) /\ n <= l
      BY <1>1, <1>2
    <3> QED
      BY <1>3, <3>1
  <2> QED
    BY <2>1, ElementOfSeq
<1>5. PICK put : put = SubSeq(bytes, x, y)
  OBVIOUS
<1>6. put \in Seq(Byte) /\ Len(put) = n
  <2>1. /\ SubSeq(bytes, x, y) \in Seq(Byte)
        /\ Len(SubSeq(bytes, x, y)) = IF x <= y THEN y - x + 1 ELSE 0
    BY <1>4, SubSeqProperties
  <2>2. x <= y /\ y - x + 1 = n
    BY <1>1, <1>3
  <2> QED
    BY <1>5, <2>1, <2>2
<1>7. put = SubSeq(bytes, Len(w.out) + 1, Len(w.out) + Round(w))
  BY <1>1, <1>2, <1>3, <1>5
<1>9. PICK z : z = ThroughBuffer(w)
  OBVIOUS
<1>10. z.d = w.d
  BY <1>9 DEF ThroughBuffer, WorkRec
<1>11. PICK w2 :
         w2 = [z EXCEPT
                !.d = IF w.f.cblk \in Cluster
                      THEN [@ EXCEPT ![w.f.cblk] =
                              [i \in 1..ClusterSize |->
                                 IF i \in Offset(w.f) + 1..Offset(w.f) + Round(w)
                                 THEN put[i - Offset(w.f)] ELSE w.d[w.f.cblk][i]]]
                      ELSE @,
                !.left = @ - Round(w), !.out = @ \o put, !.f.size = @ + Round(w)]
  OBVIOUS
<1>12. WriteRound(w, bytes) = move_file_pos(w2, Round(w), TRUE)
  BY <1>7, <1>9, <1>11 DEF WriteRound
<1>13. Filled(w, put) = w2
  <2>1. Len(put) = Round(w)
    BY <1>1, <1>6
  <2> QED
    BY <2>1, <1>9, <1>10, <1>11 DEF Filled, Put
<1>8. WriteRound(w, bytes) = move_file_pos(Filled(w, put), Round(w), TRUE)
  BY <1>12, <1>13
<1> QED
  BY <1>1, <1>6, <1>8

(* Appending twice is appending once.                                       *)
LEMMA ConcatTwice ==
  ASSUME NEW S, NEW a \in Seq(S), NEW b \in Seq(S), NEW c \in Seq(S)
  PROVE  (a \o b) \o c = a \o (b \o c)
OBVIOUS

(* One round of the loop of fatfs_write.                                    *)
LEMMA WriteRoundFacts ==
  ASSUME NEW w, NEW w0 \in WorkRec, NEW p, NEW O, NEW txt \in Seq(Byte), NEW clean \in BOOLEAN,
         Writing(w, w0, p, O, txt, clean), w.left # 0, w.ok,
         NEW bytes \in Seq(Byte), w0.left = Len(bytes),
         NEW v, v = WriteRound(w, bytes)
  PROVE  (\E q : Writing(v, w0, q, O, txt, clean)) /\ v.left < w.left
<1>1. /\ Held(w, p, O) /\ InPlace(w)
      /\ Quot(w.f.pos) < Len(p) /\ Len(p) <= Quot(w.f.pos + w.left) + 1
      /\ w.f.slot = w0.f.slot /\ w.f.mode = w0.f.mode
      /\ w.f.size = Len(txt) + Len(w.out) /\ w.f.pos <= w.f.size
      /\ Len(w.out) + w.left = w0.left
      /\ \A c \in O : w.t[c] = w0.t[c] /\ w.d[c] = w0.d[c]
  BY DEF Writing
<1>2. /\ w \in WorkRec /\ Cached(w.sec, w.buf) /\ Path(w.t, w.f.sblk, p)
      /\ O \subseteq Cluster /\ Clusters(p) \cap O = {}
  BY <1>1 DEF Held, Owns
<1>3. PICK n \in Nat : /\ n = Round(w) /\ n >= 1 /\ n <= w.left
                       /\ Rem(w.f.pos) + n <= ClusterSize
  BY <1>2, RoundFacts
<1>4. PICK a \in Nat, l \in Nat, sz \in Nat, b \in Nat, s \in Nat :
        a = w.f.pos /\ l = w.left /\ sz = w.f.size /\ b = Len(w.out) /\ s = Len(txt)
  BY <1>2, LenProperties DEF WorkRec, File
<1>5. PICK k \in Nat, off \in Nat : k = Quot(a) /\ off = Rem(a)
  BY RemNat
<1>6. off = Offset(w.f) /\ off + n <= ClusterSize
  BY <1>3, <1>4, <1>5 DEF Offset, Rem
<1>7. k + 1 \in 1..Len(p) /\ w.f.cblk = p[k + 1] /\ w.f.cblk \in Cluster
  <2>1. Quot(w.f.pos) + 1 \in 1..Len(p) /\ w.f.cblk = p[Quot(w.f.pos) + 1] /\ w.f.cblk \in Cluster
    BY <1>1, <1>2, PlaceOnPath
  <2> QED
    BY <1>4, <1>5, <2>1
<1>8. PICK put \in Seq(Byte) : /\ Len(put) = n
                               /\ v = move_file_pos(Filled(w, put), n, TRUE)
  <2>1. Len(w.out) + w.left = Len(bytes)
    BY <1>1
  <2>2. \E put \in Seq(Byte) :
           /\ Len(put) = Round(w)
           /\ WriteRound(w, bytes) = move_file_pos(Filled(w, put), Round(w), TRUE)
    BY <1>2, <2>1, WriteRoundIs
  <2> QED
    BY <1>3, <2>2
<1>9. PICK x : x = Filled(w, put)
  OBVIOUS
<1>10. /\ x \in WorkRec /\ Cached(x.sec, x.buf) /\ x.t = w.t /\ x.ok = w.ok
       /\ x.d = Put(w.d, w.f.cblk, off, put)
       /\ x.left = w.left - Len(put) /\ x.out = w.out \o put
       /\ Len(x.out) = Len(w.out) + Len(put)
       /\ x.f.slot = w.f.slot /\ x.f.mode = w.f.mode /\ x.f.pos = w.f.pos
       /\ x.f.sblk = w.f.sblk /\ x.f.cblk = w.f.cblk
       /\ x.f.size = w.f.size + Len(put)
  <2>1. off + Len(put) <= ClusterSize /\ Len(put) <= w.left
    BY <1>3, <1>6, <1>8
  <2> QED
    <3>1. Fits(w, off, put)
      BY <1>2, <1>5, <1>6, <1>7, <1>8, <2>1 DEF Fits
    <3>2. FilledTo(w, off, put, x)
      BY <1>9, <3>1, FilledFacts
    <3> QED
      BY <3>2 DEF FilledTo
<1>11. /\ x.left = l - n /\ Len(x.out) = b + n /\ x.f.pos = a /\ x.f.size = sz + n
  BY <1>4, <1>8, <1>10
<1>12. Held(x, p, O) /\ InPlace(x) /\ x.ok
  <2>1. Held(x, p, O)
    BY <1>1, <1>10 DEF Held
  <2>2. InPlace(x)
    BY <1>1, <1>10 DEF InPlace
  <2> QED
    BY <1>10, <2>1, <2>2
<1>13. /\ w.d \in [Cluster -> Block] /\ x.d \in [Cluster -> Block]
       /\ \A e \in Cluster : e # p[k + 1] => x.d[e] = w.d[e]
  <2>1. off + Len(put) <= ClusterSize /\ w.d \in [Cluster -> Block]
    BY <1>2, <1>6, <1>8 DEF WorkRec
  <2>2. \A e \in Cluster : e # w.f.cblk => Put(w.d, w.f.cblk, off, put)[e] = w.d[e]
    <3>1. PICK d \in [Cluster -> Block], c \in Cluster : d = w.d /\ c = w.f.cblk
      BY <1>7, <2>1
    <3>2. \A e \in Cluster : e # c => Put(d, c, off, put)[e] = d[e]
      BY <2>1, PutFacts
    <3> QED
      BY <3>1, <3>2
  <2>3. x.d \in [Cluster -> Block]
    BY <1>10 DEF WorkRec
  <2> QED
    BY <1>7, <1>10, <2>1, <2>2, <2>3
<1>14. \A c \in O : x.t[c] = w0.t[c] /\ x.d[c] = w0.d[c]
  <2>1. p[k + 1] \notin O
    BY <1>2, <1>7 DEF Clusters
  <2> QED
    BY <1>1, <1>2, <1>10, <1>13, <2>1
<1>15. PICK q : Moved(x, v, n, p, q, O)
  <2>1. /\ Quot(x.f.pos) < Len(p) /\ x.f.size > 0
        /\ Rem(x.f.pos) + n <= ClusterSize
    <3>1. sz + n > 0
      BY <1>3
    <3> QED
      BY <1>1, <1>3, <1>10, <1>11, <3>1
  <2>2. v = move_file_pos(x, n, TRUE)
    BY <1>8, <1>9
  <2> QED
    BY <1>12, <2>1, <2>2, MoveToWrite
<1>16. /\ Held(v, q, O) /\ InPlace(v) /\ Longer(p, q) /\ Quot(v.f.pos) < Len(q)
       /\ v.d = x.d /\ v.left = l - n /\ v.out = x.out
       /\ v.f.slot = x.f.slot /\ v.f.mode = x.f.mode /\ v.f.size = sz + n
       /\ \A c \in O : v.t[c] = x.t[c]
       /\ v.ok => /\ v.f.pos = a + n
                  /\ Len(q) = Len(p) \/ Len(q) = Quot(v.f.pos) + 1
       /\ ~ v.ok => v.f.pos = a /\ Len(q) = Len(p) /\ Len(q) = Quot(v.f.pos) + 1
  BY <1>11, <1>15 DEF Moved
<1>17. l - n \in Nat /\ l - n < l /\ b + n > 0 /\ a + n \in Nat
  BY <1>3, <1>4
<1>18. Len(p) \in Nat /\ Len(q) \in Nat
  <2>1. Path(v.t, v.f.sblk, q)
    BY <1>16 DEF Held, Owns
  <2> QED
    BY <1>2, <2>1, PathTypes
<1>19. Len(q) <= Quot(v.f.pos + v.left) + 1
  <2>1. CASE v.ok
    <3>1. v.f.pos + v.left = a + l /\ v.f.pos = a + n
      <4>1. (a + n) + (l - n) = a + l
        OBVIOUS
      <4> QED
        BY <1>16, <2>1, <4>1
    <3>2. CASE Len(q) = Len(p)
      BY <1>1, <1>4, <3>1, <3>2
    <3>3. CASE Len(q) = Quot(v.f.pos) + 1
      <4>1. Quot(a + n) <= Quot(a + l) /\ Quot(a + n) \in Nat /\ Quot(a + l) \in Nat
        <5>1. a + n <= a + l /\ a + l \in Nat
          BY <1>3, <1>4
        <5> QED
          BY <1>17, <5>1, QuotGrows, RemNat
      <4>2. Quot(a + n) + 1 <= Quot(a + l) + 1
        BY <4>1
      <4> QED
        BY <3>1, <3>3, <4>2
    <3> QED
      BY <1>16, <2>1, <3>2, <3>3
  <2>2. CASE ~ v.ok
    <3>1. Quot(a) <= Quot(a + (l - n)) /\ Quot(a) \in Nat /\ Quot(a + (l - n)) \in Nat
      <4>1. a <= a + (l - n) /\ a + (l - n) \in Nat
        BY <1>17
      <4> QED
        BY <4>1, QuotGrows, RemNat
    <3>2. Quot(a) + 1 <= Quot(a + (l - n)) + 1
      BY <3>1
    <3> QED
      BY <1>16, <2>2, <3>2
  <2> QED
    BY <2>1, <2>2
<1>20. /\ v.f.size = Len(txt) + Len(v.out) /\ v.f.pos <= v.f.size
       /\ Len(v.out) + v.left = w0.left /\ Len(v.out) > 0
  <2>1. Len(v.out) = b + n /\ v.f.size = sz + n /\ v.left = l - n
    BY <1>11, <1>16
  <2>2. sz = s + b /\ a <= sz /\ b + l = w0.left
    BY <1>1, <1>4
  <2>3. sz + n = s + (b + n) /\ (b + n) + (l - n) = b + l /\ a + n <= sz + n /\ a <= sz + n
    BY <2>2
  <2>4. v.f.pos = a \/ v.f.pos = a + n
    BY <1>16
  <2> QED
    BY <1>4, <1>17, <2>1, <2>2, <2>3, <2>4
<1>21. \A c \in O : v.t[c] = w0.t[c] /\ v.d[c] = w0.d[c]
  BY <1>14, <1>16
<1>22. ASSUME clean, v.ok
       PROVE  v.f.pos = v.f.size /\ Stored(v.d, q, txt \o v.out)
  <2>1. w.f.pos = w.f.size /\ Stored(w.d, p, txt \o w.out)
    BY <1>22 DEF Writing
  <2>2. PICK old \in Seq(Byte) : old = txt \o w.out /\ Len(old) = a
    <3>1. PICK o \in Seq(Byte) : o = w.out
      BY <1>2 DEF WorkRec
    <3>2. txt \o o \in Seq(Byte) /\ Len(txt \o o) = Len(txt) + Len(o)
      BY ConcatProperties
    <3>3. Len(txt \o o) = a
      BY <1>1, <1>4, <2>1, <3>1, <3>2
    <3> QED
      BY <3>1, <3>2, <3>3
  <2>3. PICK d \in [Cluster -> Block] : d = w.d
    BY <1>13
  <2>4. PICK t, c : t = w.t /\ c = w.f.sblk
    OBVIOUS
  <2>5. PICK e : e = x.d
    OBVIOUS
  <2>6. Path(t, c, p) /\ Stored(d, p, old)
    BY <1>2, <2>1, <2>2, <2>3, <2>4
  <2>7. Quot(Len(old)) < Len(p) /\ Rem(Len(old)) + Len(put) <= ClusterSize
    BY <1>1, <1>4, <1>5, <1>6, <1>8, <2>2
  <2>8. e = Put(d, p[Quot(Len(old)) + 1], Rem(Len(old)), put)
    BY <1>5, <1>7, <1>10, <2>2, <2>3, <2>5
  <2>9. Stored(e, p, old \o put)
    BY <2>6, <2>7, <2>8, StoredPut
  <2>10. old \o put = txt \o v.out /\ Len(old \o put) \in Nat
    <3>1. PICK o \in Seq(Byte) : o = w.out
      BY <1>2 DEF WorkRec
    <3>2. (txt \o o) \o put = txt \o (o \o put)
      BY ConcatTwice
    <3>3. old \o put \in Seq(Byte)
      BY ConcatProperties
    <3>4. Len(old \o put) \in Nat
      BY <3>3, LenProperties
    <3> QED
      BY <1>10, <1>16, <2>2, <3>1, <3>2, <3>4
  <2>11. PICK all : all = old \o put
    OBVIOUS
  <2>12. Stored(e, q, all)
    BY <1>16, <1>18, <2>9, <2>10, <2>11, StoredLonger
  <2>13. v.f.pos = v.f.size
    BY <1>4, <1>16, <1>22, <2>1
  <2> QED
    BY <1>16, <2>5, <2>10, <2>11, <2>12, <2>13
<1>23. Writing(v, w0, q, O, txt, clean)
  <2>1. v.f.slot = w0.f.slot /\ v.f.mode = w0.f.mode
    BY <1>1, <1>10, <1>16
  <2>2. ~ v.ok => Quot(v.f.pos) + 1 = Len(q)
    BY <1>16
  <2> QED
    BY <1>16, <1>19, <1>20, <1>21, <1>22, <2>1, <2>2 DEF Writing
<1>24. v.left < w.left
  BY <1>4, <1>16, <1>17
<1> QED
  BY <1>23, <1>24

(* The start of a file is in its first cluster.                             *)
LEMMA QuotZero == Quot(0) = 0
<1>1. PICK c \in Nat \ {0} : c = ClusterSize
  BY FatFsAssumption
<1>2. 0 \div c = 0
  OBVIOUS
<1> QED
  BY <1>1, <1>2 DEF Quot

(* Appending nothing.                                                       *)
LEMMA ConcatNone ==
  ASSUME NEW S, NEW a \in Seq(S), NEW b \in Seq(S), Len(b) = 0
  PROVE  a \o b = a
OBVIOUS

(* The loop of fatfs_write ends with every byte written or at a full disk.  *)
LEMMA WriteLoopFacts ==
  ASSUME NEW w, NEW p, NEW O, NEW txt \in Seq(Byte), NEW clean \in BOOLEAN,
         Writing(w, w, p, O, txt, clean), w.ok,
         NEW bytes \in Seq(Byte), w.left = Len(bytes), NEW v, v = WriteLoop(w, bytes)
  PROVE  \E q : /\ Writing(v, w, q, O, txt, clean) /\ Len(q) = Quot(v.f.pos) + 1
                /\ ~ v.ok \/ v.left = 0
<1>0. w \in WorkRec
  BY DEF Writing, Held
<1>1. PICK n \in Nat : n = w.left
  BY <1>0 DEF WorkRec
<1>2. PICK f : Run("write", bytes, w, n, f) /\ v = f[n]
  BY <1>1, WriteLoopRun
<1>3. f[0] = w /\ \A k \in 0..(n - 1) : f[k + 1] = Repeated("write", bytes, f[k])
  <2>1. PICK kind, a : kind = "write" /\ a = bytes
    OBVIOUS
  <2>2. Run(kind, a, w, n, f)
    BY <1>2, <2>1
  <2>3. f[0] = w /\ \A k \in 0..(n - 1) : f[k + 1] = Repeated(kind, a, f[k])
    BY <1>1, <2>2, RunRounds
  <2> QED
    BY <2>1, <2>3
<1>4. \A k \in 0..(n - 1) : f[k + 1] = WriteRound(f[k], bytes)
  BY <1>3 DEF Repeated
<1> DEFINE G(k) == /\ \E q : Writing(f[k], w, q, O, txt, clean)
                   /\ ~ f[k].ok \/ f[k].left + k <= n
           S == {k \in Nat : k <= n => G(k)}
<1>5. 0 \in S
  <2>1. n + 0 <= n
    OBVIOUS
  <2> QED
    BY <1>1, <1>3, <2>1
<1>6. ASSUME NEW k \in S
      PROVE  k + 1 \in S
  <2>1. SUFFICES ASSUME k + 1 <= n PROVE G(k + 1)
    OBVIOUS
  <2>2. k \in Nat /\ G(k) /\ f[k + 1] = WriteRound(f[k], bytes)
    BY <1>4, <2>1
  <2>3. PICK x, y : x = f[k] /\ y = f[k + 1]
    OBVIOUS
  <2>4. PICK q : Writing(x, w, q, O, txt, clean)
    BY <2>2, <2>3
  <2>5. (~ x.ok \/ x.left + k <= n) /\ y = WriteRound(x, bytes) /\ x.left \in Nat
    BY <2>2, <2>3, <2>4 DEF Writing, Held, WorkRec
  <2>6. CASE x.left = 0 \/ ~ x.ok
    <3>1. y = x
      BY <2>5, <2>6 DEF WriteRound
    <3>2. ~ x.ok \/ x.left + (k + 1) <= n
      BY <2>1, <2>6
    <3> QED
      BY <2>3, <2>4, <3>1, <3>2
  <2>7. CASE x.left # 0 /\ x.ok
    <3>1. (\E r : Writing(y, w, r, O, txt, clean)) /\ y.left < x.left
      BY <1>0, <2>4, <2>5, <2>7, WriteRoundFacts
    <3>2. y.left \in Nat
      BY <3>1 DEF Writing, Held, WorkRec
    <3>3. y.left + (k + 1) <= n
      BY <2>2, <2>5, <2>7, <3>1, <3>2
    <3> QED
      BY <2>3, <3>1, <3>3
  <2> QED
    BY <2>6, <2>7
<1> HIDE DEF S
<1>7. S = Nat
  <2>1. S \in SUBSET Nat
    BY DEF S
  <2> QED
    BY <1>5, <1>6, <2>1, NatInd
<1>8. G(n)
  BY <1>7 DEF S
<1>9. PICK q : Writing(v, w, q, O, txt, clean)
  BY <1>2, <1>8
<1>10. ~ v.ok \/ v.left = 0
  <2>1. v.left \in Nat
    BY <1>9 DEF Writing, Held, WorkRec
  <2>2. ~ v.ok \/ v.left + n <= n
    BY <1>2, <1>8
  <2> QED
    BY <2>1, <2>2
<1>11. Len(q) = Quot(v.f.pos) + 1
  <2>1. /\ Quot(v.f.pos) < Len(q) /\ Len(q) <= Quot(v.f.pos + v.left) + 1
        /\ ~ v.ok => Quot(v.f.pos) + 1 = Len(q)
    BY <1>9 DEF Writing
  <2>2. PICK a \in Nat : a = v.f.pos
    BY <1>9 DEF Writing, Held, WorkRec, File
  <2>3. Len(q) \in Nat /\ Quot(a) \in Nat
    BY <1>9, PathTypes, RemNat DEF Writing, Held, Owns
  <2>4. CASE v.ok
    <3>1. Len(q) <= Quot(a) + 1
      BY <1>10, <2>1, <2>2, <2>4
    <3> QED
      BY <2>1, <2>2, <2>3, <3>1
  <2> QED
    BY <2>1, <2>4
<1> QED
  BY <1>9, <1>10, <1>11

\* What fatfs_write finds.
Writable(w, p, O, txt, clean) ==
  /\ Held(w, p, O) /\ InPlace(w) /\ w.ok /\ Len(w.out) = 0
  /\ w.f.size = Len(txt) /\ w.f.pos <= w.f.size
  /\ w.f.size = 0 => Len(p) = 0
  /\ w.f.size > 0 => Len(p) = Quot(w.f.pos) + 1
  /\ clean => w.f.pos = w.f.size /\ Stored(w.d, p, txt)

\* The room that it makes for n bytes.
Room(w, n) ==
  IF w.f.pos + n > w.f.size THEN expand_file(w, w.f.pos + n - w.f.size) ELSE w

\* With room the loop may begin; without, nothing has changed.
Roomy(w, v, p, O, txt, clean) ==
  /\ SameBytes(w, v) /\ \A d \in O : v.t[d] = w.t[d]
  /\ v.ok => \E q : Writing(v, v, q, O, txt, clean)
  /\ ~ v.ok => v.f = w.f /\ v.t = w.t /\ Held(v, p, O)

(* What expand_file leaves when fatfs_write calls it.                       *)
LEMMA RoomFacts ==
  ASSUME NEW w, NEW p, NEW O, NEW txt \in Seq(Byte), NEW clean \in BOOLEAN,
         Writable(w, p, O, txt, clean), w.left # 0, NEW v, v = Room(w, w.left)
  PROVE  Roomy(w, v, p, O, txt, clean)
<1>1. /\ Held(w, p, O) /\ InPlace(w) /\ w.ok /\ Len(w.out) = 0
      /\ w.f.size = Len(txt) /\ w.f.pos <= w.f.size
      /\ w.f.size = 0 => Len(p) = 0
      /\ w.f.size > 0 => Len(p) = Quot(w.f.pos) + 1
      /\ clean => w.f.pos = w.f.size /\ Stored(w.d, p, txt)
  BY DEF Writable
<1>2. w \in WorkRec /\ Path(w.t, w.f.sblk, p) /\ Len(p) \in Nat /\ w.out \in Seq(Byte)
  BY <1>1, PathTypes DEF Held, Owns, WorkRec
<1>3. PICK a \in Nat, n \in Nat, sz \in Nat, m \in Nat :
        a = w.f.pos /\ n = w.left /\ sz = w.f.size /\ m = Len(p)
  BY <1>2 DEF WorkRec, File
<1>4. PICK k \in Nat : k = Quot(a)
  BY RemNat
<1>5. a <= sz /\ n > 0 /\ (sz = 0 => m = 0) /\ (sz > 0 => m = k + 1)
  BY <1>1, <1>3, <1>4
<1>6. Quot(a + n) \in Nat /\ k <= Quot(a + n)
  <2>1. a + n \in Nat /\ a <= a + n
    OBVIOUS
  <2> QED
    BY <1>4, <2>1, QuotGrows, RemNat
<1>7. CASE ~ (a + n > sz)
  <2>1. v = w
    BY <1>3, <1>7 DEF Room
  <2>2. m = k + 1 /\ k < m /\ m <= Quot(a + n) + 1
    BY <1>5, <1>6, <1>7
  <2>3. txt \o w.out = txt
    BY <1>1, <1>2, ConcatNone
  <2>4. w.f.size = Len(txt) + Len(w.out) /\ Len(w.out) + w.left = w.left
    BY <1>1, <1>3
  <2>5. Writing(w, w, p, O, txt, clean)
    BY <1>1, <1>3, <1>4, <2>2, <2>3, <2>4 DEF Writing
  <2> QED
    BY <1>1, <2>1, <2>5 DEF Roomy, SameBytes
<1>8. CASE a + n > sz
  <2>1. PICK incr \in Nat : incr = a + n - sz /\ incr > 0 /\ sz + incr = a + n
    <3>1. a + n - sz \in Nat /\ a + n - sz > 0 /\ sz + (a + n - sz) = a + n
      BY <1>8
    <3> QED
      BY <3>1
  <2>2. v = expand_file(w, incr)
    BY <1>3, <1>8, <2>1 DEF Room
  <2>3. PICK cnt : cnt = ClustersFor(w.f, incr)
    OBVIOUS
  <2>4. PICK f : f = w.f
    OBVIOUS
  <2>5. /\ cnt \in Nat
        /\ sz = 0 => cnt <= Quot(incr) + 1 /\ cnt > 0
        /\ sz > 0 => Quot(sz) + cnt <= Quot(sz + incr)
    <3>1. f.size \in Nat /\ f.size = sz /\ cnt = ClustersFor(f, incr)
      BY <1>3, <2>3, <2>4
    <3> QED
      BY <2>1, <3>1, GrowthFits
  <2>6. cnt > 0 /\ Len(p) > 0 => w.f.cblk = p[Len(p)]
    <3>1. CASE m > 0
      <4>1. k < Len(p) /\ k + 1 = Len(p)
        BY <1>3, <1>5, <3>1
      <4>2. w.f.cblk = p[Quot(w.f.pos) + 1]
        BY <1>1, <1>2, <1>3, <1>4, <4>1, PlaceOnPath
      <4> QED
        BY <1>3, <1>4, <4>1, <4>2
    <3> QED
      BY <1>3, <3>1
  <2>7. /\ SameBytes(w, v) /\ \A d \in O : v.t[d] = w.t[d]
        /\ \E q : /\ Held(v, q, O) /\ Longer(p, q)
                  /\ v.ok => /\ Len(q) = Len(p) + cnt
                             /\ v.f.cblk = IF Len(p) = 0 /\ cnt > 0 THEN q[1] ELSE w.f.cblk
                  /\ ~ v.ok => q = p /\ v.f = w.f /\ v.t = w.t /\ cnt > 0
    BY <1>1, <2>2, <2>3, <2>6, ExpandFile
  <2>8. PICK q : /\ Held(v, q, O) /\ Longer(p, q)
                 /\ v.ok => /\ Len(q) = Len(p) + cnt
                            /\ v.f.cblk = IF Len(p) = 0 /\ cnt > 0 THEN q[1] ELSE w.f.cblk
                 /\ ~ v.ok => q = p /\ v.f = w.f /\ v.t = w.t /\ cnt > 0
    BY <2>7
  <2>9. CASE ~ v.ok
    BY <2>7, <2>8, <2>9 DEF Roomy
  <2>10. CASE v.ok
    <3>1. /\ v.f.pos = a /\ v.f.size = sz /\ v.left = n /\ v.out = w.out /\ v.d = w.d
      BY <1>3, <2>7 DEF SameBytes
    <3>2. Path(v.t, v.f.sblk, q) /\ Len(q) \in Nat /\ Len(q) = m + cnt
      BY <1>3, <2>8, <2>10, PathTypes DEF Held, Owns
    <3>3. k < Len(q) /\ Len(q) <= Quot(a + n) + 1
      <4>1. CASE sz = 0
        <5>1. a = 0 /\ m = 0 /\ incr = n /\ a + n = n
          BY <1>5, <2>1, <4>1
        <5>2. k = 0
          BY <1>4, <5>1, QuotZero
        <5> QED
          BY <2>5, <3>2, <4>1, <5>1, <5>2
      <4>2. CASE sz > 0
        <5>1. k <= Quot(sz) /\ Quot(sz) \in Nat
          BY <1>4, <1>5, QuotGrows, RemNat
        <5>2. m = k + 1 /\ Quot(sz) + cnt <= Quot(a + n)
          BY <1>5, <2>1, <2>5, <4>2
        <5> QED
          BY <1>6, <2>5, <3>2, <5>1, <5>2
      <4> QED
        BY <4>1, <4>2
    <3>4. InPlace(v)
      <4>1. PICK t, c, u, e : t = w.t /\ c = w.f.sblk /\ u = v.t /\ e = v.f.sblk
        OBVIOUS
      <4>2. Path(t, c, p) /\ Path(u, e, q) /\ Longer(p, q)
        BY <1>2, <2>8, <3>2, <4>1
      <4>3. CASE m > 0
        <5>1. k < Len(p)
          BY <1>3, <1>5, <4>3
        <5>2. Nth(u, e, k) = p[k + 1]
          BY <4>2, <5>1, NthLonger
        <5>3. w.f.cblk = p[k + 1]
          BY <1>1, <1>2, <1>3, <1>4, <5>1, PlaceOnPath
        <5>4. v.f.cblk = w.f.cblk
          BY <1>3, <2>8, <2>10, <4>3
        <5> QED
          BY <1>4, <3>1, <4>1, <5>2, <5>3, <5>4 DEF InPlace
      <4>4. CASE m = 0
        <5>1. sz = 0 /\ cnt > 0
          BY <1>5, <2>5, <4>4
        <5>2. a = 0
          BY <1>5, <5>1
        <5>3. k = 0
          BY <1>4, <5>2, QuotZero
        <5>4. v.f.cblk = q[1]
          BY <1>3, <2>8, <2>10, <4>4, <5>1
        <5>5. Nth(u, e, 0) = q[1]
          <6>1. 0 < Len(q)
            BY <3>3, <5>3
          <6>2. Nth(u, e, 0) = q[0 + 1]
            BY <4>2, <6>1, NthOnPath
          <6> QED
            BY <6>2
        <5> QED
          BY <1>4, <3>1, <4>1, <5>3, <5>4, <5>5 DEF InPlace
      <4> QED
        BY <4>3, <4>4
    <3>5. clean => v.f.pos = v.f.size /\ Stored(v.d, q, txt \o v.out)
      <4> SUFFICES ASSUME clean PROVE v.f.pos = v.f.size /\ Stored(v.d, q, txt \o v.out)
        OBVIOUS
      <4>1. txt \o w.out = txt /\ Len(txt) \in Nat
        BY <1>1, <1>2, ConcatNone, LenProperties
      <4>2. a = sz /\ Stored(w.d, p, txt)
        BY <1>1, <1>3
      <4>3. PICK d : d = w.d
        OBVIOUS
      <4>4. Stored(d, q, txt)
        BY <1>2, <2>8, <3>2, <4>1, <4>2, <4>3, StoredLonger
      <4> QED
        BY <3>1, <4>1, <4>2, <4>3, <4>4
    <3>6. /\ v.f.size = Len(txt) + Len(v.out) /\ v.f.pos <= v.f.size
          /\ Len(v.out) + v.left = v.left
      BY <1>1, <1>3, <3>1
    <3>7. Writing(v, v, q, O, txt, clean)
      BY <1>4, <2>8, <2>10, <3>1, <3>3, <3>4, <3>5, <3>6 DEF Writing
    <3> QED
      BY <2>7, <2>10, <3>7 DEF Roomy
  <2> QED
    BY <2>9, <2>10
<1> QED
  BY <1>7, <1>8

\* What fatfs_write leaves, of a file of which txt had been acknowledged; lost
\* says that it met a full disk after it had made room.
Written(w, v, q, O, txt, clean, lost) ==
  /\ Held(v, q, O) /\ InPlace(v)
  /\ v.f.slot = w.f.slot /\ v.f.mode = w.f.mode
  /\ v.f.size = Len(txt) + Len(v.out) /\ v.f.pos <= v.f.size /\ Len(v.out) <= w.left
  /\ \A c \in O : v.t[c] = w.t[c] /\ v.d[c] = w.d[c]
  /\ v.f.size = 0 => Len(q) = 0
  /\ v.f.size > 0 => Len(q) = Quot(v.f.pos) + 1
  /\ clean /\ ~ lost => v.f.pos = v.f.size /\ Stored(v.d, q, txt \o v.out)

(* fatfs_write as a whole.                                                  *)
LEMMA WriteFacts ==
  ASSUME NEW w, NEW p, NEW O, NEW txt \in Seq(Byte), NEW clean \in BOOLEAN,
         Writable(w, p, O, txt, clean), NEW bytes \in Seq(Byte), w.left = Len(bytes),
         w.left # 0, NEW room, room = Room(w, w.left),
         NEW v, v = IF room.ok THEN WriteLoop(room, bytes) ELSE room
  PROVE  \E q : Written(w, v, q, O, txt, clean, room.ok /\ ~ v.ok)
<1>1. /\ SameBytes(w, room) /\ \A d \in O : room.t[d] = w.t[d]
      /\ room.ok => \E q : Writing(room, room, q, O, txt, clean)
      /\ ~ room.ok => room.f = w.f /\ room.t = w.t /\ Held(room, p, O)
  <2>1. Roomy(w, room, p, O, txt, clean)
    BY RoomFacts
  <2> QED
    BY <2>1 DEF Roomy
<1>2. /\ Held(w, p, O) /\ InPlace(w) /\ w.ok /\ Len(w.out) = 0
      /\ w.f.size = Len(txt) /\ w.f.pos <= w.f.size
      /\ w.f.size = 0 => Len(p) = 0
      /\ w.f.size > 0 => Len(p) = Quot(w.f.pos) + 1
      /\ clean => w.f.pos = w.f.size /\ Stored(w.d, p, txt)
  BY DEF Writable
<1>3. /\ room.d = w.d /\ room.left = w.left /\ room.out = w.out
      /\ room.f.slot = w.f.slot /\ room.f.mode = w.f.mode
  BY <1>1 DEF SameBytes
<1>4. w \in WorkRec /\ w.left \in Nat /\ w.out \in Seq(Byte) /\ Len(txt) \in Nat
  BY <1>2, LenProperties DEF Held, WorkRec
<1>5. CASE ~ room.ok
  <2>1. v = room
    BY <1>5
  <2>2. InPlace(v)
    BY <1>1, <1>2, <1>5, <2>1 DEF InPlace
  <2>3. txt \o w.out = txt
    BY <1>2, <1>4, ConcatNone
  <2>4. v.f.size = Len(txt) + Len(v.out) /\ Len(v.out) <= w.left
    BY <1>1, <1>2, <1>3, <1>4, <1>5, <2>1
  <2>5. v.f = w.f /\ v.t = w.t /\ v.d = w.d /\ v.out = w.out /\ Held(v, p, O)
    BY <1>1, <1>3, <1>5, <2>1
  <2>6. Written(w, v, p, O, txt, clean, room.ok /\ ~ v.ok)
    BY <1>2, <2>2, <2>3, <2>4, <2>5 DEF Written
  <2> QED
    BY <2>6
<1>6. CASE room.ok
  <2>1. PICK p2 : Writing(room, room, p2, O, txt, clean)
    BY <1>1, <1>6
  <2>2. v = WriteLoop(room, bytes) /\ room.left = Len(bytes)
    BY <1>3, <1>6
  <2>3. PICK q : /\ Writing(v, room, q, O, txt, clean) /\ Len(q) = Quot(v.f.pos) + 1
                 /\ ~ v.ok \/ v.left = 0
    BY <1>6, <2>1, <2>2, WriteLoopFacts
  <2>4. /\ Held(v, q, O) /\ InPlace(v)
        /\ v.f.slot = room.f.slot /\ v.f.mode = room.f.mode
        /\ v.f.size = Len(txt) + Len(v.out) /\ v.f.pos <= v.f.size
        /\ Len(v.out) + v.left = room.left
        /\ \A c \in O : v.t[c] = room.t[c] /\ v.d[c] = room.d[c]
        /\ ~ v.ok => Len(v.out) > 0
        /\ clean /\ v.ok => v.f.pos = v.f.size /\ Stored(v.d, q, txt \o v.out)
    BY <2>3 DEF Writing
  <2>5. PICK b \in Nat, l \in Nat : b = Len(v.out) /\ l = v.left
    BY <2>4, LenProperties DEF Held, WorkRec
  <2>6. b + l = w.left /\ b <= w.left /\ b > 0
    <3>1. b + l = w.left
      BY <1>3, <2>4, <2>5
    <3>2. CASE v.ok
      BY <1>4, <2>3, <2>5, <3>1, <3>2
    <3>3. CASE ~ v.ok
      BY <2>4, <2>5, <3>1, <3>3
    <3> QED
      BY <1>4, <3>1, <3>2, <3>3
  <2>7. v.f.size > 0
    BY <1>4, <2>4, <2>5, <2>6
  <2>8. ~ (v.f.size = 0)
    BY <2>7
  <2>9. \A c \in O : v.t[c] = w.t[c] /\ v.d[c] = w.d[c]
    BY <1>1, <1>3, <2>4
  <2>10. Written(w, v, q, O, txt, clean, room.ok /\ ~ v.ok)
    BY <1>3, <1>6, <2>3, <2>4, <2>5, <2>6, <2>8, <2>9 DEF Written
  <2> QED
    BY <2>10
<1> QED
  BY <1>5, <1>6

-----------------------------------------------------------------------------
\* The file system as one value: what a step changes, but for fat_buffer.
Item == [name : Name \cup {DIRITEM_NAME_END, DIRITEM_NAME_FREE},
         size : 0..MaxSize, sblk : Link]

Volume == [root : [Slot -> Item], fat : [Cluster -> Link], data : [Cluster -> Block],
           files : [Handle -> File \cup {NoFile}], wrote : [Slot -> Seq(Byte)],
           full : SUBSET Slot]

Now == [root |-> root, fat |-> fat, data |-> data, files |-> files,
        wrote |-> wrote, full |-> full]

\* Who has the file of slot i open, and who writes it.
Users(s, i)   == {h \in Handle : s.files[h] # NoFile /\ s.files[h].slot = i}
Writers(s, i) == {h \in Users(s, i) : "write" \in s.files[h].mode}

\* Where its size and its first cluster are kept.
Keeper(s, i) == IF Writers(s, i) = {} THEN s.root[i]
                ELSE s.files[CHOOSE h \in Writers(s, i) : TRUE]

\* The open file f of a slot whose entry is item and whose clusters are p.
HandleOk(t, item, f, p, clean) ==
  /\ f.pos <= f.size /\ f.size <= MaxSize
  /\ f.cblk = Nth(t, f.sblk, Quot(f.pos))
  /\ "write" \in f.mode =>
       /\ f.size = 0 => Len(p) = 0
       /\ f.size > 0 => Len(p) = Quot(f.pos) + 1
       /\ Ended(t, p)
       /\ clean => f.pos = f.size
  /\ "write" \notin f.mode => f.size = item.size /\ f.sblk = item.sblk

SlotOk(s, i, p) ==
  /\ Path(s.fat, Keeper(s, i).sblk, p)
  /\ Len(s.wrote[i]) = Keeper(s, i).size
  /\ s.root[i].name \notin Name => Len(p) = 0 /\ Users(s, i) = {}
  /\ i \notin s.full => Stored(s.data, p, s.wrote[i])
  /\ \A h \in Users(s, i) : HandleOk(s.fat, s.root[i], s.files[h], p, i \notin s.full)
  /\ \A h \in Writers(s, i), g \in Users(s, i) : g = h

\* The clusters of the other slots.
Others(ch, i) == UNION {Clusters(ch[j]) : j \in Slot \ {i}}

Consistent(s, ch) ==
  /\ s \in Volume
  /\ \A i \in Slot : SlotOk(s, i, ch[i])
  /\ \A i, j \in Slot : i # j => Clusters(ch[i]) \cap Clusters(ch[j]) = {}
  /\ \A c \in Cluster : s.fat[c] = FAT_CLUSTER_FREE <=> \A i \in Slot : c \notin Clusters(ch[i])

\* z differs from s in slot i only, whose file has come to the clusters of q.
OneSlot(s, z, ch, i, q) ==
  /\ z \in Volume /\ i \in Slot
  /\ SlotOk(z, i, q) /\ Owns(z.fat, Keeper(z, i).sblk, q, Others(ch, i))
  /\ \A j \in Slot \ {i} : /\ z.root[j] = s.root[j] /\ z.wrote[j] = s.wrote[j]
                           /\ j \in z.full <=> j \in s.full
                           /\ Users(z, j) = Users(s, j)
                           /\ \A h \in Users(s, j) : z.files[h] = s.files[h]
  /\ \A c \in Others(ch, i) : z.fat[c] = s.fat[c] /\ z.data[c] = s.data[c]

(* A slot whose entry, users and clusters are left alone stays as it is.    *)
LEMMA SlotKept ==
  ASSUME NEW s, NEW z, NEW i, NEW p, SlotOk(s, i, p), Len(s.wrote[i]) \in Nat,
         \A h \in Users(s, i) : s.files[h].pos \in Nat,
         z.root[i] = s.root[i], z.wrote[i] = s.wrote[i], i \in z.full <=> i \in s.full,
         Users(z, i) = Users(s, i), \A h \in Users(s, i) : z.files[h] = s.files[h],
         \A c \in Clusters(p) : z.fat[c] = s.fat[c] /\ z.data[c] = s.data[c]
  PROVE  SlotOk(z, i, p)
<1>1. /\ Path(s.fat, Keeper(s, i).sblk, p)
      /\ Len(s.wrote[i]) = Keeper(s, i).size
      /\ s.root[i].name \notin Name => Len(p) = 0 /\ Users(s, i) = {}
      /\ i \notin s.full => Stored(s.data, p, s.wrote[i])
      /\ \A h \in Users(s, i) : HandleOk(s.fat, s.root[i], s.files[h], p, i \notin s.full)
      /\ \A h \in Writers(s, i), g \in Users(s, i) : g = h
  BY DEF SlotOk
<1>2. Writers(z, i) = Writers(s, i)
  BY DEF Writers
<1>3. Keeper(z, i) = Keeper(s, i)
  <2>1. CASE Writers(s, i) = {}
    BY <1>2, <2>1 DEF Keeper
  <2>2. CASE Writers(s, i) # {}
    <3>1. PICK g : g = CHOOSE h \in Writers(s, i) : TRUE
      OBVIOUS
    <3>2. g \in Users(s, i)
      BY <2>2, <3>1 DEF Writers
    <3> QED
      BY <1>2, <2>2, <3>1, <3>2 DEF Keeper
  <2> QED
    BY <2>1, <2>2
<1>4. PICK t, u, d, e, c, txt : /\ t = s.fat /\ u = z.fat /\ d = s.data /\ e = z.data
                                /\ c = Keeper(s, i).sblk /\ txt = s.wrote[i]
  OBVIOUS
<1>5. /\ Path(t, c, p) /\ Len(p) \in Nat
      /\ \A x \in Clusters(p) : u[x] = t[x] /\ e[x] = d[x]
  BY <1>1, <1>4, PathTypes
<1>6. Path(u, c, p)
  BY <1>5, PathKept
<1>7. Stored(d, p, txt) => Stored(e, p, txt)
  BY <1>4, <1>5, StoredKept
<1>8. Ended(t, p) => Ended(u, p)
  <2>1. Len(p) > 0 => p[Len(p)] \in Clusters(p)
    <3>1. Len(p) > 0 => Len(p) \in 1..Len(p)
      BY <1>5
    <3> QED
      BY <3>1 DEF Clusters
  <2> QED
    BY <1>5, <2>1 DEF Ended
<1>9. ASSUME NEW h \in Users(s, i)
      PROVE  HandleOk(u, s.root[i], s.files[h], p, i \notin s.full)
  <2>1. PICK f : f = s.files[h]
    OBVIOUS
  <2>2. HandleOk(t, s.root[i], f, p, i \notin s.full) /\ f.pos \in Nat
    BY <1>1, <1>4, <2>1
  <2>3. f.sblk = c
    <3>1. CASE Writers(s, i) = {}
      <4>1. "write" \notin f.mode
        BY <2>1, <3>1 DEF Writers
      <4> QED
        BY <1>4, <2>2, <3>1, <4>1 DEF HandleOk, Keeper
    <3>2. CASE Writers(s, i) # {}
      <4>1. PICK g : g = CHOOSE x \in Writers(s, i) : TRUE
        OBVIOUS
      <4>2. g \in Writers(s, i)
        BY <3>2, <4>1
      <4>3. h = g
        BY <1>1, <4>2
      <4> QED
        BY <1>4, <2>1, <3>2, <4>1, <4>3 DEF Keeper
    <3> QED
      BY <3>1, <3>2
  <2>4. PICK k \in Nat : k = Quot(f.pos)
    BY <2>2, RemNat
  <2>5. Nth(u, c, k) = Nth(t, c, k)
    BY <1>5, NthKept
  <2> QED
    BY <1>8, <2>1, <2>2, <2>3, <2>4, <2>5 DEF HandleOk
<1> QED
  BY <1>1, <1>2, <1>3, <1>4, <1>6, <1>7, <1>9 DEF SlotOk

(* Numbers of a consistent volume.                                          *)
LEMMA VolumeTypes ==
  ASSUME NEW s \in Volume
  PROVE  /\ \A i \in Slot : /\ s.wrote[i] \in Seq(Byte) /\ Len(s.wrote[i]) \in Nat
                            /\ s.root[i] \in Item
         /\ \A h \in Handle : s.files[h] # NoFile => s.files[h] \in File
         /\ s.fat \in [Cluster -> Link] /\ s.data \in [Cluster -> Block]
         /\ s.full \subseteq Slot
BY LenProperties DEF Volume

(* An open file is none that is closed.                                     *)
LEMMA FileIsOpen ==
  ASSUME NEW f \in File
  PROVE  f # NoFile /\ f.slot \in Slot /\ f.pos \in Nat /\ f.size \in Nat
         /\ f.mode \in OpenMode /\ f.sblk \in Link /\ f.cblk \in Link
BY FatFsAssumption DEF File, NoFile, Slot

(* The file of a slot has its clusters to itself.                           *)
LEMMA OwnsHere ==
  ASSUME NEW s, NEW ch, Consistent(s, ch), NEW i \in Slot
  PROVE  Owns(s.fat, Keeper(s, i).sblk, ch[i], Others(ch, i))
<1>1. s.fat \in [Cluster -> Link]
  BY VolumeTypes DEF Consistent
<1>2. \A j \in Slot : Path(s.fat, Keeper(s, j).sblk, ch[j])
  BY DEF Consistent, SlotOk
<1>3. \A j \in Slot : Clusters(ch[j]) \subseteq Cluster
  <2> TAKE j \in Slot
  <2>1. \A k \in 1..Len(ch[j]) : ch[j][k] \in Cluster
    BY <1>2, PathTypes
  <2> QED
    BY <2>1 DEF Clusters
<1>4. Others(ch, i) \subseteq Cluster
  BY <1>3 DEF Others
<1>5. Clusters(ch[i]) \cap Others(ch, i) = {}
  <2>1. \A j \in Slot \ {i} : Clusters(ch[i]) \cap Clusters(ch[j]) = {}
    BY DEF Consistent
  <2> QED
    BY <2>1 DEF Others
<1>6. ASSUME NEW d \in Cluster
      PROVE  s.fat[d] = FAT_CLUSTER_FREE <=> d \notin Clusters(ch[i]) \cup Others(ch, i)
  <2>1. s.fat[d] = FAT_CLUSTER_FREE <=> \A j \in Slot : d \notin Clusters(ch[j])
    BY DEF Consistent
  <2>2. d \in Others(ch, i) <=> \E j \in Slot \ {i} : d \in Clusters(ch[j])
    BY DEF Others
  <2> QED
    BY <2>1, <2>2
<1> QED
  BY <1>1, <1>2, <1>4, <1>5, <1>6 DEF Owns

(* A step in one slot keeps the volume consistent.                          *)
LEMMA OneSlotConsistent ==
  ASSUME NEW s, NEW z, NEW ch, Consistent(s, ch), NEW i, NEW q, OneSlot(s, z, ch, i, q)
  PROVE  Consistent(z, [j \in Slot |-> IF j = i THEN q ELSE ch[j]])
<1>1. /\ z \in Volume /\ i \in Slot
      /\ SlotOk(z, i, q) /\ Owns(z.fat, Keeper(z, i).sblk, q, Others(ch, i))
      /\ \A j \in Slot \ {i} : /\ z.root[j] = s.root[j] /\ z.wrote[j] = s.wrote[j]
                               /\ j \in z.full <=> j \in s.full
                               /\ Users(z, j) = Users(s, j)
                               /\ \A h \in Users(s, j) : z.files[h] = s.files[h]
      /\ \A c \in Others(ch, i) : z.fat[c] = s.fat[c] /\ z.data[c] = s.data[c]
  BY DEF OneSlot
<1>2. PICK new : new = [j \in Slot |-> IF j = i THEN q ELSE ch[j]]
  OBVIOUS
<1>3. \A j \in Slot : new[j] = IF j = i THEN q ELSE ch[j]
  BY <1>2
<1>4. /\ s \in Volume /\ \A j \in Slot : SlotOk(s, j, ch[j])
      /\ \A j, k \in Slot : j # k => Clusters(ch[j]) \cap Clusters(ch[k]) = {}
  BY DEF Consistent
<1>5. ASSUME NEW j \in Slot
      PROVE  SlotOk(z, j, new[j])
  <2>1. CASE j = i
    BY <1>1, <1>3, <2>1
  <2>2. CASE j # i
    <3>1. PICK p : p = ch[j]
      OBVIOUS
    <3>2. SlotOk(s, j, p) /\ Len(s.wrote[j]) \in Nat
      BY <1>4, <3>1, VolumeTypes
    <3>3. \A h \in Users(s, j) : s.files[h].pos \in Nat
      BY <1>4, VolumeTypes, FileIsOpen DEF Users
    <3>4. Clusters(p) \subseteq Others(ch, i)
      BY <2>2, <3>1 DEF Others
    <3>5. \A c \in Clusters(p) : z.fat[c] = s.fat[c] /\ z.data[c] = s.data[c]
      BY <1>1, <3>4
    <3>6. /\ z.root[j] = s.root[j] /\ z.wrote[j] = s.wrote[j]
          /\ j \in z.full <=> j \in s.full
          /\ Users(z, j) = Users(s, j)
          /\ \A h \in Users(s, j) : z.files[h] = s.files[h]
      BY <1>1, <2>2
    <3>7. SlotOk(z, j, p)
      BY <3>2, <3>3, <3>5, <3>6, SlotKept
    <3> QED
      BY <1>3, <2>2, <3>1, <3>7
  <2> QED
    BY <2>1, <2>2
<1>6. /\ Clusters(q) \cap Others(ch, i) = {} /\ Others(ch, i) \subseteq Cluster
      /\ \A d \in Cluster : z.fat[d] = FAT_CLUSTER_FREE <=> d \notin Clusters(q) \cup Others(ch, i)
  BY <1>1 DEF Owns
<1>7. ASSUME NEW j \in Slot, NEW k \in Slot, j # k
      PROVE  Clusters(new[j]) \cap Clusters(new[k]) = {}
  <2>1. CASE j = i
    <3>1. Clusters(ch[k]) \subseteq Others(ch, i)
      BY <1>7, <2>1 DEF Others
    <3> QED
      BY <1>3, <1>6, <1>7, <2>1, <3>1
  <2>2. CASE k = i
    <3>1. Clusters(ch[j]) \subseteq Others(ch, i)
      BY <1>7, <2>2 DEF Others
    <3> QED
      BY <1>3, <1>6, <1>7, <2>2, <3>1
  <2>3. CASE j # i /\ k # i
    BY <1>3, <1>4, <1>7, <2>3
  <2> QED
    BY <2>1, <2>2, <2>3
<1>8. ASSUME NEW d \in Cluster
      PROVE  z.fat[d] = FAT_CLUSTER_FREE <=> \A j \in Slot : d \notin Clusters(new[j])
  <2>1. d \in Others(ch, i) <=> \E j \in Slot \ {i} : d \in Clusters(new[j])
    BY <1>3 DEF Others
  <2>2. d \in Clusters(q) <=> d \in Clusters(new[i])
    BY <1>1, <1>3
  <2> QED
    BY <1>1, <1>6, <2>1, <2>2
<1>9. Consistent(z, new)
  BY <1>1, <1>5, <1>7, <1>8 DEF Consistent
<1> QED
  BY <1>2, <1>9

\* No handle but h has changed, which is closed or in slot i.
OneHandle(s, z, i, h) ==
  /\ h \in Handle /\ \A g \in Handle : g # h => z.files[g] = s.files[g]
  /\ s.files[h] = NoFile \/ s.files[h].slot = i
  /\ z.files[h] = NoFile \/ z.files[h].slot = i

(* The others then use what they did.                                       *)
LEMMA UsersElsewhere ==
  ASSUME NEW s, NEW z, NEW i, NEW h, OneHandle(s, z, i, h)
  PROVE  /\ \A j \in Slot \ {i} : /\ Users(z, j) = Users(s, j)
                                  /\ \A g \in Users(s, j) : z.files[g] = s.files[g]
         /\ \A g \in Handle : g # h => (g \in Users(z, i) <=> g \in Users(s, i))
BY DEF Users, OneHandle

(* Whoever writes a file is its only user, and has what is known of it.     *)
LEMMA WriterKeeps ==
  ASSUME NEW s, NEW i, NEW p, SlotOk(s, i, p), NEW h \in Writers(s, i)
  PROVE  Keeper(s, i) = s.files[h] /\ Users(s, i) = {h}
<1>1. \A x \in Writers(s, i), g \in Users(s, i) : g = x
  BY DEF SlotOk
<1>2. PICK g : g = CHOOSE x \in Writers(s, i) : TRUE
  OBVIOUS
<1>3. g \in Writers(s, i) /\ h \in Users(s, i)
  BY <1>2 DEF Writers
<1>4. g = h
  BY <1>1, <1>3
<1> QED
  BY <1>1, <1>2, <1>3, <1>4 DEF Keeper

(* While a file is read, nobody writes it.                                  *)
LEMMA ReaderKeeps ==
  ASSUME NEW s, NEW i, NEW p, SlotOk(s, i, p), NEW h \in Users(s, i),
         "write" \notin s.files[h].mode
  PROVE  /\ Writers(s, i) = {} /\ Keeper(s, i) = s.root[i]
         /\ s.files[h].size = s.root[i].size /\ s.files[h].sblk = s.root[i].sblk
<1>1. \A x \in Writers(s, i), g \in Users(s, i) : g = x
  BY DEF SlotOk
<1>2. Writers(s, i) = {}
  <2>1. ASSUME NEW x \in Writers(s, i)  PROVE FALSE
    <3>1. h = x
      BY <1>1
    <3> QED
      BY <2>1, <3>1 DEF Writers
  <2> QED
    BY <2>1
<1>3. HandleOk(s.fat, s.root[i], s.files[h], p, i \notin s.full)
  BY DEF SlotOk
<1> QED
  BY <1>2, <1>3 DEF Keeper, HandleOk

\* What the programs of the system do: nobody touches a file that is open for
\* writing, seeks start in the first cluster, and a file is truncated exactly
\* when it is opened for writing.
Behaved ==
  /\ Exclusive /\ ~ SeekAnywhere
  /\ \A mode \in OpenMode : "write" \in mode <=> "trunc" \in mode

BufferOk == sector \in Sector /\ buffer \in Buffer /\ Cached(sector, buffer)
ReplyOk  == ReadsBack /\ (reply # NoReply => Len(reply.bytes) <= reply.asked)

\* The inductive invariant.
FatFsInv == (\E ch : Consistent(Now, ch)) /\ BufferOk /\ ReplyOk

(* The parts of Now.                                                        *)
LEMMA NowParts ==
  /\ Now.root = root /\ Now.fat = fat /\ Now.data = data /\ Now.files = files
  /\ Now.wrote = wrote /\ Now.full = full
BY DEF Now

(* A consistent step in one slot keeps the invariant.                       *)
LEMMA StepKept ==
  ASSUME NEW ch, Consistent(Now, ch), NEW z,
         z = [root |-> root', fat |-> fat', data |-> data', files |-> files',
              wrote |-> wrote', full |-> full'],
         NEW i, NEW q, OneSlot(Now, z, ch, i, q), BufferOk', ReplyOk'
  PROVE  FatFsInv'
<1>1. PICK s : s = Now
  OBVIOUS
<1>2. Consistent(z, [j \in Slot |-> IF j = i THEN q ELSE ch[j]])
  BY <1>1, OneSlotConsistent
<1> QED
  BY <1>2 DEF FatFsInv, Now

(* A step that changes nothing but fat_buffer.                              *)
LEMMA QuietKept ==
  ASSUME FatFsInv, UNCHANGED <<disk, files, ghosts>>, BufferOk', ReplyOk'
  PROVE  FatFsInv'
<1>1. Now' = Now
  BY DEF Now, disk, ghosts
<1>2. PICK ch : Consistent(Now, ch)
  BY DEF FatFsInv
<1> QED
  BY <1>1, <1>2 DEF FatFsInv

(* The directory is read into fat_buffer.                                   *)
LEMMA ReadsRootKept ==
  ASSUME BufferOk, ReadsRoot
  PROVE  BufferOk'
BY DEF BufferOk, ReadsRoot, Cached, Sector, Buffer

(* Only a read has a reply.                                                 *)
LEMMA NoReplyOk ==
  ASSUME reply' = NoReply
  PROVE  ReplyOk'
BY DEF ReplyOk, ReadsBack

(* The first match of the scan.                                             *)
LEMMA MatchFacts ==
  ASSUME NEW n \in Name, Matches(n) # {}, NEW i, i = MinOf(Matches(n))
  PROVE  i \in Slot /\ root[i].name = n
<1>1. Matches(n) \subseteq Nat
  <2>1. Slot \subseteq Nat
    BY FatFsAssumption DEF Slot
  <2> QED
    BY <2>1 DEF Matches
<1>2. i \in Matches(n)
  BY <1>1, MinOfIn
<1> QED
  BY <1>2 DEF Matches

(* The directory and the handles of a file, as the properties name them.    *)
LEMMA UsersAre ==
  ASSUME NEW i
  PROVE  /\ Users(Now, i) = {h \in Open : files[h].slot = i}
         /\ Writers(Now, i) = Writer(i) /\ Users(Now, i) = Writer(i) \cup Reader(i)
BY DEF Users, Writers, Writer, Reader, Open, Now

(* An open file, its slot and its clusters.                                 *)
LEMMA OpenHere ==
  ASSUME NEW ch, Consistent(Now, ch), NEW h \in Open, NEW f, f = files[h], NEW i, i = f.slot
  PROVE  /\ h \in Handle /\ f \in File /\ i \in Slot /\ h \in Users(Now, i)
         /\ root[i] \in Item /\ root[i].name \in Name
         /\ SlotOk(Now, i, ch[i]) /\ Owns(fat, f.sblk, ch[i], Others(ch, i))
         /\ HandleOk(fat, root[i], f, ch[i], i \notin full)
         /\ Keeper(Now, i).size = f.size /\ Keeper(Now, i).sblk = f.sblk
         /\ Len(wrote[i]) = f.size /\ wrote[i] \in Seq(Byte)
<1>1. PICK s : s = Now
  OBVIOUS
<1>2. s \in Volume /\ \A j \in Slot : SlotOk(s, j, ch[j])
  BY <1>1 DEF Consistent
<1>3. /\ s.root = root /\ s.fat = fat /\ s.data = data /\ s.files = files
      /\ s.wrote = wrote /\ s.full = full
  BY <1>1, NowParts
<1>4. h \in Handle /\ f # NoFile /\ f \in File /\ i \in Slot
  <2>1. h \in Handle /\ s.files[h] # NoFile /\ s.files[h] = f
    BY <1>3 DEF Open
  <2>2. f \in File
    BY <1>2, <2>1, VolumeTypes
  <2> QED
    BY <2>1, <2>2, FileIsOpen
<1>5. h \in Users(s, i)
  BY <1>3, <1>4 DEF Users
<1>6. SlotOk(s, i, ch[i]) /\ root[i] \in Item /\ wrote[i] \in Seq(Byte)
  BY <1>2, <1>3, <1>4, VolumeTypes
<1>7. /\ HandleOk(fat, root[i], f, ch[i], i \notin full)
      /\ Len(wrote[i]) = Keeper(s, i).size
      /\ root[i].name \in Name
  BY <1>3, <1>5, <1>6 DEF SlotOk
<1>8. Keeper(s, i).size = f.size /\ Keeper(s, i).sblk = f.sblk
  <2>1. CASE "write" \in f.mode
    <3>1. h \in Writers(s, i)
      BY <1>3, <1>5, <2>1 DEF Writers
    <3> QED
      BY <1>3, <1>6, <3>1, WriterKeeps
  <2>2. CASE "write" \notin f.mode
    <3>1. "write" \notin s.files[h].mode
      BY <1>3, <2>2
    <3> QED
      BY <1>3, <1>5, <1>6, <3>1, ReaderKeeps
  <2> QED
    BY <2>1, <2>2
<1>9. Owns(fat, f.sblk, ch[i], Others(ch, i))
  <2>1. Owns(s.fat, Keeper(s, i).sblk, ch[i], Others(ch, i))
    BY <1>1, <1>4, OwnsHere
  <2> QED
    BY <1>3, <1>8, <2>1
<1> QED
  BY <1>1, <1>4, <1>5, <1>6, <1>7, <1>8, <1>9

(* fatfs_close.                                                             *)
LEMMA CloseKept ==
  ASSUME FatFsInv, NEW h \in Handle, fatfs_close(h)
  PROVE  FatFsInv'
<1>1. PICK ch : Consistent(Now, ch)
  BY DEF FatFsInv
<1>2. PICK f, i : f = files[h] /\ i = f.slot
  OBVIOUS
<1>3. /\ h \in Open
      /\ root' = [root EXCEPT ![i].size = f.size, ![i].sblk = f.sblk]
      /\ files' = [files EXCEPT ![h] = NoFile]
      /\ ReadsRoot /\ reply' = NoReply
      /\ fat' = fat /\ data' = data /\ wrote' = wrote /\ full' = full
  BY <1>2 DEF fatfs_close, ghosts
<1>4. /\ f \in File /\ i \in Slot /\ h \in Users(Now, i)
      /\ root[i] \in Item /\ root[i].name \in Name
      /\ SlotOk(Now, i, ch[i]) /\ Owns(fat, f.sblk, ch[i], Others(ch, i))
      /\ HandleOk(fat, root[i], f, ch[i], i \notin full)
      /\ Len(wrote[i]) = f.size /\ wrote[i] \in Seq(Byte)
  BY <1>1, <1>2, <1>3, OpenHere
<1>5. PICK s : s = Now
  OBVIOUS
<1>6. /\ s.root = root /\ s.fat = fat /\ s.data = data /\ s.files = files
      /\ s.wrote = wrote /\ s.full = full /\ s \in Volume
  BY <1>1, <1>5, NowParts DEF Consistent
<1>7. PICK z : z = [root |-> root', fat |-> fat', data |-> data', files |-> files',
                    wrote |-> wrote', full |-> full']
  OBVIOUS
<1>8. PICK g : g = [root[i] EXCEPT !.size = f.size, !.sblk = f.sblk]
  OBVIOUS
<1>9. g \in Item /\ g.name = root[i].name /\ g.size = f.size /\ g.sblk = f.sblk
  <2>1. f.size \in 0..MaxSize /\ f.sblk \in Link
    BY <1>4, FileIsOpen, FatFsAssumption DEF HandleOk
  <2> QED
    BY <1>4, <1>8, <2>1 DEF Item
<1>10. root \in [Slot -> Item] /\ files \in [Handle -> File \cup {NoFile}]
  BY <1>6 DEF Volume
<1>11. root' = [root EXCEPT ![i] = g]
  <2>1. root[i] = [name |-> root[i].name, size |-> root[i].size, sblk |-> root[i].sblk]
    BY <1>4 DEF Item
  <2> QED
    BY <1>3, <1>4, <1>8, <1>10
<1>12. /\ z.root = root' /\ z.fat = fat /\ z.data = data /\ z.files = files'
       /\ z.wrote = wrote /\ z.full = full
  BY <1>3, <1>7
<1>13. z.root[i] = g /\ \A j \in Slot \ {i} : z.root[j] = s.root[j]
  BY <1>4, <1>6, <1>10, <1>11, <1>12
<1>14. z.files[h] = NoFile /\ \A x \in Handle : x # h => z.files[x] = s.files[x]
  BY <1>3, <1>6, <1>10, <1>12
<1>15. z \in Volume
  <2>1. root' \in [Slot -> Item]
    BY <1>4, <1>9, <1>10, <1>11
  <2>2. files' \in [Handle -> File \cup {NoFile}]
    BY <1>3, <1>10
  <2> QED
    BY <1>3, <1>6, <1>7, <2>1, <2>2 DEF Volume
<1>16. /\ \A j \in Slot \ {i} : /\ Users(z, j) = Users(s, j)
                                /\ \A x \in Users(s, j) : z.files[x] = s.files[x]
       /\ \A x \in Handle : x # h => (x \in Users(z, i) <=> x \in Users(s, i))
  <2>1. s.files[h].slot = i
    BY <1>2, <1>6
  <2>2. OneHandle(s, z, i, h)
    BY <1>14, <2>1 DEF OneHandle
  <2> QED
    BY <2>2, UsersElsewhere
<1>17. h \notin Users(z, i) /\ Users(z, i) \subseteq Users(s, i) /\ Users(z, i) \subseteq Handle
  BY <1>14, <1>16 DEF Users
<1>18. ASSUME NEW x \in Users(z, i)
       PROVE  /\ "write" \notin z.files[x].mode
              /\ HandleOk(fat, g, z.files[x], ch[i], i \notin full)
  <2>1. x # h /\ x \in Handle /\ x \in Users(s, i) /\ z.files[x] = s.files[x]
    BY <1>14, <1>17
  <2>2. "write" \notin s.files[x].mode /\ "write" \notin f.mode
    <3>1. \A a \in Writers(s, i), b \in Users(s, i) : b = a
      BY <1>4, <1>5 DEF SlotOk
    <3>2. x \notin Writers(s, i) /\ h \notin Writers(s, i)
      BY <1>4, <1>5, <2>1, <3>1
    <3> QED
      BY <1>2, <1>4, <1>5, <1>6, <2>1, <3>2 DEF Writers
  <2>3. HandleOk(fat, root[i], s.files[x], ch[i], i \notin full)
    BY <1>4, <1>5, <1>6, <2>1 DEF SlotOk
  <2>4. f.size = root[i].size /\ f.sblk = root[i].sblk
    BY <1>4, <2>2 DEF HandleOk
  <2> QED
    BY <1>9, <2>1, <2>2, <2>3, <2>4 DEF HandleOk
<1>19. Writers(z, i) = {}
  BY <1>18 DEF Writers
<1>20. Keeper(z, i) = g
  BY <1>13, <1>19 DEF Keeper
<1>21. SlotOk(z, i, ch[i])
  <2>1. Path(fat, g.sblk, ch[i])
    BY <1>4, <1>9 DEF Owns
  <2>2. i \notin full => Stored(data, ch[i], wrote[i])
    BY <1>4, <1>5, <1>6 DEF SlotOk
  <2> QED
    BY <1>4, <1>9, <1>12, <1>13, <1>18, <1>19, <1>20, <2>1, <2>2 DEF SlotOk
<1>22. OneSlot(s, z, ch, i, ch[i])
  BY <1>4, <1>6, <1>9, <1>12, <1>13, <1>15, <1>16, <1>20, <1>21 DEF OneSlot
<1>23. BufferOk' /\ ReplyOk'
  BY <1>3, ReadsRootKept, NoReplyOk DEF FatFsInv
<1> QED
  BY <1>1, <1>5, <1>7, <1>22, <1>23, StepKept

(* A file that nobody has open and that has been emptied.                   *)
LEMMA EmptySlotOk ==
  ASSUME NEW z, NEW i, NEW q, Users(z, i) = {}, Len(q) = 0, q \in Seq(Cluster),
         Len(z.wrote[i]) = 0, z.root[i].size = 0, z.root[i].sblk \notin Cluster
  PROVE  SlotOk(z, i, q) /\ Keeper(z, i) = z.root[i]
<1>1. Writers(z, i) = {}
  BY DEF Writers
<1>2. Keeper(z, i) = z.root[i]
  BY <1>1 DEF Keeper
<1>3. Path(z.fat, z.root[i].sblk, q)
  BY DEF Path
<1>4. Stored(z.data, q, z.wrote[i])
  BY DEF Stored
<1> QED
  BY <1>1, <1>2, <1>3, <1>4 DEF SlotOk

(* No cluster is in an empty path.                                          *)
LEMMA NoClusters ==
  ASSUME NEW q, Len(q) = 0
  PROVE  Clusters(q) = {}
BY DEF Clusters

\* In u, the chain from c in t is free, and q, from e, is empty.
Freed(t, u, c, e, q) ==
  /\ u = cluster_free_chain(t, c)
  /\ e \notin Cluster /\ q \in Seq(Cluster) /\ Len(q) = 0

(* Freeing the clusters of a file leaves the table to the others.           *)
LEMMA FreeOwned ==
  ASSUME NEW t, NEW c, NEW p, NEW O, Owns(t, c, p, O),
         NEW u, NEW e, NEW q, Freed(t, u, c, e, q)
  PROVE  /\ Owns(u, e, q, O) /\ u \in [Cluster -> Link]
         /\ \A d \in O : u[d] = t[d]
<1>1. /\ t \in [Cluster -> Link] /\ Path(t, c, p)
      /\ O \subseteq Cluster /\ Clusters(p) \cap O = {}
      /\ \A d \in Cluster : t[d] = FAT_CLUSTER_FREE <=> d \notin Clusters(p) \cup O
  BY DEF Owns
<1>7. /\ u = cluster_free_chain(t, c)
      /\ e \notin Cluster /\ q \in Seq(Cluster) /\ Len(q) = 0
  BY DEF Freed
<1>2. /\ u \in [Cluster -> Link]
      /\ \A d \in Cluster : u[d] = IF d \in Clusters(p) THEN FAT_CLUSTER_FREE ELSE t[d]
  BY <1>1, <1>7, FreePath
<1>3. \A d \in O : u[d] = t[d]
  BY <1>1, <1>2
<1>4. Clusters(q) = {}
  BY <1>7, NoClusters
<1>5. \A d \in Cluster : u[d] = FAT_CLUSTER_FREE <=> d \notin Clusters(q) \cup O
  BY <1>1, <1>2, <1>4
<1>6. Path(u, e, q)
  BY <1>7 DEF Path
<1> QED
  BY <1>1, <1>2, <1>3, <1>4, <1>5, <1>6 DEF Owns

(* fatfs_unlink of a file that is there.                                    *)
LEMMA UnlinkKept ==
  ASSUME Behaved, FatFsInv, NEW n \in Name, Unlink(n)
  PROVE  FatFsInv'
<1>1. PICK ch : Consistent(Now, ch)
  BY DEF FatFsInv
<1>2. PICK i : i = MinOf(Matches(n))
  OBVIOUS
<1>3. /\ Matches(n) # {} /\ Writer(i) \cup Reader(i) = {}
      /\ fat' = cluster_free_chain(fat, root[i].sblk)
      /\ root' = [root EXCEPT ![i] = Empty]
      /\ sector' = "root" /\ buffer' = "root"
      /\ wrote' = [wrote EXCEPT ![i] = <<>>]
      /\ full' = full \ {i} /\ reply' = NoReply
      /\ data' = data /\ files' = files
  BY <1>2 DEF Unlink, Behaved
<1>4. i \in Slot
  BY <1>2, <1>3, MatchFacts
<1>5. PICK s : s = Now
  OBVIOUS
<1>6. /\ s.root = root /\ s.fat = fat /\ s.data = data /\ s.files = files
      /\ s.wrote = wrote /\ s.full = full /\ s \in Volume
  BY <1>1, <1>5, NowParts DEF Consistent
<1>7. PICK z : z = [root |-> root', fat |-> fat', data |-> data', files |-> files',
                    wrote |-> wrote', full |-> full']
  OBVIOUS
<1>8. /\ root \in [Slot -> Item] /\ files \in [Handle -> File \cup {NoFile}]
      /\ wrote \in [Slot -> Seq(Byte)] /\ data \in [Cluster -> Block] /\ full \subseteq Slot
  BY <1>6 DEF Volume
<1>9. PICK none \in Seq(Byte) : none = <<>> /\ Len(none) = 0
  <2>1. <<>> \in Seq(Byte) /\ Len(<<>>) = 0
    OBVIOUS
  <2> QED
    BY <2>1
<1>10. /\ Empty \in Item /\ Empty.size = 0 /\ Empty.sblk \notin Cluster
       /\ Empty.name \notin Name
  BY FatFsAssumption, LinkFacts DEF Empty, Item, FAT_CLUSTER_FREE
<1>11. Users(s, i) = {}
  BY <1>3, <1>5, UsersAre
<1>12. Keeper(s, i) = root[i]
  <2>1. Writers(s, i) = {}
    BY <1>11 DEF Writers
  <2> QED
    BY <1>6, <2>1 DEF Keeper
<1>13. Owns(fat, root[i].sblk, ch[i], Others(ch, i))
  <2>1. Owns(s.fat, Keeper(s, i).sblk, ch[i], Others(ch, i))
    BY <1>1, <1>4, <1>5, OwnsHere
  <2> QED
    BY <1>6, <1>12, <2>1
<1>14. PICK q \in Seq(Cluster) : Len(q) = 0
  <2>1. <<>> \in Seq(Cluster) /\ Len(<<>>) = 0
    OBVIOUS
  <2> QED
    BY <2>1
<1>15. PICK t, u, c, e : t = fat /\ u = fat' /\ c = root[i].sblk /\ e = Empty.sblk
  OBVIOUS
<1>16. /\ Owns(u, e, q, Others(ch, i)) /\ u \in [Cluster -> Link]
       /\ \A d \in Others(ch, i) : u[d] = t[d]
  <2>1. Owns(t, c, ch[i], Others(ch, i)) /\ u = cluster_free_chain(t, c) /\ e \notin Cluster
    BY <1>3, <1>10, <1>13, <1>15
  <2>5. Freed(t, u, c, e, q)
    BY <1>14, <2>1 DEF Freed
  <2>2. PICK p, O : p = ch[i] /\ O = Others(ch, i)
    OBVIOUS
  <2>3. Owns(t, c, p, O)
    BY <2>1, <2>2
  <2>4. /\ Owns(u, e, q, O) /\ u \in [Cluster -> Link]
        /\ \A d \in O : u[d] = t[d]
    BY <2>3, <2>5, FreeOwned
  <2> QED
    BY <2>2, <2>4
<1>17. /\ z.root = root' /\ z.fat = u /\ z.data = data /\ z.files = files
       /\ z.wrote = wrote' /\ z.full = full \ {i}
  BY <1>3, <1>7, <1>15
<1>18. z \in Volume
  <2>1. root' \in [Slot -> Item]
    BY <1>3, <1>4, <1>8, <1>10
  <2>2. wrote' \in [Slot -> Seq(Byte)]
    BY <1>3, <1>4, <1>8, <1>9
  <2> QED
    BY <1>3, <1>7, <1>8, <1>15, <1>16, <2>1, <2>2 DEF Volume
<1>19. /\ \A j \in Slot : Users(z, j) = Users(s, j)
       /\ \A x \in Handle : z.files[x] = s.files[x]
  BY <1>6, <1>17 DEF Users
<1>20. /\ z.root[i] = Empty /\ Len(z.wrote[i]) = 0
       /\ \A j \in Slot \ {i} : z.root[j] = s.root[j] /\ z.wrote[j] = s.wrote[j]
  BY <1>3, <1>4, <1>6, <1>8, <1>9, <1>17
<1>21. SlotOk(z, i, q) /\ Keeper(z, i) = z.root[i]
  <2>1. Users(z, i) = {}
    BY <1>4, <1>11, <1>19
  <2>2. z.root[i].size = 0 /\ z.root[i].sblk \notin Cluster /\ Len(z.wrote[i]) = 0
    BY <1>10, <1>20
  <2> QED
    BY <1>14, <2>1, <2>2, EmptySlotOk
<1>22. OneSlot(s, z, ch, i, q)
  <2>1. \A c2 \in Others(ch, i) : z.fat[c2] = s.fat[c2] /\ z.data[c2] = s.data[c2]
    BY <1>6, <1>15, <1>16, <1>17
  <2>2. Owns(z.fat, Keeper(z, i).sblk, q, Others(ch, i))
    BY <1>15, <1>16, <1>17, <1>20, <1>21
  <2>3. \A j \in Slot \ {i} : /\ j \in z.full <=> j \in s.full
                              /\ \A h \in Users(s, j) : z.files[h] = s.files[h]
    BY <1>6, <1>17, <1>19
  <2> QED
    BY <1>4, <1>18, <1>19, <1>20, <1>21, <2>1, <2>2, <2>3 DEF OneSlot
<1>23. BufferOk' /\ ReplyOk'
  <2>1. BufferOk'
    BY <1>3 DEF BufferOk, Cached, Sector, Buffer
  <2> QED
    BY <1>3, <2>1, NoReplyOk
<1> QED
  BY <1>1, <1>5, <1>7, <1>22, <1>23, StepKept

\* g is the file f, read or sought to another place in it.
ElsewhereIn(f, g) ==
  /\ g \in File /\ "write" \notin f.mode
  /\ g.slot = f.slot /\ g.mode = f.mode /\ g.size = f.size /\ g.sblk = f.sblk
  /\ g.pos <= g.size /\ g.cblk = Nth(fat, g.sblk, Quot(g.pos))

(* Moving in a file that is open for reading.                               *)
LEMMA ReaderMoves ==
  ASSUME NEW ch, Consistent(Now, ch), NEW h \in Open, NEW g, ElsewhereIn(files[h], g),
         root' = root, fat' = fat, data' = data, wrote' = wrote, full' = full,
         files' = [files EXCEPT ![h] = g], BufferOk', ReplyOk'
  PROVE  FatFsInv'
<1>1. PICK f, i : f = files[h] /\ i = f.slot
  OBVIOUS
<1>2. /\ f \in File /\ i \in Slot /\ h \in Users(Now, i) /\ h \in Handle
      /\ SlotOk(Now, i, ch[i]) /\ Owns(fat, f.sblk, ch[i], Others(ch, i))
      /\ HandleOk(fat, root[i], f, ch[i], i \notin full)
      /\ Keeper(Now, i).sblk = f.sblk
  BY <1>1, OpenHere
<1>3. /\ g \in File /\ "write" \notin f.mode
      /\ g.slot = i /\ g.mode = f.mode /\ g.size = f.size /\ g.sblk = f.sblk
      /\ g.pos <= g.size /\ g.cblk = Nth(fat, g.sblk, Quot(g.pos))
  BY <1>1 DEF ElsewhereIn
<1>4. PICK s : s = Now
  OBVIOUS
<1>5. /\ s.root = root /\ s.fat = fat /\ s.data = data /\ s.files = files
      /\ s.wrote = wrote /\ s.full = full /\ s \in Volume
  BY <1>4, NowParts DEF Consistent
<1>6. PICK z : z = [root |-> root', fat |-> fat', data |-> data', files |-> files',
                    wrote |-> wrote', full |-> full']
  OBVIOUS
<1>7. /\ z.root = root /\ z.fat = fat /\ z.data = data /\ z.files = files'
      /\ z.wrote = wrote /\ z.full = full
  BY <1>6
<1>8. files \in [Handle -> File \cup {NoFile}]
  BY <1>5 DEF Volume
<1>9. z.files[h] = g /\ \A x \in Handle : x # h => z.files[x] = s.files[x]
  BY <1>2, <1>5, <1>7, <1>8
<1>10. z \in Volume
  <2>1. files' \in [Handle -> File \cup {NoFile}]
    BY <1>3, <1>8
  <2> QED
    BY <1>5, <1>6, <2>1 DEF Volume
<1>11. g # NoFile
  BY <1>3, FileIsOpen
<1>12. /\ \A j \in Slot \ {i} : /\ Users(z, j) = Users(s, j)
                                /\ \A x \in Users(s, j) : z.files[x] = s.files[x]
       /\ \A x \in Handle : x # h => (x \in Users(z, i) <=> x \in Users(s, i))
  <2>1. OneHandle(s, z, i, h)
    BY <1>1, <1>2, <1>3, <1>5, <1>9 DEF OneHandle
  <2> QED
    BY <2>1, UsersElsewhere
<1>13. Users(z, i) = Users(s, i)
  <2>1. h \in Users(z, i) /\ h \in Users(s, i)
    BY <1>2, <1>3, <1>4, <1>9, <1>11 DEF Users
  <2>2. Users(z, i) \subseteq Handle /\ Users(s, i) \subseteq Handle
    BY DEF Users
  <2> QED
    BY <1>12, <2>1, <2>2
<1>14. Writers(s, i) = {} /\ Keeper(s, i) = root[i]
  <2>1. SlotOk(s, i, ch[i]) /\ h \in Users(s, i) /\ "write" \notin s.files[h].mode
    BY <1>1, <1>2, <1>3, <1>4, <1>5
  <2> QED
    BY <1>5, <2>1, ReaderKeeps
<1>15. Writers(z, i) = {}
  <2> SUFFICES ASSUME NEW x \in Users(z, i) PROVE "write" \notin z.files[x].mode
    BY DEF Writers
  <2>1. CASE x = h
    BY <1>3, <1>9, <2>1
  <2>2. CASE x # h
    <3>1. x \in Users(s, i) /\ z.files[x] = s.files[x]
      BY <1>9, <1>13, <2>2 DEF Users
    <3> QED
      BY <1>14, <3>1 DEF Writers
  <2> QED
    BY <2>1, <2>2
<1>16. Keeper(z, i) = root[i]
  BY <1>7, <1>15 DEF Keeper
<1>17. ASSUME NEW x \in Users(z, i)
       PROVE  HandleOk(fat, root[i], z.files[x], ch[i], i \notin full)
  <2>1. CASE x = h
    BY <1>2, <1>3, <1>9, <2>1 DEF HandleOk
  <2>2. CASE x # h
    <3>1. x \in Users(s, i) /\ z.files[x] = s.files[x]
      BY <1>9, <1>13, <2>2 DEF Users
    <3> QED
      BY <1>2, <1>4, <1>5, <3>1 DEF SlotOk
  <2> QED
    BY <2>1, <2>2
<1>18. SlotOk(z, i, ch[i])
  <2>1. /\ Path(fat, root[i].sblk, ch[i]) /\ Len(wrote[i]) = root[i].size
        /\ root[i].name \notin Name => Len(ch[i]) = 0 /\ Users(z, i) = {}
        /\ i \notin full => Stored(data, ch[i], wrote[i])
    BY <1>2, <1>4, <1>5, <1>13, <1>14 DEF SlotOk
  <2> QED
    BY <1>7, <1>15, <1>16, <1>17, <2>1 DEF SlotOk
<1>19. OneSlot(s, z, ch, i, ch[i])
  <2>1. Owns(fat, root[i].sblk, ch[i], Others(ch, i))
    BY <1>2, <1>4, <1>14
  <2> QED
    BY <1>2, <1>5, <1>7, <1>10, <1>12, <1>16, <1>18, <2>1 DEF OneSlot
<1> QED
  BY <1>4, <1>6, <1>19, StepKept

(* fatfs_seek.                                                              *)
LEMMA SeekKept ==
  ASSUME Behaved, FatFsInv, NEW h \in Handle, NEW offset, fatfs_seek(h, offset)
  PROVE  FatFsInv'
<1>1. PICK ch : Consistent(Now, ch)
  BY DEF FatFsInv
<1>2. PICK f, hops, c : f = files[h] /\ hops = offset \div ClusterSize /\ c = Nth(fat, f.cblk, hops)
  OBVIOUS
<1>3. /\ h \in Open /\ "write" \notin f.mode
      /\ f.cblk = f.sblk
      /\ offset \in 0..f.size
      /\ files' = files \/ files' = [files EXCEPT ![h].pos = offset, ![h].cblk = c]
      /\ IF hops > 0 /\ f.cblk \in Cluster
         THEN sector' = "fat" /\ buffer' = IF sector = "fat" THEN buffer ELSE "fat"
         ELSE UNCHANGED <<sector, buffer>>
      /\ reply' = NoReply
      /\ root' = root /\ fat' = fat /\ data' = data /\ wrote' = wrote /\ full' = full
  BY <1>2 DEF fatfs_seek, Behaved, disk, ghosts
<1>4. BufferOk' /\ ReplyOk'
  <2>1. BufferOk'
    BY <1>3 DEF FatFsInv, BufferOk, Cached, Sector, Buffer
  <2> QED
    BY <1>3, <2>1, NoReplyOk
<1>5. CASE files' = files
  BY <1>3, <1>4, <1>5, QuietKept DEF disk, ghosts
<1>6. CASE files' = [files EXCEPT ![h].pos = offset, ![h].cblk = c]
  <2>1. PICK i : i = f.slot
    OBVIOUS
  <2>2. /\ f \in File /\ Owns(fat, f.sblk, ch[i], Others(ch, i))
    BY <1>1, <1>2, <1>3, <2>1, OpenHere
  <2>3. f.size \in Nat /\ f.cblk \in Link /\ fat \in [Cluster -> Link]
    BY <2>2, FileIsOpen DEF Owns
  <2>4. offset \in Nat /\ offset <= f.size
    BY <1>3, <2>3
  <2>5. hops = Quot(offset) /\ hops \in Nat
    BY <1>2, <2>4, RemNat DEF Quot
  <2>6. c \in Link
    <3>1. PICK t, b : t = fat /\ b = f.cblk
      OBVIOUS
    <3>2. Nth(t, b, hops) \in Link
      BY <2>3, <2>5, <3>1, NthTyped
    <3> QED
      BY <1>2, <3>1, <3>2
  <2>7. PICK g : g = [f EXCEPT !.pos = offset, !.cblk = c]
    OBVIOUS
  <2>8. /\ g \in File /\ g.slot = f.slot /\ g.mode = f.mode /\ g.size = f.size
        /\ g.sblk = f.sblk /\ g.pos = offset /\ g.cblk = c
    BY <2>2, <2>4, <2>6, <2>7 DEF File
  <2>9. ElsewhereIn(files[h], g)
    BY <1>2, <1>3, <2>4, <2>5, <2>8 DEF ElsewhereIn
  <2>10. files' = [files EXCEPT ![h] = g]
    <3>1. files \in [Handle -> File \cup {NoFile}]
      BY <1>1, NowParts DEF Consistent, Volume
    <3> QED
      BY <1>2, <1>6, <2>2, <2>7, <3>1 DEF File
  <2> QED
    BY <1>1, <1>3, <1>4, <2>9, <2>10, ReaderMoves
<1> QED
  BY <1>3, <1>5, <1>6

(* The record of work that an operation begins with.                        *)
LEMMA WorkFacts ==
  ASSUME NEW ch, Consistent(Now, ch), BufferOk, NEW f \in File, NEW n \in Nat,
         NEW w, w = Work(f, n)
  PROVE  /\ w \in WorkRec /\ Cached(w.sec, w.buf) /\ w.ok /\ Len(w.out) = 0
         /\ w.t = fat /\ w.d = data /\ w.f = f /\ w.left = n
         /\ w.sec = sector /\ w.buf = buffer
<1>1. fat \in [Cluster -> Link] /\ data \in [Cluster -> Block]
  BY NowParts DEF Consistent, Volume
<1>2. PICK none \in Seq(Byte) : none = <<>> /\ Len(none) = 0
  <2>1. <<>> \in Seq(Byte) /\ Len(<<>>) = 0
    OBVIOUS
  <2> QED
    BY <2>1
<1>3. w = [t |-> fat, d |-> data, f |-> f, sec |-> sector, buf |-> buffer,
           ok |-> TRUE, left |-> n, out |-> none]
  BY <1>2 DEF Work
<1>4. sector \in Sector /\ buffer \in Buffer /\ Cached(sector, buffer)
  BY DEF BufferOk
<1> QED
  BY <1>1, <1>2, <1>3, <1>4 DEF WorkRec

(* fatfs_read.                                                              *)
LEMMA ReadKept ==
  ASSUME FatFsInv, NEW h \in Handle, NEW n \in CallSize, fatfs_read(h, n)
  PROVE  FatFsInv'
<1>1. PICK ch : Consistent(Now, ch)
  BY DEF FatFsInv
<1>2. PICK f, i : f = files[h] /\ i = f.slot
  OBVIOUS
<1>3. PICK m : m = IF f.pos + n > f.size THEN f.size - f.pos ELSE n
  OBVIOUS
<1>4. PICK w, v : w = Work(f, m) /\ v = ReadLoop(w)
  OBVIOUS
<1>5. /\ h \in Open /\ "write" \notin f.mode /\ Commit(h, v)
      /\ reply' = [slot |-> i, from |-> f.pos, asked |-> n, bytes |-> v.out]
      /\ root' = root /\ wrote' = wrote /\ full' = full
  BY <1>2, <1>3, <1>4 DEF fatfs_read, ghosts
<1>6. /\ h \in Handle /\ f \in File /\ i \in Slot
      /\ SlotOk(Now, i, ch[i]) /\ Owns(fat, f.sblk, ch[i], Others(ch, i))
      /\ HandleOk(fat, root[i], f, ch[i], i \notin full)
      /\ Len(wrote[i]) = f.size /\ wrote[i] \in Seq(Byte)
  BY <1>1, <1>2, <1>5, OpenHere
<1>7. PICK a \in Nat, sz \in Nat : a = f.pos /\ sz = f.size /\ a <= sz
  BY <1>6, FileIsOpen DEF HandleOk
<1>8. n \in Nat /\ m \in Nat /\ m <= n /\ a + m <= sz /\ a + m = Lesser(a + n, sz)
  <2>1. n \in Nat
    BY FatFsAssumption
  <2>2. CASE a + n > sz
    <3>1. m = sz - a /\ sz - a \in Nat /\ sz - a <= n /\ a + (sz - a) = sz
      BY <1>3, <1>7, <2>1, <2>2
    <3>2. Lesser(a + n, sz) = sz
      BY <2>1, <2>2 DEF Lesser
    <3> QED
      BY <2>1, <3>1, <3>2
  <2>3. CASE ~ (a + n > sz)
    <3>1. m = n
      BY <1>3, <1>7, <2>3
    <3>2. Lesser(a + n, sz) = a + n
      BY <2>1, <2>3 DEF Lesser
    <3> QED
      BY <2>1, <2>3, <3>1, <3>2
  <2> QED
    BY <2>2, <2>3
<1>9. /\ w \in WorkRec /\ Cached(w.sec, w.buf) /\ Len(w.out) = 0
      /\ w.t = fat /\ w.d = data /\ w.f = f /\ w.left = m
  <2>1. BufferOk
    BY DEF FatFsInv
  <2> QED
    BY <1>1, <1>4, <1>6, <1>8, <2>1, WorkFacts
<1>10. Reading(v, w) /\ v.left = 0
  <2>1. InPlace(w)
    BY <1>6, <1>9 DEF InPlace, HandleOk
  <2> QED
    BY <1>4, <1>9, <2>1, ReadLoopFacts
<1>11. /\ v \in WorkRec /\ Cached(v.sec, v.buf) /\ InPlace(v)
       /\ v.t = fat /\ v.d = data
       /\ v.f.slot = f.slot /\ v.f.mode = f.mode /\ v.f.size = f.size
       /\ v.f.sblk = f.sblk /\ v.f.pos = a + Len(v.out)
       /\ Len(v.out) + v.left = m
       /\ \A k \in 1..Len(v.out) : v.out[k] = ByteAt(fat, data, f.sblk, a + k)
  BY <1>7, <1>9, <1>10 DEF Reading
<1>12. Len(v.out) = m /\ v.out \in Seq(Byte) /\ v.f \in File /\ v.sec \in Sector /\ v.buf \in Buffer
  <2>1. v.out \in Seq(Byte) /\ v.f \in File /\ v.sec \in Sector /\ v.buf \in Buffer
    BY <1>11 DEF WorkRec
  <2>2. Len(v.out) \in Nat
    BY <2>1, LenProperties
  <2> QED
    BY <1>8, <1>10, <1>11, <2>1, <2>2
<1>13. ElsewhereIn(files[h], v.f)
  <2>1. v.f.pos <= v.f.size
    BY <1>7, <1>8, <1>11, <1>12
  <2>2. v.f.cblk = Nth(fat, v.f.sblk, Quot(v.f.pos))
    BY <1>11 DEF InPlace
  <2> QED
    BY <1>2, <1>5, <1>11, <1>12, <2>1, <2>2 DEF ElsewhereIn
<1>14. /\ fat' = fat /\ data' = data /\ files' = [files EXCEPT ![h] = v.f]
       /\ sector' = v.sec /\ buffer' = v.buf
  BY <1>5, <1>11 DEF Commit
<1>15. BufferOk'
  BY <1>11, <1>12, <1>14 DEF BufferOk
<1>16. ASSUME i \notin full
       PROVE  v.out = SubSeq(wrote[i], a + 1, a + m)
  <2>1. PICK txt \in Seq(Byte) : txt = wrote[i] /\ Len(txt) = sz
    BY <1>6, <1>7
  <2>2. PICK t, d, c, p : t = fat /\ d = data /\ c = f.sblk /\ p = ch[i]
    OBVIOUS
  <2>3. Path(t, c, p) /\ Stored(d, p, txt)
    BY <1>6, <1>16, <2>1, <2>2, NowParts DEF Owns, SlotOk
  <2>4. \A k \in 1..sz : ByteAt(t, d, c, k) = txt[k]
    <3>1. Len(txt) \in Nat
      BY <2>1
    <3>2. \A k \in 1..Len(txt) : ByteAt(t, d, c, k) = txt[k]
      BY <2>3, <3>1, StoredIsRead
    <3> QED
      BY <2>1, <3>2
  <2>5. PICK out \in Seq(Byte) : out = v.out /\ Len(out) = m
    BY <1>12
  <2>6. \A k \in 1..m : out[k] = txt[a + k]
    <3> TAKE k \in 1..m
    <3>1. a + k \in 1..sz
      <4>1. k \in Nat /\ 1 <= k /\ k <= m
        BY <1>8
      <4>2. a \in Nat /\ m \in Nat /\ sz \in Nat /\ a + m <= sz
        BY <1>7, <1>8
      <4> QED
        BY <4>1, <4>2
    <3>2. out[k] = ByteAt(t, d, c, a + k)
      BY <1>11, <1>12, <2>2, <2>5
    <3> QED
      BY <2>4, <3>1, <3>2
  <2>7. PICK x \in Int, y \in Int : x = a + 1 /\ y = a + m
    BY <1>8
  <2>8. PICK part : part = SubSeq(txt, x, y)
    OBVIOUS
  <2>9. /\ part \in Seq(Byte) /\ Len(part) = m
        /\ \A k \in 1..m : part[k] = txt[a + k]
    <3>1. \A j \in x..y : txt[j] \in Byte
      <4>1. \A j \in x..y : j \in 1..Len(txt)
        BY <1>7, <1>8, <2>1, <2>7
      <4> QED
        BY <4>1, ElementOfSeq
    <3>2. /\ SubSeq(txt, x, y) \in Seq(Byte)
          /\ Len(SubSeq(txt, x, y)) = IF x <= y THEN y - x + 1 ELSE 0
          /\ \A j \in 1..(y - x + 1) : SubSeq(txt, x, y)[j] = txt[x + j - 1]
      BY <3>1, SubSeqProperties
    <3>3. (IF x <= y THEN y - x + 1 ELSE 0) = m
      BY <1>8, <2>7
    <3>4. y - x + 1 = m /\ \A k \in 1..m : x + k - 1 = a + k
      BY <1>8, <2>7
    <3> QED
      BY <2>8, <3>2, <3>3, <3>4
  <2>10. out = part
    <3>1. \A k \in 1..Len(out) : out[k] = part[k]
      BY <2>5, <2>6, <2>9
    <3>2. out \in Seq(Byte) /\ part \in Seq(Byte) /\ Len(out) = Len(part)
      BY <2>5, <2>9
    <3> QED
      BY <3>1, <3>2, SeqEqual
  <2> QED
    BY <2>1, <2>5, <2>7, <2>8, <2>10
<1>17. ReplyOk'
  <2>1. reply'.slot = i /\ reply'.from = a /\ reply'.asked = n /\ reply'.bytes = v.out
    BY <1>5, <1>7
  <2>2. Len(v.out) <= n
    BY <1>8, <1>12
  <2>3. i \notin full => v.out = SubSeq(wrote[i], a + 1, Lesser(a + n, Len(wrote[i])))
    BY <1>6, <1>7, <1>8, <1>16
  <2> QED
    BY <1>5, <2>1, <2>2, <2>3 DEF ReplyOk, ReadsBack
<1> QED
  BY <1>1, <1>5, <1>13, <1>14, <1>15, <1>17, ReaderMoves

(* The bytes that a program writes next.                                    *)
LEMMA BytesFacts ==
  ASSUME NEW h, NEW n \in Nat, Len(wrote[files[h].slot]) \in Nat
  PROVE  Bytes(h, n) \in Seq(Byte) /\ Len(Bytes(h, n)) = n
<1>1. PICK c \in Nat \ {0}, l \in Nat : c = ClusterSize /\ l = Len(wrote[files[h].slot])
  BY FatFsAssumption
<1>2. \A i \in 1..n : (l + i) % (c + 1) \in 0..c
  <2> TAKE i \in 1..n
  <2>1. PICK x \in Nat, y \in Nat \ {0} : x = l + i /\ y = c + 1
    <3>1. l + i \in Nat /\ c + 1 \in Nat \ {0}
      OBVIOUS
    <3> QED
      BY <3>1
  <2>2. x % y \in 0..(y - 1)
    OBVIOUS
  <2> QED
    BY <2>1, <2>2
<1>3. PICK g : g = [i \in 1..n |-> (l + i) % (c + 1)]
  OBVIOUS
<1>4. g \in [1..n -> Byte]
  BY <1>1, <1>2, <1>3 DEF Byte
<1>5. g \in Seq(Byte) /\ Len(g) = n
  BY <1>4, FunSeq
<1> QED
  BY <1>1, <1>3, <1>5 DEF Bytes

(* fatfs_write.                                                             *)
LEMMA WriteKept ==
  ASSUME FatFsInv, NEW h \in Handle, NEW n \in CallSize, h \in Open,
         fatfs_write(h, Bytes(h, n))
  PROVE  FatFsInv'
<1>1. PICK ch : Consistent(Now, ch)
  BY DEF FatFsInv
<1>2. PICK f, i, bytes : f = files[h] /\ i = f.slot /\ bytes = Bytes(h, n)
  OBVIOUS
<1>3. /\ h \in Handle /\ f \in File /\ i \in Slot /\ h \in Users(Now, i)
      /\ root[i] \in Item /\ root[i].name \in Name
      /\ SlotOk(Now, i, ch[i]) /\ Owns(fat, f.sblk, ch[i], Others(ch, i))
      /\ HandleOk(fat, root[i], f, ch[i], i \notin full)
      /\ Len(wrote[i]) = f.size /\ wrote[i] \in Seq(Byte)
  BY <1>1, <1>2, OpenHere
<1>4. n \in Nat /\ n # 0 /\ bytes \in Seq(Byte) /\ Len(bytes) = n
  <2>1. n \in Nat /\ n # 0
    BY FatFsAssumption
  <2>2. Len(wrote[files[h].slot]) \in Nat
    BY <1>2, <1>3, LenProperties
  <2> QED
    BY <1>2, <2>1, <2>2, BytesFacts
<1>5. PICK w : w = Work(f, n)
  OBVIOUS
<1>6. PICK room : room = IF f.pos + n > f.size THEN expand_file(w, f.pos + n - f.size) ELSE w
  OBVIOUS
<1>7. PICK v : v = IF room.ok THEN WriteLoop(room, bytes) ELSE room
  OBVIOUS
<1>8. /\ "write" \in f.mode /\ f.size + n <= MaxSize /\ Commit(h, v)
      /\ wrote' = [wrote EXCEPT ![i] = @ \o v.out]
      /\ full' = IF room.ok /\ ~ v.ok THEN full \cup {i} ELSE full
      /\ reply' = NoReply /\ root' = root
  BY <1>2, <1>4, <1>5, <1>6, <1>7 DEF fatfs_write
<1>9. /\ w \in WorkRec /\ Cached(w.sec, w.buf) /\ w.ok /\ Len(w.out) = 0
      /\ w.t = fat /\ w.d = data /\ w.f = f /\ w.left = n
  <2>1. BufferOk
    BY DEF FatFsInv
  <2> QED
    BY <1>1, <1>3, <1>4, <1>5, <2>1, WorkFacts
<1>10. room = Room(w, w.left)
  BY <1>6, <1>9 DEF Room
<1>11. PICK p, O, txt, clean : /\ p = ch[i] /\ O = Others(ch, i) /\ txt = wrote[i]
                               /\ clean = (i \notin full)
  OBVIOUS
<1>12. PICK s : s = Now
  OBVIOUS
<1>13. /\ s.root = root /\ s.fat = fat /\ s.data = data /\ s.files = files
       /\ s.wrote = wrote /\ s.full = full /\ s \in Volume
  BY <1>1, <1>12, NowParts DEF Consistent
<1>14. Writable(w, p, O, txt, clean)
  <2>1. InPlace(w)
    BY <1>3, <1>9 DEF InPlace, HandleOk
  <2>2. Held(w, p, O)
    BY <1>3, <1>8, <1>9, <1>11 DEF Held, HandleOk
  <2>3. /\ f.pos <= f.size
        /\ f.size = 0 => Len(p) = 0
        /\ f.size > 0 => Len(p) = Quot(f.pos) + 1
        /\ clean => f.pos = f.size
    BY <1>3, <1>8, <1>11 DEF HandleOk
  <2>4. clean => Stored(data, p, txt)
    BY <1>3, <1>11, <1>12, <1>13 DEF SlotOk
  <2> QED
    BY <1>3, <1>9, <1>11, <2>1, <2>2, <2>3, <2>4 DEF Writable
<1>15. PICK q : Written(w, v, q, O, txt, clean, room.ok /\ ~ v.ok)
  <2>1. txt \in Seq(Byte) /\ clean \in BOOLEAN
    BY <1>3, <1>11
  <2>2. w.left = Len(bytes) /\ w.left # 0
    BY <1>4, <1>9
  <2> QED
    BY <1>4, <1>7, <1>10, <1>14, <2>1, <2>2, WriteFacts
<1>16. PICK lost : lost = (room.ok /\ ~ v.ok)
  OBVIOUS
<1>17. /\ Held(v, q, O) /\ InPlace(v)
       /\ v.f.slot = i /\ v.f.mode = f.mode
       /\ v.f.size = Len(txt) + Len(v.out) /\ v.f.pos <= v.f.size /\ Len(v.out) <= n
       /\ \A c \in O : v.t[c] = fat[c] /\ v.d[c] = data[c]
       /\ v.f.size = 0 => Len(q) = 0
       /\ v.f.size > 0 => Len(q) = Quot(v.f.pos) + 1
       /\ clean /\ ~ lost => v.f.pos = v.f.size /\ Stored(v.d, q, txt \o v.out)
  BY <1>2, <1>9, <1>15, <1>16 DEF Written
<1>18. /\ v \in WorkRec /\ Cached(v.sec, v.buf) /\ Owns(v.t, v.f.sblk, q, O) /\ Ended(v.t, q)
  BY <1>17 DEF Held
<1>19. /\ v.f \in File /\ v.t \in [Cluster -> Link] /\ v.d \in [Cluster -> Block]
       /\ v.out \in Seq(Byte) /\ v.sec \in Sector /\ v.buf \in Buffer
  BY <1>18 DEF WorkRec
<1>20. PICK all \in Seq(Byte) : all = txt \o v.out /\ Len(all) = v.f.size
  <2>1. PICK a \in Seq(Byte), b \in Seq(Byte) : a = txt /\ b = v.out
    BY <1>3, <1>11, <1>19
  <2>2. a \o b \in Seq(Byte) /\ Len(a \o b) = Len(a) + Len(b)
    BY ConcatProperties
  <2> QED
    BY <1>17, <2>1, <2>2
<1>21. v.f.size <= MaxSize
  <2>1. Len(v.out) \in Nat /\ Len(txt) \in Nat /\ Len(txt) = f.size /\ MaxSize \in Nat
    BY <1>3, <1>11, <1>19, LenProperties, FatFsAssumption
  <2> QED
    BY <1>4, <1>8, <1>17, <2>1
<1>22. /\ fat' = v.t /\ data' = v.d /\ files' = [files EXCEPT ![h] = v.f]
       /\ sector' = v.sec /\ buffer' = v.buf
  BY <1>8 DEF Commit
<1>23. PICK z : z = [root |-> root', fat |-> fat', data |-> data', files |-> files',
                     wrote |-> wrote', full |-> full']
  OBVIOUS
<1>24. /\ z.root = root /\ z.fat = v.t /\ z.data = v.d /\ z.files = files'
       /\ z.wrote = wrote' /\ z.full = IF lost THEN full \cup {i} ELSE full
  BY <1>8, <1>16, <1>22, <1>23
<1>25. /\ files \in [Handle -> File \cup {NoFile}] /\ wrote \in [Slot -> Seq(Byte)]
       /\ root \in [Slot -> Item] /\ full \subseteq Slot
  BY <1>13 DEF Volume
<1>26. z.files[h] = v.f /\ \A x \in Handle : x # h => z.files[x] = s.files[x]
  BY <1>13, <1>22, <1>24, <1>25
<1>27. wrote' = [wrote EXCEPT ![i] = all]
  BY <1>3, <1>8, <1>11, <1>20, <1>25
<1>28. z.wrote[i] = all /\ \A j \in Slot \ {i} : z.wrote[j] = s.wrote[j]
  BY <1>3, <1>13, <1>24, <1>25, <1>27
<1>29. z \in Volume
  <2>1. files' \in [Handle -> File \cup {NoFile}]
    BY <1>19, <1>22, <1>25
  <2>2. wrote' \in [Slot -> Seq(Byte)]
    BY <1>3, <1>25, <1>27
  <2>3. full' \in SUBSET Slot
    BY <1>3, <1>8, <1>25
  <2> QED
    BY <1>8, <1>19, <1>22, <1>23, <1>25, <2>1, <2>2, <2>3 DEF Volume
<1>30. v.f # NoFile
  BY <1>19, FileIsOpen
<1>31. /\ \A j \in Slot \ {i} : /\ Users(z, j) = Users(s, j)
                                /\ \A x \in Users(s, j) : z.files[x] = s.files[x]
       /\ \A x \in Handle : x # h => (x \in Users(z, i) <=> x \in Users(s, i))
  <2>1. OneHandle(s, z, i, h)
    BY <1>2, <1>13, <1>17, <1>26 DEF OneHandle
  <2> QED
    BY <2>1, UsersElsewhere
<1>32. Users(s, i) = {h}
  <2>1. SlotOk(s, i, p) /\ h \in Writers(s, i)
    BY <1>2, <1>3, <1>8, <1>11, <1>12, <1>13 DEF Writers
  <2> QED
    BY <2>1, WriterKeeps
<1>33. Users(z, i) = {h} /\ Writers(z, i) = {h}
  <2>1. h \in Users(z, i)
    BY <1>17, <1>26, <1>30 DEF Users
  <2>2. Users(z, i) \subseteq Handle
    BY DEF Users
  <2>3. Users(z, i) = {h}
    BY <1>31, <1>32, <2>1, <2>2
  <2> QED
    BY <1>8, <1>17, <1>26, <2>3 DEF Writers
<1>34. Keeper(z, i) = v.f
  BY <1>26, <1>33 DEF Keeper
<1>35. i \notin z.full <=> clean /\ ~ lost
  BY <1>11, <1>24
<1>36. HandleOk(v.t, root[i], v.f, q, i \notin z.full)
  <2>1. v.f.cblk = Nth(v.t, v.f.sblk, Quot(v.f.pos))
    BY <1>17 DEF InPlace
  <2> QED
    BY <1>8, <1>17, <1>18, <1>21, <1>35, <2>1 DEF HandleOk
<1>37. SlotOk(z, i, q)
  <2>1. Path(v.t, v.f.sblk, q)
    BY <1>18 DEF Owns
  <2>2. i \notin z.full => Stored(v.d, q, all)
    BY <1>17, <1>20, <1>35
  <2> QED
    BY <1>3, <1>20, <1>24, <1>26, <1>28, <1>33, <1>34, <1>36, <2>1, <2>2 DEF SlotOk
<1>38. OneSlot(s, z, ch, i, q)
  <2>1. \A j \in Slot \ {i} : z.root[j] = s.root[j] /\ (j \in z.full <=> j \in s.full)
    BY <1>13, <1>24
  <2>2. Owns(z.fat, Keeper(z, i).sblk, q, Others(ch, i))
    BY <1>11, <1>18, <1>24, <1>34
  <2>3. \A c \in Others(ch, i) : z.fat[c] = s.fat[c] /\ z.data[c] = s.data[c]
    BY <1>11, <1>13, <1>17, <1>24
  <2> QED
    BY <1>3, <1>28, <1>29, <1>31, <1>37, <2>1, <2>2, <2>3 DEF OneSlot
<1>39. BufferOk' /\ ReplyOk'
  <2>1. BufferOk'
    BY <1>18, <1>19, <1>22 DEF BufferOk
  <2> QED
    BY <1>8, <2>1, NoReplyOk
<1> QED
  BY <1>1, <1>12, <1>23, <1>38, <1>39, StepKept

\* z is s with handle h newly open on slot i, as file g: for reading what is
\* there, or for writing an empty file.
Opened(s, z, i, h, g) ==
  /\ g \in File /\ g.slot = i /\ g.pos = 0 /\ g.cblk = g.sblk
  /\ s.files[h] = NoFile /\ z.files[h] = g /\ OneHandle(s, z, i, h)
  /\ z.root[i].name \in Name
  /\ g.size = z.root[i].size \/ "write" \in g.mode
  /\ IF "write" \in g.mode
     THEN /\ Users(s, i) = {} /\ g.size = 0 /\ g.sblk \notin Cluster
     ELSE /\ Writers(s, i) = {} /\ g.size = z.root[i].size /\ g.sblk = z.root[i].sblk

(* The current cluster of a file just opened is its first.                  *)
LEMMA NewInPlace ==
  ASSUME NEW t, NEW g, g.pos = 0, g.cblk = g.sblk
  PROVE  g.cblk = Nth(t, g.sblk, Quot(g.pos))
BY QuotZero, NthSteps

(* Who uses the slot then.                                                  *)
LEMMA OpenedUsers ==
  ASSUME NEW s, NEW z, NEW i, NEW h, NEW g, Opened(s, z, i, h, g)
  PROVE  /\ Users(z, i) = Users(s, i) \cup {h} /\ h \notin Users(s, i)
         /\ \A x \in Users(s, i) : z.files[x] = s.files[x]
         /\ \A j \in Slot \ {i} : /\ Users(z, j) = Users(s, j)
                                  /\ \A x \in Users(s, j) : z.files[x] = s.files[x]
<1>1. /\ g \in File /\ g.slot = i /\ s.files[h] = NoFile /\ z.files[h] = g
      /\ OneHandle(s, z, i, h)
  BY DEF Opened
<1>2. h \in Handle /\ \A x \in Handle : x # h => z.files[x] = s.files[x]
  BY <1>1 DEF OneHandle
<1>3. /\ \A j \in Slot \ {i} : /\ Users(z, j) = Users(s, j)
                               /\ \A x \in Users(s, j) : z.files[x] = s.files[x]
      /\ \A x \in Handle : x # h => (x \in Users(z, i) <=> x \in Users(s, i))
  BY <1>1, UsersElsewhere
<1>4. h \in Users(z, i) /\ h \notin Users(s, i)
  BY <1>1, <1>2, FileIsOpen DEF Users
<1>5. Users(z, i) \subseteq Handle /\ Users(s, i) \subseteq Handle
  BY DEF Users
<1> QED
  BY <1>2, <1>3, <1>4, <1>5

(* The slot of a file opened for writing, which is empty.                   *)
LEMMA OpenedToWrite ==
  ASSUME NEW s, NEW z, NEW i, NEW h, NEW g, Opened(s, z, i, h, g), "write" \in g.mode,
         NEW q \in Seq(Cluster), Len(q) = 0, Len(z.wrote[i]) = 0
  PROVE  SlotOk(z, i, q) /\ Keeper(z, i) = g
<1>1. /\ g \in File /\ g.pos = 0 /\ g.cblk = g.sblk /\ z.files[h] = g
      /\ z.root[i].name \in Name
      /\ Users(s, i) = {} /\ g.size = 0 /\ g.sblk \notin Cluster
  BY DEF Opened
<1>2. Users(z, i) = {h}
  BY <1>1, OpenedUsers
<1>3. Writers(z, i) = {h}
  BY <1>1, <1>2 DEF Writers
<1>4. Keeper(z, i) = g
  BY <1>1, <1>3 DEF Keeper
<1>5. Path(z.fat, g.sblk, q) /\ Stored(z.data, q, z.wrote[i]) /\ Ended(z.fat, q)
  BY <1>1 DEF Path, Stored, Ended
<1>6. g.cblk = Nth(z.fat, g.sblk, Quot(g.pos))
  BY <1>1, NewInPlace
<1>7. g.size <= MaxSize
  BY <1>1, FatFsAssumption
<1>8. HandleOk(z.fat, z.root[i], g, q, i \notin z.full)
  BY <1>1, <1>5, <1>6, <1>7 DEF HandleOk
<1> QED
  BY <1>1, <1>2, <1>3, <1>4, <1>5, <1>8 DEF SlotOk

(* The slot of a file opened for reading.                                   *)
LEMMA OpenedToRead ==
  ASSUME NEW s, NEW z, NEW i, NEW h, NEW g, Opened(s, z, i, h, g), "write" \notin g.mode,
         z.root[i] \in Item, NEW q, Path(z.fat, z.root[i].sblk, q),
         Len(z.wrote[i]) = z.root[i].size,
         i \notin z.full => Stored(z.data, q, z.wrote[i]),
         \A x \in Users(s, i) : HandleOk(z.fat, z.root[i], s.files[x], q, i \notin z.full)
  PROVE  SlotOk(z, i, q) /\ Keeper(z, i) = z.root[i]
<1>1. /\ g \in File /\ g.pos = 0 /\ g.cblk = g.sblk /\ z.files[h] = g
      /\ z.root[i].name \in Name
      /\ Writers(s, i) = {} /\ g.size = z.root[i].size /\ g.sblk = z.root[i].sblk
  BY DEF Opened
<1>2. /\ Users(z, i) = Users(s, i) \cup {h}
      /\ \A x \in Users(s, i) : z.files[x] = s.files[x]
  BY OpenedUsers
<1>3. Writers(z, i) = {}
  <2>1. \A x \in Users(s, i) : "write" \notin z.files[x].mode
    BY <1>1, <1>2 DEF Writers
  <2> QED
    BY <1>1, <1>2, <2>1 DEF Writers
<1>4. Keeper(z, i) = z.root[i]
  BY <1>3 DEF Keeper
<1>5. g.cblk = Nth(z.fat, g.sblk, Quot(g.pos))
  BY <1>1, NewInPlace
<1>6. g.size \in 0..MaxSize /\ g.pos <= g.size
  BY <1>1, FatFsAssumption DEF Item
<1>7. HandleOk(z.fat, z.root[i], g, q, i \notin z.full)
  BY <1>1, <1>5, <1>6, FatFsAssumption DEF HandleOk
<1>8. \A x \in Users(z, i) : HandleOk(z.fat, z.root[i], z.files[x], q, i \notin z.full)
  BY <1>1, <1>2, <1>7
<1> QED
  BY <1>1, <1>3, <1>4, <1>8 DEF SlotOk

(* A closed handle.                                                         *)
LEMMA ClosedHere ==
  ASSUME NEW h \in Handle, h \notin Open
  PROVE  files[h] = NoFile
BY DEF Open

(* What a slot without a writer holds.                                      *)
LEMMA UnwrittenHere ==
  ASSUME NEW ch, Consistent(Now, ch), NEW i \in Slot, Writer(i) = {}
  PROVE  /\ Keeper(Now, i) = root[i] /\ root[i] \in Item
         /\ Owns(fat, root[i].sblk, ch[i], Others(ch, i))
         /\ Len(wrote[i]) = root[i].size
         /\ i \notin full => Stored(data, ch[i], wrote[i])
         /\ \A x \in Users(Now, i) : HandleOk(fat, root[i], files[x], ch[i], i \notin full)
<1>1. PICK s : s = Now
  OBVIOUS
<1>2. /\ s.root = root /\ s.fat = fat /\ s.data = data /\ s.files = files
      /\ s.wrote = wrote /\ s.full = full /\ s \in Volume
  BY <1>1, NowParts DEF Consistent
<1>3. Writers(s, i) = {}
  BY <1>1, UsersAre
<1>4. Keeper(s, i) = root[i]
  BY <1>2, <1>3 DEF Keeper
<1>5. SlotOk(s, i, ch[i])
  BY <1>1 DEF Consistent
<1>6. Owns(s.fat, Keeper(s, i).sblk, ch[i], Others(ch, i))
  BY <1>1, OwnsHere
<1>7. root[i] \in Item
  BY <1>2 DEF Volume
<1>8. /\ Len(wrote[i]) = root[i].size
      /\ i \notin full => Stored(data, ch[i], wrote[i])
      /\ \A x \in Users(s, i) : HandleOk(fat, root[i], files[x], ch[i], i \notin full)
  BY <1>2, <1>4, <1>5 DEF SlotOk
<1> QED
  BY <1>1, <1>2, <1>4, <1>6, <1>7, <1>8

(* fatfs_open of a file that is there.                                      *)
LEMMA OpenFoundKept ==
  ASSUME Behaved, FatFsInv, NEW h \in Handle, NEW n \in Name, NEW mode \in OpenMode,
         h \notin Open, OpenFound(h, n, mode)
  PROVE  FatFsInv'
<1>1. PICK ch : Consistent(Now, ch)
  BY DEF FatFsInv
<1>2. PICK i : i = MinOf(Matches(n))
  OBVIOUS
<1>3. PICK f : f = FileOf(i, root[i], mode)
  OBVIOUS
<1>4. PICK g : g = IF "trunc" \in mode
                   THEN [f EXCEPT !.size = 0, !.sblk = FAT_CLUSTER_INVALID,
                                  !.cblk = FAT_CLUSTER_INVALID]
                   ELSE f
  OBVIOUS
<1>5. /\ Matches(n) # {} /\ MayOpen(i, mode)
      /\ files' = [files EXCEPT ![h] = g]
      /\ IF "trunc" \in mode
         THEN /\ fat' = cluster_free_chain(fat, f.sblk)
              /\ wrote' = [wrote EXCEPT ![i] = <<>>]
              /\ full' = full \ {i}
         ELSE fat' = fat /\ wrote' = wrote /\ full' = full
      /\ IF "trunc" \in mode /\ f.sblk \in Cluster
         THEN sector' = "fat" /\ buffer' = "fat" ELSE ReadsRoot
      /\ reply' = NoReply /\ root' = root /\ data' = data
  BY <1>2, <1>3, <1>4 DEF OpenFound, ghosts
<1>6. /\ Writer(i) = {} /\ ("write" \in mode => Reader(i) = {})
      /\ "write" \in mode <=> "trunc" \in mode
  BY <1>5 DEF MayOpen, Behaved
<1>7. i \in Slot /\ root[i].name = n
  BY <1>2, <1>5, MatchFacts
<1>8. /\ Keeper(Now, i) = root[i] /\ root[i] \in Item
      /\ Owns(fat, root[i].sblk, ch[i], Others(ch, i))
      /\ Len(wrote[i]) = root[i].size
      /\ i \notin full => Stored(data, ch[i], wrote[i])
      /\ \A x \in Users(Now, i) : HandleOk(fat, root[i], files[x], ch[i], i \notin full)
  BY <1>1, <1>6, <1>7, UnwrittenHere
<1>9. PICK s : s = Now
  OBVIOUS
<1>10. /\ s.root = root /\ s.fat = fat /\ s.data = data /\ s.files = files
       /\ s.wrote = wrote /\ s.full = full /\ s \in Volume
  BY <1>1, <1>9, NowParts DEF Consistent
<1>11. PICK z : z = [root |-> root', fat |-> fat', data |-> data', files |-> files',
                     wrote |-> wrote', full |-> full']
  OBVIOUS
<1>12. /\ z.root = root /\ z.fat = fat' /\ z.data = data /\ z.files = files'
       /\ z.wrote = wrote' /\ z.full = full'
  BY <1>5, <1>11
<1>13. /\ root \in [Slot -> Item] /\ files \in [Handle -> File \cup {NoFile}]
       /\ wrote \in [Slot -> Seq(Byte)] /\ data \in [Cluster -> Block] /\ full \subseteq Slot
       /\ fat \in [Cluster -> Link]
  BY <1>10 DEF Volume
<1>14. /\ f \in File /\ f.slot = i /\ f.mode = mode /\ f.size = root[i].size /\ f.pos = 0
       /\ f.sblk = root[i].sblk /\ f.cblk = f.sblk
  <2>1. root[i].size \in Nat /\ root[i].sblk \in Link
    BY <1>8, FatFsAssumption DEF Item
  <2> QED
    BY <1>3, <1>7, <2>1 DEF FileOf, File
<1>15. files[h] = NoFile /\ files'[h] = g /\ \A x \in Handle : x # h => files'[x] = files[x]
  BY <1>5, <1>13, ClosedHere
<1>16. ASSUME g \in File, g.slot = i
       PROVE  OneHandle(s, z, i, h) /\ files' \in [Handle -> File \cup {NoFile}]
  BY <1>5, <1>10, <1>12, <1>13, <1>15, <1>16 DEF OneHandle
<1>17. BufferOk' /\ ReplyOk'
  <2>1. CASE "trunc" \in mode /\ f.sblk \in Cluster
    BY <1>5, <2>1, NoReplyOk DEF BufferOk, Cached, Sector, Buffer
  <2>2. CASE ~ ("trunc" \in mode /\ f.sblk \in Cluster)
    <3>1. ReadsRoot /\ BufferOk
      BY <1>5, <2>2 DEF FatFsInv
    <3> QED
      BY <1>5, <3>1, ReadsRootKept, NoReplyOk
  <2> QED
    BY <2>1, <2>2
<1>18. CASE "trunc" \in mode
  <2>1. g = [f EXCEPT !.size = 0, !.sblk = FAT_CLUSTER_INVALID, !.cblk = FAT_CLUSTER_INVALID]
    BY <1>4, <1>18
  <2>2. /\ g \in File /\ g.slot = i /\ g.mode = mode /\ g.size = 0 /\ g.pos = 0
        /\ g.sblk = FAT_CLUSTER_INVALID /\ g.cblk = g.sblk /\ g.sblk \notin Cluster
    <3>1. FAT_CLUSTER_INVALID \in Link /\ FAT_CLUSTER_INVALID \notin Cluster
      BY LinkFacts
    <3> QED
      BY <1>14, <2>1, <3>1 DEF File
  <2>3. OneHandle(s, z, i, h) /\ files' \in [Handle -> File \cup {NoFile}]
    BY <1>16, <2>2
  <2>4. Users(s, i) = {}
    BY <1>6, <1>9, <1>18, UsersAre
  <2>5. Opened(s, z, i, h, g)
    BY <1>6, <1>7, <1>10, <1>12, <1>15, <1>18, <2>2, <2>3, <2>4 DEF Opened
  <2>6. PICK none \in Seq(Byte) : none = <<>> /\ Len(none) = 0
    <3>1. <<>> \in Seq(Byte) /\ Len(<<>>) = 0
      OBVIOUS
    <3> QED
      BY <3>1
  <2>7. wrote' = [wrote EXCEPT ![i] = none] /\ full' = full \ {i}
    BY <1>5, <1>18, <2>6
  <2>8. /\ z.wrote[i] = none /\ wrote' \in [Slot -> Seq(Byte)]
        /\ \A j \in Slot \ {i} : z.wrote[j] = s.wrote[j] /\ (j \in z.full <=> j \in s.full)
    BY <1>7, <1>10, <1>12, <1>13, <2>6, <2>7
  <2>9. PICK q \in Seq(Cluster) : Len(q) = 0
    <3>1. <<>> \in Seq(Cluster) /\ Len(<<>>) = 0
      OBVIOUS
    <3> QED
      BY <3>1
  <2>10. PICK t, u, c, e, p, O : /\ t = fat /\ u = fat' /\ c = root[i].sblk /\ e = g.sblk
                                 /\ p = ch[i] /\ O = Others(ch, i)
    OBVIOUS
  <2>11. Owns(t, c, p, O) /\ Freed(t, u, c, e, q)
    BY <1>5, <1>8, <1>14, <1>18, <2>2, <2>9, <2>10 DEF Freed
  <2>12. /\ Owns(u, e, q, O) /\ u \in [Cluster -> Link]
         /\ \A d \in O : u[d] = t[d]
    BY <2>11, FreeOwned
  <2>13. SlotOk(z, i, q) /\ Keeper(z, i) = g
    <3>1. Len(z.wrote[i]) = 0 /\ "write" \in g.mode
      BY <1>6, <1>18, <2>2, <2>6, <2>8
    <3> QED
      BY <2>5, <2>9, <3>1, OpenedToWrite
  <2>14. z \in Volume
    <3>1. full' \in SUBSET Slot
      BY <1>13, <2>7
    <3> QED
      BY <1>5, <1>11, <1>13, <2>3, <2>8, <2>10, <2>12, <3>1 DEF Volume
  <2>15. /\ \A j \in Slot \ {i} : /\ Users(z, j) = Users(s, j)
                                  /\ \A x \in Users(s, j) : z.files[x] = s.files[x]
    BY <2>5, OpenedUsers
  <2>16. \A d \in Others(ch, i) : z.fat[d] = s.fat[d] /\ z.data[d] = s.data[d]
    BY <1>10, <1>12, <2>10, <2>12
  <2>17. OneSlot(s, z, ch, i, q)
    <3>1. \A j \in Slot \ {i} : z.root[j] = s.root[j]
      BY <1>10, <1>12
    <3>2. Owns(z.fat, Keeper(z, i).sblk, q, Others(ch, i))
      BY <1>12, <2>10, <2>12, <2>13
    <3> QED
      BY <1>7, <2>8, <2>13, <2>14, <2>15, <2>16, <3>1, <3>2 DEF OneSlot
  <2> QED
    BY <1>1, <1>9, <1>11, <1>17, <2>17, StepKept
<1>19. CASE "trunc" \notin mode
  <2>1. g = f /\ fat' = fat /\ wrote' = wrote /\ full' = full
    BY <1>4, <1>5, <1>19
  <2>2. OneHandle(s, z, i, h) /\ files' \in [Handle -> File \cup {NoFile}]
    BY <1>14, <1>16, <2>1
  <2>3. Writers(s, i) = {}
    BY <1>6, <1>9, UsersAre
  <2>4. Opened(s, z, i, h, g) /\ "write" \notin g.mode
    BY <1>6, <1>7, <1>10, <1>12, <1>14, <1>15, <1>19, <2>1, <2>2, <2>3 DEF Opened
  <2>5. SlotOk(z, i, ch[i]) /\ Keeper(z, i) = z.root[i]
    <3>1. PICK q : q = ch[i]
      OBVIOUS
    <3>2. z.root[i] \in Item /\ Path(z.fat, z.root[i].sblk, q) /\ Len(z.wrote[i]) = z.root[i].size
      BY <1>8, <1>12, <2>1, <3>1 DEF Owns
    <3>3. i \notin z.full => Stored(z.data, q, z.wrote[i])
      BY <1>8, <1>12, <2>1, <3>1
    <3>4. \A x \in Users(s, i) : HandleOk(z.fat, z.root[i], s.files[x], q, i \notin z.full)
      BY <1>8, <1>9, <1>10, <1>12, <2>1, <3>1
    <3>5. SlotOk(z, i, q) /\ Keeper(z, i) = z.root[i]
      BY <2>4, <3>2, <3>3, <3>4, OpenedToRead
    <3> QED
      BY <3>1, <3>5
  <2>6. z \in Volume
    BY <1>5, <1>11, <1>13, <2>1, <2>2 DEF Volume
  <2>7. /\ \A j \in Slot \ {i} : /\ Users(z, j) = Users(s, j)
                                 /\ \A x \in Users(s, j) : z.files[x] = s.files[x]
    BY <2>4, OpenedUsers
  <2>8. OneSlot(s, z, ch, i, ch[i])
    <3>1. Owns(z.fat, Keeper(z, i).sblk, ch[i], Others(ch, i))
      BY <1>8, <1>12, <2>1, <2>5
    <3> QED
      BY <1>7, <1>10, <1>12, <2>1, <2>5, <2>6, <2>7, <3>1 DEF OneSlot
  <2> QED
    BY <1>1, <1>9, <1>11, <1>17, <2>8, StepKept
<1> QED
  BY <1>18, <1>19

(* p_index is a slot that the scan has passed and that is not taken.        *)
LEMMA FreeSlotFacts ==
  ASSUME Vacant # {}
  PROVE  FreeSlot \in Slot /\ root[FreeSlot].name \notin Name
<1>1. PICK r \in Nat : r = RootEntCnt /\ Vacant \subseteq 0..(r - 1)
  <2>1. PICK r \in Nat : r = RootEntCnt
    BY FatFsAssumption
  <2> QED
    BY <2>1 DEF Vacant, Slot
<1> DEFINE T == {r - j : j \in Vacant}
<1>2. T \in SUBSET Nat /\ T # {}
  <2>1. \A j \in 0..(r - 1) : r - j \in Nat
    OBVIOUS
  <2> QED
    BY <1>1, <2>1
<1>3. PICK m \in T : \A y \in T : m <= y
  BY <1>2, NatMin
<1>4. PICK i \in Vacant : m = r - i
  BY <1>3
<1>5. \A j \in Vacant : j <= i
  <2> TAKE j \in Vacant
  <2>1. m <= r - j
    BY <1>3
  <2>2. i \in Nat /\ j \in Nat
    BY <1>1
  <2> QED
    BY <1>4, <2>1, <2>2
<1>6. FreeSlot \in Vacant
  BY <1>4, <1>5 DEF FreeSlot
<1> QED
  BY <1>6, FatFsAssumption DEF Vacant

(* fatfs_open of a file that is made.                                       *)
LEMMA OpenCreateKept ==
  ASSUME Behaved, FatFsInv, NEW h \in Handle, NEW n \in Name, NEW mode \in OpenMode,
         h \notin Open, OpenCreate(h, n, mode)
  PROVE  FatFsInv'
<1>1. PICK ch : Consistent(Now, ch)
  BY DEF FatFsInv
<1>2. PICK i : i = FreeSlot
  OBVIOUS
<1>3. PICK item : item = [name |-> n, size |-> 0, sblk |-> FAT_CLUSTER_INVALID]
  OBVIOUS
<1>4. PICK g : g = FileOf(i, item, mode)
  OBVIOUS
<1>5. /\ Vacant # {}
      /\ root' = [root EXCEPT ![i] = item]
      /\ files' = [files EXCEPT ![h] = g]
      /\ wrote' = [wrote EXCEPT ![i] = <<>>]
      /\ full' = full \ {i}
      /\ ReadsRoot /\ reply' = NoReply /\ fat' = fat /\ data' = data
  BY <1>2, <1>3, <1>4 DEF OpenCreate
<1>6. i \in Slot /\ root[i].name \notin Name
  BY <1>2, <1>5, FreeSlotFacts
<1>7. PICK s : s = Now
  OBVIOUS
<1>8. /\ s.root = root /\ s.fat = fat /\ s.data = data /\ s.files = files
      /\ s.wrote = wrote /\ s.full = full /\ s \in Volume
  BY <1>1, <1>7, NowParts DEF Consistent
<1>9. PICK z : z = [root |-> root', fat |-> fat', data |-> data', files |-> files',
                    wrote |-> wrote', full |-> full']
  OBVIOUS
<1>10. /\ z.root = root' /\ z.fat = fat /\ z.data = data /\ z.files = files'
       /\ z.wrote = wrote' /\ z.full = full \ {i}
  BY <1>5, <1>9
<1>11. /\ root \in [Slot -> Item] /\ files \in [Handle -> File \cup {NoFile}]
       /\ wrote \in [Slot -> Seq(Byte)] /\ data \in [Cluster -> Block] /\ full \subseteq Slot
       /\ fat \in [Cluster -> Link]
  BY <1>8 DEF Volume
<1>12. FAT_CLUSTER_INVALID \in Link /\ FAT_CLUSTER_INVALID \notin Cluster
  BY LinkFacts
<1>13. /\ item \in Item /\ item.name = n /\ item.size = 0 /\ item.sblk = FAT_CLUSTER_INVALID
  BY <1>3, <1>12, FatFsAssumption DEF Item
<1>14. /\ g \in File /\ g.slot = i /\ g.mode = mode /\ g.size = 0 /\ g.pos = 0
       /\ g.sblk = FAT_CLUSTER_INVALID /\ g.cblk = g.sblk
  BY <1>4, <1>6, <1>12, <1>13 DEF FileOf, File
<1>15. files[h] = NoFile /\ files'[h] = g /\ \A x \in Handle : x # h => files'[x] = files[x]
  BY <1>5, <1>11, ClosedHere
<1>16. OneHandle(s, z, i, h) /\ files' \in [Handle -> File \cup {NoFile}]
  BY <1>5, <1>8, <1>10, <1>11, <1>14, <1>15 DEF OneHandle
<1>17. /\ z.root[i] = item /\ root' \in [Slot -> Item]
       /\ \A j \in Slot \ {i} : z.root[j] = s.root[j] /\ (j \in z.full <=> j \in s.full)
  BY <1>5, <1>6, <1>8, <1>10, <1>11, <1>13
<1>18. PICK none \in Seq(Byte) : none = <<>> /\ Len(none) = 0
  <2>1. <<>> \in Seq(Byte) /\ Len(<<>>) = 0
    OBVIOUS
  <2> QED
    BY <2>1
<1>19. wrote' = [wrote EXCEPT ![i] = none]
  BY <1>5, <1>18
<1>20. /\ z.wrote[i] = none /\ wrote' \in [Slot -> Seq(Byte)]
       /\ \A j \in Slot \ {i} : z.wrote[j] = s.wrote[j]
  BY <1>6, <1>8, <1>10, <1>11, <1>18, <1>19
<1>21. PICK q : q = ch[i]
  OBVIOUS
<1>22. Len(q) = 0 /\ Users(s, i) = {}
  <2>1. SlotOk(s, i, q)
    BY <1>1, <1>6, <1>7, <1>21 DEF Consistent
  <2> QED
    BY <1>6, <1>8, <2>1 DEF SlotOk
<1>23. Owns(fat, Keeper(s, i).sblk, q, Others(ch, i))
  BY <1>1, <1>6, <1>7, <1>8, <1>21, OwnsHere
<1>24. q \in Seq(Cluster)
  BY <1>23 DEF Owns, Path
<1>25. Path(fat, FAT_CLUSTER_INVALID, q)
  BY <1>12, <1>22, <1>24 DEF Path
<1>26. Owns(fat, FAT_CLUSTER_INVALID, q, Others(ch, i))
  BY <1>23, <1>25 DEF Owns
<1>27. Opened(s, z, i, h, g)
  <2>1. Writers(s, i) = {}
    BY <1>22 DEF Writers
  <2> QED
    BY <1>8, <1>10, <1>12, <1>13, <1>14, <1>15, <1>16, <1>17, <1>22, <2>1 DEF Opened
<1>28. SlotOk(z, i, q) /\ Keeper(z, i).sblk = FAT_CLUSTER_INVALID
  <2>1. CASE "write" \in g.mode
    <3>1. Len(z.wrote[i]) = 0
      BY <1>18, <1>20
    <3>2. SlotOk(z, i, q) /\ Keeper(z, i) = g
      BY <1>22, <1>24, <1>27, <2>1, <3>1, OpenedToWrite
    <3> QED
      BY <1>14, <3>2
  <2>2. CASE "write" \notin g.mode
    <3>1. z.root[i] \in Item /\ Path(z.fat, z.root[i].sblk, q) /\ Len(z.wrote[i]) = z.root[i].size
      BY <1>10, <1>13, <1>17, <1>18, <1>20, <1>25
    <3>2. Stored(z.data, q, z.wrote[i])
      BY <1>18, <1>20 DEF Stored
    <3>3. \A x \in Users(s, i) : HandleOk(z.fat, z.root[i], s.files[x], q, i \notin z.full)
      BY <1>22
    <3>4. SlotOk(z, i, q) /\ Keeper(z, i) = z.root[i]
      BY <1>27, <2>2, <3>1, <3>2, <3>3, OpenedToRead
    <3> QED
      BY <1>13, <1>17, <3>4
  <2> QED
    BY <2>1, <2>2
<1>29. z \in Volume
  BY <1>5, <1>9, <1>11, <1>16, <1>17, <1>20 DEF Volume
<1>30. \A j \in Slot \ {i} : /\ Users(z, j) = Users(s, j)
                             /\ \A x \in Users(s, j) : z.files[x] = s.files[x]
  BY <1>27, OpenedUsers
<1>31. OneSlot(s, z, ch, i, q)
  <2>1. Owns(z.fat, Keeper(z, i).sblk, q, Others(ch, i))
    BY <1>10, <1>26, <1>28
  <2> QED
    BY <1>6, <1>8, <1>10, <1>17, <1>20, <1>28, <1>29, <1>30, <2>1 DEF OneSlot
<1>32. BufferOk' /\ ReplyOk'
  BY <1>5, ReadsRootKept, NoReplyOk DEF FatFsInv
<1> QED
  BY <1>1, <1>7, <1>9, <1>31, <1>32, StepKept

(* Every step keeps the invariant.                                          *)
LEMMA NextKept ==
  ASSUME Behaved, FatFsInv, [Next]_vars
  PROVE  FatFsInv'
<1>1. CASE UNCHANGED vars
  <2>1. UNCHANGED <<disk, files, ghosts>> /\ BufferOk' /\ ReplyOk'
    BY <1>1 DEF vars, disk, ghosts, FatFsInv, BufferOk, ReplyOk, ReadsBack
  <2> QED
    BY <2>1, QuietKept
<1>2. ASSUME NEW h \in Handle, NEW n \in Name, NEW mode \in OpenMode, fatfs_open(h, n, mode)
      PROVE  FatFsInv'
  <2>1. h \notin Open
    BY <1>2 DEF fatfs_open
  <2>2. CASE OpenFound(h, n, mode)
    BY <2>1, <2>2, OpenFoundKept
  <2>3. CASE OpenCreate(h, n, mode)
    BY <2>1, <2>3, OpenCreateKept
  <2>4. CASE OpenFails(n, mode)
    <3>1. UNCHANGED <<disk, files, ghosts>> /\ ReadsRoot /\ reply' = NoReply
      BY <2>4 DEF OpenFails
    <3>2. BufferOk' /\ ReplyOk'
      BY <3>1, ReadsRootKept, NoReplyOk DEF FatFsInv
    <3> QED
      BY <3>1, <3>2, QuietKept
  <2> QED
    BY <1>2, <2>2, <2>3, <2>4 DEF fatfs_open
<1>3. ASSUME NEW h \in Handle, fatfs_close(h)
      PROVE  FatFsInv'
  BY <1>3, CloseKept
<1>4. ASSUME NEW n \in Name, Unlink(n)
      PROVE  FatFsInv'
  BY <1>4, UnlinkKept
<1>5. CASE LookAtRoot
  <2>1. UNCHANGED <<disk, files, ghosts>> /\ ReadsRoot /\ reply' = NoReply
    BY <1>5 DEF LookAtRoot
  <2>2. BufferOk' /\ ReplyOk'
    BY <2>1, ReadsRootKept, NoReplyOk DEF FatFsInv
  <2> QED
    BY <2>1, <2>2, QuietKept
<1>6. ASSUME NEW h \in Handle, NEW n \in CallSize, fatfs_read(h, n)
      PROVE  FatFsInv'
  BY <1>6, ReadKept
<1>7. ASSUME NEW h \in Handle, NEW n \in CallSize, h \in Open, fatfs_write(h, Bytes(h, n))
      PROVE  FatFsInv'
  BY <1>7, WriteKept
<1>8. ASSUME NEW h \in Handle, NEW offset \in 0..MaxSize, fatfs_seek(h, offset)
      PROVE  FatFsInv'
  BY <1>8, SeekKept
<1> QED
  BY <1>1, <1>2, <1>3, <1>4, <1>5, <1>6, <1>7, <1>8 DEF Next

(* A formatted volume is consistent.                                        *)
LEMMA InitKept ==
  ASSUME Init
  PROVE  FatFsInv
<1>1. PICK cs \in Nat \ {0} : cs = ClusterSize
  BY FatFsAssumption
<1>2. 0 \in Slot /\ 2 \in Cluster /\ cs <= MaxSize /\ MaxSize \in Nat
  BY <1>1, FatFsAssumption DEF Slot, Cluster
<1>3. /\ 0 \in Link /\ 2 \in Link /\ 0 \notin Cluster /\ HostEndOfChain \in Link
      /\ HostEndOfChain \notin Cluster /\ FAT_CLUSTER_FREE \in Link
      /\ HostEndOfChain # FAT_CLUSTER_FREE /\ FAT_CLUSTER_FREE \notin Cluster
  BY <1>2, LinkFacts DEF Link, FAT_CLUSTER_FREE
<1>4. /\ fat = [c \in Cluster |-> IF c = root[0].sblk THEN HostEndOfChain ELSE FAT_CLUSTER_FREE]
      /\ data = [c \in Cluster |-> HostBytes]
      /\ files = [h \in Handle |-> NoFile]
      /\ sector = "none" /\ buffer = "data"
      /\ wrote = [i \in Slot |-> IF root[i].size = 0 THEN <<>> ELSE HostBytes]
      /\ full = {} /\ reply = NoReply
  BY DEF Init
<1>5. PICK gone : gone = [Empty EXCEPT !.name = DIRITEM_NAME_FREE]
  OBVIOUS
<1>6. /\ Empty \in Item /\ Empty.size = 0 /\ Empty.sblk = 0 /\ Empty.name \notin Name
      /\ gone \in Item /\ gone.size = 0 /\ gone.sblk = 0 /\ gone.name \notin Name
  BY <1>2, <1>3, <1>5, FatFsAssumption DEF Empty, Item
<1>7. /\ root \in [Slot -> Item]
      /\ \A i \in Slot :
           \/ i = 0 /\ root[i].size = cs /\ root[i].sblk = 2 /\ root[i].name \in Name
           \/ root[i].size = 0 /\ root[i].sblk = 0 /\ root[i].name \notin Name
  <2>1. CASE \E k \in 0..RootEntCnt : root = [i \in Slot |-> IF i < k THEN gone ELSE Empty]
    BY <1>6, <2>1
  <2>2. CASE \E n \in Name : root = [i \in Slot |-> IF i = 0
                             THEN [name |-> n, size |-> cs, sblk |-> 2] ELSE Empty]
    <3>1. PICK n \in Name : root = [i \in Slot |-> IF i = 0
                            THEN [name |-> n, size |-> cs, sblk |-> 2] ELSE Empty]
      BY <2>2
    <3>2. PICK it : it = [name |-> n, size |-> cs, sblk |-> 2]
      OBVIOUS
    <3>3. it \in Item /\ it.size = cs /\ it.sblk = 2 /\ it.name \in Name
      BY <1>2, <1>3, <3>2 DEF Item
    <3>4. root = [i \in Slot |-> IF i = 0 THEN it ELSE Empty]
      BY <3>1, <3>2
    <3> QED
      BY <1>6, <3>3, <3>4
  <2> QED
    BY <1>1, <1>5, <2>1, <2>2 DEF Init
<1>8. HostBytes \in Block /\ HostBytes \in Seq(Byte) /\ Len(HostBytes) = cs
  <2>1. HostBytes \in [1..cs -> Byte]
    BY <1>1 DEF HostBytes, Byte
  <2> QED
    BY <1>1, <2>1, FunSeq DEF Block
<1>9. PICK none \in Seq(Byte) : none = <<>> /\ Len(none) = 0
  <2>1. <<>> \in Seq(Byte) /\ Len(<<>>) = 0
    OBVIOUS
  <2> QED
    BY <2>1
<1>10. PICK p0 \in Seq(Cluster) : Len(p0) = 0
  <2>1. <<>> \in Seq(Cluster) /\ Len(<<>>) = 0
    OBVIOUS
  <2> QED
    BY <2>1
<1>11. PICK p1 \in Seq(Cluster) : Len(p1) = 1 /\ p1[1] = 2
  <2>1. <<2>> \in Seq(Cluster) /\ Len(<<2>>) = 1 /\ <<2>>[1] = 2
    BY <1>2
  <2> QED
    BY <2>1
<1>12. PICK ch : ch = [i \in Slot |-> IF root[i].sblk = 2 THEN p1 ELSE p0]
  OBVIOUS
<1>13. PICK s : s = Now
  OBVIOUS
<1>14. /\ s.root = root /\ s.fat = fat /\ s.data = data /\ s.files = files
       /\ s.wrote = wrote /\ s.full = {}
  BY <1>4, <1>13, NowParts
<1>15. /\ fat \in [Cluster -> Link] /\ data \in [Cluster -> Block]
       /\ files \in [Handle -> File \cup {NoFile}]
       /\ wrote \in [Slot -> Seq(Byte)]
  <2>1. wrote \in [Slot -> Seq(Byte)]
    BY <1>4, <1>8, <1>9
  <2> QED
    BY <1>3, <1>4, <1>8, <2>1
<1>16. s \in Volume
  BY <1>4, <1>7, <1>13, <1>15 DEF Now, Volume
<1>17. \A i : Users(s, i) = {}
  BY <1>4, <1>14 DEF Users
<1>18. \A i : Writers(s, i) = {} /\ Keeper(s, i) = root[i]
  BY <1>14, <1>17 DEF Writers, Keeper
<1>19. /\ Clusters(p0) = {} /\ Clusters(p1) = {2}
  BY <1>10, <1>11 DEF Clusters
<1>20. ASSUME NEW i \in Slot
       PROVE  SlotOk(s, i, ch[i])
  <2>1. CASE root[i].sblk # 2
    <3>1. ch[i] = p0 /\ root[i].size = 0 /\ root[i].sblk = 0
      BY <1>7, <1>12, <2>1
    <3>2. Len(wrote[i]) = 0
      BY <1>4, <1>9, <3>1
    <3> QED
      BY <1>3, <1>10, <1>14, <1>17, <3>1, <3>2, EmptySlotOk
  <2>2. CASE root[i].sblk = 2
    <3>1. /\ ch[i] = p1 /\ i = 0 /\ root[i].size = cs /\ root[0].sblk = 2
          /\ root[i].name \in Name
      BY <1>7, <1>12, <2>2
    <3>2. wrote[i] = HostBytes /\ Len(wrote[i]) = cs
      BY <1>1, <1>4, <1>8, <3>1
    <3>3. fat[2] = HostEndOfChain
      BY <1>2, <1>4, <3>1
    <3>4. Path(fat, 2, p1)
      BY <1>3, <1>11, <3>3 DEF Path
    <3>5. Stored(data, p1, wrote[i])
      <4>1. ASSUME NEW k \in 1..cs
            PROVE  Quot(k - 1) < 1 /\ data[p1[Quot(k - 1) + 1]][Rem(k - 1) + 1] = HostBytes[k]
        <5>1. PICK r \in 0..(ClusterSize - 1) : r = k - 1
          BY <1>1
        <5>2. 0 * ClusterSize + r = r
          BY <1>1, <5>1
        <5>3. Quot(r) = 0 /\ Rem(r) = r
          BY <5>2, QuotRemUnique
        <5>4. 0 + 1 = 1 /\ r + 1 = k
          BY <1>1, <5>1
        <5> QED
          BY <1>2, <1>4, <1>11, <5>1, <5>3, <5>4
      <4> QED
        BY <1>11, <3>2, <4>1 DEF Stored
    <3> QED
      BY <1>14, <1>17, <1>18, <2>2, <3>1, <3>2, <3>4, <3>5 DEF SlotOk
  <2> QED
    BY <2>1, <2>2
<1>21. \A i, j \in Slot : i # j => Clusters(ch[i]) \cap Clusters(ch[j]) = {}
  <2>1. \A i \in Slot \ {0} : ch[i] = p0
    BY <1>7, <1>12
  <2> QED
    BY <1>19, <2>1
<1>22. \A c \in Cluster : fat[c] = FAT_CLUSTER_FREE <=> \A i \in Slot : c \notin Clusters(ch[i])
  <2>1. CASE root[0].sblk = 2
    <3>1. ch[0] = p1 /\ \A i \in Slot \ {0} : ch[i] = p0
      BY <1>2, <1>7, <1>12, <2>1
    <3>2. \A c \in Cluster : fat[c] = FAT_CLUSTER_FREE <=> c # 2
      BY <1>3, <1>4, <2>1
    <3> QED
      BY <1>2, <1>19, <3>1, <3>2
  <2>2. CASE root[0].sblk # 2
    <3>1. \A i \in Slot : ch[i] = p0
      BY <1>7, <1>12, <2>2
    <3>2. root[0].sblk = 0
      BY <1>2, <1>7, <2>2
    <3>3. \A c \in Cluster : fat[c] = FAT_CLUSTER_FREE
      BY <1>3, <1>4, <3>2
    <3> QED
      BY <1>19, <3>1, <3>3
  <2> QED
    BY <2>1, <2>2
<1>23. Consistent(s, ch)
  BY <1>14, <1>16, <1>20, <1>21, <1>22 DEF Consistent
<1>24. BufferOk /\ ReplyOk
  BY <1>4 DEF BufferOk, ReplyOk, ReadsBack, Sector, Buffer, Cached
<1> QED
  BY <1>13, <1>23, <1>24 DEF FatFsInv

-----------------------------------------------------------------------------
\* What the invariant says of the properties.

(* The first cluster of a file, as ClustersOwned names it.                  *)
LEMMA FirstIs ==
  ASSUME NEW i \in Slot
  PROVE  First(i) = Keeper(Now, i).sblk
<1>1. Writers(Now, i) = Writer(i)
  BY UsersAre
<1>2. CASE Writer(i) = {}
  BY <1>1, <1>2, NowParts DEF First, Keeper
<1>3. CASE Writer(i) # {}
  BY <1>1, <1>3, NowParts DEF First, Keeper
<1> QED
  BY <1>2, <1>3

(* The size of a file is bounded, wherever it is kept.                      *)
LEMMA SizeBounded ==
  ASSUME NEW ch, Consistent(Now, ch), NEW i \in Slot
  PROVE  Len(wrote[i]) \in 0..MaxSize
<1>1. Now \in Volume /\ SlotOk(Now, i, ch[i])
  BY DEF Consistent
<1>2. Len(wrote[i]) = Keeper(Now, i).size
  BY <1>1, NowParts DEF SlotOk
<1>3. MaxSize \in Nat
  BY FatFsAssumption
<1>4. CASE Writers(Now, i) = {}
  <2>1. root[i] \in Item
    BY <1>1, VolumeTypes, NowParts
  <2> QED
    BY <1>2, <1>4, <2>1, NowParts DEF Keeper, Item
<1>5. CASE Writers(Now, i) # {}
  <2>1. PICK h : h = CHOOSE x \in Writers(Now, i) : TRUE
    OBVIOUS
  <2>2. h \in Users(Now, i)
    BY <1>5, <2>1 DEF Writers
  <2>3. files[h] \in File
    BY <1>1, <2>2, VolumeTypes, NowParts DEF Users
  <2>4. files[h].size \in Nat /\ files[h].size <= MaxSize
    BY <1>1, <2>2, <2>3, FileIsOpen, NowParts DEF SlotOk, HandleOk
  <2>5. Len(wrote[i]) = files[h].size
    BY <1>2, <1>5, <2>1, NowParts DEF Keeper
  <2> QED
    BY <1>3, <2>4, <2>5
<1> QED
  BY <1>4, <1>5

(* An open file and its slot.                                               *)
LEMMA OpenOk ==
  ASSUME NEW ch, Consistent(Now, ch), NEW h \in Open
  PROVE  /\ files[h] \in File /\ h \in Users(Now, files[h].slot)
         /\ \E clean : HandleOk(fat, root[files[h].slot], files[h], ch[files[h].slot], clean)
<1>1. Now \in Volume /\ h \in Handle /\ files[h] # NoFile
  BY DEF Consistent, Open
<1>2. files[h] \in File
  BY <1>1, VolumeTypes, NowParts
<1>3. PICK i : i = files[h].slot
  OBVIOUS
<1>4. i \in Slot /\ h \in Users(Now, i)
  BY <1>1, <1>2, <1>3, FileIsOpen, NowParts DEF Users
<1>5. SlotOk(Now, i, ch[i])
  BY <1>4 DEF Consistent
<1>6. HandleOk(fat, root[i], files[h], ch[i], i \notin full)
  BY <1>4, <1>5, NowParts DEF SlotOk
<1> QED
  BY <1>2, <1>3, <1>4, <1>6

(* The types of the state, and fat_buffer holds what curr_sector says.      *)
LEMMA InvCache ==
  ASSUME FatFsInv
  PROVE  CacheHonest
<1>1. PICK ch : Consistent(Now, ch)
  BY DEF FatFsInv
<1>2. Now \in Volume
  BY <1>1 DEF Consistent
<1>3. /\ sector \in Sector /\ buffer \in Buffer /\ Cached(sector, buffer)
      /\ reply # NoReply => Len(reply.bytes) <= reply.asked
  BY DEF FatFsInv, BufferOk, ReplyOk
<1>4. \A i \in Slot :
        /\ root[i].name \in Name \cup {DIRITEM_NAME_END, DIRITEM_NAME_FREE}
        /\ root[i].size \in 0..MaxSize /\ root[i].sblk \in Link
        /\ Len(wrote[i]) \in 0..MaxSize
  BY <1>1, <1>2, SizeBounded, VolumeTypes, NowParts DEF Item
<1>5. fat \in [Cluster -> Link] /\ data \in [Cluster -> Block] /\ full \subseteq Slot
  BY <1>2, VolumeTypes, NowParts
<1>6. \A c \in Cluster : Len(data[c]) = ClusterSize
  <2> TAKE c \in Cluster
  <2>1. data[c] \in [1..ClusterSize -> Byte] /\ ClusterSize \in Nat
    BY <1>5, FatFsAssumption DEF Block
  <2> QED
    BY <2>1, FunSeq
<1>7. \A h \in Open : /\ files[h].slot \in Slot /\ files[h].mode \in OpenMode
                      /\ files[h].pos \in 0..files[h].size
                      /\ files[h].size \in 0..MaxSize
                      /\ {files[h].sblk, files[h].cblk} \subseteq Link
  <2> TAKE h \in Open
  <2>1. PICK f : f = files[h]
    OBVIOUS
  <2>2. f \in File /\ f.pos <= f.size /\ f.size <= MaxSize
    BY <1>1, <2>1, OpenOk DEF HandleOk
  <2>3. f.pos \in 0..f.size /\ f.size \in 0..MaxSize
    BY <2>2, FileIsOpen, FatFsAssumption
  <2> QED
    BY <2>1, <2>2, <2>3, FileIsOpen
<1> QED
  BY <1>3, <1>4, <1>5, <1>6, <1>7 DEF CacheHonest, FatFsTypeOK, Cached, Sector, Buffer

(* Every cluster that is not free belongs to exactly one file.              *)
LEMMA InvOwned ==
  ASSUME FatFsInv
  PROVE  ClustersOwned
<1>1. PICK ch : Consistent(Now, ch)
  BY DEF FatFsInv
<1>2. \A i \in Slot : SlotOk(Now, i, ch[i])
  BY <1>1 DEF Consistent
<1>3. \A i \in Slot : Path(fat, First(i), ch[i])
  BY <1>2, FirstIs, NowParts DEF SlotOk
<1>4. \A i \in Slot : Chain(fat, First(i)) = Clusters(ch[i])
  BY <1>3, ChainOnPath
<1>5. Used \subseteq Slot
  BY DEF Used
<1>6. \A i, j \in Slot : i # j => Clusters(ch[i]) \cap Clusters(ch[j]) = {}
  BY <1>1 DEF Consistent
<1>7. UNION {Clusters(ch[i]) : i \in Used} = Cluster \ FreeClusters(fat)
  <2>1. \A i \in Slot \ Used : Clusters(ch[i]) = {}
    <3> TAKE i \in Slot \ Used
    <3>1. Len(ch[i]) = 0
      BY <1>2, NowParts DEF SlotOk, Used
    <3> QED
      BY <3>1 DEF Clusters
  <2>2. \A c \in Cluster : fat[c] = FAT_CLUSTER_FREE <=> \A i \in Slot : c \notin Clusters(ch[i])
    BY <1>1, NowParts DEF Consistent
  <2>3. \A i \in Slot : Clusters(ch[i]) \subseteq Cluster
    BY <1>3, PathTypes DEF Clusters
  <2> QED
    BY <1>5, <2>1, <2>2, <2>3 DEF FreeClusters
<1>8. ASSUME NEW i \in Slot, Clusters(ch[i]) # {}
      PROVE  \E c \in Clusters(ch[i]) : fat[c] \notin Cluster
  <2>1. PICK p, l : p = ch[i] /\ l = Len(p)
    OBVIOUS
  <2>2. Path(fat, First(i), p) /\ l \in Nat
    BY <1>3, <2>1, PathTypes
  <2>3. l \in 1..Len(p)
    BY <1>8, <2>1, <2>2 DEF Clusters
  <2>4. fat[p[l]] \notin Cluster
    BY <2>1, <2>2, <2>3 DEF Path
  <2> QED
    BY <2>1, <2>3, <2>4 DEF Clusters
<1> QED
  BY <1>4, <1>5, <1>6, <1>7, <1>8 DEF ClustersOwned

(* The current cluster is the one of the position.                          *)
LEMMA InvPositioned ==
  ASSUME FatFsInv
  PROVE  Positioned
<1>1. PICK ch : Consistent(Now, ch)
  BY DEF FatFsInv
<1> QED
  BY <1>1, OpenOk DEF Positioned, HandleOk, Quot

(* A read returns what has been written.                                    *)
LEMMA InvReads ==
  ASSUME FatFsInv
  PROVE  ReadsBack
BY DEF FatFsInv, ReplyOk

-----------------------------------------------------------------------------
(* The inductive invariant of the file system, for any directory, any number *)
(* of clusters of any size and any files, as long as programs behave.        *)
THEOREM FatFsIsConsistent ==
  ASSUME Behaved
  PROVE  FatFsSpec => []FatFsInv
<1>1. Init => FatFsInv
  BY InitKept
<1>2. FatFsInv /\ [Next]_vars => FatFsInv'
  BY NextKept
<1> QED
  BY <1>1, <1>2, PTL DEF FatFsSpec

(* CacheHonest of FatFs: the types, and no operation reads a directory entry *)
(* or a table entry from a fat_buffer that holds something else.             *)
THEOREM FatFsCacheHonest ==
  ASSUME Behaved
  PROVE  FatFsSpec => []CacheHonest
<1>1. FatFsInv => CacheHonest
  BY InvCache
<1> QED
  BY <1>1, FatFsIsConsistent, PTL

(* ClustersOwned of FatFs: no two files share a cluster, none is lost and    *)
(* every chain ends, whatever is written, truncated and removed.             *)
THEOREM FatFsClustersOwned ==
  ASSUME Behaved
  PROVE  FatFsSpec => []ClustersOwned
<1>1. FatFsInv => ClustersOwned
  BY InvOwned
<1> QED
  BY <1>1, FatFsIsConsistent, PTL

(* Positioned of FatFs: pos and cblk of an open file stay together.          *)
THEOREM FatFsPositioned ==
  ASSUME Behaved
  PROVE  FatFsSpec => []Positioned
<1>1. FatFsInv => Positioned
  BY InvPositioned
<1> QED
  BY <1>1, FatFsIsConsistent, PTL

(* ReadsBack of FatFs: fatfs_read returns the bytes that fatfs_write has      *)
(* acknowledged, over any sequence of opens, writes, closes and removals.    *)
THEOREM FatFsReadsBack ==
  ASSUME Behaved
  PROVE  FatFsSpec => []ReadsBack
<1>1. FatFsInv => ReadsBack
  BY InvReads
<1> QED
  BY <1>1, FatFsIsConsistent, PTL
================================================================================
