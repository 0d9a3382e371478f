------------------------------ MODULE MemoryProofs ------------------------------
(****************************************************************************)
(* The safety properties of the memory, for any number of processes and of  *)
(* pages, any shape of the page tables and any sizes of programs.           *)
(*                                                                          *)
(* The argument is an account of pages.  Vals has a place for every page    *)
(* that something may refer to: the kernel stack of a process, the page a   *)
(* call has in hand, each entry of the address space of a process and of    *)
(* the one that its call makes or destroys, and what is lost.  Each page    *)
(* that is taken is in exactly one place (Accounted).  Every step takes a   *)
(* page into a place, gives one back, or moves one, or all of a use, to     *)
(* another place (Taken, Freed, Moved, Swapped); and as a page is in one    *)
(* place only, a step that changes its entries changes no other address     *)
(* space (OwnKept, WorkKept).  The rest of the invariant (MemInv) says what *)
(* a process may rely on at each of its labels.                             *)
(****************************************************************************)
EXTENDS Memory, FiniteSetTheorems, WellFoundedInduction, TLAPS

(* A set of natural numbers that is not empty has a smallest element.       *)
LEMMA NatMin ==
  ASSUME NEW S \in SUBSET Nat, S # {}
  PROVE  \E x \in S : \A y \in S : x <= y
<1> DEFINE T == {0..k : k \in S}
<1>1. T \subseteq FiniteSubsetsOf(Nat) /\ T # {}
  <2>1. \A k \in S : 0..k \subseteq Nat /\ IsFiniteSet(0..k)
    BY FS_Interval
  <2> QED
    BY <2>1 DEF FiniteSubsetsOf
<1>2. PICK I \in T : \A J \in T : ~ (<<J, I>> \in StrictSubsetOrdering(Nat))
  <2> HIDE DEF T
  <2> QED
    BY <1>1, WFMin, FS_StrictSubsetOrderingWellFounded
<1>3. PICK x \in S : I = 0..x
  OBVIOUS
<1>4. ASSUME NEW y \in S, y < x
      PROVE  FALSE
  <2>1. 0..y \in T /\ x \in Nat /\ y \in Nat
    OBVIOUS
  <2>2. 0..y \subseteq I /\ x \in I /\ x \notin 0..y
    BY <1>3, <1>4, <2>1
  <2>3. 0..y \in SUBSET Nat /\ I \in SUBSET Nat
    BY <1>3
  <2> HIDE DEF T
  <2> QED
    BY <1>2, <2>1, <2>2, <2>3 DEF StrictSubsetOrdering
<1> QED
  BY <1>4

(* Division of what has m parts of n places each.                           *)
LEMMA Division ==
  ASSUME NEW n \in Nat \ {0}, NEW m \in Nat \ {0}, NEW v \in 0..(m * n - 1)
  PROVE  /\ v \div n \in 0..(m - 1) /\ v % n \in 0..(n - 1)
         /\ v = (v \div n) * n + (v % n)
<1>1. v \div n \in Nat /\ v % n \in 0..(n - 1) /\ v = (v \div n) * n + (v % n)
  OBVIOUS
<1>2. PICK q \in Nat : q = v \div n
  BY <1>1
<1>3. q * n < m * n
  BY <1>1, <1>2
<1>4. q < m
  <2>1. CASE q >= m
    <3>1. PICK r \in Nat : q = m + r
      <4>1. q - m \in Nat /\ q = m + (q - m)
        BY <2>1
      <4> QED
        BY <4>1
    <3>2. q * n = m * n + r * n /\ r * n \in Nat /\ m * n \in Nat
      BY <3>1
    <3> QED
      BY <1>3, <3>2
  <2> QED
    BY <2>1
<1> QED
  BY <1>1, <1>2, <1>4

(* Place j of part i.                                                       *)
LEMMA Recompose ==
  ASSUME NEW n \in Nat \ {0}, NEW m \in Nat \ {0}, NEW i \in 0..(m - 1), NEW j \in 0..(n - 1)
  PROVE  /\ i * n + j \in 0..(m * n - 1)
         /\ (i * n + j) \div n = i /\ (i * n + j) % n = j
<1>1. PICK d \in Nat : m = i + 1 + d
  <2>1. m - i - 1 \in Nat /\ m = i + 1 + (m - i - 1)
    OBVIOUS
  <2> QED
    BY <2>1
<1>2. i * n \in Nat /\ d * n \in Nat /\ m * n = i * n + n + d * n
  BY <1>1
<1>3. i * n + j \in 0..(m * n - 1)
  BY <1>2
<1>4. (i * n + j) \div n = i /\ (i * n + j) % n = j
  OBVIOUS
<1> QED
  BY <1>3, <1>4

(* The pages that a heap of h bytes takes.                                  *)
LEMMA UpToFacts ==
  ASSUME NEW h \in Nat
  PROVE  /\ UpTo(h) \in Nat /\ (h > 0 => UpTo(h) > 0)
         /\ \A m \in Nat : h <= m * PageSize => UpTo(h) <= m
         /\ \A g \in Nat : g <= h => UpTo(g) <= UpTo(h)
<1>1. PICK s \in Nat \ {0} : s = PageSize
  BY MemoryAssumption
<1>2. \A g \in Nat : /\ UpTo(g) = (g + s - 1) \div s
                     /\ UpTo(g) \in Nat
                     /\ \E r \in 0..(s - 1) : g + s - 1 = UpTo(g) * s + r
  <2>1. ASSUME NEW g \in Nat
        PROVE  /\ (g + s - 1) \div s \in Nat
               /\ \E r \in 0..(s - 1) : g + s - 1 = ((g + s - 1) \div s) * s + r
    <3>1. PICK x \in Nat : x = g + s - 1
      OBVIOUS
    <3>2. x \div s \in Nat /\ x % s \in 0..(s - 1) /\ x = (x \div s) * s + (x % s)
      OBVIOUS
    <3> QED
      BY <3>1, <3>2
  <2> QED
    BY <1>1, <2>1 DEF UpTo
<1>3. PICK u \in Nat, r \in 0..(s - 1) : u = UpTo(h) /\ h + s - 1 = u * s + r
  BY <1>2
<1>4. h > 0 => u > 0
  <2>1. CASE u = 0
    BY <1>3, <2>1
  <2> QED
    BY <2>1
<1>5. ASSUME NEW m \in Nat, h <= m * s, u > m  PROVE FALSE
  <2>1. PICK d \in Nat : u = m + 1 + d
    <3>1. u - m - 1 \in Nat /\ u = m + 1 + (u - m - 1)
      BY <1>5
    <3> QED
      BY <3>1
  <2>2. u * s = m * s + s + d * s /\ d * s \in Nat /\ m * s \in Nat
    BY <2>1
  <2> QED
    BY <1>3, <1>5, <2>2
<1>6. ASSUME NEW g \in Nat, g <= h, UpTo(g) > u  PROVE FALSE
  <2>1. PICK w \in Nat, q \in 0..(s - 1) : w = UpTo(g) /\ g + s - 1 = w * s + q
    BY <1>2
  <2>2. PICK d \in Nat : w = u + 1 + d
    <3>1. w - u - 1 \in Nat /\ w = u + 1 + (w - u - 1)
      BY <1>6, <2>1
    <3> QED
      BY <3>1
  <2>3. w * s = u * s + s + d * s /\ d * s \in Nat /\ u * s \in Nat
    BY <2>2
  <2> QED
    BY <1>3, <1>6, <2>1, <2>3
<1>7. \A m \in Nat : h <= m * s => u <= m
  BY <1>5
<1>8. \A g \in Nat : g <= h => UpTo(g) <= u
  BY <1>2, <1>6
<1> QED
  BY <1>1, <1>3, <1>4, <1>7, <1>8

-----------------------------------------------------------------------------
\* Who holds which page: V[u][p][k] is the page in the k-th place of use u of
\* the process p, 0 if there is none.

Use == {"own", "work", "stack", "page", "lost"}

Books == [Use -> [Proc -> [Int -> Page \cup {0}]]]

\* Each of the pages in U is in exactly one place, and no other page in any.
Accounted(V, U) ==
  /\ V \in Books /\ U \subseteq Page
  /\ \A u \in Use, p \in Proc, k \in Int : V[u][p][k] # 0 => V[u][p][k] \in U
  /\ \A x \in U : \E u \in Use, p \in Proc, k \in Int : V[u][p][k] = x
  /\ \A u, w \in Use, p, q \in Proc, k, j \in Int :
       V[u][p][k] = V[w][q][j] /\ V[u][p][k] # 0 => u = w /\ p = q /\ k = j

\* V and W differ at most in the place k of u and p.
OnlyAt(V, W, u, p, k) ==
  \A w \in Use, q \in Proc, j \in Int : ~ (w = u /\ q = p /\ j = k) => W[w][q][j] = V[w][q][j]

(* A page is taken and put where there was none.                            *)
LEMMA Taken ==
  ASSUME NEW V, NEW U, Accounted(V, U), NEW W \in Books, NEW u \in Use, NEW p \in Proc, NEW k \in Int,
         NEW x \in Page \ U, OnlyAt(V, W, u, p, k), V[u][p][k] = 0, W[u][p][k] = x
  PROVE  Accounted(W, U \cup {x})
<1>1. x # 0 /\ 0 \notin U
  BY DEF Page, Accounted
<1>2. \A w \in Use, q \in Proc, j \in Int : V[w][q][j] # x
  BY <1>1 DEF Accounted
<1>3. \A w \in Use, q \in Proc, j \in Int : W[w][q][j] # 0 => W[w][q][j] \in U \cup {x}
  BY DEF Accounted, OnlyAt
<1>4. ASSUME NEW y \in U \cup {x}
      PROVE  \E w \in Use, q \in Proc, j \in Int : W[w][q][j] = y
  <2>1. CASE y = x
    BY <2>1
  <2>2. CASE y # x
    <3>1. PICK w \in Use, q \in Proc, j \in Int : V[w][q][j] = y
      BY <2>2 DEF Accounted
    <3>2. y # 0
      BY <1>1, <2>2
    <3>3. W[w][q][j] = y
      BY <3>1, <3>2 DEF OnlyAt
    <3> QED
      BY <3>3
  <2> QED
    BY <2>1, <2>2
<1>5. ASSUME NEW w \in Use, NEW y \in Use, NEW q \in Proc, NEW r \in Proc, NEW i \in Int, NEW j \in Int,
             W[w][q][i] = W[y][r][j], W[w][q][i] # 0
      PROVE  w = y /\ q = r /\ i = j
  <2>1. CASE w = u /\ q = p /\ i = k
    BY <1>2, <1>5, <2>1 DEF OnlyAt
  <2>2. CASE y = u /\ r = p /\ j = k
    BY <1>2, <1>5, <2>2 DEF OnlyAt
  <2>3. CASE ~ (w = u /\ q = p /\ i = k) /\ ~ (y = u /\ r = p /\ j = k)
    <3>1. V[w][q][i] = V[y][r][j] /\ V[w][q][i] # 0
      BY <1>5, <2>3 DEF OnlyAt
    <3> QED
      BY <3>1 DEF Accounted
  <2> QED
    BY <2>1, <2>2, <2>3
<1>6. PICK T : T = U \cup {x}
  OBVIOUS
<1>7. T \subseteq Page
  BY <1>6 DEF Accounted
<1>8. /\ \A w \in Use, q \in Proc, j \in Int : W[w][q][j] # 0 => W[w][q][j] \in T
      /\ \A y \in T : \E w \in Use, q \in Proc, j \in Int : W[w][q][j] = y
  BY <1>3, <1>4, <1>6
<1>9. Accounted(W, T)
  BY <1>5, <1>7, <1>8 DEF Accounted
<1> QED
  BY <1>6, <1>9

(* A page is given back.                                                    *)
LEMMA Freed ==
  ASSUME NEW V, NEW U, Accounted(V, U), NEW W \in Books, NEW u \in Use, NEW p \in Proc, NEW k \in Int,
         OnlyAt(V, W, u, p, k), V[u][p][k] # 0, W[u][p][k] = 0
  PROVE  Accounted(W, U \ {V[u][p][k]})
<1>1. PICK x : x = V[u][p][k]
  OBVIOUS
<1>2. x # 0 /\ x \in U /\ 0 \notin U
  BY <1>1 DEF Page, Accounted
<1>3. ASSUME NEW w \in Use, NEW q \in Proc, NEW j \in Int, W[w][q][j] # 0
      PROVE  W[w][q][j] = V[w][q][j] /\ V[w][q][j] \in U \ {x}
  <2>1. ~ (w = u /\ q = p /\ j = k)
    BY <1>3
  <2>2. W[w][q][j] = V[w][q][j]
    BY <2>1 DEF OnlyAt
  <2>3. V[w][q][j] # x
    BY <1>1, <1>2, <2>1 DEF Accounted
  <2> QED
    BY <1>3, <2>2, <2>3 DEF Accounted
<1>4. ASSUME NEW y \in U \ {x}
      PROVE  \E w \in Use, q \in Proc, j \in Int : W[w][q][j] = y
  <2>1. PICK w \in Use, q \in Proc, j \in Int : V[w][q][j] = y
    BY DEF Accounted
  <2>2. ~ (w = u /\ q = p /\ j = k)
    BY <1>1, <2>1
  <2>3. W[w][q][j] = y
    BY <2>1, <2>2 DEF OnlyAt
  <2> QED
    BY <2>3
<1>5. ASSUME NEW w \in Use, NEW y \in Use, NEW q \in Proc, NEW r \in Proc, NEW i \in Int, NEW j \in Int,
             W[w][q][i] = W[y][r][j], W[w][q][i] # 0
      PROVE  w = y /\ q = r /\ i = j
  <2>1. V[w][q][i] = V[y][r][j] /\ V[w][q][i] # 0
    BY <1>3, <1>5
  <2> QED
    BY <2>1 DEF Accounted
<1>6. U \ {x} \subseteq Page
  BY DEF Accounted
<1>7. \A w \in Use, q \in Proc, j \in Int : W[w][q][j] # 0 => W[w][q][j] \in U \ {x}
  BY <1>3
<1>8. Accounted(W, U \ {x})
  BY <1>4, <1>5, <1>6, <1>7 DEF Accounted
<1> QED
  BY <1>1, <1>8

\* W is V with the page in place k of u and p moved to the place j of w and q.
IsMove(V, W, u, p, k, w, q, j) ==
  /\ ~ (u = w /\ p = q /\ k = j)
  /\ \A z \in Use, r \in Proc, i \in Int :
       ~ (z = u /\ r = p /\ i = k) /\ ~ (z = w /\ r = q /\ i = j) => W[z][r][i] = V[z][r][i]
  /\ V[u][p][k] # 0 /\ W[u][p][k] = 0 /\ V[w][q][j] = 0 /\ W[w][q][j] = V[u][p][k]

(* A page goes from one place to another.                                   *)
LEMMA Moved ==
  ASSUME NEW V, NEW U, Accounted(V, U), NEW W \in Books,
         NEW u \in Use, NEW p \in Proc, NEW k \in Int,
         NEW w \in Use, NEW q \in Proc, NEW j \in Int, IsMove(V, W, u, p, k, w, q, j)
  PROVE  Accounted(W, U)
<1> USE DEF IsMove
<1>1. PICK x : x = V[u][p][k]
  OBVIOUS
<1>2. PICK X : X = [V EXCEPT ![u][p][k] = 0]
  OBVIOUS
<1>3. X \in Books /\ X[u][p][k] = 0 /\ OnlyAt(V, X, u, p, k)
  <2>1. X \in [Use -> [Proc -> [Int -> Page \cup {0}]]]
    BY <1>2 DEF Accounted, Books
  <2>2. X[u][p][k] = 0
    BY <1>2 DEF Accounted, Books
  <2>3. OnlyAt(V, X, u, p, k)
    BY <1>2 DEF Accounted, Books, OnlyAt
  <2> QED
    BY <2>1, <2>2, <2>3 DEF Books
<1>4. Accounted(X, U \ {x})
  BY <1>1, <1>3, Freed
<1>5. x \in Page \ (U \ {x}) /\ x \in U
  BY <1>1 DEF Accounted
<1>6. X[w][q][j] = 0 /\ OnlyAt(X, W, w, q, j)
  BY <1>3 DEF OnlyAt
<1>7. PICK T : T = U \ {x}
  OBVIOUS
<1>8. Accounted(X, T) /\ x \in Page \ T
  BY <1>4, <1>5, <1>7
<1>9. Accounted(W, T \cup {x})
  BY <1>1, <1>6, <1>8, Taken
<1>10. T \cup {x} = U
  BY <1>5, <1>7
<1> QED
  BY <1>9, <1>10

\* W is V with all pages of u and p exchanged for those of w and q.
IsSwap(V, W, u, p, w, q) ==
  /\ \A k \in Int : W[u][p][k] = V[w][q][k] /\ W[w][q][k] = V[u][p][k]
  /\ \A z \in Use, r \in Proc, k \in Int :
       ~ (z = u /\ r = p) /\ ~ (z = w /\ r = q) => W[z][r][k] = V[z][r][k]

(* All pages of a use are exchanged for those of another one.               *)
LEMMA Swapped ==
  ASSUME NEW V, NEW U, Accounted(V, U), NEW W \in Books,
         NEW u \in Use, NEW p \in Proc, NEW w \in Use, NEW q \in Proc, IsSwap(V, W, u, p, w, q)
  PROVE  Accounted(W, U)
<1> USE DEF IsSwap
<1> DEFINE Z(z, r) == IF z = u /\ r = p THEN w ELSE IF z = w /\ r = q THEN u ELSE z
           R(z, r) == IF z = u /\ r = p THEN q ELSE IF z = w /\ r = q THEN p ELSE r
<1>1. ASSUME NEW z \in Use, NEW r \in Proc, NEW k \in Int
      PROVE  W[z][r][k] = V[Z(z, r)][R(z, r)][k]
  <2>1. CASE z = u /\ r = p
    BY <2>1
  <2>2. CASE ~ (z = u /\ r = p) /\ z = w /\ r = q
    <3>1. Z(z, r) = u /\ R(z, r) = p
      BY <2>2
    <3>2. W[w][q][k] = V[u][p][k]
      OBVIOUS
    <3> QED
      BY <2>2, <3>1, <3>2
  <2>3. CASE ~ (z = u /\ r = p) /\ ~ (z = w /\ r = q)
    <3>1. Z(z, r) = z /\ R(z, r) = r
      BY <2>3
    <3> QED
      BY <2>3, <3>1
  <2> QED
    BY <2>1, <2>2, <2>3
<1>2. \A z \in Use, r \in Proc :
        Z(z, r) \in Use /\ R(z, r) \in Proc /\ Z(Z(z, r), R(z, r)) = z /\ R(Z(z, r), R(z, r)) = r
  OBVIOUS
<1> HIDE DEF Z, R
<1>3. ASSUME NEW z \in Use, NEW r \in Proc, NEW k \in Int, W[z][r][k] # 0
      PROVE  W[z][r][k] \in U
  <2>1. PICK z2 \in Use, r2 \in Proc : W[z][r][k] = V[z2][r2][k]
    BY <1>1, <1>2
  <2> QED
    BY <1>3, <2>1 DEF Accounted
<1>4. ASSUME NEW x \in U
      PROVE  \E z \in Use, r \in Proc, k \in Int : W[z][r][k] = x
  <2>1. PICK z \in Use, r \in Proc, k \in Int : V[z][r][k] = x
    BY DEF Accounted
  <2>2. PICK z2 \in Use, r2 \in Proc : z2 = Z(z, r) /\ r2 = R(z, r) /\ Z(z2, r2) = z /\ R(z2, r2) = r
    BY <1>2
  <2>3. W[z2][r2][k] = x
    BY <1>1, <2>1, <2>2
  <2> QED
    BY <2>3
<1>5. ASSUME NEW z \in Use, NEW y \in Use, NEW r \in Proc, NEW s \in Proc, NEW i \in Int, NEW j \in Int,
             W[z][r][i] = W[y][s][j], W[z][r][i] # 0
      PROVE  z = y /\ r = s /\ i = j
  <2>1. V[Z(z, r)][R(z, r)][i] = V[Z(y, s)][R(y, s)][j] /\ V[Z(z, r)][R(z, r)][i] # 0
    BY <1>1, <1>5
  <2>2. Z(z, r) = Z(y, s) /\ R(z, r) = R(y, s) /\ i = j
    <3>1. PICK z2 \in Use, y2 \in Use, r2 \in Proc, s2 \in Proc :
            z2 = Z(z, r) /\ y2 = Z(y, s) /\ r2 = R(z, r) /\ s2 = R(y, s)
      BY <1>2
    <3>2. V[z2][r2][i] = V[y2][s2][j] /\ V[z2][r2][i] # 0
      BY <2>1, <3>1
    <3>3. z2 = y2 /\ r2 = s2 /\ i = j
      BY <3>2 DEF Accounted
    <3> QED
      BY <3>1, <3>3
  <2> QED
    BY <1>2, <2>2
<1>6. U \subseteq Page
  BY DEF Accounted
<1> QED
  BY <1>3, <1>4, <1>5, <1>6 DEF Accounted

(* Nothing changes.                                                         *)
LEMMA Untouched ==
  ASSUME NEW V, NEW U, Accounted(V, U), NEW W \in Books,
         \A u \in Use, p \in Proc, k \in Int : W[u][p][k] = V[u][p][k]
  PROVE  Accounted(W, U) /\ W = V
<1>1. W = V
  <2>1. \A u \in Use, p \in Proc : W[u][p] = V[u][p]
    <3>1. ASSUME NEW u \in Use, NEW p \in Proc  PROVE W[u][p] = V[u][p]
      <4>1. W[u][p] \in [Int -> Page \cup {0}] /\ V[u][p] \in [Int -> Page \cup {0}]
        BY DEF Accounted, Books
      <4> QED
        BY <4>1
    <3> QED
      BY <3>1
  <2>2. \A u \in Use : W[u] = V[u]
    BY <2>1 DEF Accounted, Books
  <2> QED
    BY <2>2 DEF Accounted, Books
<1> QED
  BY <1>1

-----------------------------------------------------------------------------
\* The address spaces as they are in the tables.

\* PageAt, with the entries as a parameter.
PageIn(e, d, k) ==
  LET i == k \div (NrPte + 1)
      j == k % (NrPte + 1)
  IN  IF e[d][i] = 0 THEN 0
      ELSE IF j < NrPte THEN e[e[d][i]][j] ELSE e[d][i]

\* The page in place k of the tree under the directory d, whose places below
\* from have been given back; the directory itself is in place -1.
Inside(e, d, from, k) ==
  IF d = 0 THEN 0
  ELSE IF k = -1 THEN d
  ELSE IF k \in Place /\ k >= from THEN PageIn(e, d, k) ELSE 0

\* The address space that p makes or destroys, unless it is its own.
WorkDir(p) == IF dir[p] = cr3[p] THEN 0 ELSE dir[p]
From(p)    == IF Destroying(p) THEN at[p] ELSE 0

Held(u, p, k) ==
  CASE u = "own"   -> Inside(entry, cr3[p], 0, k)
    [] u = "work"  -> Inside(entry, WorkDir(p), From(p), k)
    [] u = "stack" -> IF k = 0 THEN stack[p] ELSE 0
    [] u = "page"  -> IF k = 0 THEN page[p] ELSE 0
    [] u = "lost"  -> IF p = First /\ k \in lost THEN k ELSE 0

Vals == [u \in Use |-> [p \in Proc |-> [k \in Int |-> Held(u, p, k)]]]

\* The place of the virtual page v, and that of the table for it.
PlaceOf(v) == (v \div NrPte) * (NrPte + 1) + (v % NrPte)
TableOf(v) == (v \div NrPte) * (NrPte + 1) + NrPte

\* The virtual pages that are mapped.
Has(u, p) == {v \in Vpage : Vals[u][p][PlaceOf(v)] # 0}

-----------------------------------------------------------------------------
\* What a process may rely on at each label.

Forking == {"fork_dir", "copy_dir", "copy", "copy_undo"}
Reaping == {"reap", "reap_stack"}
Loading == {"load", "image", "stack"}
\* It has a directory beside its own, or none.
Beside == Loading \cup {"copy", "copy_undo", "undo", "reap"}
Resting == {"none", "new", "user", "fork_dir", "copy_dir", "reap_stack", "zombie", "gone", "faulted"}
Running == Loading \cup Forking \cup Reaping \cup {"user", "sbrk", "undo", "zombie"}

Label == Resting \cup Beside \cup {"sbrk", "panic"}

LabelsOK(p) ==
  /\ pc[p] \in Resting => dir[p] = 0 /\ page[p] = 0
  /\ pc[p] \in Beside => dir[p] # 0 /\ dir[p] # cr3[p]
  /\ pc[p] \in Running => cr3[p] # 0
  /\ pc[p] = "sbrk" => dir[p] = cr3[p]
  /\ pc[p] \in {"load", "copy_undo", "undo", "reap"} => page[p] = 0
  /\ pc[p] \in {"none", "gone"} => cr3[p] = 0
  /\ pc[p] = "none" => stack[p] = 0
  /\ pc[p] \in {"none", "new"} => heap[p] = 0

ForksOK(p) ==
  /\ pc[p] \in Forking =>
       /\ pc[other[p]] = "new"
       /\ \A k \in Place : Vals["own"][other[p]][k] = 0
       /\ \A q \in Proc \ {p} : pc[q] \in Forking => other[q] # other[p]
  /\ pc[p] = "fork_dir" => cr3[other[p]] = 0 /\ stack[other[p]] # 0
  /\ pc[p] \in Reaping => pc[other[p]] = "gone" /\ \A q \in Proc \ {p} : pc[q] \notin Reaping

\* How far a call is.
WorkOK(p) ==
  /\ pc[p] \in {"sbrk", "image"} => at[p] < to[p] /\ to[p] <= StackAt
  /\ pc[p] = "stack" => at[p] = StackAt /\ to[p] = StackAt + 1
  /\ pc[p] = "copy" =>
       /\ at[p] <= StackAt + 1
       /\ page[p] # 0 => at[p] \in Has("own", p)
       /\ Has("work", p) = {v \in Has("own", p) : v < at[p]}

\* Settled: sbrk or exec does not change the program at this moment.
Settled == {"user", "undo", "load", "image", "zombie"} \cup Forking \cup Reaping

\* What a process that has not run out of memory has mapped.
FedOK(p) ==
  /\ pc[p] \in Settled /\ heap[p] > 0 => Has("own", p) = 0..(UpTo(heap[p]) - 1) \cup {StackAt}
  /\ pc[p] = "sbrk" => /\ Has("own", p) = 0..(at[p] - 1) \cup {StackAt}
                       /\ to[p] = UpTo(heap[p]) /\ heap[p] > 0
  /\ pc[p] = "load" => Has("work", p) = {}
  /\ pc[p] = "image" => Has("work", p) = 0..(at[p] - 1)
  /\ pc[p] = "stack" => Has("work", p) = 0..(UpTo(heap[p]) - 1) /\ heap[p] > 0
  /\ pc[p] = "panic" => heap[p] = 0

Local(p) == LabelsOK(p) /\ WorkOK(p) /\ (p \notin starved => FedOK(p))

Entries == [Page -> [Index -> Page \cup {0}]]

\* MemoryTypeOK, with the domains.
MemTypes ==
  /\ used \subseteq Page /\ lost \subseteq Page /\ starved \subseteq Proc
  /\ entry \in Entries
  /\ cr3 \in [Proc -> Page \cup {0}] /\ stack \in [Proc -> Page \cup {0}]
  /\ dir \in [Proc -> Page \cup {0}] /\ page \in [Proc -> Page \cup {0}]
  /\ pc \in [Proc -> Label] /\ heap \in [Proc -> 0..MaxHeap] /\ other \in [Proc -> Proc]
  /\ at \in [Proc -> 0..(NrPde * (NrPte + 1))] /\ to \in [Proc -> 0..(StackAt + 1)]

MemInv ==
  /\ MemTypes
  /\ Accounted(Vals, used)
  /\ \A p \in Proc : Local(p) /\ ForksOK(p)

-----------------------------------------------------------------------------
(* The sizes, and the indices they give.                                    *)
LEMMA Sizes ==
  /\ NrPte \in Nat \ {0} /\ NrPte + 1 \in Nat \ {0} /\ NrPde \in Nat \ {0}
  /\ 0..(NrPde - 1) \subseteq Index /\ 0..(NrPte - 1) \subseteq Index
  /\ NrPde * NrPte \in Nat /\ NrPde * NrPte >= 1 /\ StackAt \in Nat /\ StackAt \in Vpage
  /\ Vpage = 0..StackAt /\ 0 \notin Page
<1>1. NrPte \in Nat \ {0} /\ NrPde \in Nat \ {0}
  BY MemoryAssumption
<1>2. PICK n, m \in Nat \ {0} : n = NrPte /\ m = NrPde
  BY <1>1
<1>3. n * m \in Nat /\ m * n \in Nat /\ m * n >= 1
  <2>1. PICK d \in Nat : m = 1 + d
    <3>1. m - 1 \in Nat /\ m = 1 + (m - 1)
      OBVIOUS
    <3> QED
      BY <3>1
  <2>2. m * n = n + d * n /\ d * n \in Nat
    BY <2>1
  <2> QED
    BY <2>2
<1>4. StackAt \in Nat /\ StackAt \in Vpage /\ Vpage = 0..StackAt
  BY <1>2, <1>3 DEF StackAt, Vpage
<1>5. 0..(NrPde - 1) \subseteq Index /\ 0..(NrPte - 1) \subseteq Index
  BY <1>1 DEF Index
<1> QED
  BY <1>1, <1>2, <1>3, <1>4, <1>5 DEF Page

\* Place k is that of entry j of the table in entry i of a directory; the last
\* one is that of the table itself.
IsPlace(k, i, j) ==
  /\ i \in 0..(NrPde - 1) /\ j \in 0..NrPte /\ k \in Place
  /\ k = i * (NrPte + 1) + j /\ i = k \div (NrPte + 1) /\ j = k % (NrPte + 1)

(* A place has an entry of a directory and one of its table.                *)
LEMMA Parts == ASSUME NEW k \in Place  PROVE \E i, j : IsPlace(k, i, j)
<1>1. PICK n, m \in Nat \ {0} : n = NrPte + 1 /\ m = NrPde
  BY Sizes
<1>2. k \in 0..(m * n - 1)
  BY <1>1 DEF Place
<1>3. /\ k \div n \in 0..(m - 1) /\ k % n \in 0..(n - 1)
      /\ k = (k \div n) * n + (k % n)
  BY <1>2, Division
<1>4. 0..(n - 1) = 0..NrPte
  BY <1>1, Sizes
<1>5. IsPlace(k, k \div (NrPte + 1), k % (NrPte + 1))
  BY <1>1, <1>3, <1>4 DEF IsPlace
<1> QED
  BY <1>5

(* Two such entries have a place.                                           *)
LEMMA OfParts ==
  ASSUME NEW i \in 0..(NrPde - 1), NEW j \in 0..NrPte
  PROVE  IsPlace(i * (NrPte + 1) + j, i, j)
<1>1. PICK n, m \in Nat \ {0} : n = NrPte + 1 /\ m = NrPde
  BY Sizes
<1>2. i \in 0..(m - 1) /\ j \in 0..(n - 1)
  BY <1>1, Sizes
<1>3. /\ i * n + j \in 0..(m * n - 1)
      /\ (i * n + j) \div n = i /\ (i * n + j) % n = j
  BY <1>2, Recompose
<1> QED
  BY <1>1, <1>3 DEF Place, IsPlace

(* Their ranges.                                                            *)
LEMMA IsPlaceFacts ==
  ASSUME NEW k, NEW i, NEW j, IsPlace(k, i, j)
  PROVE  /\ i \in 0..(NrPde - 1) /\ i \in Index
         /\ j \in 0..NrPte /\ (j # NrPte <=> j < NrPte) /\ (j < NrPte => j \in Index)
         /\ k \in Place /\ k \in Int /\ k >= 0 /\ k # -1
<1>1. i \in 0..(NrPde - 1) /\ j \in 0..NrPte /\ k \in Place
  BY DEF IsPlace
<1>2. i \in Index
  BY <1>1, Sizes
<1>3. PICK n \in Nat : n = NrPte
  BY Sizes
<1>4. (j # n <=> j < n) /\ (j < n => j \in 0..(n - 1))
  BY <1>1, <1>3
<1>5. k \in Int /\ k >= 0
  BY <1>1 DEF Place
<1> QED
  BY <1>1, <1>2, <1>3, <1>4, <1>5, Sizes

(* The place of the table is behind those of its entries.                   *)
LEMMA TablePlace ==
  ASSUME NEW k, NEW i, NEW j, IsPlace(k, i, j)
  PROVE  \E m : IsPlace(m, i, NrPte) /\ k \in Int /\ m \in Int /\ m >= k
<1>1. PICK n \in Nat : n = NrPte /\ j \in 0..n /\ n \in 0..n
  BY Sizes, IsPlaceFacts
<1>2. i \in Int
  BY IsPlaceFacts
<1>3. PICK c \in Int : c = i * (NrPte + 1)
  BY <1>1, <1>2
<1>4. IsPlace(c + n, i, NrPte)
  BY <1>1, <1>3, OfParts, IsPlaceFacts
<1>5. k = c + j
  BY <1>3 DEF IsPlace
<1> QED
  BY <1>1, <1>4, <1>5, <1>3

\* Entry i of the directory and entry j of its table are those for v.
At(v, i, j) ==
  /\ i \in 0..(NrPde - 1) /\ j \in 0..(NrPte - 1)
  /\ v \div NrPte = i /\ v % NrPte = j /\ v = i * NrPte + j

(* The entries for a virtual page and their places.                         *)
LEMMA VpageParts ==
  ASSUME NEW v \in Vpage
  PROVE  \E i, j : At(v, i, j) /\ IsPlace(PlaceOf(v), i, j) /\ IsPlace(TableOf(v), i, NrPte)
<1>1. PICK n, m \in Nat \ {0} : n = NrPte /\ m = NrPde
  BY Sizes
<1>2. v \in 0..(m * n - 1)
  BY <1>1 DEF Vpage
<1>3. /\ v \div n \in 0..(m - 1) /\ v % n \in 0..(n - 1)
      /\ v = (v \div n) * n + (v % n)
  BY <1>2, Division
<1>4. PICK i, j : At(v, i, j) /\ i = v \div NrPte /\ j = v % NrPte
  BY <1>1, <1>3 DEF At
<1>5. i \in 0..(NrPde - 1) /\ j \in 0..NrPte /\ NrPte \in 0..NrPte
  BY <1>4, Sizes DEF At
<1>6. IsPlace(i * (NrPte + 1) + j, i, j) /\ IsPlace(i * (NrPte + 1) + NrPte, i, NrPte)
  BY <1>5, OfParts
<1> QED
  BY <1>4, <1>6 DEF PlaceOf, TableOf

(* They are indices.                                                        *)
LEMMA AtFacts ==
  ASSUME NEW v, NEW i, NEW j, At(v, i, j)
  PROVE  i \in Index /\ j \in Index /\ j < NrPte /\ j # NrPte
<1>1. PICK n \in Nat : n = NrPte
  BY Sizes
<1>2. i \in 0..(NrPde - 1) /\ j \in 0..(n - 1)
  BY <1>1 DEF At
<1> QED
  BY <1>1, <1>2, Sizes

(* Different virtual pages have different places, and none is a table's.    *)
LEMMA PlacesOf ==
  ASSUME NEW v \in Vpage
  PROVE  /\ PlaceOf(v) \in Place /\ TableOf(v) \in Place /\ PlaceOf(v) # TableOf(v)
         /\ \A w \in Vpage : /\ PlaceOf(w) # TableOf(v)
                             /\ PlaceOf(w) = PlaceOf(v) => w = v
<1>1. PICK i, j : At(v, i, j) /\ IsPlace(PlaceOf(v), i, j) /\ IsPlace(TableOf(v), i, NrPte)
  BY VpageParts
<1>2. j # NrPte /\ v = i * NrPte + j
  BY <1>1, Sizes DEF At
<1>3. ASSUME NEW w \in Vpage
      PROVE  PlaceOf(w) # TableOf(v) /\ (PlaceOf(w) = PlaceOf(v) => w = v)
  <2>1. PICK x, y : At(w, x, y) /\ IsPlace(PlaceOf(w), x, y)
    BY VpageParts
  <2>2. y # NrPte /\ w = x * NrPte + y
    BY <2>1, Sizes DEF At
  <2>3. PlaceOf(w) = PlaceOf(v) => x = i /\ y = j
    BY <1>1, <2>1 DEF IsPlace
  <2>4. PlaceOf(w) # TableOf(v)
    BY <1>1, <2>1, <2>2 DEF IsPlace
  <2> QED
    BY <1>2, <2>2, <2>3, <2>4
<1> QED
  BY <1>1, <1>2, <1>3 DEF IsPlace

(* A place in terms of the entries.                                         *)
LEMMA InsideAt ==
  ASSUME NEW e, NEW d \in Page, NEW from \in Int, NEW k, NEW i, NEW j, IsPlace(k, i, j)
  PROVE  Inside(e, d, from, k) =
           IF k < from \/ e[d][i] = 0 THEN 0
           ELSE IF j < NrPte THEN e[e[d][i]][j] ELSE e[d][i]
<1>1. k \in Place /\ k \div (NrPte + 1) = i /\ k % (NrPte + 1) = j
  BY DEF IsPlace
<1>2. k \in Int /\ k # -1 /\ d # 0
  BY <1>1, Sizes DEF Place
<1>3. PageIn(e, d, k) = IF e[d][i] = 0 THEN 0
                        ELSE IF j < NrPte THEN e[e[d][i]][j] ELSE e[d][i]
  BY <1>1 DEF PageIn
<1> QED
  BY <1>1, <1>2, <1>3 DEF Inside

(* The place of the table.                                                  *)
LEMMA TableInside ==
  ASSUME NEW e, NEW d \in Page, NEW from \in Int, NEW k, NEW i, IsPlace(k, i, NrPte), k >= from
  PROVE  Inside(e, d, from, k) = e[d][i]
<1>1. ~ (k < from) /\ ~ (NrPte < NrPte)
  BY Sizes DEF IsPlace, Place
<1> QED
  BY <1>1, InsideAt

(* What is inside an address space are pages.                               *)
LEMMA InsideType ==
  ASSUME NEW e \in Entries, NEW d \in Page \cup {0}, NEW from \in Int, NEW k \in Int
  PROVE  Inside(e, d, from, k) \in Page \cup {0}
<1>1. CASE d = 0 \/ k = -1 \/ k \notin Place
  BY <1>1 DEF Inside
<1>2. CASE d # 0 /\ k \in Place
  <2>1. PICK i, j : IsPlace(k, i, j)
    BY <1>2, Parts
  <2>2. d \in Page /\ i \in Index /\ e[d][i] \in Page \cup {0}
    BY <1>2, <2>1, IsPlaceFacts DEF Entries
  <2>3. ASSUME e[d][i] # 0, j < NrPte  PROVE e[e[d][i]][j] \in Page \cup {0}
    <3>1. j \in Index
      BY <2>1, <2>3, IsPlaceFacts
    <3> QED
      BY <2>2, <2>3, <3>1 DEF Entries
  <2>4. Inside(e, d, from, k) =
          IF k < from \/ e[d][i] = 0 THEN 0
          ELSE IF j < NrPte THEN e[e[d][i]][j] ELSE e[d][i]
    BY <2>1, <2>2, InsideAt
  <2> QED
    BY <2>2, <2>3, <2>4
<1> QED
  BY <1>1, <1>2

(* A tree in which the pages X do not occur does not change with their      *)
(* entries.                                                                 *)
LEMMA TreeElsewhere ==
  ASSUME NEW e \in Entries, NEW f \in Entries, NEW d \in Page \cup {0}, NEW from \in Int,
         NEW X, \A y \in Page \ X : f[y] = e[y],
         \A k \in Int : Inside(e, d, from, k) \notin X \ {0}
  PROVE  \A k \in Int : Inside(f, d, from, k) = Inside(e, d, from, k)
<1> SUFFICES ASSUME NEW k \in Int  PROVE Inside(f, d, from, k) = Inside(e, d, from, k)
  OBVIOUS
<1>1. CASE d = 0 \/ k = -1 \/ k \notin Place \/ ~ (k >= from)
  BY <1>1 DEF Inside
<1>2. CASE d # 0 /\ k \in Place /\ k >= from
  <2>1. PICK i, j : IsPlace(k, i, j)
    BY <1>2, Parts
  <2>2. d \in Page /\ d \notin X
    <3>1. Inside(e, d, from, -1) = d
      BY <1>2 DEF Inside
    <3> QED
      BY <1>2, <3>1
  <2>3. f[d] = e[d] /\ e[d][i] \in Page \cup {0}
    BY <2>1, <2>2, IsPlaceFacts DEF Entries
  <2>4. PICK t : t = e[d][i]
    OBVIOUS
  <2>5. ASSUME t # 0  PROVE f[t] = e[t]
    <3>1. PICK m : IsPlace(m, i, NrPte) /\ m \in Int /\ m >= k
      BY <2>1, TablePlace
    <3>2. m >= from
      BY <1>2, <3>1
    <3>3. Inside(e, d, from, m) = t
      BY <2>2, <2>4, <3>1, <3>2, TableInside
    <3>4. t \notin X
      BY <2>5, <3>1, <3>3
    <3> QED
      BY <2>3, <2>4, <2>5, <3>4
  <2>6. /\ Inside(e, d, from, k) = IF k < from \/ t = 0 THEN 0 ELSE IF j < NrPte THEN e[t][j] ELSE t
        /\ Inside(f, d, from, k) = IF k < from \/ t = 0 THEN 0 ELSE IF j < NrPte THEN f[t][j] ELSE t
    BY <2>1, <2>2, <2>3, <2>4, InsideAt
  <2> QED
    BY <2>5, <2>6
<1> QED
  BY <1>1, <1>2

(* What memory_get_paddr finds is in its place.                             *)
LEMMA FrameIsInside ==
  ASSUME NEW e \in Entries, NEW d \in Page, NEW v \in Vpage
  PROVE  /\ Table(e, d, v) = Inside(e, d, 0, TableOf(v)) /\ Table(e, d, v) \in Page \cup {0}
         /\ Frame(e, d, v) = Inside(e, d, 0, PlaceOf(v))
<1>1. PICK i, j : At(v, i, j) /\ IsPlace(PlaceOf(v), i, j) /\ IsPlace(TableOf(v), i, NrPte)
  BY VpageParts
<1>2. i \in Index /\ j < NrPte
  BY <1>1, AtFacts
<1>3. PlaceOf(v) \in Int /\ PlaceOf(v) >= 0 /\ TableOf(v) \in Int /\ TableOf(v) >= 0
  BY PlacesOf, Sizes DEF Place
<1>4. Table(e, d, v) = e[d][i] /\ e[d][i] \in Page \cup {0}
  BY <1>1, <1>2 DEF Table, At, Entries
<1>5. Frame(e, d, v) = IF e[d][i] = 0 THEN 0 ELSE e[e[d][i]][j]
  BY <1>1, <1>4 DEF Frame, At
<1>6. Inside(e, d, 0, TableOf(v)) = e[d][i]
  BY <1>1, <1>3, TableInside
<1>7. Inside(e, d, 0, PlaceOf(v)) = IF e[d][i] = 0 THEN 0 ELSE e[e[d][i]][j]
  <2>1. PICK k, b \in Int : k = PlaceOf(v) /\ b = 0 /\ ~ (k < b) /\ IsPlace(k, i, j)
    BY <1>1, <1>3
  <2>2. Inside(e, d, b, k) = IF k < b \/ e[d][i] = 0 THEN 0
                             ELSE IF j < NrPte THEN e[e[d][i]][j] ELSE e[d][i]
    BY <2>1, InsideAt
  <2> QED
    BY <1>2, <2>1, <2>2
<1> QED
  BY <1>4, <1>5, <1>6, <1>7

(* find_pte enters a table that occurs nowhere in the tree.                 *)
LEMMA TableEntered ==
  ASSUME NEW e \in Entries, NEW d \in Page, NEW v \in Vpage, NEW t \in Page,
         Table(e, d, v) = 0, \A k \in Int : Inside(e, d, 0, k) # t,
         \A k \in Place : Inside(e, d, 0, k) # d
  PROVE  /\ WithTable(e, d, v, t) \in Entries
         /\ \A y \in Page \ {d, t} : WithTable(e, d, v, t)[y] = e[y]
         /\ Table(WithTable(e, d, v, t), d, v) = t
         /\ \A k \in Int : Inside(WithTable(e, d, v, t), d, 0, k) =
                             IF k = TableOf(v) THEN t ELSE Inside(e, d, 0, k)
<1>1. PICK i, j : At(v, i, j) /\ IsPlace(PlaceOf(v), i, j) /\ IsPlace(TableOf(v), i, NrPte)
  BY VpageParts
<1>2. PICK f : f = WithTable(e, d, v, t)
  OBVIOUS
<1>3. i \in Index /\ j < NrPte /\ e[d][i] = 0 /\ d # t
  <2>1. Inside(e, d, 0, -1) = d
    BY Sizes DEF Inside
  <2>2. Table(e, d, v) = e[d][i]
    BY <1>1 DEF At, Table
  <2> QED
    BY <1>1, <2>1, <2>2, AtFacts
<1>4. /\ f \in Entries /\ \A y \in Page \ {d, t} : f[y] = e[y]
      /\ f[t] = Zero /\ f[d][i] = t /\ \A x \in Index \ {i} : f[d][x] = e[d][x]
  <2>1. Zero \in [Index -> Page \cup {0}]
    BY DEF Zero
  <2>2. f = [e EXCEPT ![t] = Zero, ![d][i] = t]
    BY <1>1, <1>2 DEF WithTable, At
  <2> QED
    BY <1>3, <2>1, <2>2 DEF Entries
<1>5. Table(f, d, v) = t
  BY <1>1, <1>4 DEF Table, At
<1>6. ASSUME NEW k \in Int
      PROVE  Inside(f, d, 0, k) = IF k = TableOf(v) THEN t ELSE Inside(e, d, 0, k)
  <2>1. CASE k \notin Place
    BY <1>1, <2>1 DEF Inside, IsPlace
  <2>2. CASE k \in Place
    <3>1. PICK x, y : IsPlace(k, x, y) /\ x \in Index /\ k >= 0
      BY <2>2, Parts, IsPlaceFacts
    <3>2. /\ Inside(e, d, 0, k) = IF k < 0 \/ e[d][x] = 0 THEN 0 ELSE IF y < NrPte THEN e[e[d][x]][y] ELSE e[d][x]
          /\ Inside(f, d, 0, k) = IF k < 0 \/ f[d][x] = 0 THEN 0 ELSE IF y < NrPte THEN f[f[d][x]][y] ELSE f[d][x]
      BY <3>1, InsideAt
    <3>3. CASE x = i
      <4>1. k = TableOf(v) <=> y = NrPte
        BY <1>1, <3>1, <3>3 DEF IsPlace
      <4>2. y \in 0..NrPte /\ (y < NrPte => y \in Index) /\ (y < NrPte <=> y # NrPte) /\ ~ (k < 0)
        BY <3>1, IsPlaceFacts
      <4>3. t # 0 /\ f[d][x] = t /\ e[d][x] = 0 /\ (y < NrPte => f[t][y] = 0)
        BY <1>3, <1>4, <3>3, <4>2, Sizes DEF Zero
      <4> QED
        BY <3>2, <4>1, <4>2, <4>3
    <3>4. CASE x # i
      <4>1. k # TableOf(v)
        BY <1>1, <3>1, <3>4 DEF IsPlace
      <4>2. f[d][x] = e[d][x] /\ e[d][x] \in Page \cup {0}
        BY <1>4, <3>1, <3>4 DEF Entries
      <4>3. ASSUME e[d][x] # 0  PROVE f[e[d][x]] = e[e[d][x]]
        <5>1. PICK m : IsPlace(m, x, NrPte) /\ m \in Int /\ m >= 0
          BY <3>1, TablePlace
        <5>2. Inside(e, d, 0, m) = e[d][x]
          BY <5>1, TableInside
        <5>3. e[d][x] # t
          BY <5>1, <5>2
        <5>4. e[d][x] # d
          BY <5>1, <5>2 DEF IsPlace
        <5> QED
          BY <1>4, <4>2, <4>3, <5>3, <5>4
      <4> QED
        BY <3>2, <4>1, <4>2, <4>3
    <3> QED
      BY <3>3, <3>4
  <2> QED
    BY <2>1, <2>2
<1> QED
  BY <1>2, <1>4, <1>5, <1>6

\* f is e, with x in entry j of the page t.
Entered(e, f, t, j, x) ==
  /\ f \in Entries /\ \A y \in Page \ {t} : f[y] = e[y]
  /\ f[t][j] = x /\ \A y \in Index \ {j} : f[t][y] = e[t][y]

(* memory_create_map enters a page in a table that occurs once in the tree. *)
LEMMA FrameEntered ==
  ASSUME NEW e \in Entries, NEW d \in Page, NEW v \in Vpage, NEW x \in Page, NEW t \in Page,
         t = Table(e, d, v), t # d,
         \A k \in Place : Inside(e, d, 0, k) = t => k = TableOf(v),
         NEW f, Entered(e, f, t, v % NrPte, x)
  PROVE  \A k \in Int : Inside(f, d, 0, k) = IF k = PlaceOf(v) THEN x ELSE Inside(e, d, 0, k)
<1>2. PICK i, j : At(v, i, j) /\ IsPlace(PlaceOf(v), i, j) /\ IsPlace(TableOf(v), i, NrPte)
  BY VpageParts
<1>3. i \in Index /\ j \in Index /\ j < NrPte /\ e[d][i] = t /\ v % NrPte = j
  <2>1. v \div NrPte = i /\ v % NrPte = j
    BY <1>2 DEF At
  <2> QED
    BY <1>2, <2>1, AtFacts DEF Table
<1>4. /\ f \in Entries /\ \A y \in Page \ {t} : f[y] = e[y]
      /\ f[t][j] = x /\ \A y \in Index \ {j} : f[t][y] = e[t][y]
  BY <1>3 DEF Entered
<1>5. ASSUME NEW k \in Int
      PROVE  Inside(f, d, 0, k) = IF k = PlaceOf(v) THEN x ELSE Inside(e, d, 0, k)
  <2>1. CASE k \notin Place
    BY <1>2, <2>1 DEF Inside, IsPlace
  <2>2. CASE k \in Place
    <3>1. PICK a, b : IsPlace(k, a, b) /\ a \in Index /\ k >= 0
      BY <2>2, Parts, IsPlaceFacts
    <3>2. f[d] = e[d] /\ e[d][a] \in Page \cup {0}
      BY <1>4, <3>1 DEF Entries
    <3>3. /\ Inside(e, d, 0, k) = IF k < 0 \/ e[d][a] = 0 THEN 0 ELSE IF b < NrPte THEN e[e[d][a]][b] ELSE e[d][a]
          /\ Inside(f, d, 0, k) = IF k < 0 \/ e[d][a] = 0 THEN 0 ELSE IF b < NrPte THEN f[e[d][a]][b] ELSE e[d][a]
      <4>1. f[d][a] = e[d][a] /\ f[f[d][a]][b] = f[e[d][a]][b]
        BY <3>2
      <4>2. Inside(e, d, 0, k) = IF k < 0 \/ e[d][a] = 0 THEN 0 ELSE IF b < NrPte THEN e[e[d][a]][b] ELSE e[d][a]
        BY <3>1, InsideAt
      <4>3. Inside(f, d, 0, k) = IF k < 0 \/ f[d][a] = 0 THEN 0 ELSE IF b < NrPte THEN f[f[d][a]][b] ELSE f[d][a]
        BY <3>1, InsideAt
      <4> QED
        BY <4>1, <4>2, <4>3
    <3>4. b \in 0..NrPte /\ (b < NrPte => b \in Index) /\ ~ (k < 0)
      BY <3>1, IsPlaceFacts
    <3>5. CASE a = i
      <4>1. k = PlaceOf(v) <=> b = j
        BY <1>2, <3>1, <3>5 DEF IsPlace
      <4>2. t # 0
        BY Sizes
      <4> QED
        BY <1>3, <1>4, <3>3, <3>4, <3>5, <4>1, <4>2
    <3>6. CASE a # i
      <4>1. k # PlaceOf(v)
        BY <1>2, <3>1, <3>6 DEF IsPlace
      <4>2. ASSUME e[d][a] # 0  PROVE f[e[d][a]] = e[e[d][a]]
        <5>1. PICK m : IsPlace(m, a, NrPte) /\ m \in Int /\ m >= 0
          BY <3>1, TablePlace
        <5>2. Inside(e, d, 0, m) = e[d][a] /\ m \in Place
          BY <5>1, TableInside, IsPlaceFacts
        <5>3. m # TableOf(v)
          BY <1>2, <3>6, <5>1 DEF IsPlace
        <5>4. e[d][a] # t
          BY <5>2, <5>3
        <5> QED
          BY <1>4, <3>2, <4>2, <5>4
      <4> QED
        BY <3>3, <4>1, <4>2
    <3> QED
      BY <3>5, <3>6
  <2> QED
    BY <2>1, <2>2
<1> QED
  BY <1>5

-----------------------------------------------------------------------------
\* The books in terms of the state, before and after a step.

(* The books before a step.                                                 *)
LEMMA Reads ==
  ASSUME NEW p \in Proc, NEW k \in Int
  PROVE  /\ Vals["own"][p][k] = Inside(entry, cr3[p], 0, k)
         /\ Vals["work"][p][k] = Inside(entry, WorkDir(p), From(p), k)
         /\ Vals["stack"][p][k] = IF k = 0 THEN stack[p] ELSE 0
         /\ Vals["page"][p][k] = IF k = 0 THEN page[p] ELSE 0
         /\ Vals["lost"][p][k] = IF p = First /\ k \in lost THEN k ELSE 0
BY DEF Vals, Held, Use

(* The books after it.                                                      *)
LEMMA ReadsNext ==
  ASSUME NEW p \in Proc, NEW k \in Int
  PROVE  /\ Vals'["own"][p][k] = Inside(entry', cr3'[p], 0, k)
         /\ Vals'["work"][p][k] = Inside(entry', WorkDir(p)', From(p)', k)
         /\ Vals'["stack"][p][k] = IF k = 0 THEN stack'[p] ELSE 0
         /\ Vals'["page"][p][k] = IF k = 0 THEN page'[p] ELSE 0
         /\ Vals'["lost"][p][k] = IF p = First /\ k \in lost' THEN k ELSE 0
BY DEF Vals, Held, Use

(* The directory a call works on, and how far.                              *)
LEMMA WorkTypes ==
  ASSUME MemTypes, NEW p \in Proc
  PROVE  WorkDir(p) \in Page \cup {0} /\ From(p) \in Int
<1>1. NrPde * (NrPte + 1) \in Nat
  BY Sizes
<1> QED
  BY <1>1 DEF MemTypes, WorkDir, From

(* The same after a step.                                                   *)
LEMMA WorkTypesNext ==
  ASSUME MemTypes', NEW p \in Proc
  PROVE  WorkDir(p)' \in Page \cup {0} /\ From(p)' \in Int
<1>1. NrPde * (NrPte + 1) \in Nat
  BY Sizes
<1> QED
  BY <1>1 DEF MemTypes, WorkDir, From

(* The books hold pages.                                                    *)
LEMMA BooksNext == ASSUME MemTypes'  PROVE Vals' \in Books
<1>1. ASSUME NEW u \in Use, NEW p \in Proc, NEW k \in Int
      PROVE  Held(u, p, k)' \in Page \cup {0}
  <2>1. CASE u = "own"
    <3>1. PICK e \in Entries, d \in Page \cup {0} : e = entry' /\ d = cr3'[p]
      BY DEF MemTypes
    <3>2. Inside(e, d, 0, k) \in Page \cup {0}
      BY InsideType
    <3> QED
      BY <2>1, <3>1, <3>2 DEF Held
  <2>2. CASE u = "work"
    <3>1. PICK e \in Entries, d \in Page \cup {0}, b \in Int :
            e = entry' /\ d = WorkDir(p)' /\ b = From(p)'
      BY WorkTypesNext DEF MemTypes
    <3>2. Inside(e, d, b, k) \in Page \cup {0}
      BY InsideType
    <3> QED
      BY <2>2, <3>1, <3>2 DEF Held
  <2>3. CASE u = "stack"
    BY <2>3 DEF Held, MemTypes
  <2>4. CASE u = "page"
    BY <2>4 DEF Held, MemTypes
  <2>5. CASE u = "lost"
    BY <2>5 DEF Held, MemTypes
  <2> QED
    BY <2>1, <2>2, <2>3, <2>4, <2>5 DEF Use
<1> QED
  BY <1>1 DEF Vals, Books

\* The tables differ at most in the pages X.
EntriesBut(X) ==
  entry \in Entries /\ entry' \in Entries /\ \A y \in Page \ X : entry'[y] = entry[y]

(* An address space without the pages whose entries change is kept.         *)
LEMMA OwnKept ==
  ASSUME MemTypes, NEW X, X \subseteq Page, EntriesBut(X), NEW q \in Proc, cr3'[q] = cr3[q],
         \A k \in Int : Vals["own"][q][k] \notin X
  PROVE  \A k \in Int : Vals'["own"][q][k] = Vals["own"][q][k]
<1>1. PICK e, f \in Entries, d \in Page \cup {0} : e = entry /\ f = entry' /\ d = cr3[q]
  BY DEF EntriesBut, MemTypes
<1>2. \A k \in Int : Inside(e, d, 0, k) \notin X \ {0}
  BY <1>1, Reads
<1>3. \A k \in Int : Inside(f, d, 0, k) = Inside(e, d, 0, k)
  <2>1. \A y \in Page \ X : f[y] = e[y]
    BY <1>1 DEF EntriesBut
  <2>2. 0 \in Int
    OBVIOUS
  <2> QED
    BY <1>2, <2>1, <2>2, TreeElsewhere
<1> QED
  BY <1>1, <1>3, Reads, ReadsNext

(* The same for the address space of a call.                                *)
LEMMA WorkKept ==
  ASSUME MemTypes, NEW X, X \subseteq Page, EntriesBut(X), NEW q \in Proc,
         WorkDir(q)' = WorkDir(q), From(q)' = From(q),
         \A k \in Int : Vals["work"][q][k] \notin X
  PROVE  \A k \in Int : Vals'["work"][q][k] = Vals["work"][q][k]
<1>1. PICK e \in Entries, f \in Entries, d \in Page \cup {0}, b \in Int :
        e = entry /\ f = entry' /\ d = WorkDir(q) /\ b = From(q)
  BY WorkTypes DEF EntriesBut
<1>2. \A k \in Int : Inside(e, d, b, k) \notin X \ {0}
  BY <1>1, Reads
<1>3. \A k \in Int : Inside(f, d, b, k) = Inside(e, d, b, k)
  <2>1. \A y \in Page \ X : f[y] = e[y]
    BY <1>1 DEF EntriesBut
  <2> QED
    BY <1>2, <2>1, TreeElsewhere
<1> QED
  BY <1>1, <1>3, Reads, ReadsNext

\* Nothing about q changes.
Quiet(q) ==
  /\ pc'[q] = pc[q] /\ dir'[q] = dir[q] /\ at'[q] = at[q] /\ to'[q] = to[q]
  /\ page'[q] = page[q] /\ other'[q] = other[q] /\ cr3'[q] = cr3[q]
  /\ stack'[q] = stack[q] /\ heap'[q] = heap[q] /\ (q \in starved' <=> q \in starved)

TreesQuiet(q) ==
  \A k \in Int : /\ Vals'["own"][q][k] = Vals["own"][q][k]
                 /\ Vals'["work"][q][k] = Vals["work"][q][k]

(* What a process relies on stays true if its pages and itself are kept.    *)
LEMMA QuietLocal ==
  ASSUME MemInv, NEW q \in Proc, Quiet(q), TreesQuiet(q)
  PROVE  Local(q)'
<1>1. Local(q)
  BY DEF MemInv
<1>2. \A v \in Vpage : PlaceOf(v) \in Int
  BY PlacesOf, Sizes DEF Place
<1>3. Has("own", q)' = Has("own", q) /\ Has("work", q)' = Has("work", q)
  BY <1>2 DEF Has, TreesQuiet
<1>4. LabelsOK(q)'
  BY <1>1 DEF Local, LabelsOK, Quiet
<1>5. WorkOK(q)'
  BY <1>1, <1>3 DEF Local, WorkOK, Quiet
<1>6. q \notin starved' => FedOK(q)'
  BY <1>1, <1>3 DEF Local, FedOK, Quiet
<1> QED
  BY <1>4, <1>5, <1>6 DEF Local

(* They are kept if no table of its own changes.                            *)
LEMMA QuietTrees ==
  ASSUME MemTypes, NEW X, X \subseteq Page, EntriesBut(X), NEW q \in Proc, Quiet(q),
         \A k \in Int : Vals["own"][q][k] \notin X /\ Vals["work"][q][k] \notin X
  PROVE  TreesQuiet(q)
<1>1. WorkDir(q)' = WorkDir(q) /\ From(q)' = From(q)
  BY DEF Quiet, WorkDir, From, Destroying
<1>2. cr3'[q] = cr3[q]
  BY DEF Quiet
<1>3. \A k \in Int : Vals'["own"][q][k] = Vals["own"][q][k]
  BY <1>2, OwnKept
<1>4. \A k \in Int : Vals'["work"][q][k] = Vals["work"][q][k]
  BY <1>1, WorkKept
<1> QED
  BY <1>3, <1>4 DEF TreesQuiet

(* What the forks and the waits of others rely on, when p acts and c is     *)
(* whom it forks or reaps, or p itself.                                     *)
LEMMA KinOthers ==
  ASSUME MemInv, NEW p \in Proc, NEW c \in Proc, pc[p] \notin {"new", "gone"},
         \A q \in Proc \ {p, c} : Quiet(q) /\ TreesQuiet(q),
         c # p => pc[c] \notin Forking \cup Reaping /\ pc'[c] \notin Forking \cup Reaping,
         \A q \in Proc \ {p} : pc[q] \in Forking \cup Reaping => other[q] # c,
         pc'[p] \in Forking => \A q \in Proc \ {p} : pc[q] \in Forking => other[q] # other'[p],
         pc'[p] \in Reaping => \A q \in Proc \ {p} : pc[q] \notin Reaping
  PROVE  \A q \in Proc \ {p} : ForksOK(q)'
<1> SUFFICES ASSUME NEW q \in Proc \ {p}  PROVE ForksOK(q)'
  OBVIOUS
<1>1. CASE q = c
  <2>1. pc'[q] \notin Forking /\ pc'[q] \notin Reaping /\ pc'[q] # "fork_dir"
    BY <1>1 DEF Forking
  <2> QED
    BY <2>1 DEF ForksOK
<1>2. CASE q # c /\ pc[q] \notin Forking \cup Reaping
  <2>1. pc'[q] \notin Forking /\ pc'[q] \notin Reaping /\ pc'[q] # "fork_dir"
    BY <1>2 DEF Forking, Quiet
  <2> QED
    BY <2>1 DEF ForksOK
<1>3. CASE q # c /\ pc[q] \in Forking
  <2>1. PICK o \in Proc : o = other[q]
    BY DEF MemInv, MemTypes
  <2>2. /\ pc[o] = "new" /\ \A k \in Place : Vals["own"][o][k] = 0
        /\ \A r \in Proc \ {q} : pc[r] \in Forking => other[r] # o
        /\ pc[q] = "fork_dir" => cr3[o] = 0 /\ stack[o] # 0
    BY <1>3, <2>1 DEF MemInv, ForksOK
  <2>3. o \notin {p, c} /\ Quiet(o) /\ TreesQuiet(o)
    BY <1>3, <2>1, <2>2
  <2>4. Quiet(q) /\ pc'[q] = pc[q] /\ other'[q] = o
    BY <1>3, <2>1 DEF Quiet
  <2>5. /\ pc'[o] = "new" /\ \A k \in Place : Vals'["own"][o][k] = 0
        /\ pc[q] = "fork_dir" => cr3'[o] = 0 /\ stack'[o] # 0
    BY <2>2, <2>3 DEF Quiet, TreesQuiet, Place
  <2>6. ASSUME NEW r \in Proc \ {q}, pc'[r] \in Forking  PROVE other'[r] # o
    <3>1. CASE r = p
      BY <1>3, <2>1, <2>6, <3>1
    <3>2. CASE r = c /\ r # p
      BY <2>6, <3>2
    <3>3. CASE r \notin {p, c}
      BY <2>2, <2>6, <3>3 DEF Quiet
    <3> QED
      BY <3>1, <3>2, <3>3
  <2>7. pc'[q] \notin Reaping
    BY <1>3, <2>4 DEF Forking, Reaping
  <2> QED
    BY <2>4, <2>5, <2>6, <2>7 DEF ForksOK
<1>4. CASE q # c /\ pc[q] \in Reaping
  <2>1. PICK o \in Proc : o = other[q]
    BY DEF MemInv, MemTypes
  <2>2. pc[o] = "gone" /\ \A r \in Proc \ {q} : pc[r] \notin Reaping
    BY <1>4, <2>1 DEF MemInv, ForksOK
  <2>3. o \notin {p, c} /\ Quiet(o)
    BY <1>4, <2>1, <2>2
  <2>4. Quiet(q) /\ pc'[q] = pc[q] /\ other'[q] = o /\ pc'[o] = "gone"
    BY <1>4, <2>1, <2>2, <2>3 DEF Quiet
  <2>5. ASSUME NEW r \in Proc \ {q}  PROVE pc'[r] \notin Reaping
    <3>1. CASE r = p
      BY <1>4, <3>1
    <3>2. CASE r = c /\ r # p
      BY <3>2
    <3>3. CASE r \notin {p, c}
      BY <2>2, <3>3 DEF Quiet
    <3> QED
      BY <3>1, <3>2, <3>3
  <2>6. pc'[q] \notin Forking /\ pc'[q] # "fork_dir"
    BY <1>4, <2>4 DEF Forking, Reaping
  <2> QED
    BY <2>4, <2>5, <2>6 DEF ForksOK
<1> QED
  BY <1>1, <1>2, <1>3, <1>4

(* A step that changes p only.                                              *)
LEMMA Alone ==
  ASSUME MemInv, NEW p \in Proc, MemTypes', Accounted(Vals', used'), Local(p)',
         \A q \in Proc \ {p} : Quiet(q) /\ TreesQuiet(q), pc[p] \notin {"new", "gone"},
         \/ pc'[p] \notin Forking \cup Reaping
         \/ pc[p] \in Forking /\ pc'[p] \in Forking \ {"fork_dir"} /\ other'[p] = other[p]
         \/ pc[p] \in Reaping /\ pc'[p] \in Reaping /\ other'[p] = other[p]
  PROVE  MemInv'
<1>1. ASSUME NEW q \in Proc \ {p}  PROVE Local(q)'
  BY <1>1, QuietLocal
<1>2. PICK o \in Proc : o = other[p]
  BY DEF MemInv, MemTypes
<1>3. pc[p] \in Forking =>
        /\ pc[o] = "new" /\ \A k \in Place : Vals["own"][o][k] = 0
        /\ \A q \in Proc \ {p} : pc[q] \in Forking => other[q] # o
  BY <1>2 DEF MemInv, ForksOK
<1>4. pc[p] \in Reaping => pc[o] = "gone" /\ \A q \in Proc \ {p} : pc[q] \notin Reaping
  BY <1>2 DEF MemInv, ForksOK
<1>5. \A q \in Proc \ {p} : pc[q] \in Forking \cup Reaping => other[q] # p
  BY DEF MemInv, ForksOK
<1>6. \A q \in Proc \ {p} : ForksOK(q)'
  <2>1. pc'[p] \in Forking => \A q \in Proc \ {p} : pc[q] \in Forking => other[q] # other'[p]
    BY <1>2, <1>3 DEF Forking, Reaping
  <2>2. pc'[p] \in Reaping => \A q \in Proc \ {p} : pc[q] \notin Reaping
    BY <1>4 DEF Forking, Reaping
  <2> QED
    BY <1>5, <2>1, <2>2, KinOthers
<1>7. ForksOK(p)'
  <2>1. CASE pc'[p] \notin Forking \cup Reaping
    BY <2>1 DEF ForksOK, Forking
  <2>2. CASE pc[p] \in Forking /\ pc'[p] \in Forking \ {"fork_dir"} /\ other'[p] = other[p]
    <3>1. o # p /\ Quiet(o) /\ TreesQuiet(o)
      BY <1>3, <2>2
    <3>2. pc'[o] = "new" /\ \A k \in Place : Vals'["own"][o][k] = 0
      BY <1>3, <2>2, <3>1 DEF Quiet, TreesQuiet, Place
    <3>3. \A q \in Proc \ {p} : pc'[q] \in Forking => other'[q] # o
      BY <1>3, <2>2 DEF Quiet
    <3>4. pc'[p] \notin Reaping /\ pc'[p] # "fork_dir"
      BY <2>2 DEF Forking, Reaping
    <3> QED
      BY <1>2, <2>2, <3>2, <3>3, <3>4 DEF ForksOK
  <2>3. CASE pc[p] \in Reaping /\ pc'[p] \in Reaping /\ other'[p] = other[p]
    <3>1. o # p /\ Quiet(o)
      BY <1>4, <2>3
    <3>2. pc'[o] = "gone" /\ \A q \in Proc \ {p} : pc'[q] \notin Reaping
      BY <1>4, <2>3, <3>1 DEF Quiet
    <3>3. pc'[p] \notin Forking /\ pc'[p] # "fork_dir"
      BY <2>3 DEF Forking, Reaping
    <3> QED
      BY <1>2, <2>3, <3>2, <3>3 DEF ForksOK
  <2> QED
    BY <2>1, <2>2, <2>3
<1> QED
  BY <1>1, <1>6, <1>7 DEF MemInv

(* The page that addr_alloc_page finds.                                     *)
LEMMA FreePage ==
  ASSUME used \subseteq Page
  PROVE  FirstFree # 0 => FirstFree \in Page \ used
<1>1. CASE used = Page
  BY <1>1 DEF FirstFree
<1>2. CASE used # Page
  <2>1. Page \ used \in SUBSET Nat /\ Page \ used # {}
    <3>1. NrPage \in Nat
      BY MemoryAssumption
    <3>2. Page \subseteq Nat
      BY <3>1 DEF Page
    <3>3. Page \ used # {}
      BY <1>2
    <3> QED
      BY <3>2, <3>3
  <2>2. \E x \in Page \ used : \A y \in Page \ used : x <= y
    BY <2>1, NatMin
  <2> QED
    BY <1>2, <2>2 DEF FirstFree
<1> QED
  BY <1>1, <1>2

-----------------------------------------------------------------------------
\* What the common parts of the actions do.

Places == NrPde * (NrPte + 1)

(* A directory has more places than virtual pages.                          *)
LEMMA PlacesSize == Places \in Nat /\ StackAt + 1 \in 0..Places
<1>1. PICK n, m \in Nat \ {0} : n = NrPte /\ m = NrPde
  BY Sizes
<1>2. m * (n + 1) = m * n + m /\ m * n \in Nat
  BY <1>1
<1>3. StackAt = m * n - 1 /\ Places = m * (n + 1) /\ StackAt \in Nat
  BY <1>1, Sizes DEF StackAt, Places
<1> QED
  BY <1>2, <1>3

(* A heap ends below the stack.                                             *)
LEMMA HeapPages ==
  ASSUME NEW h \in 0..MaxHeap
  PROVE  UpTo(h) \in 0..StackAt /\ (h > 0 => UpTo(h) > 0)
<1>1. h \in Nat /\ h <= StackAt * PageSize
  <2>1. PICK s, m \in Nat : s = StackAt /\ m = PageSize
    BY Sizes, MemoryAssumption
  <2>2. s * m \in Nat /\ MaxHeap \in 1..(s * m)
    BY <2>1, MemoryAssumption
  <2> QED
    BY <2>1, <2>2
<1> QED
  BY <1>1, UpToFacts, Sizes

(* A change of one label.                                                   *)
LEMMA GotoEffect ==
  ASSUME MemTypes, NEW p \in Proc, NEW l \in Label, Goto(p, l)
  PROVE  /\ pc' \in [Proc -> Label] /\ pc'[p] = l
         /\ \A q \in Proc \ {p} : pc'[q] = pc[q]
BY DEF Goto, MemTypes

(* A change of what one call works on.                                      *)
LEMMA WorkEffect ==
  ASSUME MemTypes, NEW p \in Proc, NEW d \in Page \cup {0}, NEW v \in 0..Places,
         NEW w \in 0..(StackAt + 1), Work(p, d, v, w)
  PROVE  /\ dir' \in [Proc -> Page \cup {0}] /\ page' \in [Proc -> Page \cup {0}]
         /\ at' \in [Proc -> 0..(NrPde * (NrPte + 1))] /\ to' \in [Proc -> 0..(StackAt + 1)]
         /\ dir'[p] = d /\ at'[p] = v /\ to'[p] = w /\ page'[p] = 0
         /\ \A q \in Proc \ {p} :
              dir'[q] = dir[q] /\ at'[q] = at[q] /\ to'[q] = to[q] /\ page'[q] = page[q]
<1>1. /\ dir' \in [Proc -> Page \cup {0}] /\ page' \in [Proc -> Page \cup {0}]
      /\ dir'[p] = d /\ page'[p] = 0
  BY DEF Work, MemTypes
<1>2. at' \in [Proc -> 0..Places] /\ to' \in [Proc -> 0..(StackAt + 1)] /\ at'[p] = v /\ to'[p] = w
  BY DEF Work, MemTypes, Places
<1>3. \A q \in Proc \ {p} :
        dir'[q] = dir[q] /\ at'[q] = at[q] /\ to'[q] = to[q] /\ page'[q] = page[q]
  BY DEF Work, MemTypes
<1> QED
  BY <1>1, <1>2, <1>3 DEF Places

\* The call of p goes on at the label l.
Moves(p, l, d, v, w) ==
  /\ pc' \in [Proc -> Label]
  /\ dir' \in [Proc -> Page \cup {0}] /\ page' \in [Proc -> Page \cup {0}]
  /\ at' \in [Proc -> 0..(NrPde * (NrPte + 1))] /\ to' \in [Proc -> 0..(StackAt + 1)]
  /\ pc'[p] = l /\ dir'[p] = d /\ at'[p] = v /\ to'[p] = w /\ page'[p] = 0
  /\ \A q \in Proc \ {p} :
       /\ pc'[q] = pc[q] /\ dir'[q] = dir[q]
       /\ at'[q] = at[q] /\ to'[q] = to[q] /\ page'[q] = page[q]

(* Both.                                                                    *)
LEMMA MovesOn ==
  ASSUME MemTypes, NEW p \in Proc, NEW l \in Label, NEW d \in Page \cup {0}, NEW v \in 0..Places,
         NEW w \in 0..(StackAt + 1), Goto(p, l), Work(p, d, v, w)
  PROVE  Moves(p, l, d, v, w)
<1>1. pc' \in [Proc -> Label] /\ pc'[p] = l /\ \A q \in Proc \ {p} : pc'[q] = pc[q]
  BY GotoEffect
<1>2. /\ dir' \in [Proc -> Page \cup {0}] /\ page' \in [Proc -> Page \cup {0}]
      /\ at' \in [Proc -> 0..(NrPde * (NrPte + 1))] /\ to' \in [Proc -> 0..(StackAt + 1)]
      /\ dir'[p] = d /\ at'[p] = v /\ to'[p] = w /\ page'[p] = 0
      /\ \A q \in Proc \ {p} :
           dir'[q] = dir[q] /\ at'[q] = at[q] /\ to'[q] = to[q] /\ page'[q] = page[q]
  BY WorkEffect
<1> QED
  BY <1>1, <1>2 DEF Moves

\* What the step of p says of all others.
OthersQuiet(p) == \A q \in Proc \ {p} : Quiet(q)

(* A step that changes no book.                                             *)
LEMMA BooksKept ==
  ASSUME MemInv, MemTypes', NEW p \in Proc, OthersQuiet(p), UNCHANGED <<tables, cr3, stack, lost>>,
         page'[p] = page[p], WorkDir(p)' = WorkDir(p), From(p)' = From(p)
  PROVE  /\ Accounted(Vals', used')
         /\ \A q \in Proc : TreesQuiet(q)
<1>1. MemTypes /\ EntriesBut({}) /\ used' = used
  BY DEF MemInv, MemTypes, EntriesBut, tables
<1>2. ASSUME NEW q \in Proc  PROVE TreesQuiet(q)
  <2>1. CASE q = p
    <3>1. \A k \in Int : Vals'["own"][p][k] = Vals["own"][p][k]
      BY <1>1, OwnKept
    <3>2. \A k \in Int : Vals'["work"][p][k] = Vals["work"][p][k]
      BY <1>1, WorkKept
    <3> QED
      BY <2>1, <3>1, <3>2 DEF TreesQuiet
  <2>2. CASE q # p
    BY <1>1, <2>2, QuietTrees DEF OthersQuiet
  <2> QED
    BY <2>1, <2>2
<1>3. \A q \in Proc : stack'[q] = stack[q] /\ page'[q] = page[q]
  BY DEF OthersQuiet, Quiet
<1>4. ASSUME NEW q \in Proc, NEW k \in Int
      PROVE  /\ Vals'["stack"][q][k] = Vals["stack"][q][k]
             /\ Vals'["page"][q][k] = Vals["page"][q][k]
             /\ Vals'["lost"][q][k] = Vals["lost"][q][k]
  BY <1>3, Reads, ReadsNext
<1>5. \A u \in Use, q \in Proc, k \in Int : Vals'[u][q][k] = Vals[u][q][k]
  BY <1>2, <1>4 DEF Use, TreesQuiet
<1>6. Accounted(Vals', used)
  BY <1>5, Untouched, BooksNext DEF MemInv
<1> QED
  BY <1>1, <1>2, <1>6

(* A step that takes a page for p to hold.                                  *)
LEMMA PageTaken ==
  ASSUME MemInv, MemTypes', NEW p \in Proc, OthersQuiet(p), UNCHANGED <<entry, cr3, stack, lost>>,
         page[p] = 0, page'[p] = FirstFree, FirstFree # 0, used' = used \cup {FirstFree},
         WorkDir(p)' = WorkDir(p), From(p)' = From(p)
  PROVE  /\ Accounted(Vals', used')
         /\ \A q \in Proc : TreesQuiet(q)
<1>1. MemTypes /\ EntriesBut({}) /\ Accounted(Vals, used)
  BY DEF MemInv, MemTypes, EntriesBut
<1>2. ASSUME NEW q \in Proc  PROVE TreesQuiet(q)
  <2>1. CASE q = p
    <3>1. \A k \in Int : Vals'["own"][p][k] = Vals["own"][p][k]
      BY <1>1, OwnKept
    <3>2. \A k \in Int : Vals'["work"][p][k] = Vals["work"][p][k]
      BY <1>1, WorkKept
    <3> QED
      BY <2>1, <3>1, <3>2 DEF TreesQuiet
  <2>2. CASE q # p
    BY <1>1, <2>2, QuietTrees DEF OthersQuiet
  <2> QED
    BY <2>1, <2>2
<1>3. \A q \in Proc : stack'[q] = stack[q] /\ (q # p => page'[q] = page[q])
  BY DEF OthersQuiet, Quiet
<1>4. ASSUME NEW q \in Proc, NEW k \in Int
      PROVE  /\ Vals'["stack"][q][k] = Vals["stack"][q][k]
             /\ ~ (q = p /\ k = 0) => Vals'["page"][q][k] = Vals["page"][q][k]
             /\ Vals'["lost"][q][k] = Vals["lost"][q][k]
  BY <1>3, Reads, ReadsNext
<1>5. OnlyAt(Vals, Vals', "page", p, 0)
  BY <1>2, <1>4 DEF Use, TreesQuiet, OnlyAt
<1>6. Vals["page"][p][0] = 0 /\ Vals'["page"][p][0] = FirstFree
  BY Reads, ReadsNext
<1>7. PICK x : x = FirstFree
  OBVIOUS
<1>8. x \in Page \ used
  BY <1>1, <1>7, FreePage DEF MemTypes
<1>9. PICK V, W, U : V = Vals /\ W = Vals' /\ U = used
  OBVIOUS
<1>10. Accounted(W, U \cup {x})
  <2>1. Accounted(V, U) /\ W \in Books /\ x \in Page \ U /\ OnlyAt(V, W, "page", p, 0)
    BY <1>1, <1>5, <1>8, <1>9, BooksNext
  <2>2. V["page"][p][0] = 0 /\ W["page"][p][0] = x /\ "page" \in Use /\ 0 \in Int
    BY <1>6, <1>7, <1>9 DEF Use
  <2> QED
    BY <2>1, <2>2, Taken
<1> QED
  BY <1>2, <1>7, <1>9, <1>10

\* The mapped pages of a process, when its trees are kept.
LEMMA HasKept ==
  ASSUME NEW p \in Proc, TreesQuiet(p)
  PROVE  Has("own", p)' = Has("own", p) /\ Has("work", p)' = Has("work", p)
<1>1. \A v \in Vpage : PlaceOf(v) \in Int
  BY PlacesOf, Sizes DEF Place
<1> QED
  BY <1>1 DEF Has, TreesQuiet

(* sys_sbrk: the pages up to the old heap_end are there, those up to the    *)
(* new one are to be mapped.                                                *)
LEMMA SbrkInv ==
  ASSUME MemInv, NEW p \in Proc, NEW incr \in Incr, sys_sbrk(p, incr)
  PROVE  MemInv'
<1>1. /\ MemTypes /\ Local(p) /\ pc[p] = "user" /\ heap[p] > 0 /\ heap[p] + incr <= MaxHeap
      /\ heap' = [heap EXCEPT ![p] = heap[p] + incr] /\ UNCHANGED <<tables, cr3, stack, ghosts>>
  BY DEF sys_sbrk, MemInv
<1>2. /\ dir[p] = 0 /\ page[p] = 0 /\ cr3[p] \in Page /\ incr \in Nat /\ incr > 0
      /\ heap[p] \in 0..MaxHeap /\ MaxHeap \in Nat
  <2>1. dir[p] = 0 /\ page[p] = 0 /\ cr3[p] # 0
    BY <1>1 DEF Local, LabelsOK, Resting, Running
  <2>2. MaxHeap \in Nat /\ incr \in Nat \ {0}
    <3>1. PICK m \in Nat : m = StackAt * PageSize
      BY Sizes, MemoryAssumption
    <3> QED
      BY <3>1, MemoryAssumption
  <2> QED
    BY <1>1, <2>1, <2>2 DEF MemTypes
<1>3. PICK h : h = heap[p] + incr
  OBVIOUS
<1>4. /\ h \in 0..MaxHeap /\ h > 0 /\ heap[p] <= h /\ h \in Nat /\ heap[p] \in Nat
      /\ heap' \in [Proc -> 0..MaxHeap] /\ heap'[p] = h
      /\ \A q \in Proc \ {p} : heap'[q] = heap[q]
  BY <1>1, <1>2, <1>3 DEF MemTypes
<1>5. PICK a, b \in 0..StackAt : a = UpTo(heap[p]) /\ b = UpTo(h) /\ a <= b
  <2>1. UpTo(heap[p]) \in 0..StackAt /\ UpTo(h) \in 0..StackAt
    BY <1>2, <1>4, HeapPages
  <2>2. UpTo(heap[p]) <= UpTo(h)
    BY <1>4, UpToFacts
  <2> QED
    BY <2>1, <2>2
<1>6. p \notin starved => Has("own", p) = 0..(a - 1) \cup {StackAt}
  BY <1>1, <1>5 DEF Local, FedOK, Settled
<1>7. CASE a = b
  <2>1. UNCHANGED calls
    BY <1>3, <1>5, <1>7 DEF sys_sbrk
  <2>2. MemTypes'
    BY <1>1, <1>4, <2>1 DEF MemTypes, calls, tables, ghosts
  <2>3. OthersQuiet(p) /\ page'[p] = page[p] /\ WorkDir(p)' = WorkDir(p) /\ From(p)' = From(p)
    BY <1>1, <1>4, <2>1 DEF OthersQuiet, Quiet, calls, WorkDir, From, Destroying, ghosts
  <2>4. Accounted(Vals', used') /\ \A q \in Proc : TreesQuiet(q)
    BY <1>1, <2>2, <2>3, BooksKept DEF ghosts
  <2>5. Has("own", p)' = Has("own", p)
    BY <2>4, HasKept
  <2>6. pc'[p] = "user" /\ starved' = starved
    BY <1>1, <2>1 DEF calls, ghosts
  <2>7. LabelsOK(p)' /\ WorkOK(p)'
    BY <1>1, <2>1, <2>6 DEF Local, LabelsOK, WorkOK, calls, Resting, Beside, Label, Running, Loading, Forking, Reaping
  <2>8. p \notin starved' => FedOK(p)'
    BY <1>4, <1>5, <1>6, <1>7, <2>5, <2>6 DEF FedOK
  <2> QED
    BY <1>1, <2>2, <2>3, <2>4, <2>6, <2>7, <2>8, Alone DEF Local, OthersQuiet, Forking, Reaping
<1>8. CASE a # b
  <2>1. Goto(p, "sbrk") /\ Work(p, cr3[p], a, b) /\ UNCHANGED other
    BY <1>3, <1>5, <1>8 DEF sys_sbrk, BeginAlloc
  <2>2. "sbrk" \in Label /\ a \in 0..Places /\ b \in 0..(StackAt + 1)
    BY <1>5, PlacesSize, Sizes DEF Label
  <2>3. Moves(p, "sbrk", cr3[p], a, b)
    BY <1>1, <1>2, <2>1, <2>2, MovesOn
  <2>4. pc'[p] = "sbrk" /\ dir'[p] = cr3[p] /\ at'[p] = a /\ to'[p] = b /\ page'[p] = 0
    BY <2>3 DEF Moves
  <2>5. MemTypes'
    BY <1>1, <1>4, <2>1, <2>3 DEF MemTypes, Moves, tables, ghosts
  <2>6. OthersQuiet(p)
    BY <1>1, <1>4, <2>1, <2>3 DEF OthersQuiet, Quiet, Moves, ghosts
  <2>7. page'[p] = page[p] /\ WorkDir(p)' = WorkDir(p) /\ From(p)' = From(p)
    BY <1>1, <1>2, <2>4 DEF WorkDir, From, Destroying
  <2>8. Accounted(Vals', used') /\ \A q \in Proc : TreesQuiet(q)
    BY <1>1, <2>5, <2>6, <2>7, BooksKept DEF ghosts
  <2>9. Has("own", p)' = Has("own", p)
    BY <2>8, HasKept
  <2>10. LabelsOK(p)'
    <3>1. pc'[p] = "sbrk" /\ cr3'[p] = cr3[p] /\ cr3[p] # 0 /\ dir'[p] = cr3'[p] /\ page'[p] = 0
      BY <1>1, <1>2, <2>4, Sizes
    <3> QED
      BY <3>1 DEF LabelsOK, Resting, Beside, Label, Running, Loading, Forking, Reaping
  <2>11. WorkOK(p)'
    BY <1>5, <1>8, <2>4, Sizes DEF WorkOK
  <2>12. p \notin starved' => FedOK(p)'
    BY <1>1, <1>4, <1>5, <1>6, <2>4, <2>9 DEF FedOK, Settled, Forking, Reaping, ghosts
  <2> QED
    BY <1>1, <2>4, <2>5, <2>6, <2>8, <2>10, <2>11, <2>12, Alone DEF Local, OthersQuiet, Forking, Reaping
<1> QED
  BY <1>7, <1>8

(* load_elf_file fails: the new directory is destroyed, the old one kept.   *)
LEMMA LoadFailsInv ==
  ASSUME MemInv, NEW p \in Proc, LoadFails(p)
  PROVE  MemInv'
<1>1. /\ MemTypes /\ Local(p) /\ pc[p] = "load" /\ UNCHANGED <<tables, space, ghosts>>
      /\ Goto(p, "undo") /\ Work(p, dir[p], 0, 0) /\ UNCHANGED other
  BY DEF LoadFails, BeginDestroy, MemInv
<1>2. dir[p] # 0 /\ dir[p] # cr3[p] /\ page[p] = 0 /\ cr3[p] # 0 /\ dir[p] \in Page \cup {0}
  BY <1>1 DEF Local, LabelsOK, Beside, Loading, Running, MemTypes
<1>3. Moves(p, "undo", dir[p], 0, 0)
  BY <1>1, <1>2, MovesOn, PlacesSize, Sizes DEF Label, Beside
<1>4. pc'[p] = "undo" /\ dir'[p] = dir[p] /\ at'[p] = 0 /\ page'[p] = 0
  BY <1>3 DEF Moves
<1>5. MemTypes'
  BY <1>1, <1>3 DEF MemTypes, Moves, tables, ghosts, space
<1>6. OthersQuiet(p)
  BY <1>1, <1>3 DEF OthersQuiet, Quiet, Moves, ghosts, space
<1>7. page'[p] = page[p] /\ WorkDir(p)' = WorkDir(p) /\ From(p)' = From(p)
  BY <1>1, <1>2, <1>4 DEF WorkDir, From, Destroying, space
<1>8. Accounted(Vals', used') /\ \A q \in Proc : TreesQuiet(q)
  BY <1>1, <1>5, <1>6, <1>7, BooksKept DEF ghosts, space
<1>9. Has("own", p)' = Has("own", p)
  BY <1>8, HasKept
<1>10. LabelsOK(p)' /\ WorkOK(p)'
  <2>1. cr3'[p] = cr3[p] /\ heap'[p] = heap[p]
    BY <1>1 DEF space
  <2> QED
    BY <1>2, <1>4, <2>1 DEF LabelsOK, WorkOK, Resting, Beside, Label, Running, Loading, Forking, Reaping
<1>11. p \notin starved' => FedOK(p)'
  BY <1>1, <1>4, <1>9 DEF Local, FedOK, Settled, Forking, Reaping, ghosts, space
<1> QED
  BY <1>1, <1>4, <1>5, <1>6, <1>8, <1>10, <1>11, Alone DEF Local, OthersQuiet, Forking, Reaping

(* load_phdr: the pages of the image are to be mapped, from none on.        *)
LEMMA LoadInv ==
  ASSUME MemInv, NEW p \in Proc, NEW size \in ImageSize, load_phdr(p, size)
  PROVE  MemInv'
<1>1. /\ MemTypes /\ Local(p) /\ pc[p] = "load" /\ UNCHANGED <<tables, space, ghosts>>
      /\ Goto(p, "image") /\ Work(p, dir[p], 0, UpTo(size)) /\ UNCHANGED other
  BY DEF load_phdr, BeginAlloc, MemInv
<1>2. dir[p] # 0 /\ dir[p] # cr3[p] /\ page[p] = 0 /\ cr3[p] # 0 /\ dir[p] \in Page \cup {0}
  BY <1>1 DEF Local, LabelsOK, Beside, Loading, Running, MemTypes
<1>3. PICK w \in 0..(StackAt + 1) : w = UpTo(size) /\ 0 < w /\ w <= StackAt
  <2>1. size \in 0..MaxHeap /\ size > 0
    <3>1. PICK m \in Nat : m = StackAt * PageSize
      BY Sizes, MemoryAssumption
    <3>2. MaxHeap \in Nat /\ size \in 1..MaxHeap
      BY <3>1, MemoryAssumption
    <3> QED
      BY <3>2
  <2>2. UpTo(size) \in 0..StackAt /\ UpTo(size) > 0
    BY <2>1, HeapPages
  <2> QED
    BY <2>2, Sizes
<1>4. Moves(p, "image", dir[p], 0, w)
  BY <1>1, <1>2, <1>3, MovesOn, PlacesSize DEF Label, Beside, Loading
<1>5. pc'[p] = "image" /\ dir'[p] = dir[p] /\ at'[p] = 0 /\ to'[p] = w /\ page'[p] = 0
  BY <1>4 DEF Moves
<1>6. MemTypes'
  BY <1>1, <1>4 DEF MemTypes, Moves, tables, ghosts, space
<1>7. OthersQuiet(p)
  BY <1>1, <1>4 DEF OthersQuiet, Quiet, Moves, ghosts, space
<1>8. page'[p] = page[p] /\ WorkDir(p)' = WorkDir(p) /\ From(p)' = From(p)
  BY <1>1, <1>2, <1>5 DEF WorkDir, From, Destroying, space
<1>9. Accounted(Vals', used') /\ \A q \in Proc : TreesQuiet(q)
  BY <1>1, <1>6, <1>7, <1>8, BooksKept DEF ghosts, space
<1>10. Has("own", p)' = Has("own", p) /\ Has("work", p)' = Has("work", p)
  BY <1>9, HasKept
<1>11. LabelsOK(p)' /\ WorkOK(p)'
  <2>1. cr3'[p] = cr3[p] /\ heap'[p] = heap[p]
    BY <1>1 DEF space
  <2> QED
    BY <1>2, <1>3, <1>5, <2>1 DEF LabelsOK, WorkOK, Resting, Beside, Label, Running, Loading, Forking, Reaping
<1>12. p \notin starved' => FedOK(p)'
  <2>1. 0..(0 - 1) = {}
    OBVIOUS
  <2> QED
    BY <1>1, <1>5, <1>10, <2>1 DEF Local, FedOK, Settled, Forking, Reaping, ghosts, space
<1> QED
  BY <1>1, <1>5, <1>6, <1>7, <1>9, <1>11, <1>12, Alone DEF Local, OthersQuiet, Forking, Reaping

(* A zombie keeps its address space.                                        *)
LEMMA ExitInv ==
  ASSUME MemInv, NEW p \in Proc, Exit(p)
  PROVE  MemInv'
<1>1. /\ MemTypes /\ Local(p) /\ pc[p] = "user" /\ Goto(p, "zombie")
      /\ UNCHANGED <<tables, space, dir, at, to, page, other, ghosts>>
  BY DEF Exit, MemInv
<1>2. pc' \in [Proc -> Label] /\ pc'[p] = "zombie" /\ \A q \in Proc \ {p} : pc'[q] = pc[q]
  BY <1>1, GotoEffect DEF Label, Resting
<1>3. MemTypes'
  BY <1>1, <1>2 DEF MemTypes, tables, ghosts, space
<1>4. OthersQuiet(p)
  BY <1>1, <1>2 DEF OthersQuiet, Quiet, ghosts, space
<1>5. page'[p] = page[p] /\ WorkDir(p)' = WorkDir(p) /\ From(p)' = From(p)
  BY <1>1, <1>2 DEF WorkDir, From, Destroying, space
<1>6. Accounted(Vals', used') /\ \A q \in Proc : TreesQuiet(q)
  BY <1>1, <1>3, <1>4, <1>5, BooksKept DEF ghosts, space
<1>7. Has("own", p)' = Has("own", p)
  BY <1>6, HasKept
<1>8. LabelsOK(p)' /\ WorkOK(p)'
  <2>1. cr3'[p] = cr3[p] /\ heap'[p] = heap[p] /\ dir'[p] = dir[p] /\ page'[p] = page[p]
    BY <1>1 DEF space
  <2>2. cr3[p] # 0 /\ dir[p] = 0 /\ page[p] = 0
    BY <1>1 DEF Local, LabelsOK, Resting, Running
  <2> QED
    BY <1>2, <2>1, <2>2 DEF LabelsOK, WorkOK, Resting, Beside, Label, Running, Loading, Forking, Reaping
<1>9. p \notin starved' => FedOK(p)'
  BY <1>1, <1>2, <1>7 DEF Local, FedOK, Settled, Forking, Reaping, ghosts, space
<1> QED
  BY <1>1, <1>2, <1>3, <1>4, <1>6, <1>8, <1>9, Alone DEF Local, OthersQuiet, Forking, Reaping

(* sbrk with a heap_end of 0 takes a page and fails the assertion.          *)
LEMMA SbrkBelowInv ==
  ASSUME MemInv, NEW p \in Proc, SbrkBelow(p)
  PROVE  MemInv'
<1>1. /\ MemTypes /\ Local(p) /\ pc[p] = "user" /\ heap[p] = 0 /\ FirstFree # 0 /\ Goto(p, "panic")
      /\ used' = used \cup {FirstFree} /\ page' = [page EXCEPT ![p] = FirstFree]
      /\ UNCHANGED <<entry, space, dir, at, to, other, ghosts>>
  BY DEF SbrkBelow, MemInv, addr_alloc_page
<1>2. pc' \in [Proc -> Label] /\ pc'[p] = "panic" /\ \A q \in Proc \ {p} : pc'[q] = pc[q]
  BY <1>1, GotoEffect DEF Label
<1>3. FirstFree \in Page \ used
  BY <1>1, FreePage DEF MemTypes
<1>4. /\ page' \in [Proc -> Page \cup {0}] /\ page'[p] = FirstFree
      /\ \A q \in Proc \ {p} : page'[q] = page[q]
  BY <1>1, <1>3 DEF MemTypes
<1>5. MemTypes'
  BY <1>1, <1>2, <1>3, <1>4 DEF MemTypes, ghosts, space
<1>6. OthersQuiet(p)
  BY <1>1, <1>2, <1>4 DEF OthersQuiet, Quiet, ghosts, space
<1>7. page[p] = 0 /\ WorkDir(p)' = WorkDir(p) /\ From(p)' = From(p)
  BY <1>1, <1>2 DEF WorkDir, From, Destroying, space, Local, LabelsOK, Resting
<1>8. Accounted(Vals', used') /\ \A q \in Proc : TreesQuiet(q)
  BY <1>1, <1>4, <1>5, <1>6, <1>7, PageTaken DEF ghosts, space
<1>9. LabelsOK(p)' /\ WorkOK(p)'
  BY <1>2 DEF LabelsOK, WorkOK, Resting, Beside, Label, Running, Loading, Forking, Reaping
<1>10. FedOK(p)'
  BY <1>1, <1>2 DEF FedOK, Settled, Forking, Reaping, space
<1> QED
  BY <1>1, <1>2, <1>5, <1>6, <1>8, <1>9, <1>10, Alone DEF Local, OthersQuiet, Forking, Reaping

-----------------------------------------------------------------------------
\* memory_alloc_for_page_dir and what its callers do after it.

\* The call of p goes on after the loop: back to the program, on to the stack
\* of a new program, or to give back a directory.
Continues(p) ==
  /\ pc' \in [Proc -> Label]
  /\ dir' \in [Proc -> Page \cup {0}] /\ page' \in [Proc -> Page \cup {0}]
  /\ at' \in [Proc -> 0..(NrPde * (NrPte + 1))] /\ to' \in [Proc -> 0..(StackAt + 1)]
  /\ cr3' \in [Proc -> Page \cup {0}] /\ heap' \in [Proc -> 0..MaxHeap]
  /\ other' \in [Proc -> Proc]
  /\ pc'[p] \in {"user", "stack", "undo"} /\ page'[p] = 0 /\ From(p)' = 0
  /\ \A q \in Proc \ {p} :
       /\ pc'[q] = pc[q] /\ dir'[q] = dir[q] /\ at'[q] = at[q] /\ to'[q] = to[q]
       /\ page'[q] = page[q] /\ cr3'[q] = cr3[q] /\ heap'[q] = heap[q] /\ other'[q] = other[q]

(* In the loop of memory_alloc_for_page_dir.                                *)
LEMMA AllocatingFacts ==
  ASSUME MemInv, NEW p \in Proc, Allocating(p)
  PROVE  /\ MemTypes /\ Local(p) /\ pc[p] \in {"sbrk", "image", "stack"}
         /\ cr3[p] # 0 /\ dir[p] # 0 /\ dir[p] \in Page /\ cr3[p] \in Page
         /\ (pc[p] = "sbrk" => dir[p] = cr3[p]) /\ (pc[p] # "sbrk" => dir[p] # cr3[p])
         /\ at[p] \in Vpage /\ at[p] < to[p] /\ From(p) = 0
<1>1. MemTypes /\ Local(p) /\ pc[p] \in {"sbrk", "image", "stack"} /\ From(p) = 0
  BY DEF MemInv, Allocating, From, Destroying
<1>2. /\ cr3[p] # 0 /\ dir[p] # 0
      /\ (pc[p] = "sbrk" => dir[p] = cr3[p]) /\ (pc[p] # "sbrk" => dir[p] # cr3[p])
  BY <1>1 DEF Local, LabelsOK, Running, Loading, Beside
<1>3. at[p] \in Vpage /\ at[p] < to[p]
  <2>1. PICK a, b \in Nat : a = at[p] /\ b = to[p]
    BY <1>1, PlacesSize, Sizes DEF MemTypes, Places
  <2>2. a < b /\ b <= StackAt + 1
    BY <1>1, <2>1, Sizes DEF Local, WorkOK
  <2> QED
    BY <2>1, <2>2, Sizes
<1> QED
  BY <1>1, <1>2, <1>3 DEF MemTypes

(* When the call ends without a new address space.                          *)
LEMMA AfterAllocSame ==
  ASSUME MemInv, NEW p \in Proc, Allocating(p), NEW ok \in BOOLEAN, AfterAlloc(p, ok),
         pc[p] # "stack" \/ ~ ok
  PROVE  /\ Continues(p) /\ cr3' = cr3 /\ WorkDir(p)' = WorkDir(p)
         /\ LabelsOK(p)' /\ WorkOK(p)'
         /\ \/ pc[p] = "sbrk" /\ pc'[p] = "user" /\ heap' = heap
            \/ /\ pc[p] = "image" /\ pc'[p] = "stack"
               /\ heap'[p] > 0 /\ UpTo(heap'[p]) = to[p]
            \/ pc[p] # "sbrk" /\ pc'[p] = "undo" /\ heap' = heap
<1>1. /\ MemTypes /\ pc[p] \in {"sbrk", "image", "stack"}
      /\ cr3[p] # 0 /\ dir[p] # 0 /\ dir[p] \in Page /\ cr3[p] \in Page
      /\ (pc[p] = "sbrk" => dir[p] = cr3[p]) /\ (pc[p] # "sbrk" => dir[p] # cr3[p])
  BY AllocatingFacts
<1>2. cr3' = cr3
  BY <1>1 DEF AfterAlloc, StackReady
<1>3. CASE pc[p] = "sbrk"
  <2>1. /\ Goto(p, "user") /\ Work(p, 0, 0, 0)
        /\ other' = [other EXCEPT ![p] = p] /\ heap' = heap
    BY <1>3 DEF AfterAlloc, Return
  <2>2. Moves(p, "user", 0, 0, 0)
    BY <1>1, <2>1, MovesOn, PlacesSize, Sizes DEF Label, Resting
  <2>3. pc'[p] = "user" /\ dir'[p] = 0 /\ page'[p] = 0
    BY <2>2 DEF Moves
  <2>4. From(p)' = 0 /\ WorkDir(p)' = WorkDir(p)
    BY <1>1, <1>2, <1>3, <2>3 DEF From, Destroying, WorkDir
  <2>5. other' \in [Proc -> Proc] /\ \A q \in Proc \ {p} : other'[q] = other[q]
    BY <1>1, <2>1 DEF MemTypes
  <2>6. Continues(p)
    BY <1>1, <1>2, <2>1, <2>2, <2>4, <2>5 DEF Continues, Moves, MemTypes
  <2>7. LabelsOK(p)' /\ WorkOK(p)'
    BY <1>1, <1>2, <2>3 DEF LabelsOK, WorkOK, Resting, Beside, Label, Running, Loading, Forking, Reaping
  <2> QED
    BY <1>2, <1>3, <2>1, <2>3, <2>4, <2>6, <2>7
<1>4. ASSUME pc[p] # "sbrk", BeginDestroy(p, dir[p], "undo"), heap' = heap
      PROVE  /\ Continues(p) /\ WorkDir(p)' = WorkDir(p) /\ LabelsOK(p)' /\ WorkOK(p)'
             /\ pc'[p] = "undo"
  <2>1. Goto(p, "undo") /\ Work(p, dir[p], 0, 0) /\ other' = other
    BY <1>4 DEF BeginDestroy
  <2>2. Moves(p, "undo", dir[p], 0, 0)
    BY <1>1, <2>1, MovesOn, PlacesSize, Sizes DEF Label, Beside
  <2>3. pc'[p] = "undo" /\ dir'[p] = dir[p] /\ page'[p] = 0 /\ at'[p] = 0
    BY <2>2 DEF Moves
  <2>4. From(p)' = 0 /\ WorkDir(p)' = WorkDir(p)
    BY <1>2, <2>3 DEF From, WorkDir
  <2>5. Continues(p)
    BY <1>1, <1>2, <1>4, <2>1, <2>2, <2>4 DEF Continues, Moves, MemTypes
  <2>6. LabelsOK(p)' /\ WorkOK(p)'
    BY <1>1, <1>2, <1>4, <2>3 DEF LabelsOK, WorkOK, Resting, Beside, Label, Running, Loading, Forking, Reaping
  <2> QED
    BY <2>3, <2>4, <2>5, <2>6
<1>5. ASSUME pc[p] = "image", NEW size \in ImageSize, UpTo(size) = to[p],
             heap' = [heap EXCEPT ![p] = size], BeginAlloc(p, dir[p], StackAt, StackAt + 1, "stack")
      PROVE  /\ Continues(p) /\ WorkDir(p)' = WorkDir(p) /\ LabelsOK(p)' /\ WorkOK(p)'
             /\ pc'[p] = "stack" /\ heap'[p] > 0 /\ UpTo(heap'[p]) = to[p]
  <2>1. Goto(p, "stack") /\ Work(p, dir[p], StackAt, StackAt + 1) /\ other' = other
    BY <1>5 DEF BeginAlloc
  <2>2. StackAt \in 0..Places /\ StackAt + 1 \in 0..(StackAt + 1)
    BY PlacesSize, Sizes
  <2>3. Moves(p, "stack", dir[p], StackAt, StackAt + 1)
    BY <1>1, <2>1, <2>2, MovesOn DEF Label, Beside, Loading
  <2>4. /\ pc'[p] = "stack" /\ dir'[p] = dir[p] /\ page'[p] = 0
        /\ at'[p] = StackAt /\ to'[p] = StackAt + 1
    BY <2>3 DEF Moves
  <2>5. From(p)' = 0 /\ WorkDir(p)' = WorkDir(p)
    BY <1>2, <2>4 DEF From, WorkDir, Destroying
  <2>6. size \in 0..MaxHeap /\ size > 0
    <3>1. PICK m \in Nat : m = StackAt * PageSize
      BY Sizes, MemoryAssumption
    <3>2. MaxHeap \in Nat /\ size \in 1..MaxHeap
      BY <3>1, MemoryAssumption
    <3> QED
      BY <3>2
  <2>7. /\ heap' \in [Proc -> 0..MaxHeap] /\ heap'[p] = size
        /\ \A q \in Proc \ {p} : heap'[q] = heap[q]
    BY <1>1, <1>5, <2>6 DEF MemTypes
  <2>8. Continues(p)
    BY <1>1, <1>2, <2>1, <2>3, <2>5, <2>7 DEF Continues, Moves, MemTypes
  <2>9. LabelsOK(p)' /\ WorkOK(p)'
    BY <1>1, <1>2, <1>5, <2>4 DEF LabelsOK, WorkOK, Resting, Beside, Label, Running, Loading, Forking, Reaping
  <2> QED
    BY <1>5, <2>4, <2>5, <2>6, <2>7, <2>8, <2>9
<1>6. CASE pc[p] = "image"
  <2>1. ImageRead(p)
    BY <1>6 DEF AfterAlloc
  <2> QED
    BY <1>2, <1>4, <1>5, <1>6, <2>1 DEF ImageRead
<1>7. CASE pc[p] = "stack"
  <2>1. ~ ok /\ StackReady(p, ok) /\ heap' = heap
    BY <1>7 DEF AfterAlloc
  <2> QED
    BY <1>2, <1>4, <1>7, <2>1 DEF StackReady
<1> QED
  BY <1>1, <1>3, <1>6, <1>7

(* The loop takes a page, or there is none.                                 *)
LEMMA AllocPageInv ==
  ASSUME MemInv, NEW p \in Proc, AllocPage(p)
  PROVE  MemInv'
<1>1. Allocating(p) /\ page[p] = 0 /\ addr_alloc_page /\ UNCHANGED <<entry, stack, lost>>
  BY DEF AllocPage
<1>2. /\ MemTypes /\ Local(p) /\ pc[p] \in {"sbrk", "image", "stack"} /\ From(p) = 0
  BY <1>1, AllocatingFacts
<1>3. CASE FirstFree = 0
  <2>1. AfterAlloc(p, FALSE) /\ starved' = starved \cup {p} /\ used' = used
    BY <1>1, <1>3 DEF AllocPage, Starve, addr_alloc_page
  <2>2. Continues(p) /\ cr3' = cr3 /\ WorkDir(p)' = WorkDir(p) /\ LabelsOK(p)' /\ WorkOK(p)'
    BY <1>1, <2>1, AfterAllocSame
  <2>3. MemTypes'
    BY <1>1, <1>2, <2>1, <2>2 DEF MemTypes, Continues
  <2>4. OthersQuiet(p)
    BY <1>1, <2>1, <2>2 DEF Continues, OthersQuiet, Quiet
  <2>5. page'[p] = page[p] /\ From(p)' = From(p)
    BY <1>1, <1>2, <2>2 DEF Continues
  <2>6. Accounted(Vals', used') /\ \A q \in Proc : TreesQuiet(q)
    BY <1>1, <2>1, <2>2, <2>3, <2>4, <2>5, BooksKept DEF tables
  <2>7. p \in starved' /\ pc'[p] \in {"user", "stack", "undo"}
    BY <2>1, <2>2 DEF Continues
  <2> QED
    BY <1>2, <2>2, <2>3, <2>4, <2>6, <2>7, Alone DEF Local, OthersQuiet, Forking, Reaping
<1>4. CASE FirstFree # 0
  <2>1. /\ page' = [page EXCEPT ![p] = FirstFree] /\ used' = used \cup {FirstFree}
        /\ UNCHANGED <<pc, dir, at, to, other, cr3, heap, starved>>
    BY <1>1, <1>4 DEF AllocPage, addr_alloc_page
  <2>2. FirstFree \in Page \ used
    BY <1>2, <1>4, FreePage DEF MemTypes
  <2>3. /\ page' \in [Proc -> Page \cup {0}] /\ page'[p] = FirstFree
        /\ \A q \in Proc \ {p} : page'[q] = page[q]
    BY <1>2, <2>1, <2>2 DEF MemTypes
  <2>4. MemTypes'
    BY <1>1, <1>2, <2>1, <2>2, <2>3 DEF MemTypes
  <2>5. OthersQuiet(p)
    BY <1>1, <2>1, <2>3 DEF OthersQuiet, Quiet
  <2>6. WorkDir(p)' = WorkDir(p) /\ From(p)' = From(p)
    BY <2>1 DEF WorkDir, From, Destroying
  <2>7. Accounted(Vals', used') /\ \A q \in Proc : TreesQuiet(q)
    BY <1>1, <1>4, <2>1, <2>3, <2>4, <2>5, <2>6, PageTaken
  <2>8. Has("own", p)' = Has("own", p) /\ Has("work", p)' = Has("work", p)
    BY <2>7, HasKept
  <2>9. LabelsOK(p)' /\ WorkOK(p)'
    BY <1>2, <2>1 DEF Local, LabelsOK, WorkOK, Resting, Beside, Label, Running, Loading, Forking, Reaping
  <2>10. p \notin starved' => FedOK(p)'
    BY <1>2, <2>1, <2>8 DEF Local, FedOK
  <2> QED
    BY <1>2, <2>1, <2>4, <2>5, <2>7, <2>9, <2>10, Alone DEF Local, OthersQuiet, Forking, Reaping
<1> QED
  BY <1>3, <1>4

-----------------------------------------------------------------------------
\* A page goes into a tree.

(* A free page is in no place.                                              *)
LEMMA FreeIsNowhere ==
  ASSUME MemInv, NEW x \in Page \ used
  PROVE  \A u \in Use, p \in Proc, k \in Int : Vals[u][p][k] # x
BY Sizes DEF MemInv, Accounted

(* A page is in one place.                                                  *)
LEMMA OnlyPlace ==
  ASSUME MemInv, NEW u \in Use, NEW p \in Proc, NEW k \in Int, Vals[u][p][k] # 0
  PROVE  /\ Vals[u][p][k] \in used
         /\ \A w \in Use, q \in Proc, j \in Int :
              Vals[w][q][j] = Vals[u][p][k] => w = u /\ q = p /\ j = k
BY DEF MemInv, Accounted

(* What memory_create_map does to the tables.                               *)
LEMMA MapEffect ==
  ASSUME MemInv, NEW u \in Use, NEW p \in Proc, NEW d \in Page, NEW v \in Vpage, NEW x \in Page,
         \A k \in Int : Vals[u][p][k] = Inside(entry, d, 0, k),
         ~ MapFails(d, v), memory_create_map(d, v, x)
  PROVE  \E t \in Page, X \in SUBSET Page :
           /\ EntriesBut(X)
           /\ \A w \in Use, q \in Proc, k \in Int : Vals[w][q][k] \in X => w = u /\ q = p
           /\ \A k \in Int : Inside(entry', d, 0, k) =
                               IF k = PlaceOf(v) THEN x ELSE IF k = TableOf(v) THEN t
                               ELSE Vals[u][p][k]
           /\ \/ Vals[u][p][TableOf(v)] = 0 /\ t \notin used /\ used' = used \cup {t}
              \/ Vals[u][p][TableOf(v)] = t /\ used' = used
<1>1. PICK e \in Entries : e = entry
  BY DEF MemInv, MemTypes
<1>2. /\ Table(e, d, v) = Inside(e, d, 0, TableOf(v)) /\ Table(e, d, v) \in Page \cup {0}
      /\ TableOf(v) \in Place /\ PlaceOf(v) # TableOf(v) /\ Place \subseteq Int
      /\ v % NrPte \in Index
  <2>1. Place \subseteq Int
    BY DEF Place
  <2>2. TableOf(v) \in Place /\ PlaceOf(v) # TableOf(v)
    BY PlacesOf
  <2>3. Table(e, d, v) = Inside(e, d, 0, TableOf(v)) /\ Table(e, d, v) \in Page \cup {0}
    BY FrameIsInside
  <2>4. v % NrPte \in Index
    <3>1. PICK i, j : At(v, i, j)
      BY VpageParts
    <3> QED
      BY <3>1, AtFacts DEF At
  <2> QED
    BY <2>1, <2>2, <2>3, <2>4
<1>3. /\ Vals[u][p][-1] = d /\ -1 \notin Place
      /\ \A w \in Use, q \in Proc, j \in Int : Vals[w][q][j] = d => w = u /\ q = p /\ j = -1
  <2>1. Inside(e, d, 0, -1) = d /\ -1 \notin Place /\ -1 \in Int /\ d # 0
    BY Sizes DEF Inside, Place
  <2>2. Vals[u][p][-1] = d
    BY <1>1, <2>1
  <2> QED
    BY <2>1, <2>2, OnlyPlace
<1>4. \A k \in Place : Inside(e, d, 0, k) # d
  BY <1>1, <1>2, <1>3
<1>5. CASE NeedsTable(d, v)
  <2>1. PICK t : t = FirstFree
    OBVIOUS
  <2>2. t \in Page \ used
    BY <1>5, <2>1, FreePage DEF MapFails, MemInv, MemTypes
  <2>3. Table(e, d, v) = 0 /\ \A k \in Int : Inside(e, d, 0, k) # t
    BY <1>1, <1>5, <2>2, FreeIsNowhere DEF NeedsTable
  <2>4. PICK g : g = WithTable(e, d, v, t)
    OBVIOUS
  <2>5. /\ g \in Entries /\ \A y \in Page \ {d, t} : g[y] = e[y]
        /\ Table(g, d, v) = t
        /\ \A k \in Int : Inside(g, d, 0, k) = IF k = TableOf(v) THEN t ELSE Inside(e, d, 0, k)
    BY <1>4, <2>2, <2>3, <2>4, TableEntered
  <2>6. t # d
    BY <1>1, <1>2, <1>3, <2>2, FreeIsNowhere
  <2>7. \A k \in Place : Inside(g, d, 0, k) = t => k = TableOf(v)
    BY <1>2, <2>3, <2>5
  <2>8. PICK f : f = [g EXCEPT ![t][v % NrPte] = x]
    OBVIOUS
  <2>9. /\ Entered(g, f, t, v % NrPte, x)
        /\ \A k \in Int : Inside(f, d, 0, k) = IF k = PlaceOf(v) THEN x ELSE Inside(g, d, 0, k)
    <3>1. t \in Page /\ g \in Entries /\ t = Table(g, d, v) /\ v % NrPte \in Index
      BY <1>2, <2>2, <2>5
    <3>2. Entered(g, f, t, v % NrPte, x)
      BY <2>8, <3>1 DEF Entries, Entered
    <3> QED
      BY <2>6, <2>7, <3>1, <3>2, FrameEntered
  <2>10. entry' = f /\ used' = used \cup {t}
    BY <1>1, <1>5, <2>1, <2>2, <2>4, <2>5, <2>8, Sizes DEF memory_create_map, addr_alloc_page
  <2>11. EntriesBut({d, t})
    BY <1>1, <2>5, <2>9, <2>10 DEF EntriesBut, Entered
  <2>12. \A w \in Use, q \in Proc, k \in Int : Vals[w][q][k] \in {d, t} => w = u /\ q = p
    BY <1>3, <2>2, FreeIsNowhere
  <2>13. \A k \in Int : Inside(entry', d, 0, k) =
                          IF k = PlaceOf(v) THEN x ELSE IF k = TableOf(v) THEN t ELSE Vals[u][p][k]
    BY <1>1, <2>5, <2>9, <2>10
  <2>14. Vals[u][p][TableOf(v)] = 0
    BY <1>1, <1>2, <2>3
  <2>15. {d, t} \in SUBSET Page
    BY <2>2
  <2> QED
    BY <2>2, <2>10, <2>11, <2>12, <2>13, <2>14, <2>15
<1>6. CASE ~ NeedsTable(d, v)
  <2>1. PICK t \in Page : t = Table(e, d, v)
    BY <1>1, <1>2, <1>6 DEF NeedsTable
  <2>2. Vals[u][p][TableOf(v)] = t /\ t # 0
    BY <1>1, <1>2, <2>1, Sizes
  <2>3. \A w \in Use, q \in Proc, j \in Int : Vals[w][q][j] = t => w = u /\ q = p /\ j = TableOf(v)
    <3>1. TableOf(v) \in Int /\ Vals[u][p][TableOf(v)] # 0
      BY <1>2, <2>2
    <3>2. \A w \in Use, q \in Proc, j \in Int :
            Vals[w][q][j] = Vals[u][p][TableOf(v)] => w = u /\ q = p /\ j = TableOf(v)
      BY <3>1, OnlyPlace
    <3> QED
      BY <2>2, <3>2
  <2>4. t # d
    BY <1>2, <1>3, <2>2
  <2>5. \A k \in Place : Inside(e, d, 0, k) = t => k = TableOf(v)
    BY <1>1, <1>2, <2>3
  <2>6. PICK f : f = [e EXCEPT ![t][v % NrPte] = x]
    OBVIOUS
  <2>7. /\ Entered(e, f, t, v % NrPte, x)
        /\ \A k \in Int : Inside(f, d, 0, k) = IF k = PlaceOf(v) THEN x ELSE Inside(e, d, 0, k)
    <3>1. Entered(e, f, t, v % NrPte, x)
      BY <1>2, <2>1, <2>6 DEF Entries, Entered
    <3> QED
      BY <2>1, <2>4, <2>5, <3>1, FrameEntered
  <2>8. entry' = f /\ used' = used
    BY <1>1, <1>6, <2>1, <2>6 DEF memory_create_map
  <2>9. EntriesBut({t})
    BY <1>1, <2>7, <2>8 DEF EntriesBut, Entered
  <2>10. \A w \in Use, q \in Proc, k \in Int : Vals[w][q][k] \in {t} => w = u /\ q = p
    BY <2>3
  <2>11. \A k \in Int : Inside(entry', d, 0, k) =
                          IF k = PlaceOf(v) THEN x ELSE IF k = TableOf(v) THEN t ELSE Vals[u][p][k]
    BY <1>1, <2>2, <2>7, <2>8
  <2>12. {t} \in SUBSET Page
    OBVIOUS
  <2> QED
    BY <2>2, <2>8, <2>9, <2>10, <2>11, <2>12
<1> QED
  BY <1>5, <1>6

(* The page in hand goes to the place of v, and a new table to its place.   *)
LEMMA MapBooks ==
  ASSUME MemInv, NEW u \in {"own", "work"}, NEW p \in Proc, NEW v \in Vpage,
         NEW t \in Page, NEW W \in Books, NEW U,
         page[p] # 0, Vals[u][p][PlaceOf(v)] = 0,
         \A k \in Int : W[u][p][k] = IF k = PlaceOf(v) THEN page[p]
                                     ELSE IF k = TableOf(v) THEN t ELSE Vals[u][p][k],
         W["page"][p][0] = 0,
         \A w \in Use, q \in Proc, k \in Int :
           ~ (w = u /\ q = p) /\ ~ (w = "page" /\ q = p /\ k = 0) => W[w][q][k] = Vals[w][q][k],
         \/ Vals[u][p][TableOf(v)] = 0 /\ t \notin used /\ U = used \cup {t}
         \/ Vals[u][p][TableOf(v)] = t /\ U = used
  PROVE  Accounted(W, U)
<1>1. PICK V, m, l : V = Vals /\ m = PlaceOf(v) /\ l = TableOf(v)
  OBVIOUS
<1>2. Accounted(V, used) /\ V \in Books
  BY <1>1 DEF MemInv, Accounted
<1>3. /\ m \in Int /\ l \in Int /\ m # l /\ u \in Use /\ "page" \in Use /\ u # "page" /\ 0 \in Int
      /\ V["page"][p][0] = page[p]
  BY <1>1, PlacesOf, Reads, Sizes DEF Place, Use
<1>4. PICK Y : Y = [V EXCEPT ![u][p][l] = t]
  OBVIOUS
<1>5. Y \in Books /\ Y[u][p][l] = t /\ OnlyAt(V, Y, u, p, l)
  <2>1. Y \in [Use -> [Proc -> [Int -> Page \cup {0}]]]
    BY <1>2, <1>3, <1>4 DEF Books
  <2>2. Y[u][p][l] = t
    BY <1>2, <1>3, <1>4 DEF Books
  <2>3. OnlyAt(V, Y, u, p, l)
    BY <1>2, <1>3, <1>4 DEF Books, OnlyAt
  <2> QED
    BY <2>1, <2>2, <2>3 DEF Books
<1>6. Accounted(Y, U)
  <2>1. CASE V[u][p][l] = 0 /\ t \notin used /\ U = used \cup {t}
    <3>1. t \in Page \ used
      BY <2>1
    <3>2. Accounted(Y, used \cup {t})
      BY <1>2, <1>3, <1>5, <2>1, <3>1, Taken
    <3> QED
      BY <2>1, <3>2
  <2>2. CASE V[u][p][l] = t /\ U = used
    <3>1. \A w \in Use, q \in Proc, k \in Int : Y[w][q][k] = V[w][q][k]
      BY <1>5, <2>2 DEF OnlyAt
    <3> QED
      BY <1>2, <1>5, <2>2, <3>1, Untouched
  <2> QED
    BY <1>1, <2>1, <2>2
<1>7. Y["page"][p][0] = page[p] /\ Y[u][p][m] = 0
  BY <1>1, <1>3, <1>5 DEF OnlyAt
<1>8. W["page"][p][0] = 0 /\ W[u][p][m] = page[p]
  BY <1>1, <1>3
<1>9. ASSUME NEW w \in Use, NEW q \in Proc, NEW k \in Int,
             ~ (w = "page" /\ q = p /\ k = 0), ~ (w = u /\ q = p /\ k = m)
      PROVE  W[w][q][k] = Y[w][q][k]
  <2>1. CASE w = u /\ q = p /\ k = l
    BY <1>1, <1>3, <1>5, <2>1
  <2>2. CASE w = u /\ q = p /\ k # l
    BY <1>1, <1>3, <1>5, <1>9, <2>2 DEF OnlyAt
  <2>3. CASE ~ (w = u /\ q = p)
    BY <1>1, <1>3, <1>5, <1>9, <2>3 DEF OnlyAt
  <2> QED
    BY <2>1, <2>2, <2>3
<1>10. PICK pg \in Use, k0 \in Int : pg = "page" /\ k0 = 0
  BY <1>3
<1>11. IsMove(Y, W, pg, p, k0, u, p, m)
  BY <1>3, <1>7, <1>8, <1>9, <1>10 DEF IsMove
<1> QED
  BY <1>3, <1>6, <1>11, Moved

(* The page in hand gets lost.                                              *)
LEMMA PageLost ==
  ASSUME MemInv, MemTypes', NEW p \in Proc, OthersQuiet(p), UNCHANGED <<tables, cr3, stack>>,
         page[p] # 0, page'[p] = 0, lost' = lost \cup {page[p]},
         WorkDir(p)' = WorkDir(p), From(p)' = From(p)
  PROVE  /\ Accounted(Vals', used')
         /\ \A q \in Proc : TreesQuiet(q)
<1>1. MemTypes /\ EntriesBut({}) /\ Accounted(Vals, used) /\ used' = used
  BY DEF MemInv, MemTypes, EntriesBut, tables
<1>2. ASSUME NEW q \in Proc  PROVE TreesQuiet(q)
  <2>1. CASE q = p
    <3>1. \A k \in Int : Vals'["own"][p][k] = Vals["own"][p][k]
      BY <1>1, OwnKept
    <3>2. \A k \in Int : Vals'["work"][p][k] = Vals["work"][p][k]
      BY <1>1, WorkKept
    <3> QED
      BY <2>1, <3>1, <3>2 DEF TreesQuiet
  <2>2. CASE q # p
    BY <1>1, <2>2, QuietTrees DEF OthersQuiet
  <2> QED
    BY <2>1, <2>2
<1>3. \A q \in Proc : stack'[q] = stack[q] /\ (q # p => page'[q] = page[q])
  BY DEF OthersQuiet, Quiet
<1>4. PICK x : x = page[p]
  OBVIOUS
<1>5. x \in Page /\ x \in Int /\ lost' = lost \cup {x} /\ First \in Proc
  <2>1. x \in Page
    BY <1>1, <1>4 DEF MemTypes
  <2>2. NrPage \in Nat
    BY MemoryAssumption
  <2>3. x \in Int
    BY <2>1, <2>2 DEF Page
  <2> QED
    BY <1>4, <2>1, <2>3, MemoryAssumption
<1>6. /\ Vals["page"][p][0] = x /\ Vals'["page"][p][0] = 0
      /\ Vals'["lost"][First][x] = x
  BY <1>4, <1>5, Reads, ReadsNext
<1>7. Vals["lost"][First][x] = 0
  <2>1. x # 0 /\ "page" \in Use /\ "lost" \in Use /\ 0 \in Int
    BY <1>4 DEF Use
  <2>2. Vals["lost"][First][x] # Vals["page"][p][0]
    BY <1>5, <1>6, <2>1, OnlyPlace
  <2>3. Vals["lost"][First][x] = IF x \in lost THEN x ELSE 0
    BY <1>5, Reads
  <2> QED
    BY <1>6, <2>2, <2>3
<1>8. ASSUME NEW q \in Proc, NEW k \in Int
      PROVE  /\ Vals'["stack"][q][k] = Vals["stack"][q][k]
             /\ ~ (q = p /\ k = 0) => Vals'["page"][q][k] = Vals["page"][q][k]
             /\ ~ (q = First /\ k = x) => Vals'["lost"][q][k] = Vals["lost"][q][k]
  BY <1>3, <1>5, Reads, ReadsNext
<1>9. ASSUME NEW w \in Use, NEW q \in Proc, NEW k \in Int,
             ~ (w = "page" /\ q = p /\ k = 0), ~ (w = "lost" /\ q = First /\ k = x)
      PROVE  Vals'[w][q][k] = Vals[w][q][k]
  BY <1>2, <1>8, <1>9 DEF Use, TreesQuiet
<1>10. PICK V, W, U : V = Vals /\ W = Vals' /\ U = used
  OBVIOUS
<1>11. Accounted(W, used)
  <2>1. Accounted(V, used) /\ W \in Books
    BY <1>1, <1>10, BooksNext
  <2>2. "page" \in Use /\ "lost" \in Use /\ 0 \in Int /\ x # 0
    BY <1>4 DEF Use
  <2>3. /\ V["page"][p][0] = x /\ W["page"][p][0] = 0
        /\ V["lost"][First][x] = 0 /\ W["lost"][First][x] = x
    BY <1>6, <1>7, <1>10
  <2>4. \A w \in Use, q \in Proc, k \in Int :
          ~ (w = "page" /\ q = p /\ k = 0) /\ ~ (w = "lost" /\ q = First /\ k = x) =>
             W[w][q][k] = V[w][q][k]
    BY <1>9, <1>10
  <2> QED
    <3>1. PICK u \in Use, w \in Use, k \in Int, j \in Int, q \in Proc :
            u = "page" /\ w = "lost" /\ k = 0 /\ j = x /\ q = First
      BY <1>5, <2>2
    <3>2. IsMove(V, W, u, p, k, w, q, j)
      <4>1. IsMove(V, W, "page", p, 0, "lost", First, x)
        BY <2>2, <2>3, <2>4 DEF IsMove
      <4> QED
        BY <3>1, <4>1
    <3>3. Accounted(W, U)
      BY <1>10, <2>1, <3>2, Moved
    <3> QED
      BY <1>10, <3>3
<1> QED
  BY <1>1, <1>2, <1>10, <1>11

(* The mapped pages, with one more.                                         *)
LEMMA HasGrows ==
  ASSUME NEW u \in Use, NEW w \in Use, NEW p \in Proc, NEW v \in Vpage, NEW x \in Page, NEW t,
         \A k \in Int : Vals'[w][p][k] = IF k = PlaceOf(v) THEN x
                                         ELSE IF k = TableOf(v) THEN t ELSE Vals[u][p][k]
  PROVE  Has(w, p)' = Has(u, p) \cup {v}
<1>1. x # 0
  BY Sizes
<1>2. ASSUME NEW y \in Vpage
      PROVE  Vals'[w][p][PlaceOf(y)] # 0 <=> Vals[u][p][PlaceOf(y)] # 0 \/ y = v
  <2>1. PlaceOf(y) \in Int /\ PlaceOf(y) # TableOf(v) /\ (PlaceOf(y) = PlaceOf(v) => y = v)
    BY PlacesOf DEF Place
  <2> QED
    BY <1>1, <2>1
<1> QED
  BY <1>2 DEF Has

(* A page is mapped, and the call goes on with the same address spaces.     *)
LEMMA TreeGrows ==
  ASSUME MemInv, MemTypes', NEW p \in Proc, OthersQuiet(p), NEW u \in {"own", "work"},
         NEW d \in Page, NEW v \in Vpage, page[p] # 0, page'[p] = 0,
         u = "own" => d = cr3[p], u = "work" => d = WorkDir(p) /\ From(p) = 0,
         Vals[u][p][PlaceOf(v)] = 0, ~ MapFails(d, v), memory_create_map(d, v, page[p]),
         UNCHANGED <<cr3, stack, lost>>, WorkDir(p)' = WorkDir(p), From(p)' = From(p)
  PROVE  /\ Accounted(Vals', used')
         /\ \A q \in Proc \ {p} : TreesQuiet(q)
         /\ Has(u, p)' = Has(u, p) \cup {v}
         /\ \A w \in {"own", "work"} \ {u} : Has(w, p)' = Has(w, p)
<1>1. MemTypes /\ Accounted(Vals, used) /\ page[p] \in Page /\ u \in Use
  BY DEF MemInv, MemTypes, Use
<1>2. \A k \in Int : Vals[u][p][k] = Inside(entry, d, 0, k)
  BY Reads
<1>3. \A k \in Int : Vals'[u][p][k] = Inside(entry', d, 0, k)
  BY ReadsNext
<1>4. PICK t \in Page, X \in SUBSET Page :
           /\ EntriesBut(X)
           /\ \A w \in Use, q \in Proc, k \in Int : Vals[w][q][k] \in X => w = u /\ q = p
           /\ \A k \in Int : Inside(entry', d, 0, k) =
                               IF k = PlaceOf(v) THEN page[p] ELSE IF k = TableOf(v) THEN t
                               ELSE Vals[u][p][k]
           /\ \/ Vals[u][p][TableOf(v)] = 0 /\ t \notin used /\ used' = used \cup {t}
              \/ Vals[u][p][TableOf(v)] = t /\ used' = used
  BY <1>1, <1>2, MapEffect
<1>5. \A k \in Int : Vals'[u][p][k] = IF k = PlaceOf(v) THEN page[p]
                                      ELSE IF k = TableOf(v) THEN t ELSE Vals[u][p][k]
  BY <1>3, <1>4
<1>6. ASSUME NEW q \in Proc \ {p}  PROVE TreesQuiet(q)
  <2>1. \A k \in Int : Vals["own"][q][k] \notin X /\ Vals["work"][q][k] \notin X
    BY <1>4 DEF Use
  <2> QED
    BY <1>1, <1>4, <2>1, QuietTrees DEF OthersQuiet
<1>7. ASSUME NEW w \in {"own", "work"} \ {u}
      PROVE  \A k \in Int : Vals'[w][p][k] = Vals[w][p][k]
  <2>1. \A k \in Int : Vals[w][p][k] \notin X
    BY <1>4 DEF Use
  <2>2. CASE w = "own"
    <3>1. cr3'[p] = cr3[p]
      OBVIOUS
    <3> QED
      BY <1>1, <1>4, <2>1, <2>2, <3>1, OwnKept
  <2>3. CASE w = "work"
    BY <1>1, <1>4, <2>1, <2>3, WorkKept
  <2> QED
    BY <2>2, <2>3
<1>8. \A q \in Proc : stack'[q] = stack[q] /\ (q # p => page'[q] = page[q])
  BY DEF OthersQuiet, Quiet
<1>9. ASSUME NEW q \in Proc, NEW k \in Int
      PROVE  /\ Vals'["stack"][q][k] = Vals["stack"][q][k]
             /\ ~ (q = p /\ k = 0) => Vals'["page"][q][k] = Vals["page"][q][k]
             /\ Vals'["lost"][q][k] = Vals["lost"][q][k]
  BY <1>8, Reads, ReadsNext
<1>10. ASSUME NEW w \in Use, NEW q \in Proc, NEW k \in Int,
              ~ (w = u /\ q = p), ~ (w = "page" /\ q = p /\ k = 0)
       PROVE  Vals'[w][q][k] = Vals[w][q][k]
  BY <1>6, <1>7, <1>9, <1>10 DEF Use, TreesQuiet
<1>11. Vals'["page"][p][0] = 0
  BY ReadsNext
<1>12. PICK W, U : W = Vals' /\ U = used'
  OBVIOUS
<1>13. Accounted(W, U)
  <2>1. /\ W \in Books /\ W["page"][p][0] = 0
        /\ \A k \in Int : W[u][p][k] = IF k = PlaceOf(v) THEN page[p]
                                       ELSE IF k = TableOf(v) THEN t ELSE Vals[u][p][k]
        /\ \A w \in Use, q \in Proc, k \in Int :
             ~ (w = u /\ q = p) /\ ~ (w = "page" /\ q = p /\ k = 0) => W[w][q][k] = Vals[w][q][k]
        /\ \/ Vals[u][p][TableOf(v)] = 0 /\ t \notin used /\ U = used \cup {t}
           \/ Vals[u][p][TableOf(v)] = t /\ U = used
    BY <1>4, <1>5, <1>10, <1>11, <1>12, BooksNext
  <2> QED
    BY <2>1, MapBooks
<1>14. Has(u, p)' = Has(u, p) \cup {v}
  BY <1>1, <1>5, HasGrows
<1>15. ASSUME NEW w \in {"own", "work"} \ {u}  PROVE Has(w, p)' = Has(w, p)
  <2>1. \A y \in Vpage : PlaceOf(y) \in Int
    BY PlacesOf DEF Place
  <2> QED
    BY <1>7, <2>1 DEF Has
<1> QED
  BY <1>6, <1>12, <1>13, <1>14, <1>15

(* A page is mapped in the directory that p makes, which becomes its own.   *)
LEMMA NewSpace ==
  ASSUME MemInv, MemTypes', NEW p \in Proc, OthersQuiet(p), NEW d \in Page, NEW v \in Vpage,
         d = WorkDir(p), From(p) = 0, page[p] # 0, page'[p] = 0,
         Vals["work"][p][PlaceOf(v)] = 0, ~ MapFails(d, v), memory_create_map(d, v, page[p]),
         UNCHANGED <<stack, lost>>, cr3'[p] = d, WorkDir(p)' = cr3[p], From(p)' = 0
  PROVE  /\ Accounted(Vals', used')
         /\ \A q \in Proc \ {p} : TreesQuiet(q)
         /\ Has("own", p)' = Has("work", p) \cup {v}
<1>1. MemTypes /\ Accounted(Vals, used) /\ page[p] \in Page /\ "work" \in Use /\ "own" \in Use
  BY DEF MemInv, MemTypes, Use
<1>2. \A k \in Int : Vals["work"][p][k] = Inside(entry, d, 0, k)
  BY Reads
<1>3. PICK t \in Page, X \in SUBSET Page :
           /\ EntriesBut(X)
           /\ \A w \in Use, q \in Proc, k \in Int : Vals[w][q][k] \in X => w = "work" /\ q = p
           /\ \A k \in Int : Inside(entry', d, 0, k) =
                               IF k = PlaceOf(v) THEN page[p] ELSE IF k = TableOf(v) THEN t
                               ELSE Vals["work"][p][k]
           /\ \/ Vals["work"][p][TableOf(v)] = 0 /\ t \notin used /\ used' = used \cup {t}
              \/ Vals["work"][p][TableOf(v)] = t /\ used' = used
  BY <1>1, <1>2, MapEffect
<1>4. \A k \in Int : Vals'["own"][p][k] = IF k = PlaceOf(v) THEN page[p]
                                          ELSE IF k = TableOf(v) THEN t ELSE Vals["work"][p][k]
  BY <1>3, ReadsNext
<1>5. \A k \in Int : Vals'["work"][p][k] = Vals["own"][p][k]
  <2>1. PICK e \in Entries, f \in Entries, c \in Page \cup {0}, b \in Int :
          e = entry /\ f = entry' /\ c = cr3[p] /\ b = 0
    BY <1>1, <1>3 DEF EntriesBut, MemTypes
  <2>2. \A k \in Int : Inside(e, c, b, k) \notin X \ {0}
    <3>1. \A k \in Int : Vals["own"][p][k] \notin X
      BY <1>1, <1>3
    <3> QED
      BY <2>1, <3>1, Reads
  <2>3. \A k \in Int : Inside(f, c, b, k) = Inside(e, c, b, k)
    <3>1. \A y \in Page \ X : f[y] = e[y]
      BY <1>3, <2>1 DEF EntriesBut
    <3> QED
      BY <2>2, <3>1, TreeElsewhere
  <2> QED
    BY <2>1, <2>3, Reads, ReadsNext
<1>6. ASSUME NEW q \in Proc \ {p}  PROVE TreesQuiet(q)
  <2>1. \A k \in Int : Vals["own"][q][k] \notin X /\ Vals["work"][q][k] \notin X
    BY <1>3 DEF Use
  <2> QED
    BY <1>1, <1>3, <2>1, QuietTrees DEF OthersQuiet
<1>7. \A q \in Proc : stack'[q] = stack[q] /\ (q # p => page'[q] = page[q])
  BY DEF OthersQuiet, Quiet
<1>8. ASSUME NEW q \in Proc, NEW k \in Int
      PROVE  /\ Vals'["stack"][q][k] = Vals["stack"][q][k]
             /\ ~ (q = p /\ k = 0) => Vals'["page"][q][k] = Vals["page"][q][k]
             /\ Vals'["lost"][q][k] = Vals["lost"][q][k]
  BY <1>7, Reads, ReadsNext
<1>9. ASSUME NEW w \in Use, NEW q \in Proc, NEW k \in Int,
             ~ (w \in {"own", "work"} /\ q = p), ~ (w = "page" /\ q = p /\ k = 0)
       PROVE  Vals'[w][q][k] = Vals[w][q][k]
  BY <1>6, <1>8, <1>9 DEF Use, TreesQuiet
<1>10. Vals'["page"][p][0] = 0
  BY ReadsNext
<1>11. PICK V, N, U : V = Vals /\ N = Vals' /\ U = used'
  OBVIOUS
\* The books before the two address spaces are exchanged.
<1>12. PICK W : W = [w \in Use |-> [q \in Proc |->
                       IF q = p /\ w = "own" THEN N["work"][p]
                       ELSE IF q = p /\ w = "work" THEN N["own"][p] ELSE N[w][q]]]
  OBVIOUS
<1>13. /\ W \in Books /\ N \in Books
       /\ \A k \in Int : W["own"][p][k] = N["work"][p][k] /\ W["work"][p][k] = N["own"][p][k]
       /\ \A w \in Use, q \in Proc, k \in Int :
            ~ (w = "own" /\ q = p) /\ ~ (w = "work" /\ q = p) => W[w][q][k] = N[w][q][k]
  <2>1. N \in [Use -> [Proc -> [Int -> Page \cup {0}]]]
    BY <1>11, BooksNext DEF Books
  <2>2. W \in [Use -> [Proc -> [Int -> Page \cup {0}]]]
    BY <1>1, <1>12, <2>1
  <2>3. W["own"][p] = N["work"][p] /\ W["work"][p] = N["own"][p]
    BY <1>1, <1>12, <2>1
  <2>4. \A w \in Use, q \in Proc :
            ~ (w = "own" /\ q = p) /\ ~ (w = "work" /\ q = p) => W[w][q] = N[w][q]
    BY <1>1, <1>12, <2>1
  <2> QED
    BY <2>1, <2>2, <2>3, <2>4 DEF Books
<1>14. Accounted(W, U)
  <2>1. \A k \in Int : W["work"][p][k] = IF k = PlaceOf(v) THEN page[p]
                                       ELSE IF k = TableOf(v) THEN t ELSE Vals["work"][p][k]
    BY <1>4, <1>11, <1>13
  <2>2. W["page"][p][0] = 0
    BY <1>10, <1>11, <1>13 DEF Use
  <2>3. ASSUME NEW w \in Use, NEW q \in Proc, NEW k \in Int,
               ~ (w = "work" /\ q = p), ~ (w = "page" /\ q = p /\ k = 0)
        PROVE  W[w][q][k] = Vals[w][q][k]
    <3>1. CASE w = "own" /\ q = p
      BY <1>5, <1>11, <1>13, <3>1
    <3>2. CASE ~ (w = "own" /\ q = p)
      BY <1>9, <1>11, <1>13, <2>3, <3>2
    <3> QED
      BY <3>1, <3>2
  <2>4. \/ Vals["work"][p][TableOf(v)] = 0 /\ t \notin used /\ U = used \cup {t}
        \/ Vals["work"][p][TableOf(v)] = t /\ U = used
    BY <1>3, <1>11
  <2>5. "work" \in {"own", "work"}
    OBVIOUS
  <2> QED
    BY <1>13, <2>1, <2>2, <2>3, <2>4, <2>5, MapBooks
<1>15. Accounted(N, U)
  <2>1. PICK u, w \in Use : u = "own" /\ w = "work"
    BY <1>1
  <2>2. IsSwap(W, N, u, p, w, p)
    BY <1>13, <2>1 DEF IsSwap
  <2> QED
    BY <1>13, <1>14, <2>1, <2>2, Swapped
<1>16. Has("own", p)' = Has("work", p) \cup {v}
  <2>1. PICK u \in Use, w \in Use, x \in Page : u = "work" /\ w = "own" /\ x = page[p]
    BY <1>1
  <2>2. \A k \in Int : Vals'[w][p][k] = IF k = PlaceOf(v) THEN x
                                        ELSE IF k = TableOf(v) THEN t ELSE Vals[u][p][k]
    BY <1>4, <2>1
  <2>3. Has(w, p)' = Has(u, p) \cup {v}
    BY <2>2, HasGrows
  <2> QED
    BY <2>1, <2>3
<1> QED
  BY <1>6, <1>11, <1>15, <1>16

(* Which page tables the loop works on.                                     *)
LEMMA AllocTree ==
  ASSUME MemInv, NEW p \in Proc, Allocating(p)
  PROVE  \E u \in {"own", "work"} :
           /\ u = "own" <=> pc[p] = "sbrk"
           /\ u = "own" => dir[p] = cr3[p]
           /\ u = "work" => dir[p] = WorkDir(p) /\ From(p) = 0
           /\ Vals[u][p][PlaceOf(at[p])] = Frame(entry, dir[p], at[p])
           /\ Vals[u][p][TableOf(at[p])] = Table(entry, dir[p], at[p])
           /\ at[p] \in Has(u, p) <=> Frame(entry, dir[p], at[p]) # 0
           /\ p \notin starved => at[p] \notin Has(u, p)
<1>1. /\ MemTypes /\ Local(p) /\ pc[p] \in {"sbrk", "image", "stack"}
      /\ cr3[p] # 0 /\ dir[p] # 0 /\ dir[p] \in Page /\ cr3[p] \in Page
      /\ (pc[p] = "sbrk" => dir[p] = cr3[p]) /\ (pc[p] # "sbrk" => dir[p] # cr3[p])
      /\ at[p] \in Vpage /\ at[p] < to[p] /\ From(p) = 0
  BY AllocatingFacts
<1>2. PICK u \in {"own", "work"} : u = IF pc[p] = "sbrk" THEN "own" ELSE "work"
  OBVIOUS
<1>3. u \in Use /\ (u = "own" <=> pc[p] = "sbrk") /\ (u = "own" => dir[p] = cr3[p])
      /\ (u = "work" => dir[p] = WorkDir(p) /\ From(p) = 0)
  BY <1>1, <1>2 DEF WorkDir, Use
<1>4. \A k \in Int : Vals[u][p][k] = Inside(entry, dir[p], 0, k)
  BY <1>2, <1>3, Reads
<1>5. PICK e \in Entries, d \in Page, v \in Vpage : e = entry /\ d = dir[p] /\ v = at[p]
  BY <1>1 DEF MemTypes
<1>6. PlaceOf(v) \in Int /\ TableOf(v) \in Int
  BY PlacesOf DEF Place
<1>7. Vals[u][p][PlaceOf(v)] = Frame(e, d, v) /\ Vals[u][p][TableOf(v)] = Table(e, d, v)
  BY <1>4, <1>5, <1>6, FrameIsInside
<1>8. v \in Has(u, p) <=> Frame(e, d, v) # 0
  BY <1>7 DEF Has
<1>9. ASSUME p \notin starved  PROVE v \notin Has(u, p)
  <2>1. WorkOK(p) /\ FedOK(p) /\ v \in Nat
    BY <1>1, <1>9, Sizes DEF Local
  <2>2. CASE pc[p] = "sbrk"
    <3>1. Has(u, p) = 0..(v - 1) \cup {StackAt} /\ v < to[p] /\ to[p] <= StackAt
      BY <1>3, <1>5, <2>1, <2>2 DEF WorkOK, FedOK
    <3>2. v # StackAt
      BY <1>1, <2>1, <3>1, Sizes DEF MemTypes
    <3> QED
      BY <2>1, <3>1, <3>2
  <2>3. CASE pc[p] = "image"
    <3>1. Has(u, p) = 0..(v - 1)
      BY <1>2, <1>5, <2>1, <2>3 DEF FedOK
    <3> QED
      BY <2>1, <3>1
  <2>4. CASE pc[p] = "stack"
    <3>1. Has(u, p) = 0..(UpTo(heap[p]) - 1) /\ v = StackAt
      BY <1>2, <1>5, <2>1, <2>4 DEF FedOK, WorkOK
    <3>2. UpTo(heap[p]) \in 0..StackAt
      BY <1>1, HeapPages DEF MemTypes
    <3> QED
      BY <3>1, <3>2, Sizes
  <2> QED
    BY <1>1, <2>2, <2>3, <2>4
<1> QED
  BY <1>3, <1>5, <1>7, <1>8, <1>9

(* One more page of a heap.                                                 *)
LEMMA NextPage == ASSUME NEW v \in Nat  PROVE (0..(v - 1)) \cup {v} = 0..v
OBVIOUS

(* What a process that has not run out of memory has after one more page.   *)
LEMMA FedNext ==
  ASSUME MemInv, NEW p \in Proc, Allocating(p), p \notin starved, p \notin starved',
         pc[p] = "sbrk" => Has("own", p)' = Has("own", p) \cup {at[p]},
         pc[p] = "image" => /\ Has("work", p)' = Has("work", p) \cup {at[p]}
                            /\ Has("own", p)' = Has("own", p),
         pc[p] # "stack",
         \/ /\ pc'[p] = pc[p] /\ heap' = heap /\ at'[p] = at[p] + 1 /\ to'[p] = to[p]
         \/ /\ at[p] + 1 = to[p]
            /\ \/ pc[p] = "sbrk" /\ pc'[p] = "user" /\ heap' = heap
               \/ pc[p] = "image" /\ pc'[p] = "stack" /\ heap'[p] > 0 /\ UpTo(heap'[p]) = to[p]
               \/ pc[p] # "sbrk" /\ pc'[p] = "undo" /\ heap' = heap
  PROVE  FedOK(p)'
<1>1. FedOK(p) /\ pc[p] \in {"sbrk", "image"} /\ at[p] \in Nat
  <2>1. at[p] \in Vpage
    BY AllocatingFacts
  <2> QED
    BY <2>1, Sizes DEF MemInv, Local, Allocating
<1>2. PICK v \in Nat : v = at[p] /\ (0..(v - 1)) \cup {v} = 0..v /\ v + 1 - 1 = v
  BY <1>1, NextPage
<1>3. CASE pc[p] = "sbrk"
  <2>1. /\ Has("own", p) = 0..(v - 1) \cup {StackAt} /\ to[p] = UpTo(heap[p]) /\ heap[p] > 0
        /\ Has("own", p)' = Has("own", p) \cup {v}
    BY <1>1, <1>2, <1>3 DEF FedOK
  <2>2. Has("own", p)' = 0..v \cup {StackAt}
    BY <1>2, <2>1
  <2>3. CASE pc'[p] = "sbrk" /\ heap' = heap /\ at'[p] = at[p] + 1 /\ to'[p] = to[p]
    <3>1. 0..(at'[p] - 1) = 0..v
      BY <1>2, <2>3
    <3> QED
      BY <1>1, <2>1, <2>2, <2>3, <3>1 DEF FedOK, Settled, Forking, Reaping
  <2>4. CASE at[p] + 1 = to[p] /\ pc'[p] = "user" /\ heap' = heap
    <3>1. UpTo(heap'[p]) - 1 = v
      BY <1>2, <2>1, <2>4
    <3> QED
      BY <2>2, <2>4, <3>1 DEF FedOK
  <2> QED
    BY <1>3, <2>3, <2>4
<1>4. CASE pc[p] = "image"
  <2>1. /\ heap[p] > 0 => Has("own", p) = 0..(UpTo(heap[p]) - 1) \cup {StackAt}
        /\ Has("work", p) = 0..(v - 1)
        /\ Has("work", p)' = Has("work", p) \cup {v} /\ Has("own", p)' = Has("own", p)
    BY <1>1, <1>2, <1>4 DEF FedOK, Settled
  <2>2. Has("work", p)' = 0..v
    BY <1>2, <2>1
  <2>3. CASE pc'[p] = "image" /\ heap' = heap /\ at'[p] = at[p] + 1
    <3>1. 0..(at'[p] - 1) = 0..v
      BY <1>2, <2>3
    <3> QED
      BY <2>1, <2>2, <2>3, <3>1 DEF FedOK
  <2>4. CASE at[p] + 1 = to[p] /\ pc'[p] = "stack" /\ heap'[p] > 0 /\ UpTo(heap'[p]) = to[p]
    <3>1. UpTo(heap'[p]) - 1 = v
      BY <1>2, <2>4
    <3> QED
      BY <2>2, <2>4, <3>1 DEF FedOK, Settled, Forking, Reaping
  <2>5. CASE pc'[p] = "undo" /\ heap' = heap
    BY <2>1, <2>5 DEF FedOK
  <2> QED
    BY <1>4, <2>3, <2>4, <2>5
<1> QED
  BY <1>1, <1>3, <1>4

(* The loop maps the page, or gives up.                                     *)
LEMMA AllocMapInv ==
  ASSUME MemInv, NEW p \in Proc, AllocMap(p)
  PROVE  MemInv'
<1>1. Allocating(p) /\ page[p] # 0 /\ stack' = stack
  BY DEF AllocMap
<1>2. /\ MemTypes /\ Local(p) /\ pc[p] \in {"sbrk", "image", "stack"}
      /\ cr3[p] # 0 /\ dir[p] # 0 /\ dir[p] \in Page /\ cr3[p] \in Page
      /\ (pc[p] = "sbrk" => dir[p] = cr3[p]) /\ (pc[p] # "sbrk" => dir[p] # cr3[p])
      /\ at[p] \in Vpage /\ at[p] < to[p] /\ From(p) = 0 /\ page[p] \in Page
  BY <1>1, AllocatingFacts DEF MemTypes
<1>3. PICK u \in {"own", "work"} :
           /\ u = "own" <=> pc[p] = "sbrk"
           /\ u = "own" => dir[p] = cr3[p]
           /\ u = "work" => dir[p] = WorkDir(p) /\ From(p) = 0
           /\ Vals[u][p][PlaceOf(at[p])] = Frame(entry, dir[p], at[p])
           /\ Vals[u][p][TableOf(at[p])] = Table(entry, dir[p], at[p])
           /\ at[p] \in Has(u, p) <=> Frame(entry, dir[p], at[p]) # 0
           /\ p \notin starved => at[p] \notin Has(u, p)
  BY <1>1, AllocTree
<1>4. CASE ~ NeedsTable(dir[p], at[p]) /\ Frame(entry, dir[p], at[p]) # 0
  <2>1. p \in starved
    BY <1>3, <1>4
  <2>2. /\ Goto(p, "panic") /\ UNCHANGED <<tables, dir, at, to, page, other, cr3, heap, lost, starved>>
    BY <1>4 DEF AllocMap, MapFails, tables
  <2>3. pc' \in [Proc -> Label] /\ pc'[p] = "panic" /\ \A q \in Proc \ {p} : pc'[q] = pc[q]
    BY <1>2, <2>2, GotoEffect DEF Label
  <2>4. MemTypes'
    BY <1>1, <1>2, <2>2, <2>3 DEF MemTypes, tables
  <2>5. OthersQuiet(p)
    BY <1>1, <2>2, <2>3 DEF OthersQuiet, Quiet
  <2>6. page'[p] = page[p] /\ WorkDir(p)' = WorkDir(p) /\ From(p)' = From(p)
    BY <1>2, <2>2, <2>3 DEF WorkDir, From, Destroying
  <2>7. Accounted(Vals', used') /\ \A q \in Proc : TreesQuiet(q)
    BY <1>1, <2>2, <2>4, <2>5, <2>6, BooksKept
  <2>8. LabelsOK(p)' /\ WorkOK(p)' /\ p \in starved'
    BY <2>1, <2>2, <2>3 DEF LabelsOK, WorkOK, Resting, Beside, Label, Running, Loading, Forking, Reaping
  <2> QED
    BY <1>2, <2>3, <2>4, <2>5, <2>7, <2>8, Alone DEF Local, OthersQuiet, Forking, Reaping
<1>5. CASE MapFails(dir[p], at[p])
  <2>1. /\ AfterAlloc(p, FALSE) /\ starved' = starved \cup {p} /\ UNCHANGED tables
        /\ lost' = lost \cup {page[p]}
    BY <1>5 DEF AllocMap, MapFails, Starve
  <2>2. Continues(p) /\ cr3' = cr3 /\ WorkDir(p)' = WorkDir(p) /\ LabelsOK(p)' /\ WorkOK(p)'
    BY <1>1, <2>1, AfterAllocSame
  <2>3. MemTypes'
    BY <1>1, <1>2, <2>1, <2>2 DEF MemTypes, Continues, tables
  <2>4. OthersQuiet(p)
    BY <1>1, <2>1, <2>2 DEF Continues, OthersQuiet, Quiet
  <2>5. page'[p] = 0 /\ From(p)' = From(p)
    BY <1>2, <2>2 DEF Continues
  <2>6. Accounted(Vals', used') /\ \A q \in Proc : TreesQuiet(q)
    BY <1>1, <2>1, <2>2, <2>3, <2>4, <2>5, PageLost
  <2>7. p \in starved' /\ pc'[p] \in {"user", "stack", "undo"}
    BY <2>1, <2>2 DEF Continues
  <2> QED
    BY <1>2, <2>2, <2>3, <2>4, <2>6, <2>7, Alone DEF Local, OthersQuiet, Forking, Reaping
<1>6. CASE ~ MapFails(dir[p], at[p]) /\ (NeedsTable(dir[p], at[p]) \/ Frame(entry, dir[p], at[p]) = 0)
  <2>1. /\ memory_create_map(dir[p], at[p], page[p]) /\ UNCHANGED <<lost, starved>>
        /\ \/ at[p] + 1 = to[p] /\ AfterAlloc(p, TRUE)
           \/ /\ at[p] + 1 < to[p] /\ Work(p, dir[p], at[p] + 1, to[p])
              /\ UNCHANGED <<pc, other, cr3, heap>>
    BY <1>6 DEF AllocMap
  <2>2. Vals[u][p][PlaceOf(at[p])] = 0
    BY <1>3, <1>6 DEF Frame, NeedsTable
  <2>3. used' \subseteq Page /\ entry' \in Entries
    <3>1. \A k \in Int : Vals[u][p][k] = Inside(entry, dir[p], 0, k)
      BY <1>3, Reads
    <3>2. u \in Use
      BY DEF Use
    <3>3. \E t \in Page, X \in SUBSET Page : EntriesBut(X) /\ (used' = used \cup {t} \/ used' = used)
      BY <1>2, <1>6, <2>1, <3>1, <3>2, MapEffect
    <3> QED
      BY <1>2, <3>3 DEF EntriesBut, MemTypes
  <2>4. CASE at[p] + 1 = to[p] /\ AfterAlloc(p, TRUE) /\ pc[p] # "stack"
    <3>1. /\ Continues(p) /\ cr3' = cr3 /\ WorkDir(p)' = WorkDir(p) /\ LabelsOK(p)' /\ WorkOK(p)'
          /\ \/ pc[p] = "sbrk" /\ pc'[p] = "user" /\ heap' = heap
             \/ pc[p] = "image" /\ pc'[p] = "stack" /\ heap'[p] > 0 /\ UpTo(heap'[p]) = to[p]
             \/ pc[p] # "sbrk" /\ pc'[p] = "undo" /\ heap' = heap
      BY <1>1, <2>4, AfterAllocSame
    <3>2. MemTypes'
      BY <1>1, <1>2, <2>1, <2>3, <3>1 DEF MemTypes, Continues
    <3>3. OthersQuiet(p)
      BY <1>1, <2>1, <3>1 DEF Continues, OthersQuiet, Quiet
    <3>4. page'[p] = 0 /\ From(p)' = From(p)
      BY <1>2, <3>1 DEF Continues
    <3>5. /\ Accounted(Vals', used') /\ \A q \in Proc \ {p} : TreesQuiet(q)
          /\ Has(u, p)' = Has(u, p) \cup {at[p]}
          /\ \A w \in {"own", "work"} \ {u} : Has(w, p)' = Has(w, p)
      BY <1>1, <1>2, <1>3, <1>6, <2>1, <2>2, <3>1, <3>2, <3>3, <3>4, TreeGrows
    <3>6. p \notin starved' => FedOK(p)'
      BY <1>1, <1>3, <2>1, <2>4, <3>1, <3>5, FedNext
    <3>7. pc'[p] \in {"user", "stack", "undo"}
      BY <3>1
    <3> QED
      BY <1>2, <3>1, <3>2, <3>3, <3>5, <3>6, <3>7, Alone DEF Local, OthersQuiet, Forking, Reaping
  <2>5. CASE AfterAlloc(p, TRUE) /\ pc[p] = "stack"
    <3>1. /\ cr3' = [cr3 EXCEPT ![p] = dir[p]] /\ Goto(p, "undo") /\ Work(p, cr3[p], 0, 0)
          /\ other' = other /\ heap' = heap
      BY <2>5 DEF AfterAlloc, StackReady, BeginDestroy
    <3>2. Moves(p, "undo", cr3[p], 0, 0)
      <4>1. PICK d \in Page \cup {0}, l \in Label : d = cr3[p] /\ l = "undo"
        BY <1>2 DEF Label, Beside
      <4>2. 0 \in 0..Places /\ 0 \in 0..(StackAt + 1)
        BY PlacesSize, Sizes
      <4>3. Moves(p, l, d, 0, 0)
        BY <1>2, <3>1, <4>1, <4>2, MovesOn
      <4> QED
        BY <4>1, <4>3
    <3>3. pc'[p] = "undo" /\ dir'[p] = cr3[p] /\ at'[p] = 0 /\ page'[p] = 0
      BY <3>2 DEF Moves
    <3>4. /\ cr3' \in [Proc -> Page \cup {0}] /\ cr3'[p] = dir[p]
          /\ \A q \in Proc \ {p} : cr3'[q] = cr3[q]
      BY <1>2, <3>1 DEF MemTypes
    <3>5. MemTypes'
      BY <1>1, <1>2, <2>1, <2>3, <3>1, <3>2, <3>4 DEF MemTypes, Moves
    <3>6. OthersQuiet(p)
      BY <1>1, <2>1, <3>1, <3>2, <3>4 DEF OthersQuiet, Quiet, Moves
    <3>7. u = "work" /\ dir[p] = WorkDir(p) /\ WorkDir(p)' = cr3[p] /\ From(p)' = 0
      BY <1>2, <1>3, <2>5, <3>3, <3>4 DEF WorkDir, From, Destroying
    <3>8. /\ Accounted(Vals', used') /\ \A q \in Proc \ {p} : TreesQuiet(q)
          /\ Has("own", p)' = Has("work", p) \cup {at[p]}
      BY <1>1, <1>2, <1>6, <2>1, <2>2, <3>3, <3>4, <3>5, <3>6, <3>7, NewSpace
    <3>9. LabelsOK(p)' /\ WorkOK(p)'
      BY <1>2, <2>5, <3>3, <3>4 DEF LabelsOK, WorkOK, Resting, Beside, Label, Running, Loading, Forking, Reaping
    <3>10. p \notin starved' => FedOK(p)'
      <4>1. SUFFICES ASSUME p \notin starved'  PROVE FedOK(p)'
        OBVIOUS
      <4>2. Has("work", p) = 0..(UpTo(heap[p]) - 1) /\ at[p] = StackAt
        BY <1>2, <2>1, <2>5, <4>1 DEF Local, FedOK, WorkOK
      <4> QED
        BY <3>1, <3>3, <3>8, <4>2 DEF FedOK
    <3> QED
      BY <1>2, <3>3, <3>5, <3>6, <3>8, <3>9, <3>10, Alone DEF Local, OthersQuiet, Forking, Reaping
  <2>6. CASE at[p] + 1 < to[p] /\ Work(p, dir[p], at[p] + 1, to[p]) /\ UNCHANGED <<pc, other, cr3, heap>>
    <3>1. at[p] + 1 \in 0..Places /\ to[p] \in 0..(StackAt + 1) /\ at[p] \in Nat /\ to[p] \in Nat
      BY <1>2, <2>6, PlacesSize, Sizes DEF MemTypes
    <3>2. PICK a \in 0..Places, b \in 0..(StackAt + 1), d \in Page \cup {0} :
            a = at[p] + 1 /\ b = to[p] /\ d = dir[p]
      BY <1>2, <3>1
    <3>3. Work(p, d, a, b)
      BY <2>6, <3>2
    <3>4. /\ dir' \in [Proc -> Page \cup {0}] /\ page' \in [Proc -> Page \cup {0}]
          /\ at' \in [Proc -> 0..(NrPde * (NrPte + 1))] /\ to' \in [Proc -> 0..(StackAt + 1)]
          /\ dir'[p] = d /\ at'[p] = a /\ to'[p] = b /\ page'[p] = 0
          /\ \A q \in Proc \ {p} :
               dir'[q] = dir[q] /\ at'[q] = at[q] /\ to'[q] = to[q] /\ page'[q] = page[q]
      BY <1>2, <3>3, WorkEffect
    <3>5. MemTypes'
      BY <1>1, <1>2, <2>1, <2>3, <2>6, <3>4 DEF MemTypes
    <3>6. OthersQuiet(p)
      BY <1>1, <2>1, <2>6, <3>4 DEF OthersQuiet, Quiet
    <3>7. WorkDir(p)' = WorkDir(p) /\ From(p)' = From(p)
      BY <1>2, <2>6, <3>2, <3>4 DEF WorkDir, From, Destroying
    <3>8. /\ Accounted(Vals', used') /\ \A q \in Proc \ {p} : TreesQuiet(q)
          /\ Has(u, p)' = Has(u, p) \cup {at[p]}
          /\ \A w \in {"own", "work"} \ {u} : Has(w, p)' = Has(w, p)
      BY <1>1, <1>2, <1>3, <1>6, <2>1, <2>2, <2>6, <3>4, <3>5, <3>6, <3>7, TreeGrows
    <3>9. pc[p] # "stack"
      BY <1>2, <2>6, Sizes DEF Local, WorkOK
    <3>10. p \notin starved' => FedOK(p)'
      BY <1>1, <1>3, <2>1, <2>6, <3>2, <3>4, <3>8, <3>9, FedNext
    <3>11. LabelsOK(p)' /\ WorkOK(p)'
      BY <1>2, <2>6, <3>2, <3>4, <3>9 DEF Local, LabelsOK, WorkOK, Resting, Beside, Label, Running, Loading, Forking, Reaping
    <3> QED
      BY <1>2, <2>6, <3>5, <3>6, <3>8, <3>10, <3>11, Alone DEF Local, OthersQuiet, Forking, Reaping
  <2> QED
    BY <2>1, <2>4, <2>5, <2>6
<1> QED
  BY <1>4, <1>5, <1>6 DEF MapFails

-----------------------------------------------------------------------------
\* New directories.

(* A directory without entries.                                             *)
LEMMA EmptyTree ==
  ASSUME NEW e, NEW d \in Page, NEW from \in Int, e[d] = Zero
  PROVE  \A k \in Int : Inside(e, d, from, k) = IF k = -1 THEN d ELSE 0
<1>1. d # 0
  BY Sizes
<1>2. ASSUME NEW k \in Int, k # -1, k \in Place  PROVE Inside(e, d, from, k) = 0
  <2>1. PICK i, j : IsPlace(k, i, j) /\ i \in Index
    BY <1>2, Parts, IsPlaceFacts
  <2>2. e[d][i] = 0
    BY <2>1 DEF Zero
  <2> QED
    BY <2>1, <2>2, InsideAt
<1> QED
  BY <1>1, <1>2 DEF Inside

(* memory_create_uvm.                                                       *)
LEMMA NewDirEffect ==
  ASSUME MemInv, NewDir, FirstFree # 0
  PROVE  /\ FirstFree \in Page \ used /\ used' = used \cup {FirstFree}
         /\ EntriesBut({FirstFree}) /\ entry'[FirstFree] = Zero
         /\ \A u \in Use, p \in Proc, k \in Int : Vals[u][p][k] # FirstFree
         /\ \A p \in Proc : FirstFree # cr3[p]
<1>1. FirstFree \in Page \ used /\ used' = used \cup {FirstFree}
  BY FreePage DEF MemInv, MemTypes, NewDir, addr_alloc_page
<1>2. PICK x \in Page \ used, e \in Entries : x = FirstFree /\ e = entry
  BY <1>1 DEF MemInv, MemTypes
<1>3. Zero \in [Index -> Page \cup {0}]
  BY DEF Zero
<1>4. entry' = [e EXCEPT ![x] = Zero]
  BY <1>2 DEF NewDir
<1>5. /\ entry' \in Entries /\ entry'[x] = Zero /\ \A y \in Page \ {x} : entry'[y] = e[y]
  BY <1>2, <1>3, <1>4 DEF Entries
<1>6. EntriesBut({x})
  BY <1>2, <1>5 DEF EntriesBut
<1>7. \A u \in Use, p \in Proc, k \in Int : Vals[u][p][k] # x
  BY <1>2, FreeIsNowhere
<1>8. ASSUME NEW p \in Proc  PROVE x # cr3[p]
  <2>1. Vals["own"][p][-1] = cr3[p]
    <3>1. Vals["own"][p][-1] = Inside(entry, cr3[p], 0, -1)
      BY Reads
    <3> QED
      BY <3>1 DEF Inside
  <2> QED
    BY <1>7, <2>1 DEF Use
<1> QED
  BY <1>1, <1>2, <1>5, <1>6, <1>7, <1>8

(* A process that has no address space beside its own gets an empty one.    *)
LEMMA DirTaken ==
  ASSUME MemInv, MemTypes', NEW p \in Proc, OthersQuiet(p), NewDir, FirstFree # 0,
         UNCHANGED <<cr3, stack, lost>>, page'[p] = page[p],
         WorkDir(p) = 0, WorkDir(p)' = FirstFree, From(p)' = 0
  PROVE  /\ Accounted(Vals', used')
         /\ \A q \in Proc \ {p} : TreesQuiet(q)
         /\ Has("own", p)' = Has("own", p) /\ Has("work", p)' = {}
<1>1. PICK x \in Page \ used : x = FirstFree
  BY NewDirEffect
<1>2. /\ used' = used \cup {x} /\ EntriesBut({x}) /\ entry'[x] = Zero
      /\ \A u \in Use, q \in Proc, k \in Int : Vals[u][q][k] # x
      /\ MemTypes /\ Accounted(Vals, used)
  BY <1>1, NewDirEffect DEF MemInv
<1>3. ASSUME NEW q \in Proc \ {p}  PROVE TreesQuiet(q)
  <2>1. \A k \in Int : Vals["own"][q][k] \notin {x} /\ Vals["work"][q][k] \notin {x}
    BY <1>2 DEF Use
  <2> QED
    BY <1>2, <2>1, QuietTrees DEF OthersQuiet
<1>4. \A k \in Int : Vals'["own"][p][k] = Vals["own"][p][k]
  <2>1. \A k \in Int : Vals["own"][p][k] \notin {x}
    BY <1>2 DEF Use
  <2> QED
    BY <1>2, <2>1, OwnKept
<1>5. \A k \in Int : Vals["work"][p][k] = 0
  <2>1. \A k \in Int : Vals["work"][p][k] = Inside(entry, WorkDir(p), From(p), k)
    BY Reads
  <2> QED
    BY <2>1 DEF Inside
<1>6. \A k \in Int : Vals'["work"][p][k] = IF k = -1 THEN x ELSE 0
  <2>1. \A k \in Int : Vals'["work"][p][k] = Inside(entry', x, 0, k)
    BY <1>1, ReadsNext
  <2>2. PICK f : f = entry'
    OBVIOUS
  <2>3. \A k \in Int : Inside(f, x, 0, k) = IF k = -1 THEN x ELSE 0
    <3>1. PICK b \in Int : b = 0
      OBVIOUS
    <3>2. \A k \in Int : Inside(f, x, b, k) = IF k = -1 THEN x ELSE 0
      BY <1>2, <2>2, EmptyTree
    <3> QED
      BY <3>1, <3>2
  <2> QED
    BY <2>1, <2>2, <2>3
<1>7. \A q \in Proc : stack'[q] = stack[q] /\ page'[q] = page[q]
  BY DEF OthersQuiet, Quiet
<1>8. ASSUME NEW q \in Proc, NEW k \in Int
      PROVE  /\ Vals'["stack"][q][k] = Vals["stack"][q][k]
             /\ Vals'["page"][q][k] = Vals["page"][q][k]
             /\ Vals'["lost"][q][k] = Vals["lost"][q][k]
  BY <1>7, Reads, ReadsNext
<1>9. ASSUME NEW w \in Use, NEW q \in Proc, NEW k \in Int, ~ (w = "work" /\ q = p /\ k = -1)
      PROVE  Vals'[w][q][k] = Vals[w][q][k]
  BY <1>3, <1>4, <1>5, <1>6, <1>8, <1>9 DEF Use, TreesQuiet
<1>10. PICK V, W, U : V = Vals /\ W = Vals' /\ U = used
  OBVIOUS
<1>11. Accounted(W, U \cup {x})
  <2>1. Accounted(V, U) /\ W \in Books /\ x \in Page \ U
    BY <1>2, <1>10, BooksNext
  <2>2. PICK u \in Use, m \in Int : u = "work" /\ m = -1
    BY DEF Use
  <2>3. OnlyAt(V, W, u, p, m) /\ V[u][p][m] = 0 /\ W[u][p][m] = x
    BY <1>5, <1>6, <1>9, <1>10, <2>2 DEF OnlyAt
  <2> QED
    BY <2>1, <2>3, Taken
<1>12. Has("own", p)' = Has("own", p) /\ Has("work", p)' = {}
  <2>1. \A v \in Vpage : PlaceOf(v) \in Int /\ PlaceOf(v) # -1
    BY PlacesOf DEF Place
  <2> QED
    BY <1>4, <1>6, <2>1 DEF Has
<1> QED
  BY <1>2, <1>3, <1>10, <1>11, <1>12

(* sys_execve takes a page for an empty directory.                          *)
LEMMA ExecDirInv ==
  ASSUME MemInv, NEW p \in Proc, ExecDir(p)
  PROVE  MemInv'
<1>1. /\ MemTypes /\ Local(p) /\ pc[p] = "user" /\ FirstFree # 0 /\ NewDir
      /\ Goto(p, "load") /\ Work(p, FirstFree, 0, 0) /\ UNCHANGED <<space, other, ghosts>>
  BY DEF ExecDir, MemInv
<1>2. dir[p] = 0 /\ page[p] = 0 /\ cr3[p] # 0
  BY <1>1 DEF Local, LabelsOK, Resting, Running
<1>3. /\ FirstFree \in Page \ used /\ used' = used \cup {FirstFree}
      /\ EntriesBut({FirstFree}) /\ FirstFree # cr3[p]
  BY <1>1, NewDirEffect
<1>4. Moves(p, "load", FirstFree, 0, 0)
  <2>1. PICK d \in Page \cup {0}, l \in Label : d = FirstFree /\ l = "load"
    BY <1>3 DEF Label, Beside, Loading
  <2>2. 0 \in 0..Places /\ 0 \in 0..(StackAt + 1)
    BY PlacesSize, Sizes
  <2>3. Moves(p, l, d, 0, 0)
    BY <1>1, <2>1, <2>2, MovesOn
  <2> QED
    BY <2>1, <2>3
<1>5. pc'[p] = "load" /\ dir'[p] = FirstFree /\ at'[p] = 0 /\ page'[p] = 0
  BY <1>4 DEF Moves
<1>6. MemTypes'
  BY <1>1, <1>3, <1>4 DEF MemTypes, Moves, ghosts, space, EntriesBut
<1>7. OthersQuiet(p)
  BY <1>1, <1>4 DEF OthersQuiet, Quiet, Moves, ghosts, space
<1>8. WorkDir(p) = 0 /\ WorkDir(p)' = FirstFree /\ From(p)' = 0
  BY <1>1, <1>2, <1>3, <1>5 DEF WorkDir, From, Destroying, space
<1>9. /\ Accounted(Vals', used') /\ \A q \in Proc \ {p} : TreesQuiet(q)
      /\ Has("own", p)' = Has("own", p) /\ Has("work", p)' = {}
  BY <1>1, <1>2, <1>5, <1>6, <1>7, <1>8, DirTaken DEF space, ghosts
<1>10. LabelsOK(p)' /\ WorkOK(p)'
  <2>1. cr3'[p] = cr3[p] /\ heap'[p] = heap[p] /\ dir'[p] # 0 /\ dir'[p] # cr3'[p]
    BY <1>1, <1>3, <1>5, Sizes DEF space
  <2> QED
    BY <1>2, <1>5, <2>1 DEF LabelsOK, WorkOK, Resting, Beside, Label, Running, Loading, Forking, Reaping
<1>11. p \notin starved' => FedOK(p)'
  BY <1>1, <1>5, <1>9 DEF Local, FedOK, Settled, ghosts, space
<1> QED
  BY <1>1, <1>5, <1>6, <1>7, <1>9, <1>10, <1>11, Alone DEF Local, OthersQuiet, Forking, Reaping

-----------------------------------------------------------------------------
\* sys_fork ends.

\* The child c gets the address space that its parent p has made, and what it
\* had for one, a directory x without entries, gets lost.
HandOver(V, N, p, c, x) ==
  /\ \A k \in Int : V["own"][c][k] = IF k = -1 THEN x ELSE 0
  /\ \A k \in Int : N["own"][c][k] = V["work"][p][k] /\ N["work"][p][k] = 0
  /\ x # 0 => V["lost"][First][x] \in {0, x} /\ N["lost"][First][x] = x
  /\ \A w \in Use, q \in Proc, k \in Int :
       ~ (w = "own" /\ q = c) /\ ~ (w = "work" /\ q = p)
       /\ ~ (x # 0 /\ w = "lost" /\ q = First /\ k = x)
         => N[w][q][k] = V[w][q][k]

(* The books stay in order.                                                 *)
LEMMA HandedOver ==
  ASSUME NEW V, NEW U, Accounted(V, U), NEW N \in Books, NEW p \in Proc, NEW c \in Proc,
         NEW x \in Page \cup {0}, HandOver(V, N, p, c, x)
  PROVE  Accounted(N, U)
<1>1. PICK own \in Use, work \in Use, gone \in Use :
        own = "own" /\ work = "work" /\ gone = "lost" /\ own # work /\ own # gone /\ work # gone
  BY DEF Use
<1>2. PICK m \in Int, f \in Proc : m = -1 /\ f = First
  BY MemoryAssumption
<1>3. PICK Y : Y = [w \in Use |-> [q \in Proc |-> [k \in Int |->
                      IF x # 0 /\ w = own /\ q = c /\ k = m THEN 0
                      ELSE IF x # 0 /\ w = gone /\ q = f /\ k = x THEN x ELSE V[w][q][k]]]]
  OBVIOUS
<1>4. \A w \in Use, q \in Proc, k \in Int :
        Y[w][q][k] = IF x # 0 /\ w = own /\ q = c /\ k = m THEN 0
                     ELSE IF x # 0 /\ w = gone /\ q = f /\ k = x THEN x ELSE V[w][q][k]
  BY <1>3
<1>5. Y \in Books
  <2>1. \A w \in Use, q \in Proc, k \in Int : V[w][q][k] \in Page \cup {0}
    BY DEF Accounted, Books
  <2> QED
    BY <1>3, <2>1 DEF Books
<1>6. Accounted(Y, U)
  <2>1. CASE x = 0
    <3>1. \A w \in Use, q \in Proc, k \in Int : Y[w][q][k] = V[w][q][k]
      BY <1>4, <2>1
    <3> QED
      BY <1>5, <3>1, Untouched
  <2>2. CASE x # 0
    <3>1. PICK i \in Int : i = x
      <4>1. NrPage \in Nat
        BY MemoryAssumption
      <4> QED
        BY <2>2, <4>1 DEF Page
    <3>2. V[own][c][m] = x /\ V[own][c][m] # 0 /\ ~ (own = gone /\ c = f /\ m = i)
      BY <1>1, <1>2, <2>2 DEF HandOver
    <3>3. V[gone][f][i] = 0
      <4>1. V[gone][f][i] # V[own][c][m]
        BY <3>2 DEF Accounted
      <4> QED
        BY <1>1, <1>2, <2>2, <3>1, <3>2, <4>1 DEF HandOver
    <3>4. Y[own][c][m] = 0 /\ Y[gone][f][i] = V[own][c][m]
      BY <1>1, <1>4, <2>2, <3>1, <3>2
    <3>5. \A z \in Use, r \in Proc, k \in Int :
            ~ (z = own /\ r = c /\ k = m) /\ ~ (z = gone /\ r = f /\ k = i) => Y[z][r][k] = V[z][r][k]
      BY <1>4, <3>1
    <3>6. IsMove(V, Y, own, c, m, gone, f, i)
      BY <3>2, <3>3, <3>4, <3>5 DEF IsMove
    <3> QED
      BY <1>5, <3>6, Moved
  <2> QED
    BY <2>1, <2>2
<1>7. \A k \in Int : N[own][c][k] = Y[work][p][k] /\ N[work][p][k] = Y[own][c][k]
  BY <1>1, <1>2, <1>4 DEF HandOver
<1>8. \A z \in Use, r \in Proc, k \in Int :
        ~ (z = own /\ r = c) /\ ~ (z = work /\ r = p) => N[z][r][k] = Y[z][r][k]
  BY <1>1, <1>2, <1>4 DEF HandOver
<1>9. IsSwap(Y, N, own, c, work, p)
  BY <1>7, <1>8 DEF IsSwap
<1> QED
  BY <1>6, <1>9, Swapped

(* The parent and the child of a fork that is about to end.                 *)
LEMMA ForkingFacts ==
  ASSUME MemInv, NEW p \in Proc, pc[p] \in Forking
  PROVE  /\ MemTypes /\ Local(p) /\ cr3[p] # 0 /\ other[p] \in Proc /\ other[p] # p
         /\ pc[other[p]] = "new" /\ dir[other[p]] = 0 /\ page[other[p]] = 0 /\ heap[other[p]] = 0
         /\ \A k \in Int : /\ Vals["own"][other[p]][k] = IF k = -1 THEN cr3[other[p]] ELSE 0
                           /\ Vals["work"][other[p]][k] = 0
         /\ \A q \in Proc \ {p} : pc[q] \in Forking \cup Reaping => other[q] # other[p]
<1>1. MemTypes /\ Local(p) /\ cr3[p] # 0
  BY DEF MemInv, Local, LabelsOK, Running
<1>2. PICK c \in Proc : c = other[p]
  BY <1>1 DEF MemTypes
<1>3. /\ pc[c] = "new" /\ \A k \in Place : Vals["own"][c][k] = 0
      /\ \A q \in Proc \ {p} : pc[q] \in Forking => other[q] # c
  BY <1>2 DEF MemInv, ForksOK
<1>4. c # p
  BY <1>3 DEF Forking
<1>5. dir[c] = 0 /\ page[c] = 0 /\ heap[c] = 0
  BY <1>3 DEF MemInv, Local, LabelsOK, Resting
<1>6. ASSUME NEW k \in Int
      PROVE  /\ Vals["own"][c][k] = IF k = -1 THEN cr3[c] ELSE 0
             /\ Vals["work"][c][k] = 0
  <2>1. WorkDir(c) = 0
    BY <1>5 DEF WorkDir
  <2>2. Vals["work"][c][k] = 0
    <3>1. Vals["work"][c][k] = Inside(entry, WorkDir(c), From(c), k)
      BY Reads
    <3> QED
      BY <2>1, <3>1 DEF Inside
  <2>3. Vals["own"][c][k] = IF k = -1 THEN cr3[c] ELSE 0
    <3>1. Vals["own"][c][k] = Inside(entry, cr3[c], 0, k)
      BY Reads
    <3>2. CASE k \in Place
      <4>1. k # -1
        BY <3>2 DEF Place
      <4> QED
        BY <1>3, <3>2, <4>1
    <3>3. CASE k \notin Place
      BY <3>1, <3>3 DEF Inside
    <3> QED
      BY <3>2, <3>3
  <2> QED
    BY <2>2, <2>3
<1>7. ASSUME NEW q \in Proc \ {p}, pc[q] \in Reaping  PROVE other[q] # c
  <2>1. pc[other[q]] = "gone"
    BY <1>7 DEF MemInv, ForksOK
  <2> QED
    BY <1>3, <2>1
<1> QED
  BY <1>1, <1>2, <1>3, <1>4, <1>5, <1>6, <1>7

\* What ForkEnds does to the parent p, the child c and all others.
ForkEnded(p, c, d) ==
  /\ \A q \in Proc \ {p, c} : Quiet(q)
  /\ cr3'[c] = d /\ cr3'[p] = cr3[p] /\ \A q \in Proc \ {c} : cr3'[q] = cr3[q]
  /\ lost' = lost \cup ({cr3[c]} \ {0})
  /\ pc'[p] = "user" /\ dir'[p] = 0 /\ page'[p] = 0 /\ WorkDir(p)' = 0
  /\ pc'[c] \in {"user", "faulted"} /\ (d = 0 => pc'[c] = "faulted")
  /\ dir'[c] = 0 /\ page'[c] = 0 /\ WorkDir(c)' = 0
  /\ UNCHANGED <<stack, heap, starved>>
  /\ \A q \in Proc \ {p} : page'[q] = page[q]

(* It does so.                                                              *)
LEMMA ForkEndsFacts ==
  ASSUME MemInv, NEW p \in Proc, NEW c \in Proc, c = other[p], pc[p] \in Forking,
         NEW d \in Page \cup {0}, ForkEnds(p, d), used' \subseteq Page, entry' \in Entries
  PROVE  MemTypes' /\ ForkEnded(p, c, d)
<1>1. c = other[p] /\ c # p /\ dir[c] = 0 /\ page[c] = 0 /\ MemTypes
  BY ForkingFacts
<1>2. /\ cr3' = [cr3 EXCEPT ![c] = d] /\ lost' = lost \cup ({cr3[c]} \ {0})
      /\ pc' = [pc EXCEPT ![p] = "user", ![c] = IF d # 0 /\ stack[c] # 0 THEN "user" ELSE "faulted"]
      /\ Work(p, 0, 0, 0) /\ other' = [other EXCEPT ![p] = p] /\ UNCHANGED <<stack, heap, starved>>
  BY <1>1 DEF ForkEnds
<1>3. PICK l \in {"user", "faulted"} : l = IF d # 0 /\ stack[c] # 0 THEN "user" ELSE "faulted"
  OBVIOUS
<1>4. /\ pc' \in [Proc -> Label] /\ pc'[p] = "user" /\ pc'[c] = l
      /\ \A q \in Proc \ {p, c} : pc'[q] = pc[q]
  <2>1. l \in Label /\ "user" \in Label
    BY DEF Label, Resting
  <2>2. pc' = [pc EXCEPT ![p] = "user", ![c] = l]
    BY <1>2, <1>3
  <2> QED
    BY <1>1, <2>1, <2>2 DEF MemTypes
<1>5. /\ dir' \in [Proc -> Page \cup {0}] /\ page' \in [Proc -> Page \cup {0}]
      /\ at' \in [Proc -> 0..(NrPde * (NrPte + 1))] /\ to' \in [Proc -> 0..(StackAt + 1)]
      /\ dir'[p] = 0 /\ at'[p] = 0 /\ to'[p] = 0 /\ page'[p] = 0
      /\ \A q \in Proc \ {p} :
           dir'[q] = dir[q] /\ at'[q] = at[q] /\ to'[q] = to[q] /\ page'[q] = page[q]
  <2>1. 0 \in 0..Places /\ 0 \in 0..(StackAt + 1)
    BY PlacesSize, Sizes
  <2> QED
    BY <1>1, <1>2, <2>1, WorkEffect
<1>6. /\ cr3' \in [Proc -> Page \cup {0}] /\ cr3'[c] = d /\ \A q \in Proc \ {c} : cr3'[q] = cr3[q]
      /\ lost' \subseteq Page
      /\ other' \in [Proc -> Proc] /\ \A q \in Proc \ {p} : other'[q] = other[q]
  BY <1>1, <1>2 DEF MemTypes
<1>7. MemTypes'
  BY <1>1, <1>2, <1>4, <1>5, <1>6 DEF MemTypes
<1>8. \A q \in Proc \ {p, c} : Quiet(q)
  BY <1>2, <1>4, <1>5, <1>6 DEF Quiet
<1>9. WorkDir(p)' = 0 /\ WorkDir(c)' = 0
  BY <1>1, <1>5 DEF WorkDir
<1> QED
  BY <1>1, <1>2, <1>3, <1>4, <1>5, <1>6, <1>7, <1>8, <1>9 DEF ForkEnded

(* sys_fork ends: the child gets the directory d, and what tss_init gave it *)
(* is lost.                                                                 *)
LEMMA ForkEndsInv ==
  ASSUME MemInv, NEW p \in Proc, pc[p] \in Forking, NEW d \in Page \cup {0}, ForkEnds(p, d),
         used' \subseteq Page, entry' \in Entries, Accounted(Vals', used'),
         \A q \in Proc \ {p, other[p]} : TreesQuiet(q), Has("own", p)' = Has("own", p)
  PROVE  MemInv'
<1>1. /\ Local(p) /\ cr3[p] # 0 /\ pc[other[p]] = "new" /\ heap[other[p]] = 0
      /\ \A q \in Proc \ {p} : pc[q] \in Forking \cup Reaping => other[q] # other[p]
  BY ForkingFacts
<1>2. PICK c \in Proc : c = other[p] /\ c # p
  BY ForkingFacts
<1>3. /\ MemTypes' /\ \A q \in Proc \ {p, c} : Quiet(q)
      /\ cr3'[c] = d /\ cr3'[p] = cr3[p]
      /\ pc'[p] = "user" /\ dir'[p] = 0 /\ page'[p] = 0
      /\ pc'[c] \in {"user", "faulted"} /\ (d = 0 => pc'[c] = "faulted")
      /\ dir'[c] = 0 /\ page'[c] = 0 /\ UNCHANGED <<stack, heap, starved>>
  <2>1. MemTypes' /\ ForkEnded(p, c, d)
    BY <1>2, ForkEndsFacts
  <2> QED
    BY <1>2, <2>1 DEF ForkEnded
<1>4. Local(p)'
  <2>1. LabelsOK(p)' /\ WorkOK(p)'
    BY <1>1, <1>3 DEF LabelsOK, WorkOK, Resting, Beside, Label, Running, Loading, Forking, Reaping
  <2>2. p \notin starved' => FedOK(p)'
    BY <1>1, <1>3 DEF Local, FedOK, Settled
  <2> QED
    BY <2>1, <2>2 DEF Local
<1>5. Local(c)'
  <2>1. LabelsOK(c)' /\ WorkOK(c)'
    BY <1>3 DEF LabelsOK, WorkOK, Resting, Beside, Label, Running, Loading, Forking, Reaping
  <2>2. FedOK(c)'
    BY <1>1, <1>2, <1>3 DEF FedOK, Settled, Forking, Reaping
  <2> QED
    BY <2>1, <2>2 DEF Local
<1>6. ASSUME NEW q \in Proc \ {p, c}  PROVE Local(q)'
  BY <1>2, <1>3, QuietLocal
<1>7. \A q \in Proc \ {p} : ForksOK(q)'
  <2>1. pc[p] \notin {"new", "gone"} /\ pc[c] \notin Forking \cup Reaping
    BY <1>1, <1>2 DEF Forking, Reaping
  <2>2. pc'[c] \notin Forking \cup Reaping /\ pc'[p] \notin Forking /\ pc'[p] \notin Reaping
    BY <1>3 DEF Forking, Reaping
  <2> QED
    BY <1>1, <1>2, <1>3, <2>1, <2>2, KinOthers
<1>8. ForksOK(p)'
  BY <1>3 DEF ForksOK, Forking, Reaping
<1> QED
  BY <1>3, <1>4, <1>5, <1>6, <1>7, <1>8 DEF MemInv

\* What is in the books of all but the child c, whose directory x gets lost.
ForkBooks(p, c, x) ==
  /\ \A q \in Proc \ {p, c} : TreesQuiet(q)
  /\ \A k \in Int : Vals'["own"][p][k] = Vals["own"][p][k]
  /\ \A k \in Int : Vals'["work"][p][k] = 0
  /\ x # 0 => Vals'["lost"][First][x] = x
  /\ \A w \in Use, q \in Proc, k \in Int :
       ~ (w = "own" /\ q = c) /\ ~ (w = "work" /\ q = p)
       /\ ~ (x # 0 /\ w = "lost" /\ q = First /\ k = x)
         => Vals'[w][q][k] = Vals[w][q][k]

(* The books when a fork ends, but for the address space that is handed     *)
(* over.                                                                    *)
LEMMA ForkEndsBooks ==
  ASSUME MemInv, NEW p \in Proc, NEW c \in Proc, c = other[p], pc[p] \in Forking,
         NEW x \in Page \cup {0}, x = cr3[c], NEW d \in Page \cup {0}, ForkEnds(p, d),
         used' \subseteq Page, NEW X, X \subseteq Page, EntriesBut(X), page[p] = 0,
         \A q \in Proc, k \in Int :
           Vals["own"][q][k] \notin X /\ (q # p => Vals["work"][q][k] \notin X)
  PROVE  ForkBooks(p, c, x)
<1>1. c = other[p] /\ c # p /\ MemTypes
  BY ForkingFacts
<1>2. \A k \in Int : Vals["work"][c][k] = 0
  BY <1>1, ForkingFacts
<1>3. entry' \in Entries
  BY DEF EntriesBut
<1>4. /\ MemTypes' /\ \A q \in Proc \ {p, c} : Quiet(q)
      /\ \A q \in Proc \ {c} : cr3'[q] = cr3[q]
      /\ lost' = lost \cup ({cr3[c]} \ {0})
      /\ page'[p] = 0 /\ WorkDir(p)' = 0 /\ WorkDir(c)' = 0 /\ stack' = stack
      /\ \A q \in Proc \ {p} : page'[q] = page[q]
  <2>1. MemTypes' /\ ForkEnded(p, c, d)
    BY <1>1, <1>3, ForkEndsFacts
  <2> QED
    BY <2>1 DEF ForkEnded
<1>5. ASSUME NEW q \in Proc \ {p, c}  PROVE TreesQuiet(q)
  <2>1. \A k \in Int : Vals["own"][q][k] \notin X /\ Vals["work"][q][k] \notin X
    OBVIOUS
  <2> QED
    BY <1>1, <1>4, <2>1, QuietTrees
<1>6. \A k \in Int : Vals'["own"][p][k] = Vals["own"][p][k]
  <2>1. cr3'[p] = cr3[p] /\ \A k \in Int : Vals["own"][p][k] \notin X
    BY <1>1, <1>4
  <2> QED
    BY <1>1, <2>1, OwnKept
<1>7. ASSUME NEW q \in {p, c}, NEW k \in Int  PROVE Vals'["work"][q][k] = 0
  <2>1. Vals'["work"][q][k] = Inside(entry', WorkDir(q)', From(q)', k)
    BY <1>1, ReadsNext
  <2>2. WorkDir(q)' = 0
    BY <1>4
  <2> QED
    BY <2>1, <2>2 DEF Inside
<1>8. x = cr3[c] /\ x \in Int /\ lost' = lost \cup ({x} \ {0})
  <2>1. NrPage \in Nat
    BY MemoryAssumption
  <2>2. cr3[c] \in Page \cup {0}
    BY <1>1 DEF MemTypes
  <2>3. cr3[c] \in Int
    BY <2>1, <2>2 DEF Page
  <2> QED
    BY <1>4, <2>2, <2>3
<1>9. ASSUME NEW q \in Proc, NEW k \in Int
      PROVE  /\ Vals'["stack"][q][k] = Vals["stack"][q][k]
             /\ Vals'["page"][q][k] = Vals["page"][q][k]
             /\ ~ (x # 0 /\ q = First /\ k = x) => Vals'["lost"][q][k] = Vals["lost"][q][k]
  <2>1. stack'[q] = stack[q] /\ page'[q] = page[q]
    BY <1>4
  <2>2. ~ (x # 0 /\ q = First /\ k = x) => Vals'["lost"][q][k] = Vals["lost"][q][k]
    <3>1. /\ Vals["lost"][q][k] = IF q = First /\ k \in lost THEN k ELSE 0
          /\ Vals'["lost"][q][k] = IF q = First /\ k \in lost' THEN k ELSE 0
      BY Reads, ReadsNext
    <3> QED
      BY <1>8, <3>1
  <2> QED
    BY <2>1, <2>2, Reads, ReadsNext
<1>10. x # 0 => Vals'["lost"][First][x] = x
  BY <1>8, ReadsNext, MemoryAssumption
<1>11. ASSUME NEW w \in Use, NEW q \in Proc, NEW k \in Int,
              ~ (w = "own" /\ q = c), ~ (w = "work" /\ q = p),
              ~ (x # 0 /\ w = "lost" /\ q = First /\ k = x)
       PROVE  Vals'[w][q][k] = Vals[w][q][k]
  BY <1>2, <1>5, <1>6, <1>7, <1>9, <1>11 DEF Use, TreesQuiet
<1>12. \A q \in Proc \ {p, c} : TreesQuiet(q)
  BY <1>5
<1>13. \A k \in Int : Vals'["work"][p][k] = 0
  BY <1>7
<1>14. \A w \in Use, q \in Proc, k \in Int :
         ~ (w = "own" /\ q = c) /\ ~ (w = "work" /\ q = p)
         /\ ~ (x # 0 /\ w = "lost" /\ q = First /\ k = x)
           => Vals'[w][q][k] = Vals[w][q][k]
  BY <1>11
<1> QED
  BY <1>6, <1>10, <1>12, <1>13, <1>14, Zenon DEF ForkBooks

(* A fork that leaves the tables as they are ends.                          *)
LEMMA ForkEndsKept ==
  ASSUME MemInv, NEW p \in Proc, NEW c \in Proc, c = other[p], pc[p] \in Forking,
         NEW d \in Page \cup {0}, ForkEnds(p, d), UNCHANGED tables, d = WorkDir(p), From(p) = 0, page[p] = 0
  PROVE  MemInv' /\ Has("own", p)' = Has("own", p) /\ Has("own", c)' = Has("work", p)
<1>1. c = other[p] /\ c # p /\ MemTypes
  BY ForkingFacts
<1>2. \A k \in Int : Vals["own"][c][k] = IF k = -1 THEN cr3[c] ELSE 0
  BY <1>1, ForkingFacts
<1>3. entry' = entry /\ used' = used /\ used' \subseteq Page /\ EntriesBut({}) /\ entry' \in Entries
  BY <1>1 DEF tables, MemTypes, EntriesBut
<1>4. PICK x \in Page \cup {0} : x = cr3[c]
  BY <1>1 DEF MemTypes
<1>5. ForkBooks(p, c, x)
  <2>1. PICK X : X = {} /\ X \subseteq Page /\ EntriesBut(X)
    BY <1>3
  <2>2. \A q \in Proc, k \in Int :
           Vals["own"][q][k] \notin X /\ (q # p => Vals["work"][q][k] \notin X)
    BY <2>1
  <2> QED
    BY <1>1, <1>3, <1>4, <2>1, <2>2, ForkEndsBooks
<1>6. cr3'[c] = d /\ MemTypes'
  <2>1. MemTypes' /\ ForkEnded(p, c, d)
    BY <1>1, <1>3, ForkEndsFacts
  <2> QED
    BY <2>1 DEF ForkEnded
<1>7. \A k \in Int : Vals'["own"][c][k] = Vals["work"][p][k]
  BY <1>3, <1>6, Reads, ReadsNext
<1>8. x # 0 => Vals["lost"][First][x] \in {0, x}
  <2>1. x \in Int
    <3>1. NrPage \in Nat
      BY MemoryAssumption
    <3> QED
      BY <3>1 DEF Page
  <2> QED
    BY <2>1, Reads, MemoryAssumption
<1>9. PICK V, N, U : V = Vals /\ N = Vals' /\ U = used
  OBVIOUS
<1>10. HandOver(V, N, p, c, x)
  BY <1>2, <1>4, <1>5, <1>7, <1>8, <1>9 DEF HandOver, ForkBooks
<1>11. Accounted(N, U)
  <2>1. Accounted(V, U) /\ N \in Books
    BY <1>6, <1>9, BooksNext DEF MemInv
  <2> QED
    BY <1>10, <2>1, HandedOver
<1>12. \A v \in Vpage : PlaceOf(v) \in Int
  BY PlacesOf DEF Place
<1>13. Has("own", p)' = Has("own", p) /\ Has("own", c)' = Has("work", p)
  BY <1>5, <1>7, <1>12 DEF Has, ForkBooks
<1>14. Accounted(Vals', used')
  BY <1>3, <1>9, <1>11
<1>15. \A q \in Proc \ {p, other[p]} : TreesQuiet(q)
  BY <1>1, <1>5 DEF ForkBooks
<1>16. MemInv'
  BY <1>3, <1>13, <1>14, <1>15, ForkEndsInv
<1> QED
  BY <1>1, <1>13, <1>16

-----------------------------------------------------------------------------
\* memory_copy_uvm.

(* What is mapped in a directory of one's own.                              *)
LEMMA MappedIsHas ==
  ASSUME MemTypes, NEW p \in Proc, cr3[p] # 0
  PROVE  Mapped(cr3[p]) = Has("own", p) /\ Mapped(cr3[p]) \subseteq Nat /\ Mapped(cr3[p]) \subseteq Vpage
<1>1. PICK e \in Entries, d \in Page : e = entry /\ d = cr3[p]
  BY DEF MemTypes
<1>2. ASSUME NEW v \in Vpage  PROVE Frame(entry, cr3[p], v) = Vals["own"][p][PlaceOf(v)]
  <2>1. Frame(e, d, v) = Inside(e, d, 0, PlaceOf(v))
    BY FrameIsInside
  <2>2. PlaceOf(v) \in Int
    BY PlacesOf DEF Place
  <2> QED
    BY <1>1, <2>1, <2>2, Reads
<1>3. Vpage \subseteq Nat
  BY Sizes
<1> QED
  BY <1>2, <1>3 DEF Mapped, Has

(* memory_copy_uvm takes a page for an empty directory.                     *)
LEMMA CopyDirInv ==
  ASSUME MemInv, NEW p \in Proc, CopyDir(p)
  PROVE  MemInv'
<1>1. pc[p] = "copy_dir" /\ pc[p] \in Forking /\ MemTypes /\ Local(p) /\ cr3[p] # 0
  BY ForkingFacts DEF CopyDir, Forking
<1>2. dir[p] = 0 /\ page[p] = 0 /\ WorkDir(p) = 0 /\ From(p) = 0
  BY <1>1 DEF Local, LabelsOK, Resting, WorkDir, From, Destroying
<1>3. CASE FirstFree = 0
  <2>1. PICK c \in Proc, d \in Page \cup {0} : c = other[p] /\ d = 0
    BY <1>1 DEF MemTypes
  <2>2. ForkEnds(p, d) /\ UNCHANGED tables
    BY <1>3, <2>1 DEF CopyDir
  <2> QED
    BY <1>1, <1>2, <2>1, <2>2, ForkEndsKept
<1>4. CASE FirstFree # 0
  <2>1. /\ NewDir /\ Goto(p, "copy") /\ Work(p, FirstFree, 0, 0) /\ UNCHANGED <<space, other, ghosts>>
    BY <1>4 DEF CopyDir
  <2>2. /\ FirstFree \in Page \ used /\ used' = used \cup {FirstFree}
        /\ EntriesBut({FirstFree}) /\ FirstFree # cr3[p]
    BY <1>4, <2>1, NewDirEffect
  <2>3. Moves(p, "copy", FirstFree, 0, 0)
    <3>1. PICK d \in Page \cup {0}, l \in Label : d = FirstFree /\ l = "copy"
      BY <2>2 DEF Label, Beside
    <3>2. 0 \in 0..Places /\ 0 \in 0..(StackAt + 1)
      BY PlacesSize, Sizes
    <3>3. Moves(p, l, d, 0, 0)
      BY <1>1, <2>1, <3>1, <3>2, MovesOn
    <3> QED
      BY <3>1, <3>3
  <2>4. pc'[p] = "copy" /\ dir'[p] = FirstFree /\ at'[p] = 0 /\ page'[p] = 0
    BY <2>3 DEF Moves
  <2>5. MemTypes'
    BY <1>1, <2>1, <2>2, <2>3 DEF MemTypes, Moves, ghosts, space, EntriesBut
  <2>6. OthersQuiet(p)
    BY <2>1, <2>3 DEF OthersQuiet, Quiet, Moves, ghosts, space
  <2>7. WorkDir(p)' = FirstFree /\ From(p)' = 0
    BY <2>1, <2>2, <2>4 DEF WorkDir, From, Destroying, space
  <2>8. /\ Accounted(Vals', used') /\ \A q \in Proc \ {p} : TreesQuiet(q)
        /\ Has("own", p)' = Has("own", p) /\ Has("work", p)' = {}
    BY <1>2, <1>4, <2>1, <2>4, <2>5, <2>6, <2>7, DirTaken DEF space, ghosts
  <2>9. LabelsOK(p)'
    <3>1. cr3'[p] = cr3[p] /\ dir'[p] # 0 /\ dir'[p] # cr3'[p]
      BY <2>1, <2>2, <2>4, Sizes DEF space
    <3> QED
      BY <1>1, <2>4, <3>1 DEF LabelsOK, Resting, Beside, Label, Running, Loading, Forking, Reaping
  <2>10. WorkOK(p)'
    <3>1. \A v \in Has("own", p)' : ~ (v < 0)
      BY Sizes DEF Has
    <3>2. 0 <= StackAt + 1
      BY Sizes
    <3> QED
      BY <2>4, <2>8, <3>1, <3>2 DEF WorkOK
  <2>11. p \notin starved' => FedOK(p)'
    BY <1>1, <2>1, <2>4, <2>8 DEF Local, FedOK, Settled, Forking, ghosts, space
  <2> QED
    BY <1>1, <2>1, <2>4, <2>5, <2>6, <2>8, <2>9, <2>10, <2>11, Alone DEF Local, OthersQuiet, Forking, Reaping
<1> QED
  BY <1>3, <1>4

(* While a fork copies.                                                     *)
LEMMA CopyingFacts ==
  ASSUME MemInv, NEW p \in Proc, pc[p] = "copy"
  PROVE  /\ pc[p] \in Forking /\ MemTypes /\ Local(p) /\ cr3[p] # 0
         /\ dir[p] \in Page /\ dir[p] # 0 /\ dir[p] # cr3[p] /\ WorkDir(p) = dir[p] /\ From(p) = 0
         /\ at[p] \in Nat /\ at[p] <= StackAt + 1
         /\ page[p] # 0 => at[p] \in Has("own", p)
         /\ Has("work", p) = {v \in Has("own", p) : v < at[p]}
         /\ Has("own", p) = Mapped(cr3[p]) /\ Has("own", p) \subseteq Nat /\ Has("own", p) \subseteq Vpage
<1>1. pc[p] \in Forking /\ MemTypes /\ Local(p) /\ cr3[p] # 0
  BY ForkingFacts DEF Forking
<1>2. dir[p] # 0 /\ dir[p] # cr3[p] /\ WorkDir(p) = dir[p] /\ From(p) = 0
  BY <1>1 DEF Local, LabelsOK, Beside, WorkDir, From, Destroying
<1>3. dir[p] \in Page /\ at[p] \in Nat
  BY <1>1, <1>2, PlacesSize DEF MemTypes, Places
<1>4. /\ at[p] <= StackAt + 1 /\ (page[p] # 0 => at[p] \in Has("own", p))
      /\ Has("work", p) = {v \in Has("own", p) : v < at[p]}
  BY <1>1 DEF Local, WorkOK
<1> QED
  BY <1>1, <1>2, <1>3, <1>4, MappedIsHas

(* memory_copy_uvm has run out of memory.                                   *)
LEMMA CopyFails ==
  ASSUME MemInv, NEW p \in Proc, pc[p] = "copy", BeginDestroy(p, dir[p], "copy_undo"),
         UNCHANGED <<tables, space, starved>>,
         \/ page[p] = 0 /\ lost' = lost
         \/ page[p] # 0 /\ lost' = lost \cup {page[p]}
  PROVE  MemInv'
<1>1. /\ MemTypes /\ Local(p) /\ cr3[p] # 0 /\ dir[p] \in Page /\ dir[p] # 0 /\ dir[p] # cr3[p]
      /\ From(p) = 0 /\ WorkDir(p) = dir[p]
  BY CopyingFacts
<1>2. Goto(p, "copy_undo") /\ Work(p, dir[p], 0, 0) /\ other' = other
  BY DEF BeginDestroy
<1>3. Moves(p, "copy_undo", dir[p], 0, 0)
  <2>1. PICK d \in Page \cup {0}, l \in Label : d = dir[p] /\ l = "copy_undo"
    BY <1>1 DEF Label, Beside
  <2>2. 0 \in 0..Places /\ 0 \in 0..(StackAt + 1)
    BY PlacesSize, Sizes
  <2>3. Moves(p, l, d, 0, 0)
    BY <1>1, <1>2, <2>1, <2>2, MovesOn
  <2> QED
    BY <2>1, <2>3
<1>4. pc'[p] = "copy_undo" /\ dir'[p] = dir[p] /\ at'[p] = 0 /\ page'[p] = 0
  BY <1>3 DEF Moves
<1>5. MemTypes'
  <2>1. lost' \subseteq Page
    BY <1>1 DEF MemTypes
  <2> QED
    BY <1>1, <1>2, <1>3, <2>1 DEF MemTypes, Moves, tables, space
<1>6. OthersQuiet(p)
  BY <1>2, <1>3 DEF OthersQuiet, Quiet, Moves, space
<1>7. WorkDir(p)' = WorkDir(p) /\ From(p)' = From(p)
  BY <1>1, <1>4 DEF WorkDir, From, Destroying, space
<1>8. Accounted(Vals', used') /\ \A q \in Proc : TreesQuiet(q)
  <2>1. CASE page[p] = 0 /\ lost' = lost
    BY <1>4, <1>5, <1>6, <1>7, <2>1, BooksKept DEF space
  <2>2. CASE page[p] # 0 /\ lost' = lost \cup {page[p]}
    BY <1>4, <1>5, <1>6, <1>7, <2>2, PageLost DEF space
  <2> QED
    BY <2>1, <2>2
<1>9. Has("own", p)' = Has("own", p)
  BY <1>8, HasKept
<1>10. LabelsOK(p)' /\ WorkOK(p)'
  <2>1. cr3'[p] = cr3[p]
    BY DEF space
  <2> QED
    BY <1>1, <1>4, <2>1 DEF LabelsOK, WorkOK, Resting, Beside, Label, Running, Loading, Forking, Reaping
<1>11. p \notin starved' => FedOK(p)'
  BY <1>1, <1>4, <1>9 DEF Local, FedOK, Settled, Forking, space
<1> QED
  BY <1>1, <1>2, <1>4, <1>5, <1>6, <1>8, <1>10, <1>11, Alone DEF Local, OthersQuiet, Forking, Reaping

(* The next page to copy.                                                   *)
LEMMA NextCopyIs ==
  ASSUME MemInv, NEW p \in Proc, pc[p] = "copy", ToCopy(p) # {}
  PROVE  /\ NextCopy(p) \in Has("own", p) /\ NextCopy(p) \in 0..StackAt
         /\ Has("work", p) = {v \in Has("own", p) : v < NextCopy(p)}
<1>1. /\ at[p] \in Nat /\ Has("own", p) = Mapped(cr3[p]) /\ Has("own", p) \subseteq Nat
      /\ Has("own", p) \subseteq Vpage /\ Has("work", p) = {v \in Has("own", p) : v < at[p]}
  BY CopyingFacts
<1>2. ToCopy(p) = {v \in Has("own", p) : v >= at[p]} /\ ToCopy(p) \in SUBSET Nat
  BY <1>1 DEF ToCopy
<1>3. \E v \in ToCopy(p) : \A u \in ToCopy(p) : v <= u
  BY <1>2, NatMin
<1>4. PICK n : n = NextCopy(p)
  OBVIOUS
<1>5. n \in ToCopy(p) /\ \A u \in ToCopy(p) : n <= u
  BY <1>3, <1>4 DEF NextCopy
<1>6. n \in Has("own", p) /\ n >= at[p] /\ n \in Nat /\ n \in 0..StackAt
  BY <1>1, <1>2, <1>5, Sizes
<1>7. ASSUME NEW v \in Has("own", p)  PROVE v < at[p] <=> v < n
  <2>1. v \in Nat /\ (v >= at[p] => n <= v)
    BY <1>1, <1>2, <1>5
  <2> QED
    BY <1>1, <1>6, <2>1
<1> QED
  BY <1>1, <1>4, <1>6, <1>7

(* It takes a page for the next that is mapped in the parent.               *)
LEMMA CopyPageInv ==
  ASSUME MemInv, NEW p \in Proc, CopyPage(p)
  PROVE  MemInv'
<1>1. /\ pc[p] = "copy" /\ page[p] = 0 /\ ToCopy(p) # {} /\ addr_alloc_page
      /\ UNCHANGED <<entry, space, ghosts>>
  BY DEF CopyPage
<1>2. CASE FirstFree = 0
  <2>1. BeginDestroy(p, dir[p], "copy_undo") /\ used' = used
    BY <1>1, <1>2 DEF CopyPage, addr_alloc_page
  <2> QED
    BY <1>1, <2>1, CopyFails DEF tables, ghosts
<1>3. CASE FirstFree # 0
  <2>1. /\ page' = [page EXCEPT ![p] = FirstFree] /\ at' = [at EXCEPT ![p] = NextCopy(p)]
        /\ UNCHANGED <<pc, dir, to, other>> /\ used' = used \cup {FirstFree}
    BY <1>1, <1>3 DEF CopyPage, addr_alloc_page
  <2>2. /\ MemTypes /\ Local(p) /\ cr3[p] # 0 /\ From(p) = 0
    BY <1>1, CopyingFacts
  <2>3. /\ NextCopy(p) \in Has("own", p) /\ NextCopy(p) \in 0..StackAt
        /\ Has("work", p) = {v \in Has("own", p) : v < NextCopy(p)}
    BY <1>1, NextCopyIs
  <2>4. PICK n \in 0..Places : n = NextCopy(p) /\ n <= StackAt + 1
    BY <2>3, PlacesSize, Sizes
  <2>5. FirstFree \in Page \ used
    BY <1>3, <2>2, FreePage DEF MemTypes
  <2>6. /\ page' \in [Proc -> Page \cup {0}] /\ page'[p] = FirstFree
        /\ \A q \in Proc \ {p} : page'[q] = page[q]
    BY <2>1, <2>2, <2>5 DEF MemTypes
  <2>7. /\ at' \in [Proc -> 0..(NrPde * (NrPte + 1))] /\ at'[p] = n
        /\ \A q \in Proc \ {p} : at'[q] = at[q]
    <3>1. at \in [Proc -> 0..Places]
      BY <2>2 DEF MemTypes, Places
    <3>2. at' \in [Proc -> 0..Places] /\ at'[p] = n /\ \A q \in Proc \ {p} : at'[q] = at[q]
      BY <2>1, <2>4, <3>1
    <3> QED
      BY <3>2 DEF Places
  <2>8. MemTypes'
    BY <1>1, <2>1, <2>2, <2>5, <2>6, <2>7 DEF MemTypes, space, ghosts
  <2>9. OthersQuiet(p)
    BY <1>1, <2>1, <2>6, <2>7 DEF OthersQuiet, Quiet, space, ghosts
  <2>10. WorkDir(p)' = WorkDir(p) /\ From(p)' = From(p)
    BY <1>1, <2>1 DEF WorkDir, From, Destroying, space
  <2>11. Accounted(Vals', used') /\ \A q \in Proc : TreesQuiet(q)
    BY <1>1, <1>3, <2>1, <2>6, <2>8, <2>9, <2>10, PageTaken DEF space, ghosts
  <2>12. Has("own", p)' = Has("own", p) /\ Has("work", p)' = Has("work", p)
    BY <2>11, HasKept
  <2>13. pc'[p] = "copy" /\ dir'[p] = dir[p] /\ cr3'[p] = cr3[p]
    BY <1>1, <2>1 DEF space
  <2>14. LabelsOK(p)'
    BY <1>1, <2>2, <2>13 DEF Local, LabelsOK, Resting, Beside, Label, Running, Loading, Forking, Reaping
  <2>15. WorkOK(p)'
    BY <2>3, <2>4, <2>7, <2>12, <2>13 DEF WorkOK
  <2>16. p \notin starved' => FedOK(p)'
    BY <1>1, <2>2, <2>12, <2>13 DEF Local, FedOK, Settled, Forking, space, ghosts
  <2> QED
    BY <1>1, <2>1, <2>8, <2>9, <2>11, <2>13, <2>14, <2>15, <2>16, Alone DEF Local, OthersQuiet, Forking, Reaping
<1> QED
  BY <1>2, <1>3

(* It maps it in the child.                                                 *)
LEMMA CopyMapInv ==
  ASSUME MemInv, NEW p \in Proc, CopyMap(p)
  PROVE  MemInv'
<1>1. pc[p] = "copy" /\ page[p] # 0 /\ UNCHANGED <<space, starved>>
  BY DEF CopyMap
<1>2. CASE MapFails(dir[p], at[p])
  <2>1. BeginDestroy(p, dir[p], "copy_undo") /\ lost' = lost \cup {page[p]} /\ UNCHANGED tables
    BY <1>2 DEF CopyMap
  <2> QED
    BY <1>1, <2>1, CopyFails
<1>3. CASE ~ MapFails(dir[p], at[p])
  <2>1. /\ memory_create_map(dir[p], at[p], page[p]) /\ Work(p, dir[p], at[p] + 1, 0)
        /\ UNCHANGED <<pc, other, lost>>
    BY <1>3 DEF CopyMap
  <2>2. /\ pc[p] \in Forking /\ MemTypes /\ Local(p) /\ cr3[p] # 0
        /\ dir[p] \in Page /\ dir[p] # 0 /\ dir[p] # cr3[p] /\ WorkDir(p) = dir[p] /\ From(p) = 0
        /\ at[p] \in Has("own", p)
        /\ Has("work", p) = {v \in Has("own", p) : v < at[p]}
        /\ Has("own", p) \subseteq Nat /\ Has("own", p) \subseteq Vpage /\ page[p] \in Page
    BY <1>1, CopyingFacts DEF MemTypes
  <2>3. PICK d \in Page, v \in Vpage, x \in Page : d = dir[p] /\ v = at[p] /\ x = page[p] /\ v \in Nat
    BY <2>2
  <2>4. /\ v \notin Has("work", p) /\ v \in Has("own", p)
        /\ Has("work", p) = {y \in Has("own", p) : y < v}
    BY <2>2, <2>3
  <2>5. "work" \in {"own", "work"} /\ "own" \in {"own", "work"} \ {"work"} /\ "work" \in Use
    BY DEF Use
  <2>6. Vals["work"][p][PlaceOf(v)] = 0
    BY <2>4 DEF Has
  <2>7. used' \subseteq Page /\ entry' \in Entries
    <3>1. \A k \in Int : Vals["work"][p][k] = Inside(entry, d, 0, k)
      BY <2>2, <2>3, Reads
    <3>2. ~ MapFails(d, v) /\ memory_create_map(d, v, x)
      BY <1>3, <2>1, <2>3
    <3>3. \E t \in Page, X \in SUBSET Page : EntriesBut(X) /\ (used' = used \cup {t} \/ used' = used)
      BY <2>5, <3>1, <3>2, MapEffect
    <3> QED
      BY <2>2, <3>3 DEF EntriesBut, MemTypes
  <2>8. PICK a \in 0..Places, b \in 0..(StackAt + 1), z \in Page \cup {0} :
          a = at[p] + 1 /\ b = 0 /\ z = dir[p] /\ a <= StackAt + 1
    <3>1. at[p] + 1 \in 0..Places /\ at[p] + 1 <= StackAt + 1 /\ 0 \in 0..(StackAt + 1)
      BY <2>3, PlacesSize, Sizes
    <3> QED
      BY <2>2, <3>1
  <2>9. Work(p, z, a, b)
    BY <2>1, <2>8
  <2>10. /\ dir' \in [Proc -> Page \cup {0}] /\ page' \in [Proc -> Page \cup {0}]
         /\ at' \in [Proc -> 0..(NrPde * (NrPte + 1))] /\ to' \in [Proc -> 0..(StackAt + 1)]
         /\ dir'[p] = z /\ at'[p] = a /\ page'[p] = 0
         /\ \A q \in Proc \ {p} :
              dir'[q] = dir[q] /\ at'[q] = at[q] /\ to'[q] = to[q] /\ page'[q] = page[q]
    BY <2>2, <2>9, WorkEffect
  <2>11. MemTypes'
    BY <1>1, <2>1, <2>2, <2>7, <2>10 DEF MemTypes, space
  <2>12. OthersQuiet(p)
    BY <1>1, <2>1, <2>10 DEF OthersQuiet, Quiet, space
  <2>13. pc'[p] = "copy" /\ dir'[p] = dir[p] /\ cr3'[p] = cr3[p]
    BY <1>1, <2>1, <2>8, <2>10 DEF space
  <2>14. WorkDir(p)' = WorkDir(p) /\ From(p)' = From(p)
    BY <1>1, <2>13 DEF WorkDir, From, Destroying
  <2>15. PICK u \in {"own", "work"} : u = "work"
    BY <2>5
  <2>16. /\ Accounted(Vals', used') /\ \A q \in Proc \ {p} : TreesQuiet(q)
         /\ Has(u, p)' = Has(u, p) \cup {v}
         /\ \A w \in {"own", "work"} \ {u} : Has(w, p)' = Has(w, p)
    <3>1. u = "own" => d = cr3[p]
      BY <2>15
    <3>2. u = "work" => d = WorkDir(p) /\ From(p) = 0
      BY <2>2, <2>3
    <3>3. Vals[u][p][PlaceOf(v)] = 0 /\ ~ MapFails(d, v) /\ memory_create_map(d, v, page[p])
      BY <1>3, <2>1, <2>3, <2>6, <2>15
    <3>4. page[p] # 0 /\ page'[p] = 0 /\ UNCHANGED <<cr3, stack, lost>>
      BY <1>1, <2>1, <2>10 DEF space
    <3> QED
      BY <2>11, <2>12, <2>14, <3>1, <3>2, <3>3, <3>4, TreeGrows
  <2>17. Has("own", p)' = Has("own", p) /\ Has("work", p)' = Has("work", p) \cup {v}
    BY <2>5, <2>15, <2>16
  <2>18. Has("work", p)' = {y \in Has("own", p)' : y < a}
    <3>1. \A y \in Has("own", p) : y < a <=> y < v \/ y = v
      BY <2>2, <2>3, <2>8
    <3> QED
      BY <2>4, <2>17, <3>1
  <2>19. LabelsOK(p)'
    BY <1>1, <2>2, <2>13 DEF Local, LabelsOK, Resting, Beside, Label, Running, Loading, Forking, Reaping
  <2>20. WorkOK(p)'
    BY <2>8, <2>10, <2>13, <2>18 DEF WorkOK
  <2>21. p \notin starved' => FedOK(p)'
    BY <1>1, <2>2, <2>13, <2>17 DEF Local, FedOK, Settled, Forking, space
  <2> QED
    BY <1>1, <2>1, <2>2, <2>11, <2>12, <2>13, <2>16, <2>19, <2>20, <2>21, Alone DEF Local, OthersQuiet, Forking, Reaping
<1> QED
  BY <1>2, <1>3

(* memory_copy_uvm is done, and the child has what its parent has.          *)
LEMMA CopyDoneInv ==
  ASSUME MemInv, NEW p \in Proc, NEW c \in Proc, c = other[p], CopyDone(p)
  PROVE  /\ MemInv' /\ cr3[p] # 0 /\ cr3'[c] # 0
         /\ Has("own", c)' = Has("own", p) /\ pc'[p] = "user"
         /\ \A q \in Proc \ {p} : pc'[q] = pc[q] \/ q = c
<1>1. pc[p] = "copy" /\ page[p] = 0 /\ ToCopy(p) = {} /\ ForkEnds(p, dir[p]) /\ UNCHANGED tables
  BY DEF CopyDone
<1>2. /\ pc[p] \in Forking /\ MemTypes /\ cr3[p] # 0 /\ dir[p] \in Page /\ dir[p] # 0
      /\ WorkDir(p) = dir[p] /\ From(p) = 0 /\ at[p] \in Nat
      /\ Has("work", p) = {v \in Has("own", p) : v < at[p]}
      /\ Has("own", p) = Mapped(cr3[p]) /\ Has("own", p) \subseteq Nat
  BY <1>1, CopyingFacts
<1>3. Has("work", p) = Has("own", p)
  <2>1. \A v \in Has("own", p) : v < at[p]
    BY <1>1, <1>2 DEF ToCopy
  <2> QED
    BY <1>2, <2>1
<1>4. PICK d \in Page \cup {0} : d = dir[p]
  BY <1>2
<1>5. ForkEnds(p, d) /\ d = WorkDir(p)
  BY <1>1, <1>2, <1>4
<1>6. MemInv' /\ Has("own", c)' = Has("work", p)
  BY <1>1, <1>2, <1>5, ForkEndsKept
<1>7. used' \subseteq Page /\ entry' \in Entries
  BY <1>1, <1>2 DEF tables, MemTypes
<1>8. ForkEnded(p, c, d)
  BY <1>2, <1>5, <1>7, ForkEndsFacts
<1>9. cr3'[c] # 0 /\ pc'[p] = "user" /\ \A q \in Proc \ {p} : pc'[q] = pc[q] \/ q = c
  BY <1>2, <1>4, <1>8 DEF ForkEnded, Quiet
<1> QED
  BY <1>2, <1>3, <1>6, <1>9

-----------------------------------------------------------------------------
\* Kernel stacks.

(* The address spaces of q do not change.                                   *)
LEMMA TreesKept ==
  ASSUME MemTypes, NEW X, X \subseteq Page, EntriesBut(X), NEW q \in Proc,
         cr3'[q] = cr3[q], WorkDir(q)' = WorkDir(q), From(q)' = From(q),
         \A k \in Int : Vals["own"][q][k] \notin X /\ Vals["work"][q][k] \notin X
  PROVE  TreesQuiet(q)
<1>1. \A k \in Int : Vals'["own"][q][k] = Vals["own"][q][k]
  BY OwnKept
<1>2. \A k \in Int : Vals'["work"][q][k] = Vals["work"][q][k]
  BY WorkKept
<1> QED
  BY <1>1, <1>2 DEF TreesQuiet

(* Only the stack of c is another one.                                      *)
LEMMA StackBooks ==
  ASSUME NEW c \in Proc, \A q \in Proc : TreesQuiet(q), UNCHANGED <<page, lost>>,
         \A q \in Proc \ {c} : stack'[q] = stack[q]
  PROVE  /\ OnlyAt(Vals, Vals', "stack", c, 0)
         /\ Vals["stack"][c][0] = stack[c] /\ Vals'["stack"][c][0] = stack'[c]
<1>1. ASSUME NEW q \in Proc, NEW k \in Int
      PROVE  /\ ~ (q = c /\ k = 0) => Vals'["stack"][q][k] = Vals["stack"][q][k]
             /\ Vals'["page"][q][k] = Vals["page"][q][k]
             /\ Vals'["lost"][q][k] = Vals["lost"][q][k]
  BY Reads, ReadsNext
<1>2. OnlyAt(Vals, Vals', "stack", c, 0)
  BY <1>1 DEF Use, TreesQuiet, OnlyAt
<1> QED
  BY <1>2, Reads, ReadsNext

(* A stack, or no page, is given back.                                      *)
LEMMA StackFreed ==
  ASSUME MemInv, MemTypes', NEW c \in Proc, addr_free_page(stack[c]), stack'[c] = 0,
         UNCHANGED <<cr3, page, lost>>, \A q \in Proc \ {c} : stack'[q] = stack[q],
         \A q \in Proc : WorkDir(q)' = WorkDir(q) /\ From(q)' = From(q)
  PROVE  Accounted(Vals', used') /\ \A q \in Proc : TreesQuiet(q)
<1>1. MemTypes /\ Accounted(Vals, used)
  BY DEF MemInv
<1>2. PICK x \in Page \cup {0}, e \in Entries : x = stack[c] /\ e = entry
  BY <1>1 DEF MemTypes
<1>3. used' = used \ {x} /\ entry' = [e EXCEPT ![x] = Junk]
  BY <1>2 DEF addr_free_page
<1>4. PICK X : X = {x} \ {0}
  OBVIOUS
<1>5. X \subseteq Page /\ EntriesBut(X)
  <2>1. entry' \in Entries
    BY DEF MemTypes
  <2>2. \A y \in Page \ X : entry'[y] = e[y]
    BY <1>3, <1>4, Sizes DEF Entries
  <2> QED
    BY <1>2, <1>4, <2>1, <2>2 DEF EntriesBut
<1>6. Vals["stack"][c][0] = x /\ "stack" \in Use /\ "own" \in Use /\ "work" \in Use /\ 0 \in Int
  BY <1>2, Reads DEF Use
<1>7. ASSUME NEW q \in Proc  PROVE TreesQuiet(q)
  <2>1. ASSUME NEW k \in Int  PROVE Vals["own"][q][k] \notin X /\ Vals["work"][q][k] \notin X
    <3>1. CASE x = 0
      BY <1>4, <3>1
    <3>2. CASE x # 0
      <4>1. Vals["stack"][c][0] # 0
        BY <1>6, <3>2
      <4>2. /\ Vals["own"][q][k] # Vals["stack"][c][0]
            /\ Vals["work"][q][k] # Vals["stack"][c][0]
        BY <1>6, <4>1, OnlyPlace
      <4> QED
        BY <1>4, <1>6, <4>2
    <3> QED
      BY <3>1, <3>2
  <2> QED
    BY <1>1, <1>5, <2>1, TreesKept
<1>8. /\ OnlyAt(Vals, Vals', "stack", c, 0) /\ Vals'["stack"][c][0] = 0
  BY <1>7, StackBooks
<1>9. PICK V, W, U : V = Vals /\ W = Vals' /\ U = used
  OBVIOUS
<1>10. Accounted(W, U \ {x})
  <2>1. PICK u \in Use, k \in Int : u = "stack" /\ k = 0
    BY <1>6
  <2>2. /\ Accounted(V, U) /\ W \in Books /\ OnlyAt(V, W, u, c, k)
        /\ V[u][c][k] = x /\ W[u][c][k] = 0
    BY <1>1, <1>6, <1>8, <1>9, <2>1, BooksNext
  <2>3. CASE x # 0
    BY <2>2, <2>3, Freed
  <2>4. CASE x = 0
    <3>1. \A w \in Use, q \in Proc, j \in Int : W[w][q][j] = V[w][q][j]
      BY <2>2, <2>4 DEF OnlyAt
    <3>2. Accounted(W, U)
      BY <2>2, <3>1, Untouched
    <3>3. U \ {x} = U
      BY <1>1, <1>9, <2>4, Sizes DEF MemTypes
    <3> QED
      BY <3>2, <3>3
  <2> QED
    BY <2>3, <2>4
<1> QED
  BY <1>3, <1>7, <1>9, <1>10

(* tss_init takes a kernel stack for the child.                             *)
LEMMA ForkStackInv ==
  ASSUME MemInv, NEW p \in Proc, NEW c \in Proc, ForkStack(p, c)
  PROVE  MemInv'
<1>1. /\ MemTypes /\ Accounted(Vals, used) /\ Local(p) /\ Local(c) /\ pc[p] = "user" /\ pc[c] = "none"
      /\ \A q \in Proc : pc[q] \notin Reaping
      /\ addr_alloc_page /\ UNCHANGED <<entry, cr3, heap, dir, at, to, page, ghosts>>
  BY DEF MemInv, ForkStack, TableFree, Reaping
<1>2. PICK x \in Page \cup {0}, l \in {"copy_dir", "fork_dir"} :
        x = FirstFree /\ l = IF x = 0 THEN "copy_dir" ELSE "fork_dir"
  <2>1. FirstFree \in Page \cup {0}
    BY <1>1, FreePage DEF MemTypes
  <2> QED
    BY <2>1
<1>3. /\ stack' = [stack EXCEPT ![c] = x] /\ other' = [other EXCEPT ![p] = c]
      /\ pc' = [pc EXCEPT ![p] = l, ![c] = "new"]
      /\ used' = IF x = 0 THEN used ELSE used \cup {x}
  BY <1>1, <1>2 DEF ForkStack, addr_alloc_page
<1>4. c # p /\ l \in Label /\ "new" \in Label /\ l \in Forking /\ l \in Resting /\ l \notin Beside
  BY <1>1 DEF Label, Resting, Forking, Beside, Loading
<1>5. /\ stack' \in [Proc -> Page \cup {0}] /\ stack'[c] = x /\ \A q \in Proc \ {c} : stack'[q] = stack[q]
      /\ other' \in [Proc -> Proc] /\ other'[p] = c /\ \A q \in Proc \ {p} : other'[q] = other[q]
      /\ pc' \in [Proc -> Label] /\ pc'[p] = l /\ pc'[c] = "new" /\ \A q \in Proc \ {p, c} : pc'[q] = pc[q]
  BY <1>1, <1>3, <1>4 DEF MemTypes
<1>6. MemTypes'
  BY <1>1, <1>3, <1>5 DEF MemTypes, ghosts
<1>7. \A q \in Proc \ {p, c} : Quiet(q)
  BY <1>1, <1>5 DEF Quiet, ghosts
<1>8. ASSUME NEW q \in Proc  PROVE TreesQuiet(q)
  <2>1. Destroying(q)' <=> Destroying(q)
    BY <1>1, <1>2, <1>5 DEF Destroying
  <2>2. cr3'[q] = cr3[q] /\ WorkDir(q)' = WorkDir(q) /\ From(q)' = From(q)
    BY <1>1, <2>1 DEF WorkDir, From
  <2>3. EntriesBut({})
    BY <1>1 DEF EntriesBut, MemTypes
  <2> QED
    BY <1>1, <2>2, <2>3, TreesKept
<1>9. Accounted(Vals', used')
  <2>1. /\ OnlyAt(Vals, Vals', "stack", c, 0)
        /\ Vals["stack"][c][0] = stack[c] /\ Vals'["stack"][c][0] = x
    BY <1>1, <1>5, <1>8, StackBooks DEF ghosts
  <2>2. stack[c] = 0
    BY <1>1 DEF Local, LabelsOK
  <2>3. PICK V, W, U : V = Vals /\ W = Vals' /\ U = used
    OBVIOUS
  <2>4. PICK u \in Use, k \in Int : u = "stack" /\ k = 0
    BY DEF Use
  <2>5. /\ Accounted(V, U) /\ W \in Books /\ OnlyAt(V, W, u, c, k)
        /\ V[u][c][k] = 0 /\ W[u][c][k] = x
    BY <1>1, <1>6, <2>1, <2>2, <2>3, <2>4, BooksNext
  <2>6. CASE x = 0
    <3>1. \A w \in Use, q \in Proc, j \in Int : W[w][q][j] = V[w][q][j]
      BY <2>5, <2>6 DEF OnlyAt
    <3> QED
      BY <1>3, <2>3, <2>5, <2>6, <3>1, Untouched
  <2>7. CASE x # 0
    <3>1. x \in Page \ U
      BY <1>1, <1>2, <2>3, <2>7, FreePage DEF MemTypes
    <3>2. Accounted(W, U \cup {x})
      BY <2>5, <3>1, Taken
    <3> QED
      BY <1>3, <2>3, <2>7, <3>2
  <2> QED
    BY <2>6, <2>7
<1>10. Has("own", p)' = Has("own", p)
  BY <1>8, HasKept
<1>11. Local(p)'
  <2>1. cr3'[p] = cr3[p] /\ dir'[p] = dir[p] /\ page'[p] = page[p] /\ heap'[p] = heap[p]
    BY <1>1
  <2>2. cr3[p] # 0 /\ dir[p] = 0 /\ page[p] = 0
    BY <1>1 DEF Local, LabelsOK, Resting, Running
  <2>3. LabelsOK(p)' /\ WorkOK(p)'
    BY <1>2, <1>4, <1>5, <2>1, <2>2 DEF LabelsOK, WorkOK
  <2>4. p \notin starved' => FedOK(p)'
    BY <1>1, <1>2, <1>4, <1>5, <1>10, <2>1 DEF Local, FedOK, Settled, ghosts
  <2> QED
    BY <2>3, <2>4 DEF Local
<1>12. Local(c)'
  <2>1. LabelsOK(c)' /\ WorkOK(c)'
    BY <1>1, <1>5 DEF Local, LabelsOK, WorkOK, Resting, Beside, Running, Loading, Forking, Reaping
  <2>2. FedOK(c)'
    BY <1>5 DEF FedOK, Settled, Forking, Reaping
  <2> QED
    BY <2>1, <2>2 DEF Local
<1>13. ASSUME NEW q \in Proc \ {p, c}  PROVE Local(q)'
  BY <1>7, <1>8, QuietLocal
<1>14. ASSUME NEW q \in Proc \ {p}, pc[q] \in Forking \cup Reaping  PROVE other[q] # c
  <2>1. pc[q] \in Forking
    BY <1>1, <1>14
  <2>2. pc[other[q]] = "new"
    BY <2>1 DEF MemInv, ForksOK
  <2> QED
    BY <1>1, <2>2
<1>15. \A q \in Proc \ {p} : ForksOK(q)'
  <2>1. pc[p] \notin {"new", "gone"} /\ pc[c] \notin Forking \cup Reaping /\ pc'[c] \notin Forking \cup Reaping
    BY <1>1, <1>5 DEF Forking, Reaping
  <2>2. pc'[p] \in Forking => \A q \in Proc \ {p} : pc[q] \in Forking => other[q] # other'[p]
    BY <1>5, <1>14
  <2>3. pc'[p] \in Reaping => \A q \in Proc \ {p} : pc[q] \notin Reaping
    BY <1>1
  <2> QED
    BY <1>7, <1>8, <1>14, <2>1, <2>2, <2>3, KinOthers
<1>16. ForksOK(p)'
  <2>1. cr3[c] = 0 /\ cr3'[c] = 0
    BY <1>1 DEF Local, LabelsOK
  <2>2. \A k \in Place : Vals'["own"][c][k] = 0
    <3>1. \A k \in Int : Vals'["own"][c][k] = Inside(entry', cr3'[c], 0, k)
      BY ReadsNext
    <3>2. Place \subseteq Int
      BY DEF Place
    <3> QED
      BY <2>1, <3>1, <3>2 DEF Inside
  <2>3. ASSUME NEW q \in Proc \ {p}, pc'[q] \in Forking  PROVE other'[q] # c
    <3>1. q # c
      BY <1>5, <2>3 DEF Forking
    <3>2. pc[q] \in Forking
      BY <1>5, <2>3, <3>1
    <3> QED
      BY <1>5, <1>14, <3>2
  <2>4. l = "fork_dir" => stack'[c] # 0
    BY <1>2, <1>5
  <2>5. l \notin Reaping
    BY <1>4 DEF Forking, Reaping
  <2> QED
    BY <1>4, <1>5, <2>1, <2>2, <2>3, <2>4, <2>5 DEF ForksOK
<1> QED
  BY <1>6, <1>9, <1>11, <1>12, <1>13, <1>15, <1>16 DEF MemInv

(* tss_init allocates a directory, or gives the stack back.                 *)
LEMMA ForkDirInv ==
  ASSUME MemInv, NEW p \in Proc, NEW c \in Proc, c = other[p], ForkDir(p)
  PROVE  MemInv'
<1>1. /\ pc[p] = "fork_dir" /\ Goto(p, "copy_dir") /\ UNCHANGED <<heap, dir, at, to, page, other, ghosts>>
      /\ \/ FirstFree = 0 /\ addr_free_page(stack[c]) /\ stack' = [stack EXCEPT ![c] = 0] /\ cr3' = cr3
         \/ /\ FirstFree # 0 /\ NewDir
            /\ cr3' = [cr3 EXCEPT ![c] = FirstFree] /\ stack' = stack
  BY DEF ForkDir
<1>2. pc[p] \in Forking
  BY <1>1 DEF Forking
<1>3. /\ MemTypes /\ Accounted(Vals, used) /\ Local(p) /\ Local(c) /\ cr3[p] # 0 /\ c # p
      /\ pc[c] = "new" /\ dir[c] = 0 /\ page[c] = 0
      /\ \A q \in Proc \ {p} : pc[q] \in Forking \cup Reaping => other[q] # c
  BY <1>2, ForkingFacts DEF MemInv
<1>4. cr3[c] = 0 /\ stack[c] # 0
  BY <1>1 DEF MemInv, ForksOK
<1>5. pc' \in [Proc -> Label] /\ pc'[p] = "copy_dir" /\ \A q \in Proc \ {p} : pc'[q] = pc[q]
  BY <1>1, <1>3, GotoEffect DEF Label, Resting
<1>6. \A q \in Proc : Destroying(q)' <=> Destroying(q)
  BY <1>1, <1>5 DEF Destroying
\* What is left to show of either outcome.
<1>7. ASSUME MemTypes', Accounted(Vals', used'), \A q \in Proc \ {c} : TreesQuiet(q),
             \A k \in Place : Vals'["own"][c][k] = 0,
             \A q \in Proc \ {c} : cr3'[q] = cr3[q] /\ stack'[q] = stack[q]
      PROVE  MemInv'
  <2>1. \A q \in Proc \ {p, c} : Quiet(q)
    BY <1>1, <1>5, <1>7 DEF Quiet, ghosts
  <2>2. Has("own", p)' = Has("own", p)
    BY <1>3, <1>7, HasKept
  <2>3. Local(p)'
    <3>1. cr3'[p] = cr3[p] /\ dir'[p] = 0 /\ page'[p] = 0
      BY <1>1, <1>3, <1>7 DEF Local, LabelsOK, Resting
    <3>2. LabelsOK(p)' /\ WorkOK(p)'
      BY <1>3, <1>5, <3>1 DEF LabelsOK, WorkOK, Resting, Beside, Running, Loading, Forking, Reaping
    <3>3. p \notin starved' => FedOK(p)'
      BY <1>1, <1>2, <1>3, <1>5, <2>2 DEF Local, FedOK, Settled, Forking, ghosts
    <3> QED
      BY <3>2, <3>3 DEF Local
  <2>4. Local(c)'
    <3>1. pc'[c] = "new" /\ dir'[c] = 0 /\ page'[c] = 0 /\ heap'[c] = heap[c] /\ heap[c] = 0
      BY <1>1, <1>3, <1>5 DEF Local, LabelsOK
    <3>2. LabelsOK(c)' /\ WorkOK(c)' /\ FedOK(c)'
      BY <3>1 DEF LabelsOK, WorkOK, FedOK, Settled, Resting, Beside, Running, Loading, Forking, Reaping
    <3> QED
      BY <3>2 DEF Local
  <2>5. ASSUME NEW q \in Proc \ {p, c}  PROVE Local(q)'
    BY <1>7, <2>1, QuietLocal
  <2>6. \A q \in Proc \ {p} : ForksOK(q)'
    <3>1. pc[p] \notin {"new", "gone"} /\ pc[c] \notin Forking \cup Reaping /\ pc'[c] \notin Forking \cup Reaping
      BY <1>1, <1>3, <1>5 DEF Forking, Reaping
    <3>2. pc'[p] \in Forking => \A q \in Proc \ {p} : pc[q] \in Forking => other[q] # other'[p]
      BY <1>1, <1>3
    <3>3. pc'[p] \in Reaping => \A q \in Proc \ {p} : pc[q] \notin Reaping
      BY <1>5 DEF Reaping
    <3> QED
      BY <1>3, <1>7, <2>1, <3>1, <3>2, <3>3, KinOthers
  <2>7. ForksOK(p)'
    <3>1. other'[p] = c /\ pc'[c] = "new"
      BY <1>1, <1>3, <1>5
    <3>2. \A q \in Proc \ {p} : pc'[q] \in Forking => other'[q] # c
      BY <1>1, <1>3, <1>5
    <3>3. pc'[p] \notin Reaping /\ pc'[p] # "fork_dir"
      BY <1>5 DEF Reaping
    <3> QED
      BY <1>7, <3>1, <3>2, <3>3 DEF ForksOK
  <2> QED
    BY <1>7, <2>3, <2>4, <2>5, <2>6, <2>7 DEF MemInv
<1>8. CASE FirstFree = 0
  <2>1. addr_free_page(stack[c]) /\ stack' = [stack EXCEPT ![c] = 0] /\ cr3' = cr3
    BY <1>1, <1>8
  <2>2. /\ stack' \in [Proc -> Page \cup {0}] /\ stack'[c] = 0
        /\ \A q \in Proc \ {c} : stack'[q] = stack[q]
    BY <1>3, <2>1 DEF MemTypes
  <2>3. MemTypes'
    <3>1. used' \subseteq Page
      BY <1>3, <2>1 DEF MemTypes, addr_free_page
    <3>2. entry' \in Entries
      <4>1. Junk \in [Index -> Page \cup {0}]
        BY MemoryAssumption DEF Junk, Page
      <4> QED
        BY <1>3, <2>1, <4>1 DEF MemTypes, Entries, addr_free_page
    <3> QED
      BY <1>1, <1>3, <1>5, <2>1, <2>2, <3>1, <3>2 DEF MemTypes, ghosts
  <2>4. \A q \in Proc : WorkDir(q)' = WorkDir(q) /\ From(q)' = From(q)
    BY <1>1, <1>6, <2>1 DEF WorkDir, From
  <2>5. Accounted(Vals', used') /\ \A q \in Proc : TreesQuiet(q)
    BY <1>1, <2>1, <2>2, <2>3, <2>4, StackFreed DEF ghosts
  <2>6. \A k \in Place : Vals'["own"][c][k] = 0
    <3>1. \A k \in Int : Vals'["own"][c][k] = Inside(entry', cr3'[c], 0, k)
      BY ReadsNext
    <3> QED
      BY <1>4, <2>1, <3>1 DEF Inside, Place
  <2> QED
    BY <1>7, <2>1, <2>2, <2>3, <2>5, <2>6
<1>9. CASE FirstFree # 0
  <2>1. NewDir /\ cr3' = [cr3 EXCEPT ![c] = FirstFree] /\ stack' = stack
    BY <1>1, <1>9
  <2>2. PICK x \in Page \ used : x = FirstFree
    BY <1>9, <2>1, NewDirEffect
  <2>3. /\ used' = used \cup {x} /\ EntriesBut({x}) /\ entry'[x] = Zero
        /\ \A u \in Use, q \in Proc, k \in Int : Vals[u][q][k] # x
    BY <1>9, <2>1, <2>2, NewDirEffect
  <2>4. cr3' \in [Proc -> Page \cup {0}] /\ cr3'[c] = x /\ \A q \in Proc \ {c} : cr3'[q] = cr3[q]
    BY <1>3, <2>1, <2>2 DEF MemTypes
  <2>5. MemTypes'
    BY <1>1, <1>3, <1>5, <2>1, <2>3, <2>4 DEF MemTypes, ghosts, EntriesBut
  <2>6. ASSUME NEW q \in Proc \ {c}  PROVE TreesQuiet(q)
    <3>1. \A k \in Int : Vals["own"][q][k] \notin {x} /\ Vals["work"][q][k] \notin {x}
      BY <2>3 DEF Use
    <3>2. cr3'[q] = cr3[q] /\ WorkDir(q)' = WorkDir(q) /\ From(q)' = From(q)
      BY <1>1, <1>6, <2>4 DEF WorkDir, From
    <3> QED
      BY <1>3, <2>3, <3>1, <3>2, TreesKept
  <2>7. \A k \in Int : Vals["own"][c][k] = 0 /\ Vals["work"][c][k] = 0 /\ Vals'["work"][c][k] = 0
    <3>1. WorkDir(c) = 0 /\ WorkDir(c)' = 0
      BY <1>1, <1>3 DEF WorkDir
    <3>2. \A k \in Int : /\ Vals["own"][c][k] = Inside(entry, cr3[c], 0, k)
                         /\ Vals["work"][c][k] = Inside(entry, WorkDir(c), From(c), k)
                         /\ Vals'["work"][c][k] = Inside(entry', WorkDir(c)', From(c)', k)
      BY Reads, ReadsNext
    <3> QED
      BY <1>4, <3>1, <3>2 DEF Inside
  <2>8. \A k \in Int : Vals'["own"][c][k] = IF k = -1 THEN x ELSE 0
    <3>1. \A k \in Int : Vals'["own"][c][k] = Inside(entry', x, 0, k)
      BY <2>4, ReadsNext
    <3>2. PICK b \in Int : b = 0
      OBVIOUS
    <3>3. PICK g : g = entry'
      OBVIOUS
    <3>4. \A k \in Int : Inside(g, x, b, k) = IF k = -1 THEN x ELSE 0
      BY <2>3, <3>3, EmptyTree
    <3> QED
      BY <3>1, <3>2, <3>3, <3>4
  <2>9. ASSUME NEW q \in Proc, NEW k \in Int
        PROVE  /\ Vals'["stack"][q][k] = Vals["stack"][q][k]
               /\ Vals'["page"][q][k] = Vals["page"][q][k]
               /\ Vals'["lost"][q][k] = Vals["lost"][q][k]
    BY <1>1, <2>1, Reads, ReadsNext DEF ghosts
  <2>10. ASSUME NEW w \in Use, NEW q \in Proc, NEW k \in Int, ~ (w = "own" /\ q = c /\ k = -1)
         PROVE  Vals'[w][q][k] = Vals[w][q][k]
    BY <2>6, <2>7, <2>8, <2>9, <2>10 DEF Use, TreesQuiet
  <2>11. PICK V, W, U : V = Vals /\ W = Vals' /\ U = used
    OBVIOUS
  <2>12. Accounted(W, U \cup {x})
    <3>1. PICK u \in Use, m \in Int : u = "own" /\ m = -1
      BY DEF Use
    <3>2. /\ Accounted(V, U) /\ W \in Books /\ x \in Page \ U
          /\ OnlyAt(V, W, u, c, m) /\ V[u][c][m] = 0 /\ W[u][c][m] = x
      BY <1>3, <2>5, <2>7, <2>8, <2>10, <2>11, <3>1, BooksNext DEF OnlyAt
    <3> QED
      BY <3>2, Taken
  <2>13. \A k \in Place : Vals'["own"][c][k] = 0
    BY <2>8 DEF Place
  <2>14. Accounted(Vals', used')
    BY <2>3, <2>11, <2>12
  <2> QED
    BY <1>7, <2>1, <2>4, <2>5, <2>6, <2>13, <2>14
<1> QED
  BY <1>8, <1>9

-----------------------------------------------------------------------------
\* sys_wait.

(* The address space of c is from now on the one that p destroys.           *)
LEMMA ReapInv ==
  ASSUME MemInv, NEW p \in Proc, NEW c \in Proc, Reap(p, c)
  PROVE  MemInv'
<1>1. /\ MemTypes /\ Accounted(Vals, used) /\ Local(p) /\ Local(c) /\ pc[p] = "user" /\ pc[c] = "zombie"
      /\ \A q \in Proc : pc[q] \notin Reaping
      /\ other' = [other EXCEPT ![p] = c] /\ cr3' = [cr3 EXCEPT ![c] = 0]
      /\ Work(p, cr3[c], 0, 0) /\ pc' = [pc EXCEPT ![p] = "reap", ![c] = "gone"]
      /\ UNCHANGED <<tables, stack, heap, ghosts>>
  BY DEF MemInv, Reap, TableFree, Reaping
<1>2. /\ c # p /\ cr3[p] # 0 /\ cr3[c] # 0 /\ dir[p] = 0 /\ page[p] = 0 /\ dir[c] = 0 /\ page[c] = 0
  BY <1>1 DEF Local, LabelsOK, Resting, Running
<1>3. PICK d \in Page : d = cr3[c]
  BY <1>1, <1>2 DEF MemTypes
<1>4. /\ dir' \in [Proc -> Page \cup {0}] /\ page' \in [Proc -> Page \cup {0}]
      /\ at' \in [Proc -> 0..(NrPde * (NrPte + 1))] /\ to' \in [Proc -> 0..(StackAt + 1)]
      /\ dir'[p] = d /\ at'[p] = 0 /\ page'[p] = 0
      /\ \A q \in Proc \ {p} :
           dir'[q] = dir[q] /\ at'[q] = at[q] /\ to'[q] = to[q] /\ page'[q] = page[q]
  <2>1. PICK z \in Page \cup {0}, a \in 0..Places, b \in 0..(StackAt + 1) : z = d /\ a = 0 /\ b = 0
    BY PlacesSize, Sizes
  <2>2. Work(p, z, a, b)
    BY <1>1, <1>3, <2>1
  <2> QED
    BY <1>1, <2>1, <2>2, WorkEffect
<1>5. /\ pc' \in [Proc -> Label] /\ pc'[p] = "reap" /\ pc'[c] = "gone"
      /\ \A q \in Proc \ {p, c} : pc'[q] = pc[q]
  <2>1. "reap" \in Label /\ "gone" \in Label
    BY DEF Label, Beside, Resting
  <2> QED
    BY <1>1, <1>2, <2>1 DEF MemTypes
<1>6. /\ other' \in [Proc -> Proc] /\ other'[p] = c /\ \A q \in Proc \ {p} : other'[q] = other[q]
      /\ cr3' \in [Proc -> Page \cup {0}] /\ cr3'[c] = 0 /\ \A q \in Proc \ {c} : cr3'[q] = cr3[q]
      /\ cr3'[p] = cr3[p]
  BY <1>1, <1>2 DEF MemTypes
<1>7. MemTypes'
  BY <1>1, <1>4, <1>5, <1>6 DEF MemTypes, tables, ghosts
<1>8. \A q \in Proc \ {p, c} : Quiet(q)
  BY <1>1, <1>4, <1>5, <1>6 DEF Quiet, ghosts
<1>9. d # cr3[p]
  <2>1. Vals["own"][c][-1] = d /\ Vals["own"][p][-1] = cr3[p]
    <3>1. /\ Vals["own"][c][-1] = Inside(entry, cr3[c], 0, -1)
          /\ Vals["own"][p][-1] = Inside(entry, cr3[p], 0, -1)
      BY Reads
    <3> QED
      BY <1>2, <1>3, <3>1 DEF Inside
  <2>2. PICK u \in Use, m \in Int : u = "own" /\ m = -1
    BY DEF Use
  <2>3. Vals[u][p][m] # 0 /\ Vals[u][c][m] = d /\ Vals[u][p][m] = cr3[p]
    BY <1>2, <2>1, <2>2
  <2> QED
    BY <1>2, <2>3, OnlyPlace
<1>10. WorkDir(p) = 0 /\ WorkDir(p)' = d /\ From(p)' = 0 /\ WorkDir(c) = 0 /\ WorkDir(c)' = 0
  BY <1>2, <1>4, <1>5, <1>6, <1>9 DEF WorkDir, From, Destroying
<1>11. EntriesBut({}) /\ entry' = entry /\ used' = used
  BY <1>1 DEF EntriesBut, MemTypes, tables
<1>12. ASSUME NEW q \in Proc \ {p, c}  PROVE TreesQuiet(q)
  BY <1>1, <1>8, <1>11, QuietTrees
<1>13. \A k \in Int : Vals'["own"][p][k] = Vals["own"][p][k]
  BY <1>1, <1>6, <1>11, OwnKept
<1>14. \A k \in Int : /\ Vals'["own"][c][k] = Vals["work"][p][k]
                      /\ Vals'["work"][p][k] = Vals["own"][c][k]
                      /\ Vals'["work"][c][k] = Vals["work"][c][k]
  <2>1. ASSUME NEW k \in Int
        PROVE  /\ Vals'["own"][c][k] = Inside(entry', cr3'[c], 0, k)
               /\ Vals["work"][p][k] = Inside(entry, WorkDir(p), From(p), k)
               /\ Vals'["work"][p][k] = Inside(entry', WorkDir(p)', From(p)', k)
               /\ Vals["own"][c][k] = Inside(entry, cr3[c], 0, k)
               /\ Vals'["work"][c][k] = Inside(entry', WorkDir(c)', From(c)', k)
               /\ Vals["work"][c][k] = Inside(entry, WorkDir(c), From(c), k)
    BY Reads, ReadsNext
  <2>2. \A k \in Int : /\ Vals'["work"][p][k] = Vals["own"][c][k]
    BY <1>3, <1>10, <1>11, <2>1
  <2>3. \A k \in Int : Vals'["own"][c][k] = 0 /\ Vals["work"][p][k] = 0
                       /\ Vals'["work"][c][k] = 0 /\ Vals["work"][c][k] = 0
    BY <1>6, <1>10, <2>1 DEF Inside
  <2> QED
    BY <2>2, <2>3
<1>15. ASSUME NEW q \in Proc, NEW k \in Int
       PROVE  /\ Vals'["stack"][q][k] = Vals["stack"][q][k]
              /\ Vals'["page"][q][k] = Vals["page"][q][k]
              /\ Vals'["lost"][q][k] = Vals["lost"][q][k]
  <2>1. page'[q] = page[q] /\ stack' = stack /\ lost' = lost
    BY <1>1, <1>2, <1>4 DEF ghosts
  <2> QED
    BY <2>1, Reads, ReadsNext
<1>16. ASSUME NEW w \in Use, NEW q \in Proc, NEW k \in Int,
              ~ (w = "own" /\ q = c), ~ (w = "work" /\ q = p)
       PROVE  Vals'[w][q][k] = Vals[w][q][k]
  BY <1>12, <1>13, <1>14, <1>15, <1>16 DEF Use, TreesQuiet
<1>17. Accounted(Vals', used')
  <2>1. PICK V, W, U : V = Vals /\ W = Vals' /\ U = used
    OBVIOUS
  <2>2. PICK own \in Use, work \in Use : own = "own" /\ work = "work"
    BY DEF Use
  <2>3. IsSwap(V, W, own, c, work, p)
    BY <1>14, <1>16, <2>1, <2>2 DEF IsSwap
  <2>4. Accounted(V, U) /\ W \in Books
    BY <1>1, <1>7, <2>1, BooksNext
  <2>5. Accounted(W, U)
    BY <2>3, <2>4, Swapped
  <2> QED
    BY <1>11, <2>1, <2>5
<1>18. Has("own", p)' = Has("own", p)
  <2>1. \A v \in Vpage : PlaceOf(v) \in Int
    BY PlacesOf DEF Place
  <2> QED
    BY <1>13, <2>1 DEF Has
<1>19. Local(p)'
  <2>1. LabelsOK(p)' /\ WorkOK(p)'
    <3>1. dir'[p] # 0 /\ dir'[p] # cr3'[p] /\ cr3'[p] # 0
      BY <1>2, <1>4, <1>6, <1>9, Sizes
    <3> QED
      BY <1>4, <1>5, <3>1 DEF LabelsOK, WorkOK, Resting, Loading
  <2>2. p \notin starved' => FedOK(p)'
    BY <1>1, <1>5, <1>18 DEF Local, FedOK, Settled, Reaping, ghosts
  <2> QED
    BY <2>1, <2>2 DEF Local
<1>20. Local(c)'
  <2>1. dir'[c] = 0 /\ page'[c] = 0
    BY <1>2, <1>4
  <2>2. LabelsOK(c)' /\ WorkOK(c)' /\ FedOK(c)'
    BY <1>5, <1>6, <2>1 DEF LabelsOK, WorkOK, FedOK, Settled, Resting, Beside, Running, Loading, Forking, Reaping
  <2> QED
    BY <2>2 DEF Local
<1>21. ASSUME NEW q \in Proc \ {p, c}  PROVE Local(q)'
  BY <1>8, <1>12, QuietLocal
<1>22. \A q \in Proc \ {p} : ForksOK(q)'
  <2>1. pc[p] \notin {"new", "gone"} /\ pc[c] \notin Forking \cup Reaping /\ pc'[c] \notin Forking \cup Reaping
    BY <1>1, <1>5 DEF Forking, Reaping
  <2>2. ASSUME NEW q \in Proc \ {p}, pc[q] \in Forking \cup Reaping  PROVE other[q] # c
    <3>1. pc[q] \in Forking
      BY <1>1, <2>2
    <3>2. pc[other[q]] = "new"
      BY <3>1 DEF MemInv, ForksOK
    <3> QED
      BY <1>1, <3>2
  <2>3. pc'[p] \notin Forking
    BY <1>5 DEF Forking
  <2> QED
    BY <1>1, <1>8, <1>12, <2>1, <2>2, <2>3, KinOthers
<1>23. ForksOK(p)'
  <2>1. \A q \in Proc \ {p} : pc'[q] \notin Reaping
    BY <1>1, <1>5 DEF Reaping
  <2>2. pc'[p] \notin Forking /\ pc'[p] # "fork_dir"
    BY <1>5 DEF Forking
  <2> QED
    BY <1>5, <1>6, <2>1, <2>2 DEF ForksOK
<1> QED
  BY <1>7, <1>17, <1>19, <1>20, <1>21, <1>22, <1>23 DEF MemInv

(* The task of c is free again.                                             *)
LEMMA ReapStackInv ==
  ASSUME MemInv, NEW p \in Proc, NEW c \in Proc, c = other[p], ReapStack(p)
  PROVE  MemInv'
<1>1. /\ pc[p] = "reap_stack" /\ addr_free_page(stack[c])
      /\ stack' = [stack EXCEPT ![c] = 0] /\ heap' = [heap EXCEPT ![c] = 0]
      /\ starved' = starved \ {c} /\ pc' = [pc EXCEPT ![p] = "user", ![c] = "none"]
      /\ other' = [other EXCEPT ![p] = p] /\ UNCHANGED <<cr3, dir, at, to, page, lost>>
  BY DEF ReapStack
<1>2. MemTypes /\ Local(p) /\ Local(c)
  BY DEF MemInv
<1>3. pc[c] = "gone" /\ \A q \in Proc \ {p} : pc[q] \notin Reaping
  BY <1>1 DEF MemInv, ForksOK, Reaping
<1>4. c # p /\ cr3[c] = 0 /\ dir[c] = 0 /\ page[c] = 0 /\ cr3[p] # 0 /\ dir[p] = 0 /\ page[p] = 0
  BY <1>1, <1>2, <1>3 DEF Local, LabelsOK, Resting, Running, Reaping
<1>5. /\ stack' \in [Proc -> Page \cup {0}] /\ stack'[c] = 0 /\ \A q \in Proc \ {c} : stack'[q] = stack[q]
      /\ other' \in [Proc -> Proc] /\ \A q \in Proc \ {p} : other'[q] = other[q]
  BY <1>1, <1>2 DEF MemTypes
<1>6. heap' \in [Proc -> 0..MaxHeap] /\ heap'[c] = 0 /\ \A q \in Proc \ {c} : heap'[q] = heap[q]
  <2>1. 0 \in 0..MaxHeap
    <3>1. PICK m \in Nat : m = StackAt * PageSize
      BY Sizes, MemoryAssumption
    <3> QED
      BY <3>1, MemoryAssumption
  <2> QED
    BY <1>1, <1>2, <2>1 DEF MemTypes
<1>7. /\ pc' \in [Proc -> Label] /\ pc'[p] = "user" /\ pc'[c] = "none"
      /\ \A q \in Proc \ {p, c} : pc'[q] = pc[q]
  <2>1. "user" \in Label /\ "none" \in Label
    BY DEF Label, Resting
  <2> QED
    BY <1>1, <1>2, <1>4, <2>1 DEF MemTypes
<1>8. MemTypes'
  <2>1. used' \subseteq Page /\ starved' \subseteq Proc
    BY <1>1, <1>2 DEF MemTypes, addr_free_page
  <2>2. entry' \in Entries
    <3>1. Junk \in [Index -> Page \cup {0}]
      BY MemoryAssumption DEF Junk, Page
    <3> QED
      BY <1>1, <1>2, <3>1 DEF MemTypes, Entries, addr_free_page
  <2> QED
    BY <1>1, <1>2, <1>5, <1>6, <1>7, <2>1, <2>2 DEF MemTypes
<1>9. \A q \in Proc \ {p, c} : Quiet(q)
  BY <1>1, <1>5, <1>6, <1>7 DEF Quiet
<1>10. ASSUME NEW q \in Proc  PROVE WorkDir(q)' = WorkDir(q) /\ From(q)' = From(q)
  <2>1. Destroying(q)' <=> Destroying(q)
    BY <1>1, <1>3, <1>7 DEF Destroying
  <2> QED
    BY <1>1, <2>1 DEF WorkDir, From
<1>11. Accounted(Vals', used') /\ \A q \in Proc : TreesQuiet(q)
  BY <1>1, <1>5, <1>8, <1>10, StackFreed
<1>12. Has("own", p)' = Has("own", p)
  BY <1>11, HasKept
<1>13. Local(p)'
  <2>1. cr3'[p] # 0 /\ dir'[p] = 0 /\ page'[p] = 0 /\ heap'[p] = heap[p] /\ (p \in starved' <=> p \in starved)
    BY <1>1, <1>4, <1>6
  <2>2. LabelsOK(p)' /\ WorkOK(p)'
    BY <1>7, <2>1 DEF LabelsOK, WorkOK, Beside, Loading
  <2>3. p \notin starved' => FedOK(p)'
    BY <1>1, <1>2, <1>7, <1>12, <2>1 DEF Local, FedOK, Settled, Reaping
  <2> QED
    BY <2>2, <2>3 DEF Local
<1>14. Local(c)'
  <2>1. cr3'[c] = 0 /\ dir'[c] = 0 /\ page'[c] = 0
    BY <1>1, <1>4
  <2>2. LabelsOK(c)' /\ WorkOK(c)' /\ FedOK(c)'
    BY <1>5, <1>6, <1>7, <2>1 DEF LabelsOK, WorkOK, FedOK, Settled, Resting, Beside, Running, Loading, Forking, Reaping
  <2> QED
    BY <2>2 DEF Local
<1>15. ASSUME NEW q \in Proc \ {p, c}  PROVE Local(q)'
  BY <1>9, <1>11, QuietLocal
<1>16. \A q \in Proc \ {p} : ForksOK(q)'
  <2>1. pc[p] \notin {"new", "gone"} /\ pc[c] \notin Forking \cup Reaping /\ pc'[c] \notin Forking \cup Reaping
    BY <1>1, <1>3, <1>7 DEF Forking, Reaping
  <2>2. ASSUME NEW q \in Proc \ {p}, pc[q] \in Forking \cup Reaping  PROVE other[q] # c
    <3>1. pc[q] \in Forking
      BY <1>3, <2>2
    <3>2. pc[other[q]] = "new"
      BY <3>1 DEF MemInv, ForksOK
    <3> QED
      BY <1>3, <3>2
  <2>3. pc'[p] \notin Forking /\ pc'[p] \notin Reaping
    BY <1>7 DEF Forking, Reaping
  <2> QED
    BY <1>9, <1>11, <2>1, <2>2, <2>3, KinOthers
<1>17. ForksOK(p)'
  BY <1>7 DEF ForksOK, Forking, Reaping
<1> QED
  BY <1>8, <1>11, <1>13, <1>14, <1>15, <1>16, <1>17 DEF MemInv

-----------------------------------------------------------------------------
\* memory_destroy_uvm.

(* The address space that p destroys.                                       *)
LEMMA DestroyFacts ==
  ASSUME MemInv, NEW p \in Proc, Destroying(p)
  PROVE  /\ MemTypes /\ Accounted(Vals, used) /\ Local(p) /\ pc[p] \in {"copy_undo", "undo", "reap"}
         /\ dir[p] \in Page /\ dir[p] # 0 /\ dir[p] # cr3[p] /\ cr3[p] # 0 /\ page[p] = 0
         /\ WorkDir(p) = dir[p] /\ From(p) = at[p] /\ at[p] \in 0..Places /\ at[p] \in Int
         /\ Vals["work"][p][-1] = dir[p]
         /\ \A k \in Place : Vals["work"][p][k] = IF k >= at[p] THEN PageAt(dir[p], k) ELSE 0
<1>1. /\ MemTypes /\ Accounted(Vals, used) /\ Local(p) /\ pc[p] \in {"copy_undo", "undo", "reap"}
  BY DEF MemInv, Destroying
<1>2. dir[p] # 0 /\ dir[p] # cr3[p] /\ cr3[p] # 0 /\ page[p] = 0
  BY <1>1 DEF Local, LabelsOK, Beside, Running, Forking, Reaping
<1>3. dir[p] \in Page /\ WorkDir(p) = dir[p] /\ From(p) = at[p] /\ at[p] \in 0..Places /\ at[p] \in Int
  <2>1. at[p] \in 0..Places /\ Places \in Nat
    BY <1>1, PlacesSize DEF MemTypes, Places
  <2> QED
    BY <1>1, <1>2, <2>1 DEF MemTypes, WorkDir, From
<1>4. \A k \in Int : Vals["work"][p][k] = Inside(entry, dir[p], at[p], k)
  BY <1>3, Reads
<1>5. ASSUME NEW k \in Place
      PROVE  Vals["work"][p][k] = IF k >= at[p] THEN PageAt(dir[p], k) ELSE 0
  <2>1. k \in Int /\ k # -1
    BY DEF Place
  <2>2. PageIn(entry, dir[p], k) = PageAt(dir[p], k)
    BY DEF PageIn, PageAt
  <2> QED
    BY <1>2, <1>4, <2>1, <2>2 DEF Inside
<1>6. Vals["work"][p][-1] = dir[p]
  BY <1>2, <1>4 DEF Inside
<1> QED
  BY <1>1, <1>2, <1>3, <1>5, <1>6

(* What addr_free_page does to the tables.                                  *)
LEMMA FreeEffect ==
  ASSUME MemTypes, NEW x \in Page, addr_free_page(x)
  PROVE  EntriesBut({x}) /\ entry' \in Entries /\ used' = used \ {x} /\ used' \subseteq Page
<1>1. PICK e \in Entries : e = entry
  BY DEF MemTypes
<1>2. entry' = [e EXCEPT ![x] = Junk] /\ used' = used \ {x}
  BY <1>1 DEF addr_free_page
<1>3. Junk \in [Index -> Page \cup {0}]
  BY MemoryAssumption DEF Junk, Page
<1>4. entry' \in Entries /\ \A y \in Page \ {x} : entry'[y] = e[y]
  BY <1>2, <1>3 DEF Entries
<1> QED
  BY <1>1, <1>2, <1>4 DEF EntriesBut, MemTypes

(* memory_destroy_uvm gives back the next page.                             *)
LEMMA FreeNextInv ==
  ASSUME MemInv, NEW p \in Proc, FreeNext(p)
  PROVE  MemInv'
<1>1. Destroying(p) /\ StillHeld(p) # {} /\ UNCHANGED <<space, pc, dir, to, page, other, ghosts>>
  BY DEF FreeNext
<1>2. /\ MemTypes /\ Accounted(Vals, used) /\ Local(p) /\ pc[p] \in {"copy_undo", "undo", "reap"}
      /\ dir[p] \in Page /\ dir[p] # 0 /\ dir[p] # cr3[p] /\ cr3[p] # 0 /\ page[p] = 0
      /\ WorkDir(p) = dir[p] /\ From(p) = at[p] /\ at[p] \in 0..Places /\ at[p] \in Int
      /\ Vals["work"][p][-1] = dir[p]
      /\ \A k \in Place : Vals["work"][p][k] = IF k >= at[p] THEN PageAt(dir[p], k) ELSE 0
  BY <1>1, DestroyFacts
<1>3. PICK k : k = CHOOSE x \in StillHeld(p) : \A y \in StillHeld(p) : x <= y
  OBVIOUS
<1>4. k \in StillHeld(p) /\ \A y \in StillHeld(p) : k <= y
  <2>1. Place \subseteq Nat
    BY PlacesSize DEF Place, Places
  <2>2. StillHeld(p) \in SUBSET Nat
    BY <2>1 DEF StillHeld
  <2>3. \E x \in StillHeld(p) : \A y \in StillHeld(p) : x <= y
    BY <1>1, <2>2, NatMin
  <2> QED
    BY <1>3, <2>3
<1>5. PICK x, d : x = PageAt(dir[p], k) /\ d = dir[p]
  OBVIOUS
<1>6. addr_free_page(x) /\ at' = [at EXCEPT ![p] = k + 1]
  BY <1>3, <1>5 DEF FreeNext
<1>7. k \in Place /\ k >= at[p] /\ x # 0 /\ k \in Int /\ k >= 0 /\ k + 1 \in 0..Places
      /\ \A y \in Place : y >= at[p] /\ PageAt(dir[p], y) # 0 => k <= y
  <2>1. k \in Place /\ k >= at[p] /\ x # 0 /\ \A y \in Place : y >= at[p] /\ PageAt(dir[p], y) # 0 => k <= y
    BY <1>4, <1>5 DEF StillHeld
  <2>2. Place = 0..(Places - 1) /\ Places \in Nat
    BY PlacesSize DEF Place, Places
  <2> QED
    BY <2>1, <2>2
<1>8. Vals["work"][p][k] = x /\ x \in used /\ x \in Page /\ "work" \in Use /\ "own" \in Use
      /\ \A w \in Use, q \in Proc, j \in Int : Vals[w][q][j] = x => w = "work" /\ q = p /\ j = k
  <2>1. PICK u \in Use : u = "work"
    BY DEF Use
  <2>2. Vals[u][p][k] = x /\ Vals[u][p][k] # 0
    BY <1>2, <1>5, <1>7, <2>1
  <2>3. /\ Vals[u][p][k] \in used
        /\ \A w \in Use, q \in Proc, j \in Int : Vals[w][q][j] = Vals[u][p][k] => w = u /\ q = p /\ j = k
    BY <1>7, <2>2, OnlyPlace
  <2> QED
    BY <1>2, <2>1, <2>2, <2>3 DEF Use, MemTypes
<1>9. EntriesBut({x}) /\ entry' \in Entries /\ used' = used \ {x} /\ used' \subseteq Page
  BY <1>2, <1>6, <1>8, FreeEffect
<1>10. /\ at' \in [Proc -> 0..(NrPde * (NrPte + 1))] /\ at'[p] = k + 1
       /\ \A q \in Proc \ {p} : at'[q] = at[q]
  <2>1. at \in [Proc -> 0..Places]
    BY <1>2 DEF MemTypes, Places
  <2>2. at' \in [Proc -> 0..Places] /\ at'[p] = k + 1 /\ \A q \in Proc \ {p} : at'[q] = at[q]
    BY <1>6, <1>7, <2>1
  <2> QED
    BY <2>2 DEF Places
<1>11. MemTypes'
  BY <1>1, <1>2, <1>9, <1>10 DEF MemTypes, space, ghosts
<1>12. OthersQuiet(p)
  BY <1>1, <1>10 DEF OthersQuiet, Quiet, space, ghosts
<1>13. ASSUME NEW q \in Proc \ {p}  PROVE TreesQuiet(q)
  <2>1. \A j \in Int : Vals["own"][q][j] \notin {x} /\ Vals["work"][q][j] \notin {x}
    BY <1>8
  <2> QED
    BY <1>2, <1>8, <1>9, <1>12, <2>1, QuietTrees DEF OthersQuiet
<1>14. \A j \in Int : Vals'["own"][p][j] = Vals["own"][p][j]
  <2>1. cr3'[p] = cr3[p] /\ \A j \in Int : Vals["own"][p][j] \notin {x}
    BY <1>1, <1>8 DEF space
  <2> QED
    BY <1>2, <1>8, <1>9, <2>1, OwnKept
<1>15. \A j \in Int : Vals'["work"][p][j] = IF j = k THEN 0 ELSE Vals["work"][p][j]
  <2>1. PICK e \in Entries, f \in Entries, b \in Int : e = entry /\ f = entry' /\ b = k + 1
    BY <1>2, <1>7, <1>9 DEF MemTypes
  <2>2. PICK a \in Int : a = at[p]
    BY <1>2
  <2>3. \A j \in Int : Vals["work"][p][j] = Inside(e, d, a, j)
    BY <1>2, <1>5, <2>1, <2>2, Reads
  <2>4. \A j \in Int : Vals'["work"][p][j] = Inside(f, d, b, j)
    <3>1. WorkDir(p)' = d /\ From(p)' = b
      BY <1>1, <1>2, <1>5, <1>10, <2>1 DEF WorkDir, From, Destroying, space
    <3> QED
      BY <2>1, <3>1, ReadsNext
  <2>5. ASSUME NEW j \in Int
        PROVE  Inside(e, d, b, j) = IF j = k THEN 0 ELSE Vals["work"][p][j]
    <3>1. CASE j \notin Place
      <4>1. j # k
        BY <1>7, <3>1
      <4>2. Vals["work"][p][j] = Inside(e, d, a, j)
        BY <2>3
      <4> QED
        BY <3>1, <4>1, <4>2 DEF Inside
    <3>2. CASE j \in Place /\ j >= b
      <4>1. j # k /\ j >= a
        BY <1>7, <2>1, <2>2, <3>2
      <4>2. Vals["work"][p][j] = Inside(e, d, a, j)
        BY <2>3
      <4> QED
        BY <3>2, <4>1, <4>2 DEF Inside
    <3>3. CASE j \in Place /\ ~ (j >= b)
      <4>1. Inside(e, d, b, j) = 0
        <5>1. j # -1
          BY <3>3 DEF Place
        <5> QED
          BY <3>3, <5>1 DEF Inside
      <4>2. j # k => Vals["work"][p][j] = 0
        <5>1. j # k => ~ (k <= j)
          BY <1>7, <2>1, <3>3
        <5> QED
          BY <1>2, <1>7, <3>3, <5>1
      <4> QED
        BY <4>1, <4>2
    <3> QED
      BY <3>1, <3>2, <3>3
  <2>6. \A j \in Int : Inside(e, d, b, j) \notin {x} \ {0}
    BY <1>7, <1>8, <2>5
  <2>7. \A j \in Int : Inside(f, d, b, j) = Inside(e, d, b, j)
    <3>1. d \in Page \cup {0} /\ \A y \in Page \ {x} : f[y] = e[y]
      BY <1>2, <1>5, <1>9, <2>1 DEF EntriesBut
    <3> QED
      BY <2>6, <3>1, TreeElsewhere
  <2> QED
    BY <2>4, <2>5, <2>7
<1>16. ASSUME NEW q \in Proc, NEW j \in Int
       PROVE  /\ Vals'["stack"][q][j] = Vals["stack"][q][j]
              /\ Vals'["page"][q][j] = Vals["page"][q][j]
              /\ Vals'["lost"][q][j] = Vals["lost"][q][j]
  BY <1>1, Reads, ReadsNext DEF space, ghosts
<1>17. ASSUME NEW w \in Use, NEW q \in Proc, NEW j \in Int, ~ (w = "work" /\ q = p /\ j = k)
       PROVE  Vals'[w][q][j] = Vals[w][q][j]
  BY <1>13, <1>14, <1>15, <1>16, <1>17 DEF Use, TreesQuiet
<1>18. Accounted(Vals', used')
  <2>1. PICK V, W, U : V = Vals /\ W = Vals' /\ U = used
    OBVIOUS
  <2>2. PICK u \in Use : u = "work"
    BY <1>8
  <2>3. Accounted(V, U) /\ W \in Books /\ OnlyAt(V, W, u, p, k) /\ V[u][p][k] = x /\ W[u][p][k] = 0
    BY <1>2, <1>7, <1>8, <1>11, <1>15, <1>17, <2>1, <2>2, BooksNext DEF OnlyAt
  <2>4. Accounted(W, U \ {x})
    BY <1>7, <2>3, Freed
  <2> QED
    BY <1>9, <2>1, <2>4
<1>19. Has("own", p)' = Has("own", p)
  <2>1. \A v \in Vpage : PlaceOf(v) \in Int
    BY PlacesOf DEF Place
  <2> QED
    BY <1>14, <2>1 DEF Has
<1>20. pc'[p] = pc[p] /\ dir'[p] = dir[p] /\ cr3'[p] = cr3[p] /\ page'[p] = 0
  BY <1>1, <1>2 DEF space
<1>21. LabelsOK(p)' /\ WorkOK(p)'
  BY <1>2, <1>20 DEF LabelsOK, WorkOK, Resting, Loading
<1>22. p \notin starved' => FedOK(p)'
  BY <1>1, <1>2, <1>19, <1>20 DEF Local, FedOK, Settled, Forking, Reaping, space, ghosts
<1>23. other'[p] = other[p]
  BY <1>1
<1> QED
  BY <1>2, <1>11, <1>12, <1>13, <1>18, <1>20, <1>21, <1>22, <1>23, Alone DEF Local, OthersQuiet, Forking, Reaping

(* When all else has been given back, only the directory is left.           *)
LEMMA LastIsDir ==
  ASSUME MemInv, NEW p \in Proc, Destroying(p), StillHeld(p) = {}, addr_free_page(dir[p])
  PROVE  /\ \A k \in Int : Vals["work"][p][k] = IF k = -1 THEN dir[p] ELSE 0
         /\ \A w \in Use, q \in Proc, k \in Int : Vals[w][q][k] = dir[p] => w = "work" /\ q = p /\ k = -1
         /\ EntriesBut({dir[p]}) /\ entry' \in Entries /\ used' = used \ {dir[p]} /\ used' \subseteq Page
<1>1. /\ MemTypes /\ dir[p] \in Page /\ dir[p] # 0 /\ WorkDir(p) = dir[p]
      /\ Vals["work"][p][-1] = dir[p]
      /\ \A k \in Place : Vals["work"][p][k] = IF k >= at[p] THEN PageAt(dir[p], k) ELSE 0
  BY DestroyFacts
<1>2. ASSUME NEW k \in Int, k # -1  PROVE Vals["work"][p][k] = 0
  <2>1. CASE k \in Place
    <3>1. k >= at[p] => PageAt(dir[p], k) = 0
      BY <2>1 DEF StillHeld
    <3> QED
      BY <1>1, <2>1, <3>1
  <2>2. CASE k \notin Place
    <3>1. Vals["work"][p][k] = Inside(entry, WorkDir(p), From(p), k)
      BY Reads
    <3> QED
      BY <1>2, <2>2, <3>1 DEF Inside
  <2> QED
    BY <2>1, <2>2
<1>3. \A w \in Use, q \in Proc, k \in Int : Vals[w][q][k] = dir[p] => w = "work" /\ q = p /\ k = -1
  <2>1. PICK u \in Use, m \in Int : u = "work" /\ m = -1
    BY DEF Use
  <2>2. Vals[u][p][m] = dir[p] /\ Vals[u][p][m] # 0
    BY <1>1, <2>1
  <2>3. \A w \in Use, q \in Proc, k \in Int : Vals[w][q][k] = Vals[u][p][m] => w = u /\ q = p /\ k = m
    BY <2>2, OnlyPlace
  <2> QED
    BY <2>1, <2>2, <2>3
<1>4. EntriesBut({dir[p]}) /\ entry' \in Entries /\ used' = used \ {dir[p]} /\ used' \subseteq Page
  BY <1>1, FreeEffect
<1> QED
  BY <1>1, <1>2, <1>3, <1>4

(* memory_destroy_uvm returns to exec or to wait.                           *)
LEMMA FreeDirReturns ==
  ASSUME MemInv, NEW p \in Proc, Destroying(p), StillHeld(p) = {}, addr_free_page(dir[p]),
         UNCHANGED <<space, ghosts>>, Work(p, 0, 0, 0),
         \/ pc[p] = "undo" /\ Goto(p, "user") /\ other' = [other EXCEPT ![p] = p]
         \/ pc[p] = "reap" /\ Goto(p, "reap_stack") /\ other' = other
  PROVE  MemInv'
<1>1. /\ MemTypes /\ Accounted(Vals, used) /\ Local(p)
      /\ dir[p] \in Page /\ dir[p] # 0 /\ cr3[p] # 0 /\ page[p] = 0
  BY DestroyFacts
<1>2. PICK d \in Page : d = dir[p]
  BY <1>1
<1>3. /\ \A k \in Int : Vals["work"][p][k] = IF k = -1 THEN d ELSE 0
      /\ \A w \in Use, q \in Proc, k \in Int : Vals[w][q][k] = d => w = "work" /\ q = p /\ k = -1
      /\ EntriesBut({d}) /\ entry' \in Entries /\ used' = used \ {d} /\ used' \subseteq Page
  BY <1>2, LastIsDir
<1>4. PICK l \in {"user", "reap_stack"} : Goto(p, l) /\ l = IF pc[p] = "undo" THEN "user" ELSE "reap_stack"
  OBVIOUS
<1>5. Moves(p, l, 0, 0, 0)
  <2>1. PICK z \in Page \cup {0}, m \in Label : z = 0 /\ m = l
    BY DEF Label, Resting
  <2>2. 0 \in 0..Places /\ 0 \in 0..(StackAt + 1)
    BY PlacesSize, Sizes
  <2>3. Moves(p, m, z, 0, 0)
    BY <1>1, <1>4, <2>1, <2>2, MovesOn
  <2> QED
    BY <2>1, <2>3
<1>6. pc'[p] = l /\ dir'[p] = 0 /\ page'[p] = 0
  BY <1>5 DEF Moves
<1>7. other' \in [Proc -> Proc] /\ \A q \in Proc \ {p} : other'[q] = other[q]
  BY <1>1 DEF MemTypes
<1>8. MemTypes'
  BY <1>1, <1>3, <1>5, <1>7 DEF MemTypes, Moves, space, ghosts
<1>9. OthersQuiet(p)
  BY <1>5, <1>7 DEF OthersQuiet, Quiet, Moves, space, ghosts
<1>10. "own" \in Use /\ "work" \in Use /\ {d} \subseteq Page
  BY DEF Use
<1>11. ASSUME NEW q \in Proc \ {p}  PROVE TreesQuiet(q)
  <2>1. \A k \in Int : Vals["own"][q][k] \notin {d} /\ Vals["work"][q][k] \notin {d}
    BY <1>3, <1>10
  <2> QED
    BY <1>1, <1>3, <1>9, <1>10, <2>1, QuietTrees DEF OthersQuiet
<1>12. \A k \in Int : Vals'["own"][p][k] = Vals["own"][p][k]
  <2>1. cr3'[p] = cr3[p] /\ \A k \in Int : Vals["own"][p][k] \notin {d}
    BY <1>3, <1>10 DEF space
  <2> QED
    BY <1>1, <1>3, <1>10, <2>1, OwnKept
<1>13. \A k \in Int : Vals'["work"][p][k] = 0
  <2>1. WorkDir(p)' = 0
    BY <1>6 DEF WorkDir
  <2>2. \A k \in Int : Vals'["work"][p][k] = Inside(entry', WorkDir(p)', From(p)', k)
    BY ReadsNext
  <2> QED
    BY <2>1, <2>2 DEF Inside
<1>14. ASSUME NEW q \in Proc, NEW k \in Int
       PROVE  /\ Vals'["stack"][q][k] = Vals["stack"][q][k]
              /\ Vals'["page"][q][k] = Vals["page"][q][k]
              /\ Vals'["lost"][q][k] = Vals["lost"][q][k]
  <2>1. stack'[q] = stack[q] /\ page'[q] = page[q] /\ lost' = lost
    BY <1>1, <1>5, <1>6 DEF Moves, space, ghosts
  <2> QED
    BY <2>1, Reads, ReadsNext
<1>15. ASSUME NEW w \in Use, NEW q \in Proc, NEW k \in Int, ~ (w = "work" /\ q = p /\ k = -1)
       PROVE  Vals'[w][q][k] = Vals[w][q][k]
  BY <1>3, <1>11, <1>12, <1>13, <1>14, <1>15 DEF Use, TreesQuiet
<1>16. Accounted(Vals', used')
  <2>1. PICK V, W, U : V = Vals /\ W = Vals' /\ U = used
    OBVIOUS
  <2>2. PICK u \in Use, m \in Int : u = "work" /\ m = -1
    BY <1>10
  <2>3. /\ Accounted(V, U) /\ W \in Books /\ OnlyAt(V, W, u, p, m)
        /\ V[u][p][m] = d /\ V[u][p][m] # 0 /\ W[u][p][m] = 0
    BY <1>1, <1>2, <1>3, <1>8, <1>13, <1>15, <2>1, <2>2, BooksNext DEF OnlyAt
  <2>4. Accounted(W, U \ {d})
    BY <2>3, Freed
  <2> QED
    BY <1>3, <2>1, <2>4
<1>17. Has("own", p)' = Has("own", p)
  <2>1. \A v \in Vpage : PlaceOf(v) \in Int
    BY PlacesOf DEF Place
  <2> QED
    BY <1>12, <2>1 DEF Has
<1>18. LabelsOK(p)' /\ WorkOK(p)'
  <2>1. cr3'[p] # 0
    BY <1>1 DEF space
  <2> QED
    BY <1>6, <2>1 DEF LabelsOK, WorkOK, Beside, Loading
<1>19. p \notin starved' => FedOK(p)'
  BY <1>1, <1>4, <1>6, <1>17 DEF Local, FedOK, Settled, Reaping, space, ghosts
<1>20. pc[p] \notin {"new", "gone"}
  OBVIOUS
<1>21. \/ pc'[p] \notin Forking \cup Reaping
       \/ pc[p] \in Reaping /\ pc'[p] \in Reaping /\ other'[p] = other[p]
  BY <1>4, <1>6 DEF Forking, Reaping
<1> QED
  BY <1>1, <1>8, <1>9, <1>11, <1>16, <1>18, <1>19, <1>20, <1>21, Alone DEF Local, OthersQuiet

(* It returns to a fork that has run out of memory.                         *)
LEMMA FreeDirForks ==
  ASSUME MemInv, NEW p \in Proc, NEW c \in Proc, c = other[p], pc[p] = "copy_undo",
         StillHeld(p) = {}, addr_free_page(dir[p]), ForkEnds(p, 0)
  PROVE  MemInv'
<1>1. pc[p] \in Forking /\ Destroying(p)
  BY DEF Forking, Destroying
<1>2. /\ MemTypes /\ Accounted(Vals, used) /\ dir[p] \in Page /\ page[p] = 0
  BY <1>1, DestroyFacts
<1>3. PICK d \in Page : d = dir[p]
  BY <1>2
<1>4. /\ \A k \in Int : Vals["work"][p][k] = IF k = -1 THEN d ELSE 0
      /\ \A w \in Use, q \in Proc, k \in Int : Vals[w][q][k] = d => w = "work" /\ q = p /\ k = -1
      /\ EntriesBut({d}) /\ entry' \in Entries /\ used' = used \ {d} /\ used' \subseteq Page
  BY <1>1, <1>3, LastIsDir
<1>5. c # p /\ \A k \in Int : Vals["own"][c][k] = IF k = -1 THEN cr3[c] ELSE 0
  BY <1>1, ForkingFacts
<1>6. PICK x \in Page \cup {0}, z \in Page \cup {0} : x = cr3[c] /\ z = 0
  BY <1>2 DEF MemTypes
<1>7. ForkEnds(p, z)
  BY <1>6
<1>8. ForkBooks(p, c, x)
  <2>1. PICK X : X = {d} /\ X \subseteq Page
    OBVIOUS
  <2>2. EntriesBut(X)
    BY <1>4, <2>1
  <2>3. \A q \in Proc, k \in Int :
          Vals["own"][q][k] \notin X /\ (q # p => Vals["work"][q][k] \notin X)
    BY <1>4, <2>1 DEF Use
  <2> QED
    BY <1>1, <1>2, <1>4, <1>6, <1>7, <2>1, <2>2, <2>3, ForkEndsBooks
<1>9. cr3'[c] = 0 /\ MemTypes'
  <2>1. MemTypes' /\ ForkEnded(p, c, z)
    BY <1>1, <1>4, <1>7, ForkEndsFacts
  <2> QED
    BY <1>6, <2>1 DEF ForkEnded
<1>10. \A k \in Int : Vals'["own"][c][k] = 0
  <2>1. \A k \in Int : Vals'["own"][c][k] = Inside(entry', cr3'[c], 0, k)
    BY ReadsNext
  <2> QED
    BY <1>9, <2>1 DEF Inside
<1>11. x # 0 => Vals["lost"][First][x] \in {0, x}
  <2>1. NrPage \in Nat
    BY MemoryAssumption
  <2>2. x \in Int
    BY <2>1 DEF Page
  <2> QED
    BY <2>2, Reads, MemoryAssumption
<1>12. PICK V, N, U : V = Vals /\ N = Vals' /\ U = used
  OBVIOUS
<1>13. PICK own \in Use, work \in Use, gone \in Use, m \in Int :
         own = "own" /\ work = "work" /\ gone = "lost" /\ m = -1
  BY DEF Use
\* The books when the directory is given back, and the fork has not ended yet.
<1>14. PICK W : W = [V EXCEPT ![work][p][m] = 0]
  OBVIOUS
<1>15. /\ W \in Books /\ W[work][p][m] = 0 /\ OnlyAt(V, W, work, p, m)
  <2>1. V \in [Use -> [Proc -> [Int -> Page \cup {0}]]]
    BY <1>2, <1>12 DEF Accounted, Books
  <2>2. W \in [Use -> [Proc -> [Int -> Page \cup {0}]]]
    BY <1>14, <2>1
  <2>3. W[work][p][m] = 0
    BY <1>14, <2>1
  <2>4. OnlyAt(V, W, work, p, m)
    BY <1>14, <2>1 DEF OnlyAt
  <2> QED
    BY <2>2, <2>3, <2>4 DEF Books
<1>16. Accounted(W, U \ {d})
  <2>1. Accounted(V, U) /\ V[work][p][m] = d /\ V[work][p][m] # 0
    BY <1>2, <1>4, <1>12, <1>13, Sizes
  <2> QED
    BY <1>15, <2>1, Freed
<1>17. HandOver(W, N, p, c, x)
  <2>1. \A k \in Int : W["own"][c][k] = V["own"][c][k]
    BY <1>13, <1>15 DEF OnlyAt
  <2>2. \A k \in Int : W["work"][p][k] = 0
    <3>1. ASSUME NEW k \in Int  PROVE W["work"][p][k] = 0
      <4>1. CASE k = m
        BY <1>13, <1>15, <4>1
      <4>2. CASE k # m
        <5>1. W[work][p][k] = V[work][p][k]
          BY <1>15, <4>2 DEF OnlyAt
        <5> QED
          BY <1>4, <1>12, <1>13, <4>2, <5>1
      <4> QED
        BY <4>1, <4>2
    <3> QED
      BY <3>1
  <2>3. \A w \in Use, q \in Proc, k \in Int : ~ (w = "work" /\ q = p) => W[w][q][k] = V[w][q][k]
    BY <1>13, <1>15 DEF OnlyAt
  <2>4. \A k \in Int : W["own"][c][k] = IF k = -1 THEN x ELSE 0
    BY <1>5, <1>6, <1>12, <2>1
  <2>5. \A k \in Int : N["own"][c][k] = W["work"][p][k] /\ N["work"][p][k] = 0
    BY <1>8, <1>10, <1>12, <2>2 DEF ForkBooks
  <2>6. x # 0 => W["lost"][First][x] \in {0, x} /\ N["lost"][First][x] = x
    <3>1. CASE x # 0
      <4>1. NrPage \in Nat /\ First \in Proc
        BY MemoryAssumption
      <4>2. x \in Int
        BY <4>1 DEF Page
      <4>3. W["lost"][First][x] = V["lost"][First][x]
        BY <2>3, <4>1, <4>2 DEF Use
      <4> QED
        BY <1>8, <1>11, <1>12, <3>1, <4>3 DEF ForkBooks
    <3> QED
      BY <3>1
  <2>7. \A w \in Use, q \in Proc, k \in Int :
          ~ (w = "own" /\ q = c) /\ ~ (w = "work" /\ q = p)
          /\ ~ (x # 0 /\ w = "lost" /\ q = First /\ k = x)
            => N[w][q][k] = W[w][q][k]
    BY <1>8, <1>12, <2>3 DEF ForkBooks
  <2> QED
    BY <2>4, <2>5, <2>6, <2>7 DEF HandOver
<1>18. Accounted(N, U \ {d})
  <2>1. PICK T : T = U \ {d}
    OBVIOUS
  <2>2. Accounted(W, T) /\ N \in Books
    BY <1>9, <1>12, <1>16, <2>1, BooksNext
  <2>3. Accounted(N, T)
    BY <1>17, <2>2, HandedOver
  <2> QED
    BY <2>1, <2>3
<1>19. Has("own", p)' = Has("own", p)
  <2>1. \A v \in Vpage : PlaceOf(v) \in Int
    BY PlacesOf DEF Place
  <2> QED
    BY <1>8, <2>1 DEF Has, ForkBooks
<1>20. Accounted(Vals', used')
  BY <1>4, <1>12, <1>18
<1>21. \A q \in Proc \ {p, other[p]} : TreesQuiet(q)
  BY <1>8 DEF ForkBooks
<1> QED
  BY <1>1, <1>4, <1>7, <1>19, <1>20, <1>21, ForkEndsInv

(* It gives back the directory.                                             *)
LEMMA FreeDirInv ==
  ASSUME MemInv, NEW p \in Proc, FreeDir(p)
  PROVE  MemInv'
<1>1. /\ Destroying(p) /\ StillHeld(p) = {} /\ addr_free_page(dir[p])
      /\ pc[p] \in {"copy_undo", "undo", "reap"}
  BY DEF FreeDir, Destroying
<1>2. PICK c \in Proc : c = other[p]
  BY DEF MemInv, MemTypes
<1>3. CASE pc[p] = "copy_undo"
  <2>1. ForkEnds(p, 0)
    BY <1>3 DEF FreeDir
  <2> QED
    BY <1>1, <1>2, <1>3, <2>1, FreeDirForks
<1>4. CASE pc[p] = "undo"
  <2>1. Return(p) /\ UNCHANGED <<space, ghosts>>
    BY <1>4 DEF FreeDir
  <2> QED
    BY <1>1, <1>4, <2>1, FreeDirReturns DEF Return
<1>5. CASE pc[p] = "reap"
  <2>1. Goto(p, "reap_stack") /\ Work(p, 0, 0, 0) /\ UNCHANGED <<space, other, ghosts>>
    BY <1>5 DEF FreeDir
  <2> QED
    BY <1>1, <1>5, <2>1, FreeDirReturns
<1> QED
  BY <1>1, <1>3, <1>4, <1>5

-----------------------------------------------------------------------------
\* The beginning.

(* The pages 1..6 are there.                                                *)
LEMMA FirstPages ==
  /\ 1..6 \subseteq Page /\ NrPage \in Nat
  /\ {1, 2, 3, 4, 5, 6} \subseteq Page /\ 0 \in Index /\ 0 \in Vpage /\ First \in Proc
<1>1. NrPage \in Nat /\ NrPage >= 6 /\ First \in Proc
  BY MemoryAssumption
<1>2. 0 \in 0..(NrPde - 1) /\ 0 \in 0..StackAt
  BY Sizes
<1> QED
  BY <1>1, <1>2, Sizes DEF Page

(* Where the first page and the stack of a program are.                     *)
LEMMA FirstPlaces ==
  /\ IsPlace(PlaceOf(0), 0, 0) /\ IsPlace(TableOf(0), 0, NrPte)
  /\ StackAt \div NrPte = NrPde - 1 /\ StackAt % NrPte = NrPte - 1
  /\ NrPde - 1 # 0 /\ NrPde - 1 \in Index /\ NrPte - 1 \in Index /\ NrPte > 0
  /\ IsPlace(PlaceOf(StackAt), NrPde - 1, NrPte - 1) /\ IsPlace(TableOf(StackAt), NrPde - 1, NrPte)
<1>1. PICK n \in Nat \ {0}, m \in Nat \ {0} : n = NrPte /\ m = NrPde /\ m >= 2
  BY Sizes, MemoryAssumption
<1>2. PICK i, j : At(0, i, j) /\ IsPlace(PlaceOf(0), i, j) /\ IsPlace(TableOf(0), i, NrPte)
  BY VpageParts, FirstPages
<1>3. i = 0 /\ j = 0
  BY <1>1, <1>2 DEF At
<1>4. PICK x, y : At(StackAt, x, y) /\ IsPlace(PlaceOf(StackAt), x, y) /\ IsPlace(TableOf(StackAt), x, NrPte)
  BY VpageParts, Sizes
<1>5. x = m - 1 /\ y = n - 1
  <2>1. /\ StackAt = m * n - 1 /\ StackAt = x * n + y /\ x \in 0..(m - 1) /\ y \in 0..(n - 1)
        /\ x = StackAt \div n /\ y = StackAt % n
    BY <1>1, <1>4 DEF At, StackAt
  <2>2. PICK d \in Nat : m = 1 + d
    <3>1. m - 1 \in Nat /\ m = 1 + (m - 1)
      OBVIOUS
    <3> QED
      BY <3>1
  <2>3. m * n = d * n + n /\ d * n \in Nat /\ d \in 0..(m - 1) /\ n - 1 \in 0..(n - 1)
    BY <2>2
  <2>4. /\ (d * n + (n - 1)) \div n = d /\ (d * n + (n - 1)) % n = n - 1
    BY <2>3, Recompose
  <2>5. StackAt = d * n + (n - 1)
    BY <2>1, <2>3
  <2> QED
    BY <2>1, <2>2, <2>4, <2>5
<1>6. At(StackAt, x, y) => StackAt \div NrPte = x /\ StackAt % NrPte = y
  BY DEF At
<1>7. m - 1 # 0 /\ m - 1 \in Index /\ n - 1 \in Index /\ n > 0
  <2>1. m - 1 \in 0..(m - 1) /\ n - 1 \in 0..(n - 1)
    OBVIOUS
  <2> QED
    BY <1>1, <2>1, Sizes
<1> QED
  BY <1>1, <1>2, <1>3, <1>4, <1>5, <1>6, <1>7

(* The tables at the beginning.                                             *)
LEMMA FirstTables ==
  ASSUME MemoryInit
  PROVE  /\ entry \in Entries
         /\ \A i \in Index : entry[2][i] = IF i = NrPde - 1 THEN 5 ELSE IF i = 0 THEN 3 ELSE 0
         /\ \A j \in Index : entry[3][j] = IF j = 0 THEN 4 ELSE 0
         /\ \A j \in Index : entry[5][j] = IF j = NrPte - 1 THEN 6 ELSE 0
<1>1. PICK i1, j1 \in Index : i1 = NrPde - 1 /\ j1 = NrPte - 1
                              /\ StackAt \div NrPte = i1 /\ StackAt % NrPte = j1
  BY FirstPlaces
<1>2. entry = [x \in Page |->
                 CASE x = 2 -> [Zero EXCEPT ![0] = 3, ![StackAt \div NrPte] = 5]
                   [] x = 3 -> [Zero EXCEPT ![0] = 4]
                   [] x = 5 -> [Zero EXCEPT ![StackAt % NrPte] = 6]
                   [] OTHER -> Junk]
  BY Zenon DEF MemoryInit
<1>9. /\ entry[2] = [Zero EXCEPT ![0] = 3, ![i1] = 5]
      /\ entry[3] = [Zero EXCEPT ![0] = 4] /\ entry[5] = [Zero EXCEPT ![j1] = 6]
      /\ \A x \in Page : x \notin {2, 3, 5} => entry[x] = Junk
  <2>1. entry[2] = [Zero EXCEPT ![0] = 3, ![StackAt \div NrPte] = 5]
    BY <1>2, FirstPages
  <2>2. entry[3] = [Zero EXCEPT ![0] = 4]
    BY <1>2, FirstPages
  <2>3. entry[5] = [Zero EXCEPT ![StackAt % NrPte] = 6]
    BY <1>2, FirstPages
  <2>4. \A x \in Page : x \notin {2, 3, 5} => entry[x] = Junk
    BY <1>2
  <2> QED
    BY <1>1, <2>1, <2>2, <2>3, <2>4
<1>10. entry = [x \in Page |-> entry[x]]
  BY <1>2
<1>3. /\ Zero \in [Index -> Page \cup {0}] /\ Junk \in [Index -> Page \cup {0}]
      /\ [Zero EXCEPT ![0] = 3, ![i1] = 5] \in [Index -> Page \cup {0}]
      /\ [Zero EXCEPT ![0] = 4] \in [Index -> Page \cup {0}]
      /\ [Zero EXCEPT ![j1] = 6] \in [Index -> Page \cup {0}]
  BY FirstPages DEF Zero, Junk
<1>4. entry \in Entries
  <2>1. ASSUME NEW x \in Page  PROVE entry[x] \in [Index -> Page \cup {0}]
    <3>1. x = 2 => entry[x] = [Zero EXCEPT ![0] = 3, ![i1] = 5]
      BY <1>9
    <3>2. x = 3 => entry[x] = [Zero EXCEPT ![0] = 4]
      BY <1>9
    <3>3. x = 5 => entry[x] = [Zero EXCEPT ![j1] = 6]
      BY <1>9
    <3>4. x \notin {2, 3, 5} => entry[x] = Junk
      BY <1>9
    <3> QED
      BY <1>3, <3>1, <3>2, <3>3, <3>4, Zenon
  <2>2. PICK S : S = [Index -> Page \cup {0}]
    OBVIOUS
  <2>3. entry \in [Page -> S]
    BY <1>10, <2>1, <2>2
  <2> QED
    BY <2>2, <2>3 DEF Entries
<1>5. /\ entry[2] = [Zero EXCEPT ![0] = 3, ![i1] = 5]
      /\ entry[3] = [Zero EXCEPT ![0] = 4] /\ entry[5] = [Zero EXCEPT ![j1] = 6]
  BY <1>9
<1>6. \A i \in Index : entry[2][i] = IF i = i1 THEN 5 ELSE IF i = 0 THEN 3 ELSE 0
  BY <1>3, <1>5, FirstPages DEF Zero
<1>7. \A j \in Index : entry[3][j] = IF j = 0 THEN 4 ELSE 0
  BY <1>3, <1>5, FirstPages DEF Zero
<1>8. \A j \in Index : entry[5][j] = IF j = j1 THEN 6 ELSE 0
  BY <1>3, <1>5 DEF Zero
<1> QED
  BY <1>1, <1>4, <1>6, <1>7, <1>8

(* The address space of the first process.                                  *)
LEMMA FirstTree ==
  ASSUME MemoryInit
  PROVE  \A k \in Int : Inside(entry, 2, 0, k) =
           IF k = -1 THEN 2 ELSE IF k = TableOf(0) THEN 3 ELSE IF k = PlaceOf(0) THEN 4
           ELSE IF k = TableOf(StackAt) THEN 5 ELSE IF k = PlaceOf(StackAt) THEN 6 ELSE 0
<1> SUFFICES ASSUME NEW k \in Int
             PROVE  Inside(entry, 2, 0, k) =
                IF k = -1 THEN 2 ELSE IF k = TableOf(0) THEN 3 ELSE IF k = PlaceOf(0) THEN 4
                ELSE IF k = TableOf(StackAt) THEN 5 ELSE IF k = PlaceOf(StackAt) THEN 6 ELSE 0
  OBVIOUS
<1>1. PICK i1, j1 \in Index : /\ i1 = NrPde - 1 /\ j1 = NrPte - 1 /\ i1 # 0
                              /\ IsPlace(PlaceOf(0), 0, 0) /\ IsPlace(TableOf(0), 0, NrPte)
                              /\ IsPlace(PlaceOf(StackAt), i1, j1) /\ IsPlace(TableOf(StackAt), i1, NrPte)
  BY FirstPlaces
<1>2. CASE k = -1
  BY <1>2 DEF Inside
<1>3. CASE k # -1 /\ k \notin Place
  <2>1. k # TableOf(0) /\ k # PlaceOf(0) /\ k # TableOf(StackAt) /\ k # PlaceOf(StackAt)
    BY <1>1, <1>3 DEF IsPlace
  <2> QED
    BY <1>3, <2>1 DEF Inside
<1>4. CASE k # -1 /\ k \in Place
  <2>1. PICK i, j : IsPlace(k, i, j) /\ i \in Index /\ (j < NrPte => j \in Index)
                    /\ (j # NrPte <=> j < NrPte) /\ k >= 0
    BY <1>4, Parts, IsPlaceFacts
  <2>2. /\ k = PlaceOf(0) <=> i = 0 /\ j = 0
        /\ k = TableOf(0) <=> i = 0 /\ j = NrPte
        /\ k = PlaceOf(StackAt) <=> i = i1 /\ j = j1
        /\ k = TableOf(StackAt) <=> i = i1 /\ j = NrPte
    BY <1>1, <2>1 DEF IsPlace
  <2>3. Inside(entry, 2, 0, k) = IF k < 0 \/ entry[2][i] = 0 THEN 0
                                 ELSE IF j < NrPte THEN entry[entry[2][i]][j] ELSE entry[2][i]
    <3>1. PICK d \in Page, b \in Int : d = 2 /\ b = 0
      BY FirstPages
    <3>2. Inside(entry, d, b, k) = IF k < b \/ entry[d][i] = 0 THEN 0
                                   ELSE IF j < NrPte THEN entry[entry[d][i]][j] ELSE entry[d][i]
      BY <2>1, InsideAt
    <3> QED
      BY <3>1, <3>2
  <2>4. /\ \A x \in Index : entry[2][x] = IF x = i1 THEN 5 ELSE IF x = 0 THEN 3 ELSE 0
        /\ \A x \in Index : entry[3][x] = IF x = 0 THEN 4 ELSE 0
        /\ \A x \in Index : entry[5][x] = IF x = j1 THEN 6 ELSE 0
    BY <1>1, FirstTables
  <2>5. ~ (k < 0) /\ NrPte # 0 /\ j1 # NrPte
    BY <1>1, <2>1, Sizes
  <2>6. CASE i = i1
    <3>1. Inside(entry, 2, 0, k) = IF j < NrPte THEN entry[5][j] ELSE 5
      BY <2>1, <2>3, <2>4, <2>5, <2>6
    <3>2. CASE j < NrPte
      <4>1. entry[5][j] = IF j = j1 THEN 6 ELSE 0
        BY <2>1, <2>4, <3>2
      <4> QED
        BY <1>1, <1>4, <2>1, <2>2, <2>6, <3>1, <3>2, <4>1
    <3>3. CASE ~ (j < NrPte)
      BY <1>1, <1>4, <2>1, <2>2, <2>5, <2>6, <3>1, <3>3
    <3> QED
      BY <3>2, <3>3
  <2>7. CASE i = 0
    <3>1. Inside(entry, 2, 0, k) = IF j < NrPte THEN entry[3][j] ELSE 3
      BY <1>1, <2>1, <2>3, <2>4, <2>5, <2>7
    <3>2. CASE j < NrPte
      <4>1. entry[3][j] = IF j = 0 THEN 4 ELSE 0
        BY <2>1, <2>4, <3>2
      <4> QED
        BY <1>1, <1>4, <2>1, <2>2, <2>7, <3>1, <3>2, <4>1
    <3>3. CASE ~ (j < NrPte)
      BY <1>1, <1>4, <2>1, <2>2, <2>5, <2>7, <3>1, <3>3
    <3> QED
      BY <3>2, <3>3
  <2>8. CASE i # i1 /\ i # 0
    BY <1>4, <2>1, <2>2, <2>3, <2>4, <2>8
  <2> QED
    BY <2>6, <2>7, <2>8
<1> QED
  BY <1>2, <1>3, <1>4

(* All is in order at the beginning.                                        *)
LEMMA InitInv == ASSUME MemoryInit  PROVE MemInv
<1>1. MemTypes
  <2>1. 1 \in 0..MaxHeap /\ 0 \in 0..MaxHeap
    <3>1. PICK m \in Nat : m = StackAt * PageSize
      BY Sizes, MemoryAssumption
    <3> QED
      BY <3>1, MemoryAssumption
  <2>2. 0 \in 0..(NrPde * (NrPte + 1)) /\ 0 \in 0..(StackAt + 1)
    BY PlacesSize, Sizes DEF Places
  <2>3. "user" \in Label /\ "none" \in Label
    BY DEF Label, Resting
  <2> QED
    BY <2>1, <2>2, <2>3, FirstPages, FirstTables DEF MemoryInit, MemTypes
<1>2. PICK p0, t0, p1, t1 \in Place : p0 = PlaceOf(0) /\ t0 = TableOf(0) /\ p1 = PlaceOf(StackAt) /\ t1 = TableOf(StackAt)
  BY PlacesOf, FirstPages, Sizes
<1>3. /\ p0 \in Int /\ t0 \in Int /\ p1 \in Int /\ t1 \in Int /\ -1 \notin {p0, t0, p1, t1}
      /\ p0 # t0 /\ p0 # p1 /\ p0 # t1 /\ t0 # p1 /\ t0 # t1 /\ p1 # t1
  <2>1. p0 \in Int /\ t0 \in Int /\ p1 \in Int /\ t1 \in Int /\ -1 \notin {p0, t0, p1, t1}
    BY DEF Place
  <2>2. p0 # t0 /\ p0 # t1 /\ t0 # p1 /\ p1 # t1
    BY <1>2, PlacesOf, FirstPages, Sizes
  <2>3. p0 # p1 /\ t0 # t1
    BY <1>2, FirstPlaces DEF IsPlace
  <2> QED
    BY <2>1, <2>2, <2>3
<1>4. \A k \in Int : Inside(entry, 2, 0, k) =
           IF k = -1 THEN 2 ELSE IF k = t0 THEN 3 ELSE IF k = p0 THEN 4
           ELSE IF k = t1 THEN 5 ELSE IF k = p1 THEN 6 ELSE 0
  BY <1>2, FirstTree
<1>5. ASSUME NEW q \in Proc, NEW k \in Int
      PROVE  /\ Vals["own"][q][k] = IF q = First THEN Inside(entry, 2, 0, k) ELSE 0
             /\ Vals["work"][q][k] = 0
             /\ Vals["stack"][q][k] = IF q = First /\ k = 0 THEN 1 ELSE 0
             /\ Vals["page"][q][k] = 0 /\ Vals["lost"][q][k] = 0
  <2>1. /\ cr3[q] = (IF q = First THEN 2 ELSE 0) /\ dir[q] = 0 /\ page[q] = 0
        /\ stack[q] = (IF q = First THEN 1 ELSE 0) /\ lost = {}
    BY DEF MemoryInit
  <2>2. WorkDir(q) = 0
    BY <2>1 DEF WorkDir
  <2>3. Vals["work"][q][k] = 0
    <3>1. Vals["work"][q][k] = Inside(entry, WorkDir(q), From(q), k)
      BY Reads
    <3> QED
      BY <2>2, <3>1 DEF Inside
  <2>4. Vals["own"][q][k] = IF q = First THEN Inside(entry, 2, 0, k) ELSE 0
    <3>1. Vals["own"][q][k] = Inside(entry, cr3[q], 0, k)
      BY Reads
    <3>2. Inside(entry, 0, 0, k) = 0
      BY DEF Inside
    <3> QED
      BY <2>1, <3>1, <3>2
  <2> QED
    BY <2>1, <2>3, <2>4, Reads
\* Where each page is.
<1>6. ASSUME NEW w \in Use, NEW q \in Proc, NEW k \in Int
      PROVE  Vals[w][q][k] = IF w = "stack" /\ q = First /\ k = 0 THEN 1
                             ELSE IF w = "own" /\ q = First THEN
                               IF k = -1 THEN 2 ELSE IF k = t0 THEN 3 ELSE IF k = p0 THEN 4
                               ELSE IF k = t1 THEN 5 ELSE IF k = p1 THEN 6 ELSE 0
                             ELSE 0
  BY <1>4, <1>5 DEF Use
<1>7. PICK V : V = Vals
  OBVIOUS
<1>8. V \in Books
  <2>1. \A w \in Use, q \in Proc, k \in Int : Held(w, q, k) = V[w][q][k]
    BY <1>7 DEF Vals
  <2>2. \A w \in Use, q \in Proc, k \in Int : V[w][q][k] \in Page \cup {0}
    BY <1>6, <1>7, FirstPages
  <2> QED
    BY <1>7, <2>1, <2>2 DEF Vals, Books
<1>9. Accounted(Vals, used)
  <2>1. used = 1..6 /\ 1..6 = {1, 2, 3, 4, 5, 6} /\ "own" \in Use /\ "stack" \in Use /\ First \in Proc
    BY FirstPages DEF MemoryInit, Use
  <2>2. \A w \in Use, q \in Proc, k \in Int : V[w][q][k] # 0 => V[w][q][k] \in {1, 2, 3, 4, 5, 6}
    BY <1>6, <1>7
  <2>3. /\ V["stack"][First][0] = 1 /\ V["own"][First][-1] = 2 /\ V["own"][First][t0] = 3
        /\ V["own"][First][p0] = 4 /\ V["own"][First][t1] = 5 /\ V["own"][First][p1] = 6
    BY <1>3, <1>6, <1>7, <2>1
  <2>4. ASSUME NEW x \in {1, 2, 3, 4, 5, 6}
        PROVE  \E w \in Use, q \in Proc, k \in Int : V[w][q][k] = x
    BY <1>3, <2>1, <2>3
  <2>5. ASSUME NEW u \in Use, NEW w \in Use, NEW q \in Proc, NEW r \in Proc, NEW k \in Int, NEW j \in Int,
               V[u][q][k] = V[w][r][j], V[u][q][k] # 0
        PROVE  u = w /\ q = r /\ k = j
    <3>1. /\ V[u][q][k] = 1 => u = "stack" /\ q = First /\ k = 0
          /\ V[u][q][k] # 1 => u = "own" /\ q = First
          /\ V[w][r][j] = 1 => w = "stack" /\ r = First /\ j = 0
          /\ V[w][r][j] # 1 => w = "own" /\ r = First
      BY <1>6, <1>7, <2>5
    <3>2. CASE V[u][q][k] = 1
      BY <2>5, <3>1, <3>2
    <3>3. CASE V[u][q][k] # 1
      <4>1. u = "own" /\ w = "own" /\ q = First /\ r = First
        BY <2>5, <3>1, <3>3
      <4>2. /\ V[u][q][k] = IF k = -1 THEN 2 ELSE IF k = t0 THEN 3 ELSE IF k = p0 THEN 4
                            ELSE IF k = t1 THEN 5 ELSE IF k = p1 THEN 6 ELSE 0
            /\ V[w][r][j] = IF j = -1 THEN 2 ELSE IF j = t0 THEN 3 ELSE IF j = p0 THEN 4
                            ELSE IF j = t1 THEN 5 ELSE IF j = p1 THEN 6 ELSE 0
        BY <1>6, <1>7, <4>1
      <4> QED
        BY <2>5, <4>1, <4>2
    <3> QED
      BY <3>2, <3>3
  <2>6. PICK U : U = {1, 2, 3, 4, 5, 6}
    OBVIOUS
  <2>8. \A x \in U : \E w \in Use, q \in Proc, k \in Int : V[w][q][k] = x
    BY <2>4, <2>6
  <2>9. \A u, w \in Use, q, r \in Proc, k, j \in Int :
          V[u][q][k] = V[w][r][j] /\ V[u][q][k] # 0 => u = w /\ q = r /\ k = j
    BY <2>5
  <2>7. Accounted(V, U)
    <3>1. U \subseteq Page
      BY <2>6, FirstPages
    <3> QED
      BY <1>8, <2>2, <2>6, <2>8, <2>9, <3>1 DEF Accounted
  <2> QED
    BY <1>7, <2>1, <2>6, <2>7
<1>10. Has("own", First) = {0, StackAt}
  <2>1. "own" \in Use /\ First \in Proc /\ 0 \in Vpage /\ StackAt \in Vpage
    BY FirstPages, Sizes DEF Use
  <2>2. ASSUME NEW v \in Vpage
        PROVE  Vals["own"][First][PlaceOf(v)] # 0 <=> v = 0 \/ v = StackAt
    <3>1. /\ PlaceOf(v) \in Int /\ PlaceOf(v) # -1 /\ PlaceOf(v) # t0 /\ PlaceOf(v) # t1
          /\ PlaceOf(v) = p0 <=> v = 0
          /\ PlaceOf(v) = p1 <=> v = StackAt
      BY <1>2, <2>1, PlacesOf DEF Place
    <3> QED
      BY <1>6, <2>1, <3>1
  <2> QED
    BY <2>1, <2>2 DEF Has
<1>11. UpTo(1) = 1
  <2>1. PICK s \in Nat \ {0} : s = PageSize
    BY MemoryAssumption
  <2>2. 1 <= 1 * PageSize
    BY <2>1
  <2> QED
    BY <2>2, UpToFacts
<1>12. ASSUME NEW q \in Proc  PROVE Local(q) /\ ForksOK(q)
  <2>1. /\ pc[q] = (IF q = First THEN "user" ELSE "none") /\ dir[q] = 0 /\ page[q] = 0
        /\ cr3[q] = (IF q = First THEN 2 ELSE 0) /\ heap[q] = (IF q = First THEN 1 ELSE 0)
        /\ stack[q] = (IF q = First THEN 1 ELSE 0)
    BY DEF MemoryInit
  <2>2. LabelsOK(q) /\ WorkOK(q) /\ ForksOK(q)
    BY <2>1 DEF LabelsOK, WorkOK, ForksOK, Resting, Beside, Running, Loading, Forking, Reaping
  <2>3. FedOK(q)
    <3>1. CASE q = First
      <4>1. 0..(UpTo(1) - 1) \cup {StackAt} = {0, StackAt}
        BY <1>11
      <4> QED
        BY <1>10, <2>1, <3>1, <4>1 DEF FedOK
    <3>2. CASE q # First
      BY <2>1, <3>2 DEF FedOK, Settled, Forking, Reaping
    <3> QED
      BY <3>1, <3>2
  <2> QED
    BY <2>2, <2>3 DEF Local
<1> QED
  BY <1>1, <1>9, <1>12 DEF MemInv

-----------------------------------------------------------------------------
\* The specification.

(* Each action keeps the books.                                             *)
LEMMA StepInv == ASSUME MemInv, NEW p \in Proc, Step(p)  PROVE MemInv'
<1>1. PICK o \in Proc : o = other[p]
  BY DEF MemInv, MemTypes
<1>2. ASSUME NEW incr \in Incr, sys_sbrk(p, incr)  PROVE MemInv'
  BY <1>2, SbrkInv
<1>3. CASE SbrkBelow(p)
  BY <1>3, SbrkBelowInv
<1>4. CASE AllocPage(p)
  BY <1>4, AllocPageInv
<1>5. CASE AllocMap(p)
  BY <1>5, AllocMapInv
<1>6. ASSUME NEW c \in Proc, ForkStack(p, c)  PROVE MemInv'
  BY <1>6, ForkStackInv
<1>7. CASE ForkDir(p)
  BY <1>1, <1>7, ForkDirInv
<1>8. CASE CopyDir(p)
  BY <1>8, CopyDirInv
<1>9. CASE CopyPage(p)
  BY <1>9, CopyPageInv
<1>10. CASE CopyMap(p)
  BY <1>10, CopyMapInv
<1>11. CASE CopyDone(p)
  BY <1>1, <1>11, CopyDoneInv
<1>12. CASE ExecDir(p)
  BY <1>12, ExecDirInv
<1>13. CASE LoadFails(p)
  BY <1>13, LoadFailsInv
<1>14. ASSUME NEW size \in ImageSize, load_phdr(p, size)  PROVE MemInv'
  BY <1>14, LoadInv
<1>15. CASE Exit(p)
  BY <1>15, ExitInv
<1>16. ASSUME NEW c \in Proc, Reap(p, c)  PROVE MemInv'
  BY <1>16, ReapInv
<1>17. CASE ReapStack(p)
  BY <1>1, <1>17, ReapStackInv
<1>18. CASE FreeNext(p)
  BY <1>18, FreeNextInv
<1>19. CASE FreeDir(p)
  BY <1>19, FreeDirInv
<1> QED
  BY <1>2, <1>3, <1>4, <1>5, <1>6, <1>7, <1>8, <1>9, <1>10, <1>11, <1>12, <1>13, <1>14, <1>15,
     <1>16, <1>17, <1>18, <1>19 DEF Step

(* So does a step that changes nothing.                                     *)
LEMMA StutterInv == ASSUME MemInv, UNCHANGED mvars  PROVE MemInv'
<1>1. /\ used' = used /\ entry' = entry /\ cr3' = cr3 /\ stack' = stack /\ heap' = heap
      /\ pc' = pc /\ dir' = dir /\ at' = at /\ to' = to /\ page' = page /\ other' = other
      /\ lost' = lost /\ starved' = starved
  BY DEF mvars, tables, space, calls, ghosts
<1>2. Vals' = Vals
  <2>1. \A p \in Proc : WorkDir(p)' = WorkDir(p) /\ From(p)' = From(p)
    BY <1>1 DEF WorkDir, From, Destroying
  <2>2. \A u \in Use, p \in Proc, k \in Int : Held(u, p, k)' = Held(u, p, k)
    BY <1>1, <2>1 DEF Held
  <2> QED
    BY <2>2 DEF Vals
<1>3. MemTypes'
  BY <1>1 DEF MemInv, MemTypes
<1>4. Accounted(Vals', used')
  BY <1>1, <1>2 DEF MemInv
<1>5. \A u, p : Has(u, p)' = Has(u, p)
  BY <1>2 DEF Has
<1>6. ASSUME NEW p \in Proc  PROVE Local(p)' /\ ForksOK(p)'
  <2>1. Local(p) /\ ForksOK(p)
    BY DEF MemInv
  <2>2. LabelsOK(p)' = LabelsOK(p) /\ WorkOK(p)' = WorkOK(p) /\ FedOK(p)' = FedOK(p)
    BY <1>1, <1>5 DEF LabelsOK, WorkOK, FedOK
  <2>3. ForksOK(p)' = ForksOK(p)
    BY <1>1, <1>2 DEF ForksOK
  <2> QED
    BY <1>1, <2>1, <2>2, <2>3 DEF Local
<1> QED
  BY <1>3, <1>4, <1>6 DEF MemInv

(* The books are kept in every behaviour of the memory.                     *)
THEOREM MemInvAlways == MemorySpec => []MemInv
<1>1. MemoryInit => MemInv
  BY InitInv
<1>2. MemInv /\ [MemoryNext]_mvars => MemInv'
  BY StepInv, StutterInv DEF MemoryNext
<1> QED
  BY <1>1, <1>2, PTL DEF MemorySpec

(* The type invariant of the allocator, the tables and the calls            *)
(* (addr_alloc_t, pde_t, pte_t, tss.cr3) holds always.                      *)
THEOREM MemoryTypesCorrect == MemorySpec => []MemoryTypeOK
<1>1. MemInv => MemoryTypeOK
  BY DEF MemInv, MemTypes, MemoryTypeOK, Entries
<1> QED
  BY <1>1, MemInvAlways, PTL

(* The pages of a program and its heap are mapped unless memory has run     *)
(* out, and memory_create_map finds no page present where it is to map one. *)
THEOREM HeapAlwaysMapped == MemorySpec => []HeapMapped
<1>1. MemInv => HeapMapped
  <2> SUFFICES ASSUME MemInv  PROVE HeapMapped
    OBVIOUS
  <2>1. MapAssertion
    BY DEF MemInv, Local, FedOK, MapAssertion
  <2>2. ASSUME NEW p \in Proc \ starved, pc[p] = "user", heap[p] > 0
        PROVE  0..(UpTo(heap[p]) - 1) \subseteq Mapped(cr3[p])
    <3>1. Has("own", p) = 0..(UpTo(heap[p]) - 1) \cup {StackAt}
      BY <2>2 DEF MemInv, Local, FedOK, Settled
    <3>2. cr3[p] # 0 /\ MemTypes
      BY <2>2 DEF MemInv, Local, LabelsOK, Running
    <3>3. Mapped(cr3[p]) = Has("own", p)
      BY <3>2, MappedIsHas
    <3> QED
      BY <3>1, <3>3
  <2> QED
    BY <2>1, <2>2 DEF HeapMapped
<1> QED
  BY <1>1, MemInvAlways, PTL

-----------------------------------------------------------------------------
\* The references that PagesAccounted counts are the entries of the books.

Space(u, p, d, b) == [use |-> u, of |-> p, dir |-> d, from |-> b]

(* The references of one address space are the pages inside it.             *)
LEMMA RefsOfSpace ==
  ASSUME NEW u, NEW p, NEW d, NEW b, NEW r
  PROVE  r \in SpaceRefs(Space(u, p, d, b)) /\ r[4] # 0 <=>
           \E k \in Int : r = <<u, p, k, Inside(entry, d, b, k)>> /\ Inside(entry, d, b, k) # 0
<1>1. SpaceRefs(Space(u, p, d, b)) =
        IF d = 0 THEN {}
        ELSE {<<u, p, -1, d>>} \cup {<<u, p, k, PageAt(d, k)>> : k \in {j \in Place : j >= b}}
  BY DEF SpaceRefs, Space
<1>2. CASE d = 0
  BY <1>1, <1>2 DEF Inside
<1>3. CASE d # 0
  <2>1. -1 \in Int /\ Inside(entry, d, b, -1) = d /\ Place \subseteq Int /\ -1 \notin Place
    BY <1>3 DEF Inside, Place
  <2>2. \A k \in Place : k >= b => Inside(entry, d, b, k) = PageAt(d, k)
    BY <1>3, <2>1 DEF Inside, PageIn, PageAt
  <2>3. \A k \in Int : k # -1 /\ ~ (k \in Place /\ k >= b) => Inside(entry, d, b, k) = 0
    BY <1>3 DEF Inside
  <2>4. ASSUME r \in SpaceRefs(Space(u, p, d, b)), r[4] # 0
        PROVE  \E k \in Int : r = <<u, p, k, Inside(entry, d, b, k)>> /\ Inside(entry, d, b, k) # 0
    <3>1. CASE r = <<u, p, -1, d>>
      BY <1>3, <2>1, <3>1
    <3>2. CASE r # <<u, p, -1, d>>
      <4>1. PICK k \in Place : k >= b /\ r = <<u, p, k, PageAt(d, k)>>
        BY <1>1, <1>3, <2>4, <3>2
      <4>2. r = <<u, p, k, Inside(entry, d, b, k)>> /\ k \in Int
        BY <2>1, <2>2, <4>1
      <4>3. r[4] = Inside(entry, d, b, k)
        BY <4>2
      <4> QED
        BY <2>4, <4>2, <4>3
    <3> QED
      BY <3>1, <3>2
  <2>5. ASSUME NEW k \in Int, r = <<u, p, k, Inside(entry, d, b, k)>>, Inside(entry, d, b, k) # 0
        PROVE  r \in SpaceRefs(Space(u, p, d, b)) /\ r[4] # 0
    <3>1. r[4] # 0
      BY <2>5
    <3>2. CASE k = -1
      BY <1>1, <1>3, <2>1, <2>5, <3>1, <3>2
    <3>3. CASE k # -1
      <4>1. k \in Place /\ k >= b /\ Inside(entry, d, b, k) = PageAt(d, k)
        BY <2>2, <2>3, <2>5, <3>3
      <4> QED
        BY <1>1, <1>3, <2>5, <3>1, <4>1
    <3> QED
      BY <3>2, <3>3
  <2> QED
    BY <2>4, <2>5
<1> QED
  BY <1>2, <1>3

\* r is the entry for the page in place k of use u of p.
IsEntry(r, u, p, k) == r = <<u, p, k, Vals[u][p][k]>> /\ Vals[u][p][k] # 0

(* Of all uses.                                                             *)
LEMMA RefsAreEntries ==
  ASSUME MemTypes, NEW r
  PROVE  r \in References <=> \E u \in Use, p \in Proc, k \in Int : IsEntry(r, u, p, k)
<1>1. /\ "own" \in Use /\ "work" \in Use /\ "stack" \in Use /\ "page" \in Use /\ "lost" \in Use
      /\ First \in Proc /\ 0 \in Int /\ lost \subseteq Int
  BY FirstPages DEF Use, MemTypes, Page
<1>2. Spaces = {Space("own", p, cr3[p], 0) : p \in Proc} \cup
               {Space("work", p, dir[p], From(p)) : p \in {q \in Proc : dir[q] # cr3[q]}}
  BY DEF Spaces, Space, From
<1>3. ASSUME NEW p \in Proc
      PROVE  /\ r \in SpaceRefs(Space("own", p, cr3[p], 0)) /\ r[4] # 0 <=>
                  \E k \in Int : IsEntry(r, "own", p, k)
             /\ dir[p] # cr3[p] /\ r \in SpaceRefs(Space("work", p, dir[p], From(p))) /\ r[4] # 0 <=>
                  \E k \in Int : IsEntry(r, "work", p, k)
             /\ r = <<"stack", p, 0, stack[p]>> /\ r[4] # 0 <=> \E k \in Int : IsEntry(r, "stack", p, k)
             /\ r = <<"page", p, 0, page[p]>> /\ r[4] # 0 <=> \E k \in Int : IsEntry(r, "page", p, k)
             /\ (\E x \in lost : r = <<"lost", First, x, x>>) /\ r[4] # 0 /\ p = First <=>
                  \E k \in Int : IsEntry(r, "lost", p, k)
  <2>1. r \in SpaceRefs(Space("own", p, cr3[p], 0)) /\ r[4] # 0 <=>
                  \E k \in Int : IsEntry(r, "own", p, k)
    <3>1. PICK u, d, b : u = "own" /\ d = cr3[p] /\ b = 0
      OBVIOUS
    <3>2. \A k \in Int : Vals[u][p][k] = Inside(entry, d, b, k)
      BY <3>1, Reads
    <3>3. r \in SpaceRefs(Space(u, p, d, b)) /\ r[4] # 0 <=> \E k \in Int : IsEntry(r, u, p, k)
      BY <3>2, RefsOfSpace DEF IsEntry
    <3> QED
      BY <3>1, <3>3
  <2>2. dir[p] # cr3[p] /\ r \in SpaceRefs(Space("work", p, dir[p], From(p))) /\ r[4] # 0 <=>
                  \E k \in Int : IsEntry(r, "work", p, k)
    <3>1. PICK u, d, b : u = "work" /\ d = dir[p] /\ b = From(p)
      OBVIOUS
    <3>2. CASE dir[p] # cr3[p]
      <4>1. \A k \in Int : Vals[u][p][k] = Inside(entry, d, b, k)
        BY <3>1, <3>2, Reads DEF WorkDir
      <4>2. r \in SpaceRefs(Space(u, p, d, b)) /\ r[4] # 0 <=> \E k \in Int : IsEntry(r, u, p, k)
        BY <4>1, RefsOfSpace DEF IsEntry
      <4> QED
        BY <3>1, <3>2, <4>2
    <3>3. CASE dir[p] = cr3[p]
      <4>1. \A k \in Int : Vals[u][p][k] = 0
        BY <3>1, <3>3, Reads DEF WorkDir, Inside
      <4> QED
        BY <3>1, <3>3, <4>1 DEF IsEntry
    <3> QED
      BY <3>2, <3>3
  <2>3. /\ \A k \in Int : Vals["stack"][p][k] = IF k = 0 THEN stack[p] ELSE 0
        /\ \A k \in Int : Vals["page"][p][k] = IF k = 0 THEN page[p] ELSE 0
        /\ \A k \in Int : Vals["lost"][p][k] = IF p = First /\ k \in lost THEN k ELSE 0
    BY Reads
  <2>4. r = <<"stack", p, 0, stack[p]>> /\ r[4] # 0 <=> \E k \in Int : IsEntry(r, "stack", p, k)
    BY <1>1, <2>3 DEF IsEntry
  <2>5. r = <<"page", p, 0, page[p]>> /\ r[4] # 0 <=> \E k \in Int : IsEntry(r, "page", p, k)
    BY <1>1, <2>3 DEF IsEntry
  <2>6. (\E x \in lost : r = <<"lost", First, x, x>>) /\ r[4] # 0 /\ p = First <=>
                  \E k \in Int : IsEntry(r, "lost", p, k)
    BY <1>1, <2>3 DEF IsEntry
  <2> QED
    BY <2>1, <2>2, <2>4, <2>5, <2>6
<1>4. r \in References <=>
        /\ r[4] # 0
        /\ \/ \E p \in Proc : r \in SpaceRefs(Space("own", p, cr3[p], 0))
           \/ \E p \in Proc : dir[p] # cr3[p] /\ r \in SpaceRefs(Space("work", p, dir[p], From(p)))
           \/ \E p \in Proc : r = <<"stack", p, 0, stack[p]>>
           \/ \E p \in Proc : r = <<"page", p, 0, page[p]>>
           \/ \E x \in lost : r = <<"lost", First, x, x>>
  <2>1. (\E s \in Spaces : r \in SpaceRefs(s)) <=>
           \/ \E p \in Proc : r \in SpaceRefs(Space("own", p, cr3[p], 0))
           \/ \E p \in Proc : dir[p] # cr3[p] /\ r \in SpaceRefs(Space("work", p, dir[p], From(p)))
    BY <1>2, Zenon
  <2>2. r \in References <=>
          /\ r[4] # 0
          /\ \/ \E s \in Spaces : r \in SpaceRefs(s)
             \/ \E p \in Proc : r = <<"stack", p, 0, stack[p]>>
             \/ \E p \in Proc : r = <<"page", p, 0, page[p]>>
             \/ \E x \in lost : r = <<"lost", First, x, x>>
    <3>1. PICK A, B, C, D : /\ A = UNION {SpaceRefs(s) : s \in Spaces}
                            /\ B = {<<"stack", p, 0, stack[p]>> : p \in Proc}
                            /\ C = {<<"page", p, 0, page[p]>> : p \in Proc}
                            /\ D = {<<"lost", First, x, x>> : x \in lost}
      OBVIOUS
    <3>2. References = {z \in A \cup B \cup C \cup D : z[4] # 0}
      BY <3>1, Zenon DEF References
    <3>3. r \in References <=> r[4] # 0 /\ (r \in A \/ r \in B \/ r \in C \/ r \in D)
      BY <3>2, Zenon
    <3>4. /\ r \in A <=> \E s \in Spaces : r \in SpaceRefs(s)
          /\ r \in B <=> \E p \in Proc : r = <<"stack", p, 0, stack[p]>>
          /\ r \in C <=> \E p \in Proc : r = <<"page", p, 0, page[p]>>
          /\ r \in D <=> \E x \in lost : r = <<"lost", First, x, x>>
      BY <3>1, Zenon
    <3> QED
      BY <3>3, <3>4, Zenon
  <2> QED
    BY <2>1, <2>2, Zenon
<1>5. (\E u \in Use, p \in Proc, k \in Int : IsEntry(r, u, p, k)) <=>
        \E p \in Proc : \/ \E k \in Int : IsEntry(r, "own", p, k)
                        \/ \E k \in Int : IsEntry(r, "work", p, k)
                        \/ \E k \in Int : IsEntry(r, "stack", p, k)
                        \/ \E k \in Int : IsEntry(r, "page", p, k)
                        \/ \E k \in Int : IsEntry(r, "lost", p, k)
  BY DEF Use
<1>6. r \in References => \E u \in Use, p \in Proc, k \in Int : IsEntry(r, u, p, k)
  <2> SUFFICES ASSUME r \in References  PROVE \E u \in Use, p \in Proc, k \in Int : IsEntry(r, u, p, k)
    OBVIOUS
  <2>1. r[4] # 0
    BY <1>4
  <2>2. CASE \E p \in Proc : r \in SpaceRefs(Space("own", p, cr3[p], 0))
    BY <1>3, <1>5, <2>1, <2>2, Zenon
  <2>3. CASE \E p \in Proc : dir[p] # cr3[p] /\ r \in SpaceRefs(Space("work", p, dir[p], From(p)))
    BY <1>3, <1>5, <2>1, <2>3, Zenon
  <2>4. CASE \E p \in Proc : r = <<"stack", p, 0, stack[p]>>
    BY <1>3, <1>5, <2>1, <2>4, Zenon
  <2>5. CASE \E p \in Proc : r = <<"page", p, 0, page[p]>>
    BY <1>3, <1>5, <2>1, <2>5, Zenon
  <2>6. CASE \E x \in lost : r = <<"lost", First, x, x>>
    <3>1. \E k \in Int : IsEntry(r, "lost", First, k)
      BY <1>1, <1>3, <2>1, <2>6
    <3> QED
      BY <1>1, <3>1
  <2> QED
    BY <1>4, <2>2, <2>3, <2>4, <2>5, <2>6
<1>7. ASSUME \E u \in Use, p \in Proc, k \in Int : IsEntry(r, u, p, k)  PROVE r \in References
  <2>1. PICK p \in Proc : \/ \E k \in Int : IsEntry(r, "own", p, k)
                          \/ \E k \in Int : IsEntry(r, "work", p, k)
                          \/ \E k \in Int : IsEntry(r, "stack", p, k)
                          \/ \E k \in Int : IsEntry(r, "page", p, k)
                          \/ \E k \in Int : IsEntry(r, "lost", p, k)
    BY <1>5, <1>7
  <2>2. CASE \E k \in Int : IsEntry(r, "own", p, k)
    BY <1>3, <1>4, <2>2, Zenon
  <2>3. CASE \E k \in Int : IsEntry(r, "work", p, k)
    BY <1>3, <1>4, <2>3, Zenon
  <2>4. CASE \E k \in Int : IsEntry(r, "stack", p, k)
    BY <1>3, <1>4, <2>4, Zenon
  <2>5. CASE \E k \in Int : IsEntry(r, "page", p, k)
    BY <1>3, <1>4, <2>5, Zenon
  <2>6. CASE \E k \in Int : IsEntry(r, "lost", p, k)
    BY <1>3, <1>4, <2>6, Zenon
  <2> QED
    BY <2>1, <2>2, <2>3, <2>4, <2>5, <2>6
<1> QED
  BY <1>6, <1>7

(* However fork, exec, sbrk, wait and exit interleave, and wherever memory   *)
(* runs out in them, each page that is taken has exactly one use and each   *)
(* page in use is taken.                                                    *)
THEOREM PagesAlwaysAccounted == MemorySpec => []PagesAccounted
<1>1. MemInv => PagesAccounted
  <2> SUFFICES ASSUME MemInv  PROVE PagesAccounted
    OBVIOUS
  <2>1. MemTypes /\ Accounted(Vals, used)
    BY DEF MemInv
  <2>2. PICK U, R, V : U = used /\ R = References /\ V = Vals
    OBVIOUS
  <2>3. \A r : r \in R <=> \E u \in Use, p \in Proc, k \in Int : r = <<u, p, k, V[u][p][k]>> /\ V[u][p][k] # 0
    BY <2>1, <2>2, RefsAreEntries DEF IsEntry
  <2>4. Accounted(V, U)
    BY <2>1, <2>2
  <2>5. \A r \in R : r[4] \in U
    <3>1. ASSUME NEW r \in R  PROVE r[4] \in U
      <4>1. PICK u \in Use, p \in Proc, k \in Int : r = <<u, p, k, V[u][p][k]>> /\ V[u][p][k] # 0
        BY <2>3
      <4>2. r[4] = V[u][p][k]
        BY <4>1
      <4> QED
        BY <2>4, <4>1, <4>2 DEF Accounted
    <3> QED
      BY <3>1
  <2>6. ASSUME NEW x \in U  PROVE \E r \in R : r[4] = x
    <3>1. PICK u \in Use, p \in Proc, k \in Int : V[u][p][k] = x
      BY <2>4 DEF Accounted
    <3>2. x # 0
      BY <2>4, Sizes DEF Accounted
    <3>3. <<u, p, k, V[u][p][k]>> \in R /\ <<u, p, k, V[u][p][k]>>[4] = x
      BY <2>3, <3>1, <3>2
    <3> QED
      BY <3>3
  <2>7. ASSUME NEW r \in R, NEW s \in R, r[4] = s[4]  PROVE r = s
    <3>1. PICK u \in Use, p \in Proc, k \in Int : r = <<u, p, k, V[u][p][k]>> /\ V[u][p][k] # 0
      BY <2>3
    <3>2. PICK w \in Use, q \in Proc, j \in Int : s = <<w, q, j, V[w][q][j]>> /\ V[w][q][j] # 0
      BY <2>3
    <3>3. V[u][p][k] = V[w][q][j]
      BY <2>7, <3>1, <3>2
    <3>4. u = w /\ p = q /\ k = j
      BY <2>4, <3>1, <3>3 DEF Accounted
    <3> QED
      BY <3>1, <3>2, <3>4
  <2>8. {r[4] : r \in R} = U
    BY <2>5, <2>6
  <2>9. IsFiniteSet(U)
    <3>1. NrPage \in Int /\ 1 \in Int
      BY FirstPages
    <3>2. IsFiniteSet(Page)
      BY <3>1, FS_Interval DEF Page
    <3> QED
      BY <2>4, <3>2, FS_Subset DEF Accounted
  <2>10. PICK f : f = [r \in R |-> r[4]]
    OBVIOUS
  <2>11. f \in Injection(R, U)
    <3>1. f \in [R -> U] /\ \A r \in R : f[r] = r[4]
      BY <2>5, <2>10
    <3>2. \A r, s \in R : f[r] = f[s] => r = s
      BY <2>7, <3>1
    <3> QED
      BY <3>1, <3>2 DEF Injection, IsInjective
  <2>12. f \in Surjection(R, U)
    <3>1. f \in [R -> U] /\ \A r \in R : f[r] = r[4]
      BY <2>5, <2>10
    <3>2. \A x \in U : \E r \in R : f[r] = x
      BY <2>6, <3>1
    <3> QED
      BY <3>1, <3>2 DEF Surjection
  <2>13. Cardinality(R) = Cardinality(U)
    BY <2>9, <2>11, <2>12, FS_Injection
  <2> QED
    BY <2>2, <2>8, <2>13 DEF PagesAccounted
<1> QED
  BY <1>1, MemInvAlways, PTL

-----------------------------------------------------------------------------
\* The copy of an address space.

(* While p copies its address space no other process changes what p does.   *)
LEMMA CopyUndisturbed ==
  ASSUME MemInv, NEW p \in Proc, pc[p] = "copy", NEW q \in Proc, q # p, Step(q)
  PROVE  pc'[p] = "copy"
<1>1. pc \in [Proc -> Label] /\ other \in [Proc -> Proc]
  BY DEF MemInv, MemTypes
<1>2. /\ pc[q] \in Forking => pc[other[q]] = "new"
      /\ pc[q] \in Reaping => pc[other[q]] = "gone"
  BY DEF MemInv, ForksOK
<1>3. PICK c \in Proc : c = other[q]
  BY <1>1
<1>4. ASSUME NEW l, Goto(q, l)  PROVE pc'[p] = "copy"
  BY <1>1, <1>4 DEF Goto
<1>5. ASSUME NEW d, ForkEnds(q, d), pc[q] \in Forking  PROVE pc'[p] = "copy"
  <2>1. c # p
    BY <1>2, <1>3, <1>5
  <2> QED
    BY <1>1, <1>3, <1>5, <2>1 DEF ForkEnds
<1>6. ASSUME NEW ok, AfterAlloc(q, ok), Allocating(q)  PROVE pc'[p] = "copy"
  <2>1. \/ pc[q] = "sbrk" /\ Return(q)
        \/ pc[q] = "image" /\ ImageRead(q)
        \/ pc[q] = "stack" /\ StackReady(q, ok)
    BY <1>6 DEF AfterAlloc, Allocating
  <2> QED
    BY <1>4, <2>1 DEF Return, ImageRead, StackReady, BeginAlloc, BeginDestroy
<1>7. ASSUME NEW incr \in Incr, sys_sbrk(q, incr)  PROVE pc'[p] = "copy"
  <2>1. UNCHANGED calls \/ Goto(q, "sbrk")
    BY <1>7 DEF sys_sbrk, BeginAlloc
  <2> QED
    BY <1>4, <2>1 DEF calls
<1>8. CASE SbrkBelow(q)
  BY <1>4, <1>8 DEF SbrkBelow
<1>9. CASE AllocPage(q)
  BY <1>6, <1>9 DEF AllocPage
<1>10. CASE AllocMap(q)
  <2>1. Allocating(q) /\ (Goto(q, "panic") \/ AfterAlloc(q, FALSE) \/ AfterAlloc(q, TRUE) \/ pc' = pc)
    BY <1>10 DEF AllocMap
  <2> QED
    BY <1>4, <1>6, <2>1
<1>11. ASSUME NEW k \in Proc, ForkStack(q, k)  PROVE pc'[p] = "copy"
  BY <1>1, <1>11 DEF ForkStack
<1>12. CASE ForkDir(q)
  BY <1>4, <1>12 DEF ForkDir
<1>13. CASE CopyDir(q)
  BY <1>4, <1>5, <1>13 DEF CopyDir, Forking
<1>14. CASE CopyPage(q)
  BY <1>4, <1>14 DEF CopyPage, BeginDestroy
<1>15. CASE CopyMap(q)
  BY <1>4, <1>15 DEF CopyMap, BeginDestroy
<1>16. CASE CopyDone(q)
  BY <1>5, <1>16 DEF CopyDone, Forking
<1>17. CASE ExecDir(q)
  BY <1>4, <1>17 DEF ExecDir
<1>18. CASE LoadFails(q)
  BY <1>4, <1>18 DEF LoadFails, BeginDestroy
<1>19. ASSUME NEW size \in ImageSize, load_phdr(q, size)  PROVE pc'[p] = "copy"
  BY <1>4, <1>19 DEF load_phdr, BeginAlloc
<1>20. CASE Exit(q)
  BY <1>4, <1>20 DEF Exit
<1>21. ASSUME NEW k \in Proc, Reap(q, k)  PROVE pc'[p] = "copy"
  BY <1>1, <1>21 DEF Reap
<1>22. CASE ReapStack(q)
  <2>1. c # p
    BY <1>2, <1>3, <1>22 DEF ReapStack, Reaping
  <2> QED
    BY <1>1, <1>3, <1>22, <2>1 DEF ReapStack
<1>23. CASE FreeNext(q)
  BY <1>23 DEF FreeNext
<1>24. CASE FreeDir(q)
  <2>1. \/ pc[q] = "copy_undo" /\ ForkEnds(q, 0)
        \/ pc[q] = "undo" /\ Return(q)
        \/ pc[q] = "reap" /\ Goto(q, "reap_stack")
    BY <1>24 DEF FreeDir, Destroying
  <2> QED
    BY <1>4, <1>5, <2>1 DEF Return, Forking
<1> QED
  BY <1>7, <1>8, <1>9, <1>10, <1>11, <1>12, <1>13, <1>14, <1>15, <1>16, <1>17, <1>18, <1>19, <1>20,
     <1>21, <1>22, <1>23, <1>24 DEF Step

(* A process that copies its address space copies on, gives up or is done.  *)
LEMMA CopyGoesOn ==
  ASSUME MemInv, NEW p \in Proc, pc[p] = "copy", Step(p), ~ CopyDone(p)
  PROVE  pc'[p] # "user"
<1>1. pc \in [Proc -> Label]
  BY DEF MemInv, MemTypes
<1>2. CASE CopyPage(p)
  BY <1>1, <1>2 DEF CopyPage, BeginDestroy, Goto
<1>3. CASE CopyMap(p)
  BY <1>1, <1>3 DEF CopyMap, BeginDestroy, Goto
<1>4. /\ \A incr \in Incr : ~ sys_sbrk(p, incr)
      /\ \A size \in ImageSize : ~ load_phdr(p, size)
      /\ \A c \in Proc : ~ ForkStack(p, c) /\ ~ Reap(p, c)
      /\ ~ SbrkBelow(p) /\ ~ AllocPage(p) /\ ~ AllocMap(p) /\ ~ ForkDir(p) /\ ~ CopyDir(p)
      /\ ~ ExecDir(p) /\ ~ LoadFails(p) /\ ~ Exit(p) /\ ~ ReapStack(p) /\ ~ FreeNext(p) /\ ~ FreeDir(p)
  BY DEF sys_sbrk, load_phdr, ForkStack, Reap, SbrkBelow, AllocPage, AllocMap, Allocating, ForkDir, CopyDir,
         ExecDir, LoadFails, Exit, ReapStack, FreeNext, FreeDir, Destroying
<1> QED
  BY <1>2, <1>3, <1>4 DEF Step

(* memory_copy_uvm gives a child that runs the pages of its parent at that  *)
(* time, no more and no less, whatever other processes allocate and free    *)
(* while it copies them.                                                    *)
THEOREM ChildAlwaysComplete == MemorySpec => ChildComplete
<1> DEFINE Copied == \A p, c \in Proc : pc[p] = "copy" /\ pc'[p] = "user" /\ other[p] = c =>
                       Mapped(cr3[c])' = Mapped(cr3[p])
       Shown  == MemTypes => \A c \in Proc : cr3[c] # 0 => Mapped(cr3[c]) = Has("own", c)
<1>1. Shown'
  <2>1. Shown
    BY MappedIsHas
  <2> HIDE DEF Shown
  <2> QED
    BY <2>1, PTL
<1>2. MemInv /\ MemInv' /\ [MemoryNext]_mvars => [Copied]_mvars
  <2> SUFFICES ASSUME MemInv, MemInv', MemoryNext, NEW p \in Proc, NEW c \in Proc,
                      pc[p] = "copy", pc'[p] = "user", other[p] = c
               PROVE  Mapped(cr3[c])' = Mapped(cr3[p])
    OBVIOUS
  <2>1. PICK q \in Proc : Step(q)
    BY DEF MemoryNext
  <2>2. q = p
    BY <2>1, CopyUndisturbed
  <2>3. CopyDone(p)
    BY <2>1, <2>2, CopyGoesOn
  <2>4. cr3[p] # 0 /\ cr3'[c] # 0 /\ Has("own", c)' = Has("own", p)
    BY <2>3, CopyDoneInv
  <2>5. Mapped(cr3[p]) = Has("own", p)
    BY <2>4, MappedIsHas DEF MemInv
  <2>6. Mapped(cr3[c])' = Has("own", c)'
    BY <1>1, <2>4 DEF MemInv
  <2> QED
    BY <2>4, <2>5, <2>6
<1> QED
  BY <1>2, MemInvAlways, PTL DEF MemorySpec, ChildComplete
=============================================================================
