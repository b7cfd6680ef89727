------------------------ MODULE BankStatementParser_proofs ------------------------
(***************************************************************************)
(* Proofs about the algorithms of BankStatementParser, for texts and files *)
(* of every length.  The induction the recursive definitions call for is   *)
(* the least number principle below, which speaks of sets of numbers only. *)
(***************************************************************************)
EXTENDS BankStatementParser, FiniteSetTheorems, SequenceTheorems, TLAPS

-----------------------------------------------------------------------------
(***************************************************************************)
(* Induction.                                                              *)
(***************************************************************************)

\* A non-empty set of numbers has a least one: no interval 0 .. k with k in the
\* set is a proper part of every other.
LEMMA LeastNumber ==
    ASSUME NEW T \in SUBSET Nat, T # {}
    PROVE  \E m \in T : \A k \in T : m <= k
<1> DEFINE I == {0 .. m : m \in T}
<1>1. I \subseteq FiniteSubsetsOf(Nat)
  <2>1. \A m \in T : 0 .. m \in SUBSET Nat /\ IsFiniteSet(0 .. m)
    BY FS_Interval
  <2> QED BY <2>1 DEF FiniteSubsetsOf
<1>2. I # {}
  OBVIOUS
<1>3. PICK J \in I : \A K \in I : ~(<<K, J>> \in StrictSubsetOrdering(Nat))
  <2> HIDE DEF I
  <2> QED BY <1>1, <1>2, WFMin, FS_StrictSubsetOrderingWellFounded
<1>4. PICK m \in T : J = 0 .. m
  OBVIOUS
<1>5. ASSUME NEW k \in T, k < m PROVE FALSE
  <2>1. 0 .. k \in I /\ 0 .. k \subseteq J /\ 0 .. k # J
    BY <1>4, <1>5
  <2>2. 0 .. k \subseteq Nat /\ J \subseteq Nat
    BY <1>4
  <2> QED BY <1>3, <2>1, <2>2 DEF StrictSubsetOrdering
<1> QED BY <1>5

\* A set that has 0 and with every number the next has all numbers.
LEMMA Induction ==
    ASSUME NEW T, 0 \in T, \A n \in Nat : n \in T => n + 1 \in T
    PROVE  Nat \subseteq T
<1> SUFFICES ASSUME Nat \ T # {} PROVE FALSE
  OBVIOUS
<1>1. PICK m \in Nat \ T : \A k \in Nat \ T : m <= k
  BY LeastNumber
<1>2. m # 0 /\ m - 1 \in Nat
  BY <1>1
<1>3. m - 1 \in T
  BY <1>1, <1>2
<1> QED BY <1>1, <1>2, <1>3

-----------------------------------------------------------------------------
(***************************************************************************)
(* The table of levenshteinDistance.  It is the function that satisfies    *)
(* its defining equation: there is one, because the equation for a cell    *)
(* refers to cells of a smaller sum only.                                  *)
(***************************************************************************)

\* The right-hand side of the equation, for the cell c of the table f.
CellOf(a, b, f, c) ==
    IF c[1] = 0 THEN c[2]
    ELSE IF c[2] = 0 THEN c[1]
    ELSE Least({f[<<c[1] - 1, c[2]>>] + 1, f[<<c[1], c[2] - 1>>] + 1,
                f[<<c[1] - 1, c[2] - 1>>] + Cost(a, b, c[1], c[2])})

\* The cells a cell refers to are in the table and have a smaller sum.
LEMMA EarlierCells ==
    ASSUME NEW a, NEW b, Len(a) \in Nat, Len(b) \in Nat,
           NEW c \in Cells(a, b), c[1] # 0, c[2] # 0
    PROVE  /\ \A d \in {<<c[1] - 1, c[2]>>, <<c[1], c[2] - 1>>, <<c[1] - 1, c[2] - 1>>} :
                 d \in Cells(a, b) /\ d[1] + d[2] < c[1] + c[2]
           /\ c[1] \in 1 .. Len(a) /\ c[2] \in 1 .. Len(b)
BY DEF Cells

\* The diagonals up to any n can be filled in.
LEMMA TableUpTo ==
    ASSUME NEW a, NEW b, Len(a) \in Nat, Len(b) \in Nat, NEW n \in Nat
    PROVE  \E f : /\ f = [c \in Cells(a, b) |-> f[c]]
                  /\ \A c \in Cells(a, b) : c[1] + c[2] < n => f[c] = CellOf(a, b, f, c)
<1> DEFINE Filled(f, k) ==
             /\ f = [c \in Cells(a, b) |-> f[c]]
             /\ \A c \in Cells(a, b) : c[1] + c[2] < k => f[c] = CellOf(a, b, f, c)
           T == {k \in Nat : \E f : Filled(f, k)}
<1>1. 0 \in T
  <2> DEFINE g == [c \in Cells(a, b) |-> 0]
  <2>1. \A c \in Cells(a, b) : ~(c[1] + c[2] < 0)
    BY DEF Cells
  <2>2. Filled(g, 0)
    BY <2>1
  <2> QED BY <2>2
<1>2. ASSUME NEW k \in Nat, k \in T PROVE k + 1 \in T
  <2>1. PICK f : Filled(f, k)
    BY <1>2
  <2> DEFINE g == [c \in Cells(a, b) |-> CellOf(a, b, f, c)]
  <2>2. ASSUME NEW c \in Cells(a, b), c[1] + c[2] < k + 1
        PROVE  g[c] = CellOf(a, b, g, c)
    <3>1. CASE c[1] = 0 \/ c[2] = 0
      BY <3>1 DEF CellOf
    <3>2. CASE c[1] # 0 /\ c[2] # 0
      <4> DEFINE D == {<<c[1] - 1, c[2]>>, <<c[1], c[2] - 1>>, <<c[1] - 1, c[2] - 1>>}
      <4>1. \A d \in D : d \in Cells(a, b) /\ d[1] + d[2] < c[1] + c[2]
        BY <3>2, EarlierCells
      <4>2. \A d \in D : d[1] + d[2] < k
        <5> HIDE DEF D
        <5> QED BY <4>1, <2>2 DEF Cells
      <4>3. \A d \in D : g[d] = f[d]
        BY <2>1, <4>1, <4>2
      <4>4. CellOf(a, b, g, c) = CellOf(a, b, f, c)
        <5> HIDE DEF g
        <5> QED BY <4>3 DEF CellOf
      <4> QED BY <4>4
    <3> QED BY <3>1, <3>2
  <2>3. Filled(g, k + 1)
    BY <2>2
  <2>4. \E h : Filled(h, k + 1)
    <3> HIDE DEF g, Filled
    <3> QED BY <2>3
  <2> QED BY <2>4
<1> HIDE DEF T
<1>3. n \in T
  BY <1>1, <1>2, Induction
<1> QED BY <1>3 DEF T

\* The table satisfies its equation in every cell.
LEMMA TableEquation ==
    ASSUME NEW a, NEW b, Len(a) \in Nat, Len(b) \in Nat
    PROVE  LevenshteinTable(a, b)
             = [c \in Cells(a, b) |-> CellOf(a, b, LevenshteinTable(a, b), c)]
<1>1. PICK f : /\ f = [c \in Cells(a, b) |-> f[c]]
               /\ \A c \in Cells(a, b) : c[1] + c[2] < Len(a) + Len(b) + 1
                                            => f[c] = CellOf(a, b, f, c)
  <2>1. Len(a) + Len(b) + 1 \in Nat
    OBVIOUS
  <2> QED BY <2>1, TableUpTo
<1>2. \A c \in Cells(a, b) : c[1] + c[2] < Len(a) + Len(b) + 1
  BY DEF Cells
<1>3. f = [c \in Cells(a, b) |-> CellOf(a, b, f, c)]
  BY <1>1, <1>2
<1> QED BY <1>3 DEF LevenshteinTable, CellOf

-----------------------------------------------------------------------------
(***************************************************************************)
(* The distance is the least number of edits.  An overlay of the first i   *)
(* and j characters leaves out the last of either word, or lays one over   *)
(* the other: the three ways into a cell.                                  *)
(***************************************************************************)

Over(i, j) ==
    {M \in SUBSET ((1 .. i) \X (1 .. j)) :
        \A p, q \in M : p # q => (p[1] < q[1] /\ p[2] < q[2]) \/ (q[1] < p[1] /\ q[2] < p[2])}

Unlike(a, b, M) == {p \in M : a[p[1]] # b[p[2]]}

EditsOf(a, b, i, j, M) == i + j - 2 * Cardinality(M) + Cardinality(Unlike(a, b, M))

\* Among the edits of the first i and j characters d is the least.
IsLeastEdits(a, b, i, j, d) ==
    /\ \E M \in Over(i, j) : EditsOf(a, b, i, j, M) = d
    /\ \A M \in Over(i, j) : d <= EditsOf(a, b, i, j, M)

\* The pairs of an overlay can be counted, those of unlike characters too.
LEMMA OverlayCounted ==
    ASSUME NEW a, NEW b, NEW i \in Nat, NEW j \in Nat, NEW M \in Over(i, j)
    PROVE  /\ IsFiniteSet(M) /\ Cardinality(M) \in Nat
           /\ IsFiniteSet(Unlike(a, b, M)) /\ Cardinality(Unlike(a, b, M)) \in Nat
           /\ EditsOf(a, b, i, j, M) \in Int
<1>1. IsFiniteSet((1 .. i) \X (1 .. j))
  <2>1. IsFiniteSet(1 .. i) /\ IsFiniteSet(1 .. j)
    BY FS_Interval
  <2> QED BY <2>1, FS_Product
<1>2. IsFiniteSet(M) /\ Cardinality(M) \in Nat
  BY <1>1, FS_Subset, FS_CardinalityType DEF Over
<1>3. IsFiniteSet(Unlike(a, b, M)) /\ Cardinality(Unlike(a, b, M)) \in Nat
  BY <1>2, FS_Subset, FS_CardinalityType DEF Unlike
<1> QED BY <1>2, <1>3 DEF EditsOf

\* Over nothing nothing can be laid.
LEMMA NothingToOverlay ==
    ASSUME NEW i \in Nat, NEW j \in Nat, i = 0 \/ j = 0
    PROVE  Over(i, j) = {{}}
BY DEF Over

\* An overlay of shorter words is one of the longer, with the last characters
\* one over the other or without.
LEMMA OverlayGrows ==
    ASSUME NEW i \in Nat \ {0}, NEW j \in Nat \ {0}
    PROVE  /\ Over(i - 1, j) \subseteq Over(i, j)
           /\ Over(i, j - 1) \subseteq Over(i, j)
           /\ \A M \in Over(i - 1, j - 1) :
                 <<i, j>> \notin M /\ M \cup {<<i, j>>} \in Over(i, j)
<1>1. Over(i - 1, j) \subseteq Over(i, j) /\ Over(i, j - 1) \subseteq Over(i, j)
  BY DEF Over
<1>2. ASSUME NEW M \in Over(i - 1, j - 1)
      PROVE  <<i, j>> \notin M /\ M \cup {<<i, j>>} \in Over(i, j)
  <2>1. \A p \in M : p \in (1 .. i - 1) \X (1 .. j - 1)
    BY DEF Over
  <2>2. \A p \in M : p[1] < i /\ p[2] < j /\ p \in (1 .. i) \X (1 .. j)
    BY <2>1
  <2>3. <<i, j>> \notin M
    BY <2>2
  <2>4. ASSUME NEW p \in M \cup {<<i, j>>}, NEW q \in M \cup {<<i, j>>}, p # q
        PROVE  (p[1] < q[1] /\ p[2] < q[2]) \/ (q[1] < p[1] /\ q[2] < p[2])
    <3>1. CASE p \in M /\ q \in M
      BY <3>1, <2>4 DEF Over
    <3>2. CASE p = <<i, j>> \/ q = <<i, j>>
      BY <3>2, <2>2, <2>4
    <3> QED BY <3>1, <3>2
  <2> QED BY <2>2, <2>3, <2>4 DEF Over
<1> QED BY <1>1, <1>2

\* An overlay leaves out the last character of a word, or is one of the shorter
\* words with the last characters one over the other.
LEMMA OverlaySplits ==
    ASSUME NEW i \in Nat \ {0}, NEW j \in Nat \ {0}, NEW M \in Over(i, j)
    PROVE  \/ M \in Over(i - 1, j)
           \/ M \in Over(i, j - 1)
           \/ \E N \in Over(i - 1, j - 1) : M = N \cup {<<i, j>>}
<1>1. \A p \in M : p \in (1 .. i) \X (1 .. j) /\ p = <<p[1], p[2]>>
  BY DEF Over
<1>2. \A p, q \in M : p # q => (p[1] < q[1] /\ p[2] < q[2]) \/ (q[1] < p[1] /\ q[2] < p[2])
  BY DEF Over
<1>3. CASE \A p \in M : p[1] # i
  <2>1. \A p \in M : p \in (1 .. i - 1) \X (1 .. j)
    BY <1>1, <1>3
  <2> QED BY <2>1, <1>2 DEF Over
<1>4. CASE \A p \in M : p[2] # j
  <2>1. \A p \in M : p \in (1 .. i) \X (1 .. j - 1)
    BY <1>1, <1>4
  <2> QED BY <2>1, <1>2 DEF Over
<1>5. ASSUME NEW p \in M, p[1] = i, NEW q \in M, q[2] = j
      PROVE  \E N \in Over(i - 1, j - 1) : M = N \cup {<<i, j>>}
  <2>1. p = q
    <3>1. p[1] \in 1 .. i /\ p[2] \in 1 .. j /\ q[1] \in 1 .. i /\ q[2] \in 1 .. j
      BY <1>1
    <3>2. ~(p[1] < q[1]) /\ ~(q[2] < p[2])
      BY <3>1, <1>5
    <3> QED BY <3>2, <1>2
  <2>2. p = <<i, j>>
    BY <2>1, <1>1, <1>5
  <2> DEFINE N == M \ {p}
  <2>3. ASSUME NEW r \in N PROVE r \in (1 .. i - 1) \X (1 .. j - 1)
    <3>1. r[1] \in 1 .. i /\ r[2] \in 1 .. j /\ r = <<r[1], r[2]>>
      BY <1>1
    <3>2. (r[1] < p[1] /\ r[2] < p[2]) \/ (p[1] < r[1] /\ p[2] < r[2])
      BY <1>2
    <3>3. r[1] < i /\ r[2] < j
      BY <3>1, <3>2, <2>2
    <3> QED BY <3>1, <3>3
  <2>4. N \in Over(i - 1, j - 1)
    BY <2>3, <1>2 DEF Over
  <2> QED BY <2>2, <2>4
<1> QED BY <1>3, <1>4, <1>5

\* Laying the last characters one over the other costs the cell's Cost.
LEMMA EditsOfOneMore ==
    ASSUME NEW a, NEW b, NEW i \in Nat \ {0}, NEW j \in Nat \ {0}, NEW M \in Over(i - 1, j - 1)
    PROVE  EditsOf(a, b, i, j, M \cup {<<i, j>>})
             = EditsOf(a, b, i - 1, j - 1, M) + Cost(a, b, i, j)
<1> DEFINE N == M \cup {<<i, j>>}
<1>1. /\ IsFiniteSet(M) /\ Cardinality(M) \in Nat
      /\ IsFiniteSet(Unlike(a, b, M)) /\ Cardinality(Unlike(a, b, M)) \in Nat
  <2>1. i - 1 \in Nat /\ j - 1 \in Nat
    OBVIOUS
  <2> QED BY <2>1, OverlayCounted
<1>2. <<i, j>> \notin M
  BY OverlayGrows
<1>3. Cardinality(N) = Cardinality(M) + 1
  BY <1>1, <1>2, FS_AddElement
<1>4. CASE a[i] = b[j]
  <2>1. Unlike(a, b, N) = Unlike(a, b, M)
    BY <1>4 DEF Unlike
  <2> QED BY <1>1, <1>3, <1>4, <2>1 DEF EditsOf, Cost
<1>5. CASE a[i] # b[j]
  <2>1. Unlike(a, b, N) = Unlike(a, b, M) \cup {<<i, j>>}
    BY <1>5 DEF Unlike
  <2>2. <<i, j>> \notin Unlike(a, b, M)
    BY <1>2 DEF Unlike
  <2>3. Cardinality(Unlike(a, b, N)) = Cardinality(Unlike(a, b, M)) + 1
    BY <1>1, <2>1, <2>2, FS_AddElement
  <2> QED BY <1>1, <1>3, <1>5, <2>3 DEF EditsOf, Cost
<1> QED BY <1>4, <1>5

\* The least of three numbers is one of them and no greater than any.
LEMMA LeastOfThree ==
    ASSUME NEW x \in Int, NEW y \in Int, NEW z \in Int
    PROVE  /\ Least({x, y, z}) \in {x, y, z}
           /\ Least({x, y, z}) <= x /\ Least({x, y, z}) <= y /\ Least({x, y, z}) <= z
<1>1. \E n \in {x, y, z} : \A m \in {x, y, z} : n <= m
  <2>1. CASE x <= y /\ x <= z
    BY <2>1
  <2>2. CASE y <= x /\ y <= z
    BY <2>2
  <2>3. CASE z <= x /\ z <= y
    BY <2>3
  <2> QED BY <2>1, <2>2, <2>3
<1> QED BY <1>1 DEF Least

\* A cell holds the least edits if the three it is computed from do.
LEMMA LeastEditsStep ==
    ASSUME NEW a, NEW b, NEW i \in Nat \ {0}, NEW j \in Nat \ {0},
           NEW x \in Int, NEW y \in Int, NEW z \in Int,
           IsLeastEdits(a, b, i - 1, j, x), IsLeastEdits(a, b, i, j - 1, y),
           IsLeastEdits(a, b, i - 1, j - 1, z)
    PROVE  IsLeastEdits(a, b, i, j, Least({x + 1, y + 1, z + Cost(a, b, i, j)}))
<1> DEFINE c == Cost(a, b, i, j)
           d == Least({x + 1, y + 1, z + c})
<1>1. c \in Int /\ i - 1 \in Nat /\ j - 1 \in Nat
  BY DEF Cost
<1>2. d \in {x + 1, y + 1, z + c} /\ d <= x + 1 /\ d <= y + 1 /\ d <= z + c
  <2> HIDE DEF c
  <2>1. x + 1 \in Int /\ y + 1 \in Int /\ z + c \in Int
    BY <1>1
  <2> QED BY <2>1, LeastOfThree
<1> HIDE DEF c, d
<1>3. \A M \in Over(i - 1, j) : EditsOf(a, b, i, j, M) = EditsOf(a, b, i - 1, j, M) + 1
  BY <1>1, OverlayCounted DEF EditsOf
<1>4. \A M \in Over(i, j - 1) : EditsOf(a, b, i, j, M) = EditsOf(a, b, i, j - 1, M) + 1
  BY <1>1, OverlayCounted DEF EditsOf
<1>5. \A M \in Over(i - 1, j - 1) :
         EditsOf(a, b, i, j, M \cup {<<i, j>>}) = EditsOf(a, b, i - 1, j - 1, M) + c
  BY EditsOfOneMore DEF c
<1>6. \E M \in Over(i, j) : EditsOf(a, b, i, j, M) = d
  <2>1. CASE d = x + 1
    BY <2>1, <1>3, OverlayGrows DEF IsLeastEdits
  <2>2. CASE d = y + 1
    BY <2>2, <1>4, OverlayGrows DEF IsLeastEdits
  <2>3. CASE d = z + c
    BY <2>3, <1>5, OverlayGrows DEF IsLeastEdits
  <2> QED BY <1>2, <2>1, <2>2, <2>3
<1>7. ASSUME NEW M \in Over(i, j) PROVE d <= EditsOf(a, b, i, j, M)
  <2>1. CASE M \in Over(i - 1, j)
    <3>1. x <= EditsOf(a, b, i - 1, j, M) /\ EditsOf(a, b, i - 1, j, M) \in Int
      BY <2>1, <1>1, OverlayCounted DEF IsLeastEdits
    <3> QED BY <2>1, <3>1, <1>2, <1>3, <1>1
  <2>2. CASE M \in Over(i, j - 1)
    <3>1. y <= EditsOf(a, b, i, j - 1, M) /\ EditsOf(a, b, i, j - 1, M) \in Int
      BY <2>2, <1>1, OverlayCounted DEF IsLeastEdits
    <3> QED BY <2>2, <3>1, <1>2, <1>4, <1>1
  <2>3. ASSUME NEW N \in Over(i - 1, j - 1), M = N \cup {<<i, j>>}
        PROVE  d <= EditsOf(a, b, i, j, M)
    <3>1. z <= EditsOf(a, b, i - 1, j - 1, N) /\ EditsOf(a, b, i - 1, j - 1, N) \in Int
      BY <1>1, OverlayCounted DEF IsLeastEdits
    <3> QED BY <2>3, <3>1, <1>2, <1>5, <1>1
  <2> QED BY <2>1, <2>2, <2>3, OverlaySplits
<1> QED BY <1>6, <1>7 DEF IsLeastEdits, d, c

\* Every cell of the table holds the least edits of its two prefixes.
LEMMA TableHoldsLeastEdits ==
    ASSUME NEW a, NEW b, Len(a) \in Nat, Len(b) \in Nat, NEW c \in Cells(a, b)
    PROVE  /\ LevenshteinTable(a, b)[c] \in Int
           /\ IsLeastEdits(a, b, c[1], c[2], LevenshteinTable(a, b)[c])
<1> DEFINE f == LevenshteinTable(a, b)
           T == {k \in Nat : \A d \in Cells(a, b) :
                    d[1] + d[2] < k => f[d] \in Int /\ IsLeastEdits(a, b, d[1], d[2], f[d])}
<1>1. \A d \in Cells(a, b) : f[d] = CellOf(a, b, f, d)
  BY TableEquation
<1>2. \A d \in Cells(a, b) : d[1] \in Nat /\ d[2] \in Nat
  BY DEF Cells
<1> HIDE DEF f
<1>3. 0 \in T
  BY <1>2
<1>4. ASSUME NEW k \in Nat, k \in T PROVE k + 1 \in T
  <2>1. ASSUME NEW d \in Cells(a, b), d[1] + d[2] < k + 1
        PROVE  f[d] \in Int /\ IsLeastEdits(a, b, d[1], d[2], f[d])
    <3>1. CASE d[1] = 0 \/ d[2] = 0
      <4>1. f[d] = d[1] + d[2]
        <5>1. f[d] = IF d[1] = 0 THEN d[2] ELSE d[1]
          BY <3>1, <1>1 DEF CellOf
        <5> QED BY <5>1, <3>1, <1>2
      <4>2. Over(d[1], d[2]) = {{}}
        BY <3>1, <1>2, NothingToOverlay
      <4>3. EditsOf(a, b, d[1], d[2], {}) = d[1] + d[2]
        <5>1. Cardinality({}) = 0
          BY FS_EmptySet
        <5>2. Unlike(a, b, {}) = {}
          BY DEF Unlike
        <5>3. EditsOf(a, b, d[1], d[2], {}) = d[1] + d[2] - 2 * 0 + 0
          BY <5>1, <5>2 DEF EditsOf
        <5> QED BY <5>3, <1>2
      <4>4. d[1] + d[2] \in Int
        BY <1>2
      <4> QED BY <4>1, <4>2, <4>3, <4>4 DEF IsLeastEdits
    <3>2. CASE d[1] # 0 /\ d[2] # 0
      <4> DEFINE u == <<d[1] - 1, d[2]>>
                 l == <<d[1], d[2] - 1>>
                 v == <<d[1] - 1, d[2] - 1>>
                 D == {u, l, v}
                 w == Cost(a, b, d[1], d[2])
      <4>1. \A e \in D : e \in Cells(a, b) /\ e[1] + e[2] < d[1] + d[2]
        BY <3>2, EarlierCells
      <4>2. \A e \in D : f[e] \in Int /\ IsLeastEdits(a, b, e[1], e[2], f[e])
        <5> HIDE DEF D
        <5>1. \A e \in D : e[1] + e[2] < k
          BY <4>1, <2>1, <1>2
        <5> QED BY <5>1, <4>1, <1>4
      <4>3. d[1] \in Nat \ {0} /\ d[2] \in Nat \ {0} /\ w \in Int
        BY <3>2, <1>2 DEF Cost
      <4>4. PICK x \in Int, y \in Int, z \in Int :
               /\ f[d] = Least({x + 1, y + 1, z + w})
               /\ IsLeastEdits(a, b, d[1] - 1, d[2], x)
               /\ IsLeastEdits(a, b, d[1], d[2] - 1, y)
               /\ IsLeastEdits(a, b, d[1] - 1, d[2] - 1, z)
        <5>1. f[d] = Least({f[u] + 1, f[l] + 1, f[v] + w})
          BY <3>2, <1>1 DEF CellOf
        <5> QED BY <5>1, <4>2
      <4>5. IsLeastEdits(a, b, d[1], d[2], f[d])
        <5>1. IsLeastEdits(a, b, d[1], d[2], Least({x + 1, y + 1, z + w}))
          BY <4>3, <4>4, LeastEditsStep
        <5> QED BY <5>1, <4>4
      <4>6. x + 1 \in Int /\ y + 1 \in Int /\ z + w \in Int
        BY <4>3
      <4>7. f[d] \in Int
        <5> HIDE DEF w
        <5>1. Least({x + 1, y + 1, z + w}) \in {x + 1, y + 1, z + w}
          BY <4>6, LeastOfThree
        <5> QED BY <5>1, <4>6, <4>4
      <4> QED BY <4>5, <4>7
    <3> QED BY <3>1, <3>2
  <2> QED BY <2>1
<1>5. c[1] + c[2] + 1 \in Nat
  BY <1>2
<1>6. c[1] + c[2] + 1 \in T
  <2> HIDE DEF T
  <2> QED BY <1>3, <1>4, <1>5, Induction
<1>7. c[1] + c[2] < c[1] + c[2] + 1
  BY <1>2
<1> QED BY <1>6, <1>7 DEF f

\* levenshteinDistance returns the least number of insertions, deletions and
\* substitutions that turn one text into the other, whatever their characters
\* and lengths.
THEOREM DistanceIsEditDistance ==
    ASSUME NEW Character, NEW a \in Seq(Character), NEW b \in Seq(Character)
    PROVE  DistanceIsLeastEdits(a, b)
<1> DEFINE d == LevenshteinDistance(a, b)
           E == {Edits(a, b, M) : M \in Overlays(a, b)}
<1>1. Len(a) \in Nat /\ Len(b) \in Nat /\ <<Len(a), Len(b)>> \in Cells(a, b)
  BY DEF Cells
<1>2. d \in Int /\ IsLeastEdits(a, b, Len(a), Len(b), d)
  BY <1>1, TableHoldsLeastEdits DEF LevenshteinDistance
<1>3. Overlays(a, b) = Over(Len(a), Len(b))
  BY DEF Overlays, Over
<1>4. \A M \in Overlays(a, b) :
         /\ Edits(a, b, M) = EditsOf(a, b, Len(a), Len(b), M)
         /\ EditsOf(a, b, Len(a), Len(b), M) \in Int
  <2>1. \A M : Edits(a, b, M) = EditsOf(a, b, Len(a), Len(b), M)
    BY DEF Edits, EditsOf, Unlike
  <2> QED BY <2>1, <1>1, <1>3, OverlayCounted
<1> HIDE DEF d
<1>5. d \in E /\ \A n \in E : n \in Int /\ d <= n
  BY <1>2, <1>3, <1>4 DEF IsLeastEdits
<1>6. Least(E) = d
  <2> HIDE DEF E
  <2>1. \E n \in E : \A m \in E : n <= m
    BY <1>5
  <2>2. Least(E) \in E /\ \A m \in E : Least(E) <= m
    <3>1. Least(E) = CHOOSE n \in E : \A m \in E : n <= m
      BY DEF Least
    <3> QED BY <2>1, <3>1
  <2>3. Least(E) \in E /\ Least(E) <= d
    BY <2>2, <1>5
  <2>4. Least(E) \in Int /\ d <= Least(E) /\ d \in Int
    BY <2>2, <1>5
  <2> QED BY <2>3, <2>4
<1> QED BY <1>6 DEF DistanceIsLeastEdits, d

-----------------------------------------------------------------------------
(***************************************************************************)
(* What similarity and fuzzyMatch make of the distance.                    *)
(***************************************************************************)

\* The first i characters of a are the first j of b.
SamePrefix(a, b, i, j) == i = j /\ \A k \in 1 .. i : a[k] = b[k]

\* A cell is no greater than the longer prefix, and 0 for equal prefixes only.
CellIsRight(a, b, i, j, x) ==
    x \in Nat /\ x <= Greater(i, j) /\ (x = 0 <=> SamePrefix(a, b, i, j))

LEMMA CellIsRightStep ==
    ASSUME NEW a, NEW b, NEW i \in Nat \ {0}, NEW j \in Nat \ {0}, NEW x, NEW y, NEW z,
           CellIsRight(a, b, i - 1, j, x), CellIsRight(a, b, i, j - 1, y),
           CellIsRight(a, b, i - 1, j - 1, z)
    PROVE  CellIsRight(a, b, i, j, Least({x + 1, y + 1, z + Cost(a, b, i, j)}))
<1> DEFINE w == Cost(a, b, i, j)
           d == Least({x + 1, y + 1, z + w})
<1>1. x \in Nat /\ y \in Nat /\ z \in Nat /\ w \in {0, 1}
  BY DEF CellIsRight, Cost
<1>2. d \in {x + 1, y + 1, z + w} /\ d <= z + w
  <2>1. x + 1 \in Int /\ y + 1 \in Int /\ z + w \in Int
    <3> HIDE DEF w
    <3> QED BY <1>1
  <2> HIDE DEF w
  <2>2. d \in {x + 1, y + 1, z + w}
    BY <2>1, LeastOfThree
  <2>3. d <= z + w
    BY <2>1, LeastOfThree
  <2> QED BY <2>2, <2>3
<1>3. z <= Greater(i - 1, j - 1) /\ Greater(i - 1, j - 1) + 1 = Greater(i, j)
  BY DEF CellIsRight, Greater
<1>4. z = 0 <=> SamePrefix(a, b, i - 1, j - 1)
  BY DEF CellIsRight
<1>5. SamePrefix(a, b, i, j) <=> SamePrefix(a, b, i - 1, j - 1) /\ w = 0
  <2>1. 1 .. i = (1 .. i - 1) \cup {i}
    OBVIOUS
  <2>2. i = j <=> i - 1 = j - 1
    OBVIOUS
  <2>3. w = 0 <=> a[i] = b[j]
    BY DEF Cost
  <2> HIDE DEF w
  <2> QED BY <2>1, <2>2, <2>3 DEF SamePrefix
<1> HIDE DEF w, d
<1>6. d \in Nat /\ d <= Greater(i, j)
  <2>1. PICK g \in Nat, h \in Nat : g = Greater(i, j) /\ h = Greater(i - 1, j - 1)
    BY DEF Greater
  <2>2. z <= h /\ h + 1 = g
    BY <1>3, <2>1
  <2>3. d \in Nat /\ d <= z + 1
    BY <1>1, <1>2
  <2> QED BY <1>1, <2>1, <2>2, <2>3
<1>7. d = 0 <=> z = 0 /\ w = 0
  BY <1>1, <1>2
<1> QED BY <1>4, <1>5, <1>6, <1>7 DEF CellIsRight, d, w

\* An empty prefix is as far from another as that one is long.
LEMMA EdgeIsRight ==
    ASSUME NEW a, NEW b, NEW i \in Nat, NEW j \in Nat, i = 0 \/ j = 0
    PROVE  CellIsRight(a, b, i, j, i + j)
BY DEF CellIsRight, Greater, SamePrefix

LEMMA TableIsRight ==
    ASSUME NEW a, NEW b, Len(a) \in Nat, Len(b) \in Nat, NEW c \in Cells(a, b)
    PROVE  CellIsRight(a, b, c[1], c[2], LevenshteinTable(a, b)[c])
<1> DEFINE f == LevenshteinTable(a, b)
           T == {k \in Nat : \A d \in Cells(a, b) :
                    d[1] + d[2] < k => CellIsRight(a, b, d[1], d[2], f[d])}
<1>1. \A d \in Cells(a, b) : f[d] = CellOf(a, b, f, d)
  BY TableEquation
<1>2. \A d \in Cells(a, b) : d[1] \in Nat /\ d[2] \in Nat
  BY DEF Cells
<1> HIDE DEF f
<1>3. 0 \in T
  BY <1>2
<1>4. ASSUME NEW k \in Nat, k \in T PROVE k + 1 \in T
  <2>1. ASSUME NEW d \in Cells(a, b), d[1] + d[2] < k + 1
        PROVE  CellIsRight(a, b, d[1], d[2], f[d])
    <3>1. CASE d[1] = 0 \/ d[2] = 0
      <4>1. f[d] = d[1] + d[2]
        <5>1. f[d] = IF d[1] = 0 THEN d[2] ELSE d[1]
          BY <3>1, <1>1 DEF CellOf
        <5> QED BY <5>1, <3>1, <1>2
      <4> QED BY <3>1, <4>1, <1>2, EdgeIsRight
    <3>2. CASE d[1] # 0 /\ d[2] # 0
      <4> DEFINE u == <<d[1] - 1, d[2]>>
                 l == <<d[1], d[2] - 1>>
                 v == <<d[1] - 1, d[2] - 1>>
                 D == {u, l, v}
                 w == Cost(a, b, d[1], d[2])
      <4>1. \A e \in D : e \in Cells(a, b) /\ e[1] + e[2] < d[1] + d[2]
        BY <3>2, EarlierCells
      <4>2. \A e \in D : CellIsRight(a, b, e[1], e[2], f[e])
        <5> HIDE DEF D
        <5>1. \A e \in D : e[1] + e[2] < k
          BY <4>1, <2>1, <1>2
        <5> QED BY <5>1, <4>1, <1>4
      <4>3. d[1] \in Nat \ {0} /\ d[2] \in Nat \ {0}
        BY <3>2, <1>2
      <4>4. PICK x, y, z : /\ f[d] = Least({x + 1, y + 1, z + w})
                           /\ CellIsRight(a, b, d[1] - 1, d[2], x)
                           /\ CellIsRight(a, b, d[1], d[2] - 1, y)
                           /\ CellIsRight(a, b, d[1] - 1, d[2] - 1, z)
        <5>1. f[d] = Least({f[u] + 1, f[l] + 1, f[v] + w})
          BY <3>2, <1>1 DEF CellOf
        <5> QED BY <5>1, <4>2
      <4>5. CellIsRight(a, b, d[1], d[2], Least({x + 1, y + 1, z + w}))
        BY <4>3, <4>4, CellIsRightStep
      <4> QED BY <4>4, <4>5
    <3> QED BY <3>1, <3>2
  <2> QED BY <2>1
<1>5. c[1] + c[2] + 1 \in Nat
  BY <1>2
<1>6. c[1] + c[2] + 1 \in T
  <2> HIDE DEF T
  <2> QED BY <1>3, <1>4, <1>5, Induction
<1>7. c[1] + c[2] < c[1] + c[2] + 1
  BY <1>2
<1> QED BY <1>6, <1>7 DEF f

\* The distance of two texts is at most the length of the longer, and 0 only
\* between equal ones.
LEMMA DistanceIsRight ==
    ASSUME NEW Character, NEW a \in Seq(Character), NEW b \in Seq(Character)
    PROVE  /\ LevenshteinDistance(a, b) \in Nat
           /\ LevenshteinDistance(a, b) <= Greater(Len(a), Len(b))
           /\ LevenshteinDistance(a, b) = 0 <=> a = b
<1>1. Len(a) \in Nat /\ Len(b) \in Nat /\ <<Len(a), Len(b)>> \in Cells(a, b)
  BY DEF Cells
<1>2. CellIsRight(a, b, Len(a), Len(b), LevenshteinDistance(a, b))
  BY <1>1, TableIsRight DEF LevenshteinDistance
<1>3. SamePrefix(a, b, Len(a), Len(b)) <=> a = b
  BY SeqEqual DEF SamePrefix
<1> QED BY <1>2, <1>3 DEF CellIsRight

\* similarity is a fraction between 0 and 1, and 1 for equal texts only: the
\* score that fuzzyMatch holds against its threshold never leaves that range.
THEOREM SimilarityIsAFraction ==
    ASSUME NEW Character, NEW a \in Seq(Character), NEW b \in Seq(Character)
    PROVE  /\ Similarity(a, b)[2] \in Nat \ {0}
           /\ Similarity(a, b)[1] \in 0 .. Similarity(a, b)[2]
           /\ Similarity(a, b)[1] = Similarity(a, b)[2] <=> a = b
<1> DEFINE n == Greater(Len(a), Len(b))
           d == LevenshteinDistance(a, b)
<1>1. n \in Nat
  BY DEF Greater
<1>2. d \in Nat /\ d <= n /\ (d = 0 <=> a = b)
  BY DistanceIsRight
<1>3. CASE n = 0
  <2>1. Similarity(a, b) = <<1, 1>>
    BY <1>3 DEF Similarity
  <2>2. d = 0
    BY <1>2, <1>3
  <2> QED BY <2>1, <2>2, <1>2
<1>4. CASE n # 0
  <2>1. Similarity(a, b) = <<n - d, n>>
    BY <1>4 DEF Similarity
  <2> HIDE DEF n, d
  <2> QED BY <2>1, <1>1, <1>2, <1>4
<1> QED BY <1>3, <1>4

\* Products keep the order of their factors.
LEMMA TimesMonotonic ==
    ASSUME NEW x \in Nat, NEW y \in Nat, NEW z \in Nat, x <= y
    PROVE  x * z <= y * z
<1>1. PICK w \in Nat : y = x + w
  <2>1. y - x \in Nat /\ y = x + (y - x)
    OBVIOUS
  <2> QED BY <2>1
<1>2. y * z = x * z + w * z
  BY <1>1
<1>3. w * z \in Nat /\ x * z \in Nat
  OBVIOUS
<1> QED BY <1>2, <1>3

\* A fraction below 3/5 and one not above 1 have a mean below 4/5.
LEMMA MeanBelow ==
    ASSUME NEW k \in Nat, NEW m \in Nat, NEW l \in Nat, NEW n \in Nat \ {0}, l <= n,
           5 * k < 3 * m
    PROVE  5 * (k * n + l * m) < 8 * m * n
<1>1. PICK P \in Nat, A \in Nat, B \in Nat : P = m * n /\ A = k * n /\ B = l * m
  OBVIOUS
<1>2. B <= P
  <2>1. l * m <= n * m /\ n * m = m * n
    BY TimesMonotonic
  <2> QED BY <1>1, <2>1
<1>3. 5 * A + n <= 3 * P
  <2>1. (5 * k + 1) * n <= (3 * m) * n
    <3>1. 5 * k + 1 \in Nat /\ 3 * m \in Nat /\ 5 * k + 1 <= 3 * m
      OBVIOUS
    <3> QED BY <3>1, TimesMonotonic
  <2>2. (5 * k + 1) * n = 5 * (k * n) + n /\ (3 * m) * n = 3 * (m * n)
    OBVIOUS
  <2> QED BY <1>1, <2>1, <2>2
<1>4. 5 * (A + B) < 8 * P
  BY <1>2, <1>3
<1>5. 8 * m * n = 8 * (m * n)
  OBVIOUS
<1> QED BY <1>1, <1>4, <1>5

\* A fuzzy match takes both likenesses: unless the amount and the date agree
\* exactly, neither the amounts' digits nor the texts may be less than three
\* fifths alike.  Equal amounts alone match nothing.
THEOREM FuzzyMatchTakesBoth ==
    ASSUME NEW Character, NEW t, NEW s,
           t.digits \in Seq(Character), s.digits \in Seq(Character),
           t.text \in Seq(Character), s.text \in Seq(Character),
           FuzzyMatch(t, s), ~(t.amount = s.amount /\ t.date = s.date)
    PROVE  /\ 5 * Similarity(t.digits, s.digits)[1] >= 3 * Similarity(t.digits, s.digits)[2]
           /\ 5 * Similarity(t.text, s.text)[1] >= 3 * Similarity(t.text, s.text)[2]
<1> DEFINE k == Similarity(t.digits, s.digits)[1]
           m == Similarity(t.digits, s.digits)[2]
           l == Similarity(t.text, s.text)[1]
           n == Similarity(t.text, s.text)[2]
<1>1. 5 * (k * n + l * m) >= 8 * m * n
  BY DEF FuzzyMatch
<1>2. k \in 0 .. m /\ m \in Nat \ {0}
  BY SimilarityIsAFraction
<1>3. l \in 0 .. n /\ n \in Nat \ {0}
  BY SimilarityIsAFraction
<1> HIDE DEF k, m, l, n
<1>4. /\ k \in Nat /\ l \in Nat /\ k <= m /\ l <= n
      /\ k * n \in Nat /\ l * m \in Nat /\ 8 * m * n \in Nat
  BY <1>2, <1>3
<1>5. ~(5 * k < 3 * m)
  <2>1. 5 * k < 3 * m => 5 * (k * n + l * m) < 8 * m * n
    BY <1>2, <1>3, <1>4, MeanBelow
  <2> QED BY <1>1, <1>4, <2>1
<1>6. ~(5 * l < 3 * n)
  <2>1. 5 * l < 3 * n => 5 * (l * m + k * n) < 8 * n * m
    BY <1>2, <1>3, <1>4, MeanBelow
  <2>2. l * m + k * n = k * n + l * m /\ 8 * n * m = 8 * m * n
    BY <1>2, <1>3, <1>4
  <2> QED BY <1>1, <1>4, <2>1, <2>2
<1>7. 5 * k >= 3 * m /\ 5 * l >= 3 * n
  BY <1>2, <1>3, <1>4, <1>5, <1>6
<1> QED BY <1>7 DEF k, m, l, n

-----------------------------------------------------------------------------
(***************************************************************************)
(* The OFX parser.                                                         *)
(***************************************************************************)

Start == [open |-> Nothing, made |-> <<>>]

\* The first n lines of a file can be gone through.
LEMMA CollectedUpTo ==
    ASSUME NEW lines, NEW n \in Nat
    PROVE  \E f : /\ f = [k \in 0 .. n |-> f[k]]
                  /\ f[0] = Start
                  /\ \A k \in 1 .. n : f[k] = OFXLine(f[k - 1], lines[k])
<1> DEFINE Through(f, m) == /\ f = [k \in 0 .. m |-> f[k]]
                            /\ f[0] = Start
                            /\ \A k \in 1 .. m : f[k] = OFXLine(f[k - 1], lines[k])
           T == {m \in Nat : \E f : Through(f, m)}
<1>1. 0 \in T
  <2> DEFINE g == [k \in 0 .. 0 |-> Start]
  <2>1. Through(g, 0)
    OBVIOUS
  <2> QED BY <2>1
<1>2. ASSUME NEW m \in Nat, m \in T PROVE m + 1 \in T
  <2>1. PICK f : Through(f, m)
    BY <1>2
  <2> DEFINE g == [k \in 0 .. m + 1 |-> IF k = m + 1 THEN OFXLine(f[m], lines[m + 1]) ELSE f[k]]
  <2>2. \A k \in 0 .. m : g[k] = f[k]
    OBVIOUS
  <2>3. g[0] = Start
    BY <2>1, <2>2
  <2>4. ASSUME NEW k \in 1 .. m + 1 PROVE g[k] = OFXLine(g[k - 1], lines[k])
    <3>1. g[k - 1] = f[k - 1]
      BY <2>2
    <3>2. CASE k = m + 1
      BY <3>1, <3>2
    <3>3. CASE k # m + 1
      <4>1. k \in 1 .. m /\ g[k] = f[k]
        BY <3>3, <2>2
      <4>2. f[k] = OFXLine(f[k - 1], lines[k])
        BY <4>1, <2>1
      <4> QED BY <4>1, <4>2, <3>1
    <3> QED BY <3>2, <3>3
  <2>5. g = [k \in 0 .. m + 1 |-> g[k]]
    OBVIOUS
  <2> HIDE DEF g
  <2>6. Through(g, m + 1)
    BY <2>3, <2>4, <2>5
  <2>7. \E h : Through(h, m + 1)
    <3> HIDE DEF Through
    <3> QED BY <2>6
  <2>8. m + 1 \in Nat
    OBVIOUS
  <2> HIDE DEF Through
  <2> QED BY <2>7, <2>8
<1> HIDE DEF T
<1>3. n \in T
  BY <1>1, <1>2, Induction
<1> QED BY <1>3 DEF T

\* Every line is applied to what the lines before it have collected.
LEMMA CollectedEquation ==
    ASSUME NEW lines, Len(lines) \in Nat
    PROVE  /\ Collected(lines)[0] = Start
           /\ \A n \in 1 .. Len(lines) :
                 Collected(lines)[n] = OFXLine(Collected(lines)[n - 1], lines[n])
<1> DEFINE Right(f) == [n \in 0 .. Len(lines) |->
                          IF n = 0 THEN Start ELSE OFXLine(f[n - 1], lines[n])]
<1>1. PICK f : /\ f = [k \in 0 .. Len(lines) |-> f[k]]
               /\ f[0] = Start
               /\ \A k \in 1 .. Len(lines) : f[k] = OFXLine(f[k - 1], lines[k])
  BY CollectedUpTo
<1>2. f = Right(f)
  <2>1. \A n \in 0 .. Len(lines) :
           f[n] = IF n = 0 THEN Start ELSE OFXLine(f[n - 1], lines[n])
    BY <1>1
  <2> QED BY <1>1, <2>1
<1>3. Collected(lines) = Right(Collected(lines))
  BY <1>2 DEF Collected, Start
<1> QED BY <1>3

-----------------------------------------------------------------------------
\* The fields while an entry of value v is read: the tags in S are seen, and
\* the memo may hold a value m the previous entry has left.
Partial(S, v, m) ==
    [f \in Fields |-> IF f \in S THEN v ELSE IF f = "MEMO" THEN m ELSE Null]

\* With the tag t after those in S the required fields are known.
Completes(S, t) == Required \subseteq S \cup {t}

\* A line of the entry that leaves a required field unknown only fills its own.
LEMMA LineFillsIn ==
    ASSUME NEW S, NEW v, NEW m, NEW made, NEW t \in Fields,
           ~Completes(S, t)
    PROVE  OFXLine([open |-> Partial(S, v, m), made |-> made], [tag |-> t, value |-> v])
             = [open |-> Partial(S \cup {t}, v, m), made |-> made]
<1> DEFINE open == [Partial(S, v, m) EXCEPT ![t] = v]
<1>1. open = Partial(S \cup {t}, v, m)
  BY DEF Partial
<1>2. \E f \in Required : open[f] = Null
  BY <1>1 DEF Partial, Completes, Required, Fields
<1> QED BY <1>1, <1>2 DEF OFXLine

\* The line with the last of the required fields makes the statement.
LEMMA LineCompletes ==
    ASSUME NEW S, NEW v, v # Null, NEW m, NEW made, NEW t \in Fields,
           Completes(S, t)
    PROVE  OFXLine([open |-> Partial(S, v, m), made |-> made], [tag |-> t, value |-> v])
             = [open |-> Nothing, made |-> Append(made, Partial(S \cup {t}, v, m))]
<1> DEFINE open == [Partial(S, v, m) EXCEPT ![t] = v]
<1>1. open = Partial(S \cup {t}, v, m)
  BY DEF Partial
<1>2. \A f \in Required : open[f] # Null
  BY <1>1 DEF Partial, Completes, Required, Fields
<1> QED BY <1>1, <1>2 DEF OFXLine

\* Nothing is what is open before the first line of an entry without a memo
\* left over.
LEMMA NothingIsPartial == \A v : Nothing = Partial({}, v, Null)
BY DEF Nothing, Partial

\* The tags of an entry are the four fields, each once.
LEMMA FourTags ==
    ASSUME NEW o \in TagOrders
    PROVE  /\ o[1] \in Fields /\ o[2] \in Fields /\ o[3] \in Fields /\ o[4] \in Fields
           /\ {o[1], o[2], o[3], o[4]} = Fields
           /\ o[1] # o[2] /\ o[1] # o[3] /\ o[1] # o[4]
           /\ o[2] # o[3] /\ o[2] # o[4] /\ o[3] # o[4]
<1>1. o \in [1 .. 4 -> Fields] /\ ToSet(o) = Fields
  BY DEF TagOrders
<1>2. ToSet(o) = {o[1], o[2], o[3], o[4]}
  BY <1>1 DEF ToSet
<1>3. {o[1], o[2], o[3], o[4]} = {"FITID", "TRNAMT", "DTPOSTED", "MEMO"}
  BY <1>1, <1>2 DEF Fields
<1>4. /\ o[1] # o[2] /\ o[1] # o[3] /\ o[1] # o[4]
      /\ o[2] # o[3] /\ o[2] # o[4] /\ o[3] # o[4]
  BY <1>3
<1> QED BY <1>1, <1>2, <1>4

\* The statement an entry of value v makes, when m is left of the memo before.
StatementOf(o, v, m) ==
    [f \in Fields |-> IF f = "MEMO" THEN IF MemoInTime(o) THEN v ELSE m ELSE v]

\* What an entry leaves of its memo to the next.
LeftOver(o, v) == IF MemoInTime(o) THEN Null ELSE v

\* The lines of an entry lead from s[0] to s[4].
Reads(o, v, s) ==
    \A k \in 1 .. 4 : s[k] = OFXLine(s[k - 1], [tag |-> o[k], value |-> v])

\* The four lines of an entry make one statement, with the memo that is left
\* over if the entry's own comes last.
LEMMA EntryMakesStatement ==
    ASSUME NEW o \in TagOrders, NEW v, v # Null, NEW m, NEW made,
           NEW s, Reads(o, v, s), s[0] = [open |-> Partial({}, v, m), made |-> made]
    PROVE  s[4] = [open |-> Partial({}, v, LeftOver(o, v)),
                   made |-> Append(made, StatementOf(o, v, m))]
<1> DEFINE s0 == s[0] s1 == s[1] s2 == s[2] s3 == s[3] s4 == s[4]
<1>0. /\ s0 = [open |-> Partial({}, v, m), made |-> made]
      /\ s1 = OFXLine(s0, [tag |-> o[1], value |-> v])
      /\ s2 = OFXLine(s1, [tag |-> o[2], value |-> v])
      /\ s3 = OFXLine(s2, [tag |-> o[3], value |-> v])
      /\ s4 = OFXLine(s3, [tag |-> o[4], value |-> v])
  BY DEF Reads
<1> HIDE DEF s0, s1, s2, s3, s4
<1>a. o[1] \in Fields /\ o[2] \in Fields /\ o[3] \in Fields /\ o[4] \in Fields
  BY FourTags
<1>b. /\ {o[1], o[2], o[3], o[4]} = Fields
      /\ o[1] # o[2] /\ o[1] # o[3] /\ o[1] # o[4]
      /\ o[2] # o[3] /\ o[2] # o[4] /\ o[3] # o[4]
  BY FourTags
<1>1. CASE MemoInTime(o)
  <2>1. ~Completes({}, o[1]) /\ ~Completes({o[1]}, o[2]) /\ ~Completes({o[1], o[2]}, o[3])
    BY <1>a, <1>b, <1>1 DEF MemoInTime, Required, Completes
  <2>2. s1 = [open |-> Partial({} \cup {o[1]}, v, m), made |-> made]
    BY <1>0, <1>a, <2>1, LineFillsIn
  <2>3. s2 = [open |-> Partial({o[1]} \cup {o[2]}, v, m), made |-> made]
    <3>1. {} \cup {o[1]} = {o[1]}
      OBVIOUS
    <3> QED BY <1>0, <1>a, <2>1, <2>2, <3>1, LineFillsIn
  <2>4. s3 = [open |-> Partial({o[1], o[2]} \cup {o[3]}, v, m), made |-> made]
    <3>1. {o[1]} \cup {o[2]} = {o[1], o[2]}
      OBVIOUS
    <3> QED BY <1>0, <1>a, <2>1, <2>3, <3>1, LineFillsIn
  <2>5. s4 = [open |-> Nothing, made |-> Append(made, Partial(Fields, v, m))]
    <3> DEFINE S == {o[1], o[2]} \cup {o[3]}
    <3>1. S \cup {o[4]} = Fields /\ Required \subseteq Fields
      BY <1>b DEF Required
    <3> HIDE DEF S
    <3>2. Completes(S, o[4])
      BY <3>1 DEF Completes
    <3>3. s4 = [open |-> Nothing, made |-> Append(made, Partial(S \cup {o[4]}, v, m))]
      <4>1. \A t \in Fields : Completes(S, t) =>
               OFXLine([open |-> Partial(S, v, m), made |-> made], [tag |-> t, value |-> v])
                 = [open |-> Nothing, made |-> Append(made, Partial(S \cup {t}, v, m))]
        BY LineCompletes
      <4> QED BY <1>0, <1>a, <4>1, <3>2, <2>4 DEF S
    <3> QED BY <3>1, <3>3
  <2>6. Partial(Fields, v, m) = StatementOf(o, v, m)
    BY <1>1 DEF Partial, StatementOf
  <2> QED BY <1>1, <2>5, <2>6, NothingIsPartial DEF LeftOver, s4
<1>2. CASE ~MemoInTime(o)
  <2>1. ~Completes({}, o[1]) /\ ~Completes({o[1]}, o[2]) /\ o[4] = "MEMO"
    BY <1>a, <1>b, <1>2 DEF MemoInTime, Required, Completes
  <2>2. s1 = [open |-> Partial({} \cup {o[1]}, v, m), made |-> made]
    BY <1>0, <1>a, <2>1, LineFillsIn
  <2>3. s2 = [open |-> Partial({o[1]} \cup {o[2]}, v, m), made |-> made]
    <3>1. {} \cup {o[1]} = {o[1]}
      OBVIOUS
    <3> QED BY <1>0, <1>a, <2>1, <2>2, <3>1, LineFillsIn
  <2>4. s3 = [open |-> Nothing, made |-> Append(made, Partial(Required, v, m))]
    <3> DEFINE S == {o[1]} \cup {o[2]}
    <3>1. S \cup {o[3]} = Required
      BY <1>a, <1>b, <2>1 DEF Required, Fields
    <3> HIDE DEF S
    <3>2. Completes(S, o[3])
      BY <3>1 DEF Completes
    <3>3. s3 = [open |-> Nothing, made |-> Append(made, Partial(S \cup {o[3]}, v, m))]
      <4>1. \A t \in Fields : Completes(S, t) =>
               OFXLine([open |-> Partial(S, v, m), made |-> made], [tag |-> t, value |-> v])
                 = [open |-> Nothing, made |-> Append(made, Partial(S \cup {t}, v, m))]
        BY LineCompletes
      <4> QED BY <1>0, <1>a, <4>1, <3>2, <2>3 DEF S
    <3> QED BY <3>1, <3>3
  <2>5. s3 = [open |-> Partial({}, v, Null), made |-> Append(made, Partial(Required, v, m))]
    BY <2>4, NothingIsPartial
  <2>6. s4 = [open |-> Partial({} \cup {"MEMO"}, v, Null),
              made |-> Append(made, Partial(Required, v, m))]
    <3> DEFINE t == "MEMO"
    <3>1. o[4] = t /\ t \in Fields /\ ~Completes({}, t)
      BY <1>a, <2>1 DEF Required, Completes
    <3> HIDE DEF t
    <3>2. s4 = [open |-> Partial({} \cup {t}, v, Null),
                made |-> Append(made, Partial(Required, v, m))]
      <4> DEFINE done == Append(made, Partial(Required, v, m))
      <4> HIDE DEF done
      <4>1. OFXLine([open |-> Partial({}, v, Null), made |-> done], [tag |-> t, value |-> v])
              = [open |-> Partial({} \cup {t}, v, Null), made |-> done]
        BY <3>1, LineFillsIn
      <4> QED BY <1>0, <3>1, <4>1, <2>5 DEF done
    <3> QED BY <3>2 DEF t
  <2>7. Partial({} \cup {"MEMO"}, v, Null) = Partial({}, v, v)
    BY DEF Partial
  <2>8. Partial(Required, v, m) = StatementOf(o, v, m)
    BY <1>2 DEF Partial, StatementOf, Required
  <2> QED BY <1>2, <2>6, <2>7, <2>8 DEF LeftOver, s4
<1> QED BY <1>1, <1>2 DEF s4

\* The k-th tag of entry e is on line 4 * (e - 1) + k.
InPlace(tags, values) ==
    \A e \in 1 .. Len(tags), k \in 1 .. 4 :
        /\ 4 * (e - 1) + k \in 1 .. 4 * Len(tags)
        /\ FileOfEntries(tags, values)[4 * (e - 1) + k]
             = [tag |-> tags[e][k], value |-> values[e]]

\* The lines of entry e are the four after those of the entries before it.
LEMMA LinesOfEntry ==
    ASSUME NEW tags, NEW values, Len(tags) \in Nat
    PROVE  InPlace(tags, values)
<1> SUFFICES ASSUME NEW e \in 1 .. Len(tags), NEW k \in 1 .. 4
             PROVE  /\ 4 * (e - 1) + k \in 1 .. 4 * Len(tags)
                    /\ FileOfEntries(tags, values)[4 * (e - 1) + k]
                         = [tag |-> tags[e][k], value |-> values[e]]
  BY DEF InPlace
<1> DEFINE n == 4 * (e - 1) + k
<1>1. n \in 1 .. 4 * Len(tags)
  OBVIOUS
<1>2. (n - 1) \div 4 = e - 1 /\ (n - 1) % 4 = k - 1
  OBVIOUS
<1>3. EntryAt(n) = e /\ ((n - 1) % 4) + 1 = k
  BY <1>2 DEF EntryAt
<1> HIDE DEF n
<1> QED BY <1>1, <1>3 DEF FileOfEntries, n

\* The parser makes one statement of every entry, with its own reference,
\* amount and date, and with the memo that MemoOf tells, for files of any number
\* of entries in any order of their tags.
THEOREM EntriesAreKeptTogether ==
    ASSUME NEW Value, Null \notin Value, NEW tags \in Seq(TagOrders),
           NEW values \in Seq(Value), Len(values) = Len(tags)
    PROVE  EntriesKeepTogether(tags, values)
<1> DEFINE file == FileOfEntries(tags, values)
           acc == Collected(file)
           St(e) == [f \in Fields |-> IF f = "MEMO" THEN MemoOf(tags, values, e) ELSE values[e]]
           Left(e) == IF e = 0 THEN Null ELSE LeftOver(tags[e], values[e])
           T == {e \in Nat : e <= Len(tags) =>
                    \A v : acc[4 * e] = [open |-> Partial({}, v, Left(e)),
                                         made |-> [k \in 1 .. e |-> St(k)]]}
<1>1. Len(tags) \in Nat /\ DOMAIN tags = 1 .. Len(tags)
  OBVIOUS
<1>2. \A e \in 1 .. Len(tags) : tags[e] \in TagOrders /\ values[e] # Null
  OBVIOUS
<1>3. Len(file) = 4 * Len(tags)
  BY <1>1 DEF FileOfEntries
<1>4. /\ acc[0] = Start
      /\ \A n \in 1 .. 4 * Len(tags) : acc[n] = OFXLine(acc[n - 1], file[n])
  <2>1. 4 * Len(tags) \in Nat
    BY <1>1
  <2> HIDE DEF file
  <2> QED BY <1>3, <2>1, CollectedEquation
<1>5. \A e \in 1 .. Len(tags), k \in 1 .. 4 :
         acc[4 * (e - 1) + k]
            = OFXLine(acc[4 * (e - 1) + k - 1], [tag |-> tags[e][k], value |-> values[e]])
  <2>0. InPlace(tags, values)
    BY <1>1, LinesOfEntry
  <2> SUFFICES ASSUME NEW e \in 1 .. Len(tags), NEW k \in 1 .. 4
               PROVE  acc[4 * (e - 1) + k]
                         = OFXLine(acc[4 * (e - 1) + k - 1],
                                   [tag |-> tags[e][k], value |-> values[e]])
    OBVIOUS
  <2> DEFINE n == 4 * (e - 1) + k
  <2>1. n \in 1 .. 4 * Len(tags) /\ file[n] = [tag |-> tags[e][k], value |-> values[e]]
    BY <2>0 DEF InPlace
  <2>2. acc[n] = OFXLine(acc[n - 1], file[n])
    <3> HIDE DEF acc, file, n
    <3> QED BY <1>4, <2>1
  <2> HIDE DEF acc, file
  <2> QED BY <2>1, <2>2
<1> HIDE DEF acc, file
<1>6. 0 \in T
  <2>1. [k \in 1 .. 0 |-> St(k)] = <<>>
    OBVIOUS
  <2> QED BY <1>4, <2>1, NothingIsPartial DEF Start
<1>7. ASSUME NEW d \in Nat, d \in T PROVE d + 1 \in T
  <2> DEFINE e == d + 1
  <2> SUFFICES ASSUME e <= Len(tags), NEW v
               PROVE  acc[4 * e] = [open |-> Partial({}, v, Left(e)),
                                    made |-> [k \in 1 .. e |-> St(k)]]
    OBVIOUS
  <2>1. e \in 1 .. Len(tags) /\ d <= Len(tags) /\ e - 1 = d
    BY <1>1
  <2> DEFINE made == [k \in 1 .. d |-> St(k)]
  <2>2. acc[4 * d] = [open |-> Partial({}, values[e], Left(d)), made |-> made]
    BY <1>7, <2>1
  <2>3. /\ acc[4 * d + 1] = OFXLine(acc[4 * d], [tag |-> tags[e][1], value |-> values[e]])
        /\ acc[4 * d + 2] = OFXLine(acc[4 * d + 1], [tag |-> tags[e][2], value |-> values[e]])
        /\ acc[4 * d + 3] = OFXLine(acc[4 * d + 2], [tag |-> tags[e][3], value |-> values[e]])
        /\ acc[4 * d + 4] = OFXLine(acc[4 * d + 3], [tag |-> tags[e][4], value |-> values[e]])
    BY <1>5, <2>1
  <2>4. acc[4 * d + 4] = [open |-> Partial({}, values[e], LeftOver(tags[e], values[e])),
                          made |-> Append(made, StatementOf(tags[e], values[e], Left(d)))]
    <3> DEFINE s == [k \in 0 .. 4 |-> acc[4 * d + k]]
               o == tags[e]
               w == values[e]
               m == Left(d)
    <3>1. o \in TagOrders /\ w # Null
      BY <1>2, <2>1
    <3>2. s[0] = [open |-> Partial({}, w, m), made |-> made]
      BY <2>2
    <3>3. Reads(o, w, s)
      <4>1. /\ s[1] = OFXLine(s[0], [tag |-> o[1], value |-> w])
            /\ s[2] = OFXLine(s[1], [tag |-> o[2], value |-> w])
            /\ s[3] = OFXLine(s[2], [tag |-> o[3], value |-> w])
            /\ s[4] = OFXLine(s[3], [tag |-> o[4], value |-> w])
        BY <2>3
      <4> HIDE DEF s, o, w
      <4>2. ASSUME NEW k \in 1 .. 4
            PROVE  s[k] = OFXLine(s[k - 1], [tag |-> o[k], value |-> w])
        <5>1. k = 1 \/ k = 2 \/ k = 3 \/ k = 4
          OBVIOUS
        <5> QED BY <5>1, <4>1
      <4> QED BY <4>2 DEF Reads
    <3>4. s[4] = acc[4 * d + 4]
      OBVIOUS
    <3> HIDE DEF s, o, w, m, made
    <3>5. s[4] = [open |-> Partial({}, w, LeftOver(o, w)),
                  made |-> Append(made, StatementOf(o, w, m))]
      BY <3>1, <3>2, <3>3, EntryMakesStatement, Zenon
    <3> QED BY <3>4, <3>5 DEF o, w, m
  <2>5. StatementOf(tags[e], values[e], Left(d)) = St(e)
    BY <2>1 DEF StatementOf, MemoOf, LeftOver
  <2>6. Append(made, St(e)) = [k \in 1 .. e |-> St(k)]
    <3> HIDE DEF St
    <3> QED OBVIOUS
  <2>7. Partial({}, values[e], Left(e)) = Partial({}, v, Left(e))
    BY DEF Partial
  <2>8. 4 * e = 4 * d + 4 /\ Left(e) = LeftOver(tags[e], values[e])
    OBVIOUS
  <2> HIDE DEF e, made, Left, St
  <2> QED BY <2>4, <2>5, <2>6, <2>7, <2>8
<1>8. Len(tags) \in T
  <2> HIDE DEF T
  <2> QED BY <1>1, <1>6, <1>7, Induction
<1>9. acc[4 * Len(tags)].made = [e \in DOMAIN tags |-> St(e)]
  <2>1. acc[4 * Len(tags)] = [open |-> Partial({}, Null, Left(Len(tags))),
                              made |-> [k \in 1 .. Len(tags) |-> St(k)]]
    <3> HIDE DEF St, Left
    <3> QED BY <1>1, <1>8
  <2> QED BY <1>1, <2>1
<1> QED BY <1>3, <1>9 DEF EntriesKeepTogether, ParseOFX, acc, file

=============================================================================
