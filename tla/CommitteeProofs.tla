-------------------------- MODULE CommitteeProofs ---------------------------
(***************************************************************************)
(* Who serves, and who knows of it: proofs about the elector (Election)    *)
(* and about the identity that follows what was elected (Identity).        *)
(***************************************************************************)
EXTENDS Election, Identity, FiniteSetTheorems, FunctionTheorems, SequenceTheorems,
        WellFoundedInduction, TLAPS

LEMMA LeastNat ==
    ASSUME NEW T, T \subseteq Nat, T # {}
    PROVE  \E x \in T : \A y \in T : x <= y
<1>1. PICK x \in T : \A y \in T : ~(<<y, x>> \in OpToRel(<, Nat))
  BY NatLessThanWellFounded, WFMin
<1>2. \A y \in T : ~(y < x)
  BY <1>1 DEF OpToRel
<1> QED
  BY <1>2

-----------------------------------------------------------------------------
(* The loops of the elector.                                               *)

\* One turn of the loop of sortfunc.
SortStep(list, stock, i, x) ==
    IF list[i] \in DOMAIN stock
    THEN Append(x, [node |-> list[i], stock |-> stock[list[i]]])
    ELSE x

\* f is the values of the loop over 1 .. m.
IsSort(f, list, stock, m) ==
    f = [i \in 0 .. m |-> IF i = 0 THEN <<>> ELSE SortStep(list, stock, i, f[i - 1])]

\* The loop that sorts has a value after every turn (election/election.go, sortfunc).
LEMMA InOrderSteps ==
    ASSUME NEW list, Len(list) \in Nat, NEW stock
    PROVE  \E f : IsSort(f, list, stock, Len(list)) /\ InOrder(list, stock) = f[Len(list)]
<1>1. \A m \in 0 .. Len(list) : \E f : IsSort(f, list, stock, m)
  <2> DEFINE Bad == {m \in 0 .. Len(list) : ~\E f : IsSort(f, list, stock, m)}
  <2>1. SUFFICES ASSUME Bad # {}
                 PROVE  FALSE
    OBVIOUS
  <2>2. PICK m \in Bad : \A k \in Bad : m <= k
    <3>1. Bad \subseteq Nat
      OBVIOUS
    <3> HIDE DEF Bad
    <3> QED
      BY <2>1, <3>1, LeastNat
  <2>3. m \in Nat /\ m <= Len(list) /\ ~\E f : IsSort(f, list, stock, m)
    BY <2>2
  <2>4. CASE m = 0
    <3>1. IsSort([i \in 0 .. 0 |-> <<>>], list, stock, 0)
      BY DEF IsSort
    <3> QED
      BY <2>3, <2>4, <3>1
  <2>5. CASE m > 0
    <3>1. m - 1 \in 0 .. Len(list) /\ m - 1 \notin Bad
      BY <2>2, <2>3, <2>5
    <3>2. PICK g : IsSort(g, list, stock, m - 1)
      BY <3>1
    <3>3. \A i \in 0 .. m - 1 : g[i] = IF i = 0 THEN <<>> ELSE SortStep(list, stock, i, g[i - 1])
      BY <3>2 DEF IsSort
    <3> DEFINE f == [i \in 0 .. m |-> IF i < m THEN g[i] ELSE SortStep(list, stock, m, g[m - 1])]
    <3>4. \A i \in 0 .. m : f[i] = IF i = 0 THEN <<>> ELSE SortStep(list, stock, i, f[i - 1])
      <4>1. TAKE i \in 0 .. m
      <4>2. CASE i = 0
        <5>1. i < m /\ i \in 0 .. m /\ i \in 0 .. m - 1
          BY <2>3, <2>5, <4>2
        <5>2. f[i] = g[i]
          BY <5>1
        <5>3. g[i] = <<>>
          BY <3>3, <4>2, <5>1
        <5> QED
          BY <4>2, <5>2, <5>3
      <4>3. CASE i > 0 /\ i < m
        <5>1. i \in 0 .. m - 1 /\ i - 1 \in 0 .. m /\ i - 1 < m /\ i # 0
          BY <2>3, <4>3
        <5>2. f[i] = g[i] /\ f[i - 1] = g[i - 1]
          BY <4>3, <5>1
        <5> QED
          BY <3>3, <5>1, <5>2
      <4>4. CASE i = m
        <5>1. i \in 0 .. m /\ i - 1 \in 0 .. m /\ i - 1 < m /\ i # 0 /\ ~(i < m)
          BY <2>3, <2>5, <4>4
        <5>2. f[i] = SortStep(list, stock, m, g[m - 1]) /\ f[i - 1] = g[i - 1]
          BY <5>1
        <5> QED
          BY <4>4, <5>1, <5>2
      <4> QED
        BY <2>3, <4>2, <4>3, <4>4
    <3>5. IsSort(f, list, stock, m)
      <4>1. f = [i \in 0 .. m |-> f[i]]
        OBVIOUS
      <4> HIDE DEF f
      <4> QED
        BY <3>4, <4>1 DEF IsSort
    <3> QED
      BY <2>3, <3>5
  <2> QED
    BY <2>3, <2>4, <2>5
<1>2. \E f : IsSort(f, list, stock, Len(list))
  BY <1>1
<1> DEFINE sorted[i \in 0 .. Len(list)] == IF i = 0 THEN <<>> ELSE SortStep(list, stock, i, sorted[i - 1])
<1>3. InOrder(list, stock) = sorted[Len(list)]
  BY DEF InOrder, SortStep
<1>4. IsSort(sorted, list, stock, Len(list))
  BY <1>2 DEF IsSort
<1> HIDE DEF sorted
<1> QED
  BY <1>3, <1>4

\* The entries that sortfunc may make of a map.
StockOf(stock) == {[node |-> n, stock |-> stock[n]] : n \in DOMAIN stock}

\* What sortfunc has made of the first i candidates: the ones with a stock, in
\* the order of the list.
Sorted(e, list, stock, i) ==
    /\ e \in Seq(StockOf(stock))
    /\ \A m \in 1 .. Len(e) : \E k \in 1 .. i : e[m].node = list[k]
    /\ \A k \in 1 .. i : list[k] \in DOMAIN stock => \E m \in 1 .. Len(e) : e[m].node = list[k]
    /\ \A a, b \in 1 .. Len(e) : a < b =>
          \E k \in 1 .. i : e[a].node = list[k] /\ \E l \in k + 1 .. i : e[b].node = list[l]

\* A turn of sortfunc's loop (election/election.go, sortfunc).
LEMMA SortedStep ==
    ASSUME NEW list, NEW stock, NEW i \in Nat, i > 0, NEW x, Sorted(x, list, stock, i - 1)
    PROVE  Sorted(SortStep(list, stock, i, x), list, stock, i)
<1>1. CASE list[i] \notin DOMAIN stock
  <2>1. SortStep(list, stock, i, x) = x
    BY <1>1 DEF SortStep
  <2>2. \A k \in 1 .. i : k \in 1 .. i - 1 \/ k = i
    OBVIOUS
  <2>3. \A k \in 1 .. i - 1 : k \in 1 .. i
    OBVIOUS
  <2>4. \A k \in 1 .. i - 1 : \A l \in k + 1 .. i - 1 : l \in k + 1 .. i
    OBVIOUS
  <2> QED
    BY <1>1, <2>1, <2>2, <2>3, <2>4 DEF Sorted
<1>2. CASE list[i] \in DOMAIN stock
  <2> DEFINE r == [node |-> list[i], stock |-> stock[list[i]]]
             y == Append(x, r)
  <2>1. SortStep(list, stock, i, x) = y
    BY <1>2 DEF SortStep
  <2>2. r \in StockOf(stock) /\ r.node = list[i]
    BY <1>2 DEF StockOf
  <2>3. x \in Seq(StockOf(stock))
    BY DEF Sorted
  <2> HIDE DEF r
  <2>4. /\ y \in Seq(StockOf(stock)) /\ Len(y) = Len(x) + 1 /\ Len(x) \in Nat
        /\ y[Len(x) + 1] = r
        /\ \A m \in 1 .. Len(x) : y[m] = x[m]
    BY <2>2, <2>3
  <2> HIDE DEF y
  <2>5. \A m \in 1 .. Len(y) : \E k \in 1 .. i : y[m].node = list[k]
    <3> TAKE m \in 1 .. Len(y)
    <3>1. CASE m \in 1 .. Len(x)
      <4>1. PICK k \in 1 .. i - 1 : x[m].node = list[k]
        BY <3>1 DEF Sorted
      <4>2. k \in 1 .. i /\ y[m].node = list[k]
        BY <2>4, <3>1, <4>1
      <4> QED
        BY <4>2
    <3>2. CASE m = Len(x) + 1
      <4>1. i \in 1 .. i /\ y[m].node = list[i]
        BY <2>2, <2>4, <3>2
      <4> QED
        BY <4>1
    <3> QED
      BY <2>4, <3>1, <3>2
  <2>6. \A k \in 1 .. i : list[k] \in DOMAIN stock => \E m \in 1 .. Len(y) : y[m].node = list[k]
    <3> SUFFICES ASSUME NEW k \in 1 .. i, list[k] \in DOMAIN stock
                 PROVE  \E m \in 1 .. Len(y) : y[m].node = list[k]
      OBVIOUS
    <3>1. CASE k \in 1 .. i - 1
      <4>1. PICK m \in 1 .. Len(x) : x[m].node = list[k]
        BY <3>1 DEF Sorted
      <4>2. m \in 1 .. Len(y) /\ y[m].node = list[k]
        BY <2>4, <4>1
      <4> QED
        BY <4>2
    <3>2. CASE k = i
      <4>1. Len(x) + 1 \in 1 .. Len(y) /\ y[Len(x) + 1].node = list[k]
        BY <2>2, <2>4, <3>2
      <4> QED
        BY <4>1
    <3> QED
      BY <3>1, <3>2
  <2>7. ASSUME NEW a \in 1 .. Len(y), NEW b \in 1 .. Len(y), a < b
        PROVE  \E k \in 1 .. i : y[a].node = list[k] /\ \E l \in k + 1 .. i : y[b].node = list[l]
    <3>1. a \in 1 .. Len(x) /\ y[a] = x[a]
      BY <2>4, <2>7
    <3>2. CASE b \in 1 .. Len(x)
      <4>1. PICK k \in 1 .. i - 1 :
               x[a].node = list[k] /\ \E l \in k + 1 .. i - 1 : x[b].node = list[l]
        BY <2>7, <3>1, <3>2 DEF Sorted
      <4>2. PICK l \in k + 1 .. i - 1 : x[b].node = list[l]
        BY <4>1
      <4>3. k \in 1 .. i /\ l \in k + 1 .. i /\ y[b] = x[b]
        BY <2>4, <3>2, <4>1, <4>2
      <4> QED
        BY <3>1, <4>1, <4>2, <4>3
    <3>3. CASE b = Len(x) + 1
      <4>1. PICK k \in 1 .. i - 1 : x[a].node = list[k]
        BY <3>1 DEF Sorted
      <4>2. k \in 1 .. i /\ i \in k + 1 .. i /\ y[b].node = list[i]
        BY <2>2, <2>4, <3>3, <4>1
      <4> QED
        BY <3>1, <4>1, <4>2
    <3> QED
      BY <2>4, <3>2, <3>3
  <2> QED
    BY <2>1, <2>4, <2>5, <2>6, <2>7 DEF Sorted
<1> QED
  BY <1>1, <1>2

\* The result of sortfunc: all the candidates with a stock, in the order of the
\* list (election/election.go, sortfunc).
LEMMA InOrderSorted ==
    ASSUME NEW list, Len(list) \in Nat, NEW stock
    PROVE  Sorted(InOrder(list, stock), list, stock, Len(list))
<1>1. PICK f : IsSort(f, list, stock, Len(list)) /\ InOrder(list, stock) = f[Len(list)]
  BY InOrderSteps
<1>2. \A i \in 0 .. Len(list) : f[i] = IF i = 0 THEN <<>> ELSE SortStep(list, stock, i, f[i - 1])
  BY <1>1 DEF IsSort
<1> DEFINE Bad == {i \in 0 .. Len(list) : ~Sorted(f[i], list, stock, i)}
<1>3. Bad = {}
  <2>1. SUFFICES ASSUME Bad # {}
                 PROVE  FALSE
    OBVIOUS
  <2>2. PICK i \in Bad : \A k \in Bad : i <= k
    <3>1. Bad \subseteq Nat
      OBVIOUS
    <3> HIDE DEF Bad
    <3> QED
      BY <2>1, <3>1, LeastNat
  <2>3. i \in Nat /\ i <= Len(list) /\ ~Sorted(f[i], list, stock, i)
    BY <2>2
  <2>4. i # 0
    <3>1. SUFFICES ASSUME i = 0
                   PROVE  FALSE
      OBVIOUS
    <3>2. f[0] = <<>>
      BY <1>2
    <3>3. Sorted(<<>>, list, stock, 0)
      BY DEF Sorted
    <3> QED
      BY <2>3, <3>1, <3>2, <3>3
  <2>5. i > 0 /\ i - 1 \in 0 .. Len(list) /\ i - 1 \notin Bad
    BY <2>2, <2>3, <2>4
  <2>6. Sorted(f[i - 1], list, stock, i - 1)
    BY <2>5
  <2>7. Sorted(SortStep(list, stock, i, f[i - 1]), list, stock, i)
    BY <2>3, <2>5, <2>6, SortedStep
  <2>8. f[i] = SortStep(list, stock, i, f[i - 1])
    BY <1>2, <2>3, <2>4
  <2> QED
    BY <2>3, <2>7, <2>8
<1>4. Len(list) \in 0 .. Len(list)
  OBVIOUS
<1> QED
  BY <1>1, <1>3, <1>4

\* The same in the words of the properties; no node comes twice.
LEMMA InOrderFacts ==
    ASSUME NEW list \in Seq(Nodes), IsInjective(list), NEW stock
    PROVE  LET e == InOrder(list, stock)
           IN  /\ e \in Seq(StockOf(stock))
               /\ NodesOf(e) = ToSet(list) \cap DOMAIN stock
               /\ Ordered(e, list)
               /\ \A a, b \in 1 .. Len(e) : e[a].node = e[b].node => a = b
<1> DEFINE e == InOrder(list, stock)
<1>1. Len(list) \in Nat /\ DOMAIN list = 1 .. Len(list)
  OBVIOUS
<1>2. Sorted(e, list, stock, Len(list))
  BY <1>1, InOrderSorted
<1> HIDE DEF e
<1>3. e \in Seq(StockOf(stock)) /\ DOMAIN e = 1 .. Len(e) /\ Len(e) \in Nat
  BY <1>2 DEF Sorted
<1>4. \A m \in 1 .. Len(e) : e[m].node \in DOMAIN stock
  <2> TAKE m \in 1 .. Len(e)
  <2>1. e[m] \in StockOf(stock)
    BY <1>3
  <2> QED
    BY <2>1 DEF StockOf
<1>5. NodesOf(e) = ToSet(list) \cap DOMAIN stock
  <2>1. ASSUME NEW n \in NodesOf(e)
        PROVE  n \in ToSet(list) \cap DOMAIN stock
    <3>1. PICK m \in 1 .. Len(e) : n = e[m].node
      BY <1>3 DEF NodesOf
    <3>2. PICK k \in 1 .. Len(list) : e[m].node = list[k]
      BY <1>2 DEF Sorted
    <3> QED
      BY <1>1, <1>4, <3>1, <3>2 DEF ToSet
  <2>2. ASSUME NEW n \in ToSet(list) \cap DOMAIN stock
        PROVE  n \in NodesOf(e)
    <3>1. PICK k \in 1 .. Len(list) : n = list[k]
      BY <1>1 DEF ToSet
    <3>2. PICK m \in 1 .. Len(e) : e[m].node = list[k]
      BY <1>2, <3>1 DEF Sorted
    <3> QED
      BY <1>3, <3>1, <3>2 DEF NodesOf
  <2> QED
    BY <2>1, <2>2
<1>6. Ordered(e, list)
  <2>1. SUFFICES ASSUME NEW i \in 1 .. Len(e), NEW j \in 1 .. Len(e), i < j
                 PROVE  Before(list, e[i].node, e[j].node)
    BY <1>3 DEF Ordered
  <2>2. PICK k \in 1 .. Len(list) :
           e[i].node = list[k] /\ \E l \in k + 1 .. Len(list) : e[j].node = list[l]
    BY <1>2, <2>1 DEF Sorted
  <2> QED
    BY <1>1, <2>2 DEF Before
<1>7. ASSUME NEW a \in 1 .. Len(e), NEW b \in 1 .. Len(e), a < b
      PROVE  e[a].node # e[b].node
  <2>1. PICK k \in 1 .. Len(list) :
           e[a].node = list[k] /\ \E l \in k + 1 .. Len(list) : e[b].node = list[l]
    BY <1>2, <1>7 DEF Sorted
  <2>2. PICK l \in k + 1 .. Len(list) : e[b].node = list[l]
    BY <2>1
  <2>3. k \in DOMAIN list /\ l \in DOMAIN list /\ k # l
    BY <1>1, <2>1, <2>2
  <2> QED
    BY <2>1, <2>2, <2>3 DEF IsInjective
<1>8. \A a, b \in 1 .. Len(e) : e[a].node = e[b].node => a = b
  BY <1>3, <1>7
<1> QED
  BY <1>3, <1>5, <1>6, <1>8 DEF e

\* The entries of a list whose nodes differ count its nodes.
LEMMA NodesCounted ==
    ASSUME NEW T, NEW e \in Seq(T),
           \A a, b \in 1 .. Len(e) : e[a].node = e[b].node => a = b
    PROVE  IsFiniteSet(NodesOf(e)) /\ Cardinality(NodesOf(e)) = Len(e)
<1> DEFINE S == 1 .. Len(e)
           f == [i \in S |-> e[i].node]
<1>1. Len(e) \in Nat /\ DOMAIN e = S
  OBVIOUS
<1>2. IsFiniteSet(S) /\ Cardinality(S) = Len(e)
  BY <1>1, FS_Interval
<1>3. f \in [S -> NodesOf(e)] /\ \A n \in NodesOf(e) : \E i \in S : f[i] = n
  BY <1>1 DEF NodesOf
<1>4. f \in Surjection(S, NodesOf(e))
  BY <1>3, Fun_IsSurj
<1>5. f \in Injection(S, NodesOf(e))
  BY <1>3, Fun_IsInj
<1> QED
  BY <1>2, <1>4, <1>5, FS_Surjection

\* A list without its first d entries keeps its order, and d nodes at most are lost.
LEMMA CutLoses ==
    ASSUME NEW T, NEW e \in Seq(T), NEW d \in 0 .. Len(e), NEW list, Ordered(e, list)
    PROVE  LET c == SubSeq(e, d + 1, Len(e))
           IN  /\ NodesOf(c) \subseteq NodesOf(e)
               /\ IsFiniteSet(NodesOf(e) \ NodesOf(c))
               /\ Cardinality(NodesOf(e) \ NodesOf(c)) <= d
               /\ Ordered(c, list)
<1> DEFINE c == SubSeq(e, d + 1, Len(e))
<1>0. DOMAIN e = 1 .. Len(e)
  OBVIOUS
<1>1. Len(e) \in Nat /\ d \in Nat /\ d <= Len(e)
  OBVIOUS
<1>2. /\ Len(c) = Len(e) - d /\ DOMAIN c = 1 .. Len(e) - d
      /\ \A i \in 1 .. Len(e) - d : c[i] = e[i + d] /\ i + d \in 1 .. Len(e)
  <2>1. c = [i \in 1 .. Len(e) - d |-> e[i + d]]
    BY <1>1
  <2>2. c \in Seq(T) /\ Len(c) = Len(e) - d
    <3>1. d + 1 \in Int /\ Len(e) \in Int /\ \A i \in d + 1 .. Len(e) : e[i] \in T
      BY <1>1
    <3>2. c \in Seq(T) /\ Len(c) = IF d + 1 <= Len(e) THEN Len(e) - (d + 1) + 1 ELSE 0
      BY <3>1, SubSeqProperties
    <3>3. (IF d + 1 <= Len(e) THEN Len(e) - (d + 1) + 1 ELSE 0) = Len(e) - d
      BY <1>1
    <3> HIDE DEF c
    <3> QED
      BY <3>2, <3>3
  <2>3. \A i \in 1 .. Len(e) - d : i + d \in 1 .. Len(e)
    BY <1>1
  <2> HIDE DEF c
  <2> QED
    BY <2>1, <2>2, <2>3
<1> HIDE DEF c
<1>3. NodesOf(c) \subseteq NodesOf(e)
  BY <1>0, <1>2 DEF NodesOf
<1>4. Ordered(c, list)
  <2>1. SUFFICES ASSUME NEW i \in 1 .. Len(e) - d, NEW j \in 1 .. Len(e) - d, i < j
                 PROVE  Before(list, c[i].node, c[j].node)
    BY <1>2 DEF Ordered
  <2>2. i + d \in DOMAIN e /\ j + d \in DOMAIN e /\ i + d < j + d
    BY <1>0, <1>1, <1>2, <2>1
  <2>3. Before(list, e[i + d].node, e[j + d].node)
    BY <2>2 DEF Ordered
  <2> QED
    BY <1>2, <2>3
<1>5. IsFiniteSet(NodesOf(e) \ NodesOf(c)) /\ Cardinality(NodesOf(e) \ NodesOf(c)) <= d
  <2> DEFINE f == [i \in 1 .. d |-> e[i].node]
             I == {e[i].node : i \in 1 .. d}
  <2>1. IsFiniteSet(1 .. d) /\ Cardinality(1 .. d) = d
    BY <1>1, FS_Interval
  <2>2. f \in Surjection(1 .. d, I)
    <3>1. f \in [1 .. d -> I] /\ \A n \in I : \E i \in 1 .. d : f[i] = n
      OBVIOUS
    <3> QED
      BY <3>1, Fun_IsSurj
  <2>3. IsFiniteSet(I) /\ Cardinality(I) <= d
    BY <2>1, <2>2, FS_Surjection
  <2>4. NodesOf(e) \ NodesOf(c) \in SUBSET I
    <3> SUFFICES ASSUME NEW n \in NodesOf(e), n \notin NodesOf(c)
                 PROVE  n \in I
      OBVIOUS
    <3>1. PICK i \in 1 .. Len(e) : n = e[i].node
      BY <1>0 DEF NodesOf
    <3>2. ~(i > d)
      <4>1. SUFFICES ASSUME i > d
                     PROVE  FALSE
        OBVIOUS
      <4>2. i - d \in 1 .. Len(e) - d /\ (i - d) + d = i
        BY <1>1, <3>1, <4>1
      <4>3. c[i - d] = e[i]
        BY <1>2, <4>2
      <4> QED
        BY <1>2, <3>1, <4>2, <4>3 DEF NodesOf
    <3>3. i \in 1 .. d
      BY <1>1, <3>1, <3>2
    <3> QED
      BY <3>1, <3>3
  <2> HIDE DEF I
  <2>5. IsFiniteSet(NodesOf(e) \ NodesOf(c)) /\ Cardinality(NodesOf(e) \ NodesOf(c)) <= Cardinality(I)
    BY <2>3, <2>4, FS_Subset
  <2> QED
    BY <1>1, <2>3, <2>5, FS_CardinalityType
<1> QED
  BY <1>3, <1>4, <1>5 DEF c

\* The list of a request, and how many stand.
LEMMA RequestList ==
    ASSUME NEW q \in Requests
    PROVE  /\ q.kind \in Kinds /\ q.list \in Seq(Nodes) /\ IsInjective(q.list)
           /\ Len(q.list) \in Nat /\ DOMAIN q.list = 1 .. Len(q.list)
           /\ IsFiniteSet(ToSet(q.list)) /\ Cardinality(ToSet(q.list)) = Len(q.list)
<1>1. q.kind \in Kinds /\ q.list \in Seq(Nodes) /\ IsInjective(q.list)
  BY ElectionAssumption
<1>2. PICK list : list = q.list
  OBVIOUS
<1> DEFINE S == 1 .. Len(list)
<1>0. Len(list) \in Nat /\ DOMAIN list = S
  BY <1>1, <1>2
<1>3. Len(list) \in Nat /\ DOMAIN list = S /\ IsFiniteSet(S) /\ Cardinality(S) = Len(list)
  <2>1. PICK m \in Nat : m = Len(list)
    BY <1>0
  <2>2. IsFiniteSet(1 .. m) /\ Cardinality(1 .. m) = m
    BY FS_Interval
  <2> QED
    BY <1>0, <2>1, <2>2
<1>4. list \in [S -> ToSet(list)] /\ \A n \in ToSet(list) : \E i \in S : list[i] = n
  BY <1>1, <1>2, <1>3 DEF ToSet
<1>5. list \in Surjection(S, ToSet(list))
  BY <1>4, Fun_IsSurj
<1>6. list \in Injection(S, ToSet(list))
  BY <1>1, <1>2, <1>3, <1>4, Fun_IsInj DEF IsInjective
<1> QED
  BY <1>1, <1>2, <1>3, <1>5, <1>6, FS_Surjection

\* What sortfunc makes of the list of a request and of a map of candidates.
LEMMA StandingSorted ==
    ASSUME NEW q \in Requests, NEW stock, DOMAIN stock \subseteq ToSet(q.list)
    PROVE  LET e == InOrder(q.list, stock)
           IN  /\ e \in Seq(StockOf(stock))
               /\ NodesOf(e) = DOMAIN stock
               /\ Ordered(e, q.list)
               /\ \A a, b \in 1 .. Len(e) : e[a].node = e[b].node => a = b
               /\ Len(e) \in Nat
               /\ IsFiniteSet(DOMAIN stock) /\ Cardinality(DOMAIN stock) = Len(e)
<1>1. PICK e : e = InOrder(q.list, stock)
  OBVIOUS
<1>2. /\ e \in Seq(StockOf(stock))
      /\ NodesOf(e) = ToSet(q.list) \cap DOMAIN stock
      /\ Ordered(e, q.list)
      /\ \A a, b \in 1 .. Len(e) : e[a].node = e[b].node => a = b
  BY <1>1, RequestList, InOrderFacts
<1>3. IsFiniteSet(NodesOf(e)) /\ Cardinality(NodesOf(e)) = Len(e)
  BY <1>2, NodesCounted
<1>4. NodesOf(e) = DOMAIN stock
  BY <1>2
<1>5. Len(e) \in Nat
  BY <1>2
<1> QED
  BY <1>1, <1>2, <1>3, <1>4, <1>5

\* A short list is elected as a whole (election/election.go, SampleMPlusPNodes and
\* SampleMinerNodes, before their loops).
LEMMA AllElectedComplete ==
    ASSUME NEW q \in Requests
    PROVE  /\ AllElected(q).request = q
           /\ Len(q.list) <= N => MinerComplete(AllElected(q))
           /\ ValidatorAccounted(AllElected(q))
<1> DEFINE stock == [n \in ToSet(q.list) |-> Percent(q.list, n)]
<1>1. PICK e : e = InOrder(q.list, stock)
  OBVIOUS
<1>2. PICK a : a = AllElected(q)
  OBVIOUS
<1>3. a.request = q /\ a.masters = e /\ a.backups = <<>> /\ a.candidates = <<>>
  BY <1>1, <1>2 DEF AllElected, Answer
<1>4. DOMAIN stock = ToSet(q.list)
  OBVIOUS
<1> HIDE DEF stock
<1>5. NodesOf(e) = ToSet(q.list) /\ Ordered(e, q.list) /\ Cardinality(ToSet(q.list)) = Len(e)
  BY <1>1, <1>4, StandingSorted
<1>6. Len(q.list) \in Nat /\ Len(e) = Len(q.list)
  BY <1>5, RequestList
<1>7. NodesOf(<<>>) = {} /\ Ordered(<<>>, q.list)
  BY DEF NodesOf, Ordered
<1>8. Len(q.list) <= N => Min({N, Len(q.list)}) = Len(q.list)
  BY <1>6, ElectionAssumption DEF Min
<1>9. Len(q.list) <= N => MinerComplete(a)
  BY <1>3, <1>5, <1>6, <1>7, <1>8 DEF MinerComplete
<1>10. ValidatorAccounted(a)
  <2> DEFINE lost == ToSet(a.request.list) \ (NodesOf(a.masters) \cup NodesOf(a.backups)
                                                  \cup NodesOf(a.candidates))
  <2>1. lost = {}
    BY <1>3, <1>5
  <2>2. Cardinality(lost) <= 2
    <3>1. Cardinality({}) <= 2
      BY FS_EmptySet
    <3> QED
      BY <2>1, <3>1
  <2>3. \A b \in {a.masters, a.backups, a.candidates} : Ordered(b, a.request.list)
    BY <1>3, <1>5, <1>7
  <2>4. /\ NodesOf(a.masters) \cap NodesOf(a.backups) = {}
        /\ (NodesOf(a.masters) \cup NodesOf(a.backups)) \cap NodesOf(a.candidates) = {}
    BY <1>3, <1>7
  <2> QED
    BY <2>1, <2>2, <2>3, <2>4 DEF ValidatorAccounted
<1> QED
  BY <1>2, <1>3, <1>9, <1>10

\* How many are in a difference and in a union.
LEMMA CardinalityOfParts ==
    ASSUME NEW S, IsFiniteSet(S), NEW T, T \subseteq S
    PROVE  /\ IsFiniteSet(T) /\ Cardinality(T) \in Nat
           /\ Cardinality(S \ T) = Cardinality(S) - Cardinality(T)
<1>1. IsFiniteSet(T) /\ Cardinality(T) \in Nat
  BY FS_Subset, FS_CardinalityType
<1>2. Cardinality(S \ T) = Cardinality(S) - Cardinality(S \cap T)
  BY FS_Difference
<1>3. S \cap T = T
  OBVIOUS
<1> QED
  BY <1>1, <1>2, <1>3

LEMMA CardinalityOfBoth ==
    ASSUME NEW S, IsFiniteSet(S), NEW T, IsFiniteSet(T), S \cap T = {}
    PROVE  Cardinality(S \cup T) = Cardinality(S) + Cardinality(T)
<1>1. Cardinality(S \cup T) = Cardinality(S) + Cardinality(T) - Cardinality(S \cap T)
  BY FS_Union
<1>2. Cardinality(S \cap T) = 0
  BY FS_EmptySet
<1>3. Cardinality(S) \in Nat /\ Cardinality(T) \in Nat
  BY FS_CardinalityType
<1> QED
  BY <1>1, <1>2, <1>3

\* The first m entries of a list with as many nodes.
LEMMA HeadOf ==
    ASSUME NEW T, NEW e \in Seq(T), NEW m \in Nat, m <= Len(e),
           \A a, b \in 1 .. Len(e) : e[a].node = e[b].node => a = b
    PROVE  LET h == SubSeq(e, 1, m)
           IN  /\ NodesOf(h) \subseteq NodesOf(e)
               /\ IsFiniteSet(NodesOf(h)) /\ Cardinality(NodesOf(h)) = m
<1> DEFINE h == SubSeq(e, 1, m)
<1>1. Len(e) \in Nat /\ \A i \in 1 .. m : e[i] \in T /\ i \in 1 .. Len(e)
  OBVIOUS
<1>2. /\ h \in Seq(T) /\ Len(h) = IF 1 <= m THEN m - 1 + 1 ELSE 0
      /\ \A i \in 1 .. m - 1 + 1 : h[i] = e[1 + i - 1]
  BY <1>1, SubSeqProperties
<1> HIDE DEF h
<1>3. Len(h) = m
  BY <1>2
<1>4. \A i \in 1 .. m : h[i] = e[i]
  <2> TAKE i \in 1 .. m
  <2>1. i \in 1 .. m - 1 + 1 /\ 1 + i - 1 = i
    OBVIOUS
  <2> QED
    BY <1>2, <2>1
<1>5. DOMAIN h = 1 .. m
  BY <1>2, <1>3
<1>6. \A a, b \in 1 .. Len(h) : h[a].node = h[b].node => a = b
  BY <1>1, <1>3, <1>4
<1>7. IsFiniteSet(NodesOf(h)) /\ Cardinality(NodesOf(h)) = m
  BY <1>2, <1>3, <1>6, NodesCounted
<1>8. NodesOf(h) \subseteq NodesOf(e)
  <2>1. DOMAIN e = 1 .. Len(e)
    OBVIOUS
  <2> QED
    BY <1>1, <1>4, <1>5, <2>1 DEF NodesOf
<1> QED
  BY <1>7, <1>8 DEF h

\* The answer to a request for miners (election/election.go, SampleMinerNodes).
LEMMA MinerAnswerComplete ==
    ASSUME NEW q \in Requests, Len(q.list) > N,
           NEW dict, DOMAIN dict \subseteq ToSet(q.list), Cardinality(DOMAIN dict) <= N
    PROVE  /\ MinerAnswer(q, dict).request = q
           /\ MinerComplete(MinerAnswer(q, dict))
<1> DEFINE S == ToSet(q.list)
           D == DOMAIN dict
<1>1. N \in Nat /\ Len(q.list) \in Nat /\ IsFiniteSet(S) /\ Cardinality(S) = Len(q.list)
  BY RequestList, ElectionAssumption
<1>2. IsFiniteSet(D) /\ Cardinality(D) \in Nat
  BY <1>1, CardinalityOfParts
<1>3. Cardinality(S \ D) = Len(q.list) - Cardinality(D)
  BY <1>1, CardinalityOfParts
<1> DEFINE zero == [n \in S \ D |-> 0]
<1>4. PICK rest : rest = InOrder(q.list, zero)
  OBVIOUS
<1>5. PICK m : m = N - Cardinality(D)
  OBVIOUS
<1>6. PICK fill : fill = NodesOf(SubSeq(rest, 1, m))
  OBVIOUS
<1> DEFINE stock == [n \in D \cup fill |-> IF n \in fill THEN 0 ELSE dict[n]]
<1>7. PICK a : a = MinerAnswer(q, dict)
  OBVIOUS
<1>8. /\ a.request = q
      /\ a.masters = InOrder(q.list, stock)
      /\ a.backups = InOrder(q.list, One(S \ DOMAIN stock))
  BY <1>4, <1>5, <1>6, <1>7 DEF MinerAnswer, Answer
<1>9. DOMAIN zero = S \ D /\ DOMAIN stock = D \cup fill
  OBVIOUS
<1> HIDE DEF zero, stock
<1>10. /\ rest \in Seq(StockOf(zero)) /\ NodesOf(rest) = S \ D
       /\ \A i, j \in 1 .. Len(rest) : rest[i].node = rest[j].node => i = j
       /\ Len(rest) = Cardinality(S \ D)
  BY <1>4, <1>9, StandingSorted
<1>11. m \in Nat /\ m <= Len(rest)
  BY <1>1, <1>2, <1>3, <1>5, <1>10
<1>12. fill \subseteq S \ D /\ IsFiniteSet(fill) /\ Cardinality(fill) = m
  BY <1>6, <1>10, <1>11, HeadOf
<1>13. Cardinality(D \cup fill) = N
  <2>1. D \cap fill = {}
    BY <1>12
  <2>2. Cardinality(D \cup fill) = Cardinality(D) + Cardinality(fill)
    BY <1>2, <1>12, <2>1, CardinalityOfBoth
  <2> QED
    BY <1>1, <1>2, <1>5, <1>12, <2>2
<1>14. NodesOf(a.masters) = D \cup fill /\ Ordered(a.masters, q.list) /\ Len(a.masters) = N
  <2>1. DOMAIN stock \subseteq S
    BY <1>9, <1>12
  <2> QED
    BY <1>8, <1>9, <1>13, <2>1, StandingSorted
<1>15. NodesOf(a.backups) = S \ (D \cup fill) /\ Ordered(a.backups, q.list)
  <2>1. PICK one : one = One(S \ DOMAIN stock)
    OBVIOUS
  <2>2. DOMAIN one = S \ (D \cup fill)
    BY <1>9, <2>1 DEF One
  <2> QED
    BY <1>8, <2>1, <2>2, StandingSorted
<1>16. Min({N, Len(q.list)}) = N
  BY <1>1 DEF Min
<1>17. NodesOf(a.masters) \cup NodesOf(a.backups) = S
  BY <1>12, <1>14, <1>15
<1> QED
  BY <1>7, <1>8, <1>14, <1>15, <1>16, <1>17 DEF MinerComplete

\* The answer to a request for validators, unless the slice that is cut is empty
\* (election/election.go, SampleMPlusPNodes and ValNodesSelected).
LEMMA ValidatorAnswerAccounted ==
    ASSUME NEW q \in Requests,
           NEW dict, DOMAIN dict \subseteq ToSet(q.list),
           NEW first, first \subseteq DOMAIN dict,
           Cardinality(DOMAIN dict) > M => Cardinality(first) = M,
           ValidatorAnswer(q, dict, first) # Panic
    PROVE  /\ ValidatorAnswer(q, dict, first).request = q
           /\ ValidatorAccounted(ValidatorAnswer(q, dict, first))
<1> DEFINE S == ToSet(q.list)
           D == DOMAIN dict
<1>1. M \in Nat /\ P \in Nat \ {0} /\ IsFiniteSet(S)
  BY RequestList, ElectionAssumption
<1>2. IsFiniteSet(D) /\ Cardinality(D) \in Nat
  BY <1>1, CardinalityOfParts
<1>3. PICK chosen : chosen = IF Cardinality(D) <= M THEN D ELSE first
  OBVIOUS
<1> DEFINE stock == [n \in chosen |-> dict[n]]
           spare == [n \in D \ chosen |-> dict[n]]
<1>4. PICK masters, backups, rest :
         /\ masters = InOrder(q.list, stock)
         /\ backups = InOrder(q.list, spare)
         /\ rest = InOrder(q.list, One(S \ D))
  OBVIOUS
<1>5. PICK d : d = Dropped(masters, backups, rest)
  OBVIOUS
<1>6. PICK a : a = ValidatorAnswer(q, dict, first)
  OBVIOUS
<1>7. a = IF d > Len(masters) THEN Panic
          ELSE Answer(q, SubSeq(masters, d + 1, Len(masters)), backups, rest)
  BY <1>3, <1>4, <1>5, <1>6 DEF ValidatorAnswer
<1>8. ~(d > Len(masters))
  BY <1>6, <1>7
<1>9. PICK cut : cut = SubSeq(masters, d + 1, Len(masters))
  OBVIOUS
<1>10. a.request = q /\ a.masters = cut /\ a.backups = backups /\ a.candidates = rest
  BY <1>7, <1>8, <1>9 DEF Answer
<1>11. chosen \subseteq D
  BY <1>3
<1>12. DOMAIN stock = chosen /\ DOMAIN spare = D \ chosen
  OBVIOUS
<1> HIDE DEF stock, spare
<1>13. /\ masters \in Seq(StockOf(stock)) /\ NodesOf(masters) = chosen /\ Ordered(masters, q.list)
       /\ Len(masters) \in Nat /\ Len(masters) = Cardinality(chosen)
  BY <1>4, <1>11, <1>12, StandingSorted
<1>14. /\ NodesOf(backups) = D \ chosen /\ Ordered(backups, q.list)
       /\ Len(backups) \in Nat /\ Len(backups) = Cardinality(D \ chosen)
  <2>1. DOMAIN spare \subseteq S
    BY <1>12
  <2> QED
    BY <1>4, <1>12, <2>1, StandingSorted
<1>15. NodesOf(rest) = S \ D /\ Ordered(rest, q.list)
  <2>1. PICK one : one = One(S \ D)
    OBVIOUS
  <2>2. DOMAIN one = S \ D
    BY <2>1 DEF One
  <2> QED
    BY <1>4, <2>1, <2>2, StandingSorted
<1>16. /\ d \in 0 .. 2
       /\ d # 0 => rest # <<>> /\ (Len(masters) < M \/ Len(backups) < P)
  BY <1>5 DEF Dropped
<1>17. d \in 0 .. Len(masters)
  BY <1>8, <1>13, <1>16
<1>18. /\ NodesOf(cut) \subseteq chosen
       /\ IsFiniteSet(chosen \ NodesOf(cut)) /\ Cardinality(chosen \ NodesOf(cut)) <= d
       /\ Ordered(cut, q.list)
  BY <1>9, <1>13, <1>17, CutLoses
<1>19. S \ (NodesOf(cut) \cup NodesOf(backups) \cup NodesOf(rest)) = chosen \ NodesOf(cut)
  BY <1>11, <1>14, <1>15, <1>18
<1>20. Cardinality(chosen \ NodesOf(cut)) <= 2
  BY <1>16, <1>18, FS_CardinalityType
<1>21. chosen \ NodesOf(cut) # {} => d # 0
  <2>1. SUFFICES ASSUME d = 0
                 PROVE  chosen \ NodesOf(cut) = {}
    OBVIOUS
  <2>2. Cardinality(chosen \ NodesOf(cut)) = 0
    BY <1>18, <2>1, FS_CardinalityType
  <2> QED
    BY <1>18, <2>2, FS_EmptySet
<1>22. Len(masters) < M => Len(backups) < P
  <2>1. SUFFICES ASSUME Len(masters) < M
                 PROVE  Len(backups) < P
    OBVIOUS
  <2>2. Cardinality(D) <= M
    BY <1>1, <1>2, <1>3, <1>13, <2>1
  <2>3. D \ chosen = {}
    BY <1>3, <2>2
  <2>4. Len(backups) = 0
    BY <1>14, <2>3, FS_EmptySet
  <2> QED
    BY <1>1, <2>4
<1>23. chosen \ NodesOf(cut) # {} => Len(backups) < P /\ rest # <<>>
  BY <1>16, <1>21, <1>22
<1>24. /\ NodesOf(cut) \cap NodesOf(backups) = {}
       /\ (NodesOf(cut) \cup NodesOf(backups)) \cap NodesOf(rest) = {}
  BY <1>11, <1>14, <1>15, <1>18
<1>25. \A b \in {cut, backups, rest} : Ordered(b, q.list)
  BY <1>13, <1>14, <1>15, <1>18
<1>26. ValidatorAccounted(a)
  BY <1>10, <1>19, <1>20, <1>23, <1>24, <1>25 DEF ValidatorAccounted
<1> QED
  BY <1>6, <1>10, <1>26

-----------------------------------------------------------------------------
(* Sampling.                                                               *)

\* Only candidates are drawn (election/election.go, Sample1NodesInValNodes).
LEMMA Drawn ==
    ASSUME NEW q \in Requests, NEW n \in Draws[q.list]
    PROVE  n \in ToSet(q.list)
<1>1. PICK list \in Lists : list = q.list
  BY DEF Lists
<1>2. PICK r : n \in Sample1NodesInValNodes(list, r)
  BY <1>1 DEF Draws
<1>3. PICK i \in DOMAIN list : n = list[i]
  BY <1>2 DEF Sample1NodesInValNodes
<1> QED
  BY <1>1, <1>3 DEF ToSet

-----------------------------------------------------------------------------
(* The elector.                                                            *)

\* An answer as the properties want it.
AnswerOk(a) ==
    /\ a.request.kind = "miner" => MinerComplete(a)
    /\ a.request.kind = "validator" => ValidatorAccounted(a)

\* A list of such answers.
AnswersOk(s) == \E T : s \in Seq(T) /\ \A x \in T : AnswerOk(x)

\* The sampling loop: the list is longer than the masters, only candidates are
\* drawn, too few of them to end the loop; first is empty until M are drawn and
\* has M from then on.
SampleOk(l) ==
    /\ l = [pc |-> "sample", request |-> l.request, dict |-> l.dict, first |-> l.first, i |-> l.i]
    /\ l.request \in Requests
    /\ Len(l.request.list) > Masters(l.request.kind)
    /\ DOMAIN l.dict \subseteq ToSet(l.request.list)
    /\ l.first \subseteq DOMAIN l.dict
    /\ l.request.kind = "miner" => Cardinality(DOMAIN l.dict) < N
    /\ Cardinality(DOMAIN l.dict) < M => l.first = {}
    /\ Cardinality(DOMAIN l.dict) >= M => Cardinality(l.first) = M

ListenOk(l) ==
    /\ l.pc = "sample" => SampleOk(l)
    /\ l.pc = "send" => AnswerOk(l.answer)

\* The requests in a channel are of its kind; every answer, on its way or
\* published, is as it should be.
ElectorInv ==
    /\ requests \in [Kinds -> Seq(Requests)]
    /\ \A k \in Kinds : \A i \in 1 .. Len(requests[k]) : requests[k][i].kind = k
    /\ ListenOk(listen)
    /\ DOMAIN answers = Kinds
    /\ \A k \in Kinds : AnswersOk(answers[k])
    /\ AnswersOk(posted)

\* What is sent is an answer, or the elector has panicked.
LEMMA SendOk ==
    ASSUME NEW a, a # Panic => AnswerOk(a)
    PROVE  ListenOk(Send(a))
  BY DEF Send, ListenOk

\* The queues of answers.
LEMMA AppendOk ==
    ASSUME NEW s, AnswersOk(s), NEW a, AnswerOk(a)
    PROVE  AnswersOk(Append(s, a))
<1>1. PICK T : s \in Seq(T) /\ \A x \in T : AnswerOk(x)
  BY DEF AnswersOk
<1> DEFINE U == T \cup {a}
<1>2. s \in Seq(U)
  BY <1>1
<1>3. Append(s, a) \in Seq(U)
  BY <1>2
<1> QED
  BY <1>1, <1>3 DEF AnswersOk

LEMMA HeadTailOk ==
    ASSUME NEW s, AnswersOk(s), s # <<>>
    PROVE  AnswerOk(Head(s)) /\ AnswersOk(Tail(s))
<1>1. PICK T : s \in Seq(T) /\ \A x \in T : AnswerOk(x)
  BY DEF AnswersOk
<1>2. Head(s) \in T /\ Tail(s) \in Seq(T)
  BY <1>1
<1> QED
  BY <1>1, <1>2 DEF AnswersOk

\* A turn of the sampling loop, and what follows it (election/election.go,
\* SampleMPlusPNodes and SampleMinerNodes).
LEMMA SampleKeeps ==
    ASSUME ListenOk(listen), Sample
    PROVE  ListenOk(listen')
<1>1. SampleOk(listen)
  BY DEF Sample, ListenOk
<1>2. PICK q : q = listen.request
  OBVIOUS
<1> DEFINE D == DOMAIN listen.dict
<1>3. q \in Requests /\ D \subseteq ToSet(q.list) /\ Len(q.list) > Masters(q.kind)
  BY <1>1, <1>2 DEF SampleOk
<1>4. M \in Nat \ {0} /\ P \in Nat \ {0} /\ N \in Nat \ {0} /\ q.kind \in Kinds
  BY <1>3, ElectionAssumption
<1>5. Len(q.list) \in Nat /\ Len(q.list) > 1 /\ IsFiniteSet(ToSet(q.list))
  BY <1>3, <1>4, RequestList DEF Masters
<1>6. IsFiniteSet(D) /\ Cardinality(D) \in Nat
  BY <1>3, <1>5, CardinalityOfParts
<1>7. PICK n \in Draws[q.list] :
        LET drawn == D \cup {n}
            dict == [m \in drawn |-> (IF m \in D THEN listen.dict[m] ELSE 0)
                                         + (IF m = n THEN 1 ELSE 0)]
            goal == IF q.kind = "miner" THEN N ELSE M + P
            first == IF Cardinality(drawn) = M /\ listen.first = {} THEN drawn ELSE listen.first
            ends == Cardinality(drawn) = goal \/ listen.i + 1 = MaxSample
        IN  listen' = IF ~ends THEN [listen EXCEPT !.dict = dict, !.first = first, !.i = @ + 1]
                      ELSE Send(IF q.kind = "miner" THEN MinerAnswer(q, dict)
                                ELSE ValidatorAnswer(q, dict, first))
  BY <1>2 DEF Sample
<1> DEFINE drawn == D \cup {n}
           count == [m \in drawn |-> (IF m \in D THEN listen.dict[m] ELSE 0)
                                         + (IF m = n THEN 1 ELSE 0)]
           goal == IF q.kind = "miner" THEN N ELSE M + P
<1>8. PICK first : first = IF Cardinality(drawn) = M /\ listen.first = {} THEN drawn ELSE listen.first
  OBVIOUS
<1>9. PICK dict : dict = count
  OBVIOUS
<1>10. \/ /\ Cardinality(drawn) # goal
          /\ listen' = [listen EXCEPT !.dict = dict, !.first = first, !.i = @ + 1]
       \/ listen' = Send(IF q.kind = "miner" THEN MinerAnswer(q, dict)
                         ELSE ValidatorAnswer(q, dict, first))
  BY <1>7, <1>8, <1>9
<1>11. DOMAIN dict = drawn
  BY <1>9
<1> HIDE DEF count
<1>12. n \in ToSet(q.list)
  BY <1>3, <1>7, Drawn
<1>13. drawn \subseteq ToSet(q.list)
  BY <1>3, <1>12
<1>14. Cardinality(drawn) = IF n \in D THEN Cardinality(D) ELSE Cardinality(D) + 1
  BY <1>6, FS_AddElement
<1>15. listen.first \subseteq D
  BY <1>1 DEF SampleOk
<1>16. /\ Cardinality(D) < M => listen.first = {}
       /\ Cardinality(D) >= M => Cardinality(listen.first) = M
  BY <1>1 DEF SampleOk
<1>17. Cardinality({}) = 0
  BY FS_EmptySet
<1>18. first \subseteq drawn
  BY <1>8, <1>15
<1>19. PICK c \in Nat, e \in Nat : c = Cardinality(D) /\ e = Cardinality(drawn) /\ (e = c \/ e = c + 1)
  BY <1>6, <1>14
<1>20. /\ e < M => first = {}
       /\ e >= M => Cardinality(first) = M
  <2>1. ASSUME e < M
        PROVE  first = {}
    BY <1>4, <1>8, <1>16, <1>19, <2>1
  <2>2. ASSUME e >= M
        PROVE  Cardinality(first) = M
    <3>1. CASE e = M /\ listen.first = {}
      BY <1>8, <1>19, <3>1
    <3>2. CASE e = M /\ listen.first # {}
      <4>1. ~(c < M)
        BY <1>16, <1>19, <3>2
      <4>2. c >= M
        BY <1>4, <4>1
      <4> QED
        BY <1>8, <1>16, <1>19, <3>2, <4>2
    <3>3. CASE e # M
      <4>1. c >= M
        BY <1>4, <1>19, <2>2, <3>3
      <4> QED
        BY <1>8, <1>16, <1>19, <3>3, <4>1
    <3> QED
      BY <3>1, <3>2, <3>3
  <2> QED
    BY <2>1, <2>2
<1>21. q.kind = "miner" => e <= N /\ Len(q.list) > N
  BY <1>1, <1>2, <1>3, <1>4, <1>19 DEF SampleOk, Masters
<1>22. CASE /\ Cardinality(drawn) # goal
            /\ listen' = [listen EXCEPT !.dict = dict, !.first = first, !.i = @ + 1]
  <2>1. PICK j : listen' = [pc |-> "sample", request |-> q, dict |-> dict, first |-> first, i |-> j]
    <3>1. listen = [pc |-> "sample", request |-> q, dict |-> listen.dict, first |-> listen.first,
                    i |-> listen.i]
      BY <1>1, <1>2 DEF SampleOk
    <3>2. PICK d0, f0, i0 : listen = [pc |-> "sample", request |-> q, dict |-> d0,
                                      first |-> f0, i |-> i0]
      BY <3>1
    <3>3. PICK old : old = listen
      OBVIOUS
    <3>4. listen' = [old EXCEPT !.dict = dict, !.first = first, !.i = @ + 1]
      BY <1>22, <3>3
    <3>5. old = [pc |-> "sample", request |-> q, dict |-> d0, first |-> f0, i |-> i0]
      BY <3>2, <3>3
    <3>6. listen' = [pc |-> "sample", request |-> q, dict |-> dict, first |-> first, i |-> i0 + 1]
      BY <3>4, <3>5
    <3> QED
      BY <3>6
  <2>2. q.kind = "miner" => e < N
    BY <1>4, <1>19, <1>21, <1>22
  <2>3. SampleOk(listen')
    BY <1>3, <1>11, <1>13, <1>18, <1>19, <1>20, <2>1, <2>2 DEF SampleOk
  <2> QED
    BY <2>1, <2>3 DEF ListenOk
<1>23. CASE listen' = Send(IF q.kind = "miner" THEN MinerAnswer(q, dict)
                           ELSE ValidatorAnswer(q, dict, first))
  <2>1. CASE q.kind = "miner"
    <3>1. PICK a : a = MinerAnswer(q, dict)
      OBVIOUS
    <3>2. a.request = q /\ MinerComplete(a)
      BY <1>3, <1>11, <1>13, <1>19, <1>21, <2>1, <3>1, MinerAnswerComplete
    <3>3. AnswerOk(a)
      BY <2>1, <3>2 DEF AnswerOk
    <3> QED
      BY <1>23, <2>1, <3>1, <3>3, SendOk
  <2>2. CASE q.kind # "miner"
    <3>1. PICK a : a = ValidatorAnswer(q, dict, first)
      OBVIOUS
    <3>2. Cardinality(DOMAIN dict) > M => Cardinality(first) = M
      BY <1>4, <1>11, <1>19, <1>20
    <3>3. a # Panic => a.request = q /\ ValidatorAccounted(a)
      BY <1>3, <1>11, <1>13, <1>18, <3>1, <3>2, ValidatorAnswerAccounted
    <3>4. a # Panic => AnswerOk(a)
      BY <2>2, <3>3 DEF AnswerOk
    <3> QED
      BY <1>23, <2>2, <3>1, <3>4, SendOk
  <2> QED
    BY <2>1, <2>2
<1> QED
  BY <1>10, <1>22, <1>23

\* Every step of the elector keeps ElectorInv; the owner does not touch it.
LEMMA ElectorStep == ElectorInv /\ [Next]_vars => ElectorInv'
<1> SUFFICES ASSUME ElectorInv, [Next]_vars
             PROVE  ElectorInv'
  OBVIOUS
<1> USE DEF ElectorInv
<1>1. CASE NewEle \/ Select
  BY <1>1 DEF NewEle, Select
<1>2. ASSUME NEW q \in Requests, Request(q)
      PROVE  ElectorInv'
  <2>1. q.kind \in Kinds
    BY RequestList
  <2>2. /\ requests' = [requests EXCEPT ![q.kind] = Append(requests[q.kind], q)]
        /\ UNCHANGED <<listen, answers, posted>>
    BY <1>2 DEF Request
  <2>3. requests[q.kind] \in Seq(Requests)
    BY <2>1
  <2>4. PICK s : s = Append(requests[q.kind], q)
    OBVIOUS
  <2>5. s \in Seq(Requests) /\ Len(s) = Len(requests[q.kind]) + 1
    BY <2>3, <2>4
  <2>6. \A i \in 1 .. Len(s) : s[i].kind = q.kind
    <3> TAKE i \in 1 .. Len(s)
    <3>1. CASE i = Len(s)
      BY <2>3, <2>4, <2>5, <3>1
    <3>2. CASE i # Len(s)
      <4>1. i \in 1 .. Len(requests[q.kind])
        BY <2>3, <2>5, <3>2
      <4>2. s[i] = requests[q.kind][i]
        BY <2>3, <2>4, <4>1
      <4> QED
        BY <2>1, <4>1, <4>2
    <3> QED
      BY <3>1, <3>2
  <2>7. /\ requests' \in [Kinds -> Seq(Requests)]
        /\ \A k \in Kinds : requests'[k] = IF k = q.kind THEN s ELSE requests[k]
    BY <2>1, <2>2, <2>4, <2>5
  <2>8. \A k \in Kinds : \A i \in 1 .. Len(requests'[k]) : requests'[k][i].kind = k
    <3> TAKE k \in Kinds
    <3>1. CASE k = q.kind
      BY <2>6, <2>7, <3>1
    <3>2. CASE k # q.kind
      BY <2>7, <3>2
    <3> QED
      BY <3>1, <3>2
  <2> QED
    BY <2>2, <2>7, <2>8
<1>3. ASSUME NEW k \in Kinds, Take(k)
      PROVE  ElectorInv'
  <2>1. PICK q : q = Head(requests[k])
    OBVIOUS
  <2>2. requests[k] \in Seq(Requests) /\ requests[k] # <<>>
    BY <1>3 DEF Take
  <2>3. q \in Requests /\ q = requests[k][1] /\ 1 \in 1 .. Len(requests[k])
    BY <2>1, <2>2
  <2>4. q.kind = k
    BY <2>3
  <2>5. /\ listen' = IF Len(q.list) <= Masters(k) THEN Send(AllElected(q))
                     ELSE [pc |-> "sample", request |-> q, dict |-> <<>>, first |-> {}, i |-> 0]
        /\ requests' = [requests EXCEPT ![k] = Tail(requests[k])]
        /\ UNCHANGED <<answers, posted>>
    BY <1>3, <2>1 DEF Take
  <2>6. PICK s : s = Tail(requests[k])
    OBVIOUS
  <2>7. s \in Seq(Requests) /\ Len(s) = Len(requests[k]) - 1 /\ \A i \in 1 .. Len(s) : s[i] = requests[k][i + 1]
    BY <2>2, <2>6
  <2>8. \A i \in 1 .. Len(s) : s[i].kind = k
    <3> TAKE i \in 1 .. Len(s)
    <3>1. i + 1 \in 1 .. Len(requests[k])
      BY <2>2, <2>7
    <3> QED
      BY <2>7, <3>1
  <2>9. /\ requests' \in [Kinds -> Seq(Requests)]
        /\ \A j \in Kinds : requests'[j] = IF j = k THEN s ELSE requests[j]
    BY <2>5, <2>6, <2>7
  <2>10. \A j \in Kinds : \A i \in 1 .. Len(requests'[j]) : requests'[j][i].kind = j
    <3> TAKE j \in Kinds
    <3>1. CASE j = k
      BY <2>8, <2>9, <3>1
    <3>2. CASE j # k
      BY <2>9, <3>2
    <3> QED
      BY <3>1, <3>2
  <2>11. ListenOk(listen')
    <3>1. CASE Len(q.list) <= Masters(k)
      <4>1. PICK a : a = AllElected(q)
        OBVIOUS
      <4>2. a.request = q /\ (Len(q.list) <= N => MinerComplete(a)) /\ ValidatorAccounted(a)
        BY <2>3, <4>1, AllElectedComplete
      <4>3. AnswerOk(a)
        BY <2>4, <3>1, <4>2 DEF AnswerOk, Masters
      <4> QED
        BY <2>5, <3>1, <4>1, <4>3, SendOk
    <3>2. CASE ~(Len(q.list) <= Masters(k))
      <4>1. listen' = [pc |-> "sample", request |-> q, dict |-> <<>>, first |-> {}, i |-> 0]
        BY <2>5, <3>2
      <4>2. DOMAIN <<>> = {} /\ Cardinality({}) = 0
        BY FS_EmptySet
      <4>3. Len(q.list) > Masters(k)
        BY <2>3, <3>2, RequestList, ElectionAssumption DEF Masters
      <4>4. PICK d : d = <<>> /\ DOMAIN d = {}
        BY <4>2
      <4>5. SampleOk(listen')
        BY <2>3, <2>4, <4>1, <4>2, <4>3, <4>4, ElectionAssumption DEF SampleOk
      <4> QED
        BY <4>1, <4>5 DEF ListenOk
    <3> QED
      BY <3>1, <3>2
  <2> QED
    BY <2>5, <2>9, <2>10, <2>11
<1>4. CASE Sample
  <2>1. ListenOk(listen')
    BY <1>4, SampleKeeps
  <2> QED
    BY <1>4, <2>1 DEF Sample
<1>5. CASE Reply
  <2>1. AnswerOk(listen.answer)
    BY <1>5 DEF Reply, ListenOk
  <2>2. PICK k : k = listen.answer.request.kind
    OBVIOUS
  <2>3. UNCHANGED <<requests, posted>>
    BY <1>5 DEF Reply
  <2>4. CASE k \in made
    <3>1. answers' = [answers EXCEPT ![k] = Append(answers[k], listen.answer)] /\ listen' = Idle
      BY <1>5, <2>2, <2>4 DEF Reply
    <3>2. DOMAIN answers' = Kinds
      BY <3>1
    <3>3. ListenOk(listen')
      BY <3>1 DEF Idle, ListenOk
    <3>4. \A j \in Kinds : AnswersOk(answers'[j])
      <4> TAKE j \in Kinds
      <4>1. CASE j = k
        <5>1. answers'[j] = Append(answers[j], listen.answer)
          BY <3>1, <4>1
        <5> QED
          BY <2>1, <5>1, AppendOk
      <4>2. CASE j # k
        BY <3>1, <4>2
      <4> QED
        BY <4>1, <4>2
    <3> QED
      BY <2>3, <3>2, <3>3, <3>4
  <2>5. CASE k \notin made
    BY <1>5, <2>2, <2>3, <2>5 DEF Reply, ListenOk
  <2> QED
    BY <2>4, <2>5
<1>6. ASSUME NEW k \in Kinds, PostAnswer(k)
      PROVE  ElectorInv'
  <2>1. /\ answers[k] # <<>>
        /\ posted' = Append(posted, Head(answers[k]))
        /\ answers' = [answers EXCEPT ![k] = Tail(answers[k])]
        /\ UNCHANGED <<requests, listen>>
    BY <1>6 DEF PostAnswer
  <2>2. AnswerOk(Head(answers[k])) /\ AnswersOk(Tail(answers[k]))
    BY <2>1, HeadTailOk
  <2>3. AnswersOk(posted')
    BY <2>1, <2>2, AppendOk
  <2>4. DOMAIN answers' = Kinds /\ \A j \in Kinds : AnswersOk(answers'[j])
    BY <2>1, <2>2
  <2> QED
    BY <2>1, <2>3, <2>4
<1>7. ASSUME NEW node \in Nodes, NEW flag \in 0 .. 2, PrimarylistUpdate(node, flag)
      PROVE  ElectorInv'
  BY <1>7 DEF PrimarylistUpdate, elector
<1>8. ASSUME NEW offline \in Offline, ToPoUpdate(offline)
      PROVE  ElectorInv'
  BY <1>8 DEF ToPoUpdate, elector
<1>9. CASE UNCHANGED vars
  BY <1>9 DEF vars, elector
<1> QED
  BY <1>1, <1>2, <1>3, <1>4, <1>5, <1>6, <1>7, <1>8, <1>9 DEF Next

LEMMA ElectorInit == Init => ElectorInv
<1> SUFFICES ASSUME Init
             PROVE  ElectorInv
  OBVIOUS
<1>1. AnswersOk(<<>>)
  <2>1. PICK T : T = {}
    OBVIOUS
  <2>2. <<>> \in Seq(T)
    OBVIOUS
  <2>3. \A x \in T : AnswerOk(x)
    BY <2>1
  <2> QED
    BY <2>2, <2>3 DEF AnswersOk
<1>2. ListenOk(listen)
  BY DEF Init, Idle, ListenOk
<1>3. requests \in [Kinds -> Seq(Requests)] /\ \A k \in Kinds : Len(requests[k]) = 0
  BY DEF Init
<1>4. DOMAIN answers = Kinds /\ \A k \in Kinds : AnswersOk(answers[k])
  BY <1>1 DEF Init
<1> QED
  BY <1>1, <1>2, <1>3, <1>4 DEF Init, ElectorInv

\* What ElectorInv says of the published answers.
LEMMA ElectorInvImplies ==
    ASSUME ElectorInv
    PROVE  MinersComplete /\ ValidatorsAccounted
<1>1. \A a \in ToSet(posted) : AnswerOk(a)
  <2>1. PICK T : posted \in Seq(T) /\ \A x \in T : AnswerOk(x)
    BY DEF ElectorInv, AnswersOk
  <2>2. DOMAIN posted = 1 .. Len(posted) /\ \A i \in 1 .. Len(posted) : posted[i] \in T
    BY <2>1
  <2> QED
    BY <2>1, <2>2 DEF ToSet
<1>2. MinersComplete /\ ValidatorsAccounted
  BY <1>1 DEF MinersComplete, ValidatorsAccounted, Published, AnswerOk
<1> QED
  BY <1>2

\* Every miner that stood is in one list of the answer, in the order of the
\* request, and N of them are masters (election/election.go, SampleMinerNodes).
THEOREM MinersAreComplete == Spec => []MinersComplete
<1>1. ElectorInv => MinersComplete
  BY ElectorInvImplies
<1> QED
  BY <1>1, ElectorInit, ElectorStep, PTL DEF Spec

\* No validator is in two lists of the answer; at most two are in none, and they
\* were drawn (election/election.go, ValNodesSelected).
THEOREM ValidatorsAreAccounted == Spec => []ValidatorsAccounted
<1>1. ElectorInv => ValidatorsAccounted
  BY ElectorInvImplies
<1> QED
  BY <1>1, ElectorInit, ElectorStep, PTL DEF Spec

-----------------------------------------------------------------------------
(* SubstitutesFresh.                                                       *)

\* The accounts of a list are finitely many.
LEMMA ListFinite ==
    ASSUME NEW s \in Seq(Nodes)
    PROVE  IsFiniteSet(ToSet(s))
<1> DEFINE S == 1 .. Len(s)
           f == [i \in S |-> s[i]]
<1>1. Len(s) \in Nat /\ DOMAIN s = S
  OBVIOUS
<1>2. IsFiniteSet(S)
  <2>1. PICK m \in Nat : m = Len(s)
    BY <1>1
  <2> QED
    BY <2>1, FS_Interval
<1>3. f \in Surjection(S, ToSet(s))
  <2>1. f \in [S -> ToSet(s)] /\ \A t \in ToSet(s) : \E i \in S : f[i] = t
    BY <1>1 DEF ToSet
  <2> QED
    BY <2>1, Fun_IsSurj
<1> QED
  BY <1>2, <1>3, FS_Surjection

\* What is left of a map, in any order: each account once (election/election.go,
\* ToPoUpdate).
LEMMA OnePart ==
    ASSUME NEW l \in Seq(Nodes), NEW a \in SetToSeqs(ToSet(l) \ ToSet(Topology))
    PROVE  /\ a \in Seq(ToSet(l) \ ToSet(Topology))
           /\ \A i, j \in 1 .. Len(a) : a[i] = a[j] => i = j
<1> DEFINE F == ToSet(l) \ ToSet(Topology)
<1>1. IsFiniteSet(F)
  <2>1. F \subseteq ToSet(l)
    OBVIOUS
  <2> QED
    BY <2>1, ListFinite, FS_Subset
<1>2. PICK c \in Nat : c = Cardinality(F)
  BY <1>1, FS_CardinalityType
<1>3. a \in [1 .. c -> F] /\ \A i, j \in 1 .. c : i # j => a[i] # a[j]
  BY <1>2 DEF SetToSeqs
<1> HIDE DEF F
<1>4. a \in Seq(F) /\ Len(a) = c
  BY <1>3
<1> QED
  BY <1>3, <1>4 DEF F

\* The first n of a are different members of S.
Different(a, n, S) ==
    /\ \A i \in 1 .. n : a[i] \in S
    /\ \A i, j \in 1 .. n : a[i] = a[j] => i = j

\* Three parts in a row, n in all: account i is of part from[i], and each part has
\* an account once.
Row(s, n, F) ==
    \E from \in [1 .. n -> 1 .. 3] :
       /\ \A i \in 1 .. n : s[i] \in F[from[i]]
       /\ \A i, j \in 1 .. n : i # j /\ s[i] = s[j] => from[i] # from[j]

LEMMA InARow ==
    ASSUME NEW x \in Nat, NEW y \in Nat, NEW z \in Nat, NEW a, NEW b, NEW c, NEW s, NEW F,
           Different(a, x, F[1]), Different(b, y, F[2]), Different(c, z, F[3]),
           \A i \in 1 .. x + y + z :
              s[i] = IF i <= x THEN a[i] ELSE IF i <= x + y THEN b[i - x] ELSE c[i - (x + y)]
    PROVE  Row(s, x + y + z, F)
<1> DEFINE from == [i \in 1 .. x + y + z |-> IF i <= x THEN 1 ELSE IF i <= x + y THEN 2 ELSE 3]
<1>1. ASSUME NEW i \in 1 .. x + y + z
      PROVE  /\ from[i] = 1 => i \in 1 .. x /\ s[i] = a[i]
             /\ from[i] = 2 => i - x \in 1 .. y /\ s[i] = b[i - x]
             /\ from[i] = 3 => i - (x + y) \in 1 .. z /\ s[i] = c[i - (x + y)]
  <2>1. CASE i <= x
    BY <2>1
  <2>2. CASE ~(i <= x) /\ i <= x + y
    BY <2>2
  <2>3. CASE ~(i <= x) /\ ~(i <= x + y)
    BY <2>3
  <2> QED
    BY <2>1, <2>2, <2>3
<1>2. from \in [1 .. x + y + z -> 1 .. 3]
  OBVIOUS
<1> HIDE DEF from
<1>3. \A i \in 1 .. x + y + z : s[i] \in F[from[i]]
  <2> SUFFICES ASSUME NEW i \in 1 .. x + y + z
               PROVE  s[i] \in F[from[i]]
    OBVIOUS
  <2>1. from[i] = 1 \/ from[i] = 2 \/ from[i] = 3
    BY <1>2
  <2> QED
    BY <1>1, <2>1 DEF Different
<1>4. ASSUME NEW i \in 1 .. x + y + z, NEW j \in 1 .. x + y + z, s[i] = s[j], from[i] = from[j]
      PROVE  i = j
  <2>1. CASE from[i] = 1
    <3>1. i \in 1 .. x /\ s[i] = a[i] /\ j \in 1 .. x /\ s[j] = a[j]
      BY <1>1, <1>4, <2>1, Zenon
    <3> QED
      BY <1>4, <3>1, Zenon DEF Different
  <2>2. CASE from[i] = 2
    <3>1. i - x \in 1 .. y /\ s[i] = b[i - x] /\ j - x \in 1 .. y /\ s[j] = b[j - x]
      BY <1>1, <1>4, <2>2, Zenon
    <3>2. i - x = j - x
      BY <1>4, <3>1, Zenon DEF Different
    <3> QED
      BY <3>2
  <2>3. CASE from[i] = 3
    <3>1. /\ i - (x + y) \in 1 .. z /\ s[i] = c[i - (x + y)]
          /\ j - (x + y) \in 1 .. z /\ s[j] = c[j - (x + y)]
      BY <1>1, <1>4, <2>3, Zenon
    <3>2. i - (x + y) = j - (x + y)
      BY <1>4, <3>1, Zenon DEF Different
    <3> QED
      BY <3>2
  <2> QED
    BY <1>2, <2>1, <2>2, <2>3
<1> QED
  BY <1>2, <1>3, <1>4 DEF Row

\* The first n of s are a, the m that follow are b.
Joined(s, a, n, b, m) ==
    /\ Len(s) = n + m
    /\ \A i \in 1 .. n + m : s[i] = IF i <= n THEN a[i] ELSE b[i - n]

LEMMA ConcatJoined ==
    ASSUME NEW U, NEW a \in Seq(U), NEW b \in Seq(U)
    PROVE  a \o b \in Seq(U) /\ Joined(a \o b, a, Len(a), b, Len(b))
  BY ConcatProperties DEF Joined

\* The substitutes are such a row.
LEMMA ThreeParts ==
    ASSUME NEW F, NEW a \in Seq(F[1]), NEW b \in Seq(F[2]), NEW c \in Seq(F[3]),
           \A i, j \in 1 .. Len(a) : a[i] = a[j] => i = j,
           \A i, j \in 1 .. Len(b) : b[i] = b[j] => i = j,
           \A i, j \in 1 .. Len(c) : c[i] = c[j] => i = j
    PROVE  /\ Len(a \o b \o c) \in Nat
           /\ Row(a \o b \o c, Len(a \o b \o c), F)
<1> DEFINE U == F[1] \cup F[2] \cup F[3]
<1>1. a \in Seq(U) /\ b \in Seq(U) /\ c \in Seq(U)
  OBVIOUS
<1>2. PICK x \in Nat, y \in Nat, z \in Nat : x = Len(a) /\ y = Len(b) /\ z = Len(c)
  BY <1>1
<1> HIDE DEF U
<1>3. PICK ab : ab = a \o b
  OBVIOUS
<1>4. ab \in Seq(U) /\ Joined(ab, a, x, b, y)
  BY <1>1, <1>2, <1>3, ConcatJoined, Zenon
<1>5. PICK s : s = ab \o c
  OBVIOUS
<1>6. Joined(s, ab, Len(ab), c, Len(c))
  BY <1>1, <1>4, <1>5, ConcatJoined, Zenon
<1>7. /\ Joined(s, ab, x + y, c, z)
      /\ Len(s) = x + y + z
      /\ \A i \in 1 .. x + y + z : s[i] = IF i <= x + y THEN ab[i] ELSE c[i - (x + y)]
  <2>1. Len(ab) = x + y
    BY <1>4, Zenon DEF Joined
  <2>2. Joined(s, ab, x + y, c, z)
    BY <1>2, <1>6, <2>1, Zenon
  <2> QED
    BY <2>2, Zenon DEF Joined
<1>8. Different(a, x, F[1]) /\ Different(b, y, F[2]) /\ Different(c, z, F[3])
  <2>1. /\ \A i \in 1 .. x : a[i] \in F[1]
        /\ \A i \in 1 .. y : b[i] \in F[2]
        /\ \A i \in 1 .. z : c[i] \in F[3]
    BY <1>2
  <2> QED
    BY <1>2, <2>1, Zenon DEF Different
<1>9. ASSUME NEW i \in 1 .. x + y + z
      PROVE  s[i] = IF i <= x THEN a[i] ELSE IF i <= x + y THEN b[i - x] ELSE c[i - (x + y)]
  <2>1. CASE i <= x + y
    <3>1. i \in 1 .. x + y
      BY <2>1
    <3>2. s[i] = ab[i]
      BY <1>7, <2>1, Zenon
    <3>3. ab[i] = IF i <= x THEN a[i] ELSE b[i - x]
      BY <1>4, <3>1, Zenon DEF Joined
    <3>4. i <= x \/ ~(i <= x)
      OBVIOUS
    <3> QED
      BY <2>1, <3>2, <3>3, <3>4, Zenon
  <2>2. CASE ~(i <= x + y)
    <3>1. ~(i <= x)
      BY <2>2
    <3>2. s[i] = c[i - (x + y)]
      BY <1>7, <2>2, Zenon
    <3> QED
      BY <2>2, <3>1, <3>2, Zenon
  <2> QED
    BY <2>1, <2>2, Zenon
<1>10. Row(s, x + y + z, F)
  BY <1>8, <1>9, InARow, Zenon
<1>11. x + y + z \in Nat
  OBVIOUS
<1>12. s = a \o b \o c
  BY <1>3, <1>5
<1> QED
  BY <1>7, <1>10, <1>11, <1>12, Zenon

\* The primary lists are lists of accounts.
OwnerInv ==
    /\ primary \in [1 .. 3 -> Seq(Nodes)]
    /\ SubstitutesFresh

\* A list that an account is added to keeps the others.
LEMMA ListGrows ==
    ASSUME NEW l \in Seq(Nodes), NEW node \in Nodes
    PROVE  /\ <<node>> \o l \in Seq(Nodes) /\ ToSet(l) \subseteq ToSet(<<node>> \o l)
           /\ Append(l, node) \in Seq(Nodes) /\ ToSet(l) \subseteq ToSet(Append(l, node))
<1>1. <<node>> \in Seq(Nodes) /\ Len(<<node>>) = 1
  OBVIOUS
<1>2. PICK m : m = <<node>> \o l
  OBVIOUS
<1>3. PICK n : n = Append(l, node)
  OBVIOUS
<1>4. PICK k \in Nat : k = Len(l) /\ DOMAIN l = 1 .. k
  OBVIOUS
<1>5. /\ m \in Seq(Nodes) /\ Len(m) = 1 + k
      /\ \A i \in 1 .. 1 + k : m[i] = IF i <= 1 THEN <<node>>[i] ELSE l[i - 1]
  BY <1>1, <1>2, <1>4, ConcatProperties
<1>6. n \in Seq(Nodes) /\ Len(n) = k + 1 /\ \A i \in 1 .. k : n[i] = l[i]
  BY <1>3, <1>4
<1>7. DOMAIN m = 1 .. 1 + k /\ DOMAIN n = 1 .. k + 1
  BY <1>5, <1>6
<1>8. ASSUME NEW i \in 1 .. k
      PROVE  /\ i + 1 \in DOMAIN m /\ m[i + 1] = l[i]
             /\ i \in DOMAIN n /\ n[i] = l[i]
  <2>1. i + 1 \in 1 .. 1 + k /\ i \in 1 .. k + 1 /\ ~(i + 1 <= 1) /\ (i + 1) - 1 = i
    OBVIOUS
  <2>2. i + 1 \in DOMAIN m /\ i \in DOMAIN n
    BY <1>7, <2>1
  <2>3. m[i + 1] = l[i]
    BY <1>5, <2>1
  <2> QED
    BY <1>6, <2>2, <2>3
<1>9. ToSet(l) \subseteq ToSet(m) /\ ToSet(l) \subseteq ToSet(n)
  BY <1>4, <1>8 DEF ToSet
<1> QED
  BY <1>2, <1>3, <1>5, <1>6, <1>9

\* A substitute is no node of the topology, and it is of two lists when it stands
\* in for two (election/election.go, ToPoUpdate).
LEMMA ToPoUpdateFresh ==
    ASSUME OwnerInv, NEW offline \in Offline, ToPoUpdate(offline)
    PROVE  SubstitutesFresh'
<1>1. PICK substitute \in Substitutes :
        change' = [i \in 1 .. Min({Len(offline), Len(substitute)}) |->
                     [A |-> substitute[i], B |-> offline[i], position |-> Position(offline[i])]]
  BY DEF ToPoUpdate
<1>2. PICK a \in SetToSeqs(Fresh(1)), b \in SetToSeqs(Fresh(2)), c \in SetToSeqs(Fresh(3)) :
        substitute = a \o b \o c
  BY <1>1 DEF Substitutes
<1>3. /\ a \in Seq(Fresh(1)) /\ \A i, j \in 1 .. Len(a) : a[i] = a[j] => i = j
      /\ b \in Seq(Fresh(2)) /\ \A i, j \in 1 .. Len(b) : b[i] = b[j] => i = j
      /\ c \in Seq(Fresh(3)) /\ \A i, j \in 1 .. Len(c) : c[i] = c[j] => i = j
  <2>1. primary[1] \in Seq(Nodes) /\ primary[2] \in Seq(Nodes) /\ primary[3] \in Seq(Nodes)
    BY DEF OwnerInv
  <2>2. /\ a \in Seq(Fresh(1)) /\ \A i, j \in 1 .. Len(a) : a[i] = a[j] => i = j
    BY <2>1, OnePart, Zenon DEF Fresh
  <2>3. /\ b \in Seq(Fresh(2)) /\ \A i, j \in 1 .. Len(b) : b[i] = b[j] => i = j
    BY <2>1, OnePart, Zenon DEF Fresh
  <2>4. /\ c \in Seq(Fresh(3)) /\ \A i, j \in 1 .. Len(c) : c[i] = c[j] => i = j
    BY <2>1, OnePart, Zenon DEF Fresh
  <2> QED
    BY <2>2, <2>3, <2>4, Zenon
<1> DEFINE F == [i \in 1 .. 3 |-> Fresh(i)]
<1>f. F[1] = Fresh(1) /\ F[2] = Fresh(2) /\ F[3] = Fresh(3) /\ \A i \in 1 .. 3 : F[i] = Fresh(i)
  OBVIOUS
<1> HIDE DEF F
<1>4. PICK from \in [1 .. Len(substitute) -> 1 .. 3] :
        /\ Len(substitute) \in Nat
        /\ \A i \in 1 .. Len(substitute) : substitute[i] \in F[from[i]]
        /\ \A i, j \in 1 .. Len(substitute) :
              i # j /\ substitute[i] = substitute[j] => from[i] # from[j]
  <2>1. a \in Seq(F[1]) /\ b \in Seq(F[2]) /\ c \in Seq(F[3])
    BY <1>3, <1>f, Zenon
  <2>2. Len(substitute) \in Nat /\ Row(substitute, Len(substitute), F)
    BY <1>2, <1>3, <2>1, ThreeParts, Zenon
  <2> QED
    BY <2>2, Zenon DEF Row
<1>5. PICK m : m = Min({Len(offline), Len(substitute)})
  OBVIOUS
<1>6. m \in Nat /\ m <= Len(substitute)
  <2>1. Len(offline) \in Nat
    BY ElectionAssumption
  <2>2. PICK x \in Nat, y \in Nat : x = Len(offline) /\ y = Len(substitute)
    BY <1>4, <2>1
  <2>3. m = CHOOSE u \in {x, y} : \A v \in {x, y} : u =< v
    BY <1>5, <2>2 DEF Min
  <2>4. \E u \in {x, y} : \A v \in {x, y} : u =< v
    OBVIOUS
  <2>5. m \in {x, y} /\ \A v \in {x, y} : m =< v
    BY <2>3, <2>4
  <2> QED
    BY <2>2, <2>5
<1>7. DOMAIN change' = 1 .. m /\ \A i \in 1 .. m : change'[i].A = substitute[i]
  BY <1>1, <1>5
<1>8. \A i \in 1 .. m : i \in 1 .. Len(substitute)
  BY <1>4, <1>6
<1>9. \A i \in 1 .. m : change'[i].A \in Fresh(from[i]) /\ from[i] \in 1 .. 3
  <2> TAKE i \in 1 .. m
  <2>1. from[i] \in 1 .. 3 /\ substitute[i] \in F[from[i]]
    BY <1>4, <1>8
  <2> QED
    BY <1>7, <1>f, <2>1, Zenon
<1>10. primary' = primary
  BY DEF ToPoUpdate
<1>11. \A i \in DOMAIN change' : change'[i].A \notin ToSet(Topology)
  BY <1>7, <1>9 DEF Fresh
<1>12. ASSUME NEW i \in DOMAIN change', NEW j \in DOMAIN change', i # j,
              change'[i].A = change'[j].A
       PROVE  \E u, v \in 1 .. 3 : u # v /\ change'[i].A \in ToSet(primary[u]) \cap ToSet(primary[v])
  <2>1. from[i] # from[j]
    BY <1>4, <1>7, <1>8, <1>12
  <2>2. change'[i].A \in ToSet(primary[from[i]]) \cap ToSet(primary[from[j]])
    BY <1>7, <1>9, <1>12 DEF Fresh
  <2> QED
    BY <1>7, <1>9, <2>1, <2>2
<1> QED
  BY <1>10, <1>11, <1>12 DEF SubstitutesFresh

LEMMA OwnerStep == OwnerInv /\ [Next]_vars => OwnerInv'
<1> SUFFICES ASSUME OwnerInv, [Next]_vars
             PROVE  OwnerInv'
  OBVIOUS
<1>1. ASSUME UNCHANGED owner
      PROVE  OwnerInv'
  BY <1>1 DEF owner, OwnerInv, SubstitutesFresh
<1>2. ASSUME NEW node \in Nodes, NEW flag \in 0 .. 2, PrimarylistUpdate(node, flag)
      PROVE  OwnerInv'
  <2>1. /\ change' = change
        /\ primary' = [primary EXCEPT ![flag + 1] = IF flag = 0 THEN <<node>> \o primary[flag + 1]
                                                    ELSE Append(primary[flag + 1], node)]
    BY <1>2 DEF PrimarylistUpdate
  <2>2. PICK g \in 1 .. 3 : g = flag + 1
    OBVIOUS
  <2>3. PICK new : new = IF flag = 0 THEN <<node>> \o primary[g] ELSE Append(primary[g], node)
    OBVIOUS
  <2>4. primary[g] \in Seq(Nodes)
    BY DEF OwnerInv
  <2>5. new \in Seq(Nodes) /\ ToSet(primary[g]) \subseteq ToSet(new)
    BY <2>3, <2>4, ListGrows
  <2>6. primary' = [primary EXCEPT ![g] = new]
    BY <2>1, <2>2, <2>3
  <2>7. primary' \in [1 .. 3 -> Seq(Nodes)]
    BY <2>5, <2>6 DEF OwnerInv
  <2>8. \A m \in 1 .. 3 : ToSet(primary[m]) \subseteq ToSet(primary'[m])
    BY <2>5, <2>6 DEF OwnerInv
  <2>9. SubstitutesFresh'
    <3>1. \A i \in DOMAIN change : change[i].A \notin ToSet(Topology)
      BY DEF OwnerInv, SubstitutesFresh
    <3>2. ASSUME NEW i \in DOMAIN change, NEW j \in DOMAIN change, i # j, change[i].A = change[j].A
          PROVE  \E u, v \in 1 .. 3 :
                    u # v /\ change[i].A \in ToSet(primary'[u]) \cap ToSet(primary'[v])
      <4>1. PICK u \in 1 .. 3, v \in 1 .. 3 :
              u # v /\ change[i].A \in ToSet(primary[u]) \cap ToSet(primary[v])
        BY <3>2 DEF OwnerInv, SubstitutesFresh
      <4> QED
        BY <2>8, <4>1
    <3> QED
      BY <2>1, <3>1, <3>2 DEF SubstitutesFresh
  <2> QED
    BY <2>7, <2>9 DEF OwnerInv
<1>3. ASSUME NEW offline \in Offline, ToPoUpdate(offline)
      PROVE  OwnerInv'
  <2>1. SubstitutesFresh'
    BY <1>3, ToPoUpdateFresh
  <2> QED
    BY <1>3, <2>1 DEF ToPoUpdate, OwnerInv
<1>4. ASSUME NewEle \/ Sample \/ Reply \/ Select
      PROVE  UNCHANGED owner
  BY <1>4 DEF NewEle, Sample, Reply, Select
<1>5. ASSUME NEW q \in Requests, Request(q)
      PROVE  UNCHANGED owner
  BY <1>5 DEF Request
<1>6. ASSUME NEW k \in Kinds, Take(k) \/ PostAnswer(k)
      PROVE  UNCHANGED owner
  BY <1>6 DEF Take, PostAnswer
<1>7. CASE UNCHANGED vars
  BY <1>1, <1>7 DEF vars
<1> QED
  BY <1>1, <1>2, <1>3, <1>4, <1>5, <1>6, <1>7 DEF Next

\* A substitute is no node of the topology, and fills two places only if it is in
\* two of the primary lists, whatever order the maps are read in
\* (election/election.go, ToPoUpdate).
THEOREM SubstitutesAreFresh == Spec => []SubstitutesFresh
<1>1. Init => OwnerInv
  <2> SUFFICES ASSUME Init
               PROVE  OwnerInv
    OBVIOUS
  <2>1. primary \in [1 .. 3 -> Seq(Nodes)]
    <3>1. <<>> \in Seq(Nodes)
      OBVIOUS
    <3>2. DOMAIN primary = 1 .. 3 /\ primary = [i \in 1 .. 3 |-> primary[i]]
      BY DEF Init
    <3>3. primary[1] = <<>> /\ primary[2] = <<>> /\ primary[3] = <<>>
      BY DEF Init
    <3>4. \A i \in 1 .. 3 : i = 1 \/ i = 2 \/ i = 3
      OBVIOUS
    <3>5. \A i \in 1 .. 3 : primary[i] \in Seq(Nodes)
      BY <3>1, <3>3, <3>4, Zenon
    <3> QED
      BY <3>2, <3>5, Zenon
  <2>2. DOMAIN change = {}
    BY DEF Init
  <2> QED
    BY <2>1, <2>2 DEF OwnerInv, SubstitutesFresh
<1>2. OwnerInv => SubstitutesFresh
  BY DEF OwnerInv
<1> QED
  BY <1>1, <1>2, OwnerStep, PTL DEF Spec

-----------------------------------------------------------------------------
(* The fields of Identity.                                                 *)

\* ide is a record of the fields of newIde.
IsIde(i) ==
    i = [currentHeight |-> i.currentHeight, duration |-> i.duration,
         currentRole |-> i.currentRole, prvRole |-> i.prvRole, nextRole |-> i.nextRole,
         elect |-> i.elect, nextElect |-> i.nextElect, topology |-> i.topology,
         miners |-> i.miners]

\* The switch on the height touches neither the topology, nor the height, nor the
\* deposits (ca/ca.go, Start).
LEMMA ElectedKeeps ==
    ASSUME NEW i, IsIde(i), NEW n, NEW e
    PROVE  /\ IsIde(Elected(i, n, e))
           /\ Elected(i, n, e).topology = i.topology
  BY DEF Elected, IsIde

\* What the loop knows after it has followed a block (ca/ca.go, Start).
LEMMA FollowSets ==
    ASSUME NEW i, IsIde(i), NEW n, NEW e, NEW tp, NEW deposit
    PROVE  LET f == Follow(i, n, e, tp, deposit)
           IN  /\ IsIde(f)
               /\ f.currentHeight = n
               /\ f.topology = InitCurrentTopology(i.topology, tp)
               /\ f.miners = deposit
<1>1. PICK j : j = Elected(i, n, e)
  OBVIOUS
<1>2. IsIde(j) /\ j.topology = i.topology
  BY <1>1, ElectedKeeps
<1>3. PICK t, r : t = InitCurrentTopology(i.topology, tp)
                  /\ r = IF j.currentRole = RoleNil THEN RoleDefault ELSE j.currentRole
  OBVIOUS
<1>4. Follow(i, n, e, tp, deposit) =
        [j EXCEPT !.currentHeight = n, !.topology = t, !.currentRole = r, !.miners = deposit]
  BY <1>1, <1>2, <1>3 DEF Follow
<1> QED
  BY <1>2, <1>3, <1>4 DEF IsIde

-----------------------------------------------------------------------------
(* LedgerRight.                                                            *)

\* From the first full topology on, a running loop has the chain's topology at the
\* chain's height, and a process that is off has seen none.
LedgerInv ==
    /\ height \in Nat
    /\ IsIde(ide)
    /\ complete # None =>
          /\ pc # "off"
          /\ ide.currentHeight \in Nat
          /\ complete \in 1 .. ide.currentHeight
          /\ pc # "stopped" => ide.topology = chain /\ ide.currentHeight = height
    /\ LedgerRight

\* Every block from the first full topology on is stored with the topology of the
\* chain, wherever the process crashes (ca/ca.go, Start and setToLevelDB).
THEOREM LedgerIsRight == IdentitySpec => []LedgerRight
<1>1. IdentityInit => LedgerInv
  BY DEF IdentityInit, LedgerInv, LedgerRight, IsIde, newIde
<1>2. LedgerInv /\ [IdentityNext]_identityVars => LedgerInv'
  <2> SUFFICES ASSUME LedgerInv, [IdentityNext]_identityVars
               PROVE  LedgerInv'
    OBVIOUS
  <2> USE DEF LedgerInv
  <2>1. CASE Start
    BY <2>1 DEF Start, LedgerRight
  <2>2. CASE Crash
    BY <2>2 DEF Crash, LedgerRight, IsIde, newIde
  <2>3. ASSUME NEW e \in Elects, NEW tp \in NetTopologies, NEW deposit \in Deposits,
               NewBlock(e, tp, deposit)
        PROVE  LedgerInv'
    <3>1. CASE pc = "wait"
      <4>1. /\ pc' = "height"
            /\ height' = height + 1
            /\ ide' = Follow(ide, height', e, tp, deposit)
            /\ complete' = IF complete = None /\ tp.type = 0 THEN height' ELSE complete
            /\ chain' = InitCurrentTopology(chain, tp)
            /\ ldb' = ldb
        BY <2>3, <3>1 DEF NewBlock, InitCurrentTopology
      <4>2. /\ IsIde(ide') /\ ide'.currentHeight = height + 1
            /\ ide'.topology = InitCurrentTopology(ide.topology, tp)
        BY <4>1, FollowSets
      <4>3. complete' # None => ide'.topology = chain'
        BY <3>1, <4>1, <4>2 DEF InitCurrentTopology
      <4>4. complete' # None => complete' \in 1 .. ide'.currentHeight
        BY <3>1, <4>1, <4>2
      <4>5. LedgerRight'
        BY <3>1, <4>1, <4>2 DEF LedgerRight, None
      <4> QED
        BY <4>1, <4>2, <4>3, <4>4, <4>5
    <3>2. CASE pc # "wait"
      BY <2>3, <3>2 DEF NewBlock, LedgerRight
    <3> QED
      BY <3>1, <3>2
  <2>4. CASE SetToLevelDB
    <3>1. /\ IsIde(ide')
          /\ ide'.currentHeight = ide.currentHeight /\ ide'.topology = ide.topology
      BY <2>4 DEF SetToLevelDB, IsIde
    <3>2. LedgerRight'
      BY <2>4, <3>1 DEF SetToLevelDB, LedgerRight, Over
    <3> QED
      BY <2>4, <3>1, <3>2 DEF SetToLevelDB
  <2>5. CASE Publish
    BY <2>5 DEF Publish, LedgerRight
  <2>6. CASE StopIdentity \/ QuitIdentity
    BY <2>6 DEF StopIdentity, QuitIdentity, LedgerRight
  <2>7. CASE Handle \/ StopBuckets \/ QuitBuckets \/ UNCHANGED identityVars
    BY <2>7 DEF Handle, StopBuckets, QuitBuckets, identityVars, identity, LedgerRight
  <2> QED
    BY <2>1, <2>2, <2>3, <2>4, <2>5, <2>6, <2>7 DEF IdentityNext
<1>3. LedgerInv => LedgerRight
  BY DEF LedgerInv
<1> QED
  BY <1>1, <1>2, <1>3, PTL DEF IdentitySpec

-----------------------------------------------------------------------------
(* DialBound.                                                              *)

\* To dial nobody is within the bound.
LEMMA NoneDialled == ~(Cardinality({}) > MaxLink)
<1>1. Cardinality({}) = 0
  BY FS_EmptySet
<1> QED
  BY <1>1, BucketsAssumption

\* At most num of a finite set.
LEMMA AtMostBounded ==
    ASSUME NEW S, IsFiniteSet(S), NEW num \in Int, num <= MaxLink, NEW d \in AtMost(S, num)
    PROVE  ~(Cardinality(d) > MaxLink)
<1>1. d \in SUBSET S /\ Cardinality(d) <= num
  BY DEF AtMost
<1>2. Cardinality(d) \in Nat
  BY <1>1, FS_Subset, FS_CardinalityType
<1> QED
  BY <1>1, <1>2, BucketsAssumption

\* Every set that outer dials has at most MaxLink nodes: it is asked for no more
\* (p2p/buckets.go, outer).
LEMMA OuterBounded ==
    ASSUME NEW group, IsFiniteSet(group), NEW num \in Int, num <= MaxLink,
           NEW d \in Outer(group, num)
    PROVE  ~(Cardinality(d) > MaxLink)
<1>1. CASE num <= 0
  <2>1. Outer(group, num) = {{}}
    BY <1>1 DEF Outer
  <2> QED
    BY <2>1, NoneDialled
<1>2. CASE ~(num <= 0) /\ Cardinality(group) <= MaxLink
  <2>1. Outer(group, num) = {group}
    BY <1>2 DEF Outer
  <2>2. d = group /\ Cardinality(group) \in Nat
    BY <2>1, FS_CardinalityType
  <2> QED
    BY <1>2, <2>2, BucketsAssumption
<1>3. CASE ~(num <= 0) /\ ~(Cardinality(group) <= MaxLink)
  <2>1. Outer(group, num) = AtMost(group, num)
    BY <1>3 DEF Outer
  <2> QED
    BY <2>1, AtMostBounded
<1> QED
  BY <1>1, <1>2, <1>3

\* The same for the nodes of a bucket, unless bucket 1 is small enough for all of
\* bucket i to be taken (p2p/buckets.go, inner and randomInnerPeersByBucketNumber).
LEMMA InnerBounded ==
    ASSUME NEW ms, IsFiniteSet(ms), NEW num \in Int, num <= MaxLink, NEW i,
           NEW d \in Inner(ms, num, i), Cardinality(d) > MaxLink
    PROVE  /\ d = InBucket(ms, i)
           /\ Cardinality(InBucket(ms, 1)) \in 1 .. MaxLink
<1>1. IsFiniteSet(InBucket(ms, 1)) /\ IsFiniteSet(InBucket(ms, i))
  <2>1. InBucket(ms, 1) \subseteq ms /\ InBucket(ms, i) \subseteq ms
    BY DEF InBucket
  <2> QED
    BY <2>1, FS_Subset
<1>2. Cardinality(InBucket(ms, 1)) \in Nat
  BY <1>1, FS_CardinalityType
<1>3. d # {}
  BY NoneDialled
<1>4. ~(num <= 0) /\ d \in RandomInnerPeers(ms, num, i)
  BY <1>3 DEF Inner
<1>5. Cardinality(InBucket(ms, 1)) # 0
  BY <1>3, <1>4 DEF RandomInnerPeers
<1>6. CASE Cardinality(InBucket(ms, 1)) <= MaxLink
  BY <1>2, <1>4, <1>5, <1>6, BucketsAssumption DEF RandomInnerPeers
<1>7. CASE ~(Cardinality(InBucket(ms, 1)) <= MaxLink)
  <2>1. RandomInnerPeers(ms, num, i) = AtMost(InBucket(ms, i), num)
    BY <1>5, <1>7 DEF RandomInnerPeers
  <2> QED
    BY <1>1, <1>4, <2>1, AtMostBounded
<1> QED
  BY <1>6, <1>7

\* What a node is asked to dial is never more than MaxLink.
LEMMA AskedFor ==
    ASSUME NEW a \in Nat, NEW b \in Nat
    PROVE  Least(MaxLink, a) - b \in Int /\ Least(MaxLink, a) - b <= MaxLink
  BY BucketsAssumption DEF Least

\* The whole of Dials: only a node outside the buckets may dial more than MaxLink
\* (p2p/buckets.go, Start, maintainOuter, linkBucketPeer and maintainInner).
LEMMA DialsBounded ==
    ASSUME NEW h, h.ms \subseteq Accounts, IsFiniteSet(MinerGroup), NEW peers \in SUBSET Accounts,
           NEW d \in Dials(h, peers), Cardinality(d) > MaxLink
    PROVE  /\ h.role # RoleBucket
           /\ d = InBucket(h.ms, 0)
           /\ Cardinality(InBucket(h.ms, 1)) \in 1 .. MaxLink
<1>1. IsFiniteSet(h.ms) /\ IsFiniteSet(peers) /\ Cardinality(h.ms) \in Nat
  BY FS_Subset, FS_CardinalityType, BucketsAssumption
<1>2. d # {}
  BY NoneDialled
<1>3. \A i : Cardinality(InBucket(h.ms, i)) \in Nat
  <2> TAKE i
  <2>1. InBucket(h.ms, i) \subseteq h.ms
    BY DEF InBucket
  <2> QED
    BY <1>1, <2>1, FS_Subset, FS_CardinalityType
<1>4. CASE Cardinality(h.ms) <= Small
  <2>1. Dials(h, peers) = MaintainOuter(MinerGroup, peers)
    BY <1>4 DEF Dials
  <2>2. PICK count \in Nat : count = Cardinality(peers \cap MinerGroup)
    BY <1>1, FS_Intersection, FS_CardinalityType
  <2>3. d \in Outer(MinerGroup, Least(MaxLink, Cardinality(MinerGroup)) - count)
    BY <1>2, <2>1, <2>2 DEF MaintainOuter
  <2>4. Cardinality(MinerGroup) \in Nat
    BY FS_CardinalityType
  <2> QED
    BY <2>2, <2>3, <2>4, AskedFor, OuterBounded
<1>5. CASE ~(Cardinality(h.ms) <= Small) /\ h.role # RoleBucket
  <2>1. Dials(h, peers) = LinkBucketPeer(h.ms, peers)
    BY <1>5 DEF Dials
  <2> DEFINE own == {n \in peers : BucketOf[n] = BucketOf[Self]}
  <2>2. Cardinality(own) \in Nat
    <3>1. own \subseteq peers
      OBVIOUS
    <3> QED
      BY <1>1, <3>1, FS_Subset, FS_CardinalityType
  <2>3. d \in Inner(h.ms,
                    Least(MaxLink, Cardinality(InBucket(h.ms, BucketOf[Self]))) - Cardinality(own), 0)
    BY <1>2, <2>1 DEF LinkBucketPeer
  <2> HIDE DEF own
  <2>4. \A m : m = Least(MaxLink, Cardinality(InBucket(h.ms, BucketOf[Self]))) - Cardinality(own) =>
              m \in Int /\ m <= MaxLink
    BY <1>3, <2>2, AskedFor
  <2> QED
    BY <1>1, <1>5, <2>3, <2>4, InnerBounded
<1>6. CASE ~(Cardinality(h.ms) <= Small) /\ ~(h.role # RoleBucket)
  <2>1. Dials(h, peers) = MaintainInner(h.ms)
    BY <1>6 DEF Dials
  <2>2. PICK m : m = Least(MaxLink, Cardinality(InBucket(h.ms, 1)))
    OBVIOUS
  <2>3. d \in Inner(h.ms, m, 1)
    BY <2>1, <2>2 DEF MaintainInner
  <2>4. m \in Int /\ m <= MaxLink
    BY <1>3, <2>2, BucketsAssumption DEF Least
  <2>5. d = InBucket(h.ms, 1) /\ Cardinality(InBucket(h.ms, 1)) \in 1 .. MaxLink
    BY <1>1, <2>3, <2>4, InnerBounded
  <2> QED
    BY <2>5, BucketsAssumption
<1> QED
  BY <1>4, <1>5, <1>6

\* The nodes that the buckets hear of are accounts.
DialInv ==
    /\ IsIde(ide)
    /\ ide.miners \subseteq Accounts
    /\ message.ms \subseteq Accounts
    /\ DialBound

\* For one message a node dials at most MaxLink nodes, or, outside the buckets, all
\* of bucket 0 when bucket 1 is small (p2p/buckets.go, Start).
THEOREM DialsAreBounded == IdentitySpec => []DialBound
<1>1. IdentityInit => DialInv
  BY NoneDialled DEF IdentityInit, DialInv, DialBound, IsIde, newIde, NoMessage, NewBucket
<1>2. DialInv /\ [IdentityNext]_identityVars => DialInv'
  <2> SUFFICES ASSUME DialInv, [IdentityNext]_identityVars
               PROVE  DialInv'
    OBVIOUS
  <2> USE DEF DialInv
  <2>1. CASE Start \/ StopIdentity \/ QuitIdentity \/ StopBuckets \/ QuitBuckets \/ UNCHANGED identityVars
    BY <2>1 DEF Start, StopIdentity, QuitIdentity, StopBuckets, QuitBuckets, identityVars, identity,
                buckets, DialBound
  <2>2. CASE Crash
    BY <2>2, NoneDialled DEF Crash, DialBound, IsIde, newIde, NoMessage, NewBucket
  <2>3. ASSUME NEW e \in Elects, NEW tp \in NetTopologies, NEW deposit \in Deposits,
               NewBlock(e, tp, deposit)
        PROVE  DialInv'
    <3>1. IsIde(ide') /\ ide'.miners \subseteq Accounts
      <4>1. CASE pc = "wait"
        <5>1. ide' = Follow(ide, height', e, tp, deposit)
          BY <2>3, <4>1 DEF NewBlock
        <5>2. IsIde(ide') /\ ide'.miners = deposit
          BY <5>1, FollowSets
        <5> QED
          BY <5>2, BucketsAssumption
      <4>2. CASE pc # "wait"
        BY <2>3, <4>2 DEF NewBlock
      <4> QED
        BY <4>1, <4>2
    <3> QED
      BY <2>3, <3>1 DEF NewBlock, buckets, DialBound
  <2>4. CASE SetToLevelDB
    <3>1. IsIde(ide') /\ ide'.miners = ide.miners
      BY <2>4 DEF SetToLevelDB, IsIde
    <3> QED
      BY <2>4, <3>1 DEF SetToLevelDB, buckets, DialBound
  <2>5. CASE Publish
    BY <2>5 DEF Publish, NodesInBuckets, DialBound
  <2>6. CASE Handle
    <3>1. DialBound'
      <4>1. CASE message.role > RoleBucket
        BY <2>6, <4>1 DEF Handle, DialBound
      <4>2. CASE ~(message.role > RoleBucket)
        <5>1. PICK peers \in SUBSET (Accounts \ {Self}) : \E d \in Dials(message, peers) :
                bucket' = [role |-> message.role, ids |-> message.ms, dialled |-> d]
          BY <2>6, <4>2 DEF Handle
        <5>d. PICK d \in Dials(message, peers) :
                bucket' = [role |-> message.role, ids |-> message.ms, dialled |-> d]
          BY <5>1
        <5>2. IsFiniteSet(MinerGroup)
          <6> DEFINE S == DOMAIN ide.topology \cap MinerPositions
                     f == [p \in S |-> ide.topology[p]]
          <6>1. IsFiniteSet(S)
            BY FS_Intersection, BucketsAssumption
          <6>2. f \in Surjection(S, MinerGroup)
            <7>1. f \in [S -> MinerGroup] /\ \A t \in MinerGroup : \E p \in S : f[p] = t
              BY DEF MinerGroup
            <7> QED
              BY <7>1, Fun_IsSurj
          <6> QED
            BY <6>1, <6>2, FS_Surjection
        <5>3. peers \in SUBSET Accounts
          BY <5>1
        <5>4. Cardinality(d) > MaxLink =>
                /\ message.role # RoleBucket
                /\ d = InBucket(message.ms, 0)
                /\ Cardinality(InBucket(message.ms, 1)) \in 1 .. MaxLink
          BY <5>d, <5>2, <5>3, DialsBounded
        <5> QED
          BY <5>d, <5>4 DEF DialBound
      <4> QED
        BY <4>1, <4>2
    <3> QED
      BY <2>6, <3>1 DEF Handle, identity
  <2> QED
    BY <2>1, <2>2, <2>3, <2>4, <2>5, <2>6 DEF IdentityNext
<1>3. DialInv => DialBound
  BY DEF DialInv
<1> QED
  BY <1>1, <1>2, <1>3, PTL DEF IdentitySpec
=============================================================================
