-------------------------- MODULE ContainersProofs --------------------------
(***************************************************************************)
(* Theorems about the structures of Containers, each under any sequence of *)
(* calls, for any keys, sizes and words.                                   *)
(***************************************************************************)
EXTENDS Containers, FiniteSetTheorems, WellFoundedInduction, TLAPS

-----------------------------------------------------------------------------
(* Numbers, and how often a value is in an array.                          *)

LEMMA LeastNumber ==
  ASSUME NEW T, T \subseteq Nat, T # {}
  PROVE  \E n \in T : \A m \in T : n <= m
<1> DEFINE Less == OpToRel(<, Nat)
<1>1. Less = {p \in Nat \X Nat : p[1] < p[2]}
  BY DEF OpToRel
<1>2. IsWellFoundedOn(Less, Nat)
  BY NatLessThanWellFounded
<1> HIDE DEF Less
<1>3. PICK n \in T : \A m \in T : ~ (<<m, n>> \in Less)
  BY <1>2, WFMin
<1>4. ASSUME NEW m \in T, m < n
      PROVE  FALSE
  <2>1. PICK p : p = <<m, n>>
    OBVIOUS
  <2>2. p \in Nat \X Nat /\ p[1] < p[2]
    BY <1>4, <2>1
  <2>3. p \in Less
    BY <1>1, <2>2
  <2> QED
    BY <1>3, <2>1, <2>3
<1> QED
  BY <1>4

Places(f, D, v) == {p \in D : f[p] = v}

\* g is f with the elements at a and b exchanged.
Exchanged(f, g, D, a, b) ==
  g[a] = f[b] /\ g[b] = f[a] /\ \A p \in D \ {a, b} : g[p] = f[p]

LEMMA PlacesFinite ==
  ASSUME NEW D, IsFiniteSet(D), NEW f, NEW v
  PROVE  /\ IsFiniteSet(Places(f, D, v))
         /\ Cardinality(Places(f, D, v)) \in Nat
<1>1. Places(f, D, v) \in SUBSET D
  BY DEF Places
<1>2. IsFiniteSet(Places(f, D, v))
  BY <1>1, FS_Subset
<1> QED
  BY <1>2, FS_CardinalityType

\* Two elements that change places stay as many as they are.
LEMMA SwapKeepsCounts ==
  ASSUME NEW D, IsFiniteSet(D), NEW f, NEW g, NEW a \in D, NEW b \in D, NEW v,
         Exchanged(f, g, D, a, b)
  PROVE  Cardinality(Places(g, D, v)) = Cardinality(Places(f, D, v))
<1> USE DEF Exchanged
<1>1. CASE f[a] = f[b]
  <2>1. Places(g, D, v) = Places(f, D, v)
    BY <1>1 DEF Places
  <2> QED
    BY <2>1
<1>2. ASSUME NEW c \in D, NEW d \in D, {c, d} = {a, b}, f[c] = v, f[d] # v
      PROVE  Cardinality(Places(g, D, v)) = Cardinality(Places(f, D, v))
  <2>1. PICK S : S = Places(f, D, v) \ {c}
    OBVIOUS
  <2>2. Places(g, D, v) = S \cup {d} /\ d \notin S
    BY <1>2, <2>1 DEF Places
  <2>3. IsFiniteSet(Places(f, D, v)) /\ Cardinality(Places(f, D, v)) \in Nat
    BY PlacesFinite
  <2>4. c \in Places(f, D, v)
    BY <1>2 DEF Places
  <2>5. IsFiniteSet(S) /\ Cardinality(S) = Cardinality(Places(f, D, v)) - 1
    BY <2>1, <2>3, <2>4, FS_RemoveElement
  <2>6. Cardinality(S \cup {d}) = Cardinality(S) + 1
    BY <2>2, <2>5, FS_AddElement
  <2> QED
    BY <2>2, <2>3, <2>5, <2>6
<1>3. CASE f[a] # v /\ f[b] # v
  <2>1. Places(g, D, v) = Places(f, D, v)
    BY <1>3 DEF Places
  <2> QED
    BY <2>1
<1> QED
  BY <1>1, <1>2, <1>3

-----------------------------------------------------------------------------
(* The heap                                                                *)

HeapSpec == Heap!Init /\ [][Heap!Next]_heapVars

\* Ordered, of an array h of n elements whose element at p is on its way
OrderedBut(h, n, at, p) ==
  \A j \in 2 .. n :
    /\ h[j \div 2] <= h[j] \/ (at = "up" /\ j = p) \/ (at = "down" /\ j \div 2 = p)
    /\ j \div 2 = p /\ p > 1 => h[p \div 2] <= h[j]

\* An element that changes places with its parent leaves the order as SiftUp needs it.
LEMMA RisingKeepsOrder ==
  ASSUME NEW n \in Nat, NEW h \in [1 .. n -> Int], NEW g \in [1 .. n -> Int],
         NEW p \in 2 .. n, OrderedBut(h, n, "up", p), h[p \div 2] > h[p],
         Exchanged(h, g, 1 .. n, p, p \div 2)
  PROVE  OrderedBut(g, n, "up", p \div 2)
<1>1. PICK q \in 1 .. n : q = p \div 2 /\ q < p
  OBVIOUS
<1>2. g[p] = h[q] /\ g[q] = h[p] /\ h[q] > h[p] /\ \A j \in (1 .. n) \ {p, q} : g[j] = h[j]
  BY <1>1 DEF Exchanged
<1>3. \A j \in 2 .. n : j # p => h[j \div 2] <= h[j]
  BY DEF OrderedBut
<1>4. \A j \in 2 .. n : j \div 2 = p => h[q] <= h[j]
  BY <1>1 DEF OrderedBut
<1>5. ASSUME NEW j \in 2 .. n, j # q
      PROVE  g[j \div 2] <= g[j]
  <2>1. PICK k \in 1 .. n : k = j \div 2 /\ k < j
    OBVIOUS
  <2>2. h[k] \in Int /\ h[j] \in Int /\ h[p] \in Int /\ h[q] \in Int
    BY <1>1, <2>1
  <2>3. CASE j = p
    BY <1>1, <1>2, <2>1, <2>2, <2>3
  <2>4. CASE j # p /\ k = p
    <3>1. g[j] = h[j] /\ g[k] = h[q]
      BY <1>2, <1>5, <2>4
    <3> QED
      BY <1>4, <2>1, <2>4, <3>1
  <2>5. CASE j # p /\ k = q
    <3>1. g[j] = h[j] /\ g[k] = h[p]
      BY <1>2, <1>5, <2>5
    <3>2. h[j \div 2] <= h[j]
      BY <1>3, <2>5
    <3> QED
      BY <1>2, <2>1, <2>2, <2>5, <3>1, <3>2
  <2>6. CASE j # p /\ k # p /\ k # q
    <3>1. g[j] = h[j] /\ g[k] = h[k]
      BY <1>2, <1>5, <2>6
    <3>2. h[j \div 2] <= h[j]
      BY <1>3, <2>6
    <3> QED
      BY <2>1, <3>1, <3>2
  <2> QED
    BY <2>3, <2>4, <2>5, <2>6
<1>6. ASSUME NEW j \in 2 .. n, j \div 2 = q, q > 1
      PROVE  g[q \div 2] <= g[j]
  <2>1. PICK r \in 1 .. n : r = q \div 2 /\ r < q
    BY <1>6
  <2>2. h[r] \in Int /\ h[j] \in Int /\ h[q] \in Int /\ j > q
    BY <1>1, <1>6, <2>1
  <2>3. g[r] = h[r]
    BY <1>1, <1>2, <2>1
  <2>4. h[r] <= h[q]
    <3>1. q \in 2 .. n /\ q # p
      BY <1>1, <1>6
    <3>2. h[q \div 2] <= h[q]
      BY <1>3, <3>1
    <3> QED
      BY <2>1, <3>2
  <2>5. CASE j = p
    BY <1>2, <2>1, <2>2, <2>3, <2>4, <2>5
  <2>6. CASE j # p
    <3>1. h[j \div 2] <= h[j]
      BY <1>3, <2>6
    <3>2. g[j] = h[j] /\ h[q] <= h[j]
      BY <1>2, <1>6, <2>2, <2>6, <3>1
    <3> QED
      BY <2>1, <2>2, <2>3, <2>4, <3>2
  <2> QED
    BY <2>5, <2>6
<1> QED
  BY <1>1, <1>5, <1>6 DEF OrderedBut

\* An element that changes places with the smaller child leaves the order as MinHeapify
\* needs it.
LEMMA SinkingKeepsOrder ==
  ASSUME NEW n \in Nat, NEW h \in [1 .. n -> Int], NEW g \in [1 .. n -> Int],
         NEW p \in 1 .. n, NEW s \in 2 .. n, s \div 2 = p, OrderedBut(h, n, "down", p),
         \A j \in 2 .. n : j \div 2 = p => h[s] <= h[j],
         h[s] < h[p], Exchanged(h, g, 1 .. n, p, s)
  PROVE  OrderedBut(g, n, "down", s)
<1> USE DEF Exchanged
<1>1. p < s
  OBVIOUS
<1>2. \A j \in 2 .. n : j \div 2 # p => h[j \div 2] <= h[j]
  BY DEF OrderedBut
<1>3. p > 1 => h[p \div 2] <= h[s]
  BY DEF OrderedBut
<1>4. ASSUME NEW j \in 2 .. n, j \div 2 # s
      PROVE  g[j \div 2] <= g[j]
  <2>1. PICK k \in 1 .. n : k = j \div 2 /\ k < j
    OBVIOUS
  <2>2. h[k] \in Int /\ h[j] \in Int /\ h[p] \in Int /\ h[s] \in Int
    BY <2>1
  <2>3. CASE j = s
    BY <1>1, <2>1, <2>2, <2>3
  <2>4. CASE j = p
    <3>1. g[j] = h[s] /\ g[k] = h[k] /\ h[k] <= h[s]
      BY <1>1, <1>3, <2>1, <2>4
    <3> QED
      BY <2>1, <3>1
  <2>5. CASE j # s /\ j # p /\ k = p
    <3>1. g[j] = h[j] /\ g[k] = h[s] /\ h[s] <= h[j]
      BY <2>1, <2>5
    <3> QED
      BY <2>1, <3>1
  <2>6. CASE j # s /\ j # p /\ k # p
    <3>1. h[j \div 2] <= h[j]
      BY <1>2, <2>1, <2>6
    <3>2. g[j] = h[j] /\ g[k] = h[k]
      BY <1>4, <2>1, <2>6
    <3> QED
      BY <2>1, <3>1, <3>2
  <2> QED
    BY <2>3, <2>4, <2>5, <2>6
<1>5. ASSUME NEW j \in 2 .. n, j \div 2 = s
      PROVE  g[s \div 2] <= g[j]
  <2>1. j > s
    BY <1>5
  <2>2. g[j] = h[j] /\ g[p] = h[s]
    <3>1. j \in 1 .. n /\ j # p /\ j # s
      BY <1>1, <2>1
    <3> QED
      BY <3>1
  <2>3. h[j \div 2] <= h[j]
    BY <1>1, <1>2, <1>5
  <2> QED
    BY <1>5, <2>2, <2>3
<1> QED
  BY <1>4, <1>5 DEF OrderedBut

\* The root of a heap that is in order is its least element.
LEMMA RootIsLeast ==
  ASSUME NEW n \in Nat, NEW h \in [1 .. n -> Int], OrderedBut(h, n, "idle", 0)
  PROVE  \A j \in 1 .. n : h[1] <= h[j]
<1> DEFINE T == {j \in 1 .. n : ~ (h[1] <= h[j])}
<1>1. \A j \in 2 .. n : h[j \div 2] <= h[j]
  BY DEF OrderedBut
<1>2. ASSUME T # {}
      PROVE  FALSE
  <2>1. T \subseteq Nat
    OBVIOUS
  <2>2. PICK m \in T : \A j \in T : m <= j
    BY <1>2, <2>1, LeastNumber
  <2>3. m \in 2 .. n
    BY <2>2
  <2>4. PICK k \in 1 .. n : k = m \div 2 /\ k < m
    BY <2>3
  <2>5. h[k] <= h[m] /\ h[1] <= h[k]
    BY <1>1, <2>2, <2>3, <2>4
  <2> QED
    BY <2>2, <2>3, <2>4, <2>5
<1> QED
  BY <1>2

\* The counts of IsPriorityQueue: content[k] is how often k is in the array h of n elements.
Counted(h, n, c) == \A k \in HeapKey : Cardinality(Places(h, 1 .. n, k)) = c[k]

\* What IsPriorityQueue says of a heap of n elements
HeapGood(h, n, at, p, c) ==
  /\ n \in Nat /\ n <= HeapCapacity /\ h \in [1 .. n -> HeapKey]
  /\ at \in {"idle", "up", "down"} /\ p \in 0 .. n /\ (at = "idle" <=> p = 0)
  /\ c \in [HeapKey -> Nat] /\ Counted(h, n, c)
  /\ OrderedBut(h, n, at, p)

LEMMA HeapCounts ==
  ASSUME NEW S
  PROVE  Heap!Cardinality(S) = Cardinality(S)
  BY DEF Heap!Cardinality, Cardinality

HeapInv == harr \in Seq(HeapKey) /\ HeapGood(harr, Len(harr), heapPc, heapI, content)

LEMMA HeapParts == HeapIsPriorityQueue <=> HeapInv
<1>1. Heap!Ordered <=> OrderedBut(harr, Len(harr), heapPc, heapI)
  BY DEF Heap!Ordered, Heap!parent, OrderedBut
<1>2. ASSUME harr \in Seq(HeapKey)
      PROVE  Counted(harr, Len(harr), content)
               <=> \A k \in HeapKey :
                     Heap!Cardinality({j \in DOMAIN harr : harr[j] = k}) = content[k]
  <2>1. DOMAIN harr = 1 .. Len(harr)
    BY <1>2
  <2>2. ASSUME NEW k \in HeapKey
        PROVE  Heap!Cardinality({j \in DOMAIN harr : harr[j] = k})
                 = Cardinality(Places(harr, 1 .. Len(harr), k))
    BY <2>1, HeapCounts DEF Places
  <2> QED
    BY <2>2 DEF Counted
<1> QED
  BY <1>1, <1>2
     DEF HeapInv, HeapGood, HeapIsPriorityQueue, Heap!TypeOK, Heap!IsPriorityQueue


LEMMA HeapInitCorrect ==
  ASSUME Heap!Init
  PROVE  HeapInv
<1>1. harr = <<>> /\ heapPc = "idle" /\ heapI = 0 /\ content = [k \in HeapKey |-> 0]
  BY DEF Heap!Init
<1>2. harr \in Seq(HeapKey) /\ Len(harr) = 0
  BY <1>1
<1>3. Counted(harr, Len(harr), content)
  <2>1. ASSUME NEW k \in HeapKey
        PROVE  Cardinality(Places(harr, 1 .. Len(harr), k)) = content[k]
    <3>1. Places(harr, 1 .. Len(harr), k) = {}
      BY <1>2 DEF Places
    <3> QED
      BY <1>1, <3>1, FS_EmptySet
  <2> QED
    BY <2>1 DEF Counted
<1>4. OrderedBut(harr, Len(harr), heapPc, heapI)
  BY <1>2 DEF OrderedBut
<1>5. HeapCapacity \in Nat
  BY ContainersAssumption
<1> QED
  BY <1>1, <1>2, <1>3, <1>4, <1>5 DEF HeapInv, HeapGood

LEMMA SwapSteps ==
  ASSUME HeapInv, NEW a \in 1 .. Len(harr), NEW b \in 1 .. Len(harr), a # b,
         harr' = Heap!Swapped(a, b), content' = content
  PROVE  /\ harr' \in Seq(HeapKey) /\ Len(harr') = Len(harr)
         /\ Exchanged(harr, harr', 1 .. Len(harr), a, b)
         /\ Counted(harr', Len(harr'), content')
<1>1. PICK n \in Nat : n = Len(harr)
  BY DEF HeapInv, HeapGood
<1>2. harr \in [1 .. n -> HeapKey]
  BY <1>1 DEF HeapInv, HeapGood
<1>3. harr' = [harr EXCEPT ![a] = harr[b], ![b] = harr[a]]
  BY DEF Heap!Swapped
<1>4. harr' \in [1 .. n -> HeapKey]
  BY <1>1, <1>2, <1>3
<1>5. harr' \in Seq(HeapKey) /\ Len(harr') = n
  BY <1>4
<1>6. Exchanged(harr, harr', 1 .. n, a, b)
  BY <1>1, <1>2, <1>3 DEF Exchanged
<1>7. ASSUME NEW k \in HeapKey
      PROVE  Cardinality(Places(harr', 1 .. n, k)) = content'[k]
  <2>1. IsFiniteSet(1 .. n)
    BY FS_Interval
  <2>2. PICK D, f, g : D = 1 .. n /\ f = harr /\ g = harr'
    OBVIOUS
  <2>3. a \in D /\ b \in D /\ IsFiniteSet(D) /\ Exchanged(f, g, D, a, b)
    BY <1>1, <1>6, <2>1, <2>2
  <2>4. Cardinality(Places(g, D, k)) = Cardinality(Places(f, D, k))
    BY <2>3, SwapKeepsCounts
  <2> QED
    BY <1>1, <2>2, <2>4 DEF HeapInv, HeapGood, Counted
<1> QED
  BY <1>1, <1>5, <1>6, <1>7 DEF Counted

LEMMA PushKeepsHeap ==
  ASSUME HeapInv, NEW k \in HeapKey, Heap!Push(k)
  PROVE  HeapInv'
<1>1. CASE UNCHANGED Heap!heapVars
  BY <1>1 DEF Heap!heapVars, HeapInv
<1>2. CASE ~ UNCHANGED Heap!heapVars
  <2>1. PICK n \in Nat : n = Len(harr)
    BY DEF HeapInv, HeapGood
  <2>2. /\ heapPc = "idle" /\ n # HeapCapacity
        /\ harr' = Append(harr, k) /\ content' = [content EXCEPT ![k] = @ + 1]
        /\ heapI' = n + 1 /\ heapPc' = "up"
    BY <1>2, <2>1 DEF Heap!Push
  <2>3. /\ harr \in Seq(HeapKey) /\ harr \in [1 .. n -> HeapKey] /\ n <= HeapCapacity
        /\ content \in [HeapKey -> Nat]
        /\ Counted(harr, n, content) /\ OrderedBut(harr, n, "idle", 0) /\ heapI = 0
    BY <2>1, <2>2 DEF HeapInv, HeapGood
  <2>4. harr' \in Seq(HeapKey) /\ Len(harr') = n + 1 /\ harr'[n + 1] = k
    BY <2>1, <2>2, <2>3
  <2>5. \A j \in 1 .. n : harr'[j] = harr[j]
    BY <2>1, <2>2, <2>3
  <2>6. harr' \in [1 .. n + 1 -> HeapKey]
    BY <2>4
  <2>7. OrderedBut(harr', n + 1, "up", n + 1)
    BY <2>3, <2>5 DEF OrderedBut
  <2>8. ASSUME NEW m \in HeapKey
        PROVE  Cardinality(Places(harr', 1 .. n + 1, m)) = content'[m]
    <3>1. PICK S : S = Places(harr, 1 .. n, m)
      OBVIOUS
    <3>2. IsFiniteSet(S) /\ Cardinality(S) = content[m]
      <4>1. IsFiniteSet(1 .. n)
        BY FS_Interval
      <4> QED
        BY <2>3, <3>1, <4>1, PlacesFinite DEF Counted
    <3>3. n + 1 \notin S
      BY <3>1 DEF Places
    <3>4. CASE m = k
      <4>1. Places(harr', 1 .. n + 1, m) = S \cup {n + 1}
        BY <2>4, <2>5, <3>1, <3>4 DEF Places
      <4>2. Cardinality(S \cup {n + 1}) = Cardinality(S) + 1
        BY <3>2, <3>3, FS_AddElement
      <4> QED
        BY <2>2, <2>3, <3>2, <3>4, <4>1, <4>2
    <3>5. CASE m # k
      <4>1. Places(harr', 1 .. n + 1, m) = S
        BY <2>4, <2>5, <3>1, <3>5 DEF Places
      <4> QED
        BY <2>2, <2>3, <3>2, <3>5, <4>1
    <3> QED
      BY <3>4, <3>5
  <2>9. content' \in [HeapKey -> Nat] /\ n + 1 <= HeapCapacity
    BY <2>2, <2>3, ContainersAssumption
  <2> QED
    BY <2>1, <2>2, <2>4, <2>6, <2>7, <2>8, <2>9 DEF HeapInv, HeapGood, Counted
<1> QED
  BY <1>1, <1>2

LEMMA SiftUpKeepsHeap ==
  ASSUME HeapInv, Heap!SiftUp
  PROVE  HeapInv'
<1>1. PICK n, p : n = Len(harr) /\ p = heapI
  OBVIOUS
<1>2. n \in Nat /\ p \in 0 .. n
  BY <1>1 DEF HeapInv, HeapGood
<1>3. /\ heapPc = "up" /\ p \in 1 .. n /\ harr \in Seq(HeapKey) /\ harr \in [1 .. n -> HeapKey]
      /\ n <= HeapCapacity /\ content \in [HeapKey -> Nat]
      /\ Counted(harr, n, content) /\ OrderedBut(harr, n, "up", p)
  BY <1>1, <1>2 DEF Heap!SiftUp, HeapInv, HeapGood
<1>4. \A j \in 1 .. n : harr[j] \in Int
  BY <1>3, ContainersAssumption
<1>5. CASE Heap!Above
  <2>1. PICK q \in 1 .. n : q = p \div 2 /\ q < p /\ p \in 2 .. n
    BY <1>1, <1>3, <1>5 DEF Heap!Above
  <2>2. harr[q] > harr[p]
    BY <1>1, <1>5, <2>1 DEF Heap!Above, Heap!parent
  <2>3. harr' = Heap!Swapped(p, q) /\ heapI' = q /\ heapPc' = "up" /\ content' = content
    BY <1>1, <1>5, <2>1 DEF Heap!SiftUp, Heap!parent
  <2>4. /\ harr' \in Seq(HeapKey) /\ Len(harr') = n
        /\ Exchanged(harr, harr', 1 .. n, p, q)
        /\ Counted(harr', n, content')
    BY <1>1, <2>1, <2>3, SwapSteps
  <2>5. harr' \in [1 .. n -> HeapKey]
    BY <2>4
  <2>6. PICK h \in [1 .. n -> Int], g \in [1 .. n -> Int] : h = harr /\ g = harr'
    BY <1>3, <2>5, ContainersAssumption
  <2>7. OrderedBut(g, n, "up", q)
    <3>1. /\ OrderedBut(h, n, "up", p) /\ Exchanged(h, g, 1 .. n, p, p \div 2)
          /\ h[p \div 2] > h[p] /\ p \in 2 .. n
      BY <1>3, <2>1, <2>2, <2>4, <2>6
    <3>2. OrderedBut(g, n, "up", p \div 2)
      BY <1>2, <3>1, RisingKeepsOrder
    <3> QED
      BY <2>1, <3>2
  <2>8. OrderedBut(harr', n, "up", q)
    BY <2>6, <2>7
  <2>9. Len(harr') = n /\ HeapGood(harr', n, heapPc', heapI', content')
    <3>1. /\ n \in Nat /\ n <= HeapCapacity /\ heapPc' = "up" /\ heapI' \in 1 .. n
          /\ content' \in [HeapKey -> Nat]
      BY <1>2, <1>3, <2>1, <2>3
    <3> QED
      BY <2>3, <2>4, <2>5, <2>8, <3>1 DEF HeapGood
  <2> QED
    BY <2>4, <2>9 DEF HeapInv
<1>6. CASE ~ Heap!Above
  <2>1. harr' = harr /\ heapI' = 0 /\ heapPc' = "idle" /\ content' = content
    BY <1>6 DEF Heap!SiftUp
  <2>2. p = 1 \/ harr[p \div 2] <= harr[p]
    <3>1. p = 1 \/ (p \div 2 \in 1 .. n)
      BY <1>2, <1>3
    <3> QED
      BY <1>1, <1>3, <1>4, <1>6, <3>1 DEF Heap!Above, Heap!parent
  <2>3. OrderedBut(harr, n, "idle", 0)
    BY <1>3, <2>2 DEF OrderedBut
  <2> QED
    BY <1>1, <1>2, <1>3, <2>1, <2>3 DEF HeapInv, HeapGood
<1> QED
  BY <1>5, <1>6

\* The least key that the counts know of is at the root.
LEMMA LeastIsRoot ==
  ASSUME HeapInv, heapPc = "idle", Len(harr) # 0
  PROVE  Heap!Least = harr[1] /\ harr[1] \in HeapKey
<1>1. PICK n, h : n = Len(harr) /\ h = harr
  OBVIOUS
<1>2. /\ n \in Nat \ {0} /\ h \in [1 .. n -> HeapKey] /\ content \in [HeapKey -> Nat]
      /\ Counted(h, n, content) /\ OrderedBut(h, n, "idle", 0)
  BY <1>1 DEF HeapInv, HeapGood
<1>3. \A j \in 1 .. n : h[1] <= h[j]
  BY <1>2, RootIsLeast, ContainersAssumption
<1>4. ASSUME NEW k \in HeapKey
      PROVE  content[k] > 0 <=> \E j \in 1 .. n : h[j] = k
  <2>1. IsFiniteSet(1 .. n)
    BY <1>2, FS_Interval
  <2>2. IsFiniteSet(Places(h, 1 .. n, k)) /\ Cardinality(Places(h, 1 .. n, k)) \in Nat
    BY <2>1, PlacesFinite
  <2>3. Cardinality(Places(h, 1 .. n, k)) = 0 <=> Places(h, 1 .. n, k) = {}
    BY <2>2, FS_EmptySet
  <2>4. Places(h, 1 .. n, k) = {} <=> ~ \E j \in 1 .. n : h[j] = k
    BY DEF Places
  <2>5. content[k] = Cardinality(Places(h, 1 .. n, k))
    BY <1>2 DEF Counted
  <2> QED
    BY <2>2, <2>3, <2>4, <2>5
<1>5. h[1] \in HeapKey /\ content[h[1]] > 0 /\ \A m \in HeapKey : content[m] > 0 => h[1] <= m
  BY <1>2, <1>3, <1>4
<1>6. ASSUME NEW k \in HeapKey, content[k] > 0, \A m \in HeapKey : content[m] > 0 => k <= m
      PROVE  k = h[1]
  <2>1. k <= h[1] /\ h[1] <= k
    BY <1>5, <1>6
  <2>2. k \in Int /\ h[1] \in Int
    BY <1>5, ContainersAssumption
  <2> QED
    BY <2>1, <2>2
<1> QED
  BY <1>1, <1>5, <1>6 DEF Heap!Least

LEMMA PopKeepsHeap ==
  ASSUME HeapInv, Heap!Pop
  PROVE  HeapInv'
<1>1. CASE UNCHANGED Heap!heapVars
  BY <1>1 DEF Heap!heapVars, HeapInv
<1>2. CASE ~ UNCHANGED Heap!heapVars
  <2>1. PICK n, h : n = Len(harr) /\ h = harr
    OBVIOUS
  <2>2. /\ heapPc = "idle" /\ n # 0
        /\ content' = [content EXCEPT ![Heap!Least] = @ - 1]
        /\ harr' = IF n = 1 THEN <<>>
                   ELSE [j \in 1 .. n - 1 |-> IF j = 1 THEN h[n] ELSE h[j]]
        /\ heapI' = IF n = 1 THEN 0 ELSE 1
        /\ heapPc' = IF n = 1 THEN "idle" ELSE "down"
    BY <1>2, <2>1 DEF Heap!Pop
  <2>3. /\ n \in Nat \ {0} /\ h \in [1 .. n -> HeapKey] /\ n <= HeapCapacity
        /\ content \in [HeapKey -> Nat]
        /\ Counted(h, n, content) /\ OrderedBut(h, n, "idle", 0)
    BY <2>1, <2>2 DEF HeapInv, HeapGood
  <2>4. Heap!Least = h[1] /\ h[1] \in HeapKey
    BY <2>1, <2>2, LeastIsRoot
  <2>5. PICK g : g = harr'
    OBVIOUS
  <2>6. /\ g \in Seq(HeapKey) /\ Len(g) = n - 1 /\ g \in [1 .. n - 1 -> HeapKey]
        /\ \A j \in 1 .. n - 1 : g[j] = IF j = 1 THEN h[n] ELSE h[j]
    <3>1. CASE n = 1
      BY <2>2, <2>5, <3>1
    <3>2. CASE n # 1
      <4>1. g = [j \in 1 .. n - 1 |-> IF j = 1 THEN h[n] ELSE h[j]]
        BY <2>2, <2>5, <3>2
      <4>2. g \in [1 .. n - 1 -> HeapKey] /\ n - 1 \in Nat
        BY <2>3, <4>1
      <4>3. Len(g) = n - 1 /\ g \in Seq(HeapKey)
        BY <4>1, <4>2
      <4>4. \A j \in 1 .. n - 1 : g[j] = IF j = 1 THEN h[n] ELSE h[j]
        BY <4>1
      <4> QED
        BY <4>2, <4>3, <4>4
    <3> QED
      BY <3>1, <3>2
  <2>7. OrderedBut(g, n - 1, heapPc', heapI')
    <3>1. CASE n = 1
      BY <3>1 DEF OrderedBut
    <3>2. CASE n # 1
      <4>1. heapPc' = "down" /\ heapI' = 1
        BY <2>2, <3>2
      <4>2. ASSUME NEW j \in 2 .. n - 1
            PROVE  g[j \div 2] <= g[j] \/ j \div 2 = 1
        <5>1. h[j \div 2] <= h[j]
          BY <2>3 DEF OrderedBut
        <5>2. j \div 2 # 1 => g[j \div 2] = h[j \div 2]
          BY <2>3, <2>6
        <5>3. g[j] = h[j]
          BY <2>3, <2>6
        <5> QED
          BY <5>1, <5>2, <5>3
      <4> QED
        BY <4>1, <4>2 DEF OrderedBut
    <3> QED
      BY <2>3, <3>1, <3>2
  <2>8. ASSUME NEW k \in HeapKey
        PROVE  /\ Cardinality(Places(g, 1 .. n - 1, k)) = content'[k]
               /\ content'[k] \in Nat
    <3>1. PICK D, f : D = 1 .. n /\ f = [h EXCEPT ![1] = h[n], ![n] = h[1]]
      OBVIOUS
    <3>2. IsFiniteSet(D) /\ 1 \in D /\ n \in D
      BY <2>3, <3>1, FS_Interval
    <3>3. Exchanged(h, f, D, 1, n)
      BY <2>3, <3>1 DEF Exchanged
    <3>4. Cardinality(Places(f, D, k)) = Cardinality(Places(h, D, k))
      BY <3>2, <3>3, SwapKeepsCounts
    <3>5. IsFiniteSet(Places(f, D, k)) /\ Cardinality(Places(f, D, k)) \in Nat
      BY <3>2, PlacesFinite
    <3>6. \A j \in 1 .. n - 1 : g[j] = f[j]
      BY <2>3, <2>6, <3>1
    <3>7. Places(g, 1 .. n - 1, k) = Places(f, D, k) \ {n}
      BY <2>3, <3>1, <3>6 DEF Places
    <3>8. f[n] = h[1]
      BY <2>3, <3>1
    <3>9. Cardinality(Places(f, D, k) \ {n})
            = IF n \in Places(f, D, k) THEN Cardinality(Places(f, D, k)) - 1
              ELSE Cardinality(Places(f, D, k))
      BY <3>5, FS_RemoveElement
    <3>10. n \in Places(f, D, k) <=> k = h[1]
      BY <3>2, <3>8 DEF Places
    <3>11. Cardinality(Places(h, D, k)) = content[k] /\ content[k] \in Nat
      BY <2>3, <3>1 DEF Counted
    <3>12. IsFiniteSet(Places(g, 1 .. n - 1, k))
           /\ Cardinality(Places(g, 1 .. n - 1, k)) \in Nat
      <4>1. IsFiniteSet(1 .. n - 1)
        BY <2>3, FS_Interval
      <4> QED
        BY <4>1, PlacesFinite
    <3>13. content'[k] = IF k = h[1] THEN content[k] - 1 ELSE content[k]
      BY <2>2, <2>3, <2>4
    <3> QED
      BY <3>4, <3>7, <3>9, <3>10, <3>11, <3>12, <3>13
  <2>9. content' \in [HeapKey -> Nat]
    <3>1. content' = [content EXCEPT ![h[1]] = @ - 1]
      BY <2>2, <2>4
    <3>2. DOMAIN content' = HeapKey /\ content' = [k \in HeapKey |-> content'[k]]
      BY <2>3, <3>1
    <3> QED
      BY <2>8, <3>2
  <2>10. HeapGood(g, n - 1, heapPc', heapI', content')
    <3>1. /\ n - 1 \in Nat /\ n - 1 <= HeapCapacity
          /\ heapPc' \in {"idle", "down"} /\ heapI' \in 0 .. n - 1
          /\ (heapPc' = "idle" <=> heapI' = 0)
      BY <2>2, <2>3, ContainersAssumption
    <3>2. Counted(g, n - 1, content')
      BY <2>8 DEF Counted
    <3> QED
      BY <2>6, <2>7, <2>9, <3>1, <3>2 DEF HeapGood
  <2> QED
    BY <2>5, <2>6, <2>10 DEF HeapInv
<1> QED
  BY <1>1, <1>2

LEMMA MinHeapifyKeepsHeap ==
  ASSUME HeapInv, Heap!MinHeapify
  PROVE  HeapInv'
<1>1. PICK n, p, h : n = Len(harr) /\ p = heapI /\ h = harr
  OBVIOUS
<1>2. n \in Nat /\ p \in 0 .. n
  BY <1>1 DEF HeapInv, HeapGood
<1>3. /\ heapPc = "down" /\ p \in 1 .. n /\ h \in Seq(HeapKey) /\ h \in [1 .. n -> HeapKey]
      /\ n <= HeapCapacity /\ content \in [HeapKey -> Nat]
      /\ Counted(h, n, content) /\ OrderedBut(h, n, "down", p)
  BY <1>1, <1>2 DEF Heap!MinHeapify, HeapInv, HeapGood
<1>4. \A j \in 1 .. n : h[j] \in Int
  BY <1>3, ContainersAssumption
<1>5. PICK s : s = Heap!Smallest
  OBVIOUS
<1>6. /\ s = p \/ (s \in {2 * p, 2 * p + 1} /\ s \in 2 .. n /\ h[s] < h[p])
      /\ 2 * p <= n => h[s] <= h[2 * p]
      /\ 2 * p + 1 <= n => h[s] <= h[2 * p + 1]
  <2>1. PICK t : t = Heap!Smaller(2 * p, p)
    OBVIOUS
  <2>2. t = IF 2 * p <= n /\ h[2 * p] < h[p] THEN 2 * p ELSE p
    BY <1>1, <2>1 DEF Heap!Smaller
  <2>3. s = IF 2 * p + 1 <= n /\ h[2 * p + 1] < h[t] THEN 2 * p + 1 ELSE t
    BY <1>1, <1>5, <2>1 DEF Heap!Smallest, Heap!Smaller
  <2>4. h[p] \in Int /\ (2 * p <= n => h[2 * p] \in Int) /\ (2 * p + 1 <= n => h[2 * p + 1] \in Int)
    BY <1>2, <1>3, <1>4
  <2> QED
    BY <1>2, <1>3, <2>2, <2>3, <2>4
<1>7. \A j \in 2 .. n : j \div 2 = p => h[s] <= h[j]
  <2>1. ASSUME NEW j \in 2 .. n, j \div 2 = p
        PROVE  j = 2 * p \/ j = 2 * p + 1
    BY <2>1
  <2> QED
    BY <1>2, <1>6, <2>1
<1>8. CASE s # p
  <2>1. s \in 2 .. n /\ s \div 2 = p /\ h[s] < h[p]
    BY <1>2, <1>6, <1>8
  <2>2. harr' = Heap!Swapped(p, s) /\ heapI' = s /\ heapPc' = "down" /\ content' = content
    BY <1>1, <1>5, <1>8 DEF Heap!MinHeapify
  <2>3. /\ harr' \in Seq(HeapKey) /\ Len(harr') = n
        /\ Exchanged(harr, harr', 1 .. n, p, s)
        /\ Counted(harr', n, content')
    <3>1. p \in 1 .. Len(harr) /\ s \in 1 .. Len(harr) /\ p # s
      BY <1>1, <1>2, <1>3, <1>8, <2>1
    <3> QED
      BY <1>1, <2>2, <3>1, SwapSteps
  <2>4. harr' \in [1 .. n -> HeapKey]
    BY <2>3
  <2>5. PICK g : g = harr'
    OBVIOUS
  <2>6. h \in [1 .. n -> Int] /\ g \in [1 .. n -> Int]
    BY <1>3, <2>4, <2>5, ContainersAssumption
  <2>7. Exchanged(h, g, 1 .. n, p, s)
    BY <1>1, <2>3, <2>5
  <2>8. OrderedBut(g, n, "down", s)
    BY <1>2, <1>3, <1>7, <2>1, <2>6, <2>7, SinkingKeepsOrder
  <2>9. HeapGood(g, n, heapPc', heapI', content')
    <3>1. heapPc' = "down" /\ heapI' = s /\ s \in 1 .. n /\ content' \in [HeapKey -> Nat]
      BY <1>2, <1>3, <2>1, <2>2
    <3>2. g \in [1 .. n -> HeapKey] /\ Counted(g, n, content')
      BY <2>3, <2>4, <2>5
    <3>3. OrderedBut(g, n, heapPc', heapI')
      BY <2>8, <3>1
    <3>4. /\ heapPc' \in {"idle", "up", "down"} /\ heapI' \in 0 .. n
          /\ heapPc' # "idle" /\ heapI' # 0
      BY <1>2, <3>1
    <3>5. n \in Nat /\ n <= HeapCapacity /\ content' \in [HeapKey -> Nat]
      BY <1>2, <1>3, <3>1
    <3> QED
      BY <3>2, <3>3, <3>4, <3>5 DEF HeapGood
  <2> QED
    BY <2>3, <2>5, <2>9 DEF HeapInv
<1>9. CASE s = p
  <2>1. harr' = harr /\ heapI' = 0 /\ heapPc' = "idle" /\ content' = content
    BY <1>1, <1>5, <1>9 DEF Heap!MinHeapify
  <2>2. OrderedBut(h, n, "idle", 0)
    BY <1>2, <1>3, <1>7, <1>9 DEF OrderedBut
  <2> QED
    BY <1>1, <1>2, <1>3, <2>1, <2>2 DEF HeapInv, HeapGood
<1> QED
  BY <1>8, <1>9

\* MinHeap.cpp: whatever ints are pushed and popped, the heap is in order up to the
\* element on its way, holds what was pushed and not popped, and pop takes the least.
THEOREM HeapCorrect == HeapSpec => []HeapIsPriorityQueue
<1>1. Heap!Init => HeapInv
  BY HeapInitCorrect
<1>2. HeapInv /\ [Heap!Next]_heapVars => HeapInv'
  <2>1. ASSUME HeapInv, Heap!Next
        PROVE  HeapInv'
    BY <2>1, PushKeepsHeap, SiftUpKeepsHeap, PopKeepsHeap, MinHeapifyKeepsHeap DEF Heap!Next
  <2>2. ASSUME HeapInv, UNCHANGED heapVars
        PROVE  HeapInv'
    BY <2>2 DEF heapVars, HeapInv
  <2> QED
    BY <2>1, <2>2
<1> QED
  BY <1>1, <1>2, HeapParts, PTL DEF HeapSpec

-----------------------------------------------------------------------------
(* The trie                                                                *)

TrieSpec == Trie!Init /\ [][Trie!Next]_trieVars

Letter == UNION {{w[n] : n \in DOMAIN w} : w \in Word}

LEMMA WordsAreSequences == Word \subseteq Seq(Letter)
<1>1. ASSUME NEW w \in Word
      PROVE  w \in Seq(Letter)
  <2>1. w \in Seq({w[n] : n \in DOMAIN w})
    BY ContainersAssumption
  <2>2. {w[n] : n \in DOMAIN w} \subseteq Letter
    BY DEF Letter
  <2>3. PICK S : S = {w[n] : n \in DOMAIN w}
    OBVIOUS
  <2>4. w \in [1 .. Len(w) -> S] /\ Len(w) \in Nat
    BY <2>1, <2>3
  <2>5. w \in [1 .. Len(w) -> Letter]
    BY <2>2, <2>3, <2>4
  <2> QED
    BY <2>4, <2>5
<1> QED
  BY <1>1

\* What the proofs use of prefixes.
LEMMA PrefixOrder ==
  ASSUME NEW s \in Seq(Letter), NEW t \in Seq(Letter), NEW u \in Seq(Letter)
  PROVE  /\ Trie!IsPrefix(s, s)
         /\ Trie!IsPrefix(s, t) /\ Trie!IsPrefix(t, u) => Trie!IsPrefix(s, u)
         /\ Trie!IsPrefix(s, t) /\ Trie!IsPrefix(t, s) => s = t
         /\ Trie!IsPrefix(<<>>, s)
         /\ s \in Trie!Prefixes(t) <=> Trie!IsPrefix(s, t)
         /\ Trie!Prefixes(s) \subseteq Seq(Letter)
         /\ Trie!IsStrictPrefix(s, t) <=> Trie!IsPrefix(s, t) /\ s # t
<1>1. Trie!IsPrefix(s, s)
  BY DEF Trie!IsPrefix
<1>2. Trie!IsPrefix(s, t) /\ Trie!IsPrefix(t, u) => Trie!IsPrefix(s, u)
  BY DEF Trie!IsPrefix
<1>3. Trie!IsPrefix(s, t) /\ Trie!IsPrefix(t, s) => s = t
  BY DEF Trie!IsPrefix
<1>4. Trie!IsPrefix(<<>>, s)
  BY DEF Trie!IsPrefix
<1>5. s \in Trie!Prefixes(t) <=> Trie!IsPrefix(s, t)
  BY DEF Trie!IsPrefix, Trie!Prefixes
<1>6. Trie!Prefixes(s) \subseteq Seq(Letter)
  BY DEF Trie!Prefixes
<1>7. Trie!IsStrictPrefix(s, t) <=> Trie!IsPrefix(s, t) /\ s # t
  BY DEF Trie!IsStrictPrefix
<1> QED
  BY <1>1, <1>2, <1>3, <1>4, <1>5, <1>6, <1>7

\* InventsNothing, of sequences
TrieInv ==
  /\ Trie!InventsNothing
  /\ nodes \subseteq Seq(Letter) /\ words \subseteq Seq(Letter)

LEMMA EmptyIsASequence == <<>> \in Seq(Letter)
  OBVIOUS

LEMMA PutKeepsTrie ==
  ASSUME TrieInv, NEW w \in Seq(Letter), Trie!Put(w)
  PROVE  TrieInv'
<1>1. CASE Trie!Abort
  BY <1>1 DEF Trie!Abort, TrieInv, Trie!InventsNothing
<1>2. CASE ~ Trie!Abort
  <2>1. /\ nodes' = nodes \cup Trie!Prefixes(w) /\ ends' = ends \cup {w}
        /\ words' = words \cup {w} /\ excused' = excused \ {w} /\ trieWrong' = trieWrong
    BY <1>2 DEF Trie!Put
  <2>2. nodes' \subseteq Seq(Letter) /\ words' \subseteq Seq(Letter)
    BY <2>1, PrefixOrder DEF TrieInv
  <2>3. ends' \subseteq words' /\ ~ trieWrong' /\ words' \ ends' \subseteq excused'
    BY <2>1 DEF TrieInv, Trie!InventsNothing
  <2>4. ASSUME NEW p \in nodes'
        PROVE  Trie!Prefixes(p) \subseteq nodes'
    <3>1. CASE p \in nodes
      BY <2>1, <3>1 DEF TrieInv, Trie!InventsNothing
    <3>2. CASE p \in Trie!Prefixes(w)
      <4>1. p \in Seq(Letter) /\ Trie!IsPrefix(p, w)
        BY <3>2, PrefixOrder
      <4>2. ASSUME NEW q \in Trie!Prefixes(p)
            PROVE  q \in Trie!Prefixes(w)
        <5>1. q \in Seq(Letter) /\ Trie!IsPrefix(q, p)
          BY <4>1, <4>2, PrefixOrder
        <5> QED
          BY <4>1, <5>1, PrefixOrder
      <4> QED
        BY <2>1, <4>2
    <3> QED
      BY <2>1, <3>1, <3>2
  <2>5. ASSUME NEW p \in nodes', p # <<>>
        PROVE  \E e \in ends' : Trie!IsPrefix(p, e)
    <3>1. CASE p \in nodes
      BY <2>1, <2>5, <3>1 DEF TrieInv, Trie!InventsNothing
    <3>2. CASE p \in Trie!Prefixes(w)
      <4>1. p \in Seq(Letter) /\ Trie!IsPrefix(p, w)
        BY <3>2, PrefixOrder
      <4> QED
        BY <2>1, <4>1
    <3> QED
      BY <2>1, <3>1, <3>2
  <2>6. ends' \subseteq nodes'
    <3>1. w \in Trie!Prefixes(w)
      BY PrefixOrder
    <3> QED
      BY <2>1, <3>1 DEF TrieInv, Trie!InventsNothing
  <2> QED
    BY <2>2, <2>3, <2>4, <2>5, <2>6 DEF TrieInv, Trie!InventsNothing
<1> QED
  BY <1>1, <1>2

LEMMA GetKeepsTrie ==
  ASSUME TrieInv, NEW w, Trie!Get(w)
  PROVE  TrieInv'
<1>1. CASE Trie!Abort
  BY <1>1 DEF Trie!Abort, TrieInv, Trie!InventsNothing
<1>2. CASE ~ Trie!Abort
  <2>1. /\ trieWrong' = (trieWrong \/ (Trie!Prefixes(w) \subseteq nodes /\ w \in ends /\ w \notin words))
        /\ UNCHANGED <<nodes, ends, words, excused>>
    BY <1>2 DEF Trie!Get
  <2>2. ~ trieWrong'
    BY <2>1 DEF TrieInv, Trie!InventsNothing
  <2> QED
    BY <2>1, <2>2 DEF TrieInv, Trie!InventsNothing
<1> QED
  BY <1>1, <1>2

LEMMA DelKeepsTrie ==
  ASSUME TrieInv, NEW w \in Seq(Letter), Trie!Del(w)
  PROVE  TrieInv'
<1>1. CASE Trie!Abort
  BY <1>1 DEF Trie!Abort, TrieInv, Trie!InventsNothing
<1>2. CASE ~ Trie!Abort
  <2>1. /\ Trie!Prefixes(w) \subseteq nodes
        /\ nodes' = Trie!Kept(w) /\ ends' = (ends \ {w}) \cap Trie!Kept(w)
        /\ words' = words \ {w}
        /\ excused' = (excused \ {w}) \cup {v \in words : Trie!IsStrictPrefix(v, w)}
        /\ trieWrong' = trieWrong
    BY <1>2 DEF Trie!Del
  <2>2. /\ nodes \subseteq Seq(Letter) /\ words \subseteq Seq(Letter)
        /\ ends \subseteq words /\ ends \subseteq nodes
        /\ words \ ends \subseteq excused /\ ~ trieWrong
        /\ \A p \in nodes : Trie!Prefixes(p) \subseteq nodes
        /\ \A p \in nodes : p = <<>> \/ \E e \in ends : Trie!IsPrefix(p, e)
    BY DEF TrieInv, Trie!InventsNothing
  <2>3. ASSUME NEW p
        PROVE  p \in nodes' <=>
                 /\ p \in nodes
                 /\ \/ ~ Trie!IsPrefix(p, w)
                    \/ \E q \in nodes : Trie!IsStrictPrefix(p, q) /\ ~ Trie!IsPrefix(q, w)
    BY <2>1 DEF Trie!Kept
  <2>4. nodes' \subseteq nodes
    BY <2>3
  <2>5. ends' = {e \in ends : e # w /\ e \in nodes'}
    BY <2>1
  <2>6. ASSUME NEW v \in words', v \notin ends'
        PROVE  v \in excused'
    <3>1. v \in words /\ v # w
      BY <2>1, <2>6
    <3>2. CASE v \notin ends
      BY <2>1, <2>2, <3>1, <3>2
    <3>3. CASE v \in ends
      <4>1. v \in nodes /\ v \notin nodes'
        BY <2>2, <2>5, <2>6, <3>1, <3>3
      <4>2. Trie!IsPrefix(v, w)
        BY <2>3, <4>1
      <4>3. Trie!IsStrictPrefix(v, w)
        BY <2>2, <3>1, <4>2, PrefixOrder
      <4> QED
        BY <2>1, <3>1, <4>3
    <3> QED
      BY <3>2, <3>3
  <2>7. ASSUME NEW p \in nodes', NEW r \in Trie!Prefixes(p)
        PROVE  r \in nodes'
    <3>1. p \in nodes /\ p \in Seq(Letter) /\ r \in nodes
      BY <2>2, <2>4, <2>7
    <3>2. r \in Seq(Letter) /\ Trie!IsPrefix(r, p)
      BY <2>7, <3>1, PrefixOrder
    <3>3. CASE ~ Trie!IsPrefix(r, w)
      BY <2>3, <3>1, <3>3
    <3>4. CASE Trie!IsPrefix(r, w) /\ ~ Trie!IsPrefix(p, w)
      <4>1. Trie!IsStrictPrefix(r, p)
        BY <3>1, <3>2, <3>4, PrefixOrder
      <4> QED
        BY <2>3, <3>1, <3>4, <4>1
    <3>5. CASE Trie!IsPrefix(p, w)
      <4>1. PICK q \in nodes : Trie!IsStrictPrefix(p, q) /\ ~ Trie!IsPrefix(q, w)
        BY <2>3, <3>5
      <4>2. q \in Seq(Letter) /\ Trie!IsPrefix(p, q)
        BY <2>2, <3>1, <4>1, PrefixOrder
      <4>3. Trie!IsPrefix(r, q)
        BY <3>1, <3>2, <4>2, PrefixOrder
      <4>4. r # q
        <5>1. ASSUME r = q
              PROVE  FALSE
          <6>1. p = q
            BY <3>1, <3>2, <4>2, <5>1, PrefixOrder
          <6> QED
            BY <3>5, <4>1, <6>1
        <5> QED
          BY <5>1
      <4>5. Trie!IsStrictPrefix(r, q)
        BY <3>2, <4>2, <4>3, <4>4, PrefixOrder
      <4> QED
        BY <2>3, <3>1, <4>1, <4>5
    <3> QED
      BY <3>3, <3>4, <3>5
  <2>8. ASSUME NEW p \in nodes, NEW q \in nodes, q # <<>>, Trie!IsPrefix(p, q),
               ~ Trie!IsPrefix(q, w)
        PROVE  \E e \in ends' : Trie!IsPrefix(p, e)
    <3>1. PICK e \in ends : Trie!IsPrefix(q, e)
      BY <2>2, <2>8
    <3>2. p \in Seq(Letter) /\ q \in Seq(Letter) /\ e \in Seq(Letter) /\ e \in nodes
      BY <2>2
    <3>3. ~ Trie!IsPrefix(e, w)
      BY <2>8, <3>1, <3>2, PrefixOrder
    <3>4. e # w
      BY <3>3, PrefixOrder
    <3>5. e \in nodes'
      BY <2>3, <3>2, <3>3
    <3>6. Trie!IsPrefix(p, e)
      BY <2>8, <3>1, <3>2, PrefixOrder
    <3> QED
      BY <2>5, <3>4, <3>5, <3>6
  <2>9. ASSUME NEW p \in nodes', p # <<>>
        PROVE  \E e \in ends' : Trie!IsPrefix(p, e)
    <3>1. p \in nodes /\ p \in Seq(Letter)
      BY <2>2, <2>4
    <3>2. CASE ~ Trie!IsPrefix(p, w)
      <4>1. Trie!IsPrefix(p, p)
        BY <3>1, PrefixOrder
      <4> QED
        BY <2>8, <2>9, <3>1, <3>2, <4>1
    <3>3. CASE Trie!IsPrefix(p, w)
      <4>1. PICK q \in nodes : Trie!IsStrictPrefix(p, q) /\ ~ Trie!IsPrefix(q, w)
        BY <2>3, <3>3
      <4>2. q \in Seq(Letter) /\ Trie!IsPrefix(p, q)
        BY <2>2, <3>1, <4>1, PrefixOrder
      <4>3. q # <<>>
        BY <4>1, PrefixOrder
      <4> QED
        BY <2>8, <3>1, <4>1, <4>2, <4>3
    <3> QED
      BY <3>2, <3>3
  <2>10. ends' \subseteq words' /\ ~ trieWrong' /\ ends' \subseteq nodes'
    BY <2>1, <2>2
  <2>11. nodes' \subseteq Seq(Letter) /\ words' \subseteq Seq(Letter)
    BY <2>1, <2>2, <2>4
  <2> QED
    BY <2>6, <2>7, <2>9, <2>10, <2>11 DEF TrieInv, Trie!InventsNothing
<1> QED
  BY <1>1, <1>2

\* TrieTree.cpp: whatever words are put and deleted, the trie finds none that is not
\* promised, and of those that are it has lost none but beginnings of deleted words.
THEOREM TrieCorrect == TrieSpec => []TrieInventsNothing
<1>1. Trie!Init => TrieInv
  <2>1. ASSUME Trie!Init
        PROVE  /\ nodes = {<<>>} /\ ends = {} /\ words = {} /\ ~ trieWrong
               /\ Trie!Prefixes(<<>>) \subseteq nodes
    <3>1. nodes = {<<>>} /\ ends = {} /\ words = {} /\ ~ trieWrong
      BY <2>1 DEF Trie!Init
    <3>2. ASSUME NEW q \in Trie!Prefixes(<<>>)
          PROVE  q = <<>>
      BY DEF Trie!Prefixes
    <3> QED
      BY <3>1, <3>2
  <2>2. ASSUME Trie!Init, NEW p \in nodes
        PROVE  p = <<>> /\ p \in Seq(Letter) /\ Trie!Prefixes(p) \subseteq nodes
    <3>1. p = <<>>
      BY <2>1, <2>2
    <3> QED
      BY <2>1, <2>2, <3>1, EmptyIsASequence
  <2> QED
    BY <2>1, <2>2 DEF TrieInv, Trie!InventsNothing
<1>2. TrieInv /\ [Trie!Next]_trieVars => TrieInv'
  <2>1. ASSUME TrieInv, NEW w \in Word, Trie!Put(w) \/ Trie!Get(w) \/ Trie!Del(w)
        PROVE  TrieInv'
    <3>1. w \in Seq(Letter)
      BY WordsAreSequences
    <3> QED
      BY <2>1, <3>1, PutKeepsTrie, GetKeepsTrie, DelKeepsTrie
  <2>2. ASSUME TrieInv, UNCHANGED trieVars
        PROVE  TrieInv'
    BY <2>2 DEF trieVars, TrieInv, Trie!InventsNothing
  <2> QED
    BY <2>1, <2>2 DEF Trie!Next
<1>3. TrieInv => TrieInventsNothing
  BY DEF TrieInv, TrieInventsNothing
<1> QED
  BY <1>1, <1>2, <1>3, PTL DEF TrieSpec

-----------------------------------------------------------------------------
(* Quicksort                                                               *)

SortSpec == Sort!InitFor(Nat) /\ [][Sort!Next]_sortVars

Reach(c, n) == c[n][1] .. c[n][2]

\* Some range of c is still to be sorted that holds both places.
Together(c, p, q) == \E n \in 1 .. Len(c) : p \in Reach(c, n) /\ q \in Reach(c, n)

\* Two places that are in no such range have their elements in order.
SortedBut(h, N, c) == \A p, q \in 0 .. N - 1 : p < q => h[p] <= h[q] \/ Together(c, p, q)

\* The ranges lie in the array and apart.
RangesApart(c, N) ==
  /\ c \in Seq(Int \X Int)
  /\ \A n \in 1 .. Len(c) : 0 <= c[n][1] /\ c[n][2] < N
  /\ \A m, n \in 1 .. Len(c) : \A p \in Int : p \in Reach(c, m) /\ p \in Reach(c, n) => m = n

\* What quit_sort2 has done in lo .. hi: the places before a are below the pivot at hi,
\* those from a up to b are not.
Partitioned(h, lo, hi, a, b) ==
  /\ lo < hi /\ a \in Int /\ b \in Int /\ lo <= a /\ a <= b /\ b <= hi
  /\ \A q \in lo .. a - 1 : h[q] < h[hi]
  /\ \A q \in a .. b - 1 : h[q] >= h[hi]

LEMMA ExchangeKeepsSorted ==
  ASSUME NEW N \in Nat, NEW h \in [0 .. N - 1 -> Int], NEW g \in [0 .. N - 1 -> Int],
         NEW c, RangesApart(c, N), SortedBut(h, N, c), Len(c) \in Nat \ {0},
         NEW a \in Reach(c, 1), NEW b \in Reach(c, 1), Exchanged(h, g, 0 .. N - 1, a, b)
  PROVE  SortedBut(g, N, c)
<1>1. PICK lo \in Int, hi \in Int : lo = c[1][1] /\ hi = c[1][2]
  BY DEF RangesApart
<1>2. Reach(c, 1) = lo .. hi /\ 0 <= lo /\ hi < N /\ a \in lo .. hi /\ b \in lo .. hi
  <2>1. 1 \in 1 .. Len(c)
    OBVIOUS
  <2>2. 0 <= lo /\ hi < N
    BY <1>1, <2>1 DEF RangesApart
  <2>3. Reach(c, 1) = lo .. hi
    BY <1>1 DEF Reach
  <2> QED
    BY <2>2, <2>3
<1>3. ASSUME NEW p \in lo .. hi, NEW q \in (0 .. N - 1) \ (lo .. hi)
      PROVE  ~ Together(c, p, q) /\ ~ Together(c, q, p)
  <2>1. ASSUME NEW n \in 1 .. Len(c), p \in Reach(c, n)
        PROVE  q \notin Reach(c, n)
    <3>1. 1 \in 1 .. Len(c) /\ p \in Int
      OBVIOUS
    <3>2. n = 1
      BY <1>2, <1>3, <2>1, <3>1 DEF RangesApart
    <3> QED
      BY <1>2, <3>2
  <2> QED
    BY <2>1 DEF Together
<1>4. ASSUME NEW p \in 0 .. N - 1, NEW q \in 0 .. N - 1, p < q, ~ Together(c, p, q)
      PROVE  g[p] <= g[q]
  <2>1. ~ (p \in lo .. hi /\ q \in lo .. hi)
    <3>1. ASSUME p \in lo .. hi, q \in lo .. hi
          PROVE  Together(c, p, q)
      <4>1. 1 \in 1 .. Len(c)
        OBVIOUS
      <4> QED
        BY <1>2, <3>1, <4>1 DEF Together
    <3> QED
      BY <1>4, <3>1
  <2>2. CASE p \in {a, b}
    <3>1. PICK s \in {a, b} : g[p] = h[s]
      BY <2>2 DEF Exchanged
    <3>2. q \notin lo .. hi /\ g[q] = h[q]
      BY <1>2, <2>1, <2>2 DEF Exchanged
    <3>3. s \in lo .. hi /\ s \in 0 .. N - 1 /\ s < q
      BY <1>2, <1>4, <2>2, <3>2
    <3>4. h[s] <= h[q]
      BY <1>3, <3>2, <3>3 DEF SortedBut
    <3> QED
      BY <3>1, <3>2, <3>4
  <2>3. CASE q \in {a, b}
    <3>1. PICK s \in {a, b} : g[q] = h[s]
      BY <2>3 DEF Exchanged
    <3>2. p \notin lo .. hi /\ g[p] = h[p]
      BY <1>2, <2>1, <2>3 DEF Exchanged
    <3>3. s \in lo .. hi /\ s \in 0 .. N - 1 /\ p < s
      <4>1. s \in lo .. hi /\ q \in lo .. hi
        BY <1>2, <2>3
      <4> QED
        BY <1>2, <1>4, <3>2, <4>1
    <3>4. h[p] <= h[s]
      BY <1>3, <3>2, <3>3 DEF SortedBut
    <3> QED
      BY <3>1, <3>2, <3>4
  <2>4. CASE p \notin {a, b} /\ q \notin {a, b}
    BY <1>4, <2>4 DEF Exchanged, SortedBut
  <2> QED
    BY <2>2, <2>3, <2>4
<1> QED
  BY <1>4 DEF SortedBut

\* The ranges after a split at a
Halves(c, a) == <<<<c[1][1], a - 1>>, <<a + 1, c[1][2]>>>> \o Tail(c)

LEMMA Concatenation ==
  ASSUME NEW S, NEW s \in Seq(S), NEW t \in Seq(S)
  PROVE  /\ s \o t \in Seq(S) /\ Len(s \o t) = Len(s) + Len(t)
         /\ \A n \in 1 .. Len(s) + Len(t) :
              (s \o t)[n] = IF n <= Len(s) THEN s[n] ELSE t[n - Len(s)]
  OBVIOUS

LEMMA HalvesAre ==
  ASSUME NEW N, NEW c, RangesApart(c, N), Len(c) \in Nat \ {0}, NEW a \in Int
  PROVE  /\ Halves(c, a) \in Seq(Int \X Int) /\ Len(Halves(c, a)) = Len(c) + 1
         /\ Halves(c, a)[1] = <<c[1][1], a - 1>> /\ Halves(c, a)[2] = <<a + 1, c[1][2]>>
         /\ \A n \in 3 .. Len(c) + 1 : Halves(c, a)[n] = c[n - 1]
<1>1. c \in Seq(Int \X Int) /\ c[1] \in Int \X Int
  BY DEF RangesApart
<1>2. Tail(c) \in Seq(Int \X Int) /\ Len(Tail(c)) = Len(c) - 1
      /\ \A n \in 1 .. Len(c) - 1 : Tail(c)[n] = c[n + 1]
  BY <1>1
<1>3. PICK t \in Seq(Int \X Int) : t = Tail(c)
  BY <1>2
<1>4. PICK e : e = <<<<c[1][1], a - 1>>, <<a + 1, c[1][2]>>>>
  OBVIOUS
<1>5. e \in Seq(Int \X Int) /\ Len(e) = 2
      /\ e[1] = <<c[1][1], a - 1>> /\ e[2] = <<a + 1, c[1][2]>>
  BY <1>1, <1>4
<1>6. e \o t \in Seq(Int \X Int) /\ Len(e \o t) = Len(c) + 1
      /\ \A n \in 1 .. Len(c) + 1 : (e \o t)[n] = IF n <= 2 THEN e[n] ELSE t[n - 2]
  <2>1. Len(t) = Len(c) - 1 /\ Len(t) \in Nat
    BY <1>2, <1>3
  <2>2. e \in Seq(Int \X Int) /\ t \in Seq(Int \X Int)
    BY <1>3, <1>5
  <2>3. PICK d : d = e \o t
    OBVIOUS
  <2>4. /\ d \in Seq(Int \X Int) /\ Len(d) = Len(e) + Len(t)
        /\ \A n \in 1 .. Len(e) + Len(t) : d[n] = IF n <= Len(e) THEN e[n] ELSE t[n - Len(e)]
    BY <2>2, <2>3, Concatenation
  <2>5. Len(d) = Len(c) + 1 /\ Len(e) = 2
    BY <1>5, <2>1, <2>4
  <2>6. \A n \in 1 .. Len(c) + 1 : d[n] = IF n <= 2 THEN e[n] ELSE t[n - 2]
    BY <2>1, <2>4, <2>5
  <2> QED
    BY <2>3, <2>4, <2>5, <2>6
<1> QED
  BY <1>2, <1>3, <1>4, <1>5, <1>6 DEF Halves

LEMMA SplitKeepsSorted ==
  ASSUME NEW N \in Nat, NEW g \in [0 .. N - 1 -> Int],
         NEW c, RangesApart(c, N), SortedBut(g, N, c), Len(c) \in Nat \ {0},
         NEW a \in Reach(c, 1),
         \A q \in c[1][1] .. a - 1 : g[q] < g[a],
         \A q \in a + 1 .. c[1][2] : g[q] >= g[a]
  PROVE  RangesApart(Halves(c, a), N) /\ SortedBut(g, N, Halves(c, a))
<1>1. PICK lo \in Int, hi \in Int : lo = c[1][1] /\ hi = c[1][2]
  BY DEF RangesApart
<1>2. Reach(c, 1) = lo .. hi /\ 0 <= lo /\ hi < N /\ a \in lo .. hi /\ a \in Int
  <2>1. 1 \in 1 .. Len(c)
    OBVIOUS
  <2>2. 0 <= lo /\ hi < N
    BY <1>1, <2>1 DEF RangesApart
  <2>3. Reach(c, 1) = lo .. hi
    BY <1>1 DEF Reach
  <2>4. a \in lo .. hi
    BY <2>3
  <2> QED
    BY <2>2, <2>3, <2>4
<1>3. PICK d : d = Halves(c, a)
  OBVIOUS
<1>4. /\ d \in Seq(Int \X Int) /\ Len(d) = Len(c) + 1
      /\ d[1] = <<lo, a - 1>> /\ d[2] = <<a + 1, hi>>
      /\ \A n \in 3 .. Len(c) + 1 : d[n] = c[n - 1]
  <2>1. a \in Int
    BY <1>2
  <2> QED
    BY <1>1, <1>3, <2>1, HalvesAre
<1>5. /\ Reach(d, 1) = lo .. a - 1 /\ Reach(d, 2) = a + 1 .. hi
      /\ \A n \in 3 .. Len(c) + 1 : Reach(d, n) = Reach(c, n - 1)
  <2>1. d[1][1] = lo /\ d[1][2] = a - 1 /\ d[2][1] = a + 1 /\ d[2][2] = hi
    BY <1>4
  <2>2. Reach(d, 1) = lo .. a - 1 /\ Reach(d, 2) = a + 1 .. hi
    BY <2>1 DEF Reach
  <2>3. \A n \in 3 .. Len(c) + 1 : Reach(d, n) = Reach(c, n - 1)
    BY <1>4 DEF Reach
  <2> QED
    BY <2>2, <2>3
<1>6. \A n \in 1 .. Len(d) : 0 <= d[n][1] /\ d[n][2] < N
  <2>1. ASSUME NEW n \in 3 .. Len(c) + 1
        PROVE  0 <= d[n][1] /\ d[n][2] < N
    <3>1. d[n] = c[n - 1] /\ n - 1 \in 1 .. Len(c)
      BY <1>4
    <3> QED
      BY <3>1 DEF RangesApart
  <2>2. 0 <= d[1][1] /\ d[1][2] < N /\ 0 <= d[2][1] /\ d[2][2] < N
    BY <1>2, <1>4
  <2>3. \A n \in 1 .. Len(d) : n = 1 \/ n = 2 \/ n \in 3 .. Len(c) + 1
    BY <1>4
  <2> QED
    BY <2>1, <2>2, <2>3
<1>7. ASSUME NEW m \in 1 .. Len(d), NEW n \in 1 .. Len(d), NEW p \in Int,
             p \in Reach(d, m), p \in Reach(d, n)
      PROVE  m = n
  <2> DEFINE old(k) == IF k <= 2 THEN 1 ELSE k - 1
  <2>1. ASSUME NEW k \in 1 .. Len(d), p \in Reach(d, k)
        PROVE  old(k) \in 1 .. Len(c) /\ p \in Reach(c, old(k))
    <3>1. CASE k \in 3 .. Len(c) + 1
      BY <1>5, <2>1, <3>1
    <3>2. CASE k = 1 \/ k = 2
      <4>1. old(k) = 1
        BY <3>2
      <4>2. p \in lo .. hi
        <5>1. p \in lo .. a - 1 \/ p \in a + 1 .. hi
          BY <1>5, <2>1, <3>2
        <5> QED
          BY <1>2, <5>1
      <4> QED
        BY <1>2, <4>1, <4>2
    <3> QED
      BY <1>4, <3>1, <3>2
  <2>2. old(m) = old(n)
    <3>1. /\ old(m) \in 1 .. Len(c) /\ old(n) \in 1 .. Len(c)
          /\ p \in Reach(c, old(m)) /\ p \in Reach(c, old(n))
      BY <1>7, <2>1
    <3> HIDE DEF old
    <3> QED
      BY <3>1 DEF RangesApart
  <2>3. m = n \/ (m = 1 /\ n = 2) \/ (m = 2 /\ n = 1)
    <3>1. m \in Nat /\ n \in Nat /\ m >= 1 /\ n >= 1
      BY <1>4
    <3> QED
      BY <2>2, <3>1
  <2>4. ~ (p \in Reach(d, 1) /\ p \in Reach(d, 2))
    BY <1>2, <1>5
  <2> QED
    BY <1>7, <2>3, <2>4
<1>8. ASSUME NEW p \in 0 .. N - 1, NEW q \in 0 .. N - 1, p < q, ~ Together(d, p, q)
      PROVE  g[p] <= g[q]
  <2>1. CASE ~ Together(c, p, q)
    BY <1>8, <2>1 DEF SortedBut
  <2>2. CASE Together(c, p, q)
    <3>1. PICK n \in 1 .. Len(c) : p \in Reach(c, n) /\ q \in Reach(c, n)
      BY <2>2 DEF Together
    <3>2. CASE n # 1
      <4>1. n + 1 \in 3 .. Len(c) + 1 /\ n + 1 \in 1 .. Len(d)
        BY <1>4, <3>2
      <4>2. Reach(d, n + 1) = Reach(c, n)
        BY <1>5, <4>1
      <4>3. Together(d, p, q)
        BY <3>1, <4>1, <4>2 DEF Together
      <4> QED
        BY <1>8, <4>3
    <3>3. CASE n = 1
      <4>1. p \in lo .. hi /\ q \in lo .. hi
        BY <1>2, <3>1, <3>3
      <4>2. 1 \in 1 .. Len(d) /\ 2 \in 1 .. Len(d)
        BY <1>4
      <4>3. CASE q < a
        <5>1. p \in Reach(d, 1) /\ q \in Reach(d, 1)
          <6>1. p \in lo .. a - 1 /\ q \in lo .. a - 1
            BY <1>2, <1>8, <4>1, <4>3
          <6> QED
            BY <1>5, <6>1
        <5> QED
          BY <1>8, <4>2, <5>1 DEF Together
      <4>4. CASE p > a
        <5>1. p \in Reach(d, 2) /\ q \in Reach(d, 2)
          <6>1. p \in a + 1 .. hi /\ q \in a + 1 .. hi
            BY <1>2, <1>8, <4>1, <4>4
          <6> QED
            BY <1>5, <6>1
        <5> QED
          BY <1>8, <4>2, <5>1 DEF Together
      <4>5. CASE p <= a /\ a <= q
        <5>1. g[p] \in Int /\ g[q] \in Int /\ g[a] \in Int
          <6>1. a \in 0 .. N - 1
            BY <1>2
          <6> QED
            BY <6>1
        <5>2. g[p] <= g[a]
          <6>1. CASE p = a
            BY <5>1, <6>1
          <6>2. CASE p # a
            <7>1. p \in lo .. a - 1
              BY <1>2, <4>1, <4>5, <6>2
            <7>2. g[p] < g[a]
              BY <1>1, <7>1
            <7> QED
              BY <5>1, <7>2
          <6> QED
            BY <6>1, <6>2
        <5>3. g[a] <= g[q]
          <6>1. CASE q = a
            BY <5>1, <6>1
          <6>2. CASE q # a
            <7>1. q \in a + 1 .. hi
              BY <1>2, <4>1, <4>5, <6>2
            <7>2. g[q] >= g[a]
              BY <1>1, <7>1
            <7> QED
              BY <5>1, <7>2
          <6> QED
            BY <6>1, <6>2
        <5> QED
          BY <5>1, <5>2, <5>3
      <4> QED
        BY <1>2, <4>1, <4>3, <4>4, <4>5
    <3> QED
      BY <3>2, <3>3
  <2> QED
    BY <2>1, <2>2
<1>9. RangesApart(d, N)
  BY <1>4, <1>6, <1>7 DEF RangesApart
<1>10. SortedBut(g, N, d)
  BY <1>8 DEF SortedBut
<1> QED
  BY <1>3, <1>9, <1>10

\* A range of one element, or of none, needs no sorting.
LEMMA DropKeepsSorted ==
  ASSUME NEW N \in Nat, NEW g, NEW c, RangesApart(c, N), SortedBut(g, N, c),
         Len(c) \in Nat \ {0}, c[1][1] >= c[1][2]
  PROVE  RangesApart(Tail(c), N) /\ SortedBut(g, N, Tail(c))
<1>1. PICK d : d = Tail(c)
  OBVIOUS
<1>2. c \in Seq(Int \X Int)
  BY DEF RangesApart
<1>3. d \in Seq(Int \X Int) /\ Len(d) = Len(c) - 1
      /\ \A n \in 1 .. Len(c) - 1 : d[n] = c[n + 1]
  BY <1>1, <1>2
<1>4. \A n \in 1 .. Len(d) : n + 1 \in 1 .. Len(c) /\ d[n] = c[n + 1] /\ Reach(d, n) = Reach(c, n + 1)
  BY <1>3 DEF Reach
<1>5. RangesApart(d, N)
  <2>1. \A n \in 1 .. Len(d) : 0 <= d[n][1] /\ d[n][2] < N
    BY <1>4 DEF RangesApart
  <2>2. ASSUME NEW m \in 1 .. Len(d), NEW n \in 1 .. Len(d), NEW p \in Int,
               p \in Reach(d, m), p \in Reach(d, n)
        PROVE  m = n
    <3>1. /\ m + 1 \in 1 .. Len(c) /\ n + 1 \in 1 .. Len(c)
          /\ p \in Reach(c, m + 1) /\ p \in Reach(c, n + 1)
      BY <1>4, <2>2
    <3>2. m + 1 = n + 1
      BY <3>1 DEF RangesApart
    <3> QED
      BY <3>2
  <2> QED
    BY <1>3, <2>1, <2>2 DEF RangesApart
<1>6. ASSUME NEW p \in 0 .. N - 1, NEW q \in 0 .. N - 1, p < q
      PROVE  g[p] <= g[q] \/ Together(d, p, q)
  <2>1. ASSUME Together(c, p, q)
        PROVE  Together(d, p, q)
    <3>1. PICK n \in 1 .. Len(c) : p \in Reach(c, n) /\ q \in Reach(c, n)
      BY <2>1 DEF Together
    <3>2. n # 1
      <4>1. PICK lo \in Int, hi \in Int : lo = c[1][1] /\ hi = c[1][2]
        BY <1>2
      <4>2. ~ (p \in lo .. hi /\ q \in lo .. hi)
        BY <1>6, <4>1
      <4> QED
        BY <3>1, <4>1, <4>2 DEF Reach
    <3>3. n - 1 \in 1 .. Len(d)
      BY <1>3, <3>2
    <3>4. Reach(d, n - 1) = Reach(c, (n - 1) + 1) /\ (n - 1) + 1 = n
      BY <1>4, <3>3
    <3> QED
      BY <3>1, <3>3, <3>4 DEF Together
  <2> QED
    BY <1>6, <2>1 DEF SortedBut
<1> QED
  BY <1>1, <1>5, <1>6 DEF SortedBut

\* The invariant: beside what Sorts says, every pair of places that no range still to be
\* sorted holds is in order, and quit_sort2 has partitioned the places it has looked at.
SortFits(N, f, h, c, a, b) ==
  /\ N \in Nat /\ f \in [0 .. N - 1 -> SortValue] /\ h \in [0 .. N - 1 -> SortValue]
  /\ RangesApart(c, N) /\ SortedBut(h, N, c)
  /\ b # -1 => c # <<>> /\ Partitioned(h, c[1][1], c[1][2], a, b)
  /\ \A v \in SortValue :
       Cardinality(Places(f, 0 .. N - 1, v)) = Cardinality(Places(h, 0 .. N - 1, v))

SortInv == \E N \in Nat : SortFits(N, given, nums, calls, sortI, sortJ)

LEMMA SortInitCorrect ==
  ASSUME Sort!InitFor(Nat)
  PROVE  SortInv
<1>1. PICK N \in Nat : given \in [0 .. (N - 1) -> SortValue] /\ calls = <<<<0, N - 1>>>>
  BY DEF Sort!InitFor
<1>2. nums = given /\ sortJ = -1
  BY DEF Sort!InitFor, Sort!None
<1>3. PICK c : c = calls
  OBVIOUS
<1>4. c \in Seq(Int \X Int) /\ Len(c) = 1 /\ c[1][1] = 0 /\ c[1][2] = N - 1
  BY <1>1, <1>3
<1>5. RangesApart(c, N)
  BY <1>4 DEF RangesApart
<1>6. SortedBut(nums, N, c)
  BY <1>4 DEF SortedBut, Together, Reach
<1> QED
  BY <1>1, <1>2, <1>3, <1>5, <1>6 DEF SortInv, SortFits

LEMMA FirstCall ==
  ASSUME NEW N, RangesApart(calls, N), calls # <<>>
  PROVE  /\ Sort!l = calls[1][1] /\ Sort!r = calls[1][2]
         /\ Len(calls) \in Nat \ {0} /\ calls[1][1] \in Int /\ calls[1][2] \in Int
         /\ 0 <= calls[1][1] /\ calls[1][2] < N
<1>1. calls \in Seq(Int \X Int)
  BY DEF RangesApart
<1>2. Len(calls) \in Nat \ {0} /\ Head(calls) = calls[1] /\ calls[1] \in Int \X Int
  BY <1>1
<1> QED
  BY <1>2 DEF RangesApart, Sort!l, Sort!r

LEMMA CallKeepsSort ==
  ASSUME NEW N, SortFits(N, given, nums, calls, sortI, sortJ), Sort!Call
  PROVE  SortFits(N, given', nums', calls', sortI', sortJ')
<1>1. calls # <<>> /\ sortJ = -1 /\ given' = given /\ nums' = nums
  BY DEF Sort!Call, Sort!None
<1>2. PICK lo, hi : lo = calls[1][1] /\ hi = calls[1][2]
  OBVIOUS
<1>3. /\ Sort!l = lo /\ Sort!r = hi /\ Len(calls) \in Nat \ {0}
      /\ lo \in Int /\ hi \in Int /\ 0 <= lo /\ hi < N
  BY <1>1, <1>2, FirstCall DEF SortFits
<1>4. CASE lo >= hi
  <2>1. calls' = Tail(calls) /\ sortJ' = sortJ
    BY <1>3, <1>4 DEF Sort!Call
  <2>2. PICK c : c = calls
    OBVIOUS
  <2>3. RangesApart(Tail(c), N) /\ SortedBut(nums, N, Tail(c))
    BY <1>2, <1>3, <1>4, <2>2, DropKeepsSorted DEF SortFits
  <2> QED
    BY <1>1, <2>1, <2>2, <2>3 DEF SortFits
<1>5. CASE ~ (lo >= hi)
  <2>1. calls' = calls /\ sortI' = lo /\ sortJ' = lo
    BY <1>3, <1>5 DEF Sort!Call
  <2>2. Partitioned(nums, lo, hi, lo, lo)
    BY <1>3, <1>5 DEF Partitioned
  <2> QED
    BY <1>1, <1>2, <2>1, <2>2 DEF SortFits
<1> QED
  BY <1>4, <1>5

\* What Turn and Split share: an exchange inside the first range
LEMMA ExchangeKeepsSort ==
  ASSUME NEW N, SortFits(N, given, nums, calls, sortI, sortJ), calls # <<>>,
         NEW a \in Reach(calls, 1), NEW b \in Reach(calls, 1), nums' = Sort!Swapped(a, b)
  PROVE  /\ nums' \in [0 .. N - 1 -> SortValue] /\ SortedBut(nums', N, calls)
         /\ Exchanged(nums, nums', 0 .. N - 1, a, b)
         /\ \A v \in SortValue :
              Cardinality(Places(given, 0 .. N - 1, v)) = Cardinality(Places(nums', 0 .. N - 1, v))
<1>1. PICK c, h, g, D : c = calls /\ h = nums /\ g = nums' /\ D = 0 .. N - 1
  OBVIOUS
<1>2. /\ N \in Nat /\ h \in [D -> SortValue] /\ RangesApart(c, N) /\ SortedBut(h, N, c)
      /\ Len(c) \in Nat \ {0}
  BY <1>1, FirstCall DEF SortFits
<1>3. a \in D /\ b \in D
  <2>1. Reach(c, 1) \subseteq D
    BY <1>1, <1>2, FirstCall DEF Reach
  <2> QED
    BY <1>1, <2>1
<1>4. g = [h EXCEPT ![a] = h[b], ![b] = h[a]]
  BY <1>1 DEF Sort!Swapped
<1>5. g \in [D -> SortValue] /\ Exchanged(h, g, D, a, b)
  BY <1>2, <1>3, <1>4 DEF Exchanged
<1>6. h \in [0 .. N - 1 -> Int] /\ g \in [0 .. N - 1 -> Int]
  BY <1>1, <1>2, <1>5, ContainersAssumption
<1>7. SortedBut(g, N, c)
  BY <1>1, <1>2, <1>5, <1>6, ExchangeKeepsSorted
<1>8. IsFiniteSet(D)
  BY <1>1, <1>2, FS_Interval
<1>9. ASSUME NEW v
      PROVE  Cardinality(Places(g, D, v)) = Cardinality(Places(h, D, v))
  BY <1>3, <1>5, <1>8, SwapKeepsCounts
<1> QED
  BY <1>1, <1>5, <1>7, <1>9 DEF SortFits

LEMMA TurnKeepsSort ==
  ASSUME NEW N, SortFits(N, given, nums, calls, sortI, sortJ), Sort!Turn
  PROVE  SortFits(N, given', nums', calls', sortI', sortJ')
<1>1. PICK lo, hi, a, b : lo = calls[1][1] /\ hi = calls[1][2] /\ a = sortI /\ b = sortJ
  OBVIOUS
<1>2. sortJ # -1 /\ calls # <<>> /\ given' = given /\ calls' = calls
  BY DEF Sort!Turn, Sort!None, SortFits
<1>3. /\ Sort!l = lo /\ Sort!r = hi /\ Len(calls) \in Nat \ {0} /\ N \in Nat
      /\ lo \in Int /\ hi \in Int /\ 0 <= lo /\ hi < N
  BY <1>1, <1>2, FirstCall DEF SortFits
<1>4. PICK h : h = nums
  OBVIOUS
<1>5. Partitioned(h, lo, hi, a, b) /\ h \in [0 .. N - 1 -> Int]
  BY <1>1, <1>2, <1>4, ContainersAssumption DEF SortFits
<1>6. a \in Int /\ b \in Int /\ lo <= a /\ a <= b /\ b < hi /\ sortJ' = b + 1
  BY <1>1, <1>3, <1>5 DEF Sort!Turn, Partitioned
<1>7. CASE h[b] < h[hi]
  <2>1. nums' = Sort!Swapped(a, b) /\ sortI' = a + 1
    BY <1>1, <1>3, <1>4, <1>7 DEF Sort!Turn
  <2>2. a \in Reach(calls, 1) /\ b \in Reach(calls, 1)
    BY <1>1, <1>3, <1>6 DEF Reach
  <2>3. PICK g : g = nums'
    OBVIOUS
  <2>4. /\ g \in [0 .. N - 1 -> SortValue] /\ SortedBut(g, N, calls)
        /\ Exchanged(h, g, 0 .. N - 1, a, b)
        /\ \A v \in SortValue :
             Cardinality(Places(given, 0 .. N - 1, v)) = Cardinality(Places(g, 0 .. N - 1, v))
    BY <1>2, <1>4, <2>1, <2>2, <2>3, ExchangeKeepsSort
  <2>5. Partitioned(g, lo, hi, a + 1, b + 1)
    <3>1. \A q \in lo .. hi : q \in 0 .. N - 1
      BY <1>3
    <3>2. g[hi] = h[hi]
      BY <1>3, <1>6, <2>4, <3>1 DEF Exchanged
    <3>3. ASSUME NEW q \in lo .. a
          PROVE  g[q] < g[hi]
      <4>1. CASE q = a
        BY <1>7, <2>4, <3>2, <4>1 DEF Exchanged
      <4>2. CASE q # a
        <5>1. q \in lo .. a - 1 /\ q \in (0 .. N - 1) \ {a, b}
          BY <1>3, <1>6, <4>2
        <5> QED
          BY <1>5, <2>4, <3>2, <5>1 DEF Exchanged, Partitioned
      <4> QED
        BY <4>1, <4>2
    <3>4. ASSUME NEW q \in a + 1 .. b
          PROVE  g[q] >= g[hi]
      <4>1. CASE q = b
        <5>1. a \in a .. b - 1
          BY <1>6, <4>1
        <5> QED
          BY <1>5, <2>4, <3>2, <4>1, <5>1 DEF Exchanged, Partitioned
      <4>2. CASE q # b
        <5>1. q \in a .. b - 1 /\ q \in (0 .. N - 1) \ {a, b}
          BY <1>3, <1>6, <4>2
        <5> QED
          BY <1>5, <2>4, <3>2, <5>1 DEF Exchanged, Partitioned
      <4> QED
        BY <4>1, <4>2
    <3>5. (a + 1) - 1 = a /\ (b + 1) - 1 = b
      BY <1>6
    <3> QED
      BY <1>3, <1>6, <3>3, <3>4, <3>5 DEF Partitioned
  <2> QED
    BY <1>1, <1>2, <1>6, <2>1, <2>3, <2>4, <2>5 DEF SortFits
<1>8. CASE ~ (h[b] < h[hi])
  <2>1. nums' = nums /\ sortI' = a
    BY <1>1, <1>3, <1>4, <1>8 DEF Sort!Turn
  <2>2. Partitioned(h, lo, hi, a, b + 1)
    <3>1. b \in 0 .. N - 1 /\ hi \in 0 .. N - 1
      BY <1>3, <1>6
    <3>2. h[b] >= h[hi]
      BY <1>5, <1>8, <3>1
    <3>3. ASSUME NEW q \in a .. (b + 1) - 1
          PROVE  h[q] >= h[hi]
      <4>1. q = b \/ q \in a .. b - 1
        BY <1>6
      <4> QED
        BY <1>5, <3>2, <4>1 DEF Partitioned
    <3>4. lo < hi /\ \A q \in lo .. a - 1 : h[q] < h[hi]
      BY <1>5 DEF Partitioned
    <3>5. b + 1 \in Int /\ a <= b + 1 /\ b + 1 <= hi
      BY <1>3, <1>6
    <3> QED
      BY <1>6, <3>3, <3>4, <3>5 DEF Partitioned
  <2> QED
    BY <1>1, <1>2, <1>4, <1>6, <2>1, <2>2 DEF SortFits
<1> QED
  BY <1>7, <1>8

LEMMA SplitKeepsSort ==
  ASSUME NEW N, SortFits(N, given, nums, calls, sortI, sortJ), Sort!Split
  PROVE  SortFits(N, given', nums', calls', sortI', sortJ')
<1>1. PICK c, lo, hi, a : c = calls /\ lo = c[1][1] /\ hi = c[1][2] /\ a = sortI
  OBVIOUS
<1>2. sortJ # -1 /\ c # <<>> /\ given' = given /\ sortJ' = -1
  BY <1>1 DEF Sort!Split, Sort!None, SortFits
<1>3. /\ Sort!l = lo /\ Sort!r = hi /\ Len(c) \in Nat \ {0} /\ N \in Nat
      /\ lo \in Int /\ hi \in Int /\ 0 <= lo /\ hi < N
  BY <1>1, <1>2, FirstCall DEF SortFits
<1>4. PICK h : h = nums
  OBVIOUS
<1>5. Partitioned(h, lo, hi, a, hi) /\ h \in [0 .. N - 1 -> Int]
  BY <1>1, <1>2, <1>3, <1>4, ContainersAssumption DEF SortFits, Sort!Split
<1>6. a \in Int /\ lo <= a /\ a <= hi /\ lo < hi
  BY <1>5 DEF Partitioned
<1>7. nums' = Sort!Swapped(a, hi) /\ calls' = Halves(c, a)
  BY <1>1, <1>3 DEF Sort!Split, Halves
<1>8. a \in Reach(c, 1) /\ hi \in Reach(c, 1)
  BY <1>1, <1>3, <1>6 DEF Reach
<1>9. PICK g : g = nums'
  OBVIOUS
<1>10. /\ g \in [0 .. N - 1 -> SortValue] /\ SortedBut(g, N, c)
       /\ Exchanged(h, g, 0 .. N - 1, a, hi)
       /\ \A v \in SortValue :
            Cardinality(Places(given, 0 .. N - 1, v)) = Cardinality(Places(g, 0 .. N - 1, v))
  BY <1>1, <1>2, <1>4, <1>7, <1>8, <1>9, ExchangeKeepsSort
<1>11. ASSUME NEW q \in lo .. a - 1
       PROVE  g[q] < g[a]
  <2>1. q \in (0 .. N - 1) \ {a, hi}
    BY <1>3, <1>6
  <2> QED
    BY <1>5, <1>10, <2>1 DEF Exchanged, Partitioned
<1>12. ASSUME NEW q \in a + 1 .. hi
       PROVE  g[q] >= g[a]
  <2>1. CASE q = hi
    <3>1. a \in a .. hi - 1
      BY <1>3, <1>6, <2>1
    <3> QED
      BY <1>5, <1>10, <2>1, <3>1 DEF Exchanged, Partitioned
  <2>2. CASE q # hi
    <3>1. q \in a .. hi - 1 /\ q \in (0 .. N - 1) \ {a, hi}
      BY <1>3, <1>6, <2>2
    <3> QED
      BY <1>5, <1>10, <3>1 DEF Exchanged, Partitioned
  <2> QED
    BY <2>1, <2>2
<1>13. RangesApart(Halves(c, a), N) /\ SortedBut(g, N, Halves(c, a))
  <2>1. RangesApart(c, N) /\ g \in [0 .. N - 1 -> Int]
    BY <1>1, <1>10, ContainersAssumption DEF SortFits
  <2> QED
    BY <1>1, <1>3, <1>8, <1>10, <1>11, <1>12, <2>1, SplitKeepsSorted
<1> QED
  BY <1>2, <1>7, <1>9, <1>10, <1>13 DEF SortFits

LEMMA SortInvSorts ==
  ASSUME SortInv
  PROVE  Sort!Sorts
<1>1. PICK N \in Nat : SortFits(N, given, nums, calls, sortI, sortJ)
  BY DEF SortInv
<1>2. Sort!Index = 0 .. N - 1
  BY <1>1 DEF SortFits, Sort!Index
<1>3. ASSUME NEW v \in SortValue
      PROVE  Sort!Cardinality({p \in Sort!Index : given[p] = v})
               = Sort!Cardinality({p \in Sort!Index : nums[p] = v})
  BY <1>1, <1>2 DEF SortFits, Places, Sort!Cardinality, Cardinality
<1>4. ASSUME NEW p \in 0 .. N - 1, Sort!Settled(p), NEW q \in 0 .. N - 1
      PROVE  (q < p => nums[q] <= nums[p]) /\ (q > p => nums[q] >= nums[p])
  <2>1. PICK c, h : c = calls /\ h = nums
    OBVIOUS
  <2>2. c \in Seq(Int \X Int) /\ h \in [0 .. N - 1 -> Int] /\ SortedBut(h, N, c)
    BY <1>1, <2>1, ContainersAssumption DEF SortFits, RangesApart
  <2>3. DOMAIN c = 1 .. Len(c)
    BY <2>2
  <2>4. ~ Together(c, p, q) /\ ~ Together(c, q, p)
    BY <1>4, <2>1, <2>3 DEF Sort!Settled, Together, Reach
  <2>5. (q < p => h[q] <= h[p]) /\ (p < q => h[p] <= h[q])
    BY <2>2, <2>4 DEF SortedBut
  <2> QED
    BY <2>1, <2>2, <2>5
<1>5. ASSUME sortJ # -1
      PROVE  /\ Sort!l <= sortI /\ sortI <= sortJ /\ sortJ <= Sort!r
             /\ Sort!l \in 0 .. N - 1 /\ Sort!r \in 0 .. N - 1
  <2>1. calls # <<>> /\ Partitioned(nums, calls[1][1], calls[1][2], sortI, sortJ)
    BY <1>1, <1>5 DEF SortFits
  <2>2. /\ Sort!l = calls[1][1] /\ Sort!r = calls[1][2]
        /\ calls[1][1] \in Int /\ calls[1][2] \in Int /\ 0 <= calls[1][1] /\ calls[1][2] < N
    BY <1>1, <2>1, FirstCall DEF SortFits
  <2>3. /\ calls[1][1] < calls[1][2]
        /\ calls[1][1] <= sortI /\ sortI <= sortJ /\ sortJ <= calls[1][2]
    BY <2>1 DEF Partitioned
  <2> QED
    BY <2>2, <2>3
<1> QED
  BY <1>2, <1>3, <1>4, <1>5 DEF Sort!Sorts, Sort!None

\* Quicksort.cpp: for an array of any length and any elements, the elements stay those of
\* the array, no index leaves the range, and a place that no call will look at again has
\* its final element.
THEOREM QuicksortSorts == SortSpec => []Sort!Sorts
<1>1. Sort!InitFor(Nat) => SortInv
  BY SortInitCorrect
<1>2. SortInv /\ [Sort!Next]_sortVars => SortInv'
  <2>1. ASSUME SortInv, Sort!Next
        PROVE  SortInv'
    <3>1. PICK N \in Nat : SortFits(N, given, nums, calls, sortI, sortJ)
      BY <2>1 DEF SortInv
    <3>2. SortFits(N, given', nums', calls', sortI', sortJ')
      BY <2>1, <3>1, CallKeepsSort, TurnKeepsSort, SplitKeepsSort DEF Sort!Next
    <3> QED
      BY <3>2 DEF SortInv
  <2>2. ASSUME SortInv, UNCHANGED sortVars
        PROVE  SortInv'
    BY <2>2 DEF sortVars, SortInv
  <2> QED
    BY <2>1, <2>2
<1> QED
  BY <1>1, <1>2, SortInvSorts, PTL DEF SortSpec

-----------------------------------------------------------------------------
(* The cache: erase and insert_front make lists of lists, erase_end is     *)
(* erase at the last node, and the map follows.                            *)

Pointer == CacheNode \cup {head, NULL}

NodeRecord == [key : Int, value : Int, left : Pointer, right : Pointer]

\* W numbers the n nodes of the list from the front, with head as number 0.
After(W, n, j) == IF j = n THEN NULL ELSE W[j + 1]

Links(r, W, n, j) ==
  [key |-> r[j][1], value |-> r[j][2], left |-> W[j - 1], right |-> After(W, n, j)]

\* The nodes nd with the tail tl are a list of the entries r; all other nodes are free.
ListFits(nd, tl, r, W, n) ==
  /\ n \in Nat /\ r \in [1 .. n -> Int \X Int]
  /\ nd \in [CacheNode \cup {head} -> NodeRecord \cup {Freed}]
  /\ W \in [0 .. n -> CacheNode \cup {head}] /\ W[0] = head
  /\ \A a, b \in 0 .. n : W[a] = W[b] => a = b
  /\ nd[head] \in NodeRecord /\ nd[head].right = After(W, n, 0)
  /\ \A j \in 1 .. n : nd[W[j]] = Links(r, W, n, j)
  /\ \A y \in CacheNode : (\A j \in 1 .. n : y # W[j]) => nd[y] = Freed
  /\ tl = W[n]

\* f without its element at m
Cut(f, m, first, n) == [j \in first .. n - 1 |-> IF j < m THEN f[j] ELSE f[j + 1]]

LEMMA CacheConstants ==
  /\ head \notin CacheNode /\ NULL \notin CacheNode \cup {head} /\ Freed \notin NodeRecord
  BY ContainersAssumption DEF NodeRecord, Pointer

LEMMA ListNodes ==
  ASSUME NEW nd, NEW tl, NEW r, NEW W, NEW n, ListFits(nd, tl, r, W, n)
  PROVE  /\ \A j \in 0 .. n : /\ W[j] \in CacheNode \cup {head} /\ After(W, n, j) \in Pointer
                              /\ nd[W[j]] \in NodeRecord /\ nd[W[j]].right = After(W, n, j)
         /\ \A j \in 1 .. n : W[j] \in CacheNode /\ nd[W[j]].left = W[j - 1]
                              /\ nd[W[j]].key = r[j][1] /\ nd[W[j]].value = r[j][2]
<1> USE DEF ListFits
<1>1. ASSUME NEW j \in 0 .. n
      PROVE  W[j] \in CacheNode \cup {head} /\ After(W, n, j) \in Pointer
  <2>1. j # n => j + 1 \in 0 .. n
    OBVIOUS
  <2> QED
    BY <2>1 DEF After, Pointer
<1>2. ASSUME NEW j \in 1 .. n
      PROVE  W[j] \in CacheNode
  <2>1. W[j] # W[0]
    BY <1>2
  <2> QED
    BY <1>1, <2>1
<1>3. ASSUME NEW j \in 1 .. n
      PROVE  /\ nd[W[j]] \in NodeRecord /\ nd[W[j]].right = After(W, n, j)
             /\ nd[W[j]].left = W[j - 1]
             /\ nd[W[j]].key = r[j][1] /\ nd[W[j]].value = r[j][2]
  <2>1. nd[W[j]] = Links(r, W, n, j)
    OBVIOUS
  <2>2. j \in 0 .. n /\ j - 1 \in 0 .. n /\ r[j] \in Int \X Int
    OBVIOUS
  <2>3. After(W, n, j) \in Pointer /\ W[j - 1] \in Pointer
    BY <1>1, <2>2 DEF Pointer
  <2> QED
    BY <2>1, <2>2, <2>3 DEF Links, NodeRecord
<1>4. nd[W[0]] \in NodeRecord /\ nd[W[0]].right = After(W, n, 0)
  OBVIOUS
<1>5. \A j \in 0 .. n : j = 0 \/ j \in 1 .. n
  OBVIOUS
<1> QED
  BY <1>1, <1>2, <1>3, <1>4, <1>5

\* What erase makes of the nodes nd and the tail tl: it changes its node, the one before and
\* the one after.
Erased(nd, tl, W, n, m, g, e) ==
  /\ g \in [CacheNode \cup {head} -> NodeRecord \cup {Freed}]
  /\ g[W[m]] = Freed
  /\ g[W[m - 1]] = [nd[W[m - 1]] EXCEPT !.right = After(W, n, m)]
  /\ m < n => g[W[m + 1]] = [nd[W[m + 1]] EXCEPT !.left = W[m - 1]]
  /\ \A y \in CacheNode \cup {head} :
       y # W[m] /\ y # W[m - 1] /\ (m < n => y # W[m + 1]) => g[y] = nd[y]
  /\ e = IF m = n THEN W[n - 1] ELSE tl

LEMMA EraseChanges ==
  ASSUME NEW l, NEW r, NEW W, NEW n, ListFits(l.node, l.tail, r, W, n), NEW m \in 1 .. n
  PROVE  Erased(l.node, l.tail, W, n, m, Cache!erase(l, W[m]).node, Cache!erase(l, W[m]).tail)
<1>1. PICK nd, y, q, z : nd = l.node /\ y = W[m] /\ q = W[m - 1] /\ z = After(W, n, m)
  OBVIOUS
<1>2. /\ nd \in [CacheNode \cup {head} -> NodeRecord \cup {Freed}]
      /\ y \in CacheNode /\ q \in CacheNode \cup {head} /\ y # q
      /\ nd[y] \in NodeRecord /\ nd[y].left = q /\ nd[y].right = z
      /\ nd[q] \in NodeRecord /\ n \in Nat /\ z \in Pointer
  <2>1. m \in 0 .. n /\ m - 1 \in 0 .. n /\ m # m - 1 /\ n \in Nat
    BY DEF ListFits
  <2>2. y # q
    BY <1>1, <2>1 DEF ListFits
  <2>3. /\ nd \in [CacheNode \cup {head} -> NodeRecord \cup {Freed}]
        /\ q \in CacheNode \cup {head}
    BY <1>1, <2>1 DEF ListFits
  <2>4. /\ y \in CacheNode /\ z \in Pointer
        /\ nd[y] \in NodeRecord /\ nd[y].left = q /\ nd[y].right = z /\ nd[q] \in NodeRecord
    BY <1>1, <2>1, ListNodes
  <2> QED
    BY <2>1, <2>2, <2>3, <2>4
<1>3. /\ m = n => z = NULL
      /\ m < n => z = W[m + 1] /\ z # y /\ z # q /\ z # NULL /\ nd[z] \in NodeRecord
                  /\ z \in CacheNode
  <2>1. m = n => z = NULL
    BY <1>1 DEF After
  <2>2. ASSUME m < n
        PROVE  z = W[m + 1] /\ z # y /\ z # q /\ z # NULL /\ nd[z] \in NodeRecord
               /\ z \in CacheNode
    <3>1. m + 1 \in 1 .. n /\ m + 1 \in 0 .. n /\ m \in 0 .. n /\ m - 1 \in 0 .. n
          /\ m + 1 # m /\ m + 1 # m - 1 /\ m # n
      BY <1>2, <2>2
    <3>2. z = W[m + 1]
      BY <1>1, <3>1 DEF After
    <3>3. z # y /\ z # q
      BY <1>1, <3>1, <3>2 DEF ListFits
    <3>4. z \in CacheNode /\ nd[z] \in NodeRecord
      BY <1>1, <3>1, <3>2, ListNodes
    <3> QED
      BY <3>2, <3>3, <3>4, CacheConstants
  <2> QED
    BY <2>1, <2>2
<1>4. m = n \/ m < n
  BY <1>2
<1>5. PICK f : f = [nd EXCEPT ![q].right = z, ![y] = Freed]
  OBVIOUS
<1>6. [nd[q] EXCEPT !.right = z] \in NodeRecord
  BY <1>2 DEF NodeRecord
<1>7. /\ f \in [CacheNode \cup {head} -> NodeRecord \cup {Freed}]
      /\ f[y] = Freed /\ f[q] = [nd[q] EXCEPT !.right = z]
      /\ \A p \in CacheNode \cup {head} : p # y /\ p # q => f[p] = nd[p]
  BY <1>2, <1>5, <1>6
<1>8. PICK g : g = IF z = NULL THEN f ELSE [f EXCEPT ![z].left = q]
  OBVIOUS
<1>9. /\ g \in [CacheNode \cup {head} -> NodeRecord \cup {Freed}]
      /\ g[y] = Freed /\ g[q] = [nd[q] EXCEPT !.right = z]
      /\ m < n => g[z] = [nd[z] EXCEPT !.left = q]
      /\ \A p \in CacheNode \cup {head} : p # y /\ p # q /\ (m < n => p # z) => g[p] = nd[p]
  <2>1. CASE m = n
    BY <1>2, <1>3, <1>7, <1>8, <2>1
  <2>2. CASE m < n
    <3>1. q \in Pointer
      BY <1>2 DEF Pointer
    <3>2. [nd[z] EXCEPT !.left = q] \in NodeRecord /\ f[z] = nd[z]
      BY <1>3, <1>7, <2>2, <3>1 DEF NodeRecord
    <3>3. g = [f EXCEPT ![z] = [nd[z] EXCEPT !.left = q]]
      BY <1>3, <1>8, <2>2, <3>2
    <3> QED
      BY <1>2, <1>3, <1>7, <2>2, <3>2, <3>3
  <2> QED
    BY <1>4, <2>1, <2>2
<1>10. Cache!erase(l, y) = [node |-> g, tail |-> IF y = l.tail THEN q ELSE l.tail]
  BY <1>1, <1>2, <1>5, <1>8 DEF Cache!erase
<1>11. l.tail = W[n] /\ (y = l.tail <=> m = n)
  BY <1>1, <1>2 DEF ListFits
<1> QED
  BY <1>1, <1>2, <1>3, <1>4, <1>9, <1>10, <1>11 DEF Erased

\* A list without its m-th node is a list.
LEMMA EraseFits ==
  ASSUME NEW l, NEW r, NEW W, NEW n, ListFits(l.node, l.tail, r, W, n), NEW m \in 1 .. n
  PROVE  ListFits(Cache!erase(l, W[m]).node, Cache!erase(l, W[m]).tail,
                  Cut(r, m, 1, n), Cut(W, m, 0, n), n - 1)
<1>1. PICK nd, g, e, V, s : /\ nd = l.node /\ g = Cache!erase(l, W[m]).node
                            /\ e = Cache!erase(l, W[m]).tail
                            /\ V = Cut(W, m, 0, n) /\ s = Cut(r, m, 1, n)
  OBVIOUS
<1>2. /\ n \in Nat /\ m \in 1 .. n /\ n - 1 \in Nat /\ r \in [1 .. n -> Int \X Int]
      /\ W \in [0 .. n -> CacheNode \cup {head}] /\ W[0] = head
      /\ \A a, b \in 0 .. n : W[a] = W[b] => a = b
      /\ nd[head] \in NodeRecord /\ nd[head].right = After(W, n, 0)
      /\ \A j \in 1 .. n : nd[W[j]] = Links(r, W, n, j)
      /\ \A y \in CacheNode : (\A j \in 1 .. n : y # W[j]) => nd[y] = Freed
      /\ l.tail = W[n]
  <2>1. ListFits(nd, l.tail, r, W, n)
    BY <1>1
  <2>2. n \in Nat
    BY <2>1 DEF ListFits
  <2>3. m \in 1 .. n /\ n - 1 \in Nat
    BY <2>2
  <2> QED
    BY <2>1, <2>2, <2>3 DEF ListFits
<1>3. /\ g \in [CacheNode \cup {head} -> NodeRecord \cup {Freed}]
      /\ g[W[m]] = Freed
      /\ g[W[m - 1]] = [nd[W[m - 1]] EXCEPT !.right = After(W, n, m)]
      /\ m < n => g[W[m + 1]] = [nd[W[m + 1]] EXCEPT !.left = W[m - 1]]
      /\ \A y \in CacheNode \cup {head} :
           y # W[m] /\ y # W[m - 1] /\ (m < n => y # W[m + 1]) => g[y] = nd[y]
      /\ e = IF m = n THEN W[n - 1] ELSE W[n]
  <2>1. Erased(nd, l.tail, W, n, m, g, e)
    BY <1>1, EraseChanges
  <2> QED
    BY <1>2, <2>1 DEF Erased
<1>4. /\ V \in [0 .. n - 1 -> CacheNode \cup {head}] /\ s \in [1 .. n - 1 -> Int \X Int]
      /\ \A j \in 0 .. n - 1 : V[j] = IF j < m THEN W[j] ELSE W[j + 1]
      /\ \A j \in 1 .. n - 1 : s[j] = IF j < m THEN r[j] ELSE r[j + 1]
  BY <1>1, <1>2 DEF Cut
<1>5. ASSUME NEW j \in 0 .. n - 1
      PROVE  /\ j < m - 1 => After(V, n - 1, j) = After(W, n, j)
             /\ j = m - 1 => After(V, n - 1, j) = After(W, n, m)
             /\ j >= m => After(V, n - 1, j) = After(W, n, j + 1)
  <2>1. CASE j = n - 1
    BY <1>2, <2>1 DEF After
  <2>2. CASE j # n - 1
    <3>1. j + 1 \in 0 .. n - 1 /\ j # n /\ j + 1 # n
      BY <1>2, <2>2
    <3>2. After(V, n - 1, j) = V[j + 1] /\ After(W, n, j) = W[j + 1]
          /\ After(W, n, j + 1) = W[(j + 1) + 1]
      BY <2>2, <3>1 DEF After
    <3>3. V[j + 1] = IF j + 1 < m THEN W[j + 1] ELSE W[(j + 1) + 1]
      BY <1>4, <3>1
    <3> QED
      BY <1>2, <3>2, <3>3
  <2> QED
    BY <2>1, <2>2
<1>6. \A a, b \in 0 .. n - 1 : V[a] = V[b] => a = b
  <2>1. ASSUME NEW a \in 0 .. n - 1, NEW b \in 0 .. n - 1, V[a] = V[b]
        PROVE  a = b
    <3> DEFINE old(j) == IF j < m THEN j ELSE j + 1
    <3>1. \A j \in 0 .. n - 1 : old(j) \in 0 .. n /\ V[j] = W[old(j)]
      BY <1>2, <1>4
    <3>2. old(a) = old(b)
      <4>1. old(a) \in 0 .. n /\ old(b) \in 0 .. n /\ W[old(a)] = W[old(b)]
        BY <2>1, <3>1
      <4> HIDE DEF old
      <4> QED
        BY <1>2, <4>1
    <3> QED
      BY <1>2, <3>2
  <2> QED
    BY <2>1
<1>7. \A j \in 0 .. n : W[j] \in CacheNode \cup {head} /\ nd[W[j]] \in NodeRecord
      /\ nd[W[j]].right = After(W, n, j)
  BY <1>1, ListNodes
<1>8. g[head] \in NodeRecord /\ g[head].right = After(V, n - 1, 0)
  <2>1. CASE m = 1
    <3>1. g[head] = [nd[head] EXCEPT !.right = After(W, n, 1)]
      BY <1>2, <1>3, <2>1
    <3>2. After(W, n, 1) \in Pointer /\ 0 \in 0 .. n - 1
      BY <1>1, <1>2, <2>1, ListNodes
    <3>3. After(V, n - 1, 0) = After(W, n, 1)
      BY <1>5, <2>1, <3>2
    <3> QED
      BY <1>2, <3>1, <3>2, <3>3 DEF NodeRecord
  <2>2. CASE m # 1
    <3>1. 0 \in 0 .. n /\ m \in 0 .. n /\ m - 1 \in 0 .. n /\ 0 # m /\ 0 # m - 1
          /\ (m < n => m + 1 \in 0 .. n) /\ 0 # m + 1 /\ 0 \in 0 .. n - 1 /\ 0 < m - 1
      BY <1>2, <2>2
    <3>2. g[head] = nd[head]
      BY <1>2, <1>3, <3>1
    <3>3. After(V, n - 1, 0) = After(W, n, 0)
      BY <1>5, <3>1
    <3> QED
      BY <1>2, <3>2, <3>3
  <2> QED
    BY <2>1, <2>2
<1>9. ASSUME NEW j \in 1 .. n - 1
      PROVE  g[V[j]] = Links(s, V, n - 1, j)
  <2>1. /\ j \in 1 .. n /\ j - 1 \in 0 .. n - 1 /\ j \in 0 .. n - 1 /\ j + 1 \in 1 .. n
        /\ m \in 0 .. n /\ m - 1 \in 0 .. n /\ (m < n => m + 1 \in 0 .. n)
    BY <1>2
  <2>2. CASE j < m - 1
    <3>1. V[j] = W[j] /\ V[j - 1] = W[j - 1] /\ s[j] = r[j]
          /\ After(V, n - 1, j) = After(W, n, j)
      BY <1>2, <1>4, <1>5, <2>1, <2>2
    <3>2. j # m /\ j # m - 1 /\ j # m + 1
      BY <1>2, <2>2
    <3>3. g[W[j]] = nd[W[j]]
      <4>1. j \in 0 .. n
        BY <2>1
      <4>2. W[j] # W[m] /\ W[j] # W[m - 1] /\ (m < n => W[j] # W[m + 1])
        BY <1>2, <2>1, <3>2, <4>1
      <4> QED
        BY <1>3, <1>7, <4>1, <4>2
    <3> QED
      BY <1>2, <2>1, <3>1, <3>3 DEF Links
  <2>3. CASE j = m - 1
    <3>1. V[j] = W[j] /\ V[j - 1] = W[j - 1] /\ s[j] = r[j]
          /\ After(V, n - 1, j) = After(W, n, m)
      BY <1>2, <1>4, <1>5, <2>1, <2>3
    <3>2. g[W[j]] = [nd[W[j]] EXCEPT !.right = After(W, n, m)]
      BY <1>3, <2>3
    <3>3. nd[W[j]] = Links(r, W, n, j)
      BY <1>2, <2>1
    <3> QED
      BY <3>1, <3>2, <3>3 DEF Links
  <2>4. CASE j = m
    <3>1. m < n /\ V[j] = W[m + 1] /\ V[j - 1] = W[m - 1] /\ s[j] = r[m + 1]
          /\ After(V, n - 1, j) = After(W, n, m + 1)
      BY <1>2, <1>4, <1>5, <2>1, <2>4
    <3>2. g[W[m + 1]] = [nd[W[m + 1]] EXCEPT !.left = W[m - 1]]
      BY <1>3, <3>1
    <3>3. nd[W[m + 1]] = Links(r, W, n, m + 1)
      BY <1>2, <2>1, <2>4
    <3> QED
      BY <3>1, <3>2, <3>3 DEF Links
  <2>5. CASE j > m
    <3>1. V[j] = W[j + 1] /\ V[j - 1] = W[j] /\ s[j] = r[j + 1]
          /\ After(V, n - 1, j) = After(W, n, j + 1)
      BY <1>2, <1>4, <1>5, <2>1, <2>5
    <3>2. j + 1 # m /\ j + 1 # m - 1 /\ j + 1 # m + 1 /\ j + 1 \in 0 .. n
      BY <1>2, <2>1, <2>5
    <3>3. g[W[j + 1]] = nd[W[j + 1]]
      BY <1>2, <1>3, <1>7, <2>1, <3>2
    <3>4. nd[W[j + 1]] = Links(r, W, n, j + 1)
      BY <1>2, <2>1
    <3>5. (j + 1) - 1 = j
      BY <2>1
    <3> QED
      BY <3>1, <3>3, <3>4, <3>5 DEF Links
  <2> QED
    BY <1>2, <2>2, <2>3, <2>4, <2>5
<1>10. ASSUME NEW y \in CacheNode, \A j \in 1 .. n - 1 : y # V[j]
       PROVE  g[y] = Freed
  <2>1. CASE y = W[m]
    BY <1>3, <2>1
  <2>2. CASE y # W[m]
    <3>1. ASSUME NEW j \in 1 .. n
          PROVE  y # W[j]
      <4>1. CASE j < m
        <5>1. j \in 1 .. n - 1 /\ j \in 0 .. n - 1
          BY <1>2, <4>1
        <5>2. V[j] = W[j]
          BY <1>4, <4>1, <5>1
        <5> QED
          BY <1>10, <5>1, <5>2
      <4>2. CASE j > m
        <5>1. j - 1 \in 1 .. n - 1 /\ j - 1 \in 0 .. n - 1 /\ ~ (j - 1 < m) /\ (j - 1) + 1 = j
          BY <1>2, <4>2
        <5>2. V[j - 1] = W[j]
          BY <1>4, <5>1
        <5> QED
          BY <1>10, <5>1, <5>2
      <4> QED
        BY <1>2, <2>2, <4>1, <4>2
    <3>2. nd[y] = Freed
      BY <1>2, <3>1
    <3>3. y # head
      BY CacheConstants
    <3>4. y # W[m - 1]
      <4>1. m - 1 = 0 \/ m - 1 \in 1 .. n
        BY <1>2
      <4> QED
        BY <1>2, <3>1, <3>3, <4>1
    <3>5. m < n => y # W[m + 1]
      <4>1. m < n => m + 1 \in 1 .. n
        BY <1>2
      <4> QED
        BY <3>1, <4>1
    <3> QED
      BY <1>3, <2>2, <3>2, <3>4, <3>5
  <2> QED
    BY <2>1, <2>2
<1>11. e = V[n - 1] /\ V[0] = head
  <2>1. n - 1 \in 0 .. n - 1 /\ 0 \in 0 .. n - 1 /\ 0 < m /\ (m < n => ~ (n - 1 < m)) /\ (m = n => n - 1 < m)
        /\ (n - 1) + 1 = n /\ (m = n \/ m < n)
    BY <1>2
  <2> QED
    BY <1>2, <1>3, <1>4, <2>1
<1>12. ListFits(g, e, s, V, n - 1)
  BY <1>2, <1>3, <1>4, <1>6, <1>8, <1>9, <1>10, <1>11 DEF ListFits
<1> QED
  BY <1>1, <1>12

\* A new node in front of a list makes a list.
NodesWith(W, y, n) == [j \in 0 .. n + 1 |-> IF j = 0 THEN head ELSE IF j = 1 THEN y ELSE W[j - 1]]

EntriesWith(r, en, n) == [j \in 1 .. n + 1 |-> IF j = 1 THEN en ELSE r[j - 1]]

\* What insert_front makes of the nodes nd and the tail tl
Inserted(nd, tl, W, n, y, en, g, e) ==
  /\ g \in [CacheNode \cup {head} -> NodeRecord \cup {Freed}]
  /\ g[y] = [key |-> en[1], value |-> en[2], left |-> head, right |-> After(W, n, 0)]
  /\ g[head] = [nd[head] EXCEPT !.right = y]
  /\ n > 0 => g[W[1]] = [nd[W[1]] EXCEPT !.left = y]
  /\ \A p \in CacheNode \cup {head} : p # y /\ p # head /\ (n > 0 => p # W[1]) => g[p] = nd[p]
  /\ e = IF n = 0 THEN y ELSE tl

LEMMA InsertChanges ==
  ASSUME NEW l, NEW r, NEW W, NEW n, ListFits(l.node, l.tail, r, W, n),
         NEW y \in CacheNode, l.node[y] = Freed, NEW k \in Int, NEW v \in Int
  PROVE  Inserted(l.node, l.tail, W, n, y, <<k, v>>,
                  Cache!insert_front(l, y, k, v).node, Cache!insert_front(l, y, k, v).tail)
<1>1. PICK nd, z, new : /\ nd = l.node /\ z = After(W, n, 0)
                        /\ new = [key |-> k, value |-> v, left |-> head, right |-> z]
  OBVIOUS
<1>2. /\ n \in Nat /\ nd \in [CacheNode \cup {head} -> NodeRecord \cup {Freed}]
      /\ nd[head] \in NodeRecord /\ nd[head].right = z /\ y # head
  BY <1>1, CacheConstants DEF ListFits
<1>3. z \in Pointer /\ (n = 0 => z = NULL)
  <2>1. 0 \in 0 .. n
    BY <1>2
  <2> QED
    BY <1>1, <1>2, <2>1, ListNodes DEF After
<1>4. ASSUME n > 0
      PROVE  z = W[1] /\ z # NULL /\ z \in CacheNode /\ z # y /\ z # head /\ nd[z] \in NodeRecord
  <2>1. 1 \in 1 .. n /\ 1 \in 0 .. n /\ n # 0
    BY <1>2, <1>4
  <2>2. z = W[1]
    BY <1>1, <2>1 DEF After
  <2>3. z \in CacheNode /\ nd[z] \in NodeRecord
    BY <1>1, <2>1, <2>2, ListNodes
  <2> QED
    BY <1>1, <2>2, <2>3, CacheConstants
<1>5. new \in NodeRecord /\ [nd[head] EXCEPT !.right = y] \in NodeRecord
  BY <1>1, <1>2, <1>3 DEF NodeRecord, Pointer
<1>6. PICK f : f = [nd EXCEPT ![y] = new, ![head].right = y]
  OBVIOUS
<1>7. /\ f \in [CacheNode \cup {head} -> NodeRecord \cup {Freed}]
      /\ f[y] = new /\ f[head] = [nd[head] EXCEPT !.right = y]
      /\ \A p \in CacheNode \cup {head} : p # y /\ p # head => f[p] = nd[p]
  BY <1>2, <1>5, <1>6
<1>8. PICK g : g = IF z = NULL THEN f ELSE [f EXCEPT ![z].left = y]
  OBVIOUS
<1>9. /\ g \in [CacheNode \cup {head} -> NodeRecord \cup {Freed}]
      /\ g[y] = new /\ g[head] = [nd[head] EXCEPT !.right = y]
      /\ n > 0 => g[W[1]] = [nd[W[1]] EXCEPT !.left = y]
      /\ \A p \in CacheNode \cup {head} : p # y /\ p # head /\ (n > 0 => p # W[1]) => g[p] = nd[p]
  <2>1. CASE n = 0
    BY <1>2, <1>3, <1>7, <1>8, <2>1
  <2>2. CASE n > 0
    <3>1. [nd[z] EXCEPT !.left = y] \in NodeRecord /\ f[z] = nd[z]
      BY <1>4, <1>7, <2>2 DEF NodeRecord, Pointer
    <3>2. g = [f EXCEPT ![z] = [nd[z] EXCEPT !.left = y]]
      BY <1>4, <1>8, <2>2, <3>1
    <3> QED
      BY <1>2, <1>4, <1>7, <2>2, <3>1, <3>2
  <2> QED
    BY <1>2, <2>1, <2>2
<1>10. Cache!insert_front(l, y, k, v) = [node |-> g, tail |-> IF l.tail = head THEN y ELSE l.tail]
  BY <1>1, <1>2, <1>6, <1>8 DEF Cache!insert_front
<1>11. l.tail = head <=> n = 0
  <2>1. l.tail = W[n] /\ W[0] = head /\ 0 \in 0 .. n /\ n \in 0 .. n
    BY <1>2 DEF ListFits
  <2> QED
    BY <2>1 DEF ListFits
<1> QED
  BY <1>1, <1>9, <1>10, <1>11 DEF Inserted

LEMMA InsertFits ==
  ASSUME NEW l, NEW r, NEW W, NEW n, ListFits(l.node, l.tail, r, W, n),
         NEW y \in CacheNode, l.node[y] = Freed, NEW k \in Int, NEW v \in Int
  PROVE  ListFits(Cache!insert_front(l, y, k, v).node, Cache!insert_front(l, y, k, v).tail,
                  EntriesWith(r, <<k, v>>, n), NodesWith(W, y, n), n + 1)
<1>1. PICK nd, g, e, V, s : /\ nd = l.node /\ g = Cache!insert_front(l, y, k, v).node
                            /\ e = Cache!insert_front(l, y, k, v).tail
                            /\ V = NodesWith(W, y, n) /\ s = EntriesWith(r, <<k, v>>, n)
  OBVIOUS
<1>2. /\ n \in Nat /\ r \in [1 .. n -> Int \X Int]
      /\ W \in [0 .. n -> CacheNode \cup {head}] /\ W[0] = head
      /\ \A a, b \in 0 .. n : W[a] = W[b] => a = b
      /\ nd[head] \in NodeRecord
      /\ \A j \in 1 .. n : nd[W[j]] = Links(r, W, n, j)
      /\ \A p \in CacheNode : (\A j \in 1 .. n : p # W[j]) => nd[p] = Freed
      /\ l.tail = W[n] /\ nd[y] = Freed
  BY <1>1 DEF ListFits
<1>3. /\ g \in [CacheNode \cup {head} -> NodeRecord \cup {Freed}]
      /\ g[y] = [key |-> k, value |-> v, left |-> head, right |-> After(W, n, 0)]
      /\ g[head] = [nd[head] EXCEPT !.right = y]
      /\ n > 0 => g[W[1]] = [nd[W[1]] EXCEPT !.left = y]
      /\ \A p \in CacheNode \cup {head} : p # y /\ p # head /\ (n > 0 => p # W[1]) => g[p] = nd[p]
      /\ e = IF n = 0 THEN y ELSE W[n]
  <2>1. Inserted(nd, l.tail, W, n, y, <<k, v>>, g, e)
    BY <1>1, InsertChanges
  <2> QED
    BY <1>2, <2>1 DEF Inserted
<1>4. \A j \in 0 .. n : W[j] \in CacheNode \cup {head} /\ nd[W[j]] \in NodeRecord /\ W[j] # y
  <2>1. \A j \in 0 .. n : W[j] \in CacheNode \cup {head} /\ nd[W[j]] \in NodeRecord
    BY <1>1, ListNodes
  <2> QED
    BY <1>2, <2>1, CacheConstants
<1>5. /\ V \in [0 .. n + 1 -> CacheNode \cup {head}] /\ s \in [1 .. n + 1 -> Int \X Int]
      /\ V[0] = head /\ V[1] = y /\ \A j \in 2 .. n + 1 : V[j] = W[j - 1]
      /\ s[1] = <<k, v>> /\ \A j \in 2 .. n + 1 : s[j] = r[j - 1]
  BY <1>1, <1>2 DEF NodesWith, EntriesWith
<1>6. /\ After(V, n + 1, 0) = y
      /\ \A j \in 1 .. n + 1 : After(V, n + 1, j) = After(W, n, j - 1)
  <2>1. After(V, n + 1, 0) = y
    BY <1>2, <1>5 DEF After
  <2>2. ASSUME NEW j \in 1 .. n + 1
        PROVE  After(V, n + 1, j) = After(W, n, j - 1)
    <3>1. CASE j = n + 1
      BY <1>2, <3>1 DEF After
    <3>2. CASE j # n + 1
      <4>1. j + 1 \in 2 .. n + 1 /\ j - 1 # n /\ (j + 1) - 1 = j /\ (j - 1) + 1 = j
        BY <1>2, <3>2
      <4> QED
        BY <1>5, <3>2, <4>1 DEF After
    <3> QED
      BY <3>1, <3>2
  <2> QED
    BY <2>1, <2>2
<1>7. \A a, b \in 0 .. n + 1 : V[a] = V[b] => a = b
  <2>1. ASSUME NEW a \in 0 .. n + 1, NEW b \in 0 .. n + 1, V[a] = V[b]
        PROVE  a = b
    <3> DEFINE old(j) == IF j = 0 THEN 0 ELSE j - 1
    <3>1. ASSUME NEW j \in 0 .. n + 1
          PROVE  old(j) \in 0 .. n /\ (j # 1 => V[j] = W[old(j)]) /\ (V[j] = y <=> j = 1)
      <4>1. CASE j = 0
        BY <1>2, <1>5, <4>1, CacheConstants
      <4>2. CASE j = 1
        BY <1>2, <1>5, <4>2
      <4>3. CASE j \in 2 .. n + 1
        <5>1. j - 1 \in 0 .. n /\ j # 0 /\ j # 1
          BY <1>2, <4>3
        <5>2. V[j] = W[j - 1]
          BY <1>5, <4>3
        <5> QED
          BY <1>4, <5>1, <5>2
      <4> QED
        BY <1>2, <4>1, <4>2, <4>3
    <3>2. CASE a = 1 \/ b = 1
      BY <2>1, <3>1, <3>2
    <3>3. CASE a # 1 /\ b # 1
      <4>1. old(a) \in 0 .. n /\ old(b) \in 0 .. n /\ W[old(a)] = W[old(b)]
        BY <2>1, <3>1, <3>3
      <4>2. old(a) = old(b)
        <5> HIDE DEF old
        <5> QED
          BY <1>2, <4>1
      <4> QED
        BY <1>2, <3>3, <4>2
    <3> QED
      BY <3>2, <3>3
  <2> QED
    BY <2>1
<1>8. g[head] \in NodeRecord /\ g[head].right = After(V, n + 1, 0)
  BY <1>2, <1>3, <1>6 DEF NodeRecord, Pointer
<1>9. ASSUME NEW j \in 1 .. n + 1
      PROVE  g[V[j]] = Links(s, V, n + 1, j)
  <2>1. CASE j = 1
    <3>1. After(V, n + 1, j) = After(W, n, 0) /\ V[j - 1] = head
      BY <1>2, <1>5, <1>6, <2>1
    <3>2. V[j] = y /\ s[j][1] = k /\ s[j][2] = v
      BY <1>5, <2>1
    <3> QED
      BY <1>3, <3>1, <3>2 DEF Links
  <2>2. CASE j = 2
    <3>1. n > 0 /\ 1 \in 1 .. n /\ 2 \in 2 .. n + 1
      BY <1>2, <2>2
    <3>2. After(V, n + 1, j) = After(W, n, 1) /\ V[j - 1] = y /\ V[j] = W[1] /\ s[j] = r[1]
      BY <1>5, <1>6, <2>2, <3>1
    <3>3. nd[W[1]] = Links(r, W, n, 1) /\ g[W[1]] = [nd[W[1]] EXCEPT !.left = y]
      BY <1>2, <1>3, <3>1
    <3> QED
      BY <3>2, <3>3 DEF Links
  <2>3. CASE j \in 3 .. n + 1
    <3>1. j - 1 \in 1 .. n /\ j - 1 \in 0 .. n /\ j \in 2 .. n + 1 /\ j - 1 \in 2 .. n + 1
          /\ j - 1 # 1 /\ j - 1 # 0 /\ 0 \in 0 .. n /\ 1 \in 0 .. n
      BY <1>2, <2>3
    <3>2. After(V, n + 1, j) = After(W, n, j - 1) /\ V[j - 1] = W[(j - 1) - 1]
          /\ V[j] = W[j - 1] /\ s[j] = r[j - 1]
      BY <1>5, <1>6, <3>1
    <3>3. W[j - 1] # head /\ W[j - 1] # W[1]
      BY <1>2, <3>1
    <3>4. g[W[j - 1]] = nd[W[j - 1]]
      BY <1>3, <1>4, <3>1, <3>3
    <3>5. nd[W[j - 1]] = Links(r, W, n, j - 1)
      BY <1>2, <3>1
    <3> QED
      BY <3>2, <3>4, <3>5 DEF Links
  <2> QED
    BY <1>2, <2>1, <2>2, <2>3
<1>10. ASSUME NEW p \in CacheNode, \A j \in 1 .. n + 1 : p # V[j]
       PROVE  g[p] = Freed
  <2>1. p # y
    <3>1. 1 \in 1 .. n + 1
      BY <1>2
    <3> QED
      BY <1>5, <1>10, <3>1
  <2>2. ASSUME NEW j \in 1 .. n
        PROVE  p # W[j]
    <3>1. j + 1 \in 1 .. n + 1 /\ j + 1 \in 2 .. n + 1 /\ (j + 1) - 1 = j
      BY <1>2
    <3> QED
      BY <1>5, <1>10, <3>1
  <2>3. p # head /\ (n > 0 => p # W[1])
    BY <1>2, <2>2, CacheConstants
  <2> QED
    BY <1>2, <1>3, <2>1, <2>2, <2>3
<1>11. e = V[n + 1]
  <2>1. n = 0 \/ (n + 1 \in 2 .. n + 1 /\ (n + 1) - 1 = n)
    BY <1>2
  <2> QED
    BY <1>2, <1>3, <1>5, <2>1
<1>12. ListFits(g, e, s, V, n + 1)
  BY <1>2, <1>3, <1>5, <1>7, <1>8, <1>9, <1>10, <1>11 DEF ListFits
<1> QED
  BY <1>1, <1>12

\* The map knows the node of every entry, by its key, and no two entries have the same key.
MapFits(map, r, W, n) ==
  /\ map \in [{r[j][1] : j \in 1 .. n} -> CacheNode]
  /\ \A j \in 1 .. n : map[r[j][1]] = W[j]
  /\ \A a, b \in 1 .. n : r[a][1] = r[b][1] => a = b

LEMMA EraseMapFits ==
  ASSUME NEW map, NEW r, NEW W, NEW n \in Nat, MapFits(map, r, W, n), NEW m \in 1 .. n
  PROVE  MapFits(Cache!Without(map, r[m][1]), Cut(r, m, 1, n), Cut(W, m, 0, n), n - 1)
<1>1. PICK s, V, new : s = Cut(r, m, 1, n) /\ V = Cut(W, m, 0, n) /\ new = Cache!Without(map, r[m][1])
  OBVIOUS
<1>2. ASSUME NEW j \in 1 .. n - 1
      PROVE  V[j] = IF j < m THEN W[j] ELSE W[j + 1]
  BY <1>1 DEF Cut
<1>3. ASSUME NEW j \in 1 .. n - 1
      PROVE  s[j] = IF j < m THEN r[j] ELSE r[j + 1]
  BY <1>1 DEF Cut
<1> DEFINE old(j) == IF j < m THEN j ELSE j + 1
<1>4. \A j \in 1 .. n - 1 : old(j) \in 1 .. n /\ old(j) # m /\ s[j] = r[old(j)] /\ V[j] = W[old(j)]
  BY <1>2, <1>3
<1>5. ASSUME NEW j \in 1 .. n, j # m
      PROVE  \E i \in 1 .. n - 1 : old(i) = j
  <2>1. CASE j < m
    <3>1. j \in 1 .. n - 1 /\ old(j) = j
      BY <2>1
    <3> QED
      BY <3>1
  <2>2. CASE j > m
    <3>1. j - 1 \in 1 .. n - 1 /\ old(j - 1) = j
      BY <2>2
    <3> QED
      BY <3>1
  <2> QED
    BY <1>5, <2>1, <2>2
<1>6. \A a, b \in 1 .. n - 1 : old(a) = old(b) => a = b
  OBVIOUS
<1> HIDE DEF old
<1>7. /\ DOMAIN new = {r[j][1] : j \in 1 .. n} \ {r[m][1]}
      /\ \A p \in DOMAIN new : new[p] = map[p]
  BY <1>1 DEF MapFits, Cache!Without
<1>8. {r[j][1] : j \in 1 .. n} \ {r[m][1]} = {s[j][1] : j \in 1 .. n - 1}
  <2>1. ASSUME NEW j \in 1 .. n, r[j][1] # r[m][1]
        PROVE  r[j][1] \in {s[i][1] : i \in 1 .. n - 1}
    <3>1. j # m
      BY <2>1
    <3>2. PICK i \in 1 .. n - 1 : old(i) = j
      BY <1>5, <3>1
    <3> QED
      BY <1>4, <3>2
  <2>2. ASSUME NEW j \in 1 .. n - 1
        PROVE  s[j][1] \in {r[i][1] : i \in 1 .. n} \ {r[m][1]}
    <3>1. old(j) \in 1 .. n /\ old(j) # m /\ s[j] = r[old(j)]
      BY <1>4
    <3>2. r[old(j)][1] # r[m][1]
      BY <3>1 DEF MapFits
    <3> QED
      BY <3>1, <3>2
  <2> QED
    BY <2>1, <2>2
<1>9. ASSUME NEW j \in 1 .. n - 1
      PROVE  new[s[j][1]] = V[j]
  <2>1. s[j][1] \in DOMAIN new
    BY <1>7, <1>8
  <2>2. new[s[j][1]] = map[s[j][1]]
    BY <1>7, <2>1
  <2>3. map[r[old(j)][1]] = W[old(j)]
    BY <1>4 DEF MapFits
  <2> QED
    BY <1>4, <2>2, <2>3
<1>10. \A a, b \in 1 .. n - 1 : s[a][1] = s[b][1] => a = b
  BY <1>4, <1>6 DEF MapFits
<1>11. new \in [{r[j][1] : j \in 1 .. n} \ {r[m][1]} -> CacheNode]
  <2>1. PICK K, p : K = {r[j][1] : j \in 1 .. n} /\ p = r[m][1]
    OBVIOUS
  <2>2. map \in [K -> CacheNode] /\ new = [k \in K \ {p} |-> map[k]]
    BY <1>1, <2>1 DEF MapFits, Cache!Without
  <2>3. new \in [K \ {p} -> CacheNode]
    BY <2>2
  <2> QED
    BY <2>1, <2>3
<1>12. new \in [{s[j][1] : j \in 1 .. n - 1} -> CacheNode]
  BY <1>8, <1>11
<1> QED
  BY <1>1, <1>9, <1>10, <1>12 DEF MapFits

LEMMA InsertMapFits ==
  ASSUME NEW map, NEW r, NEW W, NEW n \in Nat, MapFits(map, r, W, n),
         NEW k, NEW v, NEW y \in CacheNode, k \notin DOMAIN map
  PROVE  MapFits(Cache!With(map, k, y), EntriesWith(r, <<k, v>>, n), NodesWith(W, y, n), n + 1)
<1>1. PICK s, V, new : /\ s = EntriesWith(r, <<k, v>>, n) /\ V = NodesWith(W, y, n)
                       /\ new = Cache!With(map, k, y)
  OBVIOUS
<1>2. /\ V[1] = y /\ \A j \in 1 .. n : V[j + 1] = W[j]
  BY <1>1 DEF NodesWith
<1>3. s[1] = <<k, v>> /\ \A j \in 1 .. n : s[j + 1] = r[j]
  BY <1>1 DEF EntriesWith
<1>4. /\ DOMAIN new = {r[j][1] : j \in 1 .. n} \cup {k} /\ new = [p \in DOMAIN new |-> new[p]]
      /\ new[k] = y /\ \A p \in {r[j][1] : j \in 1 .. n} : p # k => new[p] = map[p]
  BY <1>1 DEF MapFits, Cache!With
<1>5. ASSUME NEW j \in 1 .. n + 1
      PROVE  j = 1 \/ \E i \in 1 .. n : j = i + 1
  <2>1. CASE j # 1
    <3>1. j - 1 \in 1 .. n /\ j = (j - 1) + 1
      BY <2>1
    <3> QED
      BY <3>1
  <2> QED
    BY <2>1
<1>6. \A j \in 1 .. n : r[j][1] # k
  BY DEF MapFits
<1>7. {r[j][1] : j \in 1 .. n} \cup {k} = {s[j][1] : j \in 1 .. n + 1}
  <2>1. ASSUME NEW j \in 1 .. n
        PROVE  r[j][1] \in {s[i][1] : i \in 1 .. n + 1}
    <3>1. j + 1 \in 1 .. n + 1 /\ s[j + 1] = r[j]
      BY <1>3
    <3> QED
      BY <3>1
  <2>2. k \in {s[i][1] : i \in 1 .. n + 1}
    <3>1. 1 \in 1 .. n + 1 /\ s[1][1] = k
      BY <1>3
    <3> QED
      BY <3>1
  <2>3. ASSUME NEW j \in 1 .. n + 1
        PROVE  s[j][1] \in {r[i][1] : i \in 1 .. n} \cup {k}
    BY <1>3, <1>5
  <2> QED
    BY <2>1, <2>2, <2>3
<1>8. ASSUME NEW j \in 1 .. n + 1
      PROVE  new[s[j][1]] = V[j]
  <2>1. CASE j = 1
    BY <1>2, <1>3, <1>4, <2>1
  <2>2. ASSUME NEW i \in 1 .. n, j = i + 1
        PROVE  new[s[j][1]] = V[j]
    BY <1>2, <1>3, <1>4, <1>6, <2>2 DEF MapFits
  <2> QED
    BY <1>5, <2>1, <2>2
<1>9. ASSUME NEW a \in 1 .. n + 1, NEW b \in 1 .. n + 1, s[a][1] = s[b][1]
      PROVE  a = b
  <2>1. CASE a = 1 /\ b = 1
    BY <2>1
  <2>2. ASSUME NEW i \in 1 .. n, a = i + 1 \/ b = i + 1, a = 1 \/ b = 1
        PROVE  FALSE
    <3>1. s[i + 1] = r[i] /\ s[1][1] = k /\ r[i][1] # k
      BY <1>3, <1>6
    <3> QED
      BY <1>9, <2>2, <3>1
  <2>3. ASSUME NEW i \in 1 .. n, NEW j \in 1 .. n, a = i + 1, b = j + 1
        PROVE  a = b
    <3>1. r[i][1] = r[j][1]
      BY <1>3, <1>9, <2>3
    <3> QED
      BY <2>3, <3>1 DEF MapFits
  <2> QED
    BY <1>5, <2>1, <2>2, <2>3
<1>10. \A p \in DOMAIN new : new[p] \in CacheNode
  BY <1>4, <1>7 DEF MapFits
<1>11. new \in [{s[j][1] : j \in 1 .. n + 1} -> CacheNode]
  BY <1>4, <1>7, <1>10
<1> QED
  BY <1>1, <1>8, <1>9, <1>11 DEF MapFits

\* The three ways to make the sequence `recent` from itself
LEMMA EntriesAreSequence ==
  ASSUME NEW S, NEW s \in Seq(S), NEW en \in S
  PROVE  /\ <<en>> \o s \in Seq(S) /\ Len(<<en>> \o s) = Len(s) + 1
         /\ <<en>> \o s = EntriesWith(s, en, Len(s))
<1>1. PICK d, one : one = <<en>> /\ d = one \o s
  OBVIOUS
<1>2. one \in Seq(S) /\ Len(one) = 1 /\ one[1] = en
  BY <1>1
<1>3. /\ d \in Seq(S) /\ Len(d) = 1 + Len(s)
      /\ \A j \in 1 .. 1 + Len(s) : d[j] = IF j <= 1 THEN one[j] ELSE s[j - 1]
  BY <1>1, <1>2, Concatenation
<1>4. Len(s) \in Nat
  OBVIOUS
<1>5. d = [j \in 1 .. Len(s) + 1 |-> d[j]]
  BY <1>3, <1>4
<1>6. \A j \in 1 .. Len(s) + 1 : d[j] = IF j = 1 THEN en ELSE s[j - 1]
  BY <1>2, <1>3, <1>4
<1>7. d = EntriesWith(s, en, Len(s))
  BY <1>5, <1>6 DEF EntriesWith
<1> QED
  BY <1>1, <1>3, <1>4, <1>7

LEMMA CutIsSequence ==
  ASSUME NEW S, NEW s \in Seq(S), NEW m \in 1 .. Len(s)
  PROVE  /\ Cut(s, m, 1, Len(s)) \in Seq(S) /\ Len(Cut(s, m, 1, Len(s))) = Len(s) - 1
         /\ Cache!RemoveAt(s, m) = Cut(s, m, 1, Len(s))
         /\ m = Len(s) => SubSeq(s, 1, m - 1) = Cut(s, m, 1, Len(s))
<1>1. PICK n \in Nat : n = Len(s)
  OBVIOUS
<1> DEFINE c == Cut(s, m, 1, n)
<1>2. n - 1 \in Nat /\ c \in [1 .. n - 1 -> S]
      /\ \A j \in 1 .. n - 1 : c[j] = IF j < m THEN s[j] ELSE s[j + 1]
  BY <1>1 DEF Cut
<1> HIDE DEF c
<1>3. c \in Seq(S) /\ Len(c) = n - 1
  <2>1. PICK p \in Nat : p = n - 1
    BY <1>2
  <2>2. c \in [1 .. p -> S]
    BY <1>2, <2>1
  <2>3. c \in Seq(S) /\ Len(c) = p
    BY <2>2
  <2> QED
    BY <2>1, <2>3
<1>4. PICK f, g, d : f = SubSeq(s, 1, m - 1) /\ g = SubSeq(s, m + 1, n) /\ d = f \o g
  OBVIOUS
<1>5. /\ f \in Seq(S) /\ Len(f) = m - 1 /\ \A j \in 1 .. m - 1 : f[j] = s[j]
  BY <1>1, <1>4
<1>6. /\ g \in Seq(S) /\ Len(g) = n - m /\ \A j \in 1 .. n - m : g[j] = s[j + m]
  <2>1. m \in Int /\ m + 1 \in Int /\ 1 <= m + 1 /\ m <= n
    BY <1>1
  <2>2. g \in Seq(S)
    BY <1>1, <1>4, <2>1
  <2>3. Len(g) = n - m
    BY <1>1, <1>4, <2>1
  <2>4. ASSUME NEW j \in 1 .. n - m
        PROVE  g[j] = s[j + m]
    <3>1. j \in 1 .. n - (m + 1) + 1 /\ (m + 1) + j - 1 = j + m
      BY <1>1
    <3>2. g[j] = s[(m + 1) + j - 1]
      BY <1>1, <1>4, <2>1, <3>1
    <3> QED
      BY <3>1, <3>2
  <2> QED
    BY <2>2, <2>3, <2>4
<1>7. /\ d \in Seq(S) /\ Len(d) = Len(f) + Len(g)
      /\ \A j \in 1 .. Len(f) + Len(g) : d[j] = IF j <= Len(f) THEN f[j] ELSE g[j - Len(f)]
  BY <1>4, <1>5, <1>6, Concatenation
<1>8. Len(d) = n - 1
  BY <1>1, <1>5, <1>6, <1>7
<1>9. ASSUME NEW j \in 1 .. n - 1
      PROVE  d[j] = c[j]
  <2>1. CASE j < m
    <3>1. d[j] = f[j]
      <4>1. Len(f) = m - 1 /\ j \in 1 .. Len(f) + Len(g) /\ j <= Len(f)
        BY <1>1, <1>5, <1>6, <2>1
      <4> QED
        BY <1>7, <4>1
    <3>2. f[j] = s[j]
      BY <1>1, <1>5, <2>1
    <3>3. c[j] = s[j]
      BY <1>2, <2>1
    <3> QED
      BY <3>1, <3>2, <3>3
  <2>2. CASE j >= m
    <3>1. d[j] = g[j - (m - 1)]
      <4>1. Len(f) = m - 1 /\ j \in 1 .. Len(f) + Len(g) /\ ~ (j <= Len(f))
        BY <1>1, <1>5, <1>6, <2>2
      <4> QED
        BY <1>7, <4>1
    <3>2. j - (m - 1) \in 1 .. n - m /\ (j - (m - 1)) + m = j + 1
      BY <1>1, <2>2
    <3>3. g[j - (m - 1)] = s[j + 1]
      BY <1>6, <3>2
    <3>4. c[j] = s[j + 1]
      BY <1>1, <1>2, <2>2
    <3> QED
      BY <3>1, <3>3, <3>4
  <2> QED
    BY <1>1, <2>1, <2>2
<1>10. d = [j \in 1 .. n - 1 |-> d[j]] /\ c = [j \in 1 .. n - 1 |-> c[j]]
  BY <1>2, <1>7, <1>8
<1>11. d = c
  BY <1>9, <1>10
<1>12. ASSUME m = n
       PROVE  f = c
  <2>1. f = [j \in 1 .. n - 1 |-> f[j]]
    BY <1>1, <1>5, <1>12
  <2>2. \A j \in 1 .. n - 1 : f[j] = c[j]
    BY <1>1, <1>2, <1>5, <1>12
  <2> QED
    BY <1>10, <2>1, <2>2
<1> QED
  BY <1>1, <1>3, <1>4, <1>11, <1>12 DEF c, Cache!RemoveAt

LEMMA WalkIs ==
  ASSUME NEW W, ListFits(list.node, list.tail, recent, W, Len(recent))
  PROVE  \A j \in 0 .. Len(recent) : Cache!Walk[j] = W[j]
<1>1. PICK n, nd : n = Len(recent) /\ nd = list.node
  OBVIOUS
<1>2. /\ n \in Nat /\ W \in [0 .. n -> CacheNode \cup {head}] /\ W[0] = head
      /\ \A j \in 1 .. n : nd[W[j - 1]].right = W[j]
  <2>1. n \in Nat /\ W \in [0 .. n -> CacheNode \cup {head}] /\ W[0] = head
    BY <1>1 DEF ListFits
  <2>2. ASSUME NEW j \in 1 .. n
        PROVE  nd[W[j - 1]].right = W[j]
    <3>1. j - 1 \in 0 .. n /\ j - 1 # n /\ (j - 1) + 1 = j
      BY <2>1
    <3>2. nd[W[j - 1]].right = After(W, n, j - 1)
      BY <1>1, <3>1, ListNodes
    <3> QED
      BY <3>1, <3>2 DEF After
  <2> QED
    BY <2>1, <2>2
<1> DEFINE Walks(f) == f = [j \in 0 .. n |-> IF j = 0 THEN head ELSE nd[f[j - 1]].right]
<1>3. Cache!Walk = CHOOSE f : Walks(f)
  BY <1>1 DEF Cache!Walk
<1>4. Walks(W)
  <2>1. PICK V : V = [j \in 0 .. n |-> IF j = 0 THEN head ELSE nd[W[j - 1]].right]
    OBVIOUS
  <2>2. ASSUME NEW j \in 0 .. n
        PROVE  V[j] = W[j]
    <3>1. V[j] = IF j = 0 THEN head ELSE nd[W[j - 1]].right
      BY <2>1
    <3>2. j = 0 \/ j \in 1 .. n
      BY <1>2
    <3> QED
      BY <1>2, <3>1, <3>2
  <2>3. W = [j \in 0 .. n |-> W[j]] /\ V = [j \in 0 .. n |-> V[j]]
    BY <1>2, <2>1
  <2>4. W = V
    BY <2>2, <2>3
  <2> QED
    BY <2>1, <2>4
<1>5. Walks(Cache!Walk)
  BY <1>3, <1>4
<1>6. PICK f : f = Cache!Walk
  OBVIOUS
<1>7. f[0] = head /\ \A j \in 1 .. n : f[j] = nd[f[j - 1]].right
  BY <1>2, <1>5, <1>6
<1> DEFINE T == {j \in 0 .. n : f[j] # W[j]}
<1>8. ASSUME T # {}
      PROVE  FALSE
  <2>1. T \subseteq Nat
    BY <1>2
  <2>2. PICK m \in T : \A j \in T : m <= j
    BY <1>8, <2>1, LeastNumber
  <2>3. m \in 1 .. n
    BY <1>2, <1>7, <2>2
  <2>4. m - 1 \in 0 .. n /\ m - 1 \notin T
    BY <1>2, <2>2, <2>3
  <2>5. f[m - 1] = W[m - 1]
    BY <2>4
  <2> QED
    BY <1>2, <1>7, <2>2, <2>3, <2>5
<1> QED
  BY <1>1, <1>6, <1>8

\* A set that is numbered from 1 to n has n elements.
LEMMA NumberedSet ==
  ASSUME NEW S, NEW n \in Nat, NEW f \in [1 .. n -> S],
         \A a, b \in 1 .. n : f[a] = f[b] => a = b,
         \A y \in S : \E j \in 1 .. n : f[j] = y
  PROVE  Cache!Cardinality(S) = n
<1>1. f \in Injection(1 .. n, S)
  BY DEF Injection, IsInjective
<1>2. f \in Surjection(1 .. n, S)
  BY DEF Surjection
<1>3. ExistsBijection(1 .. n, S)
  BY <1>1, <1>2 DEF ExistsBijection, Bijection
<1>4. Cardinality(S) = n
  BY <1>3, FS_CountingElements
<1> QED
  BY <1>4 DEF Cache!Cardinality, Cardinality

LEMMA CountNodes ==
  ASSUME NEW nd, NEW tl, NEW r, NEW W, NEW n, ListFits(nd, tl, r, W, n)
  PROVE  Cache!Cardinality({y \in CacheNode : nd[y] # Freed}) = n
<1>1. PICK S, f : S = {y \in CacheNode : nd[y] # Freed} /\ f = [j \in 1 .. n |-> W[j]]
  OBVIOUS
<1>2. n \in Nat /\ \A a, b \in 0 .. n : W[a] = W[b] => a = b
  BY DEF ListFits
<1>3. \A j \in 1 .. n : f[j] = W[j] /\ W[j] \in S
  <2>1. \A j \in 1 .. n : W[j] \in CacheNode
    BY ListNodes
  <2>2. ASSUME NEW j \in 1 .. n
        PROVE  nd[W[j]] # Freed
    <3>1. j \in 0 .. n
      OBVIOUS
    <3>2. nd[W[j]] \in NodeRecord
      BY <3>1, ListNodes
    <3> QED
      BY <3>2, CacheConstants
  <2> QED
    BY <1>1, <2>1, <2>2
<1>4. f \in [1 .. n -> S]
  BY <1>1, <1>3
<1>5. \A a, b \in 1 .. n : f[a] = f[b] => a = b
  BY <1>2, <1>3
<1>6. \A y \in S : \E j \in 1 .. n : f[j] = y
  BY <1>1, <1>3 DEF ListFits
<1> QED
  BY <1>1, <1>2, <1>4, <1>5, <1>6, NumberedSet

LEMMA CountKeys ==
  ASSUME NEW map, NEW r, NEW W, NEW n \in Nat, MapFits(map, r, W, n)
  PROVE  Cache!Cardinality(DOMAIN map) = n
<1>1. PICK S, f : S = DOMAIN map /\ f = [j \in 1 .. n |-> r[j][1]]
  OBVIOUS
<1>2. S = {r[j][1] : j \in 1 .. n}
  BY <1>1 DEF MapFits
<1>3. \A j \in 1 .. n : f[j] = r[j][1] /\ r[j][1] \in S
  BY <1>1, <1>2
<1>4. f \in [1 .. n -> S]
  BY <1>1, <1>3
<1>5. \A a, b \in 1 .. n : f[a] = f[b] => a = b
  BY <1>3 DEF MapFits
<1>6. \A y \in S : \E j \in 1 .. n : f[j] = y
  BY <1>2, <1>3
<1>7. Cache!Cardinality(S) = n
  BY <1>4, <1>5, <1>6, NumberedSet
<1> QED
  BY <1>1, <1>7

\* What is known is kept, at the place that Where finds.
LEMMA KnownKeys ==
  ASSUME NEW W, MapFits(mp, recent, W, Len(recent)), recent \in Seq(Int \X Int), NEW k
  PROVE  /\ Cache!Known(k) <=> k \in DOMAIN mp
         /\ k \in DOMAIN mp => /\ Cache!Where(k) \in 1 .. Len(recent)
                               /\ recent[Cache!Where(k)][1] = k
                               /\ mp[k] = W[Cache!Where(k)]
<1>1. DOMAIN mp = {recent[j][1] : j \in 1 .. Len(recent)} /\ DOMAIN recent = 1 .. Len(recent)
  BY DEF MapFits
<1>2. Cache!Known(k) <=> k \in DOMAIN mp
  BY <1>1 DEF Cache!Known
<1>3. ASSUME k \in DOMAIN mp
      PROVE  /\ Cache!Where(k) \in 1 .. Len(recent) /\ recent[Cache!Where(k)][1] = k
             /\ mp[k] = W[Cache!Where(k)]
  <2>1. \E j \in DOMAIN recent : recent[j][1] = k
    BY <1>1, <1>3
  <2>2. PICK j : j = Cache!Where(k)
    OBVIOUS
  <2>3. j \in DOMAIN recent /\ recent[j][1] = k
    BY <2>1, <2>2 DEF Cache!Where
  <2> QED
    BY <1>1, <2>2, <2>3 DEF MapFits
<1> QED
  BY <1>2, <1>3

\* The list and the map hold the entries r.
CacheFits(l, map, r) ==
  \E W : ListFits(l.node, l.tail, r, W, Len(r)) /\ MapFits(map, r, W, Len(r))

LEMMA DropFits ==
  ASSUME NEW l, NEW map, NEW W, NEW r \in Seq(Int \X Int), NEW m \in 1 .. Len(r),
         ListFits(l.node, l.tail, r, W, Len(r)), MapFits(map, r, W, Len(r))
  PROVE  CacheFits(Cache!erase(l, W[m]), Cache!Without(map, r[m][1]), Cut(r, m, 1, Len(r)))
<1>1. PICK n, V, c, g, f :
        /\ n \in Nat /\ n = Len(r) /\ V = Cut(W, m, 0, n) /\ c = Cut(r, m, 1, n)
        /\ g = Cache!erase(l, W[m]) /\ f = Cache!Without(map, r[m][1])
  OBVIOUS
<1>2. Len(c) = n - 1
  BY <1>1, CutIsSequence
<1>3. ListFits(g.node, g.tail, c, V, n - 1)
  BY <1>1, EraseFits
<1>4. MapFits(f, c, V, n - 1)
  BY <1>1, EraseMapFits
<1> QED
  BY <1>1, <1>2, <1>3, <1>4 DEF CacheFits

LEMMA AddFits ==
  ASSUME NEW l, NEW map, NEW r \in Seq(Int \X Int), NEW k \in Int, NEW v \in Int,
         CacheFits(l, Cache!Without(map, k), r), Cache!Add(l, map, k, v)
  PROVE  CacheFits(list', mp', <<<<k, v>>>> \o r)
<1>1. PICK n, f, d : /\ n \in Nat /\ n = Len(r) /\ f = Cache!Without(map, k)
                      /\ d = <<<<k, v>>>> \o r
  <2>1. Len(r) \in Nat
    OBVIOUS
  <2> QED
    BY <2>1
<1>2. PICK W : ListFits(l.node, l.tail, r, W, n) /\ MapFits(f, r, W, n)
  BY <1>1 DEF CacheFits
<1>3. PICK y : y = CHOOSE free \in CacheNode : l.node[free] = Freed
  OBVIOUS
<1>4. y \in CacheNode /\ l.node[y] = Freed
  BY <1>3 DEF Cache!Add
<1>5. list' = Cache!insert_front(l, y, k, v) /\ mp' = Cache!With(map, k, y)
  BY <1>3 DEF Cache!Add
<1>6. d = EntriesWith(r, <<k, v>>, n) /\ Len(d) = n + 1
  <2>1. <<k, v>> \in Int \X Int
    OBVIOUS
  <2> QED
    BY <1>1, <2>1, EntriesAreSequence
<1>7. Cache!With(map, k, y) = Cache!With(f, k, y) /\ k \notin DOMAIN f
  <2>1. DOMAIN f = DOMAIN map \ {k} /\ \A p \in DOMAIN f : f[p] = map[p]
    BY <1>1 DEF Cache!Without
  <2>2. DOMAIN f \cup {k} = DOMAIN map \cup {k}
    BY <2>1
  <2>3. \A p \in DOMAIN map \cup {k} : (IF p = k THEN y ELSE f[p]) = (IF p = k THEN y ELSE map[p])
    BY <2>1
  <2>4. [p \in DOMAIN map \cup {k} |-> IF p = k THEN y ELSE f[p]]
          = [p \in DOMAIN map \cup {k} |-> IF p = k THEN y ELSE map[p]]
    BY <2>3
  <2> QED
    BY <2>1, <2>2, <2>4 DEF Cache!With
<1>8. ListFits(list'.node, list'.tail, d, NodesWith(W, y, n), n + 1)
  BY <1>2, <1>4, <1>5, <1>6, InsertFits
<1>9. MapFits(mp', d, NodesWith(W, y, n), n + 1)
  BY <1>1, <1>2, <1>4, <1>5, <1>6, <1>7, InsertMapFits
<1> QED
  BY <1>1, <1>6, <1>8, <1>9 DEF CacheFits

\* erase_end erases the last node.
LEMMA EraseEnd ==
  ASSUME NEW l, NEW r, NEW W, NEW n, ListFits(l.node, l.tail, r, W, n), n > 0
  PROVE  Cache!erase_end(l) = Cache!erase(l, W[n]) /\ l.node[l.tail].key = r[n][1]
<1>1. PICK nd, y, p : nd = l.node /\ y = W[n] /\ p = nd[y]
  OBVIOUS
<1>2. n \in 1 .. n /\ n \in 0 .. n /\ l.tail = y
  BY <1>1 DEF ListFits
<1>3. p.right = NULL /\ p.key = r[n][1]
  BY <1>1, <1>2, ListNodes DEF After
<1> QED
  BY <1>1, <1>2, <1>3 DEF Cache!erase_end, Cache!erase

\* A key that is not in the map: the map is the same without it.
LEMMA WithoutUnknown ==
  ASSUME NEW map, NEW r, NEW W, NEW n, MapFits(map, r, W, n), NEW k, k \notin DOMAIN map
  PROVE  Cache!Without(map, k) = map
<1>1. map = [p \in DOMAIN map |-> map[p]] /\ DOMAIN map \ {k} = DOMAIN map
  BY DEF MapFits
<1> QED
  BY <1>1 DEF Cache!Without

\* The inductive invariant
CacheInv ==
  /\ cap \in Int
  /\ recent \in Seq(Int \X Int)
  /\ CacheFits(list, mp, recent)
  /\ cap > 0 => Len(recent) <= cap
  /\ ~ cacheWrong

LEMMA CacheInit ==
  Cache!InitFor(Int) => CacheInv
<1> SUFFICES ASSUME Cache!InitFor(Int)
             PROVE  CacheInv
  OBVIOUS
<1>1. PICK nd, W, none : /\ nd = list.node /\ W = [j \in 0 .. 0 |-> head]
                         /\ none = [key |-> 0, value |-> 0, left |-> NULL, right |-> NULL]
  OBVIOUS
<1>2. /\ nd = [n \in CacheNode \cup {head} |-> IF n = head THEN none ELSE Freed]
      /\ list.tail = head /\ mp = [k \in {} |-> NULL] /\ recent = <<>> /\ cap \in Int
      /\ ~ cacheWrong
  BY <1>1 DEF Cache!InitFor
<1>3. none \in NodeRecord /\ none.right = NULL
  BY <1>1 DEF NodeRecord, Pointer
<1>4. recent \in Seq(Int \X Int) /\ Len(recent) = 0 /\ recent \in [1 .. 0 -> Int \X Int]
  BY <1>2
<1>5. ListFits(nd, head, recent, W, 0)
  <2>1. /\ nd \in [CacheNode \cup {head} -> NodeRecord \cup {Freed}]
        /\ nd[head] = none /\ \A y \in CacheNode : nd[y] = Freed
    BY <1>2, <1>3, CacheConstants
  <2>2. W \in [0 .. 0 -> CacheNode \cup {head}] /\ W[0] = head
    BY <1>1
  <2> QED
    BY <1>3, <1>4, <2>1, <2>2 DEF ListFits, After
<1>6. MapFits(mp, recent, W, 0)
  BY <1>2 DEF MapFits
<1>7. CacheFits(list, mp, recent)
  BY <1>1, <1>2, <1>4, <1>5, <1>6 DEF CacheFits
<1> QED
  BY <1>2, <1>4, <1>7 DEF CacheInv

\* A key that is known goes to the front.
LEMMA UseOfKnown ==
  ASSUME CacheInv, NEW k \in DOMAIN mp, k \in Int, NEW v \in Int,
         Cache!Add(Cache!erase(list, mp[k]), mp, k, v), recent' = Cache!Used(k, v)
  PROVE  /\ recent' \in Seq(Int \X Int) /\ Len(recent') = Len(recent)
         /\ CacheFits(list', mp', recent')
<1>1. PICK n, m, l, map, r, W, c :
        /\ n \in Nat /\ n = Len(r) /\ m = Cache!Where(k) /\ l = list /\ map = mp /\ r = recent
        /\ ListFits(l.node, l.tail, r, W, n) /\ MapFits(map, r, W, n) /\ c = Cut(r, m, 1, n)
  <2>1. Len(recent) \in Nat
    BY DEF CacheInv
  <2> QED
    BY <2>1 DEF CacheInv, CacheFits
<1>2. r \in Seq(Int \X Int)
  BY <1>1 DEF CacheInv
<1>3. /\ m \in 1 .. n /\ r[m][1] = k /\ map[k] = W[m] /\ Cache!Known(k)
  BY <1>1, <1>2, KnownKeys
<1>4. c \in Seq(Int \X Int) /\ Len(c) = n - 1 /\ Cache!RemoveAt(r, m) = c
  BY <1>1, <1>2, <1>3, CutIsSequence
<1>5. recent' = <<<<k, v>>>> \o c
  BY <1>1, <1>3, <1>4 DEF Cache!Used
<1>6. CacheFits(Cache!erase(l, W[m]), Cache!Without(map, k), c)
  <2>1. CacheFits(Cache!erase(l, W[m]), Cache!Without(map, r[m][1]), c)
    BY <1>1, <1>2, <1>3, DropFits
  <2> QED
    BY <1>3, <2>1
<1>7. Cache!Add(Cache!erase(l, W[m]), map, k, v)
  BY <1>1, <1>3
<1>8. CacheFits(list', mp', <<<<k, v>>>> \o c)
  BY <1>4, <1>6, <1>7, AddFits
<1>9. <<<<k, v>>>> \o c \in Seq(Int \X Int) /\ Len(<<<<k, v>>>> \o c) = (n - 1) + 1
  <2>1. <<k, v>> \in Int \X Int
    OBVIOUS
  <2> QED
    BY <1>4, <2>1, EntriesAreSequence
<1> QED
  BY <1>1, <1>5, <1>8, <1>9

\* A key that is new goes to the front, of all that is kept or of all but the last entry.
LEMMA UseOfNew ==
  ASSUME CacheInv, NEW k \in Int, NEW v \in Int, k \notin DOMAIN mp,
         recent' = Cache!Used(k, v),
         \/ Cache!Cardinality(DOMAIN mp) # cap /\ Cache!Add(list, mp, k, v)
         \/ /\ Cache!Cardinality(DOMAIN mp) = cap
            /\ IF list.tail = head THEN Cache!Add(list, mp, k, v)
               ELSE Cache!Add(Cache!erase_end(list),
                              Cache!Without(mp, list.node[list.tail].key), k, v)
  PROVE  /\ recent' \in Seq(Int \X Int) /\ (cap > 0 => Len(recent') <= cap)
         /\ CacheFits(list', mp', recent')
<1>1. PICK n, l, map, r, W :
        /\ n \in Nat /\ n = Len(r) /\ l = list /\ map = mp /\ r = recent
        /\ ListFits(l.node, l.tail, r, W, n) /\ MapFits(map, r, W, n)
  <2>1. Len(recent) \in Nat
    BY DEF CacheInv
  <2> QED
    BY <2>1 DEF CacheInv, CacheFits
<1>2. r \in Seq(Int \X Int) /\ cap \in Int /\ (cap > 0 => n <= cap)
  BY <1>1 DEF CacheInv
<1>3. Cache!Cardinality(DOMAIN mp) = n /\ ~ Cache!Known(k)
  BY <1>1, <1>2, CountKeys, KnownKeys
<1>4. <<k, v>> \in Int \X Int
  OBVIOUS
<1>5. n = 0 <=> l.tail = head
  <2>1. 0 \in 0 .. n /\ n \in 0 .. n
    BY <1>1
  <2> QED
    BY <1>1, <2>1 DEF ListFits
<1>6. CASE (n # cap \/ n = 0) /\ Cache!Add(l, map, k, v)
  <2>1. recent' = <<<<k, v>>>> \o r
    <3>1. CASE n # cap
      BY <1>1, <1>3, <3>1 DEF Cache!Used
    <3>2. CASE n = 0 /\ n = cap
      <4>1. SubSeq(r, 1, cap - 1) = <<>> /\ r = <<>>
        BY <1>1, <1>2, <3>2
      <4> QED
        BY <1>1, <1>3, <3>2, <4>1 DEF Cache!Used
    <3> QED
      BY <1>6, <3>1, <3>2
  <2>2. CacheFits(l, Cache!Without(map, k), r)
    <3>1. Cache!Without(map, k) = map
      BY <1>1, WithoutUnknown
    <3> QED
      BY <1>1, <3>1 DEF CacheFits
  <2>3. CacheFits(list', mp', <<<<k, v>>>> \o r)
    BY <1>2, <1>6, <2>2, AddFits
  <2>4. <<<<k, v>>>> \o r \in Seq(Int \X Int) /\ Len(<<<<k, v>>>> \o r) = n + 1
    BY <1>1, <1>2, <1>4, EntriesAreSequence
  <2>5. cap > 0 => n + 1 <= cap
    BY <1>1, <1>2, <1>6
  <2> QED
    BY <2>1, <2>3, <2>4, <2>5
<1>7. CASE /\ n = cap /\ n > 0
           /\ Cache!Add(Cache!erase_end(l), Cache!Without(map, l.node[l.tail].key), k, v)
  <2>1. PICK c, g, f : /\ c = Cut(r, n, 1, n) /\ g = Cache!erase(l, W[n])
                       /\ f = Cache!Without(map, r[n][1])
    OBVIOUS
  <2>2. n \in 1 .. Len(r)
    BY <1>1, <1>7
  <2>3. c \in Seq(Int \X Int) /\ Len(c) = n - 1 /\ SubSeq(r, 1, cap - 1) = c
    BY <1>1, <1>2, <1>7, <2>1, <2>2, CutIsSequence
  <2>4. recent' = <<<<k, v>>>> \o c
    BY <1>1, <1>3, <1>7, <2>3 DEF Cache!Used
  <2>5. CacheFits(g, f, c)
    BY <1>1, <1>2, <2>1, <2>2, DropFits
  <2>6. k \notin DOMAIN f
    BY <1>1, <2>1 DEF Cache!Without
  <2>7. CacheFits(g, Cache!Without(f, k), c)
    <3>1. PICK V : ListFits(g.node, g.tail, c, V, Len(c)) /\ MapFits(f, c, V, Len(c))
      BY <2>5 DEF CacheFits
    <3>2. Cache!Without(f, k) = f
      BY <2>6, <3>1, WithoutUnknown
    <3> QED
      BY <2>5, <3>2
  <2>8. Cache!Add(g, f, k, v)
    <3>1. Cache!erase_end(l) = g /\ l.node[l.tail].key = r[n][1]
      BY <1>1, <1>7, <2>1, EraseEnd
    <3> QED
      BY <1>1, <1>7, <2>1, <3>1
  <2>9. CacheFits(list', mp', <<<<k, v>>>> \o c)
    BY <2>3, <2>7, <2>8, AddFits
  <2>10. <<<<k, v>>>> \o c \in Seq(Int \X Int) /\ Len(<<<<k, v>>>> \o c) = (n - 1) + 1
    BY <1>4, <2>3, EntriesAreSequence
  <2> QED
    BY <1>2, <1>7, <2>4, <2>9, <2>10
<1> QED
  BY <1>1, <1>3, <1>5, <1>6, <1>7

LEMMA EntriesAreNumbers ==
  ASSUME NEW e \in CacheEntry
  PROVE  e[1] \in Int /\ e[2] \in Int
  BY ContainersAssumption

LEMMA CacheSet ==
  ASSUME CacheInv, NEW k \in Int, NEW v \in Int, Cache!set(k, v)
  PROVE  CacheInv'
<1>1. recent' = Cache!Used(k, v) /\ UNCHANGED <<cap, cacheWrong>>
  BY DEF Cache!set
<1>2. cap \in Int /\ recent \in Seq(Int \X Int) /\ (cap > 0 => Len(recent) <= cap) /\ ~ cacheWrong
  BY DEF CacheInv
<1>3. CASE k \in DOMAIN mp
  <2>1. Cache!Add(Cache!erase(list, mp[k]), mp, k, v)
    BY <1>3 DEF Cache!set
  <2>2. /\ recent' \in Seq(Int \X Int) /\ Len(recent') = Len(recent)
        /\ CacheFits(list', mp', recent')
    BY <1>1, <1>3, <2>1, UseOfKnown
  <2> QED
    BY <1>1, <1>2, <2>2 DEF CacheInv
<1>4. CASE k \notin DOMAIN mp
  <2>1. /\ recent' \in Seq(Int \X Int) /\ (cap > 0 => Len(recent') <= cap)
        /\ CacheFits(list', mp', recent')
    BY <1>1, <1>4, UseOfNew DEF Cache!set
  <2> QED
    BY <1>1, <1>2, <2>1 DEF CacheInv
<1> QED
  BY <1>3, <1>4

LEMMA CacheGet ==
  ASSUME CacheInv, NEW k \in Int, Cache!get(k)
  PROVE  CacheInv'
<1>1. cap \in Int /\ recent \in Seq(Int \X Int) /\ (cap > 0 => Len(recent) <= cap) /\ ~ cacheWrong
  BY DEF CacheInv
<1>2. PICK W : /\ ListFits(list.node, list.tail, recent, W, Len(recent))
               /\ MapFits(mp, recent, W, Len(recent))
  BY DEF CacheInv, CacheFits
<1>3. CASE k \notin DOMAIN mp
  <2>1. cacheWrong' = (cacheWrong \/ Cache!Known(k)) /\ UNCHANGED <<cap, list, mp, recent>>
    BY <1>3 DEF Cache!get
  <2>2. ~ Cache!Known(k)
    BY <1>1, <1>2, <1>3, KnownKeys
  <2>3. cacheWrong' = FALSE
    BY <1>1, <2>1, <2>2
  <2> QED
    BY <2>1, <2>3 DEF CacheInv, CacheFits
<1>4. CASE k \in DOMAIN mp
  <2>1. PICK v, j : v = list.node[mp[k]].value /\ j = Cache!Where(k)
    OBVIOUS
  <2>2. /\ Cache!Add(Cache!erase(list, mp[k]), mp, k, v) /\ cap' = cap
        /\ cacheWrong' = (cacheWrong \/ v # Cache!Promised(k))
        /\ recent' = IF Cache!Known(k) THEN Cache!Used(k, Cache!Promised(k)) ELSE recent
    BY <1>4, <2>1 DEF Cache!get
  <2>3. /\ Cache!Known(k) /\ j \in 1 .. Len(recent) /\ mp[k] = W[j]
    BY <1>1, <1>2, <1>4, <2>1, KnownKeys
  <2>4. Cache!Promised(k) = recent[j][2]
    BY <2>1, <2>3 DEF Cache!Promised
  <2>5. v = recent[j][2] /\ v \in Int
    <3>1. list.node[W[j]].value = recent[j][2]
      BY <1>2, <2>3, ListNodes
    <3>2. recent[j] \in Int \X Int
      BY <1>1, <2>3
    <3> QED
      BY <2>1, <2>3, <3>1, <3>2
  <2>6. recent' = Cache!Used(k, v) /\ cacheWrong' = FALSE
    BY <1>1, <2>2, <2>3, <2>4, <2>5
  <2>7. /\ recent' \in Seq(Int \X Int) /\ Len(recent') = Len(recent)
        /\ CacheFits(list', mp', recent')
    BY <1>4, <2>2, <2>5, <2>6, UseOfKnown
  <2> QED
    BY <1>1, <2>2, <2>6, <2>7 DEF CacheInv
<1> QED
  BY <1>3, <1>4

LEMMA CacheStep ==
  CacheInv /\ [Cache!Next]_cacheVars => CacheInv'
<1> SUFFICES ASSUME CacheInv, [Cache!Next]_cacheVars
             PROVE  CacheInv'
  OBVIOUS
<1>1. ASSUME NEW k \in Cache!Key, Cache!get(k)
      PROVE  CacheInv'
  <2>1. k \in Int
    BY EntriesAreNumbers DEF Cache!Key
  <2> QED
    BY <1>1, <2>1, CacheGet
<1>2. ASSUME NEW e \in CacheEntry, Cache!set(e[1], e[2])
      PROVE  CacheInv'
  BY <1>2, EntriesAreNumbers, CacheSet
<1>3. CASE UNCHANGED cacheVars
  BY <1>3 DEF CacheInv, CacheFits, cacheVars
<1> QED
  BY <1>1, <1>2, <1>3 DEF Cache!Next

LEMMA CacheGood ==
  CacheInv => CacheKeepsRecency
<1> SUFFICES ASSUME CacheInv
             PROVE  Cache!KeepsRecency
  BY DEF CacheKeepsRecency
<1>1. recent \in Seq(Int \X Int) /\ (cap > 0 => Len(recent) <= cap) /\ ~ cacheWrong
  BY DEF CacheInv
<1>2. PICK n, W, w :
        /\ n \in Nat /\ n = Len(recent) /\ w = Cache!Walk
        /\ ListFits(list.node, list.tail, recent, W, n) /\ MapFits(mp, recent, W, n)
  <2>1. Len(recent) \in Nat
    BY <1>1
  <2> QED
    BY <2>1 DEF CacheInv, CacheFits
<1>3. \A j \in 0 .. n : w[j] = W[j]
  BY <1>2, WalkIs
<1>4. ASSUME NEW j \in 1 .. n
      PROVE  /\ w[j] \in CacheNode /\ list.node[w[j]] # Freed
             /\ list.node[w[j]] = [key |-> recent[j][1], value |-> recent[j][2],
                                   left |-> w[j - 1],
                                   right |-> IF j = n THEN NULL ELSE w[j + 1]]
             /\ mp[recent[j][1]] = w[j]
  <2>1. j \in 0 .. n /\ j - 1 \in 0 .. n /\ (j # n => j + 1 \in 0 .. n)
    BY <1>1, <1>2
  <2>2. w[j] = W[j] /\ w[j - 1] = W[j - 1] /\ (j # n => w[j + 1] = W[j + 1])
    BY <1>3, <2>1
  <2>3. W[j] \in CacheNode /\ list.node[W[j]] # Freed
    BY <1>2, <2>1, ListNodes, CacheConstants
  <2>4. list.node[W[j]] = Links(recent, W, n, j) /\ mp[recent[j][1]] = W[j]
    BY <1>2 DEF ListFits, MapFits
  <2> QED
    BY <2>2, <2>3, <2>4 DEF Links, After
<1>5. list.tail = w[n]
  <2>1. n \in 0 .. n
    BY <1>2
  <2> QED
    BY <1>2, <1>3, <2>1 DEF ListFits
<1>6. /\ Cache!Cardinality({y \in CacheNode : list.node[y] # Freed}) = n
      /\ Cache!Cardinality(DOMAIN mp) = n
  BY <1>2, CountNodes, CountKeys
<1> QED
  BY <1>1, <1>2, <1>4, <1>5, <1>6 DEF Cache!KeepsRecency

\* The cache, with whatever capacity, in any sequence of calls
CacheSpec == Cache!InitFor(Int) /\ [][Cache!Next]_cacheVars

\* LRUCache.cpp: after any sequence of set and get the list in both directions, its tail
\* and the map agree on what was used last, whatever has been evicted, and get answers
\* with the value that was set last.
THEOREM CacheCorrect == CacheSpec => []CacheKeepsRecency
<1> QED
  BY CacheInit, CacheStep, CacheGood, PTL DEF CacheSpec

-----------------------------------------------------------------------------
(* The skip list: on every level a node is followed by the stored node     *)
(* with the next greater key, and a search leaves the last node with a     *)
(* smaller key on every level it has come through.                         *)

SkipSpec == Skip!Init /\ [][Skip!Next]_skipVars

SkipPointer == SkipNode \cup {NULL}

SkipRecord ==
  [key : Int, value : Int, forward : UNION {[0 .. h -> SkipPointer] : h \in 0 .. max_level}]

SkipStored(nd) == {n \in SkipNode : nd[n] # Freed}

SkipOn(nd, l) == {n \in SkipStored(nd) : l \in DOMAIN nd[n].forward}

\* n comes after m, by its key.
Behind(nd, m, n) == m = header \/ nd[m].key < nd[n].key

\* y follows m at level l.
Follows(nd, m, l, y) ==
  IF y = NULL THEN \A n \in SkipOn(nd, l) : ~ Behind(nd, m, n)
  ELSE /\ y \in SkipOn(nd, l) /\ Behind(nd, m, y)
       /\ \A n \in SkipOn(nd, l) : Behind(nd, m, n) => nd[y].key <= nd[n].key

SkipFits(nd, top) ==
  /\ top \in 0 .. max_level
  /\ nd \in [SkipNode \cup {header} -> SkipRecord \cup {Freed}]
  /\ nd[header] \in SkipRecord /\ DOMAIN nd[header].forward = 0 .. max_level
  /\ \A n \in SkipStored(nd) : DOMAIN nd[n].forward \subseteq 0 .. top
  /\ \A l \in 0 .. max_level : \A m \in SkipOn(nd, l) \cup {header} :
       Follows(nd, m, l, nd[m].forward[l])
  /\ \A m, n \in SkipStored(nd) : nd[m].key = nd[n].key => m = n
  /\ top > 0 => SkipOn(nd, top) # {}

\* The nodes hold what d promises, and there are c of them.
DictFits(nd, d, c) ==
  /\ IsFiniteSet(DOMAIN d) /\ c = Cardinality(DOMAIN d)
  /\ \A n \in SkipStored(nd) : nd[n].key \in DOMAIN d /\ d[nd[n].key] = nd[n].value
  /\ \A k \in DOMAIN d : \E n \in SkipStored(nd) : nd[n].key = k

\* m is on level l, before all keys that are not less than k ...
Reached(nd, m, l, k) == m = header \/ (m \in SkipOn(nd, l) /\ nd[m].key < k)

\* ... and the last such node.
Boundary(nd, m, l, k) ==
  Reached(nd, m, l, k) /\ \A n \in SkipOn(nd, l) : Behind(nd, m, n) => nd[n].key >= k

\* What a search for k has found when it is at c on level j, or has come to its end
SearchFits(nd, top, at, op, k, c, j, u) ==
  /\ u \in [0 .. max_level -> SkipPointer \cup {header}]
  /\ at \in {"idle", "search", "insert", "find", "delete"}
  /\ at = "search" => /\ op \in {"insert", "find", "delete"}
                      /\ j \in 0 .. top /\ Reached(nd, c, j, k)
                      /\ \A l \in j + 1 .. top : Boundary(nd, u[l], l, k)
  /\ at \in {"insert", "find", "delete"} =>
       c = u[0] /\ \A l \in 0 .. top : Boundary(nd, u[l], l, k)

SkipInv ==
  /\ SkipFits(skipNode, skip_list_level)
  /\ DictFits(skipNode, skipDict, element_count)
  /\ SearchFits(skipNode, skip_list_level, skipPc, call.op, call.key, cur, skipI, update)
  /\ call.key \in Int /\ call.value \in Int
  /\ ~ skipWrong

LEMMA SkipConstants ==
  /\ header \notin SkipNode /\ NULL \notin SkipNode \cup {header} /\ Freed \notin SkipRecord
  /\ max_level \in Nat
  BY ContainersAssumption DEF SkipRecord, SkipPointer

\* What is known of a stored node or the header
LEMMA SkipNodes ==
  ASSUME NEW nd, NEW top, SkipFits(nd, top)
  PROVE  /\ \A n \in SkipStored(nd) \cup {header} :
              /\ n \in SkipNode \cup {header} /\ nd[n] \in SkipRecord
              /\ nd[n].key \in Int /\ nd[n].value \in Int
         /\ \A n \in SkipStored(nd) :
              \E h \in 0 .. top : nd[n].forward \in [0 .. h -> SkipPointer]
         /\ nd[header].forward \in [0 .. max_level -> SkipPointer]
         /\ SkipOn(nd, 0) = SkipStored(nd)
<1>1. \A n \in SkipStored(nd) \cup {header} : n \in SkipNode \cup {header} /\ nd[n] \in SkipRecord
  BY DEF SkipFits, SkipStored
<1>2. \A p \in SkipRecord : p.key \in Int /\ p.value \in Int
  BY DEF SkipRecord
<1>3. ASSUME NEW p \in SkipRecord
      PROVE  \E h \in 0 .. max_level : p.forward \in [0 .. h -> SkipPointer]
  <2>1. p.forward \in UNION {[0 .. h -> SkipPointer] : h \in 0 .. max_level}
    BY DEF SkipRecord
  <2> QED
    BY <2>1
<1>4. ASSUME NEW n \in SkipStored(nd)
      PROVE  \E h \in 0 .. top : nd[n].forward \in [0 .. h -> SkipPointer]
  <2>1. PICK h \in 0 .. max_level : nd[n].forward \in [0 .. h -> SkipPointer]
    BY <1>1, <1>3
  <2>2. 0 .. h \subseteq 0 .. top
    <3>1. DOMAIN nd[n].forward = 0 .. h
      BY <2>1
    <3> QED
      BY <3>1 DEF SkipFits
  <2>3. top \in Int /\ h \in 0 .. h
    BY DEF SkipFits
  <2>4. h \in 0 .. top
    BY <2>2, <2>3
  <2> QED
    BY <2>1, <2>4
<1>5. nd[header].forward \in [0 .. max_level -> SkipPointer]
  <2>1. PICK h \in 0 .. max_level : nd[header].forward \in [0 .. h -> SkipPointer]
    BY <1>1, <1>3
  <2>2. DOMAIN nd[header].forward = 0 .. h /\ DOMAIN nd[header].forward = 0 .. max_level
    BY <2>1 DEF SkipFits
  <2> QED
    BY <2>1, <2>2
<1>6. SkipOn(nd, 0) = SkipStored(nd)
  <2>1. ASSUME NEW n \in SkipStored(nd)
        PROVE  0 \in DOMAIN nd[n].forward
    <3>1. PICK h \in 0 .. top : nd[n].forward \in [0 .. h -> SkipPointer]
      BY <1>4
    <3>2. 0 \in 0 .. h /\ DOMAIN nd[n].forward = 0 .. h
      BY <3>1
    <3> QED
      BY <3>2
  <2> QED
    BY <2>1 DEF SkipOn
<1> QED
  BY <1>1, <1>2, <1>4, <1>5, <1>6

LEMMA SkipFollowing ==
  ASSUME NEW top, SkipFits(skipNode, top), NEW l \in 0 .. max_level,
         NEW m \in SkipOn(skipNode, l) \cup {header}
  PROVE  skipNode[m].forward[l] = Skip!Following(m, l)
<1>1. PICK nd, y, greater :
        /\ nd = skipNode /\ y = nd[m].forward[l]
        /\ greater = {n \in SkipOn(nd, l) : Behind(nd, m, n)}
  OBVIOUS
<1>2. Follows(nd, m, l, y)
  BY <1>1 DEF SkipFits
<1>3. Skip!Following(m, l) = IF greater = {} THEN NULL
                             ELSE CHOOSE n \in greater : \A o \in greater : nd[n].key <= nd[o].key
  <2>1. greater = {n \in Skip!On(l) : m = header \/ nd[n].key > nd[m].key}
    <3>1. SkipOn(nd, l) = Skip!On(l)
      BY <1>1 DEF SkipOn, SkipStored, Skip!On, Skip!Stored
    <3>2. \A n \in SkipOn(nd, l) : nd[n].key \in Int
      BY <1>1, SkipNodes DEF SkipOn
    <3>3. m # header => nd[m].key \in Int
      BY <1>1, SkipNodes DEF SkipOn
    <3>4. \A n \in SkipOn(nd, l) : Behind(nd, m, n) <=> m = header \/ nd[n].key > nd[m].key
      BY <3>2, <3>3 DEF Behind
    <3> QED
      BY <1>1, <3>1, <3>4
  <2>2. PICK later : later = {n \in Skip!On(l) : m = header \/ skipNode[n].key > skipNode[m].key}
    OBVIOUS
  <2>3. Skip!Following(m, l) =
          IF later = {} THEN NULL
          ELSE CHOOSE n \in later : \A o \in later : skipNode[n].key <= skipNode[o].key
    BY <2>2 DEF Skip!Following
  <2> QED
    BY <1>1, <2>1, <2>2, <2>3
<1>4. CASE y = NULL
  <2>1. greater = {}
    BY <1>1, <1>2, <1>4 DEF Follows
  <2> QED
    BY <1>1, <1>3, <1>4, <2>1
<1>5. CASE y # NULL
  <2>1. y \in greater /\ \A o \in greater : nd[y].key <= nd[o].key
    BY <1>1, <1>2, <1>5 DEF Follows
  <2>2. ASSUME NEW n \in greater, \A o \in greater : nd[n].key <= nd[o].key
        PROVE  n = y
    <3>1. nd[n].key <= nd[y].key /\ nd[y].key <= nd[n].key
      BY <2>1, <2>2
    <3>2. n \in SkipStored(nd) /\ y \in SkipStored(nd)
      BY <1>1, <2>1 DEF SkipOn
    <3>3. nd[n].key \in Int /\ nd[y].key \in Int
      BY <1>1, <3>2, SkipNodes
    <3>4. nd[n].key = nd[y].key
      BY <3>1, <3>3
    <3> QED
      BY <1>1, <3>2, <3>4 DEF SkipFits
  <2>3. (CHOOSE n \in greater : \A o \in greater : nd[n].key <= nd[o].key) = y
    BY <2>1, <2>2
  <2> QED
    BY <1>1, <1>3, <2>1, <2>3
<1> QED
  BY <1>4, <1>5

\* Behind the last node before k is the node with k, if the level has one.
LEMMA SearchFinds ==
  ASSUME NEW nd, NEW top, SkipFits(nd, top), NEW l \in 0 .. max_level, NEW m, NEW k \in Int,
         Boundary(nd, m, l, k), NEW y, y = nd[m].forward[l]
  PROVE  /\ y # NULL => y \in SkipOn(nd, l)
         /\ \A n \in SkipOn(nd, l) : nd[n].key = k => y # NULL /\ n = y
<1>1. m \in SkipOn(nd, l) \cup {header} /\ (m = header \/ nd[m].key < k)
  BY DEF Boundary, Reached
<1>2. Follows(nd, m, l, y)
  BY <1>1 DEF SkipFits
<1>3. ASSUME NEW n \in SkipOn(nd, l), nd[n].key = k
      PROVE  y # NULL /\ n = y
  <2>1. Behind(nd, m, n)
    BY <1>1, <1>3 DEF Behind
  <2>2. y # NULL /\ y \in SkipOn(nd, l) /\ Behind(nd, m, y) /\ nd[y].key <= k
    BY <1>2, <1>3, <2>1 DEF Follows
  <2>3. nd[y].key >= k
    BY <2>2 DEF Boundary
  <2>4. n \in SkipStored(nd) /\ y \in SkipStored(nd)
    BY <2>2 DEF SkipOn
  <2>5. nd[y].key \in Int
    BY <2>4, SkipNodes
  <2>6. nd[y].key = nd[n].key
    BY <1>3, <2>2, <2>3, <2>5
  <2> QED
    BY <2>2, <2>4, <2>6 DEF SkipFits
<1> QED
  BY <1>2, <1>3 DEF Follows

\* Values play no part in the shape of the list.
LEMMA SameShape ==
  ASSUME NEW nd, NEW top, SkipFits(nd, top),
         NEW g \in [SkipNode \cup {header} -> SkipRecord \cup {Freed}],
         \A n \in SkipNode \cup {header} :
           /\ g[n] = Freed <=> nd[n] = Freed
           /\ nd[n] # Freed => g[n].key = nd[n].key /\ g[n].forward = nd[n].forward
  PROVE  SkipFits(g, top) /\ SkipStored(g) = SkipStored(nd)
<1>1. SkipStored(g) = SkipStored(nd)
  BY DEF SkipStored
<1>2. \A l : SkipOn(g, l) = SkipOn(nd, l)
  BY <1>1 DEF SkipOn, SkipStored
<1>3. nd[header] # Freed /\ g[header] \in SkipRecord
  BY SkipConstants DEF SkipFits
<1>4. \A n \in SkipStored(nd) \cup {header} :
        g[n].key = nd[n].key /\ g[n].forward = nd[n].forward
  BY <1>3 DEF SkipStored
<1>5. ASSUME NEW l \in 0 .. max_level, NEW m \in SkipOn(nd, l) \cup {header}
      PROVE  Follows(g, m, l, g[m].forward[l])
  <2>1. m \in SkipStored(nd) \cup {header} /\ \A n \in SkipOn(nd, l) : n \in SkipStored(nd)
    BY DEF SkipOn
  <2>2. \A n \in SkipOn(nd, l) : Behind(g, m, n) <=> Behind(nd, m, n)
    BY <1>4, <2>1 DEF Behind
  <2>3. Follows(nd, m, l, nd[m].forward[l])
    BY DEF SkipFits
  <2>4. g[m].forward[l] = nd[m].forward[l]
    BY <1>4, <2>1
  <2>5. \A n \in SkipOn(nd, l) : g[n].key = nd[n].key
    BY <1>4, <2>1
  <2> QED
    BY <1>2, <2>2, <2>3, <2>4, <2>5 DEF Follows
<1>6. DOMAIN g[header].forward = 0 .. max_level
  BY <1>4 DEF SkipFits
<1>7. \A n \in SkipStored(g) : DOMAIN g[n].forward \subseteq 0 .. top
  BY <1>1, <1>4 DEF SkipFits
<1>8. \A m, n \in SkipStored(g) : g[m].key = g[n].key => m = n
  BY <1>1, <1>4 DEF SkipFits
<1>9. top \in 0 .. max_level /\ (top > 0 => SkipOn(g, top) # {})
  BY <1>2 DEF SkipFits
<1> QED
  BY <1>1, <1>2, <1>3, <1>5, <1>6, <1>7, <1>8, <1>9 DEF SkipFits

\* What InsertAt makes of the nodes nd: n comes behind b[l] on the levels up to the given one.
SkipInserted(nd, g, n, k, v, level, b) ==
  /\ g \in [SkipNode \cup {header} -> SkipRecord \cup {Freed}]
  /\ g[n] \in SkipRecord /\ g[n].key = k /\ g[n].value = v /\ DOMAIN g[n].forward = 0 .. level
  /\ \A l \in 0 .. level : g[n].forward[l] = nd[b[l]].forward[l]
  /\ \A m \in SkipNode \cup {header} : m # n =>
       /\ g[m] = Freed <=> nd[m] = Freed
       /\ nd[m] # Freed =>
            /\ g[m].key = nd[m].key /\ g[m].value = nd[m].value
            /\ DOMAIN g[m].forward = DOMAIN nd[m].forward
            /\ \A l \in DOMAIN nd[m].forward :
                 g[m].forward[l] = IF l <= level /\ b[l] = m THEN n ELSE nd[m].forward[l]

LEMMA SkipInsertFits ==
  ASSUME NEW nd, NEW top, SkipFits(nd, top), NEW n \in SkipNode, nd[n] = Freed,
         NEW k \in Int, NEW v \in Int, NEW level \in 0 .. max_level, NEW b, NEW g,
         NEW high, high = IF level > top THEN level ELSE top, level <= top + 1,
         \A l \in 0 .. level : Boundary(nd, b[l], l, k),
         \A m \in SkipStored(nd) : nd[m].key # k,
         SkipInserted(nd, g, n, k, v, level, b)
  PROVE  SkipFits(g, high) /\ SkipStored(g) = SkipStored(nd) \cup {n}
<1>1. /\ n # header /\ nd[header] # Freed /\ header \notin SkipNode /\ NULL \notin SkipNode
      /\ g[n] # Freed /\ top \in 0 .. max_level /\ top \in Int /\ max_level \in Nat
  BY SkipConstants DEF SkipFits, SkipInserted
<1>2. SkipStored(g) = SkipStored(nd) \cup {n}
  BY <1>1 DEF SkipStored, SkipInserted
<1>3. \A m \in SkipStored(nd) \cup {header} :
        /\ m # n /\ m \in SkipNode \cup {header} /\ nd[m] # Freed
        /\ g[m].key = nd[m].key /\ DOMAIN g[m].forward = DOMAIN nd[m].forward
        /\ \A l \in DOMAIN nd[m].forward :
             g[m].forward[l] = IF l <= level /\ b[l] = m THEN n ELSE nd[m].forward[l]
  BY <1>1 DEF SkipStored, SkipInserted
<1>4. g[n].key = k /\ DOMAIN g[n].forward = 0 .. level
      /\ \A l \in 0 .. level : g[n].forward[l] = nd[b[l]].forward[l]
  BY DEF SkipInserted
<1>5. ASSUME NEW l
      PROVE  SkipOn(g, l) = IF l \in 0 .. level THEN SkipOn(nd, l) \cup {n} ELSE SkipOn(nd, l)
  BY <1>2, <1>3, <1>4 DEF SkipOn
<1>6. \A m \in SkipStored(nd) : nd[m].key \in Int
  BY SkipNodes
<1>7. \A l, m : m \in SkipOn(nd, l) => m \in SkipStored(nd)
  BY DEF SkipOn
<1>8. \A m \in SkipStored(nd) \cup {header} : \A o \in SkipStored(nd) :
        Behind(g, m, o) <=> Behind(nd, m, o)
  BY <1>3 DEF Behind
<1>9. \A m \in SkipStored(nd) \cup {header} : Behind(g, m, n) <=> (m = header \/ nd[m].key < k)
  BY <1>3, <1>4 DEF Behind
<1>10. \A o \in SkipStored(nd) : Behind(g, n, o) <=> k < nd[o].key
  BY <1>1, <1>3, <1>4 DEF Behind
<1>11. ~ Behind(g, n, n)
  BY <1>1, <1>4 DEF Behind
<1>12. ASSUME NEW l \in 0 .. level
       PROVE  /\ b[l] \in SkipOn(nd, l) \cup {header} /\ (b[l] = header \/ nd[b[l]].key < k)
              /\ \A o \in SkipOn(nd, l) : Behind(nd, b[l], o) => nd[o].key > k
              /\ Follows(nd, b[l], l, nd[b[l]].forward[l])
  <2>1. Boundary(nd, b[l], l, k)
    OBVIOUS
  <2>2. b[l] \in SkipOn(nd, l) \cup {header} /\ (b[l] = header \/ nd[b[l]].key < k)
    BY <2>1 DEF Boundary, Reached
  <2>3. ASSUME NEW o \in SkipOn(nd, l), Behind(nd, b[l], o)
        PROVE  nd[o].key > k
    <3>1. nd[o].key >= k /\ nd[o].key # k /\ nd[o].key \in Int
      BY <1>6, <1>7, <2>1, <2>3 DEF Boundary
    <3> QED
      BY <3>1
  <2>4. l \in 0 .. max_level
    BY <1>1
  <2> QED
    BY <2>2, <2>3, <2>4 DEF SkipFits
<1>13. ASSUME NEW l \in 0 .. level
       PROVE  Follows(g, n, l, g[n].forward[l])
  <2>1. PICK p, y : p = b[l] /\ y = nd[p].forward[l] /\ g[n].forward[l] = y
    BY <1>4
  <2>2. /\ p \in SkipOn(nd, l) \cup {header} /\ Follows(nd, p, l, y) /\ (p = header \/ nd[p].key < k)
        /\ \A o \in SkipOn(nd, l) : Behind(nd, p, o) => nd[o].key > k
    BY <1>12, <2>1
  <2>3. ASSUME NEW o \in SkipOn(nd, l), k < nd[o].key
        PROVE  Behind(nd, p, o)
    <3>1. p # header => nd[p].key \in Int
      BY <1>6, <1>7, <2>2
    <3> QED
      BY <1>6, <1>7, <2>2, <2>3, <3>1 DEF Behind
  <2>4. \A o \in SkipOn(g, l) : Behind(g, n, o) => o \in SkipOn(nd, l) /\ k < nd[o].key
    BY <1>5, <1>7, <1>10, <1>11
  <2>5. CASE y = NULL
    <3>1. \A o \in SkipOn(g, l) : ~ Behind(g, n, o)
      BY <2>2, <2>3, <2>4, <2>5 DEF Follows
    <3> QED
      BY <2>1, <2>5, <3>1 DEF Follows
  <2>6. CASE y # NULL
    <3>1. y \in SkipOn(nd, l) /\ Behind(nd, p, y)
          /\ \A o \in SkipOn(nd, l) : Behind(nd, p, o) => nd[y].key <= nd[o].key
      BY <2>2, <2>6 DEF Follows
    <3>2. y \in SkipOn(g, l) /\ Behind(g, n, y)
      BY <1>5, <1>7, <1>10, <2>2, <3>1
    <3>3. \A o \in SkipOn(g, l) : Behind(g, n, o) => g[y].key <= g[o].key
      BY <1>3, <1>7, <2>3, <2>4, <3>1
    <3> QED
      BY <2>1, <2>6, <3>2, <3>3 DEF Follows
  <2> QED
    BY <2>5, <2>6
<1>14. ASSUME NEW l \in 0 .. max_level, NEW m \in SkipOn(nd, l) \cup {header}
       PROVE  Follows(g, m, l, g[m].forward[l])
  <2>1. PICK y : y = nd[m].forward[l]
    OBVIOUS
  <2>2. Follows(nd, m, l, y) /\ m \in SkipStored(nd) \cup {header} /\ (m = header \/ nd[m].key \in Int)
    BY <1>6, <1>7, <2>1 DEF SkipFits
  <2>3. g[m].forward[l] = IF l <= level /\ b[l] = m THEN n ELSE y
    <3>1. l \in DOMAIN nd[m].forward
      BY DEF SkipOn, SkipFits
    <3> QED
      BY <1>3, <2>1, <2>2, <3>1
  <2>4. CASE l <= level /\ b[l] = m
    <3>1. l \in 0 .. level
      BY <2>4
    <3>2. /\ m = header \/ nd[m].key < k
          /\ \A o \in SkipOn(nd, l) : Behind(nd, m, o) => nd[o].key > k
      BY <1>12, <2>4, <3>1
    <3>3. n \in SkipOn(g, l) /\ Behind(g, m, n)
      BY <1>5, <1>9, <2>2, <3>1, <3>2
    <3>4. ASSUME NEW o \in SkipOn(g, l), Behind(g, m, o)
          PROVE  g[n].key <= g[o].key
      <4>1. CASE o = n
        BY <1>4, <4>1
      <4>2. CASE o # n
        <5>1. o \in SkipOn(nd, l) /\ o \in SkipStored(nd)
          BY <1>5, <1>7, <4>2
        <5>2. nd[o].key > k
          BY <1>8, <2>2, <3>2, <3>4, <5>1
        <5> QED
          BY <1>3, <1>4, <1>6, <5>1, <5>2
      <4> QED
        BY <4>1, <4>2
    <3> QED
      BY <1>1, <2>3, <2>4, <3>3, <3>4 DEF Follows
  <2>5. CASE ~ (l <= level /\ b[l] = m)
    \* m precedes b[l], whose key is below k, or comes behind n.
    <3>1. ASSUME l \in 0 .. level, Behind(g, m, n)
          PROVE  /\ y # NULL /\ y \in SkipOn(nd, l) /\ Behind(nd, m, y) /\ nd[y].key < k
      <4>1. PICK p : p = b[l]
        OBVIOUS
      <4>2. p # m /\ p \in SkipOn(nd, l) \cup {header} /\ (p = header \/ nd[p].key < k)
            /\ \A o \in SkipOn(nd, l) : Behind(nd, p, o) => nd[o].key > k
        BY <1>12, <2>5, <3>1, <4>1
      <4>3. m = header \/ nd[m].key < k
        BY <1>9, <2>2, <3>1
      <4>4. m # header => ~ Behind(nd, p, m)
        BY <2>2, <4>2, <4>3
      <4>5. p # header
        BY <4>2, <4>4 DEF Behind
      <4>6. p \in SkipOn(nd, l) /\ p \in SkipStored(nd) /\ nd[p].key \in Int /\ nd[p].key < k
        BY <1>6, <1>7, <4>2, <4>5
      <4>7. Behind(nd, m, p)
        <5>1. CASE m = header
          BY <5>1 DEF Behind
        <5>2. CASE m # header
          <6>1. nd[m].key # nd[p].key
            BY <2>2, <4>2, <4>6, <5>2 DEF SkipFits
          <6>2. ~ (nd[p].key < nd[m].key)
            BY <4>4, <5>2 DEF Behind
          <6> QED
            BY <2>2, <4>6, <5>2, <6>1, <6>2 DEF Behind
        <5> QED
          BY <5>1, <5>2
      <4>8. y # NULL /\ y \in SkipOn(nd, l) /\ Behind(nd, m, y) /\ nd[y].key <= nd[p].key
        BY <2>2, <4>6, <4>7 DEF Follows
      <4>9. nd[y].key \in Int
        BY <1>6, <1>7, <4>8
      <4> QED
        BY <4>6, <4>8, <4>9
    <3>2. CASE y = NULL
      <4>1. ASSUME NEW o \in SkipOn(g, l), Behind(g, m, o)
            PROVE  FALSE
        <5>1. CASE o = n
          <6>1. l \in 0 .. level
            BY <1>2, <1>5, <1>7, <5>1 DEF SkipStored
          <6> QED
            BY <3>1, <3>2, <4>1, <5>1, <6>1
        <5>2. CASE o # n
          <6>1. o \in SkipOn(nd, l) /\ o \in SkipStored(nd)
            BY <1>5, <1>7, <5>2
          <6> QED
            BY <1>8, <2>2, <3>2, <4>1, <6>1 DEF Follows
        <5> QED
          BY <5>1, <5>2
      <4> QED
        BY <2>3, <2>5, <3>2, <4>1 DEF Follows
    <3>3. CASE y # NULL
      <4>1. /\ y \in SkipOn(nd, l) /\ y \in SkipStored(nd) /\ Behind(nd, m, y)
            /\ \A o \in SkipOn(nd, l) : Behind(nd, m, o) => nd[y].key <= nd[o].key
        BY <1>7, <2>2, <3>3 DEF Follows
      <4>2. y \in SkipOn(g, l) /\ Behind(g, m, y)
        BY <1>5, <1>8, <2>2, <4>1
      <4>3. ASSUME NEW o \in SkipOn(g, l), Behind(g, m, o)
            PROVE  g[y].key <= g[o].key
        <5>1. CASE o = n
          <6>1. l \in 0 .. level
            BY <1>2, <1>5, <1>7, <5>1 DEF SkipStored
          <6>2. nd[y].key < k /\ nd[y].key \in Int
            BY <1>6, <3>1, <4>1, <4>3, <5>1, <6>1
          <6> QED
            BY <1>3, <1>4, <4>1, <5>1, <6>2
        <5>2. CASE o # n
          <6>1. o \in SkipOn(nd, l) /\ o \in SkipStored(nd)
            BY <1>5, <1>7, <5>2
          <6>2. nd[y].key <= nd[o].key
            BY <1>8, <2>2, <4>1, <4>3, <6>1
          <6> QED
            BY <1>3, <4>1, <6>1, <6>2
        <5> QED
          BY <5>1, <5>2
      <4> QED
        BY <2>3, <2>5, <3>3, <4>2, <4>3 DEF Follows
    <3> QED
      BY <3>2, <3>3
  <2> QED
    BY <2>4, <2>5
<1>15. ASSUME NEW l \in 0 .. max_level, NEW m \in SkipOn(g, l) \cup {header}
       PROVE  Follows(g, m, l, g[m].forward[l])
  <2>1. CASE m = n
    <3>1. l \in 0 .. level
      BY <1>1, <1>4, <2>1 DEF SkipOn
    <3> QED
      BY <1>13, <2>1, <3>1
  <2>2. CASE m # n
    BY <1>5, <1>14, <2>2
  <2> QED
    BY <2>1, <2>2
<1>16. \A m, o \in SkipStored(g) : g[m].key = g[o].key => m = o
  BY <1>2, <1>3, <1>4 DEF SkipFits
<1>17. high \in 0 .. max_level /\ high >= level /\ high >= top
  BY <1>1
<1>18. \A m \in SkipStored(g) : DOMAIN g[m].forward \subseteq 0 .. high
  <2>1. 0 .. level \subseteq 0 .. high /\ 0 .. top \subseteq 0 .. high
    BY <1>1, <1>17
  <2>2. \A m \in SkipStored(nd) : DOMAIN g[m].forward \subseteq 0 .. top
    BY <1>3 DEF SkipFits
  <2> QED
    BY <1>2, <1>4, <2>1, <2>2
<1>19. high > 0 => SkipOn(g, high) # {}
  <2>1. CASE level > top
    <3>1. high \in 0 .. level
      BY <1>1, <2>1
    <3> QED
      BY <1>5, <3>1
  <2>2. CASE ~ (level > top)
    <3>1. high = top
      BY <2>2
    <3> QED
      BY <1>5, <3>1 DEF SkipFits
  <2> QED
    BY <2>1, <2>2
<1>20. g[header] \in SkipRecord /\ DOMAIN g[header].forward = 0 .. max_level
  <2>1. g[header] \in SkipRecord \cup {Freed} /\ g[header] # Freed
    BY <1>1 DEF SkipInserted
  <2> QED
    BY <1>3, <2>1 DEF SkipFits
<1> QED
  BY <1>2, <1>15, <1>16, <1>17, <1>18, <1>19, <1>20 DEF SkipFits, SkipInserted

\* What Unlink makes of the nodes nd: the node z, which is on the levels up to h, is deleted,
\* and u[l] leads past it.
SkipUnlinked(nd, g, z, h, u) ==
  /\ g \in [SkipNode \cup {header} -> SkipRecord \cup {Freed}] /\ g[z] = Freed
  /\ \A m \in SkipNode \cup {header} : m # z =>
       /\ g[m] = Freed <=> nd[m] = Freed
       /\ nd[m] # Freed =>
            /\ g[m].key = nd[m].key /\ g[m].value = nd[m].value
            /\ DOMAIN g[m].forward = DOMAIN nd[m].forward
            /\ \A l \in DOMAIN nd[m].forward :
                 g[m].forward[l] = IF l <= h /\ u[l] = m THEN nd[z].forward[l]
                                   ELSE nd[m].forward[l]

LEMMA SkipUnlinkFits ==
  ASSUME NEW nd, NEW top, SkipFits(nd, top), NEW z \in SkipStored(nd), NEW k \in Int,
         nd[z].key = k, NEW h \in 0 .. top, DOMAIN nd[z].forward = 0 .. h, NEW u, NEW g,
         \A l \in 0 .. top : Boundary(nd, u[l], l, k), SkipUnlinked(nd, g, z, h, u),
         NEW low \in 0 .. top, low = 0 \/ g[header].forward[low] # NULL,
         \A l \in low + 1 .. top : g[header].forward[l] = NULL
  PROVE  SkipFits(g, low) /\ SkipStored(g) = SkipStored(nd) \ {z}
<1>1. /\ z # header /\ nd[header] # Freed /\ header \notin SkipNode /\ z \in SkipNode
      /\ top \in 0 .. max_level /\ top \in Int /\ max_level \in Nat
  BY SkipConstants DEF SkipFits, SkipStored
<1>2. SkipStored(g) = SkipStored(nd) \ {z}
  BY <1>1 DEF SkipStored, SkipUnlinked
<1>3. \A m \in (SkipStored(nd) \ {z}) \cup {header} :
        /\ m # z /\ m \in SkipNode \cup {header} /\ nd[m] # Freed
        /\ g[m].key = nd[m].key /\ DOMAIN g[m].forward = DOMAIN nd[m].forward
        /\ \A l \in DOMAIN nd[m].forward :
             g[m].forward[l] = IF l <= h /\ u[l] = m THEN nd[z].forward[l]
                               ELSE nd[m].forward[l]
  BY <1>1 DEF SkipStored, SkipUnlinked
<1>4. ASSUME NEW l
      PROVE  SkipOn(g, l) = SkipOn(nd, l) \ {z}
  BY <1>2, <1>3 DEF SkipOn
<1>5. \A m \in SkipStored(nd) : nd[m].key \in Int
  BY SkipNodes
<1>6. \A l, m : m \in SkipOn(nd, l) => m \in SkipStored(nd)
  BY DEF SkipOn
<1>7. \A m \in (SkipStored(nd) \ {z}) \cup {header} : \A o \in SkipStored(nd) \ {z} :
        Behind(g, m, o) <=> Behind(nd, m, o)
  BY <1>3 DEF Behind
<1>8. \A o \in SkipStored(nd) : o # z => nd[o].key # k
  BY DEF SkipFits
<1>9. ASSUME NEW l \in 0 .. top
      PROVE  /\ u[l] \in SkipOn(nd, l) \cup {header} /\ (u[l] = header \/ nd[u[l]].key < k)
             /\ \A o \in SkipOn(nd, l) : Behind(nd, u[l], o) => nd[o].key >= k
  BY DEF Boundary, Reached
<1>10. ASSUME NEW l \in 0 .. h, NEW y, Follows(nd, z, l, y), NEW m, m = u[l],
              m \in (SkipOn(nd, l) \ {z}) \cup {header}
       PROVE  Follows(g, m, l, y)
  <2>1. /\ m = header \/ (nd[m].key < k /\ nd[m].key \in Int)
        /\ \A o \in SkipOn(nd, l) : Behind(nd, m, o) => nd[o].key >= k
    <3>1. l \in 0 .. top
      BY <1>1
    <3> QED
      BY <1>5, <1>6, <1>9, <1>10, <3>1
  <2>2. m \in (SkipStored(nd) \ {z}) \cup {header}
    BY <1>6, <1>10
  <2>3. ASSUME NEW o \in SkipOn(g, l), Behind(g, m, o)
        PROVE  o \in SkipOn(nd, l) /\ Behind(nd, z, o)
    <3>1. o \in SkipOn(nd, l) /\ o # z /\ o \in SkipStored(nd)
      BY <1>4, <1>6
    <3>2. nd[o].key >= k /\ nd[o].key # k /\ nd[o].key \in Int
      BY <1>5, <1>7, <1>8, <2>1, <2>2, <2>3, <3>1
    <3>3. nd[z].key < nd[o].key
      BY <3>2
    <3> QED
      BY <3>1, <3>3 DEF Behind
  <2>4. CASE y = NULL
    BY <1>10, <2>3, <2>4 DEF Follows
  <2>5. CASE y # NULL
    <3>1. y \in SkipOn(nd, l) /\ Behind(nd, z, y)
          /\ \A o \in SkipOn(nd, l) : Behind(nd, z, o) => nd[y].key <= nd[o].key
      BY <1>10, <2>5 DEF Follows
    <3>2. y # z /\ k < nd[y].key /\ y \in SkipStored(nd) /\ nd[y].key \in Int
      BY <1>1, <1>5, <1>6, <3>1 DEF Behind
    <3>3. y \in SkipOn(g, l) /\ Behind(g, m, y)
      <4>1. Behind(nd, m, y)
        BY <2>1, <3>2 DEF Behind
      <4> QED
        BY <1>4, <1>7, <2>2, <3>1, <3>2, <4>1
    <3>4. \A o \in SkipOn(g, l) : Behind(g, m, o) => g[y].key <= g[o].key
      <4>1. \A o \in SkipOn(g, l) : g[o].key = nd[o].key
        BY <1>3, <1>4, <1>6
      <4> QED
        BY <2>3, <3>1, <3>3, <4>1
    <3> QED
      BY <2>5, <3>3, <3>4 DEF Follows
  <2> QED
    BY <2>4, <2>5
<1>11. ASSUME NEW l \in 0 .. max_level, NEW m \in (SkipOn(nd, l) \ {z}) \cup {header},
              Follows(nd, m, l, z)
       PROVE  l \in 0 .. h /\ u[l] = m
  <2>1. z # NULL
    BY <1>1, SkipConstants
  <2>2. z \in SkipOn(nd, l) /\ Behind(nd, m, z)
        /\ \A o \in SkipOn(nd, l) : Behind(nd, m, o) => k <= nd[o].key
    BY <1>11, <2>1 DEF Follows
  <2>3. l \in 0 .. h /\ l \in 0 .. top
    BY <1>1, <2>2 DEF SkipOn
  <2>4. PICK p : p = u[l]
    OBVIOUS
  <2>5. /\ p \in SkipOn(nd, l) \cup {header} /\ (p = header \/ nd[p].key < k)
        /\ \A o \in SkipOn(nd, l) : Behind(nd, p, o) => nd[o].key >= k
    BY <1>9, <2>3, <2>4
  <2>6. p # header => ~ Behind(nd, m, p) /\ p \in SkipStored(nd) /\ nd[p].key \in Int
    <3>1. ASSUME p # header
          PROVE  p \in SkipOn(nd, l) /\ p \in SkipStored(nd) /\ nd[p].key \in Int
      BY <1>5, <1>6, <2>5, <3>1
    <3> QED
      BY <2>2, <2>5, <3>1
  <2>7. m # header => ~ Behind(nd, p, m) /\ m \in SkipStored(nd) /\ nd[m].key \in Int
    <3>1. ASSUME m # header
          PROVE  m \in SkipOn(nd, l) /\ m \in SkipStored(nd) /\ nd[m].key \in Int
      BY <1>5, <1>6, <3>1
    <3>2. m # header => nd[m].key < k
      BY <2>2 DEF Behind
    <3> QED
      BY <2>5, <3>1, <3>2
  <2>8. p = m
    <3>1. p = header <=> m = header
      BY <2>6, <2>7 DEF Behind
    <3>2. CASE p # header /\ m # header
      <4>1. nd[p].key = nd[m].key
        BY <2>6, <2>7, <3>2 DEF Behind
      <4> QED
        BY <2>6, <2>7, <3>2, <4>1 DEF SkipFits
    <3> QED
      BY <3>1, <3>2
  <2> QED
    BY <2>3, <2>4, <2>8
<1>12. ASSUME NEW l \in 0 .. max_level, NEW m \in (SkipOn(nd, l) \ {z}) \cup {header}
       PROVE  Follows(g, m, l, g[m].forward[l])
  <2>1. PICK y : y = nd[m].forward[l]
    OBVIOUS
  <2>2. Follows(nd, m, l, y) /\ m \in (SkipStored(nd) \ {z}) \cup {header}
    BY <1>6, <2>1 DEF SkipFits
  <2>3. g[m].forward[l] = IF l <= h /\ u[l] = m THEN nd[z].forward[l] ELSE y
    <3>1. l \in DOMAIN nd[m].forward
      BY DEF SkipOn, SkipFits
    <3> QED
      BY <1>3, <2>1, <2>2, <3>1
  <2>4. CASE l <= h /\ u[l] = m
    <3>1. l \in 0 .. h
      BY <2>4
    <3>2. z \in SkipOn(nd, l)
      BY <3>1 DEF SkipOn
    <3>3. Follows(nd, z, l, nd[z].forward[l])
      BY <3>2 DEF SkipFits
    <3> QED
      BY <1>10, <2>3, <2>4, <3>1, <3>3
  <2>5. CASE ~ (l <= h /\ u[l] = m)
    <3>1. y # z
      BY <1>11, <2>2, <2>5
    <3>2. SkipOn(g, l) \subseteq SkipOn(nd, l) /\ \A o \in SkipOn(g, l) :
            /\ o \in SkipStored(nd) \ {z} /\ g[o].key = nd[o].key
            /\ Behind(g, m, o) <=> Behind(nd, m, o)
      BY <1>3, <1>4, <1>6, <1>7, <2>2
    <3>3. CASE y = NULL
      BY <2>2, <2>3, <2>5, <3>2, <3>3 DEF Follows
    <3>4. CASE y # NULL
      <4>1. y \in SkipOn(nd, l) /\ Behind(nd, m, y)
            /\ \A o \in SkipOn(nd, l) : Behind(nd, m, o) => nd[y].key <= nd[o].key
        BY <2>2, <3>4 DEF Follows
      <4>2. y \in SkipOn(g, l)
        BY <1>4, <3>1, <4>1
      <4> QED
        BY <2>3, <2>5, <3>2, <3>4, <4>1, <4>2 DEF Follows
    <3> QED
      BY <3>3, <3>4
  <2> QED
    BY <2>4, <2>5
<1>13. \A l \in 0 .. max_level : \A m \in SkipOn(g, l) \cup {header} :
         Follows(g, m, l, g[m].forward[l])
  BY <1>4, <1>12
<1>14. ASSUME NEW m \in SkipStored(g)
       PROVE  DOMAIN g[m].forward \subseteq 0 .. low
  <2>1. DOMAIN g[m].forward = DOMAIN nd[m].forward /\ DOMAIN nd[m].forward \subseteq 0 .. top
    BY <1>2, <1>3 DEF SkipFits
  <2>2. ASSUME NEW l \in DOMAIN g[m].forward, ~ (l \in 0 .. low)
        PROVE  FALSE
    <3>1. l \in low + 1 .. top /\ l \in 0 .. max_level
      BY <1>1, <2>1, <2>2
    <3>2. Follows(g, header, l, NULL)
      BY <1>13, <3>1
    <3> QED
      BY <3>2 DEF Follows, Behind, SkipOn
  <2> QED
    BY <2>2
<1>15. low > 0 => SkipOn(g, low) # {}
  <2>1. low \in 0 .. max_level
    BY <1>1
  <2>2. Follows(g, header, low, g[header].forward[low])
    BY <1>13, <2>1
  <2> QED
    BY <2>2 DEF Follows
<1>16. \A m, o \in SkipStored(g) : g[m].key = g[o].key => m = o
  BY <1>2, <1>3 DEF SkipFits
<1>17. g[header] \in SkipRecord /\ DOMAIN g[header].forward = 0 .. max_level
  <2>1. g[header] \in SkipRecord \cup {Freed} /\ g[header] # Freed
    BY <1>1 DEF SkipUnlinked
  <2> QED
    BY <1>3, <2>1 DEF SkipFits
<1>18. low \in 0 .. max_level
  BY <1>1
<1> QED
  BY <1>2, <1>13, <1>14, <1>15, <1>16, <1>17, <1>18 DEF SkipFits, SkipUnlinked

\* The promised map, after each of the three ways to change it
LEMMA DictOverwritten ==
  ASSUME NEW nd, NEW top, SkipFits(nd, top), NEW d, NEW c, DictFits(nd, d, c),
         NEW z \in SkipStored(nd), NEW v, NEW g, SkipStored(g) = SkipStored(nd),
         \A m \in SkipStored(nd) : g[m].key = nd[m].key,
         \A m \in SkipStored(nd) : g[m].value = IF m = z THEN v ELSE nd[m].value
  PROVE  DictFits(g, [d EXCEPT ![nd[z].key] = v], c)
<1>1. PICK e : e = [d EXCEPT ![nd[z].key] = v]
  OBVIOUS
<1>2. DOMAIN e = DOMAIN d /\ \A k \in DOMAIN d : e[k] = IF k = nd[z].key THEN v ELSE d[k]
  BY <1>1
<1>3. ASSUME NEW m \in SkipStored(nd)
      PROVE  g[m].key \in DOMAIN e /\ e[g[m].key] = g[m].value
  <2>1. nd[m].key \in DOMAIN d /\ d[nd[m].key] = nd[m].value
    BY DEF DictFits
  <2>2. nd[m].key = nd[z].key <=> m = z
    BY DEF SkipFits
  <2> QED
    BY <1>2, <2>1, <2>2
<1>4. \A k \in DOMAIN e : \E m \in SkipStored(g) : g[m].key = k
  BY <1>2 DEF DictFits
<1> QED
  BY <1>1, <1>2, <1>3, <1>4 DEF DictFits

LEMMA DictInserted ==
  ASSUME NEW nd, NEW d, NEW c, DictFits(nd, d, c), NEW n, NEW k, NEW v, NEW g,
         k \notin DOMAIN d, SkipStored(g) = SkipStored(nd) \cup {n}, n \notin SkipStored(nd),
         g[n].key = k /\ g[n].value = v,
         \A m \in SkipStored(nd) : g[m].key = nd[m].key /\ g[m].value = nd[m].value
  PROVE  DictFits(g, [j \in DOMAIN d \cup {k} |-> IF j = k THEN v ELSE d[j]], c + 1)
<1>1. PICK e : e = [j \in DOMAIN d \cup {k} |-> IF j = k THEN v ELSE d[j]]
  OBVIOUS
<1>2. DOMAIN e = DOMAIN d \cup {k} /\ e[k] = v /\ \A j \in DOMAIN d : e[j] = d[j]
  BY <1>1
<1>3. IsFiniteSet(DOMAIN e) /\ Cardinality(DOMAIN e) = Cardinality(DOMAIN d) + 1
  BY <1>2, FS_AddElement DEF DictFits
<1>4. \A m \in SkipStored(g) : g[m].key \in DOMAIN e /\ e[g[m].key] = g[m].value
  BY <1>2 DEF DictFits
<1>5. \A j \in DOMAIN e : \E m \in SkipStored(g) : g[m].key = j
  BY <1>2 DEF DictFits
<1>6. c + 1 = Cardinality(DOMAIN e)
  BY <1>3 DEF DictFits
<1> QED
  BY <1>1, <1>3, <1>4, <1>5, <1>6 DEF DictFits

LEMMA DictRemoved ==
  ASSUME NEW nd, NEW top, SkipFits(nd, top), NEW d, NEW c, DictFits(nd, d, c),
         NEW z \in SkipStored(nd), NEW k, k = nd[z].key, NEW g,
         SkipStored(g) = SkipStored(nd) \ {z},
         \A m \in SkipStored(g) : g[m].key = nd[m].key /\ g[m].value = nd[m].value
  PROVE  DictFits(g, [j \in DOMAIN d \ {k} |-> d[j]], c - 1)
<1>1. PICK e : e = [j \in DOMAIN d \ {k} |-> d[j]]
  OBVIOUS
<1>2. DOMAIN e = DOMAIN d \ {k} /\ \A j \in DOMAIN e : e[j] = d[j]
  BY <1>1
<1>3. k \in DOMAIN d
  BY DEF DictFits
<1>4. IsFiniteSet(DOMAIN e) /\ Cardinality(DOMAIN e) = Cardinality(DOMAIN d) - 1
  <2>1. PICK S : S = DOMAIN d
    OBVIOUS
  <2>2. IsFiniteSet(S) /\ k \in S
    BY <1>3, <2>1 DEF DictFits
  <2>3. IsFiniteSet(S \ {k}) /\ Cardinality(S \ {k}) = Cardinality(S) - 1
    BY <2>2, FS_RemoveElement
  <2> QED
    BY <1>2, <2>1, <2>3
<1>5. \A m \in SkipStored(g) : m \in SkipStored(nd) /\ nd[m].key # k
  BY DEF SkipFits
<1>6. \A m \in SkipStored(g) : g[m].key \in DOMAIN e /\ e[g[m].key] = g[m].value
  BY <1>2, <1>5 DEF DictFits
<1>7. ASSUME NEW j \in DOMAIN e
      PROVE  \E m \in SkipStored(g) : g[m].key = j
  <2>1. PICK m \in SkipStored(nd) : nd[m].key = j
    BY <1>2 DEF DictFits
  <2>2. m # z
    BY <1>2, <2>1
  <2> QED
    BY <2>1, <2>2
<1>8. c - 1 = Cardinality(DOMAIN e)
  BY <1>4 DEF DictFits
<1> QED
  BY <1>1, <1>4, <1>6, <1>7, <1>8 DEF DictFits

\* When the search has ended, the list answers as the map does.
SearchDone == skipPc \in {"insert", "find", "delete"}

LEMMA SkipFound ==
  ASSUME SkipInv, SearchDone
  PROVE  /\ Skip!Found <=> call.key \in DOMAIN skipDict
         /\ Skip!Found => /\ Skip!candidate \in SkipStored(skipNode)
                          /\ skipNode[Skip!candidate].key = call.key
                          /\ skipDict[call.key] = skipNode[Skip!candidate].value
<1>1. PICK nd, k, y : nd = skipNode /\ k = call.key /\ y = nd[cur].forward[0]
  OBVIOUS
<1>2. Skip!candidate = y /\ (Skip!Found <=> y # NULL /\ nd[y].key = k)
  BY <1>1 DEF Skip!Found, Skip!candidate
<1>3. SkipFits(nd, skip_list_level) /\ DictFits(nd, skipDict, element_count) /\ k \in Int
  BY <1>1 DEF SkipInv
<1>4. 0 \in 0 .. max_level /\ 0 \in 0 .. skip_list_level
  BY <1>3, SkipConstants DEF SkipFits
<1>5. Boundary(nd, cur, 0, k)
  BY <1>1, <1>4 DEF SkipInv, SearchFits, SearchDone
<1>6. SkipOn(nd, 0) = SkipStored(nd)
  BY <1>3, SkipNodes
<1>7. /\ y # NULL => y \in SkipStored(nd)
      /\ \A n \in SkipStored(nd) : nd[n].key = k => y # NULL /\ n = y
  BY <1>1, <1>3, <1>4, <1>5, <1>6, SearchFinds
<1>8. ASSUME k \in DOMAIN skipDict
      PROVE  y # NULL /\ nd[y].key = k
  BY <1>3, <1>7, <1>8 DEF DictFits
<1>9. ASSUME y # NULL, nd[y].key = k
      PROVE  y \in SkipStored(nd) /\ k \in DOMAIN skipDict /\ skipDict[k] = nd[y].value
  BY <1>3, <1>7, <1>9 DEF DictFits
<1> QED
  BY <1>1, <1>2, <1>8, <1>9

LEMMA SkipInit == Skip!Init => SkipInv
<1> SUFFICES ASSUME Skip!Init
             PROVE  SkipInv
  OBVIOUS
<1>1. PICK nd, f : nd = skipNode /\ f = [l \in 0 .. max_level |-> NULL]
  OBVIOUS
<1>2. nd = [n \in SkipNode \cup {header} |->
              IF n = header THEN [key |-> 0, value |-> 0, forward |-> f] ELSE Freed]
  BY <1>1 DEF Skip!Init, Skip!Level
<1>3. /\ skip_list_level = 0 /\ element_count = 0 /\ skipPc = "idle" /\ call.key = 0
      /\ call.value = 0 /\ skipDict = [k \in {} |-> 0] /\ skipWrong = FALSE /\ update = f
  BY <1>1 DEF Skip!Init, Skip!NoCall, Skip!Absent, Skip!Level
<1>4. max_level \in Nat /\ max_level \in 0 .. max_level /\ 0 \in 0 .. max_level
  BY SkipConstants
<1>5. f \in [0 .. max_level -> SkipPointer] /\ f \in [0 .. max_level -> SkipPointer \cup {header}]
      /\ \A l \in 0 .. max_level : f[l] = NULL
  BY <1>1 DEF SkipPointer
<1>6. nd[header] \in SkipRecord /\ nd[header].forward = f
  <2>1. f \in UNION {[0 .. h -> SkipPointer] : h \in 0 .. max_level}
    BY <1>4, <1>5
  <2> QED
    BY <1>2, <2>1 DEF SkipRecord
<1>7. SkipStored(nd) = {} /\ \A l : SkipOn(nd, l) = {}
  BY <1>2, SkipConstants DEF SkipStored, SkipOn
<1>8. nd \in [SkipNode \cup {header} -> SkipRecord \cup {Freed}]
  BY <1>2, <1>6
<1>9. SkipFits(nd, 0)
  <2>1. \A l \in 0 .. max_level : Follows(nd, header, l, nd[header].forward[l])
    BY <1>5, <1>6, <1>7 DEF Follows
  <2>2. \A l \in 0 .. max_level : \A m \in SkipOn(nd, l) \cup {header} :
          Follows(nd, m, l, nd[m].forward[l])
    BY <1>7, <2>1
  <2>3. DOMAIN nd[header].forward = 0 .. max_level
    BY <1>5, <1>6
  <2>4. \A n \in SkipStored(nd) : DOMAIN nd[n].forward \subseteq 0 .. 0
    BY <1>7
  <2>5. \A m, n \in SkipStored(nd) : nd[m].key = nd[n].key => m = n
    BY <1>7
  <2> QED
    BY <1>4, <1>6, <1>8, <2>2, <2>3, <2>4, <2>5 DEF SkipFits
<1>10. DictFits(nd, skipDict, 0)
  <2>1. DOMAIN skipDict = {}
    BY <1>3
  <2>2. IsFiniteSet(DOMAIN skipDict) /\ Cardinality(DOMAIN skipDict) = 0
    BY <2>1, FS_EmptySet
  <2> QED
    BY <1>7, <2>1, <2>2 DEF DictFits
<1>11. SearchFits(nd, 0, "idle", call.op, call.key, cur, skipI, f)
  BY <1>5 DEF SearchFits
<1>12. call.key \in Int /\ call.value \in Int
  BY <1>3
<1> QED
  BY <1>1, <1>3, <1>9, <1>10, <1>11, <1>12 DEF SkipInv

LEMMA SkipCall ==
  ASSUME SkipInv, NEW op \in {"insert", "find", "delete"}, NEW k \in Int, NEW v \in Int,
         Skip!Call(op, k, v)
  PROVE  SkipInv'
<1>1. PICK nd, top, u : nd = skipNode /\ top = skip_list_level /\ u = update
  OBVIOUS
<1>2. /\ skipNode' = nd /\ skip_list_level' = top /\ element_count' = element_count
      /\ skipDict' = skipDict /\ skipWrong' = skipWrong /\ update' = u
      /\ skipPc' = "search" /\ cur' = header /\ skipI' = top
      /\ call' = [op |-> op, key |-> k, value |-> v]
  BY <1>1 DEF Skip!Call
<1>3. call'.op = op /\ call'.key = k /\ call'.value = v
  BY <1>2
<1>4. SkipFits(nd, top) /\ DictFits(nd, skipDict, element_count) /\ ~ skipWrong
      /\ u \in [0 .. max_level -> SkipPointer \cup {header}]
  BY <1>1 DEF SkipInv, SearchFits
<1>5. top \in 0 .. top /\ top + 1 .. top = {}
  BY <1>4 DEF SkipFits
<1>6. SearchFits(nd, top, "search", op, k, header, top, u)
  BY <1>4, <1>5 DEF SearchFits, Reached
<1> QED
  BY <1>2, <1>3, <1>4, <1>6 DEF SkipInv

\* The search goes on behind cur.
LEMMA SkipRight ==
  ASSUME SkipInv, Skip!Right
  PROVE  SkipInv'
<1>1. PICK nd, top, u, c, j, k, y :
        /\ nd = skipNode /\ top = skip_list_level /\ u = update /\ c = cur /\ j = skipI
        /\ k = call.key /\ y = nd[c].forward[j]
  OBVIOUS
<1>2. /\ skipPc = "search" /\ y # NULL /\ nd[y].key < k /\ cur' = y
      /\ skipNode' = nd /\ skip_list_level' = top /\ element_count' = element_count
      /\ skipPc' = skipPc /\ call' = call /\ skipI' = j /\ update' = u
      /\ skipDict' = skipDict /\ skipWrong' = skipWrong
  BY <1>1 DEF Skip!Right, Skip!Before, Skip!next
<1>3. SkipFits(nd, top) /\ SearchFits(nd, top, "search", call.op, k, c, j, u)
  BY <1>1, <1>2 DEF SkipInv
<1>4. j \in 0 .. top /\ j \in 0 .. max_level /\ Reached(nd, c, j, k)
  <2>1. j \in 0 .. top /\ Reached(nd, c, j, k)
    BY <1>3 DEF SearchFits
  <2>2. top \in 0 .. max_level /\ max_level \in Nat
    BY <1>3, SkipConstants DEF SkipFits
  <2> QED
    BY <2>1, <2>2
<1>5. Follows(nd, c, j, y)
  BY <1>1, <1>3, <1>4 DEF SkipFits, Reached
<1>6. Reached(nd, y, j, k)
  BY <1>2, <1>5 DEF Follows, Reached
<1>7. SearchFits(nd, top, "search", call.op, k, y, j, u)
  BY <1>3, <1>6 DEF SearchFits
<1> QED
  BY <1>1, <1>2, <1>7 DEF SkipInv

\* It has come to the end of a level.
LEMMA SkipDown ==
  ASSUME SkipInv, Skip!Down
  PROVE  SkipInv'
<1>1. PICK nd, top, u, c, j, k, y, w :
        /\ nd = skipNode /\ top = skip_list_level /\ u = update /\ c = cur /\ j = skipI
        /\ k = call.key /\ y = nd[c].forward[j] /\ w = [u EXCEPT ![j] = c]
  OBVIOUS
<1>2. /\ skipPc = "search" /\ ~ (y # NULL /\ nd[y].key < k) /\ cur' = c
      /\ skipNode' = nd /\ skip_list_level' = top /\ element_count' = element_count
      /\ call' = call /\ update' = w
      /\ skipI' = (IF j = 0 THEN 0 ELSE j - 1)
      /\ skipPc' = (IF j = 0 THEN call.op ELSE "search")
      /\ skipDict' = skipDict /\ skipWrong' = skipWrong
  BY <1>1 DEF Skip!Down, Skip!Before, Skip!next
<1>3. SkipFits(nd, top) /\ SearchFits(nd, top, "search", call.op, k, c, j, u) /\ k \in Int
  BY <1>1, <1>2 DEF SkipInv
<1>4. /\ j \in 0 .. top /\ j \in 0 .. max_level /\ Reached(nd, c, j, k) /\ top \in Int
      /\ call.op \in {"insert", "find", "delete"}
      /\ u \in [0 .. max_level -> SkipPointer \cup {header}]
      /\ \A l \in j + 1 .. top : Boundary(nd, u[l], l, k)
  <2>1. /\ j \in 0 .. top /\ Reached(nd, c, j, k) /\ call.op \in {"insert", "find", "delete"}
        /\ u \in [0 .. max_level -> SkipPointer \cup {header}]
        /\ \A l \in j + 1 .. top : Boundary(nd, u[l], l, k)
    BY <1>3 DEF SearchFits
  <2>2. top \in 0 .. max_level /\ max_level \in Nat
    BY <1>3, SkipConstants DEF SkipFits
  <2>3. j \in 0 .. max_level /\ top \in Int
    BY <2>1, <2>2
  <2> QED
    BY <2>1, <2>3
<1>5. Follows(nd, c, j, y)
  BY <1>1, <1>3, <1>4 DEF SkipFits, Reached
<1>6. Boundary(nd, c, j, k)
  <2>1. ASSUME NEW n \in SkipOn(nd, j), Behind(nd, c, n)
        PROVE  nd[n].key >= k
    <3>1. y # NULL /\ y \in SkipOn(nd, j) /\ nd[y].key <= nd[n].key
      BY <1>5, <2>1 DEF Follows
    <3>2. nd[y].key \in Int /\ nd[n].key \in Int
      BY <1>3, <3>1, SkipNodes DEF SkipOn
    <3> QED
      BY <1>2, <1>3, <3>1, <3>2
  <2> QED
    BY <1>4, <2>1 DEF Boundary
<1>7. w \in [0 .. max_level -> SkipPointer \cup {header}] /\ w[j] = c
      /\ \A l \in 0 .. max_level : l # j => w[l] = u[l]
  <2>1. c \in SkipPointer \cup {header}
    BY <1>4 DEF Reached, SkipOn, SkipStored, SkipPointer
  <2> QED
    BY <1>1, <1>4, <2>1
<1>8. ASSUME NEW l \in j .. top
      PROVE  Boundary(nd, w[l], l, k)
  <2>1. CASE l = j
    BY <1>6, <1>7, <2>1
  <2>2. CASE l # j
    <3>1. top \in 0 .. max_level /\ max_level \in Nat /\ j \in Int
      BY <1>3, <1>4, SkipConstants DEF SkipFits
    <3>2. l \in j + 1 .. top /\ l \in 0 .. max_level
      BY <1>4, <2>2, <3>1
    <3> QED
      BY <1>4, <1>7, <2>2, <3>2
  <2> QED
    BY <2>1, <2>2
<1>9. SearchFits(nd, top, skipPc', call.op, k, c, skipI', w)
  <2>1. CASE j = 0
    <3>1. skipPc' = call.op /\ c = w[0] /\ \A l \in 0 .. top : Boundary(nd, w[l], l, k)
      BY <1>2, <1>7, <1>8, <2>1
    <3> QED
      BY <1>4, <1>7, <3>1 DEF SearchFits
  <2>2. CASE j # 0
    <3>1. PICK h : h = j - 1
      OBVIOUS
    <3>2. h \in 0 .. top /\ h + 1 = j /\ skipI' = h /\ skipPc' = "search" /\ h \in 0 .. max_level
      BY <1>2, <1>4, <2>2, <3>1, SkipConstants
    <3>3. Reached(nd, c, h, k)
      <4>1. ASSUME c # header
            PROVE  c \in SkipOn(nd, h) /\ nd[c].key < k
        <5>1. c \in SkipOn(nd, j) /\ nd[c].key < k
          BY <1>4, <4>1 DEF Reached
        <5>2. c \in SkipStored(nd) /\ j \in DOMAIN nd[c].forward
          BY <5>1 DEF SkipOn
        <5>3. PICK g \in 0 .. top : nd[c].forward \in [0 .. g -> SkipPointer]
          BY <1>3, <5>2, SkipNodes
        <5>4. DOMAIN nd[c].forward = 0 .. g
          BY <5>3
        <5>5. h \in 0 .. g
          BY <3>2, <5>2, <5>4
        <5> QED
          BY <5>1, <5>2, <5>4, <5>5 DEF SkipOn
      <4> QED
        BY <4>1 DEF Reached
    <3>4. \A l \in h + 1 .. top : Boundary(nd, w[l], l, k)
      BY <1>8, <3>2
    <3> QED
      BY <1>4, <1>7, <3>2, <3>3, <3>4 DEF SearchFits
  <2> QED
    BY <2>1, <2>2
<1> QED
  BY <1>1, <1>2, <1>9 DEF SkipInv

\* A call returns, and should have done so.
LEMMA SkipReturn ==
  ASSUME SkipInv, NEW answer, Skip!Return(answer, answer), SkipFits(skipNode, skip_list_level)',
         DictFits(skipNode, skipDict, element_count)'
  PROVE  SkipInv'
<1>1. PICK f : f = [l \in 0 .. max_level |-> NULL]
  OBVIOUS
<1>2. /\ ~ skipWrong' /\ skipPc' = "idle" /\ call' = [op |-> "none", key |-> 0, value |-> 0]
      /\ update' = f
  BY <1>1 DEF Skip!Return, Skip!NoCall, Skip!Level, SkipInv
<1>3. call'.key \in Int /\ call'.value \in Int
  BY <1>2
<1>4. f \in [0 .. max_level -> SkipPointer \cup {header}]
  BY <1>1 DEF SkipPointer
<1>5. SearchFits(skipNode, skip_list_level, skipPc, call.op, call.key, cur, skipI, update)'
  BY <1>2, <1>4 DEF SearchFits
<1> QED
  BY <1>2, <1>3, <1>5 DEF SkipInv

LEMMA SkipAnswer ==
  ASSUME SkipInv, Skip!Answer
  PROVE  SkipInv'
<1>1. SearchDone
  BY DEF Skip!Answer, SearchDone
<1>2. PICK a : a = IF Skip!Found THEN skipNode[Skip!candidate].value ELSE Skip!Absent
  OBVIOUS
<1>3. a = IF call.key \in DOMAIN skipDict THEN skipDict[call.key] ELSE Skip!Absent
  BY <1>1, <1>2, SkipFound
<1>4. Skip!Return(a, a)
  BY <1>2, <1>3 DEF Skip!Answer
<1>5. SkipFits(skipNode, skip_list_level)' /\ DictFits(skipNode, skipDict, element_count)'
  BY DEF Skip!Answer, SkipInv
<1> QED
  BY <1>4, <1>5, SkipReturn

LEMMA SkipNotDeleted ==
  ASSUME SkipInv, Skip!NotDeleted
  PROVE  SkipInv'
<1>1. SearchDone
  BY DEF Skip!NotDeleted, SearchDone
<1>2. (call.key \in DOMAIN skipDict) = FALSE
  BY <1>1, SkipFound DEF Skip!NotDeleted
<1>3. Skip!Return(FALSE, FALSE)
  BY <1>2 DEF Skip!NotDeleted
<1>4. SkipFits(skipNode, skip_list_level)' /\ DictFits(skipNode, skipDict, element_count)'
  BY DEF Skip!NotDeleted, SkipInv
<1> QED
  BY <1>3, <1>4, SkipReturn

LEMMA SkipOverwrite ==
  ASSUME SkipInv, Skip!Overwrite
  PROVE  SkipInv'
<1>1. PICK nd, top, y, k, v, g :
        /\ nd = skipNode /\ top = skip_list_level /\ y = Skip!candidate /\ k = call.key
        /\ v = call.value /\ g = [nd EXCEPT ![y].value = v]
  OBVIOUS
<1>2. /\ SearchDone /\ Skip!Found /\ skipNode' = g /\ skip_list_level' = top
      /\ element_count' = element_count /\ skipDict' = [skipDict EXCEPT ![k] = v]
      /\ Skip!Return(FALSE, k \notin DOMAIN skipDict)
  BY <1>1 DEF Skip!Overwrite, SearchDone
<1>3. /\ SkipFits(nd, top) /\ DictFits(nd, skipDict, element_count) /\ k \in Int /\ v \in Int
  BY <1>1 DEF SkipInv
<1>4. y \in SkipStored(nd) /\ nd[y].key = k /\ k \in DOMAIN skipDict
  BY <1>1, <1>2, SkipFound
<1>5. Skip!Return(FALSE, FALSE)
  <2>1. (k \notin DOMAIN skipDict) = FALSE
    BY <1>4
  <2> QED
    BY <1>2, <2>1
<1>6. nd \in [SkipNode \cup {header} -> SkipRecord \cup {Freed}]
      /\ y \in SkipNode \cup {header} /\ nd[y] \in SkipRecord
  BY <1>3, <1>4, SkipNodes DEF SkipFits
<1>7. PICK p, q : p = nd[y] /\ q = [p EXCEPT !.value = v]
  OBVIOUS
<1>8. q \in SkipRecord /\ q.key = p.key /\ q.forward = p.forward /\ q.value = v
  BY <1>3, <1>6, <1>7 DEF SkipRecord
<1>9. g \in [SkipNode \cup {header} -> SkipRecord \cup {Freed}]
      /\ g[y] = q /\ \A m \in SkipNode \cup {header} : m # y => g[m] = nd[m]
  BY <1>1, <1>6, <1>7, <1>8
<1>10. \A m \in SkipNode \cup {header} :
         /\ g[m] = Freed <=> nd[m] = Freed
         /\ nd[m] # Freed => g[m].key = nd[m].key /\ g[m].forward = nd[m].forward
  BY <1>6, <1>7, <1>8, <1>9, SkipConstants
<1>11. SkipFits(g, top) /\ SkipStored(g) = SkipStored(nd)
  BY <1>3, <1>9, <1>10, SameShape
<1>12. \A m \in SkipStored(nd) : g[m].key = nd[m].key
  BY <1>10 DEF SkipStored
<1>13. \A m \in SkipStored(nd) : g[m].value = IF m = y THEN v ELSE nd[m].value
  BY <1>8, <1>9 DEF SkipStored
<1>14. DictFits(g, [skipDict EXCEPT ![nd[y].key] = v], element_count)
  BY <1>3, <1>4, <1>11, <1>12, <1>13, DictOverwritten
<1>15. SkipFits(skipNode, skip_list_level)' /\ DictFits(skipNode, skipDict, element_count)'
  BY <1>2, <1>4, <1>11, <1>14
<1> QED
  BY <1>5, <1>15, SkipReturn

\* A node with other pointers
LEMMA SkipRelinked ==
  ASSUME NEW p \in SkipRecord, NEW h \in 0 .. max_level, NEW f \in [0 .. h -> SkipPointer],
         NEW q, q = [p EXCEPT !.forward = f]
  PROVE  q \in SkipRecord /\ q.key = p.key /\ q.value = p.value /\ q.forward = f
<1>1. f \in UNION {[0 .. o -> SkipPointer] : o \in 0 .. max_level}
  OBVIOUS
<1> QED
  BY <1>1 DEF SkipRecord

\* A pointer on the level is one.
LEMMA SkipPointers ==
  ASSUME NEW nd, NEW top, SkipFits(nd, top), NEW l \in 0 .. max_level,
         NEW m \in SkipOn(nd, l) \cup {header}
  PROVE  nd[m].forward[l] \in SkipPointer
<1>1. Follows(nd, m, l, nd[m].forward[l])
  BY DEF SkipFits
<1> QED
  BY <1>1 DEF Follows, SkipOn, SkipStored, SkipPointer

\* What InsertAt assigns
SkipGrown(nd, n, k, v, level, b) ==
  [m \in SkipNode \cup {header} |->
     IF m = n
     THEN [key |-> k, value |-> v, forward |-> [l \in 0 .. level |-> nd[b[l]].forward[l]]]
     ELSE IF nd[m] = Freed THEN Freed
     ELSE [nd[m] EXCEPT !.forward =
             [l \in DOMAIN @ |-> IF l <= level /\ b[l] = m THEN n ELSE @[l]]]]

\* These are the nodes that SkipInserted describes.
LEMMA SkipLinkedIn ==
  ASSUME NEW nd, NEW top, SkipFits(nd, top), NEW n \in SkipNode, nd[n] = Freed,
         NEW k \in Int, NEW v \in Int, NEW level \in 0 .. max_level, NEW b,
         \A l \in 0 .. level : Boundary(nd, b[l], l, k), NEW g,
         g = SkipGrown(nd, n, k, v, level, b)
  PROVE  SkipInserted(nd, g, n, k, v, level, b)
<1>1. nd \in [SkipNode \cup {header} -> SkipRecord \cup {Freed}] /\ n \in SkipPointer
      /\ level \in Nat /\ max_level \in Nat
  BY SkipConstants DEF SkipFits, SkipPointer
<1>2. PICK f : f = [l \in 0 .. level |-> nd[b[l]].forward[l]]
  OBVIOUS
<1>3. f \in [0 .. level -> SkipPointer]
  <2>1. ASSUME NEW l \in 0 .. level
        PROVE  nd[b[l]].forward[l] \in SkipPointer
    <3>1. l \in 0 .. max_level
      BY <1>1
    <3>2. Boundary(nd, b[l], l, k)
      OBVIOUS
    <3>3. b[l] \in SkipOn(nd, l) \cup {header}
      BY <3>2 DEF Boundary, Reached
    <3> QED
      BY <3>1, <3>3, SkipPointers
  <2> QED
    BY <1>2, <2>1
<1>4. PICK p : p = [key |-> k, value |-> v, forward |-> f]
  OBVIOUS
<1>5. p \in SkipRecord /\ p.key = k /\ p.value = v /\ p.forward = f
  <2>1. f \in UNION {[0 .. h -> SkipPointer] : h \in 0 .. max_level}
    BY <1>3
  <2> QED
    BY <1>4, <2>1 DEF SkipRecord
<1>6. g[n] = p
  BY <1>2, <1>4 DEF SkipGrown
<1>7. ASSUME NEW m \in SkipNode \cup {header}, m # n, nd[m] # Freed
      PROVE  /\ g[m] \in SkipRecord
             /\ g[m].key = nd[m].key /\ g[m].value = nd[m].value
             /\ DOMAIN g[m].forward = DOMAIN nd[m].forward
             /\ \A l \in DOMAIN nd[m].forward :
                  g[m].forward[l] = IF l <= level /\ b[l] = m THEN n ELSE nd[m].forward[l]
  <2>1. PICK q, w : q = nd[m] /\ w = [l \in DOMAIN q.forward |->
                                        IF l <= level /\ b[l] = m THEN n ELSE q.forward[l]]
    OBVIOUS
  <2>2. q \in SkipRecord
    BY <1>1, <1>7, <2>1
  <2>3. PICK h \in 0 .. max_level : q.forward \in [0 .. h -> SkipPointer]
    <3>1. q.forward \in UNION {[0 .. h -> SkipPointer] : h \in 0 .. max_level}
      BY <2>2 DEF SkipRecord
    <3> QED
      BY <3>1
  <2>4. w \in [0 .. h -> SkipPointer]
    BY <1>1, <2>1, <2>3
  <2>5. g[m] = [q EXCEPT !.forward = w]
    BY <1>7, <2>1 DEF SkipGrown
  <2>6. g[m] \in SkipRecord /\ g[m].key = q.key /\ g[m].value = q.value /\ g[m].forward = w
    <3>1. PICK z : z = g[m]
      OBVIOUS
    <3>2. z = [q EXCEPT !.forward = w]
      BY <2>5, <3>1
    <3>3. z \in SkipRecord /\ z.key = q.key /\ z.value = q.value /\ z.forward = w
      BY ONLY <2>2, <2>3, <2>4, <3>2, SkipRelinked
    <3> QED
      BY <3>1, <3>3
  <2> QED
    BY <2>1, <2>6
<1>8. \A m \in SkipNode \cup {header} : m # n => (g[m] = Freed <=> nd[m] = Freed)
  <2>1. \A m \in SkipNode \cup {header} : m # n /\ nd[m] = Freed => g[m] = Freed
    BY DEF SkipGrown
  <2> QED
    BY <1>7, <2>1, SkipConstants
<1>9. g \in [SkipNode \cup {header} -> SkipRecord \cup {Freed}]
  <2>1. \A m \in SkipNode \cup {header} : g[m] \in SkipRecord \cup {Freed}
    BY <1>5, <1>6, <1>7, <1>8
  <2>2. g = [m \in SkipNode \cup {header} |-> g[m]]
    BY DEF SkipGrown
  <2> QED
    BY <2>1, <2>2
<1> QED
  BY <1>2, <1>5, <1>6, <1>7, <1>8, <1>9 DEF SkipInserted

LEMMA SkipInsertAt ==
  ASSUME SkipInv, NEW r \in 1 .. max_level, Skip!InsertAt(r)
  PROVE  SkipInv'
<1>1. PICK nd, top, u, k, v, level, b, n, d :
        /\ nd = skipNode /\ top = skip_list_level /\ u = update /\ k = call.key /\ v = call.value
        /\ d = skipDict
        /\ level = (IF r > top THEN top + 1 ELSE r)
        /\ b = (IF r > top THEN [u EXCEPT ![level] = header] ELSE u)
        /\ n = CHOOSE free \in SkipNode : nd[free] = Freed
  OBVIOUS
<1>2. /\ skipPc = "insert" /\ ~ Skip!Found /\ \E free \in SkipNode : nd[free] = Freed
      /\ skip_list_level' = (IF r > top THEN level ELSE top)
      /\ skipNode' = [m \in DOMAIN nd |->
           IF m = n
           THEN [key |-> k, value |-> v, forward |-> [l \in 0 .. level |-> nd[b[l]].forward[l]]]
           ELSE IF nd[m] = Freed THEN Freed
           ELSE [nd[m] EXCEPT !.forward =
                   [l \in DOMAIN @ |-> IF l <= level /\ b[l] = m THEN n ELSE @[l]]]]
      /\ element_count' = element_count + 1
      /\ skipDict' = [j \in DOMAIN d \cup {k} |-> IF j = k THEN v ELSE d[j]]
      /\ Skip!Return(TRUE, k \notin DOMAIN d)
  <2>1. /\ skipPc = "insert" /\ ~ Skip!Found /\ \E free \in SkipNode : nd[free] = Freed
        /\ element_count' = element_count + 1
    BY <1>1 DEF Skip!InsertAt
  <2>2. skip_list_level' = (IF r > top THEN level ELSE top)
    BY <1>1 DEF Skip!InsertAt
  <2>3. skipDict' = [j \in DOMAIN d \cup {k} |-> IF j = k THEN v ELSE d[j]]
    BY <1>1 DEF Skip!InsertAt
  <2>4. Skip!Return(TRUE, k \notin DOMAIN d)
    BY <1>1 DEF Skip!InsertAt
  <2>5. skipNode' = [m \in DOMAIN nd |->
           IF m = n
           THEN [key |-> k, value |-> v, forward |-> [l \in 0 .. level |-> nd[b[l]].forward[l]]]
           ELSE IF nd[m] = Freed THEN Freed
           ELSE [nd[m] EXCEPT !.forward =
                   [l \in DOMAIN @ |-> IF l <= level /\ b[l] = m THEN n ELSE @[l]]]]
    BY <1>1 DEF Skip!InsertAt
  <2> QED
    BY <2>1, <2>2, <2>3, <2>4, <2>5
<1>3. SkipFits(nd, top) /\ DictFits(nd, d, element_count) /\ k \in Int /\ v \in Int
  BY <1>1 DEF SkipInv
<1>4. k \notin DOMAIN d
  BY <1>1, <1>2, SkipFound DEF SearchDone
<1>5. Skip!Return(TRUE, TRUE)
  <2>1. (k \notin DOMAIN d) = TRUE
    BY <1>4
  <2> QED
    BY <1>2, <2>1
<1>6. n \in SkipNode /\ nd[n] = Freed
  BY <1>1, <1>2
<1>7. /\ top \in 0 .. max_level /\ max_level \in Nat /\ level \in 0 .. max_level /\ level <= top + 1
      /\ (r > top => level = top + 1) /\ (~ (r > top) => level <= top)
  <2>1. top \in 0 .. max_level /\ max_level \in Nat
    BY <1>3, SkipConstants DEF SkipFits
  <2> QED
    BY <1>1, <2>1
<1>8. u \in [0 .. max_level -> SkipPointer \cup {header}] /\ \A l \in 0 .. top : Boundary(nd, u[l], l, k)
  BY <1>1, <1>2 DEF SkipInv, SearchFits
<1>9. ASSUME NEW l \in 0 .. level
      PROVE  Boundary(nd, b[l], l, k)
  <2>1. CASE r > top /\ l = level
    <3>1. b[l] = header
      BY <1>1, <1>7, <1>8, <2>1
    <3>2. SkipOn(nd, l) = {}
      <4>1. ~ (l \in 0 .. top)
        BY <1>7, <2>1
      <4>2. \A m \in SkipStored(nd) : DOMAIN nd[m].forward \subseteq 0 .. top
        BY <1>3 DEF SkipFits
      <4> QED
        BY <4>1, <4>2 DEF SkipOn
    <3> QED
      BY <3>1, <3>2 DEF Boundary, Reached
  <2>2. CASE ~ (r > top /\ l = level)
    <3>1. b[l] = u[l]
      BY <1>1, <1>7, <1>8, <2>2
    <3>2. l \in 0 .. top
      BY <1>7, <2>2
    <3> QED
      BY <1>8, <3>1, <3>2
  <2> QED
    BY <2>1, <2>2
<1>10. PICK g, high : g = skipNode' /\ high = IF level > top THEN level ELSE top
  OBVIOUS
<1>11. SkipInserted(nd, g, n, k, v, level, b)
  <2>1. DOMAIN nd = SkipNode \cup {header}
    BY <1>3 DEF SkipFits
  <2>2. g = SkipGrown(nd, n, k, v, level, b)
    BY <1>2, <1>10, <2>1 DEF SkipGrown
  <2> QED
    BY <1>3, <1>6, <1>7, <1>9, <2>2, SkipLinkedIn
<1>12. skip_list_level' = high
  BY <1>2, <1>7, <1>10
<1>13. \A m \in SkipStored(nd) : nd[m].key # k
  BY <1>3, <1>4 DEF DictFits
<1>14. SkipFits(g, high) /\ SkipStored(g) = SkipStored(nd) \cup {n}
  BY <1>3, <1>6, <1>7, <1>9, <1>10, <1>11, <1>13, SkipInsertFits
<1>15. n \notin SkipStored(nd) /\ g[n].key = k /\ g[n].value = v
  BY <1>6, <1>11 DEF SkipStored, SkipInserted
<1>16. \A m \in SkipStored(nd) : g[m].key = nd[m].key /\ g[m].value = nd[m].value
  BY <1>11, <1>15 DEF SkipStored, SkipInserted
<1>17. DictFits(g, [j \in DOMAIN d \cup {k} |-> IF j = k THEN v ELSE d[j]], element_count + 1)
  BY <1>3, <1>4, <1>14, <1>15, <1>16, DictInserted
<1>18. SkipFits(skipNode, skip_list_level)' /\ DictFits(skipNode, skipDict, element_count)'
  BY <1>2, <1>10, <1>12, <1>14, <1>17
<1> QED
  BY <1>5, <1>18, SkipReturn

\* A search has found the node z with the key k: the levels that hold z are 0 .. h, and u
\* leads to it on these only.
LEMMA SkipLevels ==
  ASSUME NEW nd, NEW top, SkipFits(nd, top), NEW z \in SkipStored(nd), NEW k \in Int,
         nd[z].key = k, NEW u, \A l \in 0 .. top : Boundary(nd, u[l], l, k)
  PROVE  \E h \in 0 .. top :
           /\ nd[z].forward \in [0 .. h -> SkipPointer]
           /\ {l \in 0 .. top : \A m \in 0 .. l : nd[u[m]].forward[m] = z} = 0 .. h
<1>1. PICK h \in 0 .. top : nd[z].forward \in [0 .. h -> SkipPointer]
  BY SkipNodes
<1>2. top \in 0 .. max_level /\ max_level \in Nat /\ top \in Nat /\ h \in Nat
  BY SkipConstants DEF SkipFits
<1>3. ASSUME NEW m \in 0 .. top
      PROVE  nd[u[m]].forward[m] = z <=> m \in 0 .. h
  <2>1. m \in 0 .. max_level /\ Boundary(nd, u[m], m, k)
    BY <1>2
  <2>2. PICK y, p : y = nd[p].forward[m] /\ p = u[m]
    OBVIOUS
  <2>3. /\ y # NULL => y \in SkipOn(nd, m)
        /\ \A n \in SkipOn(nd, m) : nd[n].key = k => y # NULL /\ n = y
    BY <2>1, <2>2, SearchFinds
  <2>4. z \in SkipOn(nd, m) <=> m \in 0 .. h
    BY <1>1 DEF SkipOn
  <2>5. z # NULL
    BY SkipConstants DEF SkipStored
  <2> QED
    BY <2>2, <2>3, <2>4, <2>5
<1>4. ASSUME NEW l \in 0 .. top
      PROVE  (\A m \in 0 .. l : nd[u[m]].forward[m] = z) <=> l \in 0 .. h
  <2>1. \A m \in 0 .. l : m \in 0 .. top
    BY <1>2
  <2>2. CASE l \in 0 .. h
    <3>1. \A m \in 0 .. l : m \in 0 .. h
      BY <1>2, <2>2
    <3> QED
      BY <1>3, <2>1, <2>2, <3>1
  <2>3. CASE ~ (l \in 0 .. h)
    <3>1. l \in 0 .. l
      OBVIOUS
    <3> QED
      BY <1>3, <2>3, <3>1
  <2> QED
    BY <2>2, <2>3
<1>5. 0 .. h \subseteq 0 .. top
  BY <1>2
<1> QED
  BY <1>1, <1>4, <1>5

\* There is a level to give up the levels above, and one only.
LEMMA SkipShrinks ==
  ASSUME NEW top \in Nat, NEW f
  PROVE  \E low \in 0 .. top :
           /\ low = (CHOOSE l \in 0 .. top :
                       /\ l = 0 \/ f[l] # NULL
                       /\ \A m \in l + 1 .. top : f[m] = NULL)
           /\ low = 0 \/ f[low] # NULL
           /\ \A m \in low + 1 .. top : f[m] = NULL
<1>1. \E l \in 0 .. top : (l = 0 \/ f[l] # NULL) /\ \A m \in l + 1 .. top : f[m] = NULL
  <2>1. PICK T : T = {l \in 0 .. top : \A m \in l + 1 .. top : f[m] = NULL}
    OBVIOUS
  <2>2. top \in T /\ T \subseteq Nat
    BY <2>1
  <2>3. PICK l \in T : \A m \in T : l <= m
    BY <2>2, LeastNumber
  <2>4. l \in 0 .. top /\ \A m \in l + 1 .. top : f[m] = NULL
    BY <2>1
  <2>5. l = 0 \/ f[l] # NULL
    <3>1. ASSUME l # 0, f[l] = NULL
          PROVE  FALSE
      <4>1. PICK o : o = l - 1
        OBVIOUS
      <4>2. o \in 0 .. top /\ l = o + 1 /\ ~ (l <= o)
        BY <2>4, <3>1, <4>1
      <4>3. \A m \in o + 1 .. top : f[m] = NULL
        <5>1. \A m \in o + 1 .. top : m = l \/ m \in l + 1 .. top
          BY <2>4, <4>2
        <5> QED
          BY <2>4, <3>1, <5>1
      <4>4. o \in T
        BY <2>1, <4>2, <4>3
      <4> QED
        BY <2>3, <4>2, <4>4
    <3> QED
      BY <3>1
  <2> QED
    BY <2>4, <2>5
<1>2. PICK low : low = (CHOOSE l \in 0 .. top :
                       /\ l = 0 \/ f[l] # NULL
                       /\ \A m \in l + 1 .. top : f[m] = NULL)
  OBVIOUS
<1>3. low \in 0 .. top /\ (low = 0 \/ f[low] # NULL) /\ \A m \in low + 1 .. top : f[m] = NULL
  BY <1>1, <1>2
<1> QED
  BY <1>2, <1>3

\* What Unlink assigns
SkipCut(nd, z, T, u) ==
  [m \in SkipNode \cup {header} |->
     IF m = z \/ nd[m] = Freed THEN Freed
     ELSE [nd[m] EXCEPT !.forward =
             [l \in DOMAIN @ |-> IF l \in T /\ u[l] = m THEN nd[z].forward[l] ELSE @[l]]]]

\* These are the nodes that SkipUnlinked describes.
LEMMA SkipLinkedOut ==
  ASSUME NEW nd, NEW top, SkipFits(nd, top), NEW z \in SkipStored(nd), NEW h \in 0 .. top,
         nd[z].forward \in [0 .. h -> SkipPointer], NEW u, NEW T, T = 0 .. h, NEW g,
         g = SkipCut(nd, z, T, u)
  PROVE  SkipUnlinked(nd, g, z, h, u)
<1>1. nd \in [SkipNode \cup {header} -> SkipRecord \cup {Freed}] /\ z \in SkipNode
      /\ h \in Nat /\ max_level \in Nat
  BY SkipConstants DEF SkipFits, SkipStored
<1>2. g[z] = Freed
  BY <1>1 DEF SkipCut
<1>3. ASSUME NEW m \in SkipNode \cup {header}, m # z, nd[m] # Freed
      PROVE  /\ g[m] \in SkipRecord
             /\ g[m].key = nd[m].key /\ g[m].value = nd[m].value
             /\ DOMAIN g[m].forward = DOMAIN nd[m].forward
             /\ \A l \in DOMAIN nd[m].forward :
                  g[m].forward[l] = IF l <= h /\ u[l] = m THEN nd[z].forward[l]
                                    ELSE nd[m].forward[l]
  <2>1. PICK q, w : q = nd[m] /\ w = [l \in DOMAIN q.forward |->
                        IF l \in T /\ u[l] = m THEN nd[z].forward[l] ELSE q.forward[l]]
    OBVIOUS
  <2>2. q \in SkipRecord
    BY <1>1, <1>3, <2>1
  <2>3. PICK o \in 0 .. max_level : q.forward \in [0 .. o -> SkipPointer]
    <3>1. q.forward \in UNION {[0 .. o -> SkipPointer] : o \in 0 .. max_level}
      BY <2>2 DEF SkipRecord
    <3> QED
      BY <3>1
  <2>4. w \in [0 .. o -> SkipPointer]
    <3>1. \A l \in T : nd[z].forward[l] \in SkipPointer
      OBVIOUS
    <3> QED
      BY <2>1, <2>3, <3>1
  <2>5. g[m] = [q EXCEPT !.forward = w]
    BY <1>3, <2>1 DEF SkipCut
  <2>6. g[m] \in SkipRecord /\ g[m].key = q.key /\ g[m].value = q.value /\ g[m].forward = w
    <3>1. PICK y : y = g[m]
      OBVIOUS
    <3>2. y = [q EXCEPT !.forward = w]
      BY <2>5, <3>1
    <3>3. y \in SkipRecord /\ y.key = q.key /\ y.value = q.value /\ y.forward = w
      BY ONLY <2>2, <2>3, <2>4, <3>2, SkipRelinked
    <3> QED
      BY <3>1, <3>3
  <2>7. \A l \in DOMAIN q.forward : l \in T <=> l <= h
    BY <1>1, <2>3
  <2>8. DOMAIN w = DOMAIN q.forward /\ \A l \in DOMAIN q.forward :
          w[l] = IF l <= h /\ u[l] = m THEN nd[z].forward[l] ELSE q.forward[l]
    BY <2>1, <2>7
  <2> QED
    BY <2>1, <2>6, <2>8
<1>4. \A m \in SkipNode \cup {header} : m # z => (g[m] = Freed <=> nd[m] = Freed)
  <2>1. \A m \in SkipNode \cup {header} : m # z /\ nd[m] = Freed => g[m] = Freed
    BY DEF SkipCut
  <2> QED
    BY <1>3, <2>1, SkipConstants
<1>5. g \in [SkipNode \cup {header} -> SkipRecord \cup {Freed}]
  <2>1. \A m \in SkipNode \cup {header} : g[m] \in SkipRecord \cup {Freed}
    BY <1>2, <1>3, <1>4
  <2>2. g = [m \in SkipNode \cup {header} |-> g[m]]
    BY DEF SkipCut
  <2> QED
    BY <2>1, <2>2
<1> QED
  BY <1>2, <1>3, <1>4, <1>5 DEF SkipUnlinked

LEMMA SkipUnlink ==
  ASSUME SkipInv, Skip!Unlink
  PROVE  SkipInv'
<1>1. PICK nd, top, u, k, z, d, g :
        /\ nd = skipNode /\ top = skip_list_level /\ u = update /\ k = call.key
        /\ z = Skip!candidate /\ d = skipDict /\ g = skipNode'
  OBVIOUS
<1>2. /\ SearchDone /\ Skip!Found /\ element_count' = element_count - 1
      /\ skipDict' = [j \in DOMAIN d \ {k} |-> d[j]] /\ Skip!Return(TRUE, k \in DOMAIN d)
  BY <1>1 DEF Skip!Unlink, SearchDone
<1>3. SkipFits(nd, top) /\ DictFits(nd, d, element_count) /\ k \in Int
  BY <1>1 DEF SkipInv
<1>4. z \in SkipStored(nd) /\ nd[z].key = k /\ k \in DOMAIN d
  BY <1>1, <1>2, SkipFound
<1>5. Skip!Return(TRUE, TRUE)
  <2>1. (k \in DOMAIN d) = TRUE
    BY <1>4
  <2> QED
    BY <1>2, <2>1
<1>6. \A l \in 0 .. top : Boundary(nd, u[l], l, k)
  BY <1>1, <1>2 DEF SkipInv, SearchFits, SearchDone
<1>7. PICK T : T = Skip!Linked(z)
  OBVIOUS
<1>8. PICK h \in 0 .. top : nd[z].forward \in [0 .. h -> SkipPointer] /\ T = 0 .. h
  <2>1. T = {l \in 0 .. top : \A m \in 0 .. l : nd[u[m]].forward[m] = z}
    BY <1>1, <1>7 DEF Skip!Linked
  <2> QED
    BY <1>3, <1>4, <1>6, <2>1, SkipLevels
<1>9. SkipUnlinked(nd, g, z, h, u)
  <2>1. DOMAIN nd = SkipNode \cup {header}
    BY <1>3 DEF SkipFits
  <2>2. g = [m \in DOMAIN nd |->
           IF m = z \/ nd[m] = Freed THEN Freed
           ELSE [nd[m] EXCEPT !.forward =
                   [l \in DOMAIN @ |-> IF l \in T /\ u[l] = m THEN nd[z].forward[l] ELSE @[l]]]]
    BY <1>1, <1>7 DEF Skip!Unlink
  <2>3. g = SkipCut(nd, z, T, u)
    BY <2>1, <2>2 DEF SkipCut
  <2> QED
    BY <1>3, <1>4, <1>8, <2>3, SkipLinkedOut
<1>10. PICK low \in 0 .. top :
         /\ skip_list_level' = low
         /\ low = 0 \/ g[header].forward[low] # NULL
         /\ \A m \in low + 1 .. top : g[header].forward[m] = NULL
  <2>1. PICK f : f = g[header].forward
    OBVIOUS
  <2>2. top \in Nat
    BY <1>3, SkipConstants DEF SkipFits
  <2>3. skip_list_level' = (CHOOSE l \in 0 .. top :
                               /\ l = 0 \/ f[l] # NULL
                               /\ \A m \in l + 1 .. top : f[m] = NULL)
    <3>1. skip_list_level' = Skip!Shrunk(g[header].forward)
      <4>1. g = [m \in DOMAIN skipNode |->
                  IF m = Skip!candidate \/ skipNode[m] = Freed THEN Freed
                  ELSE [skipNode[m] EXCEPT !.forward =
                     [l \in DOMAIN @ |-> IF l \in Skip!Linked(Skip!candidate) /\ update[l] = m
                                         THEN skipNode[Skip!candidate].forward[l] ELSE @[l]]]]
        BY <1>1 DEF Skip!Unlink
      <4> QED
        BY <4>1 DEF Skip!Unlink
    <3> QED
      BY <1>1, <2>1, <3>1 DEF Skip!Shrunk
  <2>4. PICK low \in 0 .. top :
          /\ low = (CHOOSE l \in 0 .. top :
                      /\ l = 0 \/ f[l] # NULL
                      /\ \A m \in l + 1 .. top : f[m] = NULL)
          /\ low = 0 \/ f[low] # NULL
          /\ \A m \in low + 1 .. top : f[m] = NULL
    BY ONLY <2>2, SkipShrinks
  <2> QED
    BY <2>1, <2>3, <2>4
<1>11. DOMAIN nd[z].forward = 0 .. h
  BY <1>8
<1>12. SkipFits(g, low) /\ SkipStored(g) = SkipStored(nd) \ {z}
  BY <1>3, <1>4, <1>6, <1>9, <1>10, <1>11, SkipUnlinkFits
<1>13. \A m \in SkipStored(g) : g[m].key = nd[m].key /\ g[m].value = nd[m].value
  BY <1>9, <1>12 DEF SkipStored, SkipUnlinked
<1>14. DictFits(g, [j \in DOMAIN d \ {k} |-> d[j]], element_count - 1)
  BY <1>3, <1>4, <1>12, <1>13, DictRemoved
<1>15. SkipFits(skipNode, skip_list_level)' /\ DictFits(skipNode, skipDict, element_count)'
  BY <1>1, <1>2, <1>10, <1>12, <1>14
<1> QED
  BY <1>5, <1>15, SkipReturn

LEMMA SkipStep ==
  ASSUME SkipInv, [Skip!Next]_skipVars
  PROVE  SkipInv'
<1>1. \A e \in SkipEntry : e[1] \in Int /\ e[2] \in Int
  BY ContainersAssumption
<1>2. \A k \in Skip!Key : k \in Int
  BY <1>1 DEF Skip!Key
<1>3. ASSUME NEW k \in Skip!Key, Skip!Search(k)
      PROVE  SkipInv'
  BY <1>2, <1>3, SkipCall DEF Skip!Search
<1>4. ASSUME NEW k \in Skip!Key, Skip!Delete(k)
      PROVE  SkipInv'
  BY <1>2, <1>4, SkipCall DEF Skip!Delete
<1>5. ASSUME NEW e \in SkipEntry, Skip!Insert(e[1], e[2])
      PROVE  SkipInv'
  BY <1>1, <1>5, SkipCall DEF Skip!Insert
<1>6. CASE Skip!Right
  BY <1>6, SkipRight
<1>7. CASE Skip!Down
  BY <1>7, SkipDown
<1>8. CASE Skip!Overwrite
  BY <1>8, SkipOverwrite
<1>9. CASE Skip!InsertNew
  BY <1>9, SkipInsertAt DEF Skip!InsertNew
<1>10. CASE Skip!Answer
  BY <1>10, SkipAnswer
<1>11. CASE Skip!NotDeleted
  BY <1>11, SkipNotDeleted
<1>12. CASE Skip!Unlink
  BY <1>12, SkipUnlink
<1>13. CASE UNCHANGED skipVars
  BY <1>13 DEF skipVars, SkipInv
<1> QED
  BY <1>3, <1>4, <1>5, <1>6, <1>7, <1>8, <1>9, <1>10, <1>11, <1>12, <1>13 DEF Skip!Next

LEMMA SkipKeeps ==
  ASSUME SkipInv
  PROVE  SkipListKeepsMap
<1>1. PICK nd, top, d : nd = skipNode /\ top = skip_list_level /\ d = skipDict
  OBVIOUS
<1>2. /\ SkipFits(nd, top) /\ DictFits(nd, d, element_count) /\ ~ skipWrong
      /\ top \in 0 .. max_level /\ max_level \in Nat
  BY <1>1, SkipConstants DEF SkipInv, SkipFits
<1>3. Skip!Stored = SkipStored(nd) /\ \A l : Skip!On(l) = SkipOn(nd, l)
  BY <1>1 DEF Skip!Stored, Skip!On, SkipStored, SkipOn
<1>4. ASSUME NEW l \in 0 .. top, NEW m \in Skip!On(l) \cup {header}
      PROVE  nd[m].forward[l] = Skip!Following(m, l)
  <2>1. l \in 0 .. max_level /\ m \in SkipOn(nd, l) \cup {header}
    BY <1>2, <1>3
  <2> QED
    BY <1>1, <1>2, <2>1, SkipFollowing
<1>5. \A n \in Skip!Stored : \A l \in DOMAIN nd[n].forward : l <= top
  <2>1. \A n \in SkipStored(nd) : DOMAIN nd[n].forward \subseteq 0 .. top
    BY <1>2 DEF SkipFits
  <2> QED
    BY <1>3, <2>1
<1>6. top > 0 => Skip!On(top) # {}
  BY <1>2, <1>3 DEF SkipFits
<1>7. \A n, m \in Skip!Stored : nd[n].key = nd[m].key => n = m
  BY <1>2, <1>3 DEF SkipFits
<1>8. {<<nd[n].key, nd[n].value>> : n \in Skip!Stored} = {<<k, d[k]>> : k \in DOMAIN d}
  <2>1. \A n \in SkipStored(nd) : nd[n].key \in DOMAIN d /\ d[nd[n].key] = nd[n].value
    BY <1>2 DEF DictFits
  <2>2. \A k \in DOMAIN d : \E n \in SkipStored(nd) : nd[n].key = k /\ nd[n].value = d[k]
    BY <1>2, <2>1 DEF DictFits
  <2> QED
    BY <1>3, <2>1, <2>2
<1>9. element_count = Skip!Cardinality(DOMAIN d)
  BY <1>2 DEF DictFits, Skip!Cardinality, Cardinality
<1> QED
  BY <1>1, <1>2, <1>4, <1>5, <1>6, <1>7, <1>8, <1>9 DEF SkipListKeepsMap, Skip!KeepsMap

\* SkipList.cpp: whatever is inserted, overwritten, deleted and looked up, and whatever levels
\* RandomLevel() gives, every level links its nodes in the order of their keys, the highest
\* level in use holds a node, the list holds what was inserted and not deleted, size() counts
\* it, and every call answers accordingly.
THEOREM SkipListCorrect == SkipSpec => []SkipListKeepsMap
<1>1. SkipSpec => []SkipInv
  BY SkipInit, SkipStep, PTL DEF SkipSpec
<1>2. SkipInv => SkipListKeepsMap
  BY SkipKeeps
<1> QED
  BY <1>1, <1>2, PTL

-----------------------------------------------------------------------------
(* The allocator: every block ends before the next one in the list begins, *)
(* and free takes a row of blocks in front of one out of the list.         *)

AllocSpec == Memory!Init /\ [][Memory!Next]_allocVars

\* Where the block that p points to begins, or, behind the last one, where the memory ends
Start(p, top) == IF p = NULL THEN top ELSE p

BlockEnd(bl, a) == a + Memory!Header + bl[a].size

\* The blocks bl are linked in the order of their addresses, last is the last one, and each
\* ends before the next one begins, or right there if the memory is nobody else's.
BlocksFit(bl, top, last, others) ==
  /\ top \in Nat /\ DOMAIN bl \subseteq 0 .. top - 1 /\ others \subseteq 0 .. top - 1
  /\ bl \in [DOMAIN bl -> [size : Nat, free : BOOLEAN, next : DOMAIN bl \cup {NULL}]]
  /\ \A a \in DOMAIN bl :
       /\ BlockEnd(bl, a) <= Start(bl[a].next, top)
       /\ others = {} => BlockEnd(bl, a) = Start(bl[a].next, top)
       /\ \A b \in DOMAIN bl : a < b => Start(bl[a].next, top) <= b
       /\ bl[a].next = NULL <=> a = last
       /\ ~ bl[a].free => (a .. BlockEnd(bl, a) - 1) \cap others = {}
  /\ (last = NULL /\ DOMAIN bl = {}) \/ last \in DOMAIN bl
  /\ others = {} => top = 0 \/ 0 \in DOMAIN bl

MemoryInv == BlocksFit(block, brk, tail, foreign)

\* What is known of a header and a pointer
LEMMA BlockTypes ==
  ASSUME NEW bl, NEW top, NEW last, NEW others, BlocksFit(bl, top, last, others)
  PROVE  /\ NULL \notin Int /\ NULL \notin DOMAIN bl /\ top \in Nat
         /\ \A a \in DOMAIN bl :
              /\ a \in Nat /\ a < top /\ Start(a, top) = a
              /\ bl[a].size \in Nat /\ bl[a].free \in BOOLEAN
              /\ bl[a].next \in DOMAIN bl \cup {NULL}
              /\ BlockEnd(bl, a) = a + 2 + bl[a].size
              /\ a < Start(bl[a].next, top)
         /\ \A p \in DOMAIN bl \cup {NULL} : Start(p, top) \in Nat /\ Start(p, top) <= top
<1>1. NULL \notin Int
  BY ContainersAssumption
<1>2. top \in Nat /\ \A a \in DOMAIN bl : a \in Nat /\ a < top
  BY DEF BlocksFit
<1>3. NULL \notin DOMAIN bl
  BY <1>1, <1>2
<1>4. \A p \in DOMAIN bl \cup {NULL} : Start(p, top) \in Nat /\ Start(p, top) <= top
  BY <1>2 DEF Start
<1>5. \A a \in DOMAIN bl : bl[a] \in [size : Nat, free : BOOLEAN, next : DOMAIN bl \cup {NULL}]
  BY DEF BlocksFit
<1>6. \A a \in DOMAIN bl :
        /\ bl[a].size \in Nat /\ bl[a].free \in BOOLEAN /\ bl[a].next \in DOMAIN bl \cup {NULL}
  BY <1>5
<1>7. \A a \in DOMAIN bl : Start(a, top) = a /\ BlockEnd(bl, a) = a + 2 + bl[a].size
  BY <1>3 DEF Start, BlockEnd, Memory!Header
<1>8. ASSUME NEW a \in DOMAIN bl
      PROVE  a < Start(bl[a].next, top)
  <2>1. BlockEnd(bl, a) <= Start(bl[a].next, top)
    BY DEF BlocksFit
  <2>2. Start(bl[a].next, top) \in Nat /\ a \in Nat /\ bl[a].size \in Nat
    BY <1>2, <1>4, <1>6
  <2> QED
    BY <1>7, <2>1, <2>2
<1> QED
  BY <1>1, <1>2, <1>3, <1>4, <1>6, <1>7, <1>8

\* Every pointer leads to a higher address.
Upward(D, top, succ) ==
  /\ top \in Nat /\ D \subseteq 0 .. top - 1 /\ NULL \notin D
  /\ succ \in [D -> D \cup {NULL}] /\ \A b \in D : succ[b] = NULL \/ b < succ[b]

\* G[b] takes the value for the pointer of b to the value for b.
Steps(D, V, base, G) == base \in V /\ G \in [D -> [V -> V]]

Along(D, succ, V, base, G, f) ==
  f \in [D \cup {NULL} -> V] /\ f[NULL] = base /\ \A b \in D : f[b] = G[b][f[succ[b]]]

\* A function that is computed along a list exists.
LEMMA ListFunction ==
  ASSUME NEW D, NEW top, NEW succ, Upward(D, top, succ), NEW V, NEW base, NEW G,
         Steps(D, V, base, G)
  PROVE  \E f : Along(D, succ, V, base, G, f)
<1> USE DEF Upward, Steps
<1> DEFINE Part(d) == {b \in D : top - d <= b}
           Solves(f, d) == /\ f \in [Part(d) \cup {NULL} -> V] /\ f[NULL] = base
                           /\ \A b \in Part(d) : f[b] = G[b][f[succ[b]]]
<1>1. ASSUME NEW b \in D
      PROVE  b \in Int /\ 0 <= b /\ b < top
  OBVIOUS
<1>2. \E f : Solves(f, 0)
  <2>1. PICK f : f = [p \in {NULL} |-> base]
    OBVIOUS
  <2>2. Part(0) = {}
    <3>1. ASSUME NEW b \in D
          PROVE  ~ (top - 0 <= b)
      BY <1>1, <3>1
    <3> QED
      BY <3>1
  <2>3. f \in [Part(0) \cup {NULL} -> V] /\ f[NULL] = base
    BY <2>1, <2>2
  <2>4. Solves(f, 0)
    BY <2>2, <2>3
  <2> QED
    BY <2>4
<1>3. ASSUME NEW d \in Nat, NEW f, Solves(f, d)
      PROVE  \E g : Solves(g, d + 1)
  <2>1. PICK c : c = top - (d + 1)
    OBVIOUS
  <2>2. CASE c \notin D
    <3>1. \A b \in D : top - (d + 1) <= b <=> top - d <= b
      BY <1>1, <2>1, <2>2
    <3>2. Part(d + 1) = Part(d)
      BY <3>1
    <3> QED
      BY <1>3, <3>2
  <2>3. CASE c \in D
    <3>1. Part(d + 1) = Part(d) \cup {c} /\ c \notin Part(d)
      <4>1. \A b \in D : top - (d + 1) <= b <=> b = c \/ top - d <= b
        BY <1>1, <2>1
      <4>2. ~ (top - d <= c)
        BY <2>1
      <4> QED
        BY <2>3, <4>1, <4>2
    <3>2. succ[c] \in Part(d) \cup {NULL}
      <4>1. succ[c] # NULL => succ[c] \in D /\ c < succ[c]
        BY <2>3
      <4>2. PICK z : z = succ[c]
        OBVIOUS
      <4>3. ASSUME z \in D
            PROVE  top - d <= z
        <5>1. c < z /\ z \in Int
          BY <1>1, <4>1, <4>2, <4>3
        <5> QED
          BY <2>1, <5>1
      <4> QED
        BY <2>3, <4>1, <4>2, <4>3
    <3>3. PICK P, w : P = Part(d) /\ w = G[c][f[succ[c]]]
      OBVIOUS
    <3>4. w \in V
      BY <1>3, <2>3, <3>2, <3>3
    <3>5. PICK g : g = [p \in P \cup {c} \cup {NULL} |-> IF p = c THEN w ELSE f[p]]
      OBVIOUS
    <3>6. f \in [P \cup {NULL} -> V] /\ f[NULL] = base /\ c # NULL
      BY <1>3, <2>3, <3>3
    <3>7. g \in [P \cup {c} \cup {NULL} -> V] /\ g[NULL] = base /\ g[c] = w
      BY <3>4, <3>5, <3>6
    <3>8. \A p \in P \cup {NULL} : g[p] = f[p]
      BY <3>1, <3>3, <3>5, <3>6
    <3>9. ASSUME NEW b \in P \cup {c}
          PROVE  g[b] = G[b][g[succ[b]]]
      <4>1. CASE b = c
        BY <3>2, <3>3, <3>7, <3>8, <4>1
      <4>2. CASE b # c
        <5>1. b \in P /\ b \in D /\ f[b] = G[b][f[succ[b]]]
          BY <1>3, <3>3, <4>2
        <5>2. succ[b] \in P \cup {NULL}
          <6>1. top - d <= b /\ (succ[b] # NULL => succ[b] \in D /\ b < succ[b])
            BY <3>3, <5>1
          <6>2. PICK z : z = succ[b]
            OBVIOUS
          <6>3. ASSUME z \in D
                PROVE  top - d <= z
            <7>1. b < z /\ z \in Int /\ b \in Int
              BY <1>1, <5>1, <6>1, <6>2, <6>3
            <7> QED
              BY <6>1, <7>1
          <6> QED
            BY <3>3, <5>1, <6>1, <6>2, <6>3
        <5> QED
          BY <3>8, <5>1, <5>2
      <4> QED
        BY <4>1, <4>2
    <3>10. Solves(g, d + 1)
      BY <3>1, <3>3, <3>7, <3>9
    <3> QED
      BY <3>10
  <2> QED
    BY <2>2, <2>3
<1> HIDE DEF Solves
<1>4. PICK T : T = {d \in Nat : ~ \E f : Solves(f, d)}
  OBVIOUS
<1>5. T = {}
  <2>1. ASSUME T # {}
        PROVE  FALSE
    <3>1. T \subseteq Nat
      BY <1>4
    <3>2. PICK d \in T : \A m \in T : d <= m
      BY <2>1, <3>1, LeastNumber
    <3>3. d \in Nat /\ d # 0
      BY <1>2, <1>4
    <3>4. PICK e : e = d - 1
      OBVIOUS
    <3>5. e \in Nat /\ e + 1 = d /\ ~ (d <= e)
      BY <3>3, <3>4
    <3>6. e \notin T
      BY <3>2, <3>5
    <3>7. PICK f : Solves(f, e)
      BY <1>4, <3>5, <3>6
    <3>8. \E g : Solves(g, e + 1)
      BY <1>3, <3>5, <3>7
    <3> QED
      BY <1>4, <3>2, <3>5, <3>8
  <2> QED
    BY <2>1
<1>6. PICK f : Solves(f, top)
  BY <1>4, <1>5
<1>7. Part(top) = D
  <2>1. ASSUME NEW b \in D
        PROVE  top - top <= b
    BY <1>1, <2>1
  <2> QED
    BY <2>1
<1> QED
  BY <1>6, <1>7 DEF Solves, Along

\* No block that can be reused is found: head->next is null.
LEMMA NothingFits ==
  ASSUME MemoryInv, NEW n
  PROVE  Memory!Fit(Memory!headNext, n) = NULL
<1>1. PICK bl, D : bl = block /\ D = DOMAIN block
  OBVIOUS
<1>2. /\ NULL \notin D /\ brk \in Nat /\ D \subseteq 0 .. brk - 1
      /\ \A a \in D : bl[a].next \in D \cup {NULL} /\ (bl[a].next = NULL \/ a < bl[a].next)
  <2>1. BlocksFit(bl, brk, tail, foreign)
    BY <1>1 DEF MemoryInv
  <2>2. D \subseteq 0 .. brk - 1
    BY <1>1, <2>1 DEF BlocksFit
  <2>3. /\ NULL \notin D /\ brk \in Nat
        /\ \A a \in D : bl[a].next \in D \cup {NULL} /\ a < Start(bl[a].next, brk)
    BY <1>1, <2>1, BlockTypes
  <2> QED
    BY <2>2, <2>3 DEF Start
<1> DEFINE Fits(f) == f = [b \in D \cup {NULL} |->
                             IF b = NULL \/ (bl[b].free /\ bl[b].size >= n) THEN b
                             ELSE f[bl[b].next]]
<1>3. \E f : Fits(f)
  <2>1. PICK V, succ, G :
          /\ V = D \cup {NULL} /\ succ = [b \in D |-> bl[b].next]
          /\ G = [b \in D |-> [v \in V |-> IF bl[b].free /\ bl[b].size >= n THEN b ELSE v]]
    OBVIOUS
  <2>2. succ \in [D -> D \cup {NULL}] /\ \A b \in D : succ[b] = NULL \/ b < succ[b]
    BY <1>2, <2>1
  <2>3. NULL \in V /\ G \in [D -> [V -> V]]
    BY <2>1
  <2>4. PICK f : /\ f \in [D \cup {NULL} -> V] /\ f[NULL] = NULL
                /\ \A b \in D : f[b] = G[b][f[succ[b]]]
    <3>1. Upward(D, brk, succ)
      BY <1>2, <2>2 DEF Upward
    <3>2. Steps(D, V, NULL, G)
      BY <2>3 DEF Steps
    <3>3. PICK f : Along(D, succ, V, NULL, G, f)
      BY <3>1, <3>2, ListFunction
    <3> QED
      BY <3>3 DEF Along
  <2>5. ASSUME NEW b \in D
        PROVE  f[b] = IF bl[b].free /\ bl[b].size >= n THEN b ELSE f[bl[b].next]
    <3>1. succ[b] = bl[b].next /\ f[succ[b]] \in V
      BY <2>1, <2>2, <2>4
    <3> QED
      BY <2>1, <2>4, <3>1
  <2>6. PICK g : g = [b \in D \cup {NULL} |->
                       IF b = NULL \/ (bl[b].free /\ bl[b].size >= n) THEN b ELSE f[bl[b].next]]
    OBVIOUS
  <2>7. \A b \in D \cup {NULL} : g[b] = f[b]
    BY <1>2, <2>4, <2>5, <2>6
  <2>8. g = [b \in D \cup {NULL} |-> g[b]] /\ f = [b \in D \cup {NULL} |-> f[b]]
    BY <2>4, <2>6
  <2>9. g = f
    BY <2>7, <2>8
  <2> QED
    BY <2>6, <2>9
<1> HIDE DEF Fits
<1>4. PICK f : f = CHOOSE fit : Fits(fit)
  OBVIOUS
<1>5. Fits(f)
  BY <1>3, <1>4
<1>6. f[NULL] = NULL
  BY <1>5 DEF Fits
<1>7. Memory!Fit(NULL, n) = f[NULL]
  BY <1>1, <1>4 DEF Memory!Fit, Fits
<1> QED
  BY <1>6, <1>7 DEF Memory!headNext

\* The free blocks from p on, which r stands for, take the memory up to r.next at most.
RunFits(bl, top, others, p, r) ==
  /\ r.next \in DOMAIN bl \cup {NULL} /\ r.size \in Nat
  /\ Start(p, top) + r.size <= Start(r.next, top)
  /\ others = {} => Start(p, top) + r.size = Start(r.next, top)
  /\ r.merged = {c \in DOMAIN bl : Start(p, top) <= c /\ c < Start(r.next, top)}
  /\ \A c \in r.merged : bl[c].free

NoRun(p) == [size |-> 0, next |-> p, merged |-> {}]

RunFrom(bl, b, rest) ==
  IF ~ bl[b].free THEN NoRun(b)
  ELSE [size |-> Memory!Header + bl[b].size + rest.size, next |-> rest.next,
        merged |-> {b} \cup rest.merged]

LEMMA RunsFit ==
  ASSUME NEW bl, NEW top, NEW last, NEW others, BlocksFit(bl, top, last, others), NEW f,
         f[NULL] = NoRun(NULL), \A b \in DOMAIN bl : f[b] = RunFrom(bl, b, f[bl[b].next])
  PROVE  \A p \in DOMAIN bl \cup {NULL} : RunFits(bl, top, others, p, f[p])
<1>1. PICK D : D = DOMAIN bl
  OBVIOUS
<1>2. /\ top \in Nat /\ NULL \notin D
      /\ \A a \in D : /\ a \in Nat /\ a < top /\ Start(a, top) = a
                      /\ bl[a].size \in Nat /\ bl[a].free \in BOOLEAN
                      /\ bl[a].next \in D \cup {NULL}
                      /\ BlockEnd(bl, a) = a + 2 + bl[a].size
                      /\ a < Start(bl[a].next, top)
      /\ \A p \in D \cup {NULL} : Start(p, top) \in Nat /\ Start(p, top) <= top
  BY <1>1, BlockTypes
<1>3. \A p : NoRun(p).size = 0 /\ NoRun(p).next = p /\ NoRun(p).merged = {}
  BY DEF NoRun
<1>4. Start(NULL, top) = top
  BY DEF Start
<1>5. RunFits(bl, top, others, NULL, f[NULL])
  <2>1. PICK r : r = f[NULL]
    OBVIOUS
  <2>2. r.size = 0 /\ r.next = NULL /\ r.merged = {}
    BY <1>3, <2>1
  <2>3. {c \in D : Start(NULL, top) <= c /\ c < Start(r.next, top)} = {}
    BY <1>2, <1>4, <2>2
  <2> QED
    BY <1>1, <1>2, <1>4, <2>1, <2>2, <2>3 DEF RunFits
<1>6. ASSUME NEW b \in D, RunFits(bl, top, others, bl[b].next, f[bl[b].next])
      PROVE  RunFits(bl, top, others, b, f[b])
  <2>1. PICK r, p, rest : r = f[b] /\ p = bl[b].next /\ rest = f[p]
    OBVIOUS
  <2>2. /\ r = RunFrom(bl, b, rest) /\ p \in D \cup {NULL} /\ b < Start(p, top)
        /\ RunFits(bl, top, others, p, rest)
    BY <1>1, <1>2, <1>6, <2>1
  <2>3. /\ BlockEnd(bl, b) <= Start(p, top)
        /\ others = {} => BlockEnd(bl, b) = Start(p, top)
        /\ \A c \in D : b < c => Start(p, top) <= c
    BY <1>1, <2>1 DEF BlocksFit
  <2>4. CASE ~ bl[b].free
    <3>1. r.size = 0 /\ r.next = b /\ r.merged = {}
      BY <1>3, <2>2, <2>4 DEF RunFrom
    <3>2. {c \in D : Start(b, top) <= c /\ c < Start(r.next, top)} = {}
      BY <1>2, <3>1
    <3>3. Start(b, top) = b /\ b \in Nat /\ b \in D \cup {NULL}
      BY <1>2
    <3> QED
      BY <1>1, <2>1, <3>1, <3>2, <3>3 DEF RunFits
  <2>5. CASE bl[b].free
    <3>1. /\ r.size = 2 + bl[b].size + rest.size /\ r.next = rest.next
          /\ r.merged = {b} \cup rest.merged
      BY <2>2, <2>5 DEF RunFrom, Memory!Header
    <3>2. /\ rest.next \in D \cup {NULL} /\ rest.size \in Nat
          /\ Start(p, top) + rest.size <= Start(rest.next, top)
          /\ others = {} => Start(p, top) + rest.size = Start(rest.next, top)
          /\ rest.merged = {c \in D : Start(p, top) <= c /\ c < Start(rest.next, top)}
          /\ \A c \in rest.merged : bl[c].free
      BY <1>1, <2>2 DEF RunFits
    <3>3. PICK s, e : s = Start(p, top) /\ e = Start(rest.next, top)
      OBVIOUS
    <3>4. s \in Nat /\ e \in Nat /\ b \in Nat /\ bl[b].size \in Nat /\ Start(b, top) = b
          /\ BlockEnd(bl, b) = b + 2 + bl[b].size
      BY <1>2, <2>2, <3>2, <3>3
    <3>5. b + 2 + bl[b].size <= s /\ s + rest.size <= e
      BY <2>3, <3>2, <3>3, <3>4
    <3>6. r.size \in Nat /\ b + r.size <= e
      BY <3>1, <3>2, <3>4, <3>5
    <3>7. others = {} => b + r.size = e
      <4>1. others = {} => b + 2 + bl[b].size = s /\ s + rest.size = e
        BY <2>3, <3>2, <3>3, <3>4
      <4> QED
        BY <3>1, <3>2, <3>4, <4>1
    <3>8. r.merged = {c \in D : b <= c /\ c < e}
      <4>1. b <= b /\ b < e /\ b < s
        BY <2>2, <3>2, <3>3, <3>4, <3>5
      <4>2. \A c \in D : c \in Nat /\ (b < c => s <= c)
        BY <1>2, <2>3, <3>3
      <4>3. \A c \in D : b <= c /\ c < e <=> c = b \/ (s <= c /\ c < e)
        BY <3>4, <4>1, <4>2
      <4>4. rest.merged = {c \in D : s <= c /\ c < e}
        BY <3>2, <3>3
      <4> QED
        BY <3>1, <4>3, <4>4
    <3>9. \A c \in r.merged : bl[c].free
      BY <2>5, <3>1, <3>2
    <3> QED
      BY <1>1, <2>1, <3>1, <3>2, <3>3, <3>4, <3>6, <3>7, <3>8, <3>9 DEF RunFits
  <2> QED
    BY <1>2, <2>4, <2>5
<1>7. ASSUME NEW b \in D, ~ RunFits(bl, top, others, b, f[b])
      PROVE  FALSE
  <2>1. PICK T : T = {d \in Nat : \E c \in D : d = top - c /\ ~ RunFits(bl, top, others, c, f[c])}
    OBVIOUS
  <2>2. top - b \in T /\ T \subseteq Nat
    BY <1>2, <1>7, <2>1
  <2>3. PICK d \in T : \A m \in T : d <= m
    BY <2>2, LeastNumber
  <2>4. PICK c \in D : d = top - c /\ ~ RunFits(bl, top, others, c, f[c])
    BY <2>1
  <2>5. PICK p : p = bl[c].next
    OBVIOUS
  <2>6. p \in D \cup {NULL} /\ c < Start(p, top) /\ ~ RunFits(bl, top, others, p, f[p])
    BY <1>2, <1>6, <2>4, <2>5
  <2>7. p \in D
    BY <1>5, <2>6
  <2>8. p \in Nat /\ p < top /\ c < p /\ c \in Nat
    BY <1>2, <2>6, <2>7
  <2>9. PICK m : m = top - p
    OBVIOUS
  <2>10. m \in T /\ ~ (d <= m)
    BY <1>2, <2>1, <2>4, <2>6, <2>7, <2>8, <2>9
  <2> QED
    BY <2>3, <2>10
<1> QED
  BY <1>1, <1>5, <1>7

LEMMA RunIs ==
  ASSUME MemoryInv, NEW p \in DOMAIN block \cup {NULL}
  PROVE  RunFits(block, brk, foreign, p, Memory!Run(p))
<1>1. PICK bl, D : bl = block /\ D = DOMAIN block
  OBVIOUS
<1>2. /\ NULL \notin D /\ brk \in Nat /\ D \subseteq 0 .. brk - 1
      /\ \A a \in D : /\ a \in Nat /\ bl[a].size \in Nat
                      /\ bl[a].next \in D \cup {NULL} /\ (bl[a].next = NULL \/ a < bl[a].next)
  <2>1. BlocksFit(bl, brk, tail, foreign)
    BY <1>1 DEF MemoryInv
  <2>2. D \subseteq 0 .. brk - 1
    BY <1>1, <2>1 DEF BlocksFit
  <2>3. /\ NULL \notin D /\ brk \in Nat
        /\ \A a \in D : /\ a \in Nat /\ bl[a].size \in Nat
                        /\ bl[a].next \in D \cup {NULL} /\ a < Start(bl[a].next, brk)
    BY <1>1, <2>1, BlockTypes
  <2> QED
    BY <2>2, <2>3 DEF Start
<1> DEFINE Runs(f) ==
      f = [b \in D \cup {NULL} |->
             IF b = NULL \/ ~ bl[b].free THEN [size |-> 0, next |-> b, merged |-> {}]
             ELSE LET rest == f[bl[b].next]
                  IN  [size |-> Memory!Header + bl[b].size + rest.size, next |-> rest.next,
                       merged |-> {b} \cup rest.merged]]
<1>3. \E f : Runs(f)
  <2>1. PICK V, succ, G :
          /\ V = [size : Nat, next : D \cup {NULL}, merged : SUBSET D]
          /\ succ = [b \in D |-> bl[b].next]
          /\ G = [b \in D |-> [v \in V |-> RunFrom(bl, b, v)]]
    OBVIOUS
  <2>2. succ \in [D -> D \cup {NULL}] /\ \A b \in D : succ[b] = NULL \/ b < succ[b]
    BY <1>2, <2>1
  <2>3. \A b \in D \cup {NULL} : NoRun(b) \in V
    BY <2>1 DEF NoRun
  <2>4. G \in [D -> [V -> V]]
    <3>1. ASSUME NEW b \in D, NEW v \in V
          PROVE  RunFrom(bl, b, v) \in V
      <4>1. v.size \in Nat /\ v.next \in D \cup {NULL} /\ v.merged \in SUBSET D
        BY <2>1
      <4>2. Memory!Header + bl[b].size + v.size \in Nat /\ {b} \cup v.merged \in SUBSET D
        BY <1>2, <4>1 DEF Memory!Header
      <4> QED
        BY <2>1, <2>3, <4>1, <4>2 DEF RunFrom
    <3> QED
      BY <2>1, <3>1
  <2>5. PICK base : base = NoRun(NULL)
    OBVIOUS
  <2>6. base \in V
    BY <2>3, <2>5
  <2>7. PICK f : /\ f \in [D \cup {NULL} -> V] /\ f[NULL] = base
                /\ \A b \in D : f[b] = G[b][f[succ[b]]]
    <3>1. Upward(D, brk, succ)
      BY <1>2, <2>2 DEF Upward
    <3>2. Steps(D, V, base, G)
      BY <2>4, <2>6 DEF Steps
    <3>3. PICK f : Along(D, succ, V, base, G, f)
      BY <3>1, <3>2, ListFunction
    <3> QED
      BY <3>3 DEF Along
  <2>8. ASSUME NEW b \in D
        PROVE  f[b] = RunFrom(bl, b, f[bl[b].next])
    <3>1. succ[b] = bl[b].next /\ f[succ[b]] \in V
      BY <2>1, <2>2, <2>7
    <3> QED
      BY <2>1, <2>7, <3>1
  <2>9. PICK g : g = [b \in D \cup {NULL} |->
             IF b = NULL \/ ~ bl[b].free THEN [size |-> 0, next |-> b, merged |-> {}]
             ELSE LET rest == f[bl[b].next]
                  IN  [size |-> Memory!Header + bl[b].size + rest.size, next |-> rest.next,
                       merged |-> {b} \cup rest.merged]]
    OBVIOUS
  <2>10. \A b \in D \cup {NULL} : g[b] = f[b]
    <3>1. g[NULL] = f[NULL]
      BY <2>5, <2>7, <2>9 DEF NoRun
    <3>2. ASSUME NEW b \in D
          PROVE  g[b] = f[b]
      BY <1>2, <2>8, <2>9 DEF RunFrom, NoRun
    <3> QED
      BY <3>1, <3>2
  <2>11. g = [b \in D \cup {NULL} |-> g[b]] /\ f = [b \in D \cup {NULL} |-> f[b]]
    BY <2>7, <2>9
  <2>12. g = f
    BY <2>10, <2>11
  <2> QED
    BY <2>9, <2>12
<1> HIDE DEF Runs
<1>4. PICK f : f = CHOOSE run : Runs(run)
  OBVIOUS
<1>5. Runs(f)
  BY <1>3, <1>4
<1>6. f[NULL] = NoRun(NULL) /\ \A b \in D : f[b] = RunFrom(bl, b, f[bl[b].next])
  BY <1>2, <1>5 DEF Runs, RunFrom, NoRun
<1>7. Memory!Run(p) = f[p]
  BY <1>1, <1>4 DEF Memory!Run, Runs
<1>8. BlocksFit(bl, brk, tail, foreign)
  BY <1>1 DEF MemoryInv
<1>9. \A q \in D \cup {NULL} : RunFits(bl, brk, foreign, q, f[q])
  BY <1>1, <1>6, <1>8, RunsFit
<1> QED
  BY <1>1, <1>7, <1>9

LEMMA MemoryInit == Memory!Init => MemoryInv
<1> SUFFICES ASSUME Memory!Init
             PROVE  MemoryInv
  OBVIOUS
<1>1. PICK bl : bl = block
  OBVIOUS
<1>2. DOMAIN bl = {} /\ brk = 0 /\ tail = NULL /\ foreign = {}
  BY <1>1 DEF Memory!Init
<1>3. bl \in [DOMAIN bl -> [size : Nat, free : BOOLEAN, next : DOMAIN bl \cup {NULL}]]
  BY <1>1, <1>2 DEF Memory!Init
<1>4. BlocksFit(bl, brk, tail, foreign)
  BY <1>2, <1>3 DEF BlocksFit
<1> QED
  BY <1>1, <1>4 DEF MemoryInv

LEMMA MemoryExtend ==
  ASSUME MemoryInv, NEW n \in Nat, Memory!Extend(n)
  PROVE  MemoryInv'
<1>1. PICK bl, D, top, last, g, high :
        bl = block /\ D = DOMAIN block /\ top = brk /\ last = tail /\ g = block' /\ high = brk'
  OBVIOUS
<1>2. BlocksFit(bl, top, last, foreign)
  BY <1>1 DEF MemoryInv
<1>3. /\ NULL \notin Int /\ NULL \notin D /\ top \in Nat
      /\ \A a \in D : /\ a \in Nat /\ a < top /\ Start(a, top) = a
                      /\ bl[a].size \in Nat /\ bl[a].free \in BOOLEAN
                      /\ bl[a].next \in D \cup {NULL}
                      /\ BlockEnd(bl, a) = a + 2 + bl[a].size
                      /\ a < Start(bl[a].next, top)
  BY <1>1, <1>2, BlockTypes
<1>4. /\ D = DOMAIN bl
      /\ D \subseteq 0 .. top - 1 /\ foreign \subseteq 0 .. top - 1
      /\ bl \in [D -> [size : Nat, free : BOOLEAN, next : D \cup {NULL}]]
      /\ \A a \in D :
           /\ BlockEnd(bl, a) <= Start(bl[a].next, top)
           /\ foreign = {} => BlockEnd(bl, a) = Start(bl[a].next, top)
           /\ \A b \in D : a < b => Start(bl[a].next, top) <= b
           /\ bl[a].next = NULL <=> a = last
           /\ ~ bl[a].free => (a .. BlockEnd(bl, a) - 1) \cap foreign = {}
      /\ (last = NULL /\ D = {}) \/ last \in D
      /\ foreign = {} => top = 0 \/ 0 \in D
  BY <1>1, <1>2 DEF BlocksFit
<1>5. PICK linked, p : linked = (IF last = NULL THEN bl ELSE [bl EXCEPT ![last].next = top])
                       /\ p = [size |-> n, free |-> FALSE, next |-> NULL]
  OBVIOUS
<1>6. /\ g = [a \in D \cup {top} |-> IF a = top THEN p ELSE linked[a]]
      /\ tail' = top /\ high = top + 2 + n /\ foreign' = foreign
  BY <1>1, <1>5 DEF Memory!Extend, Memory!Header
<1>7. top \notin D /\ top # NULL /\ high \in Nat /\ top < high
  BY <1>3, <1>6
<1>8. DOMAIN g = D \cup {top} /\ g[top] = p
  BY <1>6
<1>9. ASSUME NEW a \in D
      PROVE  /\ g[a] \in [size : Nat, free : BOOLEAN, next : D \cup {top, NULL}]
             /\ g[a].size = bl[a].size /\ g[a].free = bl[a].free
             /\ g[a].next = IF a = last THEN top ELSE bl[a].next
  <2>1. g[a] = linked[a] /\ bl[a] \in [size : Nat, free : BOOLEAN, next : D \cup {NULL}]
    BY <1>4, <1>6, <1>7
  <2>2. CASE a = last
    <3>1. linked[a] = [bl[a] EXCEPT !.next = top]
      BY <1>3, <1>4, <1>5, <2>2
    <3> QED
      BY <2>1, <2>2, <3>1
  <2>3. CASE a # last
    <3>1. linked[a] = bl[a]
      BY <1>4, <1>5, <2>3
    <3> QED
      BY <2>1, <2>3, <3>1
  <2> QED
    BY <2>2, <2>3
<1>10. p \in [size : Nat, free : BOOLEAN, next : D \cup {top, NULL}]
       /\ p.size = n /\ p.free = FALSE /\ p.next = NULL
  BY <1>5
<1>11. g \in [DOMAIN g -> [size : Nat, free : BOOLEAN, next : DOMAIN g \cup {NULL}]]
  <2>1. \A a \in D \cup {top} : g[a] \in [size : Nat, free : BOOLEAN, next : D \cup {top, NULL}]
    BY <1>8, <1>9, <1>10
  <2>2. g = [a \in D \cup {top} |-> g[a]]
    BY <1>6
  <2>3. g \in [D \cup {top} -> [size : Nat, free : BOOLEAN, next : D \cup {top, NULL}]]
    BY <2>1, <2>2
  <2> QED
    BY <1>8, <2>3
<1>12. ASSUME NEW a \in D
       PROVE  BlockEnd(g, a) = BlockEnd(bl, a) /\ Start(g[a].next, high) = Start(bl[a].next, top)
  <2>1. BlockEnd(g, a) = BlockEnd(bl, a)
    BY <1>9 DEF BlockEnd
  <2>2. PICK p1, p2 : p1 = bl[a].next /\ p2 = g[a].next
    OBVIOUS
  <2>3. p2 = (IF a = last THEN top ELSE p1) /\ (p1 = NULL <=> a = last)
    BY <1>4, <1>9, <2>2
  <2>4. Start(p2, high) = Start(p1, top)
    BY <1>7, <2>3 DEF Start
  <2> QED
    BY <2>1, <2>2, <2>4
<1>13. BlockEnd(g, top) = high /\ Start(g[top].next, high) = high
  BY <1>6, <1>8, <1>10 DEF BlockEnd, Memory!Header, Start
<1>14. ASSUME NEW a \in DOMAIN g
       PROVE  /\ BlockEnd(g, a) <= Start(g[a].next, high)
              /\ foreign = {} => BlockEnd(g, a) = Start(g[a].next, high)
              /\ \A b \in DOMAIN g : a < b => Start(g[a].next, high) <= b
              /\ g[a].next = NULL <=> a = top
              /\ ~ g[a].free => (a .. BlockEnd(g, a) - 1) \cap foreign = {}
  <2>1. CASE a = top
    <3>1. \A b \in DOMAIN g : ~ (a < b)
      BY <1>3, <1>8, <2>1
    <3>2. (a .. BlockEnd(g, a) - 1) \cap foreign = {}
      <4>1. \A f \in foreign : f \in Int /\ f < top
        BY <1>3, <1>4
      <4> QED
        BY <1>3, <2>1, <4>1
    <3> QED
      BY <1>7, <1>8, <1>10, <1>13, <2>1, <3>1, <3>2
  <2>2. CASE a \in D
    <3>1. BlockEnd(g, a) = BlockEnd(bl, a) /\ Start(g[a].next, high) = Start(bl[a].next, top)
      BY <1>12, <2>2
    <3>2. Start(bl[a].next, top) <= top
      BY <1>3, <2>2 DEF Start
    <3>3. \A b \in DOMAIN g : a < b => Start(g[a].next, high) <= b
      BY <1>4, <1>8, <2>2, <3>1, <3>2
    <3>4. g[a].next = NULL <=> a = top
      BY <1>4, <1>7, <1>9, <2>2
    <3>5. ~ g[a].free => (a .. BlockEnd(g, a) - 1) \cap foreign = {}
      BY <1>4, <1>9, <2>2, <3>1
    <3> QED
      BY <1>4, <2>2, <3>1, <3>3, <3>4, <3>5
  <2> QED
    BY <1>8, <2>1, <2>2
<1>15. DOMAIN g \subseteq 0 .. high - 1 /\ foreign \subseteq 0 .. high - 1
  <2>1. 0 .. top - 1 \subseteq 0 .. high - 1 /\ top \in 0 .. high - 1
    BY <1>3, <1>7
  <2> QED
    BY <1>4, <1>8, <2>1
<1>16. foreign = {} => high = 0 \/ 0 \in DOMAIN g
  BY <1>4, <1>8
<1>17. BlocksFit(g, high, top, foreign)
  BY <1>7, <1>8, <1>11, <1>14, <1>15, <1>16 DEF BlocksFit
<1> QED
  BY <1>1, <1>6, <1>17 DEF MemoryInv

LEMMA MemoryForeign ==
  ASSUME MemoryInv, Memory!Foreign(1)
  PROVE  MemoryInv'
<1>1. PICK bl, D, top, last, others, high, more :
        /\ bl = block /\ D = DOMAIN block /\ top = brk /\ last = tail /\ others = foreign
        /\ high = top + 1 /\ more = others \cup {top}
  OBVIOUS
<1>2. BlocksFit(bl, top, last, others)
  BY <1>1 DEF MemoryInv
<1>3. /\ NULL \notin D /\ top \in Nat
      /\ \A a \in D : /\ a \in Nat /\ a < top /\ bl[a].size \in Nat
                      /\ bl[a].next \in D \cup {NULL}
                      /\ BlockEnd(bl, a) = a + 2 + bl[a].size
      /\ \A p \in D \cup {NULL} : Start(p, top) \in Nat /\ Start(p, top) <= top
  BY <1>1, <1>2, BlockTypes
<1>4. /\ D = DOMAIN bl
      /\ D \subseteq 0 .. top - 1 /\ others \subseteq 0 .. top - 1
      /\ bl \in [D -> [size : Nat, free : BOOLEAN, next : D \cup {NULL}]]
      /\ \A a \in D :
           /\ BlockEnd(bl, a) <= Start(bl[a].next, top)
           /\ \A b \in D : a < b => Start(bl[a].next, top) <= b
           /\ bl[a].next = NULL <=> a = last
           /\ ~ bl[a].free => (a .. BlockEnd(bl, a) - 1) \cap others = {}
      /\ (last = NULL /\ D = {}) \/ last \in D
  BY <1>1, <1>2 DEF BlocksFit
<1>5. block' = bl /\ tail' = last /\ brk' = high /\ foreign' = more
  <2>1. top .. top + 1 - 1 = {top}
    BY <1>3
  <2> QED
    BY <1>1, <2>1 DEF Memory!Foreign
<1>6. high \in Nat /\ D \subseteq 0 .. high - 1 /\ more \subseteq 0 .. high - 1 /\ more # {}
  <2>1. 0 .. top - 1 \subseteq 0 .. high - 1 /\ top \in 0 .. high - 1 /\ high \in Nat
    BY <1>1, <1>3
  <2> QED
    BY <1>1, <1>4, <2>1
<1>7. ASSUME NEW a \in D
      PROVE  /\ BlockEnd(bl, a) <= Start(bl[a].next, high)
             /\ \A b \in D : a < b => Start(bl[a].next, high) <= b
             /\ ~ bl[a].free => (a .. BlockEnd(bl, a) - 1) \cap more = {}
  <2>1. BlockEnd(bl, a) \in Nat /\ BlockEnd(bl, a) <= top
    <3>1. Start(bl[a].next, top) \in Nat /\ Start(bl[a].next, top) <= top
      BY <1>3
    <3>2. BlockEnd(bl, a) <= Start(bl[a].next, top) /\ BlockEnd(bl, a) \in Nat
      BY <1>3, <1>4
    <3> QED
      BY <1>3, <3>1, <3>2
  <2>2. CASE bl[a].next = NULL
    <3>1. Start(bl[a].next, top) = top /\ Start(bl[a].next, high) = high
      BY <2>2 DEF Start
    <3>2. \A b \in D : ~ (a < b)
      BY <1>3, <1>4, <3>1
    <3>3. BlockEnd(bl, a) <= high
      BY <1>1, <1>3, <2>1
    <3>4. ~ bl[a].free => (a .. BlockEnd(bl, a) - 1) \cap more = {}
      BY <1>1, <1>3, <1>4, <2>1
    <3> QED
      BY <3>1, <3>2, <3>3, <3>4
  <2>3. CASE bl[a].next # NULL
    <3>1. Start(bl[a].next, top) = Start(bl[a].next, high)
      BY <2>3 DEF Start
    <3>2. ~ bl[a].free => (a .. BlockEnd(bl, a) - 1) \cap more = {}
      BY <1>1, <1>3, <1>4, <2>1
    <3> QED
      BY <1>4, <3>1, <3>2
  <2> QED
    BY <2>2, <2>3
<1>8. BlocksFit(bl, high, last, more)
  BY <1>4, <1>6, <1>7 DEF BlocksFit
<1> QED
  BY <1>5, <1>8 DEF MemoryInv

LEMMA MemoryFree ==
  ASSUME MemoryInv, NEW a \in DOMAIN block, ~ block[a].free, Memory!Free(a)
  PROVE  MemoryInv'
<1>1. PICK bl, D, top, last, others, p, r, g, E :
        /\ bl = block /\ D = DOMAIN block /\ top = brk /\ last = tail /\ others = foreign
        /\ p = bl[a].next /\ r = Memory!Run(p) /\ g = block' /\ E = D \ r.merged
  OBVIOUS
<1>2. BlocksFit(bl, top, last, others)
  BY <1>1 DEF MemoryInv
<1>3. /\ NULL \notin D /\ top \in Nat
      /\ \A b \in D : /\ b \in Nat /\ b < top /\ Start(b, top) = b
                      /\ bl[b].size \in Nat /\ bl[b].free \in BOOLEAN
                      /\ bl[b].next \in D \cup {NULL}
                      /\ BlockEnd(bl, b) = b + 2 + bl[b].size
                      /\ b < Start(bl[b].next, top)
      /\ \A q \in D \cup {NULL} : Start(q, top) \in Nat /\ Start(q, top) <= top
  BY <1>1, <1>2, BlockTypes
<1>4. /\ D = DOMAIN bl
      /\ D \subseteq 0 .. top - 1 /\ others \subseteq 0 .. top - 1
      /\ bl \in [D -> [size : Nat, free : BOOLEAN, next : D \cup {NULL}]]
      /\ \A b \in D :
           /\ BlockEnd(bl, b) <= Start(bl[b].next, top)
           /\ others = {} => BlockEnd(bl, b) = Start(bl[b].next, top)
           /\ \A c \in D : b < c => Start(bl[b].next, top) <= c
           /\ bl[b].next = NULL <=> b = last
           /\ ~ bl[b].free => (b .. BlockEnd(bl, b) - 1) \cap others = {}
      /\ (last = NULL /\ D = {}) \/ last \in D
      /\ others = {} => top = 0 \/ 0 \in D
  BY <1>1, <1>2 DEF BlocksFit
<1>5. a \in D /\ p \in D \cup {NULL}
  BY <1>1, <1>3
<1>6. RunFits(bl, top, others, p, r)
  BY <1>1, <1>5, RunIs
<1>7. PICK s, e : s = Start(p, top) /\ e = Start(r.next, top)
  OBVIOUS
<1>8. /\ r.next \in D \cup {NULL} /\ r.size \in Nat /\ s + r.size <= e
      /\ others = {} => s + r.size = e
      /\ r.merged = {c \in D : s <= c /\ c < e}
      /\ \A c \in r.merged : bl[c].free
  BY <1>1, <1>6, <1>7 DEF RunFits
<1>9. s \in Nat /\ e \in Nat /\ a \in Nat /\ a < s /\ s <= e /\ e <= top
  BY <1>1, <1>3, <1>5, <1>7, <1>8
<1>10. PICK q : q = [size |-> bl[a].size + r.size, free |-> TRUE, next |-> r.next]
  OBVIOUS
<1>11. /\ g = [b \in E |-> IF b = a THEN q ELSE bl[b]]
       /\ tail' = (IF r.next = NULL THEN a ELSE last) /\ brk' = top /\ foreign' = others
  BY <1>1, <1>10 DEF Memory!Free, Memory!MergeInto
<1>12. a \in E /\ E \subseteq D /\ \A b \in E : b < s \/ e <= b
  <2>1. \A b \in D : b \in Nat
    BY <1>3
  <2> QED
    BY <1>1, <1>5, <1>8, <1>9, <2>1
\* Between a and the block after the free ones there is none.
<1>13. \A b \in E : b <= a \/ e <= b
  <2>1. \A b \in D : a < b => s <= b
    BY <1>1, <1>4, <1>5, <1>7
  <2> QED
    BY <1>3, <1>9, <1>12, <2>1
<1>14. r.next \in E \cup {NULL}
  <2>1. ASSUME r.next # NULL
        PROVE  r.next \in D /\ e = r.next
    BY <1>7, <1>8, <2>1 DEF Start
  <2>2. ASSUME r.next # NULL
        PROVE  r.next \notin r.merged
    BY <1>8, <1>9, <2>1, <2>2
  <2> QED
    BY <1>1, <2>1, <2>2
<1>15. ASSUME NEW b \in E, b # a
       PROVE  bl[b].next \in E \cup {NULL}
  <2>1. PICK o : o = bl[b].next
    OBVIOUS
  <2>2. b \in D /\ o \in D \cup {NULL} /\ b \in Nat
    BY <1>3, <1>12, <2>1
  <2>3. ASSUME o \in r.merged
        PROVE  FALSE
    <3>1. o \in D /\ s <= o /\ o < e /\ o \in Nat /\ Start(o, top) = o
      BY <1>3, <1>8, <2>3
    <3>2. b < o /\ \A c \in D : b < c => o <= c
      BY <1>3, <1>4, <2>1, <2>2, <3>1
    <3>3. CASE b < a
      BY <1>5, <1>9, <3>1, <3>2, <3>3
    <3>4. CASE e <= b
      BY <1>9, <2>2, <3>1, <3>2, <3>4
    <3> QED
      BY <1>9, <1>13, <1>15, <2>2, <3>3, <3>4
  <2> QED
    BY <1>1, <2>1, <2>2, <2>3
<1>16. /\ q.size = bl[a].size + r.size /\ q.free = TRUE /\ q.next = r.next
       /\ q \in [size : Nat, free : BOOLEAN, next : E \cup {NULL}]
  <2>1. bl[a].size + r.size \in Nat
    BY <1>3, <1>5, <1>8
  <2> QED
    BY <1>10, <1>14, <2>1
<1>17. DOMAIN g = E /\ g[a] = q /\ \A b \in E : b # a => g[b] = bl[b]
  BY <1>11, <1>12
<1>18. g \in [DOMAIN g -> [size : Nat, free : BOOLEAN, next : DOMAIN g \cup {NULL}]]
  <2>1. ASSUME NEW b \in E
        PROVE  g[b] \in [size : Nat, free : BOOLEAN, next : E \cup {NULL}]
    <3>1. CASE b = a
      BY <1>16, <1>17, <3>1
    <3>2. CASE b # a
      <4>1. bl[b] \in [size : Nat, free : BOOLEAN, next : D \cup {NULL}]
        BY <1>4, <1>12
      <4>2. bl[b].next \in E \cup {NULL}
        BY <1>15, <3>2
      <4> QED
        BY <1>17, <3>2, <4>1, <4>2
    <3> QED
      BY <3>1, <3>2
  <2>2. g = [b \in E |-> g[b]]
    BY <1>11
  <2>3. g \in [E -> [size : Nat, free : BOOLEAN, next : E \cup {NULL}]]
    BY <2>1, <2>2
  <2> QED
    BY <1>17, <2>3
<1>19. BlockEnd(g, a) = a + 2 + bl[a].size + r.size /\ Start(g[a].next, top) = e
  <2>1. g[a].size = bl[a].size + r.size /\ g[a].next = r.next
    BY <1>16, <1>17
  <2>2. a \in Nat /\ bl[a].size \in Nat /\ r.size \in Nat
    BY <1>3, <1>5, <1>8
  <2> QED
    BY <1>7, <2>1, <2>2 DEF BlockEnd, Memory!Header
<1>20. BlockEnd(g, a) <= e /\ (others = {} => BlockEnd(g, a) = e)
  <2>1. BlockEnd(bl, a) <= s /\ (others = {} => BlockEnd(bl, a) = s)
    BY <1>1, <1>4, <1>5, <1>7
  <2>2. BlockEnd(bl, a) = a + 2 + bl[a].size /\ bl[a].size \in Nat
    BY <1>3, <1>5
  <2>3. PICK m : m = BlockEnd(bl, a)
    OBVIOUS
  <2>4. m \in Nat /\ BlockEnd(g, a) = m + r.size /\ m <= s /\ (others = {} => m = s)
    BY <1>9, <1>19, <2>1, <2>2, <2>3
  <2> QED
    BY <1>8, <1>9, <2>4
<1>21. PICK end : end = IF r.next = NULL THEN a ELSE last
  OBVIOUS
\* Unless the free blocks reach to the end of the list, its last block stays.
<1>22. end \in E /\ \A b \in E : g[b].next = NULL <=> b = end
  <2>1. CASE r.next = NULL
    <3>1. e = top
      BY <1>7, <2>1 DEF Start
    <3>2. ASSUME NEW b \in E, b # a
          PROVE  bl[b].next # NULL
      <4>1. b \in D /\ b \in Nat /\ b < top /\ b <= a
        BY <1>3, <1>12, <1>13, <3>1
      <4>2. Start(bl[b].next, top) <= a /\ a < top
        BY <1>3, <1>4, <1>5, <1>9, <3>2, <4>1
      <4>3. bl[b].next = NULL => Start(bl[b].next, top) = top
        BY DEF Start
      <4> QED
        BY <1>3, <1>9, <4>2, <4>3
    <3>3. g[a].next = NULL
      BY <1>16, <1>17, <2>1
    <3> QED
      BY <1>12, <1>17, <1>21, <2>1, <3>2, <3>3
  <2>2. CASE r.next # NULL
    <3>1. r.next \in D /\ e = r.next /\ end = last /\ last \in D
      BY <1>4, <1>5, <1>7, <1>8, <1>21, <2>2 DEF Start
    <3>2. e <= last
      <4>1. bl[last].next = NULL
        BY <1>4, <3>1
      <4>2. Start(bl[last].next, top) = top
        BY <4>1 DEF Start
      <4>3. \A c \in D : ~ (last < c)
        BY <1>3, <1>4, <3>1, <4>2
      <4> QED
        BY <1>3, <3>1, <4>3
    <3>3. last \in E /\ last # a
      BY <1>1, <1>3, <1>8, <1>9, <3>1, <3>2
    <3>4. g[a].next # NULL
      BY <1>16, <1>17, <2>2
    <3>5. \A b \in E : bl[b].next = NULL <=> b = last
      BY <1>4, <1>12
    <3> QED
      BY <1>17, <3>1, <3>3, <3>4, <3>5
  <2> QED
    BY <2>1, <2>2
<1>23. ASSUME NEW b \in E
       PROVE  /\ BlockEnd(g, b) <= Start(g[b].next, top)
              /\ others = {} => BlockEnd(g, b) = Start(g[b].next, top)
              /\ \A c \in E : b < c => Start(g[b].next, top) <= c
              /\ ~ g[b].free => (b .. BlockEnd(g, b) - 1) \cap others = {}
  <2>1. CASE b = a
    <3>1. \A c \in E : a < c => e <= c
      BY <1>3, <1>9, <1>12, <1>13
    <3>2. g[a].free
      BY <1>16, <1>17
    <3> QED
      BY <1>19, <1>20, <2>1, <3>1, <3>2
  <2>2. CASE b # a
    <3>1. g[b] = bl[b] /\ b \in D /\ BlockEnd(g, b) = BlockEnd(bl, b)
      BY <1>12, <1>17, <2>2 DEF BlockEnd
    <3> QED
      BY <1>4, <1>12, <3>1
  <2> QED
    BY <2>1, <2>2
<1>24. others = {} => top = 0 \/ 0 \in E
  <2>1. ASSUME 0 \in D
        PROVE  0 \in E
    BY <1>1, <1>8, <1>9, <2>1
  <2> QED
    BY <1>4, <2>1
<1>25. BlocksFit(g, top, end, others)
  BY <1>3, <1>4, <1>12, <1>17, <1>18, <1>22, <1>23, <1>24 DEF BlocksFit
<1> QED
  BY <1>1, <1>11, <1>21, <1>25 DEF MemoryInv

LEMMA MemoryStep ==
  ASSUME MemoryInv, [Memory!Next]_allocVars
  PROVE  MemoryInv'
<1>1. ASSUME NEW n \in Size, Memory!Allocate(n)
      PROVE  MemoryInv'
  <2>1. n \in Nat
    BY ContainersAssumption
  <2>2. Memory!Fit(Memory!headNext, n) = NULL
    BY NothingFits
  <2>3. Memory!Fail \/ Memory!Extend(n)
    BY <1>1, <2>2 DEF Memory!Allocate
  <2>4. CASE Memory!Fail
    BY <2>4 DEF Memory!Fail, MemoryInv
  <2> QED
    BY <2>1, <2>3, <2>4, MemoryExtend
<1>2. ASSUME NEW a \in DOMAIN block, ~ block[a].free, Memory!Free(a)
      PROVE  MemoryInv'
  BY <1>2, MemoryFree
<1>3. CASE Memory!Foreign(1)
  BY <1>3, MemoryForeign
<1>4. CASE UNCHANGED allocVars
  BY <1>4 DEF allocVars, MemoryInv
<1> QED
  BY <1>1, <1>2, <1>3, <1>4 DEF Memory!Next

LEMMA MemoryKept ==
  ASSUME MemoryInv
  PROVE  BlocksApart
<1>1. PICK bl, D, top : bl = block /\ D = DOMAIN block /\ top = brk
  OBVIOUS
<1>2. BlocksFit(bl, top, tail, foreign)
  BY <1>1 DEF MemoryInv
<1>3. /\ NULL \notin D /\ top \in Nat
      /\ \A b \in D : /\ b \in Nat /\ b < top /\ Start(b, top) = b
                      /\ bl[b].size \in Nat /\ bl[b].next \in D \cup {NULL}
                      /\ BlockEnd(bl, b) = b + 2 + bl[b].size
                      /\ b < Start(bl[b].next, top)
      /\ \A q \in D \cup {NULL} : Start(q, top) \in Nat /\ Start(q, top) <= top
  BY <1>1, <1>2, BlockTypes
<1>4. /\ \A b \in D :
           /\ BlockEnd(bl, b) <= Start(bl[b].next, top)
           /\ foreign = {} => BlockEnd(bl, b) = Start(bl[b].next, top)
           /\ \A c \in D : b < c => Start(bl[b].next, top) <= c
           /\ bl[b].next = NULL <=> b = tail
           /\ ~ bl[b].free => (b .. BlockEnd(bl, b) - 1) \cap foreign = {}
      /\ foreign = {} => top = 0 \/ 0 \in D
  BY <1>1, <1>2 DEF BlocksFit
<1>5. ASSUME NEW b \in D
      PROVE  Memory!Extent(b) = b .. BlockEnd(bl, b) - 1
  <2>1. PICK n : n = bl[b].size
    OBVIOUS
  <2>2. BlockEnd(bl, b) = b + 2 + n /\ b \in Nat /\ n \in Nat
    BY <1>3, <2>1
  <2>3. Memory!Extent(b) = b .. b + 2 + n - 1
    BY <1>1, <2>1 DEF Memory!Extent, Memory!Header
  <2>4. b + 2 + n - 1 = BlockEnd(bl, b) - 1
    BY <2>2
  <2> QED
    BY <2>3, <2>4
<1>6. ASSUME NEW b \in D, NEW c \in D, b < c
      PROVE  Memory!Extent(b) \cap Memory!Extent(c) = {}
  <2>1. BlockEnd(bl, b) <= c
    <3>1. PICK m, s : m = BlockEnd(bl, b) /\ s = Start(bl[b].next, top)
      OBVIOUS
    <3>2. m \in Nat /\ s \in Nat /\ c \in Nat /\ m <= s /\ s <= c
      BY <1>3, <1>4, <1>6, <3>1
    <3> QED
      BY <3>1, <3>2
  <2>2. BlockEnd(bl, b) \in Nat /\ BlockEnd(bl, c) \in Nat /\ b \in Nat /\ c \in Nat
    BY <1>3
  <2> QED
    BY <1>5, <2>1, <2>2
<1>7. \A a, b \in Memory!InUse : a # b => Memory!Extent(a) \cap Memory!Extent(b) = {}
  <2>1. \A b \in Memory!InUse : b \in D /\ b \in Nat
    BY <1>1, <1>3 DEF Memory!InUse
  <2>2. \A b, c \in Memory!InUse : b # c => b < c \/ c < b
    BY <2>1
  <2>3. \A b, c \in D : b < c => Memory!Extent(b) \cap Memory!Extent(c) = {}
    BY <1>6
  <2> QED
    BY <2>1, <2>2, <2>3
<1>8. \A b \in Memory!InUse : Memory!Extent(b) \cap foreign = {}
  BY <1>1, <1>4, <1>5 DEF Memory!InUse
<1>9. ASSUME NEW b \in D
      PROVE  bl[b].next = Memory!Following(b)
  <2>1. PICK later, p : later = {c \in D : c > b} /\ p = bl[b].next
    OBVIOUS
  <2>2. Memory!Following(b) =
          IF later = {} THEN NULL ELSE CHOOSE c \in later : \A d \in later : c <= d
    BY <1>1, <2>1 DEF Memory!Following
  <2>3. \A c \in later : c \in D /\ c \in Nat /\ c < top /\ Start(p, top) <= c
    BY <1>3, <1>4, <2>1
  <2>4. CASE p = NULL
    <3>1. Start(p, top) = top
      BY <2>4 DEF Start
    <3>2. later = {}
      BY <1>3, <2>3, <3>1
    <3> QED
      BY <2>1, <2>2, <2>4, <3>2
  <2>5. CASE p # NULL
    <3>1. p \in D /\ Start(p, top) = p /\ p \in Nat
      BY <1>3, <2>1, <2>5
    <3>2. p \in later /\ \A c \in later : p <= c
      BY <1>3, <2>1, <2>3, <3>1
    <3>3. \A c \in later : (\A d \in later : c <= d) => c = p
      BY <2>3, <3>1, <3>2
    <3> QED
      BY <2>1, <2>2, <3>2, <3>3
  <2> QED
    BY <2>4, <2>5
<1>10. ASSUME foreign = {}
       PROVE  UNION {Memory!Extent(a) : a \in D} = 0 .. top - 1
  <2>1. ASSUME NEW b \in D, NEW u \in Memory!Extent(b)
        PROVE  u \in 0 .. top - 1
    <3>1. PICK m, s : m = BlockEnd(bl, b) /\ s = Start(bl[b].next, top)
      OBVIOUS
    <3>2. m \in Nat /\ s \in Nat /\ b \in Nat /\ m <= s /\ s <= top
      BY <1>3, <1>4, <3>1
    <3>3. u \in b .. m - 1
      BY <1>5, <2>1, <3>1
    <3> QED
      BY <1>3, <3>2, <3>3
  <2>2. ASSUME NEW u \in 0 .. top - 1
        PROVE  \E b \in D : u \in Memory!Extent(b)
    \* The block that begins last, not after u
    <3>1. PICK T : T = {d \in Nat : \E b \in D : d = u - b}
      OBVIOUS
    <3>2. 0 \in D /\ u \in Nat
      BY <1>3, <1>4, <1>10
    <3>3. u \in T /\ T \subseteq Nat
      BY <3>1, <3>2
    <3>4. PICK d \in T : \A c \in T : d <= c
      BY <3>3, LeastNumber
    <3>5. PICK b \in D : d = u - b /\ d \in Nat
      BY <3>1
    <3>6. PICK m, s, p : m = BlockEnd(bl, b) /\ p = bl[b].next /\ s = Start(p, top)
      OBVIOUS
    <3>7. m \in Nat /\ s \in Nat /\ b \in Nat /\ m = s /\ b < s /\ p \in D \cup {NULL}
      BY <1>3, <1>4, <1>10, <3>6
    <3>8. u < s
      <4>1. CASE p = NULL
        BY <1>3, <3>6, <4>1 DEF Start
      <4>2. CASE p # NULL
        <5>1. p \in D /\ s = p /\ p \in Nat
          BY <1>3, <3>6, <3>7, <4>2
        <5>2. ASSUME p <= u
              PROVE  FALSE
          <6>1. u - p \in T
            BY <3>1, <3>2, <5>1, <5>2
          <6>2. ~ (d <= u - p)
            BY <3>2, <3>5, <3>7, <5>1
          <6> QED
            BY <3>4, <6>1, <6>2
        <5> QED
          BY <3>2, <5>1, <5>2
      <4> QED
        BY <4>1, <4>2
    <3>9. u \in b .. m - 1
      BY <3>2, <3>5, <3>7, <3>8
    <3> QED
      BY <1>5, <3>6, <3>9
  <2> QED
    BY <2>1, <2>2
<1> QED
  BY <1>1, <1>4, <1>7, <1>8, <1>9, <1>10 DEF BlocksApart, Memory!BlocksApart

\* allocator.cpp: for any sizes and however the calls of Allocate and free and others that move
\* the break take turns, blocks in use lie apart from each other and from what belongs to
\* others, the list is in the order of the addresses with tail at its end, and no memory is
\* left between the blocks while nobody else moves the break.
THEOREM AllocatorCorrect == AllocSpec => []BlocksApart
<1>1. AllocSpec => []MemoryInv
  BY MemoryInit, MemoryStep, PTL DEF AllocSpec
<1>2. MemoryInv => BlocksApart
  BY MemoryKept
<1> QED
  BY <1>1, <1>2, PTL
=============================================================================
