------------------------------ MODULE SlabProofs ------------------------------
(***************************************************************************)
(* Theorems about the slab allocator for every size of pages, headers and  *)
(* pools, every number of size caches and every sequence of requests.      *)
(***************************************************************************)
EXTENDS Slab, NatRecursion, FiniteSetTheorems

-----------------------------------------------------------------------------
(* 1 << order *)

\* The recursion of Power has a solution, and Power is one.
LEMMA PowerEquation ==
  \A n \in Nat : Power[n] = IF n = 0 THEN 1 ELSE 2 * Power[n - 1]
  <1> DEFINE step == [n \in Nat |-> [g \in [Nat -> Nat] |->
                        IF n = 0 THEN 1 ELSE 2 * g[n - 1]]]
  <1>1. step \in [Nat -> [[Nat -> Nat] -> Nat]]
    OBVIOUS
  <1>2. ASSUME NEW n \in Nat, NEW g \in [Nat -> Nat], NEW h \in [Nat -> Nat],
               \A i \in 0 .. n - 1 : g[i] = h[i]
        PROVE  step[n][g] = step[n][h]
    <2>1. n # 0 => n - 1 \in 0 .. n - 1
      OBVIOUS
    <2>. QED
      BY <1>2, <2>1
  <1>3. \A n \in Nat, g \in [Nat -> Nat] :
          step[n][g] = IF n = 0 THEN 1 ELSE 2 * g[n - 1]
    OBVIOUS
  <1> HIDE DEF step
  <1>4. PICK f \in [Nat -> Nat] : \A n \in Nat : f[n] = step[n][f]
    <2>1. \A n \in Nat : \A g, h \in [Nat -> Nat] :
            (\A i \in 0 .. n - 1 : g[i] = h[i]) => step[n][g] = step[n][h]
      BY <1>2
    <2>2. IsStep(step, Nat)
      BY <1>1, <2>1 DEF IsStep
    <2>3. PICK f : IsSolution(f, step, Nat)
      BY <2>2, RecursionExists
    <2>. QED
      BY <2>3 DEF IsSolution
  <1>5. f = [n \in Nat |-> IF n = 0 THEN 1 ELSE 2 * f[n - 1]]
    BY <1>3, <1>4
  <1>6. Power = [n \in Nat |-> IF n = 0 THEN 1 ELSE 2 * Power[n - 1]]
    BY <1>5 DEF Power
  <1>. QED
    BY <1>6

\* Powers are positive numbers, and each is twice the one before.
LEMMA PowerFacts ==
  /\ \A n \in Nat : Power[n] \in Nat \ {0}
  /\ Power[0] = 1
  /\ \A n \in Nat : Power[n + 1] = 2 * Power[n]
  <1>1. \A n \in Nat : Power[n] \in Nat \ {0}
    <2> DEFINE Bad == {n \in Nat : Power[n] \notin Nat \ {0}}
    <2> SUFFICES ASSUME Bad # {} PROVE FALSE
      OBVIOUS
    <2>1. PICK n \in Bad : \A m \in Bad : n <= m
      BY NatLeast
    <2>2. n # 0
      BY <2>1, PowerEquation
    <2>3. n - 1 \in Nat /\ n - 1 \notin Bad
      BY <2>1, <2>2
    <2>4. Power[n - 1] \in Nat \ {0}
      BY <2>3
    <2>. QED
      BY <2>1, <2>2, <2>4, PowerEquation
  <1>2. Power[0] = 1
    BY PowerEquation
  <1>3. ASSUME NEW n \in Nat PROVE Power[n + 1] = 2 * Power[n]
    <2>1. n + 1 \in Nat /\ n + 1 # 0 /\ (n + 1) - 1 = n
      OBVIOUS
    <2>. QED
      BY <2>1, PowerEquation
  <1>. QED
    BY <1>1, <1>2, <1>3

\* A larger order is a larger power: at least twice as large.
LEMMA PowerGrows ==
  ASSUME NEW i \in Nat, NEW j \in Nat, i < j
  PROVE  2 * Power[i] <= Power[j]
  <1> DEFINE Bad == {n \in Nat : i < n /\ ~ (2 * Power[i] <= Power[n])}
  <1> SUFFICES ASSUME Bad # {} PROVE FALSE
    OBVIOUS
  <1>1. PICK n \in Bad : \A m \in Bad : n <= m
    BY NatLeast
  <1>2. n \in Nat /\ i < n /\ ~ (2 * Power[i] <= Power[n])
    BY <1>1
  <1>3. n - 1 \in Nat /\ Power[n] = 2 * Power[n - 1]
    <2>1. n - 1 \in Nat /\ (n - 1) + 1 = n
      BY <1>2
    <2>. QED
      BY <2>1, PowerFacts
  <1>4. n - 1 \notin Bad
    BY <1>1, <1>2
  <1>5. n - 1 = i \/ 2 * Power[i] <= Power[n - 1]
    BY <1>2, <1>3, <1>4
  <1>6. Power[i] \in Nat /\ Power[n - 1] \in Nat
    BY <1>3, PowerFacts
  <1>. QED
    BY <1>2, <1>3, <1>5, <1>6

-----------------------------------------------------------------------------
(* slab_malloc: the order of a request *)

LEMMA HalfIsSmaller ==
  ASSUME NEW s \in Nat, s > 1
  PROVE  /\ s \div 2 \in Nat /\ s \div 2 \in 1 .. s - 1
         /\ 2 * (s \div 2) <= s /\ s <= 2 * (s \div 2) + 1
  OBVIOUS

\* The loop that shifts a size to the right ends, and HighestBit counts its
\* rounds.
LEMMA HighestBitEquation ==
  \A s \in Nat : HighestBit[s] = IF s <= 1 THEN 0 ELSE 1 + HighestBit[s \div 2]
  <1> DEFINE step == [n \in Nat |-> [g \in [Nat -> Nat] |->
                        IF n <= 1 THEN 0 ELSE 1 + g[n \div 2]]]
  <1>1. step \in [Nat -> [[Nat -> Nat] -> Nat]]
    <2>1. \A n \in Nat : n \div 2 \in Nat
      OBVIOUS
    <2>2. \A n \in Nat, g \in [Nat -> Nat] : 1 + g[n \div 2] \in Nat
      BY <2>1
    <2>. QED
      BY <2>2
  <1>2. \A n \in Nat, g \in [Nat -> Nat] :
          step[n][g] = IF n <= 1 THEN 0 ELSE 1 + g[n \div 2]
    OBVIOUS
  <1> HIDE DEF step
  <1>3. ASSUME NEW n \in Nat, NEW g \in [Nat -> Nat], NEW h \in [Nat -> Nat],
               \A i \in 0 .. n - 1 : g[i] = h[i]
        PROVE  step[n][g] = step[n][h]
    <2>1. CASE n <= 1
      <3>1. step[n][g] = 0 /\ step[n][h] = 0
        BY <2>1, <1>2
      <3>. QED
        BY <3>1
    <2>2. CASE n > 1
      <3>1. n \div 2 \in 0 .. n - 1
        BY <2>2, HalfIsSmaller
      <3>2. g[n \div 2] = h[n \div 2]
        BY <1>3, <3>1
      <3>. QED
        BY <2>2, <1>2, <3>2
    <2>. QED
      BY <2>1, <2>2
  <1>4. PICK f \in [Nat -> Nat] : \A n \in Nat : f[n] = step[n][f]
    <2>1. \A n \in Nat : \A g, h \in [Nat -> Nat] :
            (\A i \in 0 .. n - 1 : g[i] = h[i]) => step[n][g] = step[n][h]
      BY <1>3
    <2>2. IsStep(step, Nat)
      BY <1>1, <2>1 DEF IsStep
    <2>3. PICK f : IsSolution(f, step, Nat)
      BY <2>2, RecursionExists
    <2>. QED
      BY <2>3 DEF IsSolution
  <1>5. f = [n \in Nat |-> IF n <= 1 THEN 0 ELSE 1 + f[n \div 2]]
    BY <1>2, <1>4
  <1>6. HighestBit = [s \in Nat |-> IF s <= 1 THEN 0 ELSE 1 + HighestBit[s \div 2]]
    BY <1>5 DEF HighestBit
  <1>. QED
    BY <1>6

\* The loop finds the highest bit that is set.
LEMMA HighestBitFacts ==
  ASSUME NEW s \in Nat \ {0}
  PROVE  /\ HighestBit[s] \in Nat
         /\ Power[HighestBit[s]] <= s
         /\ s < 2 * Power[HighestBit[s]]
  <1> DEFINE Right(n) == /\ HighestBit[n] \in Nat
                         /\ Power[HighestBit[n]] <= n
                         /\ n < 2 * Power[HighestBit[n]]
             Bad == {n \in Nat \ {0} : ~ Right(n)}
  <1> SUFFICES ASSUME Bad # {} PROVE FALSE
    OBVIOUS
  <1>1. PICK n \in Bad : \A m \in Bad : n <= m
    BY NatLeast
  <1>2. n \in Nat \ {0} /\ ~ Right(n)
    BY <1>1
  <1>3. n > 1
    <2> SUFFICES ASSUME n = 1 PROVE FALSE
      BY <1>2
    <2>. QED
      BY <1>2, HighestBitEquation, PowerFacts
  <1> DEFINE half == n \div 2
  <1>4. half \in Nat /\ half \in 1 .. n - 1 /\ 2 * half <= n /\ n <= 2 * half + 1
    BY <1>2, <1>3, HalfIsSmaller
  <1>5. HighestBit[n] = 1 + HighestBit[half]
    BY <1>2, <1>3, HighestBitEquation
  <1> HIDE DEF half
  <1>6. half \notin Bad
    BY <1>1, <1>2, <1>4
  <1>7. Right(half)
    BY <1>4, <1>6
  <1>8. Power[HighestBit[n]] = 2 * Power[HighestBit[half]]
    <2>1. HighestBit[n] = HighestBit[half] + 1
      BY <1>5, <1>7
    <2>. QED
      BY <1>7, <2>1, PowerFacts
  <1>9. Power[HighestBit[half]] \in Nat
    BY <1>7, PowerFacts
  <1>10. Right(n)
    BY <1>2, <1>4, <1>5, <1>7, <1>8, <1>9
  <1>. QED
    BY <1>2, <1>10

LEMMA MultipleBelowTwice ==
  ASSUME NEW p \in Nat \ {0}, NEW s \in Nat, p <= s, s < 2 * p
  PROVE  (s % p = 0) <=> (s = p)
  <1>1. s \div p = 1
    OBVIOUS
  <1>. QED
    BY <1>1

\* slab_malloc asks for the least power of two that holds the request.
LEMMA MallocOrderFacts ==
  ASSUME NEW size \in Nat \ {0}
  PROVE  /\ MallocOrder(size) \in Nat
         /\ size <= Power[MallocOrder(size)]
         /\ Power[MallocOrder(size)] < 2 * size
  <1> DEFINE h == HighestBit[size]
             p == Power[h]
  <1>1. h \in Nat /\ p \in Nat \ {0} /\ p <= size /\ size < 2 * p
    BY HighestBitFacts, PowerFacts
  <1>2. Power[h + 1] = 2 * p
    BY <1>1, PowerFacts
  <1>3. MallocOrder(size) = h + IF size % p = 0 THEN 0 ELSE 1
    BY DEF MallocOrder
  <1> HIDE DEF h, p
  <1>4. CASE size = p
    <2>1. MallocOrder(size) = h
      BY <1>1, <1>3, <1>4, MultipleBelowTwice
    <2>2. Power[h] = p
      BY DEF p
    <2>. QED
      BY <1>1, <1>4, <2>1, <2>2
  <1>5. CASE size # p
    <2>1. MallocOrder(size) = h + 1
      BY <1>1, <1>3, <1>5, MultipleBelowTwice
    <2>. QED
      BY <1>1, <1>2, <1>5, <2>1
  <1>. QED
    BY <1>4, <1>5

LEMMA PowerSum ==
  ASSUME NEW k \in Nat, NEW i \in Nat
  PROVE  Power[k] * Power[i] = Power[k + i]
  <1> DEFINE Bad == {n \in Nat : Power[k] * Power[n] # Power[k + n]}
  <1> SUFFICES ASSUME Bad # {} PROVE FALSE
    OBVIOUS
  <1>1. PICK n \in Bad : \A m \in Bad : n <= m
    BY NatLeast
  <1>2. n \in Nat /\ Power[k] * Power[n] # Power[k + n]
    BY <1>1
  <1>3. Power[k] \in Nat
    BY PowerFacts
  <1>4. n # 0
    BY <1>2, <1>3, PowerFacts
  <1>5. n - 1 \in Nat /\ (n - 1) + 1 = n /\ k + (n - 1) \in Nat /\ (k + (n - 1)) + 1 = k + n
    BY <1>2, <1>4
  <1>6. Power[k] * Power[n - 1] = Power[k + (n - 1)]
    BY <1>1, <1>2, <1>5
  <1>7. Power[n] = 2 * Power[n - 1] /\ Power[k + n] = 2 * Power[k + (n - 1)]
    BY <1>5, PowerFacts
  <1>8. Power[n - 1] \in Nat
    BY <1>5, PowerFacts
  <1>9. Power[k] * (2 * Power[n - 1]) = 2 * (Power[k] * Power[n - 1])
    BY <1>3, <1>8
  <1>. QED
    BY <1>2, <1>6, <1>7, <1>9

\* A request is served exactly when it is larger than half the smallest cache
\* and not larger than the largest.  (slab_malloc panics for the small ones as
\* well: it has no cache of 16 bytes.)
THEOREM ServedRequests ==
  ASSUME NEW size \in Nat \ {0}, SizeCaches > 0
  PROVE  Served(size) <=> (2 * size > SmallestCache /\ size <= LargestCache)
  <1> USE SlabSizesAssumption
  <1>1. PICK k \in Nat : SmallestCache = Power[k]
    BY SizeCachesAssumption DEF SizesFitSlabs
  <1> DEFINE m == MallocOrder(size)
             last == k + (SizeCaches - 1)
  <1>2. m \in Nat /\ size <= Power[m] /\ Power[m] < 2 * size
    BY MallocOrderFacts
  <1>3. last \in Nat /\ LargestCache = Power[last]
    BY <1>1, PowerSum DEF LargestCache
  <1>4. Served(size) <=> \E i \in 0 .. SizeCaches - 1 : Power[m] = Power[k + i]
    <2>1. \A i \in 0 .. SizeCaches - 1 : SmallestCache * Power[i] = Power[k + i]
      BY <1>1, PowerSum
    <2>. QED
      BY <2>1 DEF Served, SizeCacheSizes
  <1>5. \A i \in Nat : Power[i] \in Nat
    BY PowerFacts
  <1> HIDE DEF m
  <1>6. ASSUME NEW i \in 0 .. SizeCaches - 1, Power[m] = Power[k + i]
        PROVE  m = k + i
    <2>1. k + i \in Nat
      OBVIOUS
    <2>2. Power[m] > 0
      BY <1>2, PowerFacts
    <2>3. ~ (m < k + i) /\ ~ (k + i < m)
      BY <1>2, <1>5, <1>6, <2>1, <2>2, PowerGrows
    <2>. QED
      BY <1>2, <2>1, <2>3
  <1>7. Served(size) <=> (k <= m /\ m <= last)
    <2>1. ASSUME k <= m, m <= last PROVE Served(size)
      <3>1. m - k \in 0 .. SizeCaches - 1 /\ k + (m - k) = m
        BY <1>2, <2>1
      <3>. QED
        BY <1>4, <3>1
    <2>2. ASSUME Served(size) PROVE k <= m /\ m <= last
      BY <1>2, <1>4, <1>6, <2>2
    <2>. QED
      BY <2>1, <2>2
  <1>8. (k <= m) <=> (2 * size > Power[k])
    <2>1. ASSUME m < k PROVE ~ (2 * size > Power[k])
      <3>1. 2 * Power[m] <= Power[k]
        BY <1>2, <2>1, PowerGrows
      <3>. QED
        BY <1>2, <1>5, <3>1
    <2>2. ASSUME k <= m PROVE Power[k] <= Power[m]
      <3>1. k = m \/ 2 * Power[k] <= Power[m]
        BY <1>2, <2>2, PowerGrows
      <3>. QED
        BY <1>2, <1>5, <3>1
    <2>3. k <= m \/ m < k
      BY <1>2
    <2>. QED
      BY <1>2, <1>5, <2>1, <2>2, <2>3
  <1>9. (m <= last) <=> (size <= Power[last])
    <2> HIDE DEF last
    <2>1. ASSUME last < m PROVE ~ (size <= Power[last])
      <3>1. 2 * Power[last] <= Power[m]
        BY <1>2, <1>3, <2>1, PowerGrows
      <3>. QED
        BY <1>2, <1>3, <1>5, <3>1
    <2>2. ASSUME m <= last PROVE Power[m] <= Power[last]
      <3>1. m = last \/ 2 * Power[m] <= Power[last]
        BY <1>2, <1>3, <2>2, PowerGrows
      <3>. QED
        BY <1>2, <1>3, <1>5, <3>1
    <2>3. m <= last \/ last < m
      BY <1>2, <1>3
    <2>. QED
      BY <1>2, <1>3, <1>5, <2>1, <2>2, <2>3
  <1>. QED
    BY <1>1, <1>3, <1>7, <1>8, <1>9

-----------------------------------------------------------------------------
(* slab_cacheEstimate and slab_computePageOrder *)

LEMMA QuotientFacts ==
  ASSUME NEW a \in Nat, NEW b \in Nat \ {0}
  PROVE  /\ a \div b \in Nat
         /\ (a \div b) * b <= a
         /\ a < (a \div b + 1) * b
  OBVIOUS

\* The objects of a slab fit behind its header, and no further one would.
LEMMA CacheEstimateFacts ==
  ASSUME NEW size \in Nat \ {0}, NEW order \in Orders
  PROVE  LET num == CacheEstimate(size, order)
         IN /\ num \in Nat
            /\ SlabHeader + num * (size + Bufctl) <= SlabBytes(order)
            /\ SlabBytes(order) < SlabHeader + (num + 1) * (size + Bufctl)
  <1> USE SlabSizesAssumption
  <1> DEFINE a == SlabBytes(order) - SlabHeader
             b == size + Bufctl
  <1>1. SlabBytes(order) \in Nat /\ SlabHeader <= SlabBytes(order)
    <2>1. order \in Nat
      BY DEF Orders
    <2>2. Power[order] \in Nat /\ Power[order] >= 1
      BY <2>1, PowerFacts
    <2>3. PAGE_SIZE * Power[order] >= PAGE_SIZE /\ PAGE_SIZE * Power[order] \in Nat
      BY <2>2
    <2>. QED
      BY <2>3 DEF SlabBytes
  <1>2. a \in Nat /\ b \in Nat \ {0}
    BY <1>1
  <1>3. CacheEstimate(size, order) = a \div b
    BY DEF CacheEstimate
  <1>4. SlabBytes(order) = a + SlabHeader
    BY <1>1
  <1> HIDE DEF a, b
  <1>5. /\ a \div b \in Nat
        /\ (a \div b) * b <= a
        /\ a < (a \div b + 1) * b
    BY <1>2, QuotientFacts
  <1> DEFINE n == a \div b
  <1>6. n * b \in Nat /\ (n + 1) * b \in Nat /\ n \in Nat
    BY <1>2, <1>5
  <1>7. n * b <= a /\ a < (n + 1) * b
    BY <1>5
  <1> HIDE DEF n
  <1>8. SlabHeader + n * b <= SlabBytes(order) /\ SlabBytes(order) < SlabHeader + (n + 1) * b
    BY <1>2, <1>4, <1>6, <1>7
  <1>. QED
    BY <1>3, <1>6, <1>8 DEF n, b

\* The loop of slab_computePageOrder ends, and where it ends there is room for
\* at least one object.
LEMMA ComputePageOrderFacts ==
  ASSUME NEW size \in SizeCacheSizes
  PROVE  /\ ComputePageOrder(size) \in Orders
         /\ CacheEstimate(size, ComputePageOrder(size)) >= 1
  <1> USE SlabSizesAssumption
  <1>1. size \in Nat \ {0}
    <2>1. PICK i \in 0 .. SizeCaches - 1 : size = SmallestCache * Power[i]
      BY DEF SizeCacheSizes
    <2>2. Power[i] \in Nat \ {0}
      BY PowerFacts
    <2>. QED
      BY <2>1, <2>2
  <1> DEFINE Stops == {order \in Orders : Acceptable(size, order)}
  <1>2. SLAB_MAX_GFP_ORDER \in Stops /\ Stops \in SUBSET Nat
    BY DEF Orders, Acceptable
  <1>3. PICK first \in Stops : \A order \in Stops : first <= order
    BY <1>2, NatLeast
  <1>4. first \in Orders /\ Acceptable(size, first)
        /\ \A lower \in 0 .. first - 1 : ~ Acceptable(size, lower)
    <2>1. \A lower \in 0 .. first - 1 : lower \in Orders /\ ~ (first <= lower)
      BY DEF Orders
    <2>. QED
      BY <1>3, <2>1
  <1> HIDE DEF Stops
  <1> DEFINE order == ComputePageOrder(size)
  <1>5. order \in Orders /\ Acceptable(size, order)
    BY <1>4 DEF ComputePageOrder
  <1> HIDE DEF order
  <1>6. CASE order >= SLAB_MAX_GFP_ORDER
    <2>1. order = SLAB_MAX_GFP_ORDER
      BY <1>5, <1>6 DEF Orders
    <2> DEFINE num == CacheEstimate(size, order)
    <2>2. /\ num \in Nat
          /\ SlabBytes(order) < SlabHeader + (num + 1) * (size + Bufctl)
      BY <1>1, <1>5, CacheEstimateFacts
    <2>3. SlabHeader + size + Bufctl <= SlabBytes(order)
      BY <2>1, SizeCachesAssumption DEF SizesFitSlabs
    <2> HIDE DEF num
    <2>4. SUFFICES ASSUME num = 0 PROVE FALSE
      BY <1>5, <2>2 DEF num, order
    <2>5. (num + 1) * (size + Bufctl) = size + Bufctl
      BY <1>1, <2>4
    <2>6. SlabBytes(order) \in Int
      <3>1. Power[order] \in Nat
        BY <1>5, PowerFacts DEF Orders
      <3>. QED
        BY <3>1 DEF SlabBytes
    <2>. QED
      BY <1>1, <2>2, <2>3, <2>5, <2>6
  <1>7. CASE order < SLAB_MAX_GFP_ORDER
    <2>1. CacheEstimate(size, order) # 0
      BY <1>5, <1>7 DEF Acceptable, Orders
    <2>. QED
      BY <1>1, <1>5, <2>1, CacheEstimateFacts DEF order
  <1>8. order \in Int
    BY <1>5 DEF Orders
  <1>. QED
    BY <1>5, <1>6, <1>7, <1>8 DEF order

-----------------------------------------------------------------------------
(* The inductive invariant.  Nothing is freed, so a slab hands its objects *)
(* out in order: those below inuse are out, and the chain begins at inuse. *)

PagesOf(s) == [start |-> s.page, length |-> Power[Order(slab[s].cache)]]

\* Where the chain of free objects of a slab of num objects begins.
ChainStart(inuse, num) == IF inuse = num THEN BUFCTL_END ELSE inuse

\* The header of a slab of cache c that has handed out n objects.
HeaderAfter(c, n) ==
  [cache |-> c, inuse |-> n, free |-> ChainStart(n, Num(c)), bufs |-> FreshSlab(c).bufs]

PoolFor(c) == IF c.flags = SLAB_DMA THEN SLAB_DMA ELSE SLAB_NORMAL

RangesOf(pool) == IF pool = SLAB_DMA THEN dma ELSE nonPaged

SlabIsInOrder(s) ==
  LET c == slab[s].cache
      n == slab[s].inuse
  IN /\ c \in Known /\ n \in 1 .. Num(c)
     /\ slab[s] = HeaderAfter(c, n)
     /\ \A i \in Nat : <<s, i>> \in objects <=> i < n
     /\ s.pool = PoolFor(c)
     /\ PagesOf(s) \in RangesOf(s.pool)

SlabsAreInOrder ==
  /\ DOMAIN slab \subseteq Slabs
  /\ \A s \in DOMAIN slab : SlabIsInOrder(s)
  /\ objects \subseteq (DOMAIN slab) \X Nat

\* No slab stays in slabs_free: it gets there when it is made for a request,
\* which takes its first object.
ListsAreInOrder ==
  /\ full \in [Known -> Seq(Slabs)] /\ partial \in [Known -> Seq(Slabs)]
  /\ free = [c \in Known |-> <<>>]
  /\ \A c \in Known :
       /\ IsInjective(full[c]) /\ IsInjective(partial[c])
       /\ ToSet(full[c]) = {s \in SlabsOf(c) : slab[s].inuse = Num(c)}
       /\ ToSet(partial[c]) = {s \in SlabsOf(c) : slab[s].inuse < Num(c)}

DescriptorsAreInOrder ==
  /\ \A c \in DOMAIN descriptor : descriptor[c] \in objects
  /\ \A c, d \in DOMAIN descriptor : c # d => descriptor[c] # descriptor[d]
  /\ DOMAIN descriptor =
       {CachesInOrder[call] : call \in (1 .. initialised) \cap DOMAIN CachesInOrder}

IInv ==
  /\ NonPagedPool!Exclusive /\ DmaPool!Exclusive
  /\ initialised \in 0 .. InitCalls
  /\ panicked \in BOOLEAN
  /\ SlabsAreInOrder
  /\ ListsAreInOrder
  /\ DescriptorsAreInOrder

-----------------------------------------------------------------------------
(* Lists of slabs: take the head, put at the head.                         *)

LEMMA PushFacts ==
  ASSUME NEW S, NEW q \in Seq(S), NEW x \in S, IsInjective(q), x \notin ToSet(q)
  PROVE  /\ <<x>> \o q \in Seq(S)
         /\ IsInjective(<<x>> \o q)
         /\ ToSet(<<x>> \o q) = {x} \cup ToSet(q)
  <1> DEFINE r == <<x>> \o q
  <1>1. /\ r \in Seq(S) /\ Len(r) = Len(q) + 1 /\ r[1] = x
        /\ \A i \in 1 .. Len(q) : r[i + 1] = q[i]
    OBVIOUS
  <1>2. Len(q) \in Nat /\ DOMAIN q = 1 .. Len(q) /\ DOMAIN r = 1 .. Len(q) + 1
    BY <1>1
  <1> HIDE DEF r
  <1>3. \A i \in 2 .. Len(q) + 1 : i - 1 \in 1 .. Len(q) /\ r[i] = q[i - 1]
    <2> TAKE i \in 2 .. Len(q) + 1
    <2>1. i - 1 \in 1 .. Len(q) /\ (i - 1) + 1 = i
      BY <1>2
    <2>. QED
      BY <1>1, <2>1
  <1>4. ToSet(r) = {x} \cup ToSet(q)
    <2>1. ASSUME NEW i \in 1 .. Len(q) + 1 PROVE r[i] \in {x} \cup ToSet(q)
      <3>1. i = 1 \/ i \in 2 .. Len(q) + 1
        BY <1>2
      <3>. QED
        BY <1>1, <1>2, <1>3, <3>1 DEF ToSet
    <2>2. ASSUME NEW i \in 1 .. Len(q) PROVE q[i] \in ToSet(r)
      <3>1. i + 1 \in 1 .. Len(q) + 1
        BY <1>2
      <3>. QED
        BY <1>1, <1>2, <3>1 DEF ToSet
    <2>3. x \in ToSet(r)
      <3>1. 1 \in DOMAIN r
        BY <1>2
      <3>. QED
        BY <1>1, <3>1 DEF ToSet
    <2>. QED
      BY <1>2, <2>1, <2>2, <2>3 DEF ToSet
  <1>5. IsInjective(r)
    <2> SUFFICES ASSUME NEW i \in 1 .. Len(q) + 1, NEW j \in 1 .. Len(q) + 1, r[i] = r[j]
                 PROVE  i = j
      BY <1>2 DEF IsInjective
    <2>1. (i = 1 \/ i \in 2 .. Len(q) + 1) /\ (j = 1 \/ j \in 2 .. Len(q) + 1)
      BY <1>2
    <2>2. \A k \in 1 .. Len(q) : q[k] # x
      BY <1>2 DEF ToSet
    <2>3. CASE i = 1 \/ j = 1
      BY <1>1, <1>3, <2>1, <2>2, <2>3
    <2>4. CASE i \in 2 .. Len(q) + 1 /\ j \in 2 .. Len(q) + 1
      <3>1. q[i - 1] = q[j - 1] /\ i - 1 \in DOMAIN q /\ j - 1 \in DOMAIN q
        BY <1>2, <1>3, <2>4
      <3>2. i - 1 = j - 1
        BY <3>1 DEF IsInjective
      <3>. QED
        BY <3>2
    <2>. QED
      BY <2>1, <2>3, <2>4
  <1>. QED
    BY <1>1, <1>4, <1>5 DEF r

LEMMA TailFacts ==
  ASSUME NEW S, NEW q \in Seq(S), q # <<>>, IsInjective(q)
  PROVE  /\ Head(q) \in S /\ Head(q) \in ToSet(q)
         /\ Tail(q) \in Seq(S) /\ IsInjective(Tail(q))
         /\ ToSet(Tail(q)) = ToSet(q) \ {Head(q)}
  <1> DEFINE r == Tail(q)
  <1>1. /\ Len(q) \in Nat /\ Len(q) >= 1 /\ DOMAIN q = 1 .. Len(q)
        /\ Head(q) = q[1] /\ q[1] \in S
    OBVIOUS
  <1>2. /\ r \in Seq(S) /\ DOMAIN r = 1 .. Len(q) - 1
        /\ \A i \in 1 .. Len(q) - 1 : r[i] = q[i + 1]
    BY <1>1
  <1> HIDE DEF r
  <1>3. \A i \in 1 .. Len(q) - 1 : i + 1 \in DOMAIN q
    BY <1>1
  <1>4. IsInjective(r)
    <2> SUFFICES ASSUME NEW i \in 1 .. Len(q) - 1, NEW j \in 1 .. Len(q) - 1, r[i] = r[j]
                 PROVE  i = j
      BY <1>2 DEF IsInjective
    <2>1. i + 1 \in DOMAIN q /\ j + 1 \in DOMAIN q /\ q[i + 1] = q[j + 1]
      BY <1>2, <1>3
    <2>2. i + 1 = j + 1
      BY <2>1 DEF IsInjective
    <2>. QED
      BY <2>2
  <1>5. ToSet(r) = ToSet(q) \ {q[1]}
    <2>1. ASSUME NEW i \in DOMAIN r PROVE r[i] \in ToSet(q) \ {q[1]}
      <3>1. i + 1 \in DOMAIN q /\ i + 1 # 1 /\ 1 \in DOMAIN q
        BY <1>1, <1>2
      <3>. QED
        BY <1>2, <3>1 DEF ToSet, IsInjective
    <2>2. ASSUME NEW i \in DOMAIN q, q[i] # q[1] PROVE q[i] \in ToSet(r)
      <3>1. i - 1 \in 1 .. Len(q) - 1 /\ (i - 1) + 1 = i
        BY <1>1, <2>2
      <3>2. r[i - 1] = q[i]
        BY <1>2, <3>1
      <3>. QED
        BY <1>2, <3>1, <3>2 DEF ToSet
    <2>. QED
      BY <2>1, <2>2 DEF ToSet
  <1>6. q[1] \in ToSet(q)
    BY <1>1 DEF ToSet
  <1>. QED
    BY <1>1, <1>2, <1>4, <1>5, <1>6 DEF r

-----------------------------------------------------------------------------
(* Caches: every cache has slabs that hold at least one object.            *)

LEMMA CacheFacts ==
  ASSUME NEW c \in Known
  PROVE  /\ c.size \in Nat \ {0}
         /\ Order(c) \in Orders /\ Order(c) \in Nat
         /\ Power[Order(c)] \in Nat \ {0}
         /\ Num(c) \in Nat \ {0}
         /\ SlabHeader + Num(c) * (c.size + Bufctl) <= SlabBytes(Order(c))
  <1> USE SlabAssumption
  <1>1. CASE c = CacheCache
    <2>1. c.size = CacheCacheSize /\ Order(c) = CacheCacheOrder /\ Num(c) = CacheCacheNum
      BY <1>1 DEF Order, Num, CacheCache
    <2>2. Order(c) \in Nat
      BY <2>1, SlabSizesAssumption DEF Orders
    <2>. QED
      BY <2>1, <2>2, PowerFacts
  <1>2. CASE c # CacheCache
    <2>1. c.size \in SizeCacheSizes
      BY <1>2 DEF Known, SizeCache
    <2>2. c.size \in Nat \ {0}
      <3>1. PICK i \in 0 .. SizeCaches - 1 : c.size = SmallestCache * Power[i]
        BY <2>1 DEF SizeCacheSizes
      <3>2. Power[i] \in Nat \ {0}
        BY PowerFacts
      <3>. QED
        BY <3>1, <3>2, SlabSizesAssumption
    <2>3. Order(c) = ComputePageOrder(c.size) /\ Num(c) = CacheEstimate(c.size, Order(c))
      BY <1>2 DEF Order, Num
    <2>4. Order(c) \in Orders /\ CacheEstimate(c.size, Order(c)) >= 1
      BY <2>1, <2>3, ComputePageOrderFacts
    <2>5. Order(c) \in Nat
      BY <2>4 DEF Orders
    <2>6. /\ Num(c) \in Nat
          /\ SlabHeader + Num(c) * (c.size + Bufctl) <= SlabBytes(Order(c))
      BY <2>2, <2>3, <2>4, CacheEstimateFacts
    <2>. QED
      BY <2>2, <2>3, <2>4, <2>5, <2>6, PowerFacts
  <1>. QED
    BY <1>1, <1>2

LEMMA CacheCacheIsKnown == CacheCache \in Known
  BY DEF Known

LEMMA SizeCachesAreKnown ==
  \A size \in SizeCacheSizes, flags \in Flags : SizeCache(size, flags) \in Known
  BY DEF Known

-----------------------------------------------------------------------------
(* slab_allocFromSlab                                                      *)

\* What slab_allocFromSlab does to a slab that has handed out n objects.
HandsOut(c, s, n, rest) ==
  /\ slab' = Put(slab, s, HeaderAfter(c, n + 1))
  /\ objects' = objects \cup {<<s, n>>}
  /\ IF n + 1 = Num(c)
       THEN /\ partial' = [partial EXCEPT ![c] = rest]
            /\ full' = [full EXCEPT ![c] = <<s>> \o @]
       ELSE /\ partial' = [partial EXCEPT ![c] = <<s>> \o rest]
            /\ full' = full

LEMMA HeaderIsUpdated ==
  ASSUME NEW c, NEW n, NEW start, NEW bufs, NEW next
  PROVE  Taken([cache |-> c, inuse |-> n, free |-> start, bufs |-> bufs], next)
           = [cache |-> c, inuse |-> n + 1, free |-> next, bufs |-> bufs]
  <1> DEFINE header == [cache |-> c, inuse |-> n, free |-> start, bufs |-> bufs]
  <1>1. header.inuse = n
    OBVIOUS
  <1>2. [header EXCEPT !.inuse = n + 1]
          = [cache |-> c, inuse |-> n + 1, free |-> start, bufs |-> bufs]
    OBVIOUS
  <1>3. [[cache |-> c, inuse |-> n + 1, free |-> start, bufs |-> bufs] EXCEPT !.free = next]
          = [cache |-> c, inuse |-> n + 1, free |-> next, bufs |-> bufs]
    OBVIOUS
  <1>. QED
    BY <1>1, <1>2, <1>3 DEF Taken

LEMMA AllocFromSlabEffect ==
  ASSUME NEW c \in Known, NEW s, NEW n \in 0 .. Num(c) - 1, NEW rest,
         AllocFromSlab(c, s, HeaderAfter(c, n), rest)
  PROVE  HandsOut(c, s, n, rest)
  <1> DEFINE header == HeaderAfter(c, n)
             next == header.bufs[header.free]
  <1>1. Num(c) \in Nat \ {0}
    BY CacheFacts
  <1>2. header.free = n /\ n # Num(c)
    BY <1>1 DEF HeaderAfter, ChainStart
  <1>3. next = ChainStart(n + 1, Num(c))
    <2>1. header.bufs[n] = IF n = Num(c) - 1 THEN BUFCTL_END ELSE n + 1
      BY DEF HeaderAfter, FreshSlab
    <2>. QED
      BY <1>1, <1>2, <2>1 DEF ChainStart
  <1>4. (next = BUFCTL_END) <=> (n + 1 = Num(c))
    BY <1>1, <1>3 DEF ChainStart, BUFCTL_END
  <1>5. Taken(header, next) = HeaderAfter(c, n + 1)
    BY <1>3, HeaderIsUpdated DEF HeaderAfter
  <1>7. slab' = Put(slab, s, HeaderAfter(c, n + 1))
    BY <1>5 DEF AllocFromSlab
  <1>8. objects' = objects \cup {<<s, n>>}
    BY <1>2 DEF AllocFromSlab
  <1>. QED
    BY <1>4, <1>7, <1>8 DEF AllocFromSlab, HandsOut

-----------------------------------------------------------------------------
(* slab_create_slab                                                        *)

LEMMA SlabsHavePages ==
  ASSUME NEW s \in Slabs
  PROVE  s.page \in Nat /\ s.pool \in {SLAB_NORMAL, SLAB_DMA}
  BY DEF Slabs, Places

LEMMA SameSlab ==
  ASSUME NEW s \in Slabs, NEW t \in Slabs, s.pool = t.pool, s.page = t.page
  PROVE  s = t
  BY DEF Slabs

\* The pages of a new slab: a range of the pool its cache asks for, apart from
\* every range in use.
LEMMA CreateSlabEffect ==
  ASSUME NEW c \in Known, NEW s \in Slabs, CreateSlab(c, s),
         NonPagedPool!Exclusive, DmaPool!Exclusive
  PROVE  LET pages == [start |-> s.page, length |-> Power[Order(c)]]
         IN /\ s.pool = PoolFor(c)
            /\ RangesOf(s.pool)' = RangesOf(s.pool) \cup {pages}
            /\ \A r \in RangesOf(s.pool) : \/ r.start + r.length <= s.page
                                           \/ s.page + Power[Order(c)] <= r.start
            /\ nonPaged \subseteq nonPaged' /\ dma \subseteq dma'
            /\ NonPagedPool!Exclusive' /\ DmaPool!Exclusive'
  <1> DEFINE length == Power[Order(c)]
             pages == [start |-> s.page, length |-> length]
  <1>1. s.page \in Nat /\ length \in Nat \ {0}
    BY SlabsHavePages, CacheFacts
  <1>2. pages.start = s.page /\ pages.length = length
    OBVIOUS
  <1> HIDE DEF length
  <1>3. CASE c.flags = SLAB_DMA
    <2>1. s.pool = SLAB_DMA /\ DmaPool!AllocAt(s.page, length) /\ nonPaged' = nonPaged
      BY <1>3 DEF CreateSlab, length
    <2>2. /\ dma' = dma \cup {pages} /\ DmaPool!InsidePool(pages)
          /\ \A r \in dma : DmaPool!Apart(r, pages)
      BY <2>1 DEF DmaPool!AllocAt, DmaPool!Range
    <2>3. \A r \in dma : DmaPool!Apart(pages, r)
      BY <2>2 DEF DmaPool!Apart
    <2> HIDE DEF pages
    <2>4. DmaPool!Exclusive'
      <3>1. DmaPool!MetadataRange \in dma'
        BY <2>2 DEF DmaPool!Exclusive
      <3>2. \A r \in dma' : DmaPool!InsidePool(r)
        BY <2>2 DEF DmaPool!Exclusive
      <3>3. \A r, q \in dma' : r # q => DmaPool!Apart(r, q)
        BY <2>2, <2>3 DEF DmaPool!Exclusive
      <3>. QED
        BY <3>1, <3>2, <3>3 DEF DmaPool!Exclusive, DmaPool!InsidePool, DmaPool!Apart,
             DmaPool!MetadataRange, DmaPool!Range
    <2>5. NonPagedPool!Exclusive'
      BY <2>1 DEF NonPagedPool!Exclusive, NonPagedPool!InsidePool, NonPagedPool!Apart,
           NonPagedPool!MetadataRange, NonPagedPool!Range
    <2>6. \A r \in dma : r.start + r.length <= s.page \/ s.page + length <= r.start
      BY <1>2, <2>2 DEF DmaPool!Apart
    <2>7. PoolFor(c) = SLAB_DMA /\ RangesOf(s.pool) = dma /\ RangesOf(s.pool)' = dma'
      BY <1>3, <2>1 DEF PoolFor, RangesOf
    <2>. QED
      BY <2>1, <2>2, <2>4, <2>5, <2>6, <2>7 DEF length, pages
  <1>4. CASE c.flags # SLAB_DMA
    <2>1. s.pool = SLAB_NORMAL /\ NonPagedPool!AllocAt(s.page, length) /\ dma' = dma
      BY <1>4 DEF CreateSlab, length
    <2>2. /\ nonPaged' = nonPaged \cup {pages} /\ NonPagedPool!InsidePool(pages)
          /\ \A r \in nonPaged : NonPagedPool!Apart(r, pages)
      BY <2>1 DEF NonPagedPool!AllocAt, NonPagedPool!Range
    <2>3. \A r \in nonPaged : NonPagedPool!Apart(pages, r)
      BY <2>2 DEF NonPagedPool!Apart
    <2> HIDE DEF pages
    <2>4. NonPagedPool!Exclusive'
      <3>1. NonPagedPool!MetadataRange \in nonPaged'
        BY <2>2 DEF NonPagedPool!Exclusive
      <3>2. \A r \in nonPaged' : NonPagedPool!InsidePool(r)
        BY <2>2 DEF NonPagedPool!Exclusive
      <3>3. \A r, q \in nonPaged' : r # q => NonPagedPool!Apart(r, q)
        BY <2>2, <2>3 DEF NonPagedPool!Exclusive
      <3>. QED
        BY <3>1, <3>2, <3>3 DEF NonPagedPool!Exclusive, NonPagedPool!InsidePool,
             NonPagedPool!Apart, NonPagedPool!MetadataRange, NonPagedPool!Range
    <2>5. DmaPool!Exclusive'
      BY <2>1 DEF DmaPool!Exclusive, DmaPool!InsidePool, DmaPool!Apart,
           DmaPool!MetadataRange, DmaPool!Range
    <2>6. \A r \in nonPaged : r.start + r.length <= s.page \/ s.page + length <= r.start
      BY <1>2, <2>2 DEF NonPagedPool!Apart
    <2>7. /\ PoolFor(c) = SLAB_NORMAL /\ SLAB_NORMAL # SLAB_DMA
          /\ RangesOf(s.pool) = nonPaged /\ RangesOf(s.pool)' = nonPaged'
      BY <1>4, <2>1 DEF PoolFor, RangesOf, SLAB_NORMAL, SLAB_DMA
    <2>. QED
      BY <2>1, <2>2, <2>4, <2>5, <2>6, <2>7 DEF length, pages
  <1>. QED
    BY <1>3, <1>4

\* A new slab is none of the slabs there are: it does not share its pages.
LEMMA NewSlabIsNew ==
  ASSUME IInv, NEW c \in Known, NEW s \in Slabs, CreateSlab(c, s)
  PROVE  s \notin DOMAIN slab
  <1> SUFFICES ASSUME s \in DOMAIN slab PROVE FALSE
    OBVIOUS
  <1> DEFINE r == PagesOf(s)
  <1>1. SlabIsInOrder(s)
    BY DEF IInv, SlabsAreInOrder
  <1>2. r \in RangesOf(s.pool) /\ slab[s].cache \in Known
    BY <1>1 DEF SlabIsInOrder
  <1>3. r.start = s.page /\ r.length = Power[Order(slab[s].cache)]
    BY DEF PagesOf
  <1>4. r.start \in Nat /\ r.length \in Nat \ {0}
    BY <1>2, <1>3, CacheFacts, SlabsHavePages
  <1>5. Power[Order(c)] \in Nat \ {0}
    BY CacheFacts
  <1> HIDE DEF r
  <1>6. r.start + r.length <= s.page \/ s.page + Power[Order(c)] <= r.start
    BY <1>2, CreateSlabEffect DEF IInv
  <1>. QED
    BY <1>3, <1>4, <1>5, <1>6

-----------------------------------------------------------------------------
(* slab_alloc                                                              *)

SlabAllocFrom(c, s, n, rest) ==
  /\ HandsOut(c, s, n, rest)
  /\ free' = free
  /\ \/ /\ partial[c] # <<>> /\ s = Head(partial[c]) /\ rest = Tail(partial[c])
        /\ s \in DOMAIN slab /\ n >= 1 /\ slab[s] = HeaderAfter(c, n)
        /\ UNCHANGED <<nonPaged, dma>>
     \/ /\ partial[c] = <<>> /\ rest = <<>>
        /\ s \notin DOMAIN slab /\ n = 0
        /\ CreateSlab(c, s)

\* The slab slab_alloc takes an object from is the first partial one, or a new
\* one; slabs_free is always empty.
LEMMA SlabAllocEffect ==
  ASSUME IInv, NEW c \in Known, SlabAlloc(c)
  PROVE  \E s \in Slabs, n \in 0 .. Num(c) - 1 : \E rest : SlabAllocFrom(c, s, n, rest)
  <1>1. Num(c) \in Nat \ {0}
    BY CacheFacts
  <1>2. CASE partial[c] # <<>>
    <2> DEFINE s == Head(partial[c])
               n == slab[s].inuse
    <2>1. /\ partial[c] \in Seq(Slabs) /\ IsInjective(partial[c])
          /\ ToSet(partial[c]) = {t \in SlabsOf(c) : slab[t].inuse < Num(c)}
      BY DEF IInv, ListsAreInOrder
    <2>2. s \in Slabs /\ s \in SlabsOf(c) /\ n < Num(c)
      BY <1>2, <2>1, TailFacts
    <2>3. s \in DOMAIN slab /\ slab[s].cache = c
      BY <2>2 DEF SlabsOf
    <2>4. SlabIsInOrder(s)
      BY <2>3 DEF IInv, SlabsAreInOrder
    <2>5. n \in 1 .. Num(c) /\ slab[s] = HeaderAfter(c, n)
      BY <2>3, <2>4 DEF SlabIsInOrder
    <2>6. n \in 0 .. Num(c) - 1 /\ n >= 1
      BY <1>1, <2>2, <2>5
    <2>7. /\ AllocFromSlab(c, s, slab[s], Tail(partial[c]))
          /\ UNCHANGED <<nonPaged, dma, free>>
      BY <1>2 DEF SlabAlloc
    <2> HIDE DEF s, n
    <2>8. AllocFromSlab(c, s, HeaderAfter(c, n), Tail(partial[c]))
      BY <2>5, <2>7
    <2>9. HandsOut(c, s, n, Tail(partial[c]))
      BY <2>6, <2>8, AllocFromSlabEffect
    <2>10. SlabAllocFrom(c, s, n, Tail(partial[c]))
      BY <1>2, <2>3, <2>5, <2>6, <2>7, <2>9 DEF SlabAllocFrom, s
    <2>. QED
      BY <2>2, <2>6, <2>10
  <1>3. CASE partial[c] = <<>>
    <2>1. free[c] = <<>>
      BY DEF IInv, ListsAreInOrder
    <2>2. PICK s \in Slabs : /\ CreateSlab(c, s)
                             /\ AllocFromSlab(c, s, FreshSlab(c), <<>>)
                             /\ free' = free
      BY <1>3, <2>1 DEF SlabAlloc
    <2>3. FreshSlab(c) = HeaderAfter(c, 0)
      BY <1>1 DEF FreshSlab, HeaderAfter, ChainStart
    <2>4. 0 \in 0 .. Num(c) - 1
      BY <1>1
    <2>5. HandsOut(c, s, 0, <<>>)
      BY <2>2, <2>3, <2>4, AllocFromSlabEffect
    <2>6. s \notin DOMAIN slab
      BY <2>2, NewSlabIsNew
    <2>7. SlabAllocFrom(c, s, 0, <<>>)
      BY <1>3, <2>2, <2>5, <2>6 DEF SlabAllocFrom
    <2>. QED
      BY <2>4, <2>7
  <1>. QED
    BY <1>2, <1>3

\* Where the slab an object comes from is, and what it holds afterwards.
TakenFrom(c, s, n) ==
  /\ DOMAIN slab' = DOMAIN slab \cup {s}
  /\ slab'[s] = HeaderAfter(c, n + 1)
  /\ \A t \in DOMAIN slab \ {s} : slab'[t] = slab[t]
  /\ objects' = objects \cup {<<s, n>>}
  /\ \A i \in Nat : <<s, i>> \in objects <=> i < n
  /\ s \in DOMAIN slab => slab[s].cache = c /\ slab[s].inuse = n
  /\ s.pool = PoolFor(c)
  /\ [start |-> s.page, length |-> Power[Order(c)]] \in RangesOf(s.pool)'
  /\ \A pool : RangesOf(pool) \subseteq RangesOf(pool)'
  /\ NonPagedPool!Exclusive' /\ DmaPool!Exclusive'

LEMMA SlabAllocFromFacts ==
  ASSUME IInv, NEW c \in Known, NEW s \in Slabs, NEW n \in 0 .. Num(c) - 1, NEW rest,
         SlabAllocFrom(c, s, n, rest)
  PROVE  TakenFrom(c, s, n)
  <1>1. HandsOut(c, s, n, rest)
    BY DEF SlabAllocFrom
  <1>2. /\ DOMAIN slab' = DOMAIN slab \cup {s}
        /\ slab'[s] = HeaderAfter(c, n + 1)
        /\ \A t \in DOMAIN slab \ {s} : slab'[t] = slab[t]
    BY <1>1 DEF HandsOut, Put
  <1>3. objects' = objects \cup {<<s, n>>}
    BY <1>1 DEF HandsOut
  <1>4. CASE s \in DOMAIN slab
    <2>1. n >= 1 /\ slab[s] = HeaderAfter(c, n) /\ UNCHANGED <<nonPaged, dma>>
      BY <1>4 DEF SlabAllocFrom
    <2>2. slab[s].cache = c /\ slab[s].inuse = n
      BY <2>1 DEF HeaderAfter
    <2>3. SlabIsInOrder(s)
      BY <1>4 DEF IInv, SlabsAreInOrder
    <2>4. /\ n \in 1 .. Num(c) /\ \A i \in Nat : <<s, i>> \in objects <=> i < n
          /\ s.pool = PoolFor(c) /\ PagesOf(s) \in RangesOf(s.pool)
      BY <2>2, <2>3 DEF SlabIsInOrder
    <2>5. \A pool : RangesOf(pool)' = RangesOf(pool)
      BY <2>1 DEF RangesOf
    <2>6. NonPagedPool!Exclusive' /\ DmaPool!Exclusive'
      BY <2>1 DEF IInv, NonPagedPool!Exclusive, NonPagedPool!InsidePool, NonPagedPool!Apart,
           NonPagedPool!MetadataRange, NonPagedPool!Range, DmaPool!Exclusive,
           DmaPool!InsidePool, DmaPool!Apart, DmaPool!MetadataRange, DmaPool!Range
    <2>7. PagesOf(s) = [start |-> s.page, length |-> Power[Order(c)]]
      BY <2>2 DEF PagesOf
    <2>. QED
      BY <1>2, <1>3, <1>4, <2>2, <2>4, <2>5, <2>6, <2>7 DEF TakenFrom
  <1>5. CASE s \notin DOMAIN slab
    <2>1. n = 0 /\ CreateSlab(c, s)
      BY <1>5 DEF SlabAllocFrom
    <2>2. /\ s.pool = PoolFor(c)
          /\ [start |-> s.page, length |-> Power[Order(c)]] \in RangesOf(s.pool)'
          /\ nonPaged \subseteq nonPaged' /\ dma \subseteq dma'
          /\ NonPagedPool!Exclusive' /\ DmaPool!Exclusive'
      BY <2>1, CreateSlabEffect DEF IInv
    <2>3. \A i \in Nat : <<s, i>> \notin objects
      BY <1>5 DEF IInv, SlabsAreInOrder
    <2>4. \A pool : RangesOf(pool) \subseteq RangesOf(pool)'
      BY <2>2 DEF RangesOf
    <2>. QED
      BY <1>2, <1>3, <1>5, <2>1, <2>2, <2>3, <2>4 DEF TakenFrom
  <1>. QED
    BY <1>4, <1>5

LEMMA SlabAllocFromKeepsSlabs ==
  ASSUME IInv, NEW c \in Known, NEW s \in Slabs, NEW n \in 0 .. Num(c) - 1, NEW rest,
         SlabAllocFrom(c, s, n, rest)
  PROVE  SlabsAreInOrder'
  <1>1. /\ DOMAIN slab' = DOMAIN slab \cup {s}
        /\ slab'[s] = HeaderAfter(c, n + 1)
        /\ \A t \in DOMAIN slab \ {s} : slab'[t] = slab[t]
        /\ objects' = objects \cup {<<s, n>>}
        /\ \A i \in Nat : <<s, i>> \in objects <=> i < n
        /\ s.pool = PoolFor(c)
        /\ [start |-> s.page, length |-> Power[Order(c)]] \in RangesOf(s.pool)'
        /\ \A pool : RangesOf(pool) \subseteq RangesOf(pool)'
    <2>1. TakenFrom(c, s, n)
      BY SlabAllocFromFacts
    <2>. QED
      BY <2>1 DEF TakenFrom
  <1>2. SlabsAreInOrder /\ Num(c) \in Nat \ {0} /\ n \in Nat
    BY CacheFacts DEF IInv
  <1>3. SlabIsInOrder(s)'
    <2>1. slab'[s].cache = c /\ slab'[s].inuse = n + 1
      BY <1>1 DEF HeaderAfter
    <2>2. n + 1 \in 1 .. Num(c)
      BY <1>2
    <2>3. \A i \in Nat : <<s, i>> \in objects' <=> i < n + 1
      BY <1>1, <1>2
    <2>4. PagesOf(s)' = [start |-> s.page, length |-> Power[Order(c)]]
      BY <2>1 DEF PagesOf
    <2>. QED
      BY <1>1, <2>1, <2>2, <2>3, <2>4 DEF SlabIsInOrder
  <1>4. ASSUME NEW t \in DOMAIN slab \ {s}
        PROVE  SlabIsInOrder(t)'
    <2>1. SlabIsInOrder(t) /\ slab'[t] = slab[t]
      BY <1>1, <1>2 DEF SlabsAreInOrder
    <2>2. \A i \in Nat : <<t, i>> \in objects' <=> <<t, i>> \in objects
      BY <1>1
    <2>3. PagesOf(t)' = PagesOf(t) /\ RangesOf(t.pool) \subseteq RangesOf(t.pool)'
      BY <1>1, <2>1 DEF PagesOf
    <2>. QED
      BY <2>1, <2>2, <2>3 DEF SlabIsInOrder
  <1>. QED
    BY <1>1, <1>2, <1>3, <1>4 DEF SlabsAreInOrder

LEMMA SlabAllocFromKeepsLists ==
  ASSUME IInv, NEW c \in Known, NEW s \in Slabs, NEW n \in 0 .. Num(c) - 1, NEW rest,
         SlabAllocFrom(c, s, n, rest)
  PROVE  ListsAreInOrder'
  <1>1. /\ DOMAIN slab' = DOMAIN slab \cup {s}
        /\ slab'[s] = HeaderAfter(c, n + 1)
        /\ \A t \in DOMAIN slab \ {s} : slab'[t] = slab[t]
        /\ s \in DOMAIN slab => slab[s].cache = c /\ slab[s].inuse = n
    <2>1. TakenFrom(c, s, n)
      BY SlabAllocFromFacts
    <2>. QED
      BY <2>1 DEF TakenFrom
  <1>2. Num(c) \in Nat \ {0} /\ n \in Nat
    BY CacheFacts
  <1>3. /\ full \in [Known -> Seq(Slabs)] /\ partial \in [Known -> Seq(Slabs)]
        /\ free = [d \in Known |-> <<>>]
        /\ \A d \in Known :
             /\ IsInjective(full[d]) /\ IsInjective(partial[d])
             /\ ToSet(full[d]) = {t \in SlabsOf(d) : slab[t].inuse = Num(d)}
             /\ ToSet(partial[d]) = {t \in SlabsOf(d) : slab[t].inuse < Num(d)}
    BY DEF IInv, ListsAreInOrder
  <1>4. HandsOut(c, s, n, rest) /\ free' = free
    BY DEF SlabAllocFrom
  <1>5. slab'[s].cache = c /\ slab'[s].inuse = n + 1
    BY <1>1 DEF HeaderAfter
  \* The other slabs of the partial list.
  <1>6. /\ rest \in Seq(Slabs) /\ IsInjective(rest)
        /\ ToSet(rest) = {t \in SlabsOf(c) : slab[t].inuse < Num(c)} \ {s}
    <2>1. CASE partial[c] # <<>>
      <3>1. s = Head(partial[c]) /\ rest = Tail(partial[c])
        BY <2>1 DEF SlabAllocFrom
      <3>. QED
        BY <1>3, <2>1, <3>1, TailFacts
    <2>2. CASE partial[c] = <<>>
      <3>1. rest = <<>> /\ s \notin DOMAIN slab
        BY <2>2 DEF SlabAllocFrom
      <3>2. ToSet(partial[c]) = {}
        BY <2>2 DEF ToSet
      <3>3. {t \in SlabsOf(c) : slab[t].inuse < Num(c)} = {}
        BY <1>3, <3>2
      <3>4. rest \in Seq(Slabs) /\ IsInjective(rest) /\ ToSet(rest) = {}
        BY <3>1 DEF IsInjective, ToSet
      <3>. QED
        BY <3>3, <3>4
    <2>. QED
      BY <2>1, <2>2
  <1>7. s \notin ToSet(rest) /\ s \notin ToSet(full[c])
    <2>1. s \in ToSet(full[c]) => s \in DOMAIN slab /\ slab[s].inuse = Num(c)
      BY <1>3 DEF SlabsOf
    <2>. QED
      BY <1>1, <1>2, <1>6, <2>1
  \* The slabs of each cache afterwards.
  <1>8. /\ SlabsOf(c)' = SlabsOf(c) \cup {s}
        /\ \A d \in Known \ {c} : SlabsOf(d)' = SlabsOf(d) /\ s \notin SlabsOf(d)
        /\ \A d \in Known : \A t \in SlabsOf(d) \ {s} : slab'[t] = slab[t]
    BY <1>1, <1>5 DEF SlabsOf
  <1>9. ASSUME NEW d \in Known, d # c
        PROVE  /\ full'[d] = full[d] /\ partial'[d] = partial[d]
               /\ {t \in SlabsOf(d)' : slab'[t].inuse = Num(d)}
                    = {t \in SlabsOf(d) : slab[t].inuse = Num(d)}
               /\ {t \in SlabsOf(d)' : slab'[t].inuse < Num(d)}
                    = {t \in SlabsOf(d) : slab[t].inuse < Num(d)}
    <2>1. full'[d] = full[d] /\ partial'[d] = partial[d]
      BY <1>3, <1>4, <1>9 DEF HandsOut
    <2>. QED
      BY <1>8, <1>9, <2>1
  <1>10. CASE n + 1 = Num(c)
    <2>1. /\ partial' = [partial EXCEPT ![c] = rest]
          /\ full' = [full EXCEPT ![c] = <<s>> \o full[c]]
      BY <1>4, <1>10 DEF HandsOut
    <2>2. /\ <<s>> \o full[c] \in Seq(Slabs) /\ IsInjective(<<s>> \o full[c])
          /\ ToSet(<<s>> \o full[c]) = {s} \cup ToSet(full[c])
      BY <1>3, <1>7, PushFacts
    <2>3. /\ full' \in [Known -> Seq(Slabs)] /\ partial' \in [Known -> Seq(Slabs)]
          /\ full'[c] = <<s>> \o full[c] /\ partial'[c] = rest
      BY <1>3, <1>6, <2>1, <2>2
    <2>4. {t \in SlabsOf(c)' : slab'[t].inuse = Num(c)}
            = {s} \cup {t \in SlabsOf(c) : slab[t].inuse = Num(c)}
      <3>1. s \notin {t \in SlabsOf(c) : slab[t].inuse = Num(c)}
        BY <1>3, <1>7
      <3>. QED
        BY <1>5, <1>8, <1>10, <3>1
    <2>5. {t \in SlabsOf(c)' : slab'[t].inuse < Num(c)}
            = {t \in SlabsOf(c) : slab[t].inuse < Num(c)} \ {s}
      BY <1>2, <1>5, <1>8, <1>10
    <2>6. ASSUME NEW d \in Known
          PROVE  /\ IsInjective(full'[d]) /\ IsInjective(partial'[d])
                 /\ ToSet(full'[d]) = {t \in SlabsOf(d)' : slab'[t].inuse = Num(d)}
                 /\ ToSet(partial'[d]) = {t \in SlabsOf(d)' : slab'[t].inuse < Num(d)}
      <3>1. CASE d = c
        BY <1>3, <1>6, <2>2, <2>3, <2>4, <2>5, <3>1
      <3>2. CASE d # c
        BY <1>3, <1>9, <3>2
      <3>. QED
        BY <3>1, <3>2
    <2>. QED
      BY <1>3, <1>4, <2>3, <2>6 DEF ListsAreInOrder
  <1>11. CASE n + 1 # Num(c)
    <2>1. /\ partial' = [partial EXCEPT ![c] = <<s>> \o rest]
          /\ full' = full
      BY <1>4, <1>11 DEF HandsOut
    <2>2. /\ <<s>> \o rest \in Seq(Slabs) /\ IsInjective(<<s>> \o rest)
          /\ ToSet(<<s>> \o rest) = {s} \cup ToSet(rest)
      BY <1>6, <1>7, PushFacts
    <2>3. /\ full' \in [Known -> Seq(Slabs)] /\ partial' \in [Known -> Seq(Slabs)]
          /\ full'[c] = full[c] /\ partial'[c] = <<s>> \o rest
      BY <1>3, <2>1, <2>2
    <2>4. {t \in SlabsOf(c)' : slab'[t].inuse = Num(c)}
            = {t \in SlabsOf(c) : slab[t].inuse = Num(c)}
      <3>1. s \notin {t \in SlabsOf(c) : slab[t].inuse = Num(c)}
        BY <1>3, <1>7
      <3>. QED
        BY <1>5, <1>8, <1>11, <3>1
    <2>5. {t \in SlabsOf(c)' : slab'[t].inuse < Num(c)}
            = {s} \cup ({t \in SlabsOf(c) : slab[t].inuse < Num(c)} \ {s})
      BY <1>2, <1>5, <1>8, <1>11
    <2>6. ASSUME NEW d \in Known
          PROVE  /\ IsInjective(full'[d]) /\ IsInjective(partial'[d])
                 /\ ToSet(full'[d]) = {t \in SlabsOf(d)' : slab'[t].inuse = Num(d)}
                 /\ ToSet(partial'[d]) = {t \in SlabsOf(d)' : slab'[t].inuse < Num(d)}
      <3>1. CASE d = c
        BY <1>3, <1>6, <2>2, <2>3, <2>4, <2>5, <3>1
      <3>2. CASE d # c
        BY <1>3, <1>9, <3>2
      <3>. QED
        BY <3>1, <3>2
    <2>. QED
      BY <1>3, <1>4, <2>3, <2>6 DEF ListsAreInOrder
  <1>. QED
    BY <1>10, <1>11

\* One more object is out, and everything is in order again.
LEMMA SlabAllocKeeps ==
  ASSUME IInv, NEW c \in Known, SlabAlloc(c)
  PROVE  /\ NonPagedPool!Exclusive' /\ DmaPool!Exclusive'
         /\ SlabsAreInOrder' /\ ListsAreInOrder'
         /\ \E object : object \notin objects /\ objects' = objects \cup {object}
  <1>0. PICK s \in Slabs, n \in 0 .. Num(c) - 1 : \E rest : SlabAllocFrom(c, s, n, rest)
    BY SlabAllocEffect
  <1>1. PICK rest : SlabAllocFrom(c, s, n, rest)
    BY <1>0
  <1>2. SlabsAreInOrder' /\ ListsAreInOrder'
    BY <1>1, SlabAllocFromKeepsSlabs, SlabAllocFromKeepsLists
  <1>3. TakenFrom(c, s, n)
    BY <1>1, SlabAllocFromFacts
  <1>4. NonPagedPool!Exclusive' /\ DmaPool!Exclusive'
    BY <1>3 DEF TakenFrom
  <1>5. n \in Nat /\ ~ (n < n)
    BY CacheFacts
  <1>6. <<s, n>> \notin objects /\ objects' = objects \cup {<<s, n>>}
    BY <1>3, <1>5 DEF TakenFrom
  <1>. QED
    BY <1>2, <1>4, <1>6

-----------------------------------------------------------------------------
(* slab_createCache, slab_malloc, slab_init                                *)

LEMMA CachesInOrderAreKnown ==
  ASSUME NEW call \in 1 .. 2 * SizeCaches
  PROVE  /\ CachesInOrder[call] \in Known
         /\ DOMAIN CachesInOrder = 1 .. 2 * SizeCaches
  <1> DEFINE i == (call - 1) \div 2
  <1>1. i \in 0 .. SizeCaches - 1
    BY SlabSizesAssumption
  <1>2. SmallestCache * Power[i] \in SizeCacheSizes
    BY <1>1 DEF SizeCacheSizes
  <1>3. CachesInOrder[call] = SizeCache(SmallestCache * Power[i],
                                       IF call % 2 = 1 THEN SLAB_NORMAL ELSE SLAB_DMA)
    BY DEF CachesInOrder
  <1>4. (IF call % 2 = 1 THEN SLAB_NORMAL ELSE SLAB_DMA) \in Flags
    BY DEF Flags
  <1> HIDE DEF i
  <1>. QED
    BY <1>2, <1>3, <1>4, SizeCachesAreKnown DEF CachesInOrder

LEMMA CallsCounted ==
  ASSUME initialised \in Nat
  PROVE  /\ SizeCaches \in Nat /\ DOMAIN CachesInOrder = 1 .. 2 * SizeCaches
         /\ initialised >= 2 * SizeCaches =>
              (1 .. initialised + 1) \cap DOMAIN CachesInOrder
                 = (1 .. initialised) \cap DOMAIN CachesInOrder
         /\ initialised < 2 * SizeCaches =>
              (1 .. initialised + 1) \cap DOMAIN CachesInOrder
                 = ((1 .. initialised) \cap DOMAIN CachesInOrder) \cup {initialised + 1}
  BY SlabSizesAssumption DEF CachesInOrder

\* slab_createCache, as slab_init calls it: the descriptor is an object of its
\* own.
LEMMA CreateCacheKeeps ==
  ASSUME IInv, initialised < 2 * SizeCaches, CreateCache(CachesInOrder[initialised + 1]),
         initialised' = initialised + 1
  PROVE  DescriptorsAreInOrder'
  <1> DEFINE c == CachesInOrder[initialised + 1]
  <1>1. PICK object : object \notin objects /\ objects' = objects \cup {object}
    BY SlabAllocKeeps, CacheCacheIsKnown DEF CreateCache
  <1>2. (CHOOSE o \in objects' : o \notin objects) = object
    BY <1>1
  <1>3. descriptor' = Put(descriptor, c, object)
    BY <1>2 DEF CreateCache
  <1> HIDE DEF c
  <1>4. /\ DOMAIN descriptor' = DOMAIN descriptor \cup {c}
        /\ descriptor'[c] = object
        /\ \A d \in DOMAIN descriptor \ {c} : descriptor'[d] = descriptor[d]
    BY <1>3 DEF Put
  <1>5. DescriptorsAreInOrder /\ initialised \in Nat
    BY DEF IInv, InitCalls
  <1>6. \A d \in DOMAIN descriptor : descriptor[d] \in objects /\ descriptor[d] # object
    BY <1>1, <1>5 DEF DescriptorsAreInOrder
  <1>7. \A d \in DOMAIN descriptor' : descriptor'[d] \in objects'
    BY <1>1, <1>4, <1>6
  <1>8. \A d, e \in DOMAIN descriptor' : d # e => descriptor'[d] # descriptor'[e]
    BY <1>4, <1>5, <1>6 DEF DescriptorsAreInOrder
  <1>9. DOMAIN descriptor' = {CachesInOrder[call] : call \in (1 .. initialised') \cap DOMAIN CachesInOrder}
    <2>1. (1 .. initialised') \cap DOMAIN CachesInOrder
            = ((1 .. initialised) \cap DOMAIN CachesInOrder) \cup {initialised + 1}
      BY <1>5, CallsCounted
    <2>2. DOMAIN descriptor = {CachesInOrder[call] : call \in (1 .. initialised) \cap DOMAIN CachesInOrder}
      BY <1>5 DEF DescriptorsAreInOrder
    <2>. QED
      BY <1>4, <2>1, <2>2 DEF c
  <1>. QED
    BY <1>7, <1>8, <1>9 DEF DescriptorsAreInOrder

\* slab_alloc of another cache, after the caches were made.
LEMMA AllocKeeps ==
  ASSUME IInv, NEW c \in Known, Alloc(c), initialised >= 2 * SizeCaches,
         initialised' \in {initialised, initialised + 1}
  PROVE  DescriptorsAreInOrder'
  <1>1. PICK object : object \notin objects /\ objects' = objects \cup {object}
    BY SlabAllocKeeps DEF Alloc
  <1>2. descriptor' = descriptor
    BY DEF Alloc
  <1>3. DescriptorsAreInOrder /\ initialised \in Nat
    BY DEF IInv, InitCalls
  <1>4. (1 .. initialised') \cap DOMAIN CachesInOrder = (1 .. initialised) \cap DOMAIN CachesInOrder
    BY <1>3, CallsCounted
  <1>. QED
    BY <1>1, <1>2, <1>3, <1>4 DEF DescriptorsAreInOrder

LEMMA CacheForIsKnown ==
  ASSUME NEW size, NEW flags \in Flags, Served(size)
  PROVE  CacheFor(size, flags) \in Known
  BY SizeCachesAreKnown DEF Served, CacheFor

LEMMA SlabInitKeeps ==
  ASSUME IInv, SlabInit
  PROVE  IInv'
  <1>1. /\ initialised \in 0 .. InitCalls /\ initialised # InitCalls
        /\ initialised' = initialised + 1 /\ panicked' = panicked
    BY DEF IInv, SlabInit, Ready
  <1>2. SizeCaches \in Nat /\ InitCalls = 2 * SizeCaches + 3
    BY SlabSizesAssumption DEF InitCalls
  <1>3. initialised' \in 0 .. InitCalls /\ panicked' \in BOOLEAN
    BY <1>1, <1>2 DEF IInv
  <1>4. SLAB_NORMAL \in Flags /\ SLAB_DMA \in Flags
    BY DEF Flags
  <1>5. CASE initialised + 1 <= 2 * SizeCaches /\ CreateCache(CachesInOrder[initialised + 1])
    <2>1. DescriptorsAreInOrder'
      BY <1>1, <1>2, <1>5, CreateCacheKeeps
    <2>2. /\ NonPagedPool!Exclusive' /\ DmaPool!Exclusive'
          /\ SlabsAreInOrder' /\ ListsAreInOrder'
      BY <1>5, SlabAllocKeeps, CacheCacheIsKnown DEF CreateCache
    <2>. QED
      BY <1>3, <2>1, <2>2 DEF IInv, InitCalls
  <1>6. ASSUME NEW c \in Known, Alloc(c), initialised >= 2 * SizeCaches
        PROVE  IInv'
    <2>1. DescriptorsAreInOrder'
      BY <1>1, <1>6, AllocKeeps
    <2>2. /\ NonPagedPool!Exclusive' /\ DmaPool!Exclusive'
          /\ SlabsAreInOrder' /\ ListsAreInOrder'
      BY <1>6, SlabAllocKeeps DEF Alloc
    <2>. QED
      BY <1>3, <2>1, <2>2 DEF IInv, InitCalls
  <1>7. CASE initialised + 1 = 2 * SizeCaches + 1 /\ Alloc(SizeCache(TestCache, SLAB_NORMAL))
    <2>1. SizeCache(TestCache, SLAB_NORMAL) \in Known
      BY <1>4, SlabAssumption, SizeCachesAreKnown
    <2>. QED
      BY <1>1, <1>2, <1>6, <1>7, <2>1
  <1>8. ASSUME NEW flags \in Flags, Malloc(TestRequest, flags), initialised >= 2 * SizeCaches
        PROVE  IInv'
    BY <1>6, <1>8, CacheForIsKnown DEF Malloc
  <1>9. CASE initialised + 1 = 2 * SizeCaches + 2 /\ Malloc(TestRequest, SLAB_NORMAL)
    BY <1>1, <1>2, <1>4, <1>8, <1>9
  <1>10. CASE initialised + 1 = 2 * SizeCaches + 3 /\ Malloc(TestRequest, SLAB_DMA)
    BY <1>1, <1>2, <1>4, <1>8, <1>10
  <1>. QED
    BY <1>5, <1>7, <1>9, <1>10 DEF SlabInit

LEMMA SlabMallocKeeps ==
  ASSUME IInv, NEW size, NEW flags \in Flags, SlabMalloc(size, flags)
  PROVE  IInv'
  <1> DEFINE c == CacheFor(size, flags)
  <1>1. c \in Known /\ Alloc(c)
    BY CacheForIsKnown DEF SlabMalloc, Malloc
  <1> HIDE DEF c
  <1>2. initialised' = initialised /\ panicked' = panicked /\ initialised >= 2 * SizeCaches
    <2>1. SizeCaches \in Nat
      BY SlabSizesAssumption
    <2>. QED
      BY <2>1 DEF SlabMalloc, Ready, InitCalls
  <1>3. DescriptorsAreInOrder'
    BY <1>1, <1>2, AllocKeeps
  <1>4. /\ NonPagedPool!Exclusive' /\ DmaPool!Exclusive'
        /\ SlabsAreInOrder' /\ ListsAreInOrder'
    BY <1>1, SlabAllocKeeps DEF Alloc
  <1>. QED
    BY <1>2, <1>3, <1>4 DEF IInv, InitCalls

\* What no step changes stays in order.
LEMMA StutterKeeps ==
  ASSUME IInv, UNCHANGED <<nonPaged, dma, initialised, descriptor, lists, slab, objects>>,
         panicked' \in BOOLEAN
  PROVE  IInv'
  <1>1. NonPagedPool!Exclusive' /\ DmaPool!Exclusive'
    BY DEF IInv, NonPagedPool!Exclusive, NonPagedPool!InsidePool, NonPagedPool!Apart,
         NonPagedPool!MetadataRange, NonPagedPool!Range, DmaPool!Exclusive,
         DmaPool!InsidePool, DmaPool!Apart, DmaPool!MetadataRange, DmaPool!Range
  <1>2. SlabsAreInOrder'
    BY DEF IInv, SlabsAreInOrder, SlabIsInOrder, PagesOf, RangesOf
  <1>3. ListsAreInOrder'
    BY DEF IInv, lists, ListsAreInOrder, SlabsOf
  <1>4. DescriptorsAreInOrder'
    BY DEF IInv, DescriptorsAreInOrder
  <1>. QED
    BY <1>1, <1>2, <1>3, <1>4 DEF IInv, InitCalls

LEMMA InitInOrder == Init => IInv
  <1> SUFFICES ASSUME Init PROVE IInv
    OBVIOUS
  <1>1. NonPagedPool!Exclusive /\ DmaPool!Exclusive
    BY SlabAssumption DEF Init, NonPagedPool!Init, DmaPool!Init,
         NonPagedPool!Exclusive, NonPagedPool!InsidePool, NonPagedPool!Apart,
         NonPagedPool!MetadataRange, NonPagedPool!Range, DmaPool!Exclusive,
         DmaPool!InsidePool, DmaPool!Apart, DmaPool!MetadataRange, DmaPool!Range
  <1>2. SlabsAreInOrder
    BY DEF Init, SlabsAreInOrder
  <1>3. ListsAreInOrder
    <2>1. \A c \in Known : SlabsOf(c) = {}
      BY DEF Init, SlabsOf
    <2>2. IsInjective(<<>>) /\ ToSet(<<>>) = {} /\ <<>> \in Seq(Slabs)
      BY DEF IsInjective, ToSet
    <2>3. /\ full = [c \in Known |-> <<>>] /\ partial = [c \in Known |-> <<>>]
          /\ free = [c \in Known |-> <<>>]
      BY DEF Init
    <2>. QED
      BY <2>1, <2>2, <2>3 DEF ListsAreInOrder
  <1>4. DescriptorsAreInOrder
    <2>1. DOMAIN descriptor = {} /\ initialised = 0
      BY DEF Init
    <2>2. 1 .. 0 = {}
      OBVIOUS
    <2>. QED
      BY <2>1, <2>2 DEF DescriptorsAreInOrder
  <1>5. initialised \in 0 .. InitCalls /\ panicked \in BOOLEAN
    <2>1. InitCalls \in Nat
      BY SlabSizesAssumption DEF InitCalls
    <2>2. initialised = 0 /\ panicked = FALSE
      BY DEF Init
    <2>3. initialised \in 0 .. InitCalls
      BY <2>1, <2>2
    <2>4. panicked \in BOOLEAN
      BY <2>2
    <2>. QED
      BY <2>3, <2>4
  <1>. QED
    BY <1>1, <1>2, <1>3, <1>4, <1>5 DEF IInv

\* Whatever the sizes and however many requests there are, every slab is in
\* order and in the list its use calls for, and every descriptor is an object.
THEOREM SlabInvariant == Spec => []IInv
  <1>1. IInv /\ [Next]_vars => IInv'
    <2> SUFFICES ASSUME IInv, [Next]_vars PROVE IInv'
      OBVIOUS
    <2>1. CASE SlabInit
      BY <2>1, SlabInitKeeps
    <2>2. ASSUME NEW size \in Requests, NEW flags \in Flags, SlabMalloc(size, flags)
          PROVE  IInv'
      BY <2>2, SlabMallocKeeps
    <2>3. ASSUME NEW size \in Requests, NEW flags \in Flags, MallocPanics(size, flags)
          PROVE  IInv'
      BY <2>3, StutterKeeps DEF MallocPanics
    <2>4. CASE UNCHANGED vars
      BY <2>4, StutterKeeps DEF vars, IInv
    <2>. QED
      BY <2>1, <2>2, <2>3, <2>4 DEF Next
  <1>. QED
    BY InitInOrder, <1>1, PTL DEF Spec

-----------------------------------------------------------------------------
(* What the invariant says about the properties of Slab.                   *)

LEMMA SlabFacts ==
  ASSUME IInv, NEW s \in DOMAIN slab
  PROVE  /\ s \in Slabs /\ slab[s].cache \in Known
         /\ slab[s].inuse \in 1 .. Num(slab[s].cache)
         /\ slab[s].free = ChainStart(slab[s].inuse, Num(slab[s].cache))
         /\ slab[s].bufs = FreshSlab(slab[s].cache).bufs
         /\ \A i \in Nat : <<s, i>> \in objects <=> i < slab[s].inuse
         /\ s.pool = PoolFor(slab[s].cache)
         /\ PagesOf(s) \in RangesOf(s.pool)
  <1>1. SlabIsInOrder(s) /\ s \in Slabs
    BY DEF IInv, SlabsAreInOrder
  <1>2. slab[s] = HeaderAfter(slab[s].cache, slab[s].inuse)
    BY <1>1 DEF SlabIsInOrder
  <1>3. /\ slab[s].free = ChainStart(slab[s].inuse, Num(slab[s].cache))
        /\ slab[s].bufs = FreshSlab(slab[s].cache).bufs
    <2> DEFINE c == slab[s].cache
               n == slab[s].inuse
    <2> HIDE DEF c, n
    <2>1. /\ HeaderAfter(c, n).free = ChainStart(n, Num(c))
          /\ HeaderAfter(c, n).bufs = FreshSlab(c).bufs
      BY DEF HeaderAfter
    <2>. QED
      BY <1>2, <2>1 DEF c, n
  <1>. QED
    BY <1>1, <1>3 DEF SlabIsInOrder

\* The types, and no range of a pool that overlaps another: the slabs are put
\* where the pools have room.
THEOREM SlabTypes == Spec => []TypeOK
  <1>1. IInv => TypeOK
    <2> SUFFICES ASSUME IInv PROVE TypeOK
      OBVIOUS
    <2>1. ASSUME NEW s \in DOMAIN slab PROVE s \in Slabs /\ IsSlab(slab[s])
      <3>1. /\ s \in Slabs /\ slab[s].cache \in Known
            /\ slab[s].inuse \in 1 .. Num(slab[s].cache)
            /\ slab[s].bufs = FreshSlab(slab[s].cache).bufs
        BY SlabFacts
      <3> DEFINE num == Num(slab[s].cache)
      <3>2. num \in Nat \ {0}
        BY <3>1, CacheFacts
      <3>3. slab[s].bufs = [i \in 0 .. num - 1 |-> IF i = num - 1 THEN BUFCTL_END ELSE i + 1]
        BY <3>1 DEF FreshSlab
      <3> HIDE DEF num
      <3>4. slab[s].bufs \in [0 .. num - 1 -> BUFCTL_END .. num]
        BY <3>2, <3>3 DEF BUFCTL_END
      <3>. QED
        BY <3>1, <3>2, <3>4 DEF IsSlab, num
    <2>2. /\ full \in [Known -> Seq(Slabs)] /\ partial \in [Known -> Seq(Slabs)]
          /\ free \in [Known -> Seq(Slabs)]
      BY DEF IInv, ListsAreInOrder
    <2>3. DOMAIN descriptor \subseteq Known
      BY CachesInOrderAreKnown, CallsCounted DEF IInv, DescriptorsAreInOrder, InitCalls
    <2>4. objects \subseteq Slabs \X Nat
      BY <2>1 DEF IInv, SlabsAreInOrder
    <2>. QED
      BY <2>1, <2>2, <2>3, <2>4 DEF IInv, TypeOK
  <1>. QED
    BY SlabInvariant, <1>1, PTL

LEMMA ConcatFacts ==
  ASSUME NEW S, NEW p \in Seq(S), NEW q \in Seq(S), IsInjective(p), IsInjective(q),
         ToSet(p) \cap ToSet(q) = {}
  PROVE  /\ p \o q \in Seq(S)
         /\ IsInjective(p \o q)
         /\ ToSet(p \o q) = ToSet(p) \cup ToSet(q)
  <1> DEFINE r == p \o q
             m == Len(p)
             k == Len(q)
  <1>1. /\ r \in Seq(S) /\ m \in Nat /\ k \in Nat
        /\ DOMAIN p = 1 .. m /\ DOMAIN q = 1 .. k /\ DOMAIN r = 1 .. m + k
        /\ \A i \in 1 .. m : r[i] = p[i]
        /\ \A i \in m + 1 .. m + k : r[i] = q[i - m]
    OBVIOUS
  <1> HIDE DEF r, m, k
  <1>2. \A i \in 1 .. m + k : i \in 1 .. m \/ (i \in m + 1 .. m + k /\ i - m \in 1 .. k)
    BY <1>1
  <1>3. \A i \in 1 .. k : i + m \in m + 1 .. m + k /\ i + m \in 1 .. m + k /\ (i + m) - m = i
    BY <1>1
  <1>4. \A i \in 1 .. m, j \in 1 .. k : p[i] # q[j]
    BY <1>1 DEF ToSet
  <1>5. ToSet(r) = ToSet(p) \cup ToSet(q)
    <2>1. ASSUME NEW i \in 1 .. m + k PROVE r[i] \in ToSet(p) \cup ToSet(q)
      BY <1>1, <1>2 DEF ToSet
    <2>2. ASSUME NEW i \in 1 .. m PROVE p[i] \in ToSet(r)
      <3>1. i \in 1 .. m + k
        BY <1>1
      <3>. QED
        BY <1>1, <3>1 DEF ToSet
    <2>3. ASSUME NEW i \in 1 .. k PROVE q[i] \in ToSet(r)
      <3>1. r[i + m] = q[i]
        BY <1>1, <1>3
      <3>. QED
        BY <1>1, <1>3, <3>1 DEF ToSet
    <2>4. ToSet(r) \subseteq ToSet(p) \cup ToSet(q)
      BY <1>1, <2>1 DEF ToSet
    <2>5. ToSet(p) \subseteq ToSet(r) /\ ToSet(q) \subseteq ToSet(r)
      BY <1>1, <2>2, <2>3 DEF ToSet
    <2>. QED
      BY <2>4, <2>5
  <1>6. IsInjective(r)
    <2> SUFFICES ASSUME NEW i \in 1 .. m + k, NEW j \in 1 .. m + k, r[i] = r[j] PROVE i = j
      BY <1>1 DEF IsInjective
    <2>1. CASE i \in 1 .. m /\ j \in 1 .. m
      BY <1>1, <2>1 DEF IsInjective
    <2>2. CASE i \in m + 1 .. m + k /\ i - m \in 1 .. k /\ j \in m + 1 .. m + k /\ j - m \in 1 .. k
      <3>1. q[i - m] = q[j - m]
        BY <1>1, <2>2
      <3>2. i - m = j - m
        BY <1>1, <2>2, <3>1 DEF IsInjective
      <3>. QED
        BY <1>1, <3>2
    <2>. QED
      BY <1>1, <1>2, <1>4, <2>1, <2>2
  <1>. QED
    BY <1>1, <1>5, <1>6 DEF r

\* Each slab of a cache is in one list, once, and it is the list its use calls
\* for.
THEOREM SlabsInTheirLists == Spec => []ListsMatchUse
  <1>1. IInv => ListsMatchUse
    <2> SUFFICES ASSUME IInv, NEW c \in Known
                 PROVE  LET all == full[c] \o partial[c] \o free[c]
                        IN /\ IsInjective(all)
                           /\ ToSet(all) = SlabsOf(c)
                           /\ \A s \in ToSet(full[c]) : slab[s].inuse = Num(c)
                           /\ \A s \in ToSet(partial[c]) : slab[s].inuse \in 1 .. Num(c) - 1
                           /\ \A s \in ToSet(free[c]) : slab[s].inuse = 0
      BY DEF ListsMatchUse
    <2>1. /\ full[c] \in Seq(Slabs) /\ partial[c] \in Seq(Slabs) /\ free[c] = <<>>
          /\ IsInjective(full[c]) /\ IsInjective(partial[c])
          /\ ToSet(full[c]) = {s \in SlabsOf(c) : slab[s].inuse = Num(c)}
          /\ ToSet(partial[c]) = {s \in SlabsOf(c) : slab[s].inuse < Num(c)}
      BY DEF IInv, ListsAreInOrder
    <2>2. \A s \in SlabsOf(c) : slab[s].inuse \in 1 .. Num(c) /\ Num(c) \in Nat
      BY SlabFacts, CacheFacts DEF SlabsOf
    <2>3. ToSet(full[c]) \cap ToSet(partial[c]) = {}
      BY <2>1, <2>2
    <2>4. /\ full[c] \o partial[c] \in Seq(Slabs) /\ IsInjective(full[c] \o partial[c])
          /\ ToSet(full[c] \o partial[c]) = ToSet(full[c]) \cup ToSet(partial[c])
      BY <2>1, <2>3, ConcatFacts
    <2>5. full[c] \o partial[c] \o free[c] = full[c] \o partial[c]
      BY <2>1, <2>4
    <2>6. ToSet(full[c]) \cup ToSet(partial[c]) = SlabsOf(c)
      BY <2>1, <2>2
    <2>7. ToSet(free[c]) = {}
      BY <2>1 DEF ToSet
    <2>8. \A s \in ToSet(partial[c]) : slab[s].inuse \in 1 .. Num(c) - 1
      BY <2>1, <2>2
    <2>. QED
      BY <2>1, <2>4, <2>5, <2>6, <2>7, <2>8
  <1>. QED
    BY SlabInvariant, <1>1, PTL

\* Following the chain from n leads to n .. num - 1 and nowhere else.
LEMMA ChainFacts ==
  ASSUME NEW s, NEW n \in Nat, NEW num \in Nat, n <= num,
         Num(slab[s].cache) = num,
         slab[s].free = ChainStart(n, num),
         slab[s].bufs = [i \in 0 .. num - 1 |-> IF i = num - 1 THEN BUFCTL_END ELSE i + 1]
  PROVE  Chain(s) = n .. num - 1
  <1> USE DEF BUFCTL_END
  <1> DEFINE bufs == slab[s].bufs
  <1>1. /\ DOMAIN bufs = 0 .. num - 1
        /\ \A i \in 0 .. num - 1 : bufs[i] = IF i = num - 1 THEN -1 ELSE i + 1
    OBVIOUS
  <1> HIDE DEF bufs
  <1>2. ASSUME NEW i \in Chain(s) PROVE i \in n .. num - 1
    <2> DEFINE indices == (n .. num - 1) \cup {-1}
    <2>1. indices \in SUBSET (-1 .. num)
      OBVIOUS
    <2>2. slab[s].free \in indices
      BY DEF ChainStart
    <2>3. ASSUME NEW j \in indices \cap DOMAIN bufs PROVE bufs[j] \in indices
      BY <1>1
    <2>4. LeadsNowhereElse(s, indices)
      BY <2>2, <2>3 DEF LeadsNowhereElse, bufs
    <2>5. i \in 0 .. num /\ i \in indices
      BY <2>1, <2>4 DEF Chain
    <2>. QED
      BY <2>5
  <1>3. ASSUME NEW i \in n .. num - 1 PROVE i \in Chain(s)
    <2> SUFFICES ASSUME NEW indices \in SUBSET (-1 .. num), LeadsNowhereElse(s, indices)
                 PROVE  i \in indices
      BY DEF Chain
    <2> DEFINE Missed == {j \in n .. num - 1 : j \notin indices}
    <2> SUFFICES ASSUME Missed # {} PROVE FALSE
      OBVIOUS
    <2>1. PICK j \in Missed : \A k \in Missed : j <= k
      <3>1. Missed \in SUBSET Nat
        OBVIOUS
      <3>. QED
        BY <3>1, NatLeast
    <2>2. j \in n .. num - 1 /\ j \notin indices
      OBVIOUS
    <2>3. j # n
      <3>1. n # num
        BY <2>2
      <3>. QED
        BY <2>2, <3>1 DEF LeadsNowhereElse, ChainStart
    <2>4. j - 1 \in n .. num - 1 /\ j - 1 \in DOMAIN bufs
      BY <1>1, <2>2, <2>3
    <2>5. j - 1 \in indices
      BY <2>1, <2>4
    <2>6. bufs[j - 1] = j
      BY <1>1, <2>2, <2>4
    <2>. QED
      BY <2>2, <2>4, <2>5, <2>6 DEF LeadsNowhereElse, bufs
  <1>. QED
    BY <1>2, <1>3

\* The chain of a slab reaches exactly the objects that are not out, and inuse
\* counts the others: no object is handed out twice and none is lost.
THEOREM NoObjectTwiceNoneLost == Spec => []ChainIsTheRest
  <1>1. IInv => ChainIsTheRest
    <2> SUFFICES ASSUME IInv, NEW s \in DOMAIN slab
                 PROVE  LET num == Num(slab[s].cache)
                            out == {i \in 0 .. num - 1 : <<s, i>> \in objects}
                        IN /\ Chain(s) = (0 .. num - 1) \ out
                           /\ slab[s].inuse = Cardinality(out)
      BY DEF ChainIsTheRest
    <2> DEFINE num == Num(slab[s].cache)
               n == slab[s].inuse
               out == {i \in 0 .. num - 1 : <<s, i>> \in objects}
    <2>1. /\ slab[s].cache \in Known /\ n \in 1 .. num
          /\ slab[s].free = ChainStart(n, num)
          /\ slab[s].bufs = FreshSlab(slab[s].cache).bufs
          /\ \A i \in Nat : <<s, i>> \in objects <=> i < n
      BY SlabFacts
    <2>2. num \in Nat \ {0}
      BY <2>1, CacheFacts
    <2>3. slab[s].bufs = [i \in 0 .. num - 1 |-> IF i = num - 1 THEN BUFCTL_END ELSE i + 1]
      BY <2>1 DEF FreshSlab
    <2>4. Chain(s) = n .. num - 1
      <3>1. n \in Nat /\ num \in Nat /\ n <= num
        BY <2>1, <2>2
      <3>. QED
        BY <2>1, <2>3, <3>1, ChainFacts
    <2> HIDE DEF num, n
    <2>5. out = 0 .. n - 1
      BY <2>1, <2>2
    <2>6. Cardinality(0 .. n - 1) = n
      <3>1. n \in Nat /\ n - 1 \in Int
        BY <2>1, <2>2
      <3>. QED
        BY <3>1, FS_Interval
    <2> HIDE DEF out
    <2>7. n .. num - 1 = (0 .. num - 1) \ out
      BY <2>1, <2>2, <2>5
    <2>8. Chain(s) = (0 .. num - 1) \ out /\ n = Cardinality(out)
      BY <2>4, <2>5, <2>6, <2>7
    <2>. QED
      BY <2>8 DEF num, n, out
  <1>. QED
    BY SlabInvariant, <1>1, PTL

-----------------------------------------------------------------------------
(* Where objects are.                                                      *)

LEMMA ProductsGrow ==
  ASSUME NEW i \in Nat, NEW j \in Nat, NEW size \in Nat, i < j
  PROVE  i * size \in Nat /\ j * size \in Nat /\ i * size + size <= j * size
  <1>1. i * size + size = (i + 1) * size
    OBVIOUS
  <1>2. (i + 1) * size <= j * size
    OBVIOUS
  <1>. QED
    BY <1>1, <1>2

\* An object lies behind the header and the bufctls of its slab and ends
\* before the slab does.
LEMMA ObjectInSlab ==
  ASSUME IInv, NEW o \in objects
  PROVE  /\ o[1] \in DOMAIN slab /\ o[2] \in Nat /\ o = <<o[1], o[2]>>
         /\ Bytes(o).start \in Nat /\ Bytes(o).end \in Nat
         /\ Bytes(o).start <= Bytes(o).end
         /\ o[1].page * PAGE_SIZE <= Bytes(o).start
         /\ Bytes(o).end <= SlabEnd(o[1])
  <1> DEFINE s == o[1]
             i == o[2]
             c == slab[s].cache
             num == Num(c)
             base == s.page * PAGE_SIZE
  <1>1. s \in DOMAIN slab /\ i \in Nat /\ o = <<s, i>>
    BY DEF IInv, SlabsAreInOrder
  <1>2. s \in Slabs /\ c \in Known /\ i < slab[s].inuse /\ slab[s].inuse \in 1 .. num
    BY <1>1, SlabFacts
  <1>3. /\ c.size \in Nat \ {0} /\ num \in Nat \ {0}
        /\ SlabHeader + num * (c.size + Bufctl) <= SlabBytes(Order(c))
        /\ Power[Order(c)] \in Nat
    BY <1>2, CacheFacts
  <1>4. SlabBytes(Order(c)) \in Nat /\ base \in Nat
    <2>1. s.page \in Nat
      BY <1>2, SlabsHavePages
    <2>. QED
      BY <1>3, <2>1, SlabSizesAssumption DEF SlabBytes
  <1>5. /\ Bytes(o).start = base + SlabHeader + num * Bufctl + i * c.size
        /\ Bytes(o).end = base + SlabHeader + num * Bufctl + i * c.size + c.size
        /\ SlabEnd(s) = base + SlabBytes(Order(c))
    BY DEF Bytes, Address, SlabEnd
  <1> DEFINE size == c.size
             bytes == SlabBytes(Order(c))
  <1>6. size \in Nat /\ bytes \in Nat /\ SlabHeader + num * (size + Bufctl) <= bytes
    BY <1>3, <1>4
  <1>7. /\ Bytes(o).start = base + SlabHeader + num * Bufctl + i * size
        /\ Bytes(o).end = base + SlabHeader + num * Bufctl + i * size + size
        /\ SlabEnd(s) = base + bytes
    BY <1>5
  <1>8. i < num
    BY <1>1, <1>2, <1>3
  <1> HIDE DEF s, i, c, num, base, size, bytes
  <1>9. i * size \in Nat /\ num * size \in Nat /\ i * size + size <= num * size
    BY <1>1, <1>3, <1>6, <1>8, ProductsGrow
  <1>10. num * (size + Bufctl) = num * size + num * Bufctl /\ num * Bufctl \in Nat
    BY <1>3, <1>6, SlabSizesAssumption
  <1>11. SlabHeader \in Nat
    BY SlabSizesAssumption
  <1> DEFINE a == i * size
             b == num * size
             d == num * Bufctl
  <1>12. /\ a \in Nat /\ b \in Nat /\ d \in Nat /\ a + size <= b
         /\ SlabHeader + (b + d) <= bytes
         /\ Bytes(o).start = base + SlabHeader + d + a
         /\ Bytes(o).end = base + SlabHeader + d + a + size
    BY <1>6, <1>7, <1>9, <1>10
  <1> HIDE DEF a, b, d
  <1>13. /\ Bytes(o).start \in Nat /\ Bytes(o).end \in Nat
         /\ Bytes(o).start <= Bytes(o).end
         /\ base <= Bytes(o).start /\ Bytes(o).end <= base + bytes
    BY <1>4, <1>6, <1>11, <1>12
  <1>. QED
    BY <1>1, <1>7, <1>13 DEF s, i, base

\* Two objects of one slab share no byte.
LEMMA SameSlabObjectsApart ==
  ASSUME IInv, NEW o \in objects, NEW p \in objects, o[1] = p[1], o[2] < p[2]
  PROVE  Bytes(o).end <= Bytes(p).start
  <1> DEFINE c == slab[o[1]].cache
             base == o[1].page * PAGE_SIZE + SlabHeader + Num(c) * Bufctl
  <1>1. o[1] \in DOMAIN slab /\ o[2] \in Nat /\ p[2] \in Nat
    BY ObjectInSlab
  <1>2. o[1] \in Slabs /\ c \in Known
    BY <1>1, SlabFacts
  <1>3. base \in Nat
    <2>1. Num(c) \in Nat /\ o[1].page \in Nat
      BY <1>2, CacheFacts, SlabsHavePages
    <2>. QED
      BY <2>1, SlabSizesAssumption
  <1>4. c.size \in Nat
    BY <1>2, CacheFacts
  <1>5. Bytes(o).end = base + o[2] * c.size + c.size /\ Bytes(p).start = base + p[2] * c.size
    BY DEF Bytes, Address
  <1> DEFINE size == c.size
  <1>6. Bytes(o).end = base + o[2] * size + size /\ Bytes(p).start = base + p[2] * size
        /\ size \in Nat
    BY <1>4, <1>5
  <1> HIDE DEF base, c, size
  <1>7. o[2] * size \in Nat /\ p[2] * size \in Nat /\ o[2] * size + size <= p[2] * size
    BY <1>1, <1>6, ProductsGrow
  <1>. QED
    BY <1>3, <1>6, <1>7

\* The pages of two slabs in one pool are apart, and so are their bytes.
LEMMA SlabsApart ==
  ASSUME IInv, NEW s \in DOMAIN slab, NEW t \in DOMAIN slab, s # t, s.pool = t.pool
  PROVE  SlabEnd(s) <= t.page * PAGE_SIZE \/ SlabEnd(t) <= s.page * PAGE_SIZE
  <1> DEFINE r == PagesOf(s)
             q == PagesOf(t)
  <1>1. /\ s \in Slabs /\ t \in Slabs /\ s.page \in Nat /\ t.page \in Nat
        /\ r \in RangesOf(s.pool) /\ q \in RangesOf(s.pool)
    BY SlabFacts, SlabsHavePages
  <1>2. /\ r.start = s.page /\ r.length = Power[Order(slab[s].cache)]
        /\ q.start = t.page /\ q.length = Power[Order(slab[t].cache)]
    BY DEF PagesOf
  <1>3. r.length \in Nat /\ q.length \in Nat
    BY <1>2, SlabFacts, CacheFacts
  <1>4. s.page # t.page
    BY <1>1, SameSlab
  <1> HIDE DEF r, q
  <1>5. r # q
    BY <1>2, <1>4
  <1>6. r.start + r.length <= q.start \/ q.start + q.length <= r.start
    <2>1. CASE s.pool = SLAB_DMA
      BY <1>1, <1>5, <2>1 DEF RangesOf, IInv, DmaPool!Exclusive, DmaPool!Apart
    <2>2. CASE s.pool # SLAB_DMA
      BY <1>1, <1>5, <2>2 DEF RangesOf, IInv, NonPagedPool!Exclusive, NonPagedPool!Apart
    <2>. QED
      BY <2>1, <2>2
  <1>7. /\ SlabEnd(s) = s.page * PAGE_SIZE + PAGE_SIZE * r.length
        /\ SlabEnd(t) = t.page * PAGE_SIZE + PAGE_SIZE * q.length
    BY <1>2 DEF SlabEnd, SlabBytes
  <1>8. ASSUME NEW x \in Nat, NEW y \in Nat, NEW z \in Nat, x + y <= z
        PROVE  x * PAGE_SIZE + PAGE_SIZE * y <= z * PAGE_SIZE
    <2>1. PAGE_SIZE \in Nat
      BY SlabSizesAssumption
    <2>2. x * PAGE_SIZE + PAGE_SIZE * y = (x + y) * PAGE_SIZE
      BY <2>1
    <2>3. (x + y) * PAGE_SIZE <= z * PAGE_SIZE
      BY <1>8, <2>1
    <2>. QED
      BY <2>2, <2>3
  <1>9. CASE r.start + r.length <= q.start
    BY <1>1, <1>2, <1>3, <1>7, <1>8, <1>9
  <1>10. CASE q.start + q.length <= r.start
    BY <1>1, <1>2, <1>3, <1>7, <1>8, <1>10
  <1>. QED
    BY <1>6, <1>9, <1>10

\* Memory that is handed out is in the kind of memory asked for, inside its
\* slab, and shares no byte with other memory handed out.
THEOREM MemoryHandedOutApart == Spec => []MemoryApart
  <1>1. IInv => MemoryApart
    <2> SUFFICES ASSUME IInv PROVE MemoryApart
      OBVIOUS
    <2>1. ASSUME NEW o \in objects
          PROVE  /\ (o[1].pool = SLAB_DMA) = (slab[o[1]].cache.flags = SLAB_DMA)
                 /\ Bytes(o).end <= SlabEnd(o[1])
      <3>1. o[1] \in DOMAIN slab /\ Bytes(o).end <= SlabEnd(o[1])
        BY ObjectInSlab
      <3>2. o[1].pool = PoolFor(slab[o[1]].cache)
        BY <3>1, SlabFacts
      <3>. QED
        BY <3>1, <3>2 DEF PoolFor, SLAB_DMA, SLAB_NORMAL
    <2>2. ASSUME NEW o \in objects, NEW p \in objects, o # p, o[1].pool = p[1].pool
          PROVE  Bytes(o).end <= Bytes(p).start \/ Bytes(p).end <= Bytes(o).start
      <3>1. /\ o[1] \in DOMAIN slab /\ o[2] \in Nat /\ o = <<o[1], o[2]>>
            /\ Bytes(o).start \in Nat /\ Bytes(o).end \in Nat
            /\ o[1].page * PAGE_SIZE <= Bytes(o).start /\ Bytes(o).end <= SlabEnd(o[1])
        BY ObjectInSlab
      <3>2. /\ p[1] \in DOMAIN slab /\ p[2] \in Nat /\ p = <<p[1], p[2]>>
            /\ Bytes(p).start \in Nat /\ Bytes(p).end \in Nat
            /\ p[1].page * PAGE_SIZE <= Bytes(p).start /\ Bytes(p).end <= SlabEnd(p[1])
        BY ObjectInSlab
      <3>3. CASE o[1] = p[1]
        <4>1. o[2] # p[2]
          BY <2>2, <3>1, <3>2, <3>3
        <4>2. o[2] < p[2] \/ p[2] < o[2]
          BY <3>1, <3>2, <4>1
        <4>. QED
          BY <3>3, <4>2, SameSlabObjectsApart
      <3>4. CASE o[1] # p[1]
        <4> DEFINE a == o[1].page * PAGE_SIZE
                   b == p[1].page * PAGE_SIZE
        <4>1. SlabEnd(o[1]) <= b \/ SlabEnd(p[1]) <= a
          BY <2>2, <3>1, <3>2, <3>4, SlabsApart
        <4>2. a \in Nat /\ b \in Nat
          <5>1. o[1].page \in Nat /\ p[1].page \in Nat
            BY <3>1, <3>2, SlabFacts, SlabsHavePages
          <5>. QED
            BY <5>1, SlabSizesAssumption
        <4>3. SlabEnd(o[1]) \in Int /\ SlabEnd(p[1]) \in Int
          <5>1. \A s \in DOMAIN slab : s.page \in Nat /\ Power[Order(slab[s].cache)] \in Nat
            BY SlabFacts, SlabsHavePages, CacheFacts
          <5>. QED
            BY <3>1, <3>2, <5>1, SlabSizesAssumption DEF SlabEnd, SlabBytes
        <4> HIDE DEF a, b
        <4>4. a <= Bytes(o).start /\ b <= Bytes(p).start
          BY <3>1, <3>2 DEF a, b
        <4>. QED
          BY <3>1, <3>2, <4>1, <4>2, <4>3, <4>4
      <3>. QED
        BY <3>3, <3>4
    <2>3. \A c, d \in DOMAIN descriptor : c # d => descriptor[c] # descriptor[d]
      BY DEF IInv, DescriptorsAreInOrder
    <2>. QED
      BY <2>1, <2>2, <2>3 DEF MemoryApart
  <1>. QED
    BY SlabInvariant, <1>1, PTL

\* The descriptors there are describe size caches.
LEMMA DescribedCaches ==
  ASSUME IInv
  PROVE  \A c \in DOMAIN descriptor : c \in Known /\ c.size \in SizeCacheSizes /\ c # CacheCache
  <1> TAKE c \in DOMAIN descriptor
  <1>1. PICK call \in DOMAIN CachesInOrder : c = CachesInOrder[call]
    BY DEF IInv, DescriptorsAreInOrder
  <1>2. call \in 1 .. 2 * SizeCaches /\ c \in Known
    BY <1>1, CachesInOrderAreKnown DEF CachesInOrder
  <1>3. c.flags \in {SLAB_NORMAL, SLAB_DMA}
    BY <1>1, <1>2 DEF CachesInOrder, SizeCache
  <1>4. c # CacheCache
    BY <1>3 DEF CacheCache, SLAB_NORMAL, SLAB_DMA
  <1>. QED
    BY <1>2, <1>4 DEF Known, SizeCache

\* The objects of a slab fit the pages the slab asks for, no further one would,
\* and there is at least one.
THEOREM SlabsHoldTheirObjects == Spec => []ObjectsFitTheirPages
  <1>1. IInv => ObjectsFitTheirPages
    <2> SUFFICES ASSUME IInv, NEW c \in DOMAIN descriptor
                 PROVE  /\ Num(c) >= 1
                        /\ SlabHeader + Num(c) * (c.size + Bufctl) <= SlabBytes(Order(c))
                        /\ SlabBytes(Order(c)) < SlabHeader + (Num(c) + 1) * (c.size + Bufctl)
      BY DEF ObjectsFitTheirPages
    <2>1. c \in Known /\ c.size \in SizeCacheSizes /\ c # CacheCache
      BY DescribedCaches
    <2>2. /\ c.size \in Nat \ {0} /\ Order(c) \in Orders /\ Num(c) \in Nat \ {0}
          /\ SlabHeader + Num(c) * (c.size + Bufctl) <= SlabBytes(Order(c))
      BY <2>1, CacheFacts
    <2>3. Num(c) = CacheEstimate(c.size, Order(c))
      BY <2>1 DEF Num
    <2>4. SlabBytes(Order(c)) < SlabHeader + (Num(c) + 1) * (c.size + Bufctl)
      BY <2>2, <2>3, CacheEstimateFacts
    <2>. QED
      BY <2>2, <2>4
  <1>. QED
    BY SlabInvariant, <1>1, PTL

\* The calls of slab_init make a cache of each size and kind.
LEMMA EverySizeHasACache ==
  ASSUME NEW size \in SizeCacheSizes, NEW flags \in Flags
  PROVE  \E call \in 1 .. 2 * SizeCaches : CachesInOrder[call] = SizeCache(size, flags)
  <1>1. PICK i \in 0 .. SizeCaches - 1 : size = SmallestCache * Power[i]
    BY DEF SizeCacheSizes
  <1>2. SizeCaches \in Nat
    BY SlabSizesAssumption
  <1>3. CASE flags = SLAB_NORMAL
    <2> DEFINE call == 2 * i + 1
    <2>1. call \in 1 .. 2 * SizeCaches /\ (call - 1) \div 2 = i /\ call % 2 = 1
      BY <1>2
    <2> HIDE DEF call
    <2>2. CachesInOrder[call] = SizeCache(size, flags)
      BY <1>1, <1>3, <2>1 DEF CachesInOrder
    <2>. QED
      BY <2>1, <2>2
  <1>4. CASE flags = SLAB_DMA
    <2> DEFINE call == 2 * i + 2
    <2>1. call \in 1 .. 2 * SizeCaches /\ (call - 1) \div 2 = i /\ call % 2 # 1
      BY <1>2
    <2> HIDE DEF call
    <2>2. CachesInOrder[call] = SizeCache(size, flags)
      BY <1>1, <1>4, <2>1 DEF CachesInOrder
    <2>. QED
      BY <2>1, <2>2
  <1>. QED
    BY <1>3, <1>4 DEF Flags

\* Exactly the requests above half the smallest and up to the largest cache are
\* served, by the cache of the least power of two that holds them, and once
\* slab_init has made the caches that one is there.
THEOREM EveryRequestHasItsCache == Spec => []RequestsAreServed
  <1>1. IInv => RequestsAreServed
    <2> SUFFICES ASSUME IInv, initialised >= 2 * SizeCaches,
                        NEW size \in Requests, NEW flags \in Flags
                 PROVE  /\ Served(size) <=> (2 * size > SmallestCache /\ size <= LargestCache)
                        /\ Served(size) =>
                             /\ CacheFor(size, flags) \in DOMAIN descriptor
                             /\ CacheFor(size, flags).size \in size .. 2 * size - 1
      BY DEF RequestsAreServed
    <2>1. size \in Nat \ {0}
      BY SlabAssumption
    <2>2. SizeCaches > 0
      <3>1. SizeCaches = 0 => SizeCacheSizes = {}
        BY DEF SizeCacheSizes
      <3>2. SizeCaches # 0
        BY <3>1, SlabAssumption
      <3>. QED
        BY <3>2, SlabSizesAssumption
    <2>3. ASSUME Served(size)
          PROVE  /\ CacheFor(size, flags) \in DOMAIN descriptor
                 /\ CacheFor(size, flags).size \in size .. 2 * size - 1
      <3> DEFINE power == Power[MallocOrder(size)]
      <3>1. power \in SizeCacheSizes /\ CacheFor(size, flags) = SizeCache(power, flags)
        BY <2>3 DEF Served, CacheFor
      <3>2. power \in Nat /\ size <= power /\ power < 2 * size
        BY <2>1, MallocOrderFacts, PowerFacts
      <3> HIDE DEF power
      <3>3. PICK call \in 1 .. 2 * SizeCaches : CachesInOrder[call] = SizeCache(power, flags)
        BY <3>1, EverySizeHasACache
      <3>4. call \in (1 .. initialised) \cap DOMAIN CachesInOrder
        <4>1. initialised \in Int /\ SizeCaches \in Nat
          BY SlabSizesAssumption DEF IInv, InitCalls
        <4>. QED
          BY <4>1 DEF CachesInOrder
      <3>5. CacheFor(size, flags) \in DOMAIN descriptor
        BY <3>1, <3>3, <3>4 DEF IInv, DescriptorsAreInOrder
      <3>6. SizeCache(power, flags).size = power
        BY DEF SizeCache
      <3>7. power \in size .. 2 * size - 1
        BY <2>1, <3>2
      <3>. QED
        BY <3>1, <3>5, <3>6, <3>7
    <2>. QED
      BY <2>1, <2>2, <2>3, ServedRequests
  <1>. QED
    BY SlabInvariant, <1>1, PTL
=============================================================================
