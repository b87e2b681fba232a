------------------------------ MODULE SlabSizes ------------------------------
(***************************************************************************)
(* The arithmetic of src/src/kernel/mm/slab/slab.co: how many objects a    *)
(* slab holds, how many pages it takes, and which size cache serves a      *)
(* request of slab_malloc.  Loops are recursive functions, so that the     *)
(* facts about them can be proved.                                         *)
(*                                                                         *)
(* Sizes are int in the code (wastage, num, s): they are exact below 2^31, *)
(* and no size here is larger than PAGE_SIZE << SLAB_MAX_GFP_ORDER.        *)
(***************************************************************************)
EXTENDS Integers

CONSTANTS
  PAGE_SIZE,
  SLAB_MAX_GFP_ORDER,
  SlabHeader,         \* sizeof(slab_slab_t)
  Bufctl,             \* sizeof(slab_bufctl_t)
  SmallestCache,      \* size of the first size cache (slab_init: 32)
  SizeCaches          \* number of size caches (slab_init: 13)

ASSUME SlabSizesAssumption ==
  /\ PAGE_SIZE \in Nat /\ SlabHeader \in Nat /\ PAGE_SIZE >= SlabHeader
  /\ SLAB_MAX_GFP_ORDER \in Nat
  /\ Bufctl \in Nat \ {0}
  /\ SmallestCache \in Nat \ {0} /\ SizeCaches \in Nat

Orders == 0 .. SLAB_MAX_GFP_ORDER

\* 1 << order
Power[order \in Nat] == IF order = 0 THEN 1 ELSE 2 * Power[order - 1]

SlabBytes(order) == PAGE_SIZE * Power[order]

-----------------------------------------------------------------------------

\* Mutant: the bufctls are not counted.
CacheEstimateNoBufctl(size, order) == (SlabBytes(order) - SlabHeader) \div size

\* slab_cacheEstimate: the objects that fit, and what is left over.
CacheEstimate(size, order) ==
  (SlabBytes(order) - SlabHeader) \div (size + Bufctl)

Wastage(size, order) ==
  (SlabBytes(order) - SlabHeader) - CacheEstimate(size, order) * (size + Bufctl)

\* The loop of slab_computePageOrder stops at this order.
Acceptable(size, order) ==
  \/ order >= SLAB_MAX_GFP_ORDER
  \/ /\ CacheEstimate(size, order) # 0
     /\ Wastage(size, order) * 8 <= PAGE_SIZE * order

ComputePageOrder(size) ==
  CHOOSE order \in Orders :
    /\ Acceptable(size, order)
    /\ \A lower \in 0 .. order - 1 : ~Acceptable(size, lower)

-----------------------------------------------------------------------------

\* while((s >>= 1)) order++
HighestBit[s \in Nat] == IF s <= 1 THEN 0 ELSE 1 + HighestBit[s \div 2]

\* Mutant: the rounding is forgotten.
MallocOrderDown(size) == HighestBit[size]

\* The order of the power of two slab_malloc asks a cache for.
MallocOrder(size) ==
  HighestBit[size] + IF size % Power[HighestBit[size]] = 0 THEN 0 ELSE 1

SizeCacheSizes == {SmallestCache * Power[i] : i \in 0 .. SizeCaches - 1}

LargestCache == SmallestCache * Power[SizeCaches - 1]

\* The smallest size is a power of two as well, and the largest slab has room
\* for an object of each size (of up to 128 KB, in slabs of up to 64 pages).
SizesFitSlabs ==
  /\ \E i \in 0 .. SmallestCache : SmallestCache = Power[i]
  /\ \A size \in SizeCacheSizes :
       SlabHeader + size + Bufctl <= SlabBytes(SLAB_MAX_GFP_ORDER)

ASSUME SizeCachesAssumption == SizesFitSlabs

\* avl_find(1 << order): "cannot find size cache" is a panic.
Served(size) == Power[MallocOrder(size)] \in SizeCacheSizes
=============================================================================
