-------------------------------- MODULE Slab --------------------------------
(***************************************************************************)
(* The object caches of src/src/kernel/mm/slab/slab.co.                    *)
(*                                                                         *)
(* A cache carves slabs, ranges of pages it gets from a pool, into objects *)
(* of one size.  The free objects of a slab are chained by index through   *)
(* its bufctl array; a slab sits in one of three lists of its cache.       *)
(* Caches themselves are objects of slab_cache_cache.  For each power of   *)
(* two there is a cache of ordinary memory and one of DMA memory, and      *)
(* slab_malloc picks one of them.  Nothing is freed: slab_mfree is empty   *)
(* and slab_free has no definition.                                        *)
(*                                                                         *)
(* The two pools below are the abstract ones of RangeAllocator, which Pool *)
(* implements.                                                             *)
(***************************************************************************)
EXTENDS SlabSizes, Sequences, FiniteSets, SequencesExt

CONSTANTS
  CacheCacheSize, CacheCacheOrder, CacheCacheNum,  \* slab_cache_cache
  NonPagedPages, DmaPages,                         \* pages of the two pools
  TestCache, TestRequest,   \* what slab_init allocates at its end
  Requests                  \* sizes slab_malloc is called with

ASSUME SlabAssumption ==
  /\ CacheCacheSize \in Nat \ {0} /\ CacheCacheOrder \in Orders
  /\ CacheCacheNum \in Nat \ {0}
  /\ SlabHeader + CacheCacheNum * (CacheCacheSize + Bufctl) <= SlabBytes(CacheCacheOrder)
  /\ NonPagedPages \in Nat \ {0} /\ DmaPages \in Nat \ {0}
  /\ TestCache \in SizeCacheSizes
  /\ Requests \cup {TestRequest} \subseteq Nat \ {0}

VARIABLES
  nonPaged, dma,         \* ranges the two pools handed out
  initialised,           \* how many of the calls of slab_init were made
  descriptor,            \* the object that describes each cache made
  full, partial, free,   \* slabs_full, slabs_partial, slabs_free per cache
  slab,                  \* the header of each slab
  objects,               \* objects handed out, <<slab, index>>
  panicked

lists == <<full, partial, free>>
vars == <<nonPaged, dma, initialised, descriptor, lists, slab, objects, panicked>>

\* A cache is known by its size and its flags, a slab by the pool it is in
\* and its first page there.
SLAB_NORMAL == "normal"
SLAB_DMA == "dma"
Flags == {SLAB_NORMAL, SLAB_DMA}
CacheCache == [size |-> CacheCacheSize, flags |-> "cache"]
SizeCache(size, flags) == [size |-> size, flags |-> flags]
Known == {CacheCache} \cup {SizeCache(size, flags) : size \in SizeCacheSizes, flags \in Flags}

Order(c) == IF c = CacheCache THEN CacheCacheOrder ELSE ComputePageOrder(c.size)
Num(c) == IF c = CacheCache THEN CacheCacheNum ELSE CacheEstimate(c.size, Order(c))

NonPagedPool == INSTANCE RangeAllocator WITH owned <- nonPaged, PoolPages <- NonPagedPages
DmaPool == INSTANCE RangeAllocator WITH owned <- dma, PoolPages <- DmaPages

\* The end of the chain of free objects.
BUFCTL_END == -1

\* A function that is f but for its value at x, where f may be undefined.
Put(f, x, value) ==
  [y \in DOMAIN f \cup {x} |-> IF y = x THEN value ELSE f[y]]

-----------------------------------------------------------------------------

Init ==
  /\ NonPagedPool!Init /\ DmaPool!Init
  /\ initialised = 0
  /\ descriptor = [c \in {} |-> <<>>]
  /\ full = [c \in Known |-> <<>>]
  /\ partial = full /\ free = full
  /\ slab = [s \in {} |-> 0]
  /\ objects = {}
  /\ panicked = FALSE

Running == ~panicked

\* Mutant: the chain leads past the last object.
FreshSlabOpenChain(c) ==
  [cache |-> c, inuse |-> 0, free |-> 0,
   bufs |-> [i \in 0 .. Num(c) - 1 |-> i + 1]]

(***************************************************************************)
(* slab_slab_init: every object but the last is chained to the next one.   *)
(***************************************************************************)
FreshSlab(c) ==
  [cache |-> c, inuse |-> 0, free |-> 0,
   bufs |-> [i \in 0 .. Num(c) - 1 |-> IF i = Num(c) - 1 THEN BUFCTL_END
                                       ELSE i + 1]]

\* Mutants: the slab is put over pages that may be in use; the flags of the
\* cache are not looked at.
CreateSlabAnywhere(c, s) ==
  /\ s.pool = (IF c.flags = SLAB_DMA THEN SLAB_DMA ELSE SLAB_NORMAL)
  /\ nonPaged' = nonPaged \cup {[start |-> s.page, length |-> Power[Order(c)]]}
  /\ UNCHANGED dma

CreateSlabNonPaged(c, s) ==
  /\ s.pool = SLAB_NORMAL
  /\ NonPagedPool!AllocAt(s.page, Power[Order(c)])
  /\ UNCHANGED dma

(***************************************************************************)
(* slab_create_slab: a range of the pool the flags ask for becomes a slab. *)
(* (The constructor of the cache of caches empties the lists of every new  *)
(* descriptor; no other cache has one.)                                    *)
(***************************************************************************)
CreateSlab(c, s) ==
  IF c.flags = SLAB_DMA
    THEN /\ s.pool = SLAB_DMA
         /\ DmaPool!AllocAt(s.page, Power[Order(c)])
         /\ UNCHANGED nonPaged
    ELSE /\ s.pool = SLAB_NORMAL
         /\ NonPagedPool!AllocAt(s.page, Power[Order(c)])
         /\ UNCHANGED dma

Places == ({SLAB_NORMAL} \X (0 .. NonPagedPages - 1)) \cup ({SLAB_DMA} \X (0 .. DmaPages - 1))
Slabs == {[pool |-> p[1], page |-> p[2]] : p \in Places}

\* The header when the object that free names is taken, and next comes after it.
Taken(header, next) == [header EXCEPT !.inuse = @ + 1, !.free = next]

\* Mutants: a slab whose chain ended stays partial; the free member does not
\* move along the chain.
AllocFromSlabStaysPartial(c, s, header, rest) ==
  /\ slab' = Put(slab, s, Taken(header, header.bufs[header.free]))
  /\ objects' = objects \cup {<<s, header.free>>}
  /\ partial' = [partial EXCEPT ![c] = <<s>> \o rest]
  /\ UNCHANGED full

AllocFromSlabNotUnchained(c, s, header, rest) ==
  /\ slab' = Put(slab, s, [header EXCEPT !.inuse = @ + 1])
  /\ objects' = objects \cup {<<s, header.free>>}
  /\ IF header.inuse + 1 = Num(c)
       THEN /\ partial' = [partial EXCEPT ![c] = rest]
            /\ full' = [full EXCEPT ![c] = <<s>> \o @]
       ELSE /\ partial' = [partial EXCEPT ![c] = <<s>> \o rest]
            /\ UNCHANGED full

(***************************************************************************)
(* slab_allocFromSlab on a slab that heads the partial list, the other     *)
(* slabs of which are rest: the first free object leaves the chain, and    *)
(* when the chain ends the slab goes to slabs_full.                        *)
(***************************************************************************)
AllocFromSlab(c, s, header, rest) ==
  LET next == header.bufs[header.free]
  IN /\ header.free # BUFCTL_END
     /\ slab' = Put(slab, s, Taken(header, next))
     /\ objects' = objects \cup {<<s, header.free>>}
     /\ IF next = BUFCTL_END
          THEN /\ partial' = [partial EXCEPT ![c] = rest]
               /\ full' = [full EXCEPT ![c] = <<s>> \o @]
          ELSE /\ partial' = [partial EXCEPT ![c] = <<s>> \o rest]
               /\ UNCHANGED full

(***************************************************************************)
(* slab_alloc: the head of the partial list serves the request; when the   *)
(* list is empty a slab is first moved to it from the free list, where a   *)
(* new one is put when that is empty too.                                  *)
(***************************************************************************)
SlabAlloc(c) ==
  IF partial[c] # <<>>
    THEN /\ AllocFromSlab(c, Head(partial[c]), slab[Head(partial[c])],
                          Tail(partial[c]))
         /\ UNCHANGED <<nonPaged, dma, free>>
  ELSE IF free[c] # <<>>
    THEN /\ AllocFromSlab(c, Head(free[c]), slab[Head(free[c])], <<>>)
         /\ free' = [free EXCEPT ![c] = Tail(@)]
         /\ UNCHANGED <<nonPaged, dma>>
  ELSE \E s \in Slabs :
         /\ CreateSlab(c, s)
         /\ AllocFromSlab(c, s, FreshSlab(c), <<>>)
         /\ UNCHANGED free

-----------------------------------------------------------------------------

(***************************************************************************)
(* slab_createCache: an object of slab_cache_cache is filled in.  The      *)
(* constructor it is given is not stored.                                  *)
(***************************************************************************)
CreateCache(c) ==
  /\ SlabAlloc(CacheCache)
  /\ descriptor' = Put(descriptor, c, CHOOSE object \in objects' : object \notin objects)

Alloc(c) == SlabAlloc(c) /\ UNCHANGED descriptor

\* The cache slab_malloc finds with avl_find, if there is one.
CacheFor(size, flags) == SizeCache(Power[MallocOrder(size)], flags)

Malloc(size, flags) == Served(size) /\ Alloc(CacheFor(size, flags))

\* What slab_init does, call by call.
CachesInOrder ==
  [i \in 1 .. 2 * SizeCaches |->
     SizeCache(SmallestCache * Power[(i - 1) \div 2],
               IF i % 2 = 1 THEN SLAB_NORMAL ELSE SLAB_DMA)]
InitCalls == 2 * SizeCaches + 3
Ready == initialised = InitCalls

SlabInit ==
  /\ Running /\ ~Ready
  /\ LET call == initialised + 1
     IN \/ call <= 2 * SizeCaches /\ CreateCache(CachesInOrder[call])
        \/ call = 2 * SizeCaches + 1 /\ Alloc(SizeCache(TestCache, SLAB_NORMAL))
        \/ call = 2 * SizeCaches + 2 /\ Malloc(TestRequest, SLAB_NORMAL)
        \/ call = 2 * SizeCaches + 3 /\ Malloc(TestRequest, SLAB_DMA)
  /\ initialised' = initialised + 1
  /\ UNCHANGED panicked

SlabMalloc(size, flags) ==
  /\ Running /\ Ready
  /\ Malloc(size, flags)
  /\ UNCHANGED <<initialised, panicked>>

\* "cannot find size cache"; or the pool has no range left: "slab: cannot
\* allocate memory for slab", or a panic of the pool itself.
MallocPanics(size, flags) ==
  /\ Running /\ Ready
  /\ Served(size) => /\ partial[CacheFor(size, flags)] = <<>>
                     /\ free[CacheFor(size, flags)] = <<>>
  /\ panicked' = TRUE
  /\ UNCHANGED <<nonPaged, dma, initialised, descriptor, lists, slab, objects>>

Next ==
  \/ SlabInit
  \/ \E size \in Requests, flags \in Flags : SlabMalloc(size, flags) \/ MallocPanics(size, flags)

Spec == Init /\ [][Next]_vars

-----------------------------------------------------------------------------

IsSlab(header) ==
  /\ header.cache \in Known
  /\ header.inuse \in Nat
  /\ header.bufs \in [0 .. Num(header.cache) - 1 -> BUFCTL_END .. Num(header.cache)]

TypeOK ==
  /\ NonPagedPool!Exclusive /\ DmaPool!Exclusive
  /\ initialised \in 0 .. InitCalls
  /\ DOMAIN descriptor \subseteq Known
  /\ \A list \in {full, partial, free} : list \in [Known -> Seq(Slabs)]
  /\ DOMAIN slab \subseteq Slabs /\ \A s \in DOMAIN slab : IsSlab(slab[s])
  /\ objects \subseteq Slabs \X Nat
  /\ panicked \in BOOLEAN

SlabsOf(c) == {s \in DOMAIN slab : slab[s].cache = c}

(***************************************************************************)
(* Each slab of a cache is in one list of that cache, once, and it is the  *)
(* list its use calls for: slab.h says full slabs are "never searched for  *)
(* allocation" and partial ones are "searched first".                      *)
(***************************************************************************)
ListsMatchUse ==
  \A c \in Known :
    LET all == full[c] \o partial[c] \o free[c]
    IN /\ IsInjective(all)
       /\ ToSet(all) = SlabsOf(c)
       /\ \A s \in ToSet(full[c]) : slab[s].inuse = Num(c)
       /\ \A s \in ToSet(partial[c]) : slab[s].inuse \in 1 .. Num(c) - 1
       /\ \A s \in ToSet(free[c]) : slab[s].inuse = 0

\* The indices reached from the free member along the bufctls: those that are
\* in every set of indices that holds free and leads nowhere else.
LeadsNowhereElse(s, indices) ==
  /\ slab[s].free \in indices
  /\ \A i \in indices \cap DOMAIN slab[s].bufs : slab[s].bufs[i] \in indices

Chain(s) ==
  LET num == Num(slab[s].cache)
  IN {i \in 0 .. num : \A indices \in SUBSET (BUFCTL_END .. num) :
                         LeadsNowhereElse(s, indices) => i \in indices}

(***************************************************************************)
(* The chain of a slab reaches exactly the objects that are not handed     *)
(* out, and inuse counts the others: no object is handed out twice and     *)
(* none is lost.                                                           *)
(***************************************************************************)
ChainIsTheRest ==
  \A s \in DOMAIN slab :
    LET num == Num(slab[s].cache)
        out == {i \in 0 .. num - 1 : <<s, i>> \in objects}
    IN /\ Chain(s) = (0 .. num - 1) \ out
       /\ slab[s].inuse = Cardinality(out)

\* slab->mem + i * objsize, from the start of the pool; and where the pages
\* of a slab begin and end.
Address(object) ==
  LET c == slab[object[1]].cache
  IN object[1].page * PAGE_SIZE + SlabHeader + Num(c) * Bufctl + object[2] * c.size

SlabEnd(s) == s.page * PAGE_SIZE + SlabBytes(Order(slab[s].cache))

Bytes(object) == [start |-> Address(object), end |-> Address(object) + slab[object[1]].cache.size]

(***************************************************************************)
(* Memory that is handed out is in the kind of memory that was asked for,  *)
(* between the bufctls and the end of its slab, and shares no byte with    *)
(* other memory handed out, in the same slab or any other.  (A descriptor  *)
(* of a cache is such an object too.)                                      *)
(***************************************************************************)
MemoryApart ==
  /\ \A o \in objects :
       /\ (o[1].pool = SLAB_DMA) = (slab[o[1]].cache.flags = SLAB_DMA)
       /\ Bytes(o).end <= SlabEnd(o[1])
  /\ \A o, p \in objects :
       (o # p /\ o[1].pool = p[1].pool) =>
          Bytes(o).end <= Bytes(p).start \/ Bytes(p).end <= Bytes(o).start
  /\ \A c, d \in DOMAIN descriptor : c # d => descriptor[c] # descriptor[d]

(***************************************************************************)
(* The header, the bufctls and the objects of a slab lie inside the pages  *)
(* slab_create_slab asks for, and no further object would: one object too  *)
(* many is handed out beyond the range of the pool.  The order a cache     *)
(* gets leaves room for at least one object; with none, buffs[num - 1] of  *)
(* slab_slab_init would be the member before the array, free.              *)
(***************************************************************************)
ObjectsFitTheirPages ==
  \A c \in DOMAIN descriptor :
    /\ Num(c) >= 1
    /\ SlabHeader + Num(c) * (c.size + Bufctl) <= SlabBytes(Order(c))
    /\ SlabBytes(Order(c)) < SlabHeader + (Num(c) + 1) * (c.size + Bufctl)

(***************************************************************************)
(* slab.h: "the closes power of 2 is choosen and the object is allocated   *)
(* inside the cache associated with that size".  A request is served, by   *)
(* the least power of two that holds it, exactly when it is larger than    *)
(* half the smallest cache and no larger than the largest; slab_malloc     *)
(* panics for the others, the small ones included.  Once slab_init has     *)
(* made the caches, every request that is served has its cache.            *)
(***************************************************************************)
RequestsAreServed ==
  initialised >= 2 * SizeCaches =>
    \A size \in Requests, flags \in Flags :
      /\ Served(size) <=> (2 * size > SmallestCache /\ size <= LargestCache)
      /\ Served(size) =>
           /\ CacheFor(size, flags) \in DOMAIN descriptor
           /\ CacheFor(size, flags).size \in size .. 2 * size - 1
=============================================================================
