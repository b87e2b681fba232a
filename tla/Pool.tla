-------------------------------- MODULE Pool --------------------------------
(***************************************************************************)
(* The range allocator of src/src/kernel/mm/pool.co.                       *)
(*                                                                         *)
(* A pool is a region of the system address space that hands out ranges of *)
(* whole pages.  Its metadata are slots kept in the first page of the pool *)
(* (the chunk): a slot describes a used range, describes a free range, or  *)
(* waits in the chunk's unallocatedSlots list.  Pages of used ranges are   *)
(* mapped one by one when they are first touched (pageIn).                 *)
(*                                                                         *)
(* Addresses and lengths are counted in pages from the start of the pool.  *)
(* The tree of used slots is represented by the set of slots in it; the    *)
(* tree itself, lib/algo/avl.c, is the subject of module Avl.              *)
(***************************************************************************)
EXTENDS Integers, Sequences, SequencesExt

CONSTANTS
  PoolPages,   \* length of the pool in pages
  NumSlots,    \* POOL_SLOTS_IN_CHUNK: slots that fit the metadata page
  MaxRequest   \* bound: the largest number of pages a client asks for

ASSUME PoolAssumption ==
  /\ PoolPages \in Nat /\ PoolPages >= 2
  /\ NumSlots \in Nat /\ NumSlots >= 3
  /\ MaxRequest \in Nat \ {0}

VARIABLES
  slotType,             \* type of each slot
  start,                \* first page of the range of each slot
  length,               \* its length; both are dead in an unallocated slot
  unallocatedSlots,     \* list of the chunk
  numUnallocatedSlots,  \* the counter kept next to it
  freeList,             \* list of the slots that describe free ranges
  usedRoot,             \* the slots in the tree of used ranges
  mapped,               \* pages of the pool backed by a physical page
  panicked              \* the panic() that stopped the machine, or "none"

slotVars == <<slotType, start, length, unallocatedSlots, numUnallocatedSlots,
              freeList, usedRoot>>
vars == <<slotVars, mapped, panicked>>

Slots == 0 .. NumSlots - 1
Pages == 0 .. PoolPages - 1
SlotTypes == {"UNALLOCATED", "FREE", "USED"}

Panics ==
  { "CannotAllocateSlot",   \* pool_createUsedSlot
    "FreeListEmpty",        \* Pool@allocRange
    "CannotFree",           \* Pool@freeRange
    "SIGSEGV",              \* Pool@pageIn
    "NoPhysicalPage" }      \* mm_allocPhysicalPage, below super@pageIn

-----------------------------------------------------------------------------

(***************************************************************************)
(* Pool@init: slot 0 becomes the used range of the metadata page, slot 1   *)
(* the free range of all the rest.  pool_chunk_allocSlot took both from    *)
(* the head of the list and counted them.                                  *)
(***************************************************************************)
Init ==
  /\ slotType = [s \in Slots |-> IF s = 0 THEN "USED" ELSE
                                 IF s = 1 THEN "FREE" ELSE "UNALLOCATED"]
  /\ start = [s \in Slots |-> IF s = 1 THEN 1 ELSE 0]
  /\ length = [s \in Slots |-> IF s = 0 THEN 1 ELSE
                               IF s = 1 THEN PoolPages - 1 ELSE 0]
  /\ unallocatedSlots = [i \in 1 .. NumSlots - 2 |-> i + 1]
  /\ numUnallocatedSlots = NumSlots - 2
  /\ freeList = <<1>>
  /\ usedRoot = {0}
  /\ mapped = {0}
  /\ panicked = "none"

Running == panicked = "none"

\* panic() freezes the machine: nothing follows it.
Panic(message) ==
  /\ panicked' = message
  /\ UNCHANGED <<slotVars, mapped>>

\* pool_slot_t_avlmatch: the slot matches the addresses inside its range.
Holds(s, page) == start[s] <= page /\ page < start[s] + length[s]

-----------------------------------------------------------------------------

\* Mutant: the last slots are not kept back.
AlwaysAllocSlot == unallocatedSlots # <<>>

\* pool_chunk_allocSlot keeps the last slot back.
CanAllocSlot == numUnallocatedSlots >= 2

\* The free list is searched from its head: i is the first slot that fits.
IsFirstFit(i, pages) ==
  /\ i \in DOMAIN freeList
  /\ length[freeList[i]] >= pages
  /\ \A j \in 1 .. i - 1 : length[freeList[j]] < pages

\* Mutants: the free range keeps its length, or its start.
CarveKeepsLength(free, new, pages) ==
  /\ length[free] > pages
  /\ slotType' = [slotType EXCEPT ![new] = "USED"]
  /\ start' = [start EXCEPT ![new] = start[free], ![free] = @ + pages]
  /\ length' = [length EXCEPT ![new] = pages]
  /\ unallocatedSlots' = Tail(unallocatedSlots)
  /\ UNCHANGED freeList

CarveKeepsStart(free, new, pages) ==
  /\ length[free] > pages
  /\ slotType' = [slotType EXCEPT ![new] = "USED"]
  /\ start' = [start EXCEPT ![new] = start[free]]
  /\ length' = [length EXCEPT ![new] = pages, ![free] = @ - pages]
  /\ unallocatedSlots' = Tail(unallocatedSlots)
  /\ UNCHANGED freeList

(***************************************************************************)
(* pool_allocRangeInFreeSlot when the free range is longer than the        *)
(* request: a new used slot takes its first pages.                         *)
(***************************************************************************)
Carve(free, new, pages) ==
  /\ length[free] > pages
  /\ slotType' = [slotType EXCEPT ![new] = "USED"]
  /\ start' = [start EXCEPT ![new] = start[free], ![free] = @ + pages]
  /\ length' = [length EXCEPT ![new] = pages, ![free] = @ - pages]
  /\ unallocatedSlots' = Tail(unallocatedSlots)
  /\ UNCHANGED freeList

\* Mutant: the slot is given back without leaving the free list.
TakeWholeLeavesListed(free, new, i, pages) ==
  /\ length[free] = pages
  /\ slotType' = [slotType EXCEPT ![new] = "USED", ![free] = "UNALLOCATED"]
  /\ start' = [start EXCEPT ![new] = start[free], ![free] = 0]
  /\ length' = [length EXCEPT ![new] = pages, ![free] = 0]
  /\ unallocatedSlots' = <<free>> \o Tail(unallocatedSlots)
  /\ UNCHANGED freeList

(***************************************************************************)
(* The same when the request takes the whole free range: the free slot     *)
(* goes back to the head of unallocatedSlots.  The counter, decremented    *)
(* for the new slot, is not incremented for this one.                      *)
(***************************************************************************)
TakeWhole(free, new, i, pages) ==
  /\ length[free] = pages
  /\ slotType' = [slotType EXCEPT ![new] = "USED", ![free] = "UNALLOCATED"]
  /\ start' = [start EXCEPT ![new] = start[free], ![free] = 0]
  /\ length' = [length EXCEPT ![new] = pages, ![free] = 0]
  /\ unallocatedSlots' = <<free>> \o Tail(unallocatedSlots)
  /\ freeList' = RemoveAt(freeList, i)

\* Mutant: the slot taken is not counted.
AllocInFreeSlotUncounted(i, pages) ==
  LET free == freeList[i]
      new == Head(unallocatedSlots)
  IN /\ CanAllocSlot
     /\ Carve(free, new, pages) \/ TakeWhole(free, new, i, pages)
     /\ usedRoot' = usedRoot \cup {new}
     /\ UNCHANGED <<numUnallocatedSlots, mapped, panicked>>

AllocInFreeSlot(i, pages) ==
  LET free == freeList[i]
      new == Head(unallocatedSlots)
  IN /\ CanAllocSlot
     /\ Carve(free, new, pages) \/ TakeWhole(free, new, i, pages)
     /\ numUnallocatedSlots' = numUnallocatedSlots - 1
     /\ usedRoot' = usedRoot \cup {new}
     /\ UNCHANGED <<mapped, panicked>>

(***************************************************************************)
(* Pool@allocRange.                                                        *)
(***************************************************************************)
AllocRange(pages) ==
  /\ Running
  /\ \E i \in DOMAIN freeList :
       /\ IsFirstFit(i, pages)
       /\ AllocInFreeSlot(i, pages)

AllocRangePanics(pages) ==
  /\ Running
  /\ \/ freeList = <<>> /\ Panic("FreeListEmpty")
     \/ /\ \E i \in DOMAIN freeList : IsFirstFit(i, pages)
        /\ ~CanAllocSlot
        /\ Panic("CannotAllocateSlot")

\* No free range is long enough: the caller gets a null pointer.
AllocRangeReturnsNull(pages) ==
  /\ Running
  /\ freeList # <<>>
  /\ \A i \in DOMAIN freeList : length[freeList[i]] < pages
  /\ UNCHANGED vars

\* Mutants: the freed slot is not listed; only the pages from addr on are
\* taken from the range.
FreeRangeUnlisted(addr) ==
  /\ Running
  /\ \E s \in usedRoot :
       /\ Holds(s, addr)
       /\ usedRoot' = usedRoot \ {s}
       /\ slotType' = [slotType EXCEPT ![s] = "FREE"]
  /\ UNCHANGED <<freeList, start, length, unallocatedSlots,
                 numUnallocatedSlots, mapped, panicked>>

FreeRangeTrims(addr) ==
  /\ Running
  /\ \E s \in usedRoot :
       /\ Holds(s, addr) /\ addr > start[s]
       /\ length' = [length EXCEPT ![s] = addr - start[s]]
  /\ UNCHANGED <<usedRoot, slotType, freeList, start, unallocatedSlots,
                 numUnallocatedSlots, mapped, panicked>>

(***************************************************************************)
(* Pool@freeRange: the slot found leaves the tree and heads the free list. *)
(* Neighbouring free ranges are not merged and no page is unmapped.        *)
(* Clients own no address of the metadata page.                            *)
(***************************************************************************)
FreeRange(addr) ==
  /\ Running
  /\ \E s \in usedRoot :
       /\ Holds(s, addr)
       /\ usedRoot' = usedRoot \ {s}
       /\ slotType' = [slotType EXCEPT ![s] = "FREE"]
       /\ freeList' = <<s>> \o freeList
  /\ UNCHANGED <<start, length, unallocatedSlots, numUnallocatedSlots,
                 mapped, panicked>>

FreeRangePanics(addr) ==
  /\ Running
  /\ ~ \E s \in usedRoot : Holds(s, addr)
  /\ Panic("CannotFree")

(***************************************************************************)
(* Pool@pageIn, called by the page fault handler for a page of the pool    *)
(* that is not present.  The physical page may not be there to be had:     *)
(* mm_allocPhysicalPage panics when its list is empty.                     *)
(***************************************************************************)
PageIn(page) ==
  /\ Running
  /\ page \notin mapped
  /\ \E s \in usedRoot : Holds(s, page)
  /\ mapped' = mapped \cup {page}
  /\ UNCHANGED <<slotVars, panicked>>

PageInPanics(page) ==
  /\ Running
  /\ page \notin mapped
  /\ \/ Panic("NoPhysicalPage") /\ \E s \in usedRoot : Holds(s, page)
     \/ Panic("SIGSEGV") /\ ~ \E s \in usedRoot : Holds(s, page)

-----------------------------------------------------------------------------

Next ==
  \/ \E pages \in 1 .. MaxRequest :
       \/ AllocRange(pages)
       \/ AllocRangePanics(pages)
       \/ AllocRangeReturnsNull(pages)
  \/ \E page \in Pages \ {0} :
       \/ FreeRange(page)
       \/ FreeRangePanics(page)
       \/ PageIn(page)
       \/ PageInPanics(page)

Spec == Init /\ [][Next]_vars

-----------------------------------------------------------------------------

TypeOK ==
  /\ slotType \in [Slots -> SlotTypes]
  /\ start \in [Slots -> Nat]
  /\ length \in [Slots -> Nat]
  /\ unallocatedSlots \in Seq(Slots)
  /\ numUnallocatedSlots \in Nat
  /\ freeList \in Seq(Slots)
  /\ usedRoot \in SUBSET Slots
  /\ mapped \in SUBSET Pages
  /\ panicked \in Panics \cup {"none"}

OfType(t) == {s \in Slots : slotType[s] = t}
LiveSlots == OfType("FREE") \cup OfType("USED")

NoRepeats(list) ==
  \A i, j \in DOMAIN list : list[i] = list[j] => i = j

(***************************************************************************)
(* The three containers and the type tags agree: every slot is in exactly  *)
(* the container of its type, once, so no slot is lost and none is linked  *)
(* into two lists through the same union (pool.h: "slots can be either     *)
(* unallocated or allocated").                                             *)
(***************************************************************************)
SlotsInOneContainer ==
  /\ NoRepeats(unallocatedSlots)
  /\ NoRepeats(freeList)
  /\ ToSet(unallocatedSlots) = OfType("UNALLOCATED")
  /\ ToSet(freeList) = OfType("FREE")
  /\ usedRoot = OfType("USED")

(***************************************************************************)
(* pool_chunk_allocSlot takes the head of the list after looking only at   *)
(* the counter: the counter must never promise a slot the list has not.    *)
(***************************************************************************)
CounterNeverExceedsList == numUnallocatedSlots <= Len(unallocatedSlots)

(***************************************************************************)
(* Used and free ranges tile the pool: no two overlap, none leaves it, no  *)
(* page is forgotten, and slot 0 still protects the metadata page.         *)
(***************************************************************************)
RangesApart ==
  \A s, t \in LiveSlots :
    s # t => \/ start[s] + length[s] <= start[t]
             \/ start[t] + length[t] <= start[s]

RangesInPool ==
  \A s \in LiveSlots : length[s] > 0 /\ start[s] + length[s] <= PoolPages

PagesCovered == \A page \in Pages : \E s \in LiveSlots : Holds(s, page)

MetadataProtected == 0 \in usedRoot /\ start[0] = 0 /\ length[0] = 1

RangesTileThePool ==
  /\ RangesApart
  /\ RangesInPool
  /\ PagesCovered
  /\ MetadataProtected

(***************************************************************************)
(* The panic "FREE LIST EMPTY" is an honest out-of-memory: it is reached   *)
(* only when every page of the pool is in a used range.                    *)
(***************************************************************************)
EmptyPanicMeansFull ==
  panicked = "FreeListEmpty" =>
    \A page \in Pages : \E s \in usedRoot : Holds(s, page)

(***************************************************************************)
(* The range of a used slot does not change until it is freed, whatever    *)
(* else the pool does: a client's memory stays where it was given.         *)
(***************************************************************************)
UsedRangesStable ==
  [][\A s \in usedRoot \cap usedRoot' :
       start'[s] = start[s] /\ length'[s] = length[s]]_vars

(***************************************************************************)
(* The pool implements the range allocator: the owned ranges are the ones  *)
(* of the slots in the used tree.                                          *)
(***************************************************************************)
OwnedRanges == {[start |-> start[s], length |-> length[s]] : s \in usedRoot}

Abstract == INSTANCE RangeAllocator WITH owned <- OwnedRanges

ImplementsRangeAllocator == Abstract!Spec
=============================================================================
