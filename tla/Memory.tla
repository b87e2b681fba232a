------------------------------- MODULE Memory -------------------------------
(***************************************************************************)
(* Memory from the loader to a running kernel, one step per call:          *)
(*   src/src/arch/i386/loader/{main,loader,boot_context}.c                 *)
(*   src/src/kernel/mm/{init,pfd}.c                                        *)
(*   src/src/kernel/mm/{addressspace,dma,pool}.co.                         *)
(*                                                                         *)
(* The loader maps the sections of the kernel and starts it; the kernel    *)
(* builds the page frame database from the map of reserved memory, then    *)
(* its address space of regions, and from then on maps pages as they are   *)
(* touched.  The pool's ranges are those of RangeAllocator.                *)
(***************************************************************************)
EXTENDS PageTables, FiniteSets

CONSTANTS
  Sections,      \* program headers a kernel image may have, [base, length]
  KernelBase,    \* the page of its entry point
  StackPages, ContextPages, PfdPages, PoolPages, DmaPages, VgaPages,
  VgaRequest,    \* pages mm_initFramebuffer looks for
  TopFrame,      \* frames, up to the end of the highest RAM
  Ram,           \* the frames that are RAM
  DmaFrame, VgaFrame,   \* where the DMA pool and the frame buffer are
  MaxRegions     \* bound: regions

ASSUME MemoryAssumption ==
  /\ Ram \subseteq 0 .. TopFrame - 1
  /\ {StackPages, ContextPages, PfdPages, PoolPages, DmaPages, VgaPages,
      VgaRequest} \subseteq Nat \ {0}
  /\ \A s \in Sections : s.length > 0
  /\ MaxRegions \in Nat

VARIABLES
  hat,       \* page tables, reserved memory and frames (PageTables)
  regions,   \* the regions of systemAddressSpace
  owned,     \* the ranges of the non paged pool that are in use
  kernelEnd, \* the end of the last section loaded
  phase      \* how far the initialisation has come

vars == <<hat, regions, owned, kernelEnd, phase>>

Pool == INSTANCE RangeAllocator

-----------------------------------------------------------------------------
\* The loader.

StackBase == HYPERSPACE - StackPages
ContextBase == StackBase - ContextPages

Init ==
  /\ hat = InitialPaging(TopFrame)
  /\ regions = {} /\ Pool!Init
  /\ kernelEnd = KernelBase
  /\ phase = "loader"

Running == ~hat.panicked

\* load_elf, one program header; a linker lists them by address.
LoadSection(section) ==
  /\ Running /\ phase = "loader"
  /\ section.base >= kernelEnd
  /\ hat' = MapAnonPages(hat, section.base, section.length)
  /\ kernelEnd' = section.base + section.length
  /\ UNCHANGED <<regions, owned, phase>>

\* createInitStack and virtual_boot_context, then the kernel is called.
StartKernel ==
  /\ Running /\ phase = "loader"
  /\ Frame(hat, KernelBase) # None
  /\ LET stack == MapAnonPages(Reserve(hat, StackBase, StackPages),
                               StackBase, StackPages)
     IN hat' = MapAnonPages(Reserve(stack, ContextBase, ContextPages),
                            ContextBase, ContextPages)
  /\ phase' = "kernel"
  /\ UNCHANGED <<regions, owned, kernelEnd>>

-----------------------------------------------------------------------------
\* The page frame database.

PagesOf(segments) ==
  UNION {s.base .. s.base + s.length - 1 : s \in segments}

ReservedPages(h) == PagesOf(ToSet(h.map))

FramesOf(h, pages) == {Frame(h, page) : page \in pages} \ {None}

\* All memory but the identity mapping of the first pages.
Beyond == VirtualSpace \ (0 .. TablePages - 1)

\* Frames are put in the list in order, each before the ones below it.
FreeList(frames) ==
  LET below[f \in 0 .. TopFrame] ==
        IF f = 0 THEN <<>>
        ELSE IF f - 1 \in frames THEN <<f - 1>> \o below[f - 1] ELSE below[f - 1]
  IN below[TopFrame]

\* A place for pages pages, as the kernel looks for one.
Place(pages) == NextFree(hat.map, KernelBase, pages)

\* Mutant: only the first page of a segment is put in the used list.
ClassifyFirstPages(h) ==
  LET used == FramesOf(h, {s.base : s \in ToSet(h.map)})
      unusable == TopFrame - 4 .. TopFrame - 1
  IN [h EXCEPT !.used = used, !.fromPfd = TRUE,
               !.free = FreeList(Ram \ (used \cup unusable))]

(***************************************************************************)
(* mm_initPfd, the lists: RAM is free, but for the four last frames; a     *)
(* frame present under a reserved page is used.  From then on frames come  *)
(* from the database.                                                      *)
(***************************************************************************)
Classify(h) ==
  LET used == FramesOf(h, ReservedPages(h))
      unusable == TopFrame - 4 .. TopFrame - 1
  IN [h EXCEPT !.used = used, !.fromPfd = TRUE,
               !.free = FreeList(Ram \ (used \cup unusable))]

\* mm_initPfd, with the check of CONFIG_PFD_STAND_CHECK: "PAGE PRESENT BUT
\* STILL IN FREE LIST".
InitPfd ==
  /\ Running /\ phase = "kernel"
  /\ LET mapped == MapAnonPages(hat, Place(PfdPages), PfdPages)
         h == Classify(mapped)
     IN hat' = IF mapped.panicked THEN mapped
               ELSE IF FramesOf(h, Beyond) \cap ToSet(h.free) # {} THEN Panic(h)
               ELSE h
  /\ phase' = "pfd"
  /\ UNCHANGED <<regions, owned, kernelEnd>>

-----------------------------------------------------------------------------
\* The address space.

\* AddressSpace@regionForAddress: the regions the page is in, at most one.
RegionsAt(page) ==
  {r \in regions : page \in r.base .. r.base + r.length - 1}

Region(kind, base, length, writable) ==
  [kind |-> kind, base |-> base, length |-> length, writable |-> writable]

(***************************************************************************)
(* AddressSpace@add, after the region has been made and h is what that     *)
(* left: only its first page and the page behind it are tested.            *)
(***************************************************************************)
Add(region, h) ==
  LET collides == RegionsAt(region.base) \cup RegionsAt(region.base + region.length) # {}
  IN IF region.base = WrapsAround \/ h.panicked \/ collides
       THEN hat' = Panic(hat) /\ UNCHANGED regions
       ELSE hat' = h /\ regions' = regions \cup {region}

\* mm_pool_init: the region is reserved, its first page mapped.
InitPool ==
  /\ Running /\ phase = "pfd"
  /\ LET base == Place(PoolPages)
     IN Add(Region("pool", base, PoolPages, TRUE),
            MapAnonPages(Reserve(hat, base, PoolPages), base, 1))
  /\ phase' = "pool"
  /\ UNCHANGED <<owned, kernelEnd>>

\* Mutant: the pool is mapped where the frame buffer will be looked for.
InitDmaUnreserved ==
  /\ Running /\ phase = "pool"
  /\ LET base == Place(DmaPages)
     IN Add(Region("dma", base, DmaPages, TRUE),
            [MapPages(hat, base, DmaFrame, DmaPages) EXCEPT !.map = hat.map])
  /\ phase' = "dma"
  /\ UNCHANGED <<owned, kernelEnd>>

\* mm_dma_init: the whole pool is mapped, and thereby reserved, before
\* Region@init, which does not reserve it again.
InitDma ==
  /\ Running /\ phase = "pool"
  /\ LET base == Place(DmaPages)
     IN Add(Region("dma", base, DmaPages, TRUE),
            MapPages(hat, base, DmaFrame, DmaPages))
  /\ phase' = "dma"
  /\ UNCHANGED <<owned, kernelEnd>>

\* mm_initFramebuffer.  It looks for more pages than the region has.
InitFramebuffer ==
  /\ Running /\ phase = "dma"
  /\ LET base == Place(VgaRequest)
     IN Add(Region("device", base, VgaPages, FALSE),
            MapPages(Reserve(hat, base, VgaPages), base, VgaFrame, VgaPages))
  /\ phase' = "ready"
  /\ UNCHANGED <<owned, kernelEnd>>

\* A client makes a demand zero region and adds it (as cotest does).
NewRegion(pages, writable) ==
  /\ Running /\ phase = "ready" /\ Cardinality(regions) < MaxRegions
  /\ LET base == Place(pages)
     IN Add(Region("zero", base, pages, writable), Reserve(hat, base, pages))
  /\ UNCHANGED <<owned, kernelEnd, phase>>

\* nonPagedPool@allocRange, by the slab allocator.
AllocRange(first, pages) ==
  /\ Running /\ phase = "ready"
  /\ Pool!AllocAt(first, pages)
  /\ UNCHANGED <<hat, regions, kernelEnd, phase>>

\* Mutant: a fault maps the rest of the region with the page.
PageInRegion(region, page) ==
  MapAnonPages(hat, page, region.base + region.length - page)

\* The pageIn methods that do not panic.  (The pages of the other regions
\* are all mapped.)
MayPageIn(region, page) ==
  \/ region.kind = "zero"
  \/ /\ region.kind = "pool"
     /\ \E range \in owned : Pool!Holds(range, page - region.base)

PageIn(region, page) == MapAnonPages(hat, page, 1)

\* AddressSpace@pageFault for a page that is not present.
PageFault(page, write) ==
  /\ Running /\ phase = "ready"
  /\ Frame(hat, page) = None
  /\ \E region \in RegionsAt(page) :
       /\ write => region.writable
       /\ MayPageIn(region, page)
       /\ hat' = PageIn(region, page)
  /\ UNCHANGED <<regions, owned, kernelEnd, phase>>

\* "cannot find region", a write to a read only page, or "not in allocated
\* pool range".
PageFaultPanics(page, write) ==
  /\ Running /\ phase = "ready"
  /\ Frame(hat, page) = None
  /\ \A region \in RegionsAt(page) :
       (write /\ ~region.writable) \/ ~MayPageIn(region, page)
  /\ hat' = Panic(hat)
  /\ UNCHANGED <<regions, owned, kernelEnd, phase>>

-----------------------------------------------------------------------------

Next ==
  \/ \E section \in Sections : LoadSection(section)
  \/ StartKernel
  \/ InitPfd
  \/ InitPool \/ InitDma \/ InitFramebuffer
  \/ \E pages \in 1 .. PoolPages, writable \in BOOLEAN : NewRegion(pages, writable)
  \/ \E first \in 0 .. PoolPages - 1, pages \in 1 .. PoolPages : AllocRange(first, pages)
  \/ \E page \in Beyond, write \in BOOLEAN :
       PageFault(page, write) \/ PageFaultPanics(page, write)

Spec == Init /\ [][Next]_vars

-----------------------------------------------------------------------------

Frames == 0 .. TopFrame - 1

(***************************************************************************)
(* The list of segments is ordered and no two segments overlap: what       *)
(* stand_getNextFreeVirtual takes for granted ("assumes that the segment   *)
(* list is ordered by address"), after the reservations made inside the    *)
(* functions that map pages.                                               *)
(***************************************************************************)
SegmentsOrdered ==
  \A i \in 1 .. Len(hat.map) - 1 :
    hat.map[i].base + hat.map[i].length <= hat.map[i + 1].base

TypeOK ==
  /\ hat.directory \in [Directories -> Frames \cup {None}]
  /\ hat.table \in [VirtualSpace -> Frames \cup {None}]
  /\ \A i \in DOMAIN hat.map : hat.map[i].base \in VirtualSpace /\ hat.map[i].length > 0
  /\ hat.last \in Frames
  /\ IsInjective(hat.free) /\ ToSet(hat.free) \subseteq Ram
  /\ hat.used \subseteq Frames /\ hat.used \cap ToSet(hat.free) = {}
  /\ {hat.fromPfd, hat.panicked} \subseteq BOOLEAN
  /\ \A r \in regions : r.kind \in {"pool", "dma", "device", "zero"}
  /\ phase \in {"loader", "kernel", "pfd", "pool", "dma", "ready"}
  /\ SegmentsOrdered

Mapped == {page \in Beyond : Frame(hat, page) # None}

(***************************************************************************)
(* Every page that is present is reserved, the pages of page tables        *)
(* included: mm_initPfd finds the frames in use by way of the reserved     *)
(* segments only (BUGS: "not all the physical memory is inserted in        *)
(* libstand virtual segments").                                            *)
(***************************************************************************)
MappedPagesReserved == Mapped \subseteq ReservedPages(hat)

DmaFrames == DmaFrame .. DmaFrame + DmaPages - 1

(***************************************************************************)
(* No page, and no page table, shares its frame with another, whichever of *)
(* the two allocators served them; the frames of the DMA pool excepted.    *)
(***************************************************************************)
OneOwnerPerFrame ==
  \A page, other \in Mapped :
    (page # other /\ Frame(hat, page) = Frame(hat, other)) =>
       Frame(hat, page) \in DmaFrames

(***************************************************************************)
(* A frame in the free list is under no page and is no page table; the     *)
(* frames of the DMA pool excepted.                                        *)
(***************************************************************************)
FreeFramesUnmapped ==
  FramesOf(hat, Mapped) \cap ToSet(hat.free) \subseteq DmaFrames

(***************************************************************************)
(* Regions are disjoint, from each other and from everything the loader    *)
(* and the page tables occupy: each is one segment.                        *)
(***************************************************************************)
RegionsApart ==
  /\ \A r, q \in regions : r # q => PagesOf({r}) \cap PagesOf({q}) = {}
  /\ \A r \in regions : Segment(r.base, r.length) \in ToSet(hat.map)

\* A page never loses its frame or gets another.
MappingsStable ==
  [][\A page \in Mapped : Frame(hat', page) = Frame(hat, page)]_vars

-----------------------------------------------------------------------------
(***************************************************************************)
(* A machine and a kernel that suit each other, the hypotheses of          *)
(* MemoryProofs.  The kernel's image ends at imageEnd; it and the regions, *)
(* of at most largest pages each, fit between the identity mapping and the *)
(* boot context; there is RAM for the loader, which takes two frames for a *)
(* page at most; and the frame buffer is not RAM and not below the loader. *)
(***************************************************************************)
VgaFrames == VgaFrame .. VgaFrame + VgaPages - 1

LoadedPages(imageEnd) == imageEnd - KernelBase + StackPages + ContextPages + PfdPages

LoaderFrames(imageEnd) == TopFrame - 4 - 2 * LoadedPages(imageEnd) .. TopFrame - 1

SufficesFor(imageEnd, largest) ==
  /\ KernelBase \in Nat /\ TablePages <= KernelBase /\ KernelBase <= imageEnd
  /\ \A s \in Sections : s \in [base : Int, length : Int] /\ s.base + s.length <= imageEnd
  /\ {PfdPages, PoolPages, DmaPages, VgaPages, VgaRequest} \subseteq 0 .. largest
  /\ MaxRegions >= 3 /\ imageEnd + PfdPages + MaxRegions * largest < ContextBase
  /\ MaxSegments >= 2
  /\ TopFrame \in Nat /\ 2 * LoadedPages(imageEnd) + 4 <= TopFrame /\ TablePages <= TopFrame
  /\ {VgaFrame, DmaFrame} \subseteq Int /\ VgaFrames \cup DmaFrames \subseteq Frames
  /\ VgaFrames \cap (Ram \cup LoaderFrames(imageEnd) \cup DmaFrames) = {}

\* The sections of a linked kernel follow each other without holes.
SectionsAdjoin ==
  kernelEnd' # kernelEnd =>
    \E section \in Sections : section.base = kernelEnd /\ LoadSection(section)
=============================================================================
