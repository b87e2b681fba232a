---------------------------- MODULE BootContext ----------------------------
(***************************************************************************)
(* The boot context, what the loader tells the kernel:                     *)
(*   src/src/arch/i386/loader/{boot_context,tar,multiboot}.c               *)
(*   src/src/arch/i386/lib/stand/stand.c.                                  *)
(*                                                                         *)
(* The loader fills it from the archive and the memory map it was started  *)
(* with, reserves virtual memory while it loads the kernel, and at last    *)
(* copies all of it into pages below the initial stack.  Strings and files *)
(* are their lengths in bytes; an address in the copy is an offset from    *)
(* its start.                                                              *)
(***************************************************************************)
EXTENDS VirtualMap

CONSTANTS
  BLOCKSIZE, PAGE_SIZE,
  HYPERSPACE,    \* the page behind the initial stack
  InitStackPages,
  LOADER_MAX_MODULES, LOADER_MAX_SEGMENTS,
  ContextSize, ModuleSize, PhysicalSize, VirtualSize,   \* sizeof of the structs
  Archives,      \* sequences of blocks a boot module may be
  MemoryMaps,    \* sequences of ranges [base, length, type] from the firmware
  CommandLines,  \* lengths of command lines
  Reservations,  \* [base, length, tag]: what paging, load_elf and
                 \* createInitStack reserve, in this order
  CopyTag        \* the length of "stand boot context" with its end

VARIABLES
  phase,
  archive, memoryMap, cmdline,  \* what the loader was started with
  arch,      \* fill_modules: the block it is at
  modules, segments, vsegments, \* the tables of the context
  ordered,   \* the list of vsegments in the order of their addresses
  i,         \* the loops of virtual_boot_context
  last,      \* where the copy goes on
  size, numPages,   \* the bytes and pages computed for it
  copied,    \* what was written, [at, length]
  copyOrdered       \* the list of vsegments in the copy

inputs == <<archive, memoryMap, cmdline>>
tables == <<modules, segments, vsegments, ordered>>
copy == <<i, last, size, numPages, copied, copyOrdered>>
vars == <<phase, inputs, arch, tables, copy>>

-----------------------------------------------------------------------------
\* The archive.

IsValidFile(block) == block \in DOMAIN archive /\ archive[block].magic = "ustar"

BlocksFromSize(bytes) == (bytes + BLOCKSIZE - 1) \div BLOCKSIZE

NextFile(block) == block + BlocksFromSize(archive[block].size) + 1

Init ==
  /\ phase = "modules"
  /\ archive \in Archives /\ memoryMap \in MemoryMaps /\ cmdline \in CommandLines
  /\ arch = 1
  /\ modules = <<>> /\ segments = <<>> /\ vsegments = <<>> /\ ordered = <<>>
  /\ i = 1 /\ last = 0 /\ size = 0 /\ numPages = 0
  /\ copied = {} /\ copyOrdered = <<>>

\* fill_modules, "not valid tar archive".
FillModulesPanics ==
  /\ phase = "modules" /\ modules = <<>> /\ ~IsValidFile(arch)
  /\ phase' = "panic"
  /\ UNCHANGED <<inputs, arch, tables, copy>>

\* fill_modules, one file; the table is not checked to have room.
FillModule ==
  /\ phase = "modules" /\ IsValidFile(arch)
  /\ modules' = Append(modules, [name |-> archive[arch].name, data |-> arch + 1,
                                 size |-> archive[arch].size])
  /\ arch' = NextFile(arch)
  /\ UNCHANGED <<phase, inputs, segments, vsegments, ordered, copy>>

\* fill_memory_map.
FillMemoryMap ==
  /\ phase = "modules" /\ modules # <<>> /\ ~IsValidFile(arch)
  /\ segments' = [s \in DOMAIN memoryMap |->
                    [memoryMap[s] EXCEPT !.type = IF @ = 1 THEN "RAM" ELSE "RESERVED"]]
  /\ phase' = "reserve"
  /\ UNCHANGED <<inputs, arch, modules, vsegments, ordered, copy>>

-----------------------------------------------------------------------------
\* The map of virtual memory.

\* stand_reserveVirtualRange, and the phase the loader goes on with.
ReserveRange(segment, next) ==
  IF CannotReserve(ordered, segment.base)
    THEN phase' = "panic" /\ UNCHANGED <<vsegments, ordered>>
    ELSE /\ vsegments' = Append(vsegments, segment)
         /\ ordered' = SortedInsert(ordered, segment)
         /\ phase' = next

\* hat_initInitialPaging, load_elf and createInitStack.
ReserveEarlier ==
  /\ phase = "reserve" /\ Len(vsegments) < Len(Reservations)
  /\ ReserveRange(Reservations[Len(vsegments) + 1], "reserve")
  /\ UNCHANGED <<inputs, arch, modules, segments, copy>>

-----------------------------------------------------------------------------
\* virtual_boot_context.

Sum(lengths) == FoldLeft(LAMBDA a, b : a + b, 0, lengths)

\* The bytes of the copy: the tables, every string and every file.
ComputedSize ==
  ContextSize + LOADER_MAX_MODULES * ModuleSize
  + 2 * LOADER_MAX_SEGMENTS * PhysicalSize + LOADER_MAX_SEGMENTS * VirtualSize
  + cmdline
  + Sum([m \in DOMAIN modules |-> modules[m].name + modules[m].size])
  + Sum([v \in DOMAIN vsegments |-> vsegments[v].tag])

Pages(bytes) == (bytes - 1) \div PAGE_SIZE + 1

CopyBase(pages) == HYPERSPACE - InitStackPages - pages

\* What is reserved for the copy is not among the tags that were counted.  The
\* page table it needs is the one the stack has.
ReserveCopy ==
  /\ phase = "reserve" /\ Len(vsegments) = Len(Reservations)
  /\ size' = ComputedSize /\ numPages' = Pages(size')
  /\ ReserveRange([base |-> CopyBase(numPages'), length |-> numPages',
                   tag |-> CopyTag], "context")
  /\ UNCHANGED <<inputs, arch, modules, segments, i, last, copied, copyOrdered>>

\* memcpy to offset at, one piece behind the other.
Copy(at, lengths) ==
  copied' = copied \cup
    {[at |-> at + Sum(SubSeq(lengths, 1, k - 1)), length |-> lengths[k]] :
        k \in DOMAIN lengths}

\* The context and the table of modules.
CopyContext ==
  LET pieces == <<ContextSize, LOADER_MAX_MODULES * ModuleSize>>
  IN /\ phase = "context"
     /\ Copy(last, pieces) /\ last' = last + Sum(pieces)
     /\ phase' = "copy modules"
     /\ UNCHANGED <<inputs, arch, tables, i, size, numPages, copyOrdered>>

\* The name and the data of a module; the copy goes on the total size behind
\* the start of the data.
CopyModule ==
  /\ phase = "copy modules" /\ i <= Len(modules)
  /\ Copy(last, <<modules[i].name, modules[i].size>>)
  /\ last' = last + modules[i].name + size
  /\ i' = i + 1
  /\ UNCHANGED <<phase, inputs, arch, tables, size, numPages, copyOrdered>>

\* The physical segments, the allocated ones and the virtual ones.
CopySegments ==
  LET physical == LOADER_MAX_SEGMENTS * PhysicalSize
      pieces == <<physical, physical, LOADER_MAX_SEGMENTS * VirtualSize>>
  IN /\ phase = "copy modules" /\ i > Len(modules)
     /\ Copy(last, pieces) /\ last' = last + Sum(pieces)
     /\ i' = 1
     /\ phase' = "copy tags"
     /\ UNCHANGED <<inputs, arch, tables, size, numPages, copyOrdered>>

\* The tag of a segment, which goes to its place in the list of the copy.
CopyTagOf ==
  /\ phase = "copy tags" /\ i <= Len(vsegments)
  /\ Copy(last, <<vsegments[i].tag>>) /\ last' = last + vsegments[i].tag
  /\ copyOrdered' = SortedInsert(copyOrdered, vsegments[i])
  /\ i' = i + 1
  /\ UNCHANGED <<phase, inputs, arch, tables, size, numPages>>

\* The command line, where the last tag ended; then the kernel is called.
CopyCommandLine ==
  /\ phase = "copy tags" /\ i > Len(vsegments)
  /\ Copy(last, <<cmdline>>)
  /\ phase' = "kernel"
  /\ UNCHANGED <<inputs, arch, tables, i, last, size, numPages, copyOrdered>>

VirtualBootContext ==
  \/ ReserveCopy \/ CopyContext \/ CopyModule \/ CopySegments
  \/ CopyTagOf \/ CopyCommandLine

Next ==
  \/ FillModulesPanics \/ FillModule \/ FillMemoryMap
  \/ ReserveEarlier \/ VirtualBootContext

Spec == Init /\ [][Next]_vars

-----------------------------------------------------------------------------
(***************************************************************************)
(* boot_context.c:37: "compute the size (we don't have a memory allocator  *)
(* so we need to round to a page size and allocate a fixed number of       *)
(* pages)".  What is copied stays in the pages that were reserved for it,  *)
(* and so out of the stack the kernel is about to run on and of the page   *)
(* tables above it.                                                        *)
(***************************************************************************)
CopyStaysInItsPages ==
  \A piece \in copied : piece.at + piece.length <= numPages * PAGE_SIZE
=============================================================================
