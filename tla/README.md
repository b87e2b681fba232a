# A verification project for acaros

acaros is a small i386 kernel written in C and in CO, C with classes translated
by its own preprocessor. A loader, started by a multiboot boot loader, maps the
kernel and calls it; the kernel builds its memory management and then sits under
a remote debugger that speaks the serial protocol of gdb. There are no
processes yet: all that runs concurrently are interrupt and exception handlers,
the program they interrupt, gdb and the serial line between them.

This directory holds TLA+ modules that model the loader, the memory management,
the debugger and CO (its preprocessor and its run time), the TLC instances that
check them, and eight modules of proofs. Paths below
are relative to the repository's `src/`; `PROJECT.json` maps every
definition to the lines it was translated from.

    tlc -config MCPool.cfg MCPool.tla       # any run of PROJECT.json
    tlapm PoolProofs.tla                    # any module of section 4

## 1. Inventory

For each component: its state, its operations, whom it talks to, what makes it
hard, and what makes it correct.

| component | code | state | modelled in |
|---|---|---|---|
| page range pool | `kernel/mm/pool.co` | slots in a metadata page; their list, counter, free list, used tree | `Pool`, `RangeAllocator` |
| AVL trees | `lib/algo/avl.c` | links and skews of caller-owned nodes | `AvlTree`, `Avl` |
| slab allocator | `kernel/mm/slab/slab.co` | caches, three lists of slabs each, a chain of free objects per slab | `SlabSizes`, `Slab` |
| debugger: stopping | `kernel/kdb/kdb.c`, `arch/i386/kernel/kdb/*.c` | current and saved context, copied registers, flags; the handlers on the stack | `Kdb` |
| debugger: packets | `kernel/kdb/{gdb,command}.c` | two state machines, checksum, argument arrays | `GdbPackets` |
| reserved virtual memory | `arch/i386/lib/stand/stand.c` | ordered list of segments, in a table of 80 | `VirtualMap` |
| page tables | `arch/i386/lib/hat/*.c` | page directory, page tables, the loader's frame pointer | `PageTables` |
| page frame database | `kernel/mm/{pfd,init}.c` | free list and used list of frames | `PageTables`, `Memory` |
| address space | `kernel/mm/{addressspace,dma}.co` | the regions of the kernel | `Memory` |
| loader | `arch/i386/loader/{main,loader,boot_context}.c` | end of what was loaded; the boot context | `Memory` (what it reserves and maps), `BootContext` (what it hands over) |
| boot images | `arch/i386/loader/{tar,multiboot}.c` | none: an archive and a memory map that were loaded with it | `BootContext` |
| machine abstraction | `arch/i386/lib/mal/*.c` | IDT, GDT, mask cache of the i8259 | `Kdb` (gates, IRQ 4) |
| coc preprocessor | `tools/coc/{filter,class,def}.c` | mode, look-ahead, receiver, class, bracket count; bodies of the classes seen | `Coc` |
| CO run time | `tools/coc/co-runtime`, `kernel/coinit.co` | class list, a list of methods per class | `CoRuntime`, `Co` |
| boot time allocator | `kernel/mm/alloc.c` | a pointer into an array | `CoRuntime` |
| gdb redirector, console, log, drivers, kconfig | | | no, see section 8 |

**Pool.** `init`, `allocRange`, `freeRange`, `pageIn`. Called by the slab
allocator (ranges) and by the page fault handler (`pageIn`); calls the trees and
the frame allocator. Hard: each slot is a union that sits in a list, in another
list, or in a tree; a counter is kept next to a list and trusted instead of it.
Correct when no two owners share a page, no page is lost, the metadata page is
never handed out, and an out-of-memory panic means what it says.

**AVL trees.** `avl_add`, `avl_delete`, `avl_find`, `avl_traverse`. Used by
regions, slots and slabs. Hard: rotations whose wrong skew shows many insertions
later. Correct when a tree holds exactly its members, in order, balanced, and
finds them.

**Slabs.** `slab_createCache`, `slab_alloc`, `slab_malloc`, `slab_init`. Takes
ranges from a pool, describes caches by objects of a cache. Hard: index
arithmetic at the edge of a page, a chain ended by one marker, a cache that must
work while it is being made. Correct when an object is handed out once, lies
inside its slab, and is constructed before it is used.

**Debugger: stopping.** `kdb_softIsr` (int3), `kdb_hardIsr` (trace),
`kdb_i16550A_isr` (serial), `kdb_suspend`, `kdb_resume`, `kdb_service`, the
callbacks of commands. Hard: it has no thread. A handler spins with interrupts
enabled and the next character runs another handler on top of it, which works on
the globals of the first. Correct when everything on the stack is returned to
with its own registers, no instruction is lost, gdb and the kernel never wait
for each other, and a detached kernel runs.

**Debugger: packets.** `kdb_receive` and the state functions. Hard: the line
loses and garbles characters; state survives from one packet to the next.
Correct when a packet executes the command it carries, and any noise is
recovered from.

**Reserved memory, page tables, frames, address space, loader.**
`stand_reserveVirtualRange`, `stand_getNextFreeVirtual`;
`hat_initialMapAnonPages`, `hat_initialMapPages`; `get_next_physical_page`,
`mm_allocPhysicalPage`; `mm_initPfd`; `AddressSpace@add`, `@pageFault`, the
regions' `init` and `pageIn`; `load_elf`, `createInitStack`. These call each
other in a circle: mapping a page may need a page table, which takes a frame and
reserves a page of virtual memory, while the caller is in the middle of
reserving memory; the frame database is built from what was reserved, and takes
over from the loader's frame allocator. Correct when no frame has two owners,
no page loses its frame, regions never overlap, and nothing that is in use is
listed as free.

**Boot context.** `fill_modules`, `fill_memory_map`, `virtual_boot_context`. The
loader has no allocator, so the size of everything the kernel will need of it
is added up first, that many pages are reserved below the stack, and the pieces
are copied one behind the other. Correct when what is copied fits what was
added up.

**coc and the CO run time.** `coc_filter` turns each file of CO into C, one
character after the other, with what it has collected in static variables. The
records of classes and methods it writes are joined by the linker in the order
of the files, every file that includes a header repeating those of its classes.
`co_init` makes the class tables of them, finding classes by name; `invoke`,
`invokeSuper` and `Class@new` search them. Hard: four programs (coc, compiler,
linker, `co_init`) must agree on names, member layout and super classes without
seeing each other's data. Correct when the C means what the CO said, a method
finds the members of its class in any object it runs on, a send reaches the
nearest method, and the search ends.

**Interactions.**

    gdb --line--> GdbPackets (characters -> commands) --> Kdb (commands -> frames, program)
    Slab --ranges--> Pool (RangeAllocator) --frames--> PageTables <-- Memory (regions, faults)
    Pool, Slab, regions --> Avl              PageTables, Memory, BootContext --> VirtualMap
    Coc --C with records--> compiler, linker --sections--> Co (co_init, sends) --> CoRuntime

What is *not* hard here: nothing is persisted, so there is no crash recovery,
and the kernel has one processor and no threads, so the memory code runs
without interleavings; page faults are its only asynchronous input.

## 2. Modules

`Pool` is the code of `pool.co` over slots, with addresses in pages. The tree of
used slots is the set of slots in it (its searches are by range and ranges never
overlap, which is itself checked); it does not have what `avl_delete` does wrong
(section 6), and is what `freeRange` would be with a right one. An action is a whole method; `panic()` stops
the machine, and is an action that sets `panicked`. `RangeAllocator` says what
the pool promises: a set of ranges that are apart. `Pool` implements it with
`owned <- OwnedRanges`.

`AvlTree` has the functions of `avl.c` on a heap of nodes, with pointers to
pointers as *cells* (the root, a left or a right member). The functions of the code
that call themselves are recursive functions of a cell, which give the new heap and
whether the answer was `AVL_BALANCE`: from `_avl_add`, that a subtree grew; from
`_avl_delete`, that it shrank, as its callers read it. A null pointer followed clears `heap.ok`. `Avl` is the state
machine of clients. No module has a RECURSIVE declaration.

`SlabSizes` is the arithmetic (objects per slab, page order, size cache of a
request) with the loops as recursive functions; that the largest slab has room
for an object of each size is an assumption of it. `Slab` is the allocator over it:
a cache has the object size and the flags it was created with, a slab is named
by the first page of its range, and gets that range from
`RangeAllocator!AllocAt` of the pool its flags ask for, the ordinary or the DMA
one, so any placement that pool may choose is tried.

`Kdb` has the processor's stack as a sequence of handlers. Level *n* has a trap
frame "at address *n*"; a frame holds an image of registers that says of which
level, and of which *stint* of the program, it is. Writing through a context
that has returned writes dead memory. The parts of handlers that run with
interrupts disabled are one step; where interrupts are enabled (the spin, the
polling loop) each look at shared state is a step of its own. Characters are
whole packets here. `kdb_suspended`, `kdb_attached`, `kdb_currentContext`,
`kdb_registers` and `savedContext` are the code's variables. IRQ 4 is requested,
taken and acknowledged as the 16550A and the i8259 do it. gdb is external:
attach, commands to a stopped target, `^C` to a running one, its one breakpoint
(one byte), retransmission of what is not answered. At the bound on nested handlers
an interrupt stays requested; where the session says that interrupts are prompt,
nothing is executed before it, so the bound cuts such a behaviour off and does
not make it a late interrupt.

`GdbPackets` takes the same packets character by character: `kdb_junk_process`
to `kdb_checksum2_process` and `kdb_command_process`, `kdb_arguments_process`,
`kdb_command_reset`. The variables are those of the two files; a state function
is an action on them. One write is behind an array (section 7), so what follows it
is a choice.

`VirtualMap`, `PageTables` and `Memory` are one system. The first two are
operators on a record of what the calls change (segments, directory, tables,
frame lists), so that a call made in the middle of another acts on what that one
has done so far. `Memory` has the actions: one per program header loaded, one per
initialisation, then clients that create regions, take ranges of the pool, and
touch pages.

`BootContext` has one action per round of the loader's loops (a file of the
archive, a reservation, a module or tag copied). Strings and files are their
lengths; an address in the copy is an offset from its start, so that the sizes
of the structs are those of the i386 build.

`Coc` is the filter: a state function per mode (`BodyProcess`, `EscapeProcess`,
`ClassProcess`, ... and the `..._change` functions) on a record of its static
variables. It reads tokens; a word is one token, for no mode treats the
characters of a word differently. What it writes is a sequence of pieces, each
`fprintf` one piece with the names it prints. `CoRuntime` has the functions of
`co-runtime.co` and the three loops of `co_init` on a record of class tables.
`Co` puts them together: files are chosen from `Sources`, filtered token by
token, compiled (external: structs, records and the sends of each function are
read back from the *translated* text, so a wrong translation is run as it is),
linked in any order, and run, with a stack of active methods. A class record is
defined `weak`; that merges the names and not the bytes of the section, so
`co_init` meets a record per file. `TranslatedFaithfully` compares the translation of
each file with the meaning of its declarations, and what is linked with the classes,
methods, sends and structs that the files declare (`Compiled`).

The MC modules give the constants. A definition commented *Mutant* is the
one that follows it with a plausible mistake; each property of a passing run
is refuted by one (listed in `PROJECT.json`), which shows that the instance is
large enough for the property to fail.

## 3. Runs

Deadlock is checked except where the comment in the `.cfg` says why the system
may stop (a panic, gdb with nothing more to say, a tree that is full).

| run | question | result |
|---|---|---|
| `MCPool` | Does the pool, under any history of calls, keep its ranges apart and implement `RangeAllocator`? | yes |
| `MCAvl` | Is the tree right after any insertions, and deletions from trees of at most three nodes? | yes |
| `MCAvlDelete` | And after deletions from trees of four? | **no** |
| `MCSlab` | Is every object handed out once, in the memory of its slab and of the pool its cache asks for, by lists and chains that agree; do header, indices and objects fit; is every request served by a cache that is large enough? | yes |
| `MCKdb` | Do breakpoints and steps leave every frame and instruction right, whatever nests; does the line stay alive, a continue take effect, a detached target run? | yes |
| `MCKdbLostAck` | And if the acknowledgement of a *continue* is lost? | **no** |
| `MCGdbPackets` | Does a packet execute what it carries, and does noise end? | yes |
| `MCGdbFirstPacket` | Does `assert(kdb_currentCommand)` hold on a reliable line? | **no** |
| `MCGdbRetransmission` | Does a packet sent again after a refusal execute what it carries? | **no** |
| `MCMemory` | From the loader to page faults: one owner per frame, nothing used is free, regions apart, mappings stable? | yes |
| `MCBootContext` | Does the copy of the boot context stay in the pages reserved for it? | **no** |
| `MCCo` | Does CO mean what it says, from the text of a program through coc, the linker and `co_init` to its last send? | yes |

### Bounds, and why they are enough

* `MCPool`: 5 pages, 7 slots, requests up to 3 pages. Slots run out, and so
  does memory; ranges are carved to the end, released, and refilled exactly,
  which is when a slot goes back to its list and the counter is left behind. The
  proofs remove the bounds.
* `MCAvl`: all insertion orders of seven keys, a full tree of height three:
  every case of the rotations happens at the root and below it. Deletions from
  trees of up to three nodes, which is as far as the code is right.
* `MCSlab`: pages of 44 bytes and a header of 8, so that slabs of a few objects and of one or of two
  pages occur; an ordinary pool of seven pages and a DMA pool of three. Slabs
  fill, are replaced, and both pools run out; the caches the allocator makes for
  itself and those of its clients share the pool. The assumptions of the theorems
  are also evaluated with the constants of the i386 build (`BuildAssumption`).
* `MCKdb`: two sessions. In one the program meets two traps, and gdb continues,
  steps, inserts and removes a breakpoint; in the other gdb interrupts the program
  and detaches. Nine packets and nine nested handlers: a stop, an insertion, a
  resume, a trap and another stop fit. `prompt` says that an interrupt is
  taken at once, not some instructions of the program or handler later; `lossy` whose
  acknowledgement the line may lose: losing that of a query or of a memory write
  is harmless (and checked), losing that of a continue is not (`MCKdbLostAck`).
* `MCGdbPackets`: a checksum of two digits to the base 3, two known commands and
  an unknown one, arguments that fit their array of three characters, fill it,
  and overrun it; three packets, one `^C`, one character lost or turned into any
  other. Three packets are what it takes for one command to be left in a state
  that another resumes from.
* `MCMemory`: eight page tables of eight pages, so the table that maps the tables
  is the last one, as in the code; 21 frames of RAM, too few for everything that
  is reserved, so that they run out (`EMPTY FREE LIST` and the full segment table are both reached; so is a
  page table in frame 0, and a region that crosses from one table to the next).
  RAM in two segments with the frame buffer between them, the DMA pool in low
  RAM, images of one or two sections, adjacent or with a hole of a page.
  `InstanceSuffices` evaluates on it the hypothesis of the theorems (section 4).
* `MCBootContext`: the sizes of the i386 build and an archive of one file, as the
  kernel's Makefile packs it, or of two. The file is small; the overrun does not
  depend on its size.
* `MCCo`: the run time's own file and two more, over three classes in a chain and
  the three of `co.h`. Which methods the files define is any choice out of five
  (an `init` and a `test` at two levels, one only at the bottom; sends to self, to
  super, to a method nobody has; an argument with brackets), in the three files'
  records linked in all six orders. That gives each class above the receiver a
  method or not, independently, which is what lookup and super sends tell apart.
  The array of `mm_malloc` holds the program's tables and objects or is exhausted
  while it runs. `InstanceInOrder` evaluates on these programs what the theorems ask of
  programs (section 4).

### Fairness

`Kdb!FairSpec`: the processor executes (weak fairness of the program's steps, of
the handlers, of a requested interrupt), and gdb reads what it is sent and
repeats what is not answered, as its timeout does. gdb need not give any command
and the program need not meet a breakpoint. Weak fairness is enough: handlers
are on a stack, so the one on top stays enabled until it moves.

`GdbPackets!FairSpec`: characters sent are delivered or lost (the interrupt
handler runs), gdb reads its input and has a timeout. Noise is bounded, so it
ends: without that nothing gets through any line.

`Co!FairSpec`: once it is built, the program runs (weak fairness of `co_init` and
of the steps of the main function: one processor, nothing beside it). Writing,
translating and linking a program need not happen.

The other modules need none: their properties are safety properties, and a
client of an allocator need not call.

## 4. What is proved

TLC checked every invariant below, the inductive ones included, on its run before
it was proved (that of `Avl`, which says that there *are* two functions on the nodes,
by a version that computes them). Each theorem holds for every value of the constants that meets the
`ASSUME` of its module; TLC evaluates these on the runs, and they are the only
assumptions, but for what those of `AvlProofs` ask of the clients, six of
`KdbProofs` of the sessions, those of `MemoryProofs` of the machine and the image, and
those of `CoProofs` of the programs and their translation.

### Pool (`PoolProofs`)

For every size of pool, number of slots and request (`PoolAssumption`: at least
two pages and three slots, requests of a page or more):

| theorem | statement |
|---|---|
| `PoolTyping` | `Spec => []TypeOK` |
| `PoolContainers` | every slot is in exactly the container of its type, once |
| `PoolCounterSafe` | the counter never exceeds the length of the list |
| `PoolTiling` | free and used ranges are apart, lie in the pool, cover it; slot 0 keeps the metadata page |
| `PoolHonestPanic` | the panic for an empty free list means that every page is used |
| `PoolStability` | no step moves or resizes a used range |
| `PoolRefinement` | the pool implements `RangeAllocator` |
| `ExclusiveOwnership` | `RangeAllocator!Spec` implies that no two owned ranges share a page, none leaves the pool, and the metadata page stays with the allocator |
| `PoolOwnership` | so the ranges the pool has handed out never share a page |

The argument. None of the invariants is inductive alone. That a carved range is
apart from the others needs the slot popped from the list to be an unallocated
one, not one in use; that needs the list to be exact (`SlotsInOneContainer`) and
not empty (`CounterNeverExceedsList`, since the code looks only at the counter);
that the list stays exact when a free slot is given back needs the free list to
hold it once. So the inductive invariant `IInv` is their conjunction, with the
types and `EmptyPanicMeansFull`. `InitIInv` and `StepIInv` are its two halves;
`StepIInv` has a lemma per action (`CarvePreserves`, `TakeWholePreserves`,
`FreeRangePreserves`, `PanicPreserves`, ...) over four lemmas about lists without
repetitions (popping, pushing, unlinking). `EmptyPanicMeansFull` follows from
the tiling: an empty free list means no free slot, so every page is covered by a
used one. The refinement maps `Init` to `Init`, an allocation to `AllocAt` (the
new range lies inside a free one, and free ranges are apart from used ones), a
release to `Free` (no range of another slot equals it, since they are apart) and
everything else to stuttering. With `ExclusiveOwnership` this is what the clients
of a pool rely on, and `Slab` and `Memory` are built over it.

### Loops (`NatRecursion`)

The induction theorems of the library take an operator as a parameter, which the
provers here cannot instantiate. `NatRecursion` states the two facts that are needed
with sets and functions in its place: a set of natural numbers has a least
element (`NatLeast`: apply it to the set of the numbers a claim fails for), and a
recursion in which each value depends on the values below it has a solution
(`RecursionExists`). So a loop that the model has as a recursive function can be
reasoned about: the function is shown to satisfy its own equation first
(`PowerEquation`, `HighestBitEquation`, `ChecksumFacts`), then facts follow by
least counterexamples. `LoopExists` and `RangeInduction` are the same for the common
case, a loop of so many rounds in which each value is made from the one before.

### AVL trees (`AvlProofs`)

For every finite set of keys and every sequence of insertions, with the hypothesis
`NothingDeleted` (`MaxDelete = 0`): the kernel deletes nothing, for `avl_delete` has one
caller, `Pool@freeRange`, which has none. With deletions from trees of four nodes
the theorems are false (`MCAvlDelete`).

| theorem | statement |
|---|---|
| `TreesHoldTheirMembers` | `HoldsMembersInOrder`: the in-order walk is the members in increasing order, and `avl_find` finds each of them and nothing else |
| `TreesAreBalanced` | `Balanced`: the subtrees of a node differ by one level at most, and its skew says which is deeper |
| `InsertionsDoNotFault` | `NeverFaults`: where a rotation takes the child of a child there is one |

The argument. The properties walk the tree to a bounded depth, from which nothing
follows about what a rotation does in the middle of it. So `IInv` says instead that
there are two functions on the nodes, `nodes` (what hangs from a node, itself
included) and `depth`, that are right at every node (`Sound`: each is what the
children's values make it, the keys of the left subtree are smaller and those of the
right one larger, the skew tells which is deeper), with the members below the root;
a node that is not in the tree has null links and is alone. `Sound` is local: a rotation changes the
links of two or three nodes, so the values of these change and everybody else's stay
(`RotateRightFacts`, `RotateLeftFacts` and what follows them). The induction follows the code. `Grafted` is
what an insertion below a cell leaves: the same tree with one more node, deeper by
one exactly when the answer is *grown*, and everything outside of it as before.
`GrewLeft` and `GrewRight` are the situation in which `avl_grownLeft` and
`avl_grownRight` are called, with one subtree already grafted, and `GrownLeftFacts`
and `GrownRightFacts` show, by the cases of the code, that they leave a grafted tree
again. The case that makes a double rotation safe is that a subtree that grew has a
skew other than *none*, unless it is the new node itself. `AddFacts` puts them
together by induction on the depth below the cell; that the recursion of
`_avl_add` has a solution at all (`AddCalls`) needs the depths too, for the links of an
arbitrary heap could form a cycle. Then the walks: no tree is deeper than it has
nodes (`DepthBound`), so the bounded walks of the properties reach everything
(`InOrderIsWalk`, `HeightIsHeight`), and the search goes where the key is (`FindFacts`).

### Slabs (`SlabProofs`)

For all sizes of pages, headers, indices and objects, any number of size caches,
any two pools and any requests. `SizesFitSlabs` asks that the smallest size is a
power of two and that the largest slab has room for one object of each size;
`SlabAssumption` that the objects counted for `slab_cache_cache` fit its slabs. The
build meets both.

| theorem | statement |
|---|---|
| `ServedRequests` | what the shift loop of `slab_malloc` computes: a request is served exactly when it is above half the smallest cache and not above the largest, by the least power of two that holds it |
| `SlabTypes` | `TypeOK`; slabs are put where their pool has room |
| `SlabsInTheirLists` | each slab is in one list of its cache, once, the one its use calls for |
| `NoObjectTwiceNoneLost` | the chain of a slab reaches exactly the objects that are not out, and `inuse` counts the others |
| `MemoryHandedOutApart` | no two objects share a byte, of whatever slabs; each is inside its slab, in the kind of memory asked for |
| `SlabsHoldTheirObjects` | the objects of a slab fit its pages, there is one at least, and no further one would fit |
| `EveryRequestHasItsCache` | after `slab_init` a request that is served has its cache |

The argument. `ChainIsTheRest` speaks of everything the chain *reaches* and is not
inductive in a form the provers can use. But nothing is ever freed, so the code
keeps something much simpler true: the objects handed out are the first `inuse`
ones, and the header is `HeaderAfter` so many allocations (`free` is the
next index, or the end; the bufctls of what is left still lead from one to the
next). `SlabsAreInOrder` says this and that each slab lies in a range its pool
handed out, slabs in different ones; `ListsAreInOrder` is the discipline of the
lists, and says that `slabs_free` is empty between calls: `slab_alloc` puts a new
slab there and takes it out at once, so the second branch of `SlabAlloc` is
never taken. `DescriptorsAreInOrder` ties each cache made to an object of
`slab_cache_cache` of its own. Their conjunction is `IInv`. A step takes one object
out of the head of a list or out of a fresh slab (`SlabAllocFrom`, with one lemma
per conjunct); `NewSlabIsNew` needs that the ranges of each of the two pools are apart.
`ChainFacts` then shows that such a chain reaches what is left: every set that is
closed under it holds these indices (a least one that it lacks would be the
successor of one it has). `MemoryApart` needs, besides, multiplication: an object ends
where the next begins, the last one inside its slab, the slab inside its range.

### Packets (`GdbPacketsProofs`)

For every alphabet, base of the checksum, set of packets and size of the arrays;
`GdbPacketsAssumption` asks of `fromhex` only that it gives the digits their values.
`CTRL-C`, `$` and `#` are not in packets.

| theorem | statement |
|---|---|
| `PacketsTypes` | with any noise: no index leaves its array, and an assertion can fail only before the first command was executed |
| `ExecutesThePackets` | on a reliable line a packet executes its command with its arguments, when they fit |
| `ServesAReliableLine` | on a reliable line no packet is refused or left without an answer, and every `^C` is served |

The argument. Both properties of the reliable line are about the moment a packet
ends. Between, both machines must be where the characters so far have led them,
which is `InStep(n)`, a disjunct per state: after *n* characters of the frame the
outer machine is in its state, `checksum` is that of the prefix read, and the
inner machine holds the command and the prefix of its arguments (`Parsed`), as
far as it fits. `Waiting`, with the inner machine reset and `kdb_currentCommand` at the
unknown command or null, is what a packet starts from and what it ends with; a
refused packet does not end with it, which is the finding of
`MCGdbRetransmission`. `OnReliableLine` joins this with what gdb has still to
send; it is claimed while `noise = 0`, which no step restores, and `IInv` adds the
types. `PacketArrives` has a case per disjunct, `CommandReads` one more character of
a command, `OneMoreArgument` the array. That the checksum has two digits, and
that the high one is the quotient, is `Digital`.

### Stopping and resuming (`KdbProofs`)

For any number of nested handlers, packets, lost acknowledgements and traps
(`KdbAssumption` types the constants):

| theorem | statement |
|---|---|
| `KdbTypes` | whatever gdb sends and the line loses: `TypeOK` |
| `FetchesCharacters` | likewise: while the 16550A holds a character, an interrupt is requested or a handler is about to look |
| `FramesAreKept` | a trap frame holds registers of the code its handler interrupted; the program's are those of its last stop |
| `ContextLives` | the context of a stopped machine is a handler on the stack; nothing panics |
| `InstructionsAreExecuted` | an instruction that gdb replaced is executed, not skipped like an `int3` of the kernel |
| `ProgramIsStepped` | the trace flag is set for the program only |
| `StopsAreKnown` | when the target is stopped and attached and the line quiet, gdb knows |
| `DetachedRuns` | a detached target runs, unless the program met a breakpoint of its own |

The first two hold in every session. The other six have the hypothesis
`SessionsInOrder`: each session is a `BreakpointSession` (gdb continues, steps,
plants and takes out a breakpoint; interrupts as late as they like) or an
`InterruptSession` (it interrupts, continues and detaches; an interrupt is taken
when it is requested), and only acknowledgements of packets that may be executed
twice are lost. This is about gdb and the line, not about the kernel, and is not
a convenience: TLC refutes the properties with a lost acknowledgement of a continue
(`MCKdbLostAck`), of a detach, or where a `^C` comes late and meets a breakpoint
or another handler (section 7). The sessions of `MCKdb` meet it (`SessionsAreOrderly`).

The argument. `Sound` (types, `CharactersAreFetched`) is inductive as it stands once
one says of each function of the debugger which members of its state it changes
(the `...Effect` lemmas) and that it keeps the watch on the 16550A (the
`...KeepsWatch` lemmas). The rest is one invariant, `InOrder`, since each part
needs the others:

* `FramesInPlace`: the handler at level *n* has a frame of level *n - 1*. That a
  resume keeps this needs to know whose registers `kdb_registers` holds:
* `ContextInPlace`: while the machine is stopped, `currentContext` is a handler that
  spins, `kdb_registers` are those of its frame, and at most one serial handler is
  on top of it. This last needs
* `CharactersInPlace`: only a serial handler that has not stopped the machine
  (`AtWork`) keeps IRQ 4 in service or interrupts disabled, and it has its own
  `savedContext`; so handlers do not pile up over one that will still use it.
* `TracesInPlace`: the trace flag is in the registers of an attached program only.
* `LineInPlace`: what gdb waits for and what is on the line agree with whether the
  machine is attached and stopped. There are six situations (`Underway`, `Reporting`,
  `Attaching`, `Commanded`, `Unattached`, `Detaching`); a packet that resumes meets a
  stopped machine because in no other is it on the line.
* `BytesInPlace`: where the program stands at or behind its byte, and what the byte
  is then. gdb takes a breakpoint out before it goes on from it, so the
  program is never left behind an instruction that was not executed.

`InOrderStep` has a lemma per action. The hardest is `InOrderReceive`: a serial
handler takes a packet and the command is executed, which moves all six parts; it
has a case for what stops the machine (`InOrderStopped`), what resumes it
(`InOrderResumed`) and what does neither (`InOrderServed`).

### Memory (`MemoryProofs`)

For any size of page tables and virtual space, any RAM, any image and any regions,
from the loader to page faults:

| theorem | statement |
|---|---|
| `MemoryTypes` | `TypeOK`: the list of segments is ordered and without overlaps, the two lists of frames are disjoint, tables hold frames that exist |
| `MappedIsReservedMemory` | every page that is present, those of page tables included, is reserved |
| `FramesHaveOneOwner` | no frame is under two pages, whichever allocator it came from |
| `FreeFramesAreUnmapped` | no free frame is under a page |
| `RegionsStayApart` | regions are disjoint, and each is one segment |
| `MappingsStayStable` | no step takes the frame of a page away or replaces it |

They have two hypotheses:

* `MemorySuffices`: there are an end of the image and a largest region for which
  `Memory!SufficesFor` holds. The kernel lies above the identity mapping; image, page
  frame database and `MaxRegions` regions end below the boot context; the loader has
  two frames for each page it maps (one may be a page table); the frame
  buffer is neither RAM nor among the frames the loader takes; the frames of the
  identity mapping are there. Of the build: the
  kernel is linked at 0xE0000000, the identity mapping ends at 4 MB, and between the
  kernel and the boot context are 508 MB, seven regions as large as the non paged
  pool; the frame buffer at 0xB8000 is in the hole of the BIOS, far below where the
  loader takes frames, and apart from the 512 KB at 0x10000 of the DMA pool. Nothing in
  the code checks any of this: with less memory the loader takes frames below 0,
  and it would take the frame buffer's on the way.
* `SectionsAdjoin`: each section that is loaded starts where the last one ended, the
  first one at the entry point. A linker makes such kernels. With holes of some sizes
  the properties fail (section 7).

The argument. `NextFree` overlooks a segment that lies strictly inside the request,
so it is right about some lists of segments only, and the core is what these have in
common. `MapSound(h, l, fixed)`: the list is ordered; what lies below the boot context is
one block without holes, from the entry point to *l* (`Block`); above are the loader's
two segments, as far as reserved (`fixed`), and one page for each page table. On such a list
each search of the kernel, which starts at the entry point, goes through the block
and ends at *l* (`PlacedBehindBlock`), and an insertion at *l* keeps the form
(`Inserted`, `BlockReserved`). `ReservedIsNotFree` is the reverse: the second reservation
that the mapping functions would make is not made, whatever they test. `TablesSound` says that pages are present under
tables that exist and where memory is reserved, `FramesSound` that both allocators
hand out a frame once: the loader's takes frames downwards and all that is mapped above
the identity mapping lies at or above `last_page`; the database's lists
are disjoint, and what is mapped is not free. The frames of the frame buffer are
`kept` until `mm_initFramebuffer` maps them. Their conjunction is `HatSound`, and each
call has a lemma about it (`TableMade`, `AnonPageMapped`, `PageMapped`, the loops
`AnonPagesMapped` and `PagesMapped`, `BlockMappedAnon`, `BlockMappedAt`), which also says that it
maps these pages and leaves the others (`Maps`). That `mm_initPfd` classifies the
frames rightly (`Classified`) needs that everything mapped is reserved.

`IInv` adds the regions, each a segment of the block, and `InTime`: as far as the
initialisation has come, the block is short enough and the loader has frames for what
is left to map. A step has a lemma each (`LoadSectionPreserves` to
`PageFaultPanicsPreserves`); those that add a region share `AddPreserves`. TLC has found
`IInv` to hold of a small instance of adjacent sections.

### CO (`CoProofs`)

For any number of files, classes, methods and sends, any records in any order of
linking and any size of the array of `mm_malloc`:

| theorem | statement |
|---|---|
| `TypesOfPrograms` | `TypeOK`: the filter counts parentheses in the arguments of a send only; parents are classes that there are; what runs, runs on an object or a class that there is |
| `EverySendRunsTheNearest` | a send runs the method nearest above the class of the object, a send to super that nearest above the superclass of the method that sends it, and `doesNotUnderstand` is found the same way |
| `EveryMethodFitsItsObject` | the struct a method was compiled with, in any file, begins that of the class of its object, in any file, and the object has memory for it |

They have two hypotheses:

* `ProgramsInOrder`: in each file a class follows its superclass and a method its
  class, as headers that include those of the superclasses make it; files agree on
  superclasses; a class right below `object` sends nothing to super, and nothing is sent
  to the class `Class`, which has no subclasses. Section 7 says what happens to
  some programs that are not so. TLC evaluates it on the programs of `MCCo`.
* `[]TranslatedFaithfully`: what is linked has the records, sends and structs of what was
  declared. That the filter does this, character by character, is an induction over the
  text, so it stays with TLC; the theorems are about what co_init and the run time make of
  it, where the order of records, the number of copies of each and the depth of the
  hierarchy have no bound.

The argument. A class has a descriptor for each file that includes it, and they are used
for different things: the parents are set in the one findClass finds, the class
pointers in the one the global holds, the methods are put in the first again, and
objects point to the second. So the first invariant (`Found`) is that at any time both are
the same one, the latest; a new one goes to the head of the list *and* into the global
(`FoundCreated`, `FindsTheNew`; the second and third loop keep names, `FoundStays`).
`Loading` says what the three loops have done, given the records that are still to come:
classes made for all records visited, then parents joined, then methods added, each of
them with a lemma (`LoadClass`, `LoadParent`, `LoadMethod`). At the end the tables of the
latest descriptors are those of the program, and the older ones have neither
methods nor parents (`LoadedReady`).

The search of `basicInvoke` is a walk along the parents. `WalkExists` shows that a walk
whose steps descend has a result (`RecursionExists` again; the rank of a class is its first place in
a file, `SuperclassesFirst`), `WalkStays` that it keeps to a set that is closed under its
steps, `WalksAgree` that two walks in step end in step. So the search through
descriptors ends, and at the descriptor of the class that the search through the
declarations ends at (`FinderIs`, `NearestIs`).

`IInv` joins the state of the files and of the filter (`FilesInv`: `FilterKeeps` has a
lemma per mode) with that of the kernel (`KernelInv`). While a program runs, each method on
the stack runs on an object of a class below its own and is the answer to its selector (`Called`);
what it has still to send, it may send (`MaySend`); objects have the size of their class,
variables hold objects. A call keeps all this (`CallOn`, for all four callers); `new`
keeps it because its receiver is a class, since only `Class` itself has that method above
it. Structs are prefixes of those of subclasses along the chain (`AncestorsBegin`), which gives
the third theorem. TLC has found `IInv` to hold of the programs of `MCCo`.

## 5. What is only model-checked

`BootContext`, whose run refutes it, the translation of CO (`TranslatedFaithfully`), and
`Memory` for images with a hole. Some things stay so:

* what the filter writes for a file, a recursion over its tokens and declarations;
* liveness under fairness (`ContinueTakesEffect`, `PacketsGetThrough`, `SendsReturn`);
* deletions from trees of up to three nodes. What is wrong with `avl_swap` and with the
  way back up (section 6) comes out right in trees that small only, so no invariant
  about trees in general is behind it.

## 6. Disagreements that a run shows

* **Deletion unbalances trees** (`MCAvlDelete`, `lib/algo/avl.c:135`). To delete a
  node with two children `_avl_delete` lets `avl_swap` put its predecessor in its place
  (line 190), with the children exchanged but not the skews. The run deletes 2, the
  root of 2(1, 3(-, 4)), which leans right: 1 takes its place with the skew it had as a
  leaf, so `avl_grownRight` (line 193), called because the left side shrank, finds an
  even node and marks it as leaning right where it should have rotated. What is left,
  1(-, 3(-, 4)), has subtrees of heights 0 and 2. What line 193 returns plays no part in this.
  `doc/lib.tex:91` calls the trees balanced. The only caller of `avl_delete` is
  `Pool@freeRange`, which nothing calls yet.

  `avl.c` has more that is wrong with deletions; exchanging the skews would not do. None
  of it is needed for the trace of the run, and these are told as what the operators
  of `AvlTree` give. The answer of `avl_grownRight` and `avl_grownLeft`, whether the
  subtree *grew*, is returned as whether it *shrank* (lines 193, 197, 200): deleting 4
  from 2(1, 3(-, 4)) evens out 3, which is answered as no change, and 2 keeps leaning right
  between two leaves. `avl_swap` stores nothing in the predecessor's own cell: deleting
  3 from 3(1(-, 2), 4) leaves 1 and 2 each below the other, the search for 3 goes on along
  them and follows a null pointer. The rotations have no case for a child that is even, which
  never occurs in an insertion: deleting 1 from 2(1, 4(3, 5)) rotates twice and marks 4,
  above 5 alone, as even.
* **A repeated continue writes into a running kernel** (`MCKdbLostAck`,
  `kernel/kdb/gdb.c:67`). gdb repeats a packet whose `+` was lost, and the second
  continue runs `kdb_resume` again: the registers of the last stop are written to
  an old or dead frame. `doc/kernel.tex:64-65` says the kernel goes on "as nothing
  happens".
* **An unknown first packet fails an assertion** (`MCGdbFirstPacket`,
  `kernel/kdb/command.c:52`). `kdb_currentCommand` is null until a command has been
  executed; gdb's first packet today is `qSupported`, which is not in the table.
* **A refused packet spoils its retransmission** (`MCGdbRetransmission`,
  `kernel/kdb/gdb.c:82`). The checksum is wrong, `-` is sent, the outer machine
  goes back, the inner one (`kdb_commandState`) does not: the packet sent again is
  appended to the arguments of the refused one, and since its checksum is right
  the refused *command* is executed.
* **The copy of the boot context runs over its pages** (`MCBootContext`,
  `arch/i386/loader/boot_context.c:82`). Behind the data of a module the copy goes
  on at `last += size`, with the size of the whole copy in place of the length of
  the module. The tables that follow are written behind the pages that line 37
  says were computed for them, into the initial stack (below whose top, 2 KB above
  its bottom, the kernel starts) and, when rounding to pages leaves little room,
  over the page tables. One module, as the Makefile packs, is enough. With `len` in
  that line there is still an overrun for some lengths: the tag "stand boot
  context" is copied and was not counted, as it is reserved after the count.

## 7. Other things met while modelling

Told here because they explain choices of the models; no run is about them.

* The pool's counter is not incremented when a slot is given back
  (`pool.co:74-80`; `pool.h:82` calls it the number of unallocated slots). It can
  only be too low, so a pool may panic with slots left; `CounterNeverExceedsList`
  is the half that holds.
* `slab_malloc` has no cache for requests of 16 bytes or fewer (17 to 32 use the
  first cache) and panics; for 2^31 and more its loop does not end
  (`slab.h:113-117` promises the closest power of two). `RequestsAreServed` says
  where it works. `slab_createCache` drops its constructor argument (`slab.h:64`).
  The tree search by address (`slab.h:106-111`) matches the first object of a slab
  only. Freeing is empty (`slab_mfree`) or undefined (`slab_free`).
* The frames of the DMA pool stay in the free list of the frame database and can
  be served a second time (`dma.co:19`, `pfd.c:93`; `BUGS:6-7` knows of it).
  `OneOwnerPerFrame` and `FreeFramesUnmapped` except exactly these frames.
* `stand_getNextFreeVirtual` does not notice a segment that lies strictly inside
  the request, and takes one that it only touches for a collision. Sections with
  holes of some sizes (a page at 20, one at 22) make it place three pages over two
  segments. Linked kernels have adjacent sections, and `MemoryProofs` shows that those
  are handled; the instance has them and one hole that is handled too.
* `stand_reserveVirtualRange` checks the size of its table after the write; the
  model stops one segment earlier.
* Page tables are cleared by `memset(table, PAGE_SIZE, 0)`, arguments exchanged,
  so not at all (`initial_paging.c:40-41,113,163`); frames are taken to be zero.
  A page table in frame 0 counts as absent.
* `AddressSpace@add` tests two addresses of a region, so it would not notice one
  that swallows another; that this does not happen is `RegionsApart`.
* `fill_modules` and `fill_memory_map` do not check that their tables (512 and 81
  entries) have room. `mm_initFramebuffer` passes bytes for pages. `load_elf`
  ignores the offset in the page; `loader.c:45-48` continues without advancing to
  the next program header.
* CO: a send in the argument of a send is copied as it stands (`filter.c:241`) and
  the C compiler refuses it. A subclass whose super class is not in the file
  inherits no members, silently; co.h and the headers put super classes first.
  A function that is not a method leaves the class of the last method current
  (`filter.c:205`), so a `super` in it would be taken for that class's.
  `invokeSuper` in a method of `Object` starts at `UnknownObject`, whose super
  class is `Object`, and finds the same method again. `co_init` takes the first
  string table for the names of sections. `mm_malloc` panics when the array is
  filled exactly. The programs of `MCCo` have none of these.
* With arguments of 128 characters the terminating zero is written behind the
  array, on the low byte of `argpos`: the command starts over, or, if the compiler
  stores `argpos` later, keeps its 128 and reads one more. `ArgumentsProcess`
  allows both.
* Outside what gdb does to a reliable target: a repeated *detach* attaches again
  and stops a kernel nobody debugs; a serial handler interrupted by another goes
  on with that one's `savedContext`; a `^C` that meets a breakpoint on its way.
  They need lost acknowledgements or packets sent without waiting.
* `kdb_writeByte` panics where `kdb.h:31` says it "ignores the write"; `P` writes
  registers that are not read back.

## 8. What is not modelled, and why

* Formatting, the console and the log; descriptor tables (bit layouts);
  page protection; the parsing of hexadecimal arguments; the memory dumps of gdb.
* The kconfig and lxdialog tools, vendored from the Linux kernel and in part
  generated by flex and bison. They are more than 20000 of the 29000 lines of
  implementation in the repository, so what is mapped is a small share of all
  lines and about a third of acaros' own.
* The gdb redirector, a relay on the host that keeps nothing between two reads;
  what a line can do to packets is in `GdbPackets`.
* ELF headers, the multiboot header and `start.S`. The sections of an image are an
  input of `Memory`.
* Drivers, which only call the initialisations in the order `Memory` has.
* Requests of no pages: `allocRange(0)` would make a used range of length 0.
* The loader's panic when the archive has no kernel, which comes before the copy of the
  boot context.
* Of coc: `main.c` (which runs cpp and the compiler), numbers in line directives,
  the sizes of its buffers, and the letters of names: it reads letters and digits only
  and would cut the name of a class or of an argument at an underscore
  (`class.c:23`, `def.c:61`); names are atomic in the model. Of the run time: `Object@respondsTo`, and the
  search for the sections in `co_init`.
* In `Kdb`: writes of registers by gdb, and memory accesses of several bytes.
* In `Memory`: the contents of frames.

## 9. Plan

Done, in this order: `RangeAllocator`, `Pool`, their proofs; `AvlTree`, `Avl`;
`SlabSizes`, `Slab`; `Kdb`; `GdbPackets`; `VirtualMap`, `PageTables`, `Memory`;
`Coc`, `CoRuntime`, `Co`; `BootContext`.

To extend the models:

1. In `PageTables`: the contents of a new page table, which is not cleared.
2. `Interrupts`: the mask cache of the i8259 and the attaching of handlers
   (`i8259.c`, `interrupt.c`), under `Kdb`'s IRQ 4.
3. In `Kdb`: register and memory writes; in `GdbPackets`: the parsing of
   arguments, as far as a wrong length matters.

To prove: nothing that these runs check and the prover can reach, but what the
filter of coc writes (`Meaning`), for which the declarations would need a form the induction can
follow.
