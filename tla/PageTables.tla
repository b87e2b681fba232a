----------------------------- MODULE PageTables -----------------------------
(***************************************************************************)
(* The page tables and the two allocators of page frames:                  *)
(* src/src/arch/i386/lib/hat/{initial_paging,hat,page_allocator}.c and     *)
(* mm_allocPhysicalPage of src/src/kernel/mm/pfd.c.                        *)
(*                                                                         *)
(* A call is a function on hat, the record of what they change:            *)
(*   map        reserved virtual memory (VirtualMap)                       *)
(*   directory  page directory: the frame of each page table, or None      *)
(*   table      page tables: the frame of each page, or None               *)
(*   last       last_page, the loader's allocator: frames are taken        *)
(*              downwards from there                                       *)
(*   fromPfd    hat_initial_get_next_physical_page is mm_allocPhysicalPage *)
(*   free       free_list of the page frame database                       *)
(*   used       used_list, a set                                           *)
(*   panicked                                                              *)
(*                                                                         *)
(* A new page table is taken to be empty: the code clears it with          *)
(* memset(table, PAGE_SIZE, 0), which writes nothing.                      *)
(***************************************************************************)
EXTENDS VirtualMap

CONSTANTS
  TablePages     \* pages a page table maps (1024)

ASSUME PageTablesAssumption ==
  /\ TablePages \in Nat \ {0} /\ VirtualPages \in Nat \ {0}
  /\ VirtualPages % TablePages = 0
  /\ VirtualPages \div TablePages <= TablePages
  /\ MaxSegments \in Nat

None == -1

Directories == 0 .. VirtualPages \div TablePages - 1
VirtualSpace == 0 .. VirtualPages - 1

\* The last directory entry points to the directory itself, so that the
\* tables appear as the pages of the last TablePages pages of virtual space.
HyperDirectory == VirtualPages \div TablePages - 1
HYPERSPACE == HyperDirectory * TablePages

PageDirIndex(page) == page \div TablePages
TablePage(dir) == HYPERSPACE + dir

\* hat_virtualToPhysical, None where hat_isPresent is false.
Frame(hat, page) ==
  IF PageDirIndex(page) = HyperDirectory
    THEN IF page - HYPERSPACE \in Directories
           THEN hat.directory[page - HYPERSPACE] ELSE None
  ELSE IF hat.directory[PageDirIndex(page)] = None THEN None
  ELSE hat.table[page]

Panic(hat) == [hat EXCEPT !.panicked = TRUE]

Reserve(hat, base, length) ==
  IF hat.panicked \/ CannotReserve(hat.map, base) THEN Panic(hat)
  ELSE [hat EXCEPT !.map = SortedInsert(@, Segment(base, length))]

\* get_next_physical_page and mm_allocPhysicalPage: the frame they return,
\* and what is left.  "EMPTY FREE LIST" is a panic.
NextFrame(hat) == IF hat.fromPfd THEN Head(hat.free) ELSE hat.last - 1

NoFrame(hat) == hat.fromPfd /\ hat.free = <<>>

\* Mutant: the frame stays in the free list.
TakeFrameStaysFree(hat) ==
  IF hat.fromPfd THEN [hat EXCEPT !.used = @ \cup {Head(hat.free)}]
  ELSE [hat EXCEPT !.last = @ - 1]

TakeFrame(hat) ==
  IF hat.fromPfd
    THEN [hat EXCEPT !.free = Tail(@), !.used = @ \cup {Head(hat.free)}]
    ELSE [hat EXCEPT !.last = @ - 1]

\* The code looks at the frame number only: a table in frame 0 is not seen.
HasTable(hat, page) == hat.directory[PageDirIndex(page)] \notin {None, 0}

\* Mutant: the page of a new table is not reserved.
WithTableUnreserved(hat, page) ==
  LET dir == PageDirIndex(page)
  IN IF hat.panicked \/ HasTable(hat, page) THEN hat
     ELSE IF NoFrame(hat) THEN Panic(hat)
     ELSE [TakeFrame(hat) EXCEPT !.directory[dir] = NextFrame(hat)]

(***************************************************************************)
(* The start of the loops of hat_initialMapAnonPages and                   *)
(* hat_initialMapPages: a page table for the page, if there is none, which *)
(* takes a frame and reserves the page it appears at.                      *)
(***************************************************************************)
WithTable(hat, page) ==
  LET dir == PageDirIndex(page)
  IN IF hat.panicked \/ HasTable(hat, page) THEN hat
     ELSE IF NoFrame(hat) THEN Panic(hat)
     ELSE LET h == Reserve(TakeFrame(hat), TablePage(dir), 1)
          IN IF h.panicked THEN h
             ELSE [h EXCEPT !.directory[dir] = NextFrame(hat)]

MapAnonPage(hat, page) ==
  LET h == WithTable(hat, page)
  IN IF h.panicked THEN h
     ELSE IF NoFrame(h) THEN Panic(h)
     ELSE [TakeFrame(h) EXCEPT !.table[page] = NextFrame(h)]

\* "reserve if not already reserved", when the first tested pages are free.
ReservedIfFree(hat, base, tested, length) ==
  LET free == NextFree(hat.map, base, tested)
  IN IF free = WrapsAround THEN Panic(hat)
     ELSE IF free = base THEN Reserve(hat, base, length)
     ELSE hat

\* hat_initialMapAnonPages: the range is reserved if it is found free.
MapAnonPages(hat, base, length) ==
  LET after[n \in 0 .. length] ==
        IF n = 0 THEN ReservedIfFree(hat, base, length, length)
        ELSE MapAnonPage(after[n - 1], base + n - 1)
  IN after[length]

MapPage(hat, page, frame) ==
  LET h == WithTable(hat, page)
  IN IF h.panicked THEN h ELSE [h EXCEPT !.table[page] = frame]

\* hat_initialMapPages: the same with given frames, reserved if the first
\* page is found free.
MapPages(hat, base, frame, length) ==
  LET after[n \in 0 .. length] ==
        IF n = 0 THEN ReservedIfFree(hat, base, 1, length)
        ELSE MapPage(after[n - 1], base + n - 1, frame + n - 1)
  IN after[length]

(***************************************************************************)
(* init_page_allocator and hat_initInitialPaging: two frames below top     *)
(* become the page directory and the table that maps the first pages to    *)
(* the frames of the same number.                                          *)
(***************************************************************************)
InitialPaging(top) ==
  LET directory == top - 3   \* last_page starts two pages below top
      identity == top - 4
      blank == [map |-> <<>>,
                directory |-> [d \in Directories |->
                                 IF d = 0 THEN identity ELSE
                                 IF d = HyperDirectory THEN directory ELSE None],
                table |-> [page \in VirtualSpace |->
                             IF page < TablePages THEN page ELSE None],
                last |-> identity, fromPfd |-> FALSE,
                free |-> <<>>, used |-> {}, panicked |-> FALSE]
  IN Reserve(Reserve(blank, TablePage(HyperDirectory), 1), TablePage(0), 1)
=============================================================================
