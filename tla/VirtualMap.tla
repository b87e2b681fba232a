----------------------------- MODULE VirtualMap -----------------------------
(***************************************************************************)
(* The map of reserved virtual memory of src/src/arch/i386/lib/stand/      *)
(* stand.c: a list of segments, ordered by address, that the loader        *)
(* starts and the kernel goes on using.                                    *)
(*                                                                         *)
(* Addresses are page numbers below VirtualPages; the first address after  *)
(* a segment at the top is 0, as it is with 32 bits.  A map is the         *)
(* sequence of its segments, in the order of the list.                     *)
(***************************************************************************)
EXTENDS Integers, Sequences, SequencesExt

CONSTANTS
  VirtualPages,  \* pages of the virtual space
  MaxSegments    \* the 80 of stand_reserveVirtualRange

Segment(base, length) == [base |-> base, length |-> length]

End(segment) == (segment.base + segment.length) % VirtualPages

\* Mutant: the segment goes to the end of the list.
SortedInsertLast(map, segment) == Append(map, segment)

\* stand_virtualSegmentSortedInsert: before the first that is not below it.
SortedInsert(map, segment) ==
  LET i == SelectInSeq(map, LAMBDA each : segment.base <= each.base)
  IN InsertAt(map, IF i = 0 THEN Len(map) + 1 ELSE i, segment)

\* stand_reserveVirtualRange panics.
CannotReserve(map, base) ==
  \/ \E i \in DOMAIN map : map[i].base = base
  \/ Len(map) >= MaxSegments

(***************************************************************************)
(* stand_getNextFreeVirtual, one segment: a request for pages at start     *)
(* that collides with it moves behind it.  A segment inside the request    *)
(* is not noticed; one that the request only touches is taken for a        *)
(* collision.                                                              *)
(***************************************************************************)
Collides(segment, start, pages) ==
  /\ End(segment) >= start
  /\ \/ segment.base <= start /\ start < End(segment)
     \/ LET end == (start + pages) % VirtualPages
        IN segment.base <= end /\ end < End(segment)

\* "WRAPPING AROUND": a request that is pushed to the end of the virtual
\* space panics.
WrapsAround == -1

Pass(start, segment, pages) ==
  IF start = WrapsAround \/ ~Collides(segment, start, pages) THEN start
  ELSE IF End(segment) + pages >= VirtualPages THEN WrapsAround
  ELSE End(segment)

\* The loop over the list: where the request is after the first i segments.
NextFree(map, first, pages) ==
  LET start[i \in 0 .. Len(map)] ==
        IF i = 0 THEN first ELSE Pass(start[i - 1], map[i], pages)
  IN start[Len(map)]
=============================================================================
