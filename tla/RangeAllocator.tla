--------------------------- MODULE RangeAllocator ---------------------------
(***************************************************************************)
(* What a pool promises to the code that allocates memory from it, without *)
(* slots, lists or trees: a set of owned page ranges that never overlap.   *)
(*                                                                         *)
(* src/src/include/mm/pool.ho: "A pool is a region of memory witch can     *)
(* reserve ranges of memory inside itself."                                *)
(*                                                                         *)
(* Addresses are page numbers relative to the start of the pool.           *)
(***************************************************************************)
EXTENDS Integers

CONSTANT PoolPages   \* pages of the pool, its own metadata page included

VARIABLE owned       \* the ranges [start, length] handed out

-----------------------------------------------------------------------------

Range(start, length) == [start |-> start, length |-> length]

\* The first page of the pool holds the allocator's metadata.
MetadataRange == Range(0, 1)

Holds(range, page) ==
  range.start <= page /\ page < range.start + range.length

Apart(r, q) ==
  \/ r.start + r.length <= q.start
  \/ q.start + q.length <= r.start

InsidePool(range) ==
  /\ range.start >= 0
  /\ range.length > 0
  /\ range.start + range.length <= PoolPages

-----------------------------------------------------------------------------

Init == owned = {MetadataRange}

\* Any range that lies in the pool and is apart from every owned one may be
\* handed out: the policy (first fit) is the implementation's.
AllocAt(start, length) ==
  /\ InsidePool(Range(start, length))
  /\ \A r \in owned : Apart(r, Range(start, length))
  /\ owned' = owned \cup {Range(start, length)}

Alloc == \E start \in 0 .. PoolPages - 1, length \in 1 .. PoolPages :
           AllocAt(start, length)

\* The owner gives a range back through any address inside it; the metadata
\* page is never given back.
Free ==
  \E r \in owned \ {MetadataRange} : owned' = owned \ {r}

Next == Alloc \/ Free

Spec == Init /\ [][Next]_owned

-----------------------------------------------------------------------------

(***************************************************************************)
(* No page belongs to two owners, no range leaves the pool, and the        *)
(* allocator's own page is never handed to anybody else.                   *)
(***************************************************************************)
Exclusive ==
  /\ MetadataRange \in owned
  /\ \A r \in owned : InsidePool(r)
  /\ \A r, q \in owned : r # q => Apart(r, q)
=============================================================================
