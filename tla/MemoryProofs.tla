---------------------------- MODULE MemoryProofs ----------------------------
(***************************************************************************)
(* Memory, for every machine and every kernel without holes that has the   *)
(* memory it asks for: everything mapped is reserved, no frame has two     *)
(* owners, no free frame is mapped, regions are apart, and no page loses   *)
(* its frame.                                                              *)
(*                                                                         *)
(* Segments overlap when NextFree does not see one inside a request.  That *)
(* this does not happen is a matter of the layout: all that the kernel     *)
(* reserves is one block without holes, from its entry point on, and each  *)
(* search starts at the entry point and ends behind the block.             *)
(***************************************************************************)
EXTENDS Memory, NatRecursion, FiniteSetTheorems, SequenceTheorems

Segments == [base : Int, length : Int]

-----------------------------------------------------------------------------
(***************************************************************************)
(* The map of reserved virtual memory.                                     *)
(***************************************************************************)

\* The address behind a segment that does not reach the end of the space.
LEMMA EndBelowTop ==
  ASSUME NEW s \in Segments, 0 <= s.base + s.length, s.base + s.length < VirtualPages,
         VirtualPages \in Nat \ {0}
  PROVE  End(s) = s.base + s.length
<1>1. \A x \in Int : 0 <= x /\ x < VirtualPages => x % VirtualPages = x OBVIOUS
<1> QED BY <1>1 DEF End, Segments

\* The address behind a segment is one of the virtual space.
LEMMA EndIsAddress ==
  ASSUME NEW s \in Segments, VirtualPages \in Nat \ {0}
  PROVE  End(s) \in VirtualSpace
<1>1. \A x \in Int : x % VirtualPages \in 0 .. VirtualPages - 1 OBVIOUS
<1> QED BY <1>1 DEF End, Segments, VirtualSpace

\* The places the search looks at, segment by segment.
IsSearch(start, map, first, pages) ==
  /\ \A i \in 0 .. Len(map) : start[i] \in Int
  /\ start[0] = first /\ NextFree(map, first, pages) = start[Len(map)]
  /\ \A i \in 0 .. Len(map) - 1 :
       i + 1 \in 1 .. Len(map) /\ start[i + 1] = Pass(start[i], map[i + 1], pages)

\* stand_getNextFreeVirtual is such a loop.
LEMMA SearchLoop ==
  ASSUME NEW map \in Seq(Segments), NEW first \in Int, NEW pages \in Int,
         VirtualPages \in Nat \ {0}
  PROVE  \E start : IsSearch(start, map, first, pages)
<1> DEFINE round == [i \in 1 .. Len(map) |-> [s \in Int |-> Pass(s, map[i], pages)]]
           Is(f) == f = [i \in 0 .. Len(map) |->
                           IF i = 0 THEN first ELSE Pass(f[i - 1], map[i], pages)]
           start == CHOOSE f : Is(f)
<1>1. ASSUME NEW i \in 1 .. Len(map), NEW s \in Int PROVE Pass(s, map[i], pages) \in Int
  <2>1. End(map[i]) \in Int BY EndIsAddress DEF VirtualSpace
  <2> QED BY <2>1 DEF Pass, WrapsAround
<1>2. round \in [1 .. Len(map) -> [Int -> Int]] BY <1>1
<1>3. PICK f : IsLoop(f, Int, Len(map), first, round)
  <2>1. Len(map) \in Nat OBVIOUS
  <2> HIDE DEF round
  <2> QED BY <1>2, <2>1, LoopExists
<1>4. ASSUME NEW i \in 1 .. Len(map) PROVE round[i][f[i - 1]] = Pass(f[i - 1], map[i], pages)
  <2>1. i - 1 \in 0 .. Len(map) OBVIOUS
  <2>2. f[i - 1] \in Int BY ONLY <1>3, <2>1 DEF IsLoop
  <2> QED BY ONLY <1>4, <2>2
<1>5. Is(f)
  <2>1. /\ f \in [0 .. Len(map) -> Int] /\ f[0] = first
        /\ \A i \in 1 .. Len(map) : f[i] = Pass(f[i - 1], map[i], pages)
    <3> HIDE DEF round
    <3> QED BY <1>3, <1>4 DEF IsLoop
  <2>2. \A i \in 0 .. Len(map) : f[i] = IF i = 0 THEN first ELSE Pass(f[i - 1], map[i], pages)
    <3>1. \A i \in 0 .. Len(map) : i = 0 \/ i \in 1 .. Len(map) OBVIOUS
    <3> QED BY <2>1, <3>1
  <2> QED BY ONLY <2>1, <2>2
<1>6. Is(start) BY <1>5
<1>7. NextFree(map, first, pages) = start[Len(map)] BY DEF NextFree
<1> HIDE DEF start
<1>8. start[0] = first BY <1>6
<1>9. \A i \in 1 .. Len(map) : start[i] = Pass(start[i - 1], map[i], pages) BY <1>6
<1>10. start \in [0 .. Len(map) -> Int]
  <2> DEFINE P == {i \in 0 .. Len(map) : start[i] \in Int}
  <2>1. 0 \in P BY <1>8
  <2>2. ASSUME NEW i \in 0 .. Len(map) - 1, i \in P PROVE i + 1 \in P
    <3>1. i \in 0 .. Len(map) /\ i + 1 \in 0 .. Len(map) /\ i + 1 \in 1 .. Len(map) /\ (i + 1) - 1 = i
      OBVIOUS
    <3>2. start[i + 1] = Pass(start[i], map[i + 1], pages) BY <1>9, <3>1
    <3> QED BY <1>1, <2>2, <3>1, <3>2
  <2> HIDE DEF P
  <2>3. 0 .. Len(map) \subseteq P BY <2>1, <2>2, RangeInduction DEF Climbs
  <2> QED BY <1>6, <2>3 DEF P
<1>11. \A i \in 0 .. Len(map) - 1 :
         i + 1 \in 1 .. Len(map) /\ start[i + 1] = Pass(start[i], map[i + 1], pages)
  <2> SUFFICES ASSUME NEW i \in 0 .. Len(map) - 1
               PROVE  i + 1 \in 1 .. Len(map) /\ start[i + 1] = Pass(start[i], map[i + 1], pages)
    OBVIOUS
  <2>1. i + 1 \in 1 .. Len(map) /\ (i + 1) - 1 = i OBVIOUS
  <2> QED BY <1>9, <2>1
<1> QED BY <1>7, <1>8, <1>10, <1>11 DEF IsSearch

Holds(segment, page) == segment.base <= page /\ page < segment.base + segment.length

\* The segments are those of the list, in the order of their addresses.
MapInOrder(map) ==
  /\ map \in Seq(Segments)
  /\ \A i \in 1 .. Len(map) :
       0 <= map[i].base /\ 1 <= map[i].length /\ map[i].base + map[i].length <= VirtualPages
  /\ \A i, j \in 1 .. Len(map) : i < j => map[i].base + map[i].length <= map[j].base

\* What the order says, with the types of the segments.
LEMMA SegmentsOfMap ==
  ASSUME NEW map, MapInOrder(map)
  PROVE  /\ map \in Seq(Segments) /\ Len(map) \in Nat
         /\ \A i \in 1 .. Len(map) :
              /\ map[i] \in Segments /\ map[i].base \in Int /\ map[i].length \in Int
              /\ 0 <= map[i].base /\ 1 <= map[i].length
              /\ map[i].base + map[i].length <= VirtualPages
         /\ \A i, j \in 1 .. Len(map) : i < j => map[i].base + map[i].length <= map[j].base
<1>1. map \in Seq(Segments) /\ Len(map) \in Nat BY DEF MapInOrder
<1>2. \A i \in 1 .. Len(map) : map[i] \in Segments BY <1>1
<1>3. \A s \in Segments : s.base \in Int /\ s.length \in Int BY DEF Segments
<1> QED BY <1>1, <1>2, <1>3 DEF MapInOrder

\* Below the boot context there is one block, from the kernel to l.
Block(map, l) ==
  /\ \A s \in ToSet(map) : \/ KernelBase <= s.base /\ s.base + s.length <= l
                           \/ ContextBase <= s.base
  /\ \A page \in KernelBase .. l - 1 : \E s \in ToSet(map) : Holds(s, page)

\* The block, in terms of the places in the list.
LEMMA BlockByIndex ==
  ASSUME NEW map \in Seq(Segments), NEW l, Block(map, l)
  PROVE  /\ \A i \in 1 .. Len(map) :
              \/ KernelBase <= map[i].base /\ map[i].base + map[i].length <= l
              \/ ContextBase <= map[i].base
         /\ \A page \in KernelBase .. l - 1 : \E i \in 1 .. Len(map) : Holds(map[i], page)
<1>1. DOMAIN map = 1 .. Len(map) OBVIOUS
<1> QED BY <1>1 DEF Block, ToSet

\* One round of the search.
LEMMA PassFacts ==
  ASSUME NEW s \in Segments, NEW start \in Nat, NEW pages \in Nat,
         0 <= s.base, 1 <= s.length, s.base + s.length <= VirtualPages,
         VirtualPages \in Nat \ {0}, start + pages < VirtualPages
  PROVE  /\ (s.base + s.length <= start \/ start + pages < s.base) => Pass(start, s, pages) = start
         /\ (Holds(s, start) /\ s.base + s.length + pages < VirtualPages) =>
              Pass(start, s, pages) = s.base + s.length
<1>1. (start + pages) % VirtualPages = start + pages
  <2>1. start + pages \in Int /\ 0 <= start + pages OBVIOUS
  <2>2. \A x \in Int : 0 <= x /\ x < VirtualPages => x % VirtualPages = x OBVIOUS
  <2> QED BY <2>1, <2>2
<1>4. s.base \in Int /\ s.length \in Int BY DEF Segments
<1>2. s.base + s.length < VirtualPages => End(s) = s.base + s.length BY <1>4, EndBelowTop
<1>3. s.base + s.length = VirtualPages => End(s) = 0
  <2>1. VirtualPages % VirtualPages = 0 OBVIOUS
  <2> QED BY <2>1 DEF End
<1>5. start # WrapsAround BY DEF WrapsAround
<1>6. ASSUME s.base + s.length <= start \/ start + pages < s.base PROVE ~Collides(s, start, pages)
  BY <1>1, <1>2, <1>3, <1>4, <1>6 DEF Collides
<1>7. ASSUME Holds(s, start), s.base + s.length + pages < VirtualPages
      PROVE  Collides(s, start, pages) /\ End(s) = s.base + s.length
  BY <1>2, <1>4, <1>7 DEF Collides, Holds
<1> QED BY <1>4, <1>5, <1>6, <1>7 DEF Pass

\* A request is placed behind the block.
LEMMA PlacedBehindBlock ==
  ASSUME NEW map, NEW l \in Nat, NEW pages \in Nat, MapInOrder(map), Block(map, l),
         KernelBase \in Nat, KernelBase <= l, l + pages < ContextBase,
         ContextBase \in Nat, ContextBase < VirtualPages, VirtualPages \in Nat \ {0}
  PROVE  NextFree(map, KernelBase, pages) = l /\ NextFree(map, l, pages) = l
<1> USE DEF Holds
<1>1. /\ map \in Seq(Segments) /\ Len(map) \in Nat
      /\ \A i \in 1 .. Len(map) :
           /\ map[i] \in Segments /\ map[i].base \in Int /\ map[i].length \in Int
           /\ 0 <= map[i].base /\ 1 <= map[i].length
           /\ map[i].base + map[i].length <= VirtualPages
      /\ \A i, j \in 1 .. Len(map) : i < j => map[i].base + map[i].length <= map[j].base
  BY SegmentsOfMap
<1>2. NextFree(map, KernelBase, pages) = l
  <2>0. PICK start : IsSearch(start, map, KernelBase, pages) BY <1>1, SearchLoop
  <2>1. /\ \A i \in 0 .. Len(map) : start[i] \in Int
        /\ start[0] = KernelBase /\ NextFree(map, KernelBase, pages) = start[Len(map)]
        /\ \A i \in 0 .. Len(map) - 1 :
             i + 1 \in 1 .. Len(map) /\ start[i + 1] = Pass(start[i], map[i + 1], pages)
    BY <2>0 DEF IsSearch
  <2> DEFINE Right(i) == /\ KernelBase <= start[i] /\ start[i] <= l
                         /\ \A j \in 1 .. i : map[j].base < ContextBase =>
                              map[j].base + map[j].length <= start[i]
                         /\ start[i] = KernelBase \/ \E j \in 1 .. i :
                              map[j].base < ContextBase /\ start[i] = map[j].base + map[j].length
             P == {i \in 0 .. Len(map) : Right(i)}
  <2>2. 0 \in P BY <1>1, <2>1
  <2>3. ASSUME NEW i \in 0 .. Len(map) - 1, Right(i) PROVE Right(i + 1)
    <3> DEFINE s == map[i + 1]
    <3>1. /\ i + 1 \in 1 .. Len(map) /\ (i + 1) - 1 = i
          /\ start[i] \in Nat /\ start[i + 1] = Pass(start[i], s, pages)
          /\ s.base \in Int /\ s.length \in Int
          /\ 0 <= s.base /\ 1 <= s.length /\ s.base + s.length <= VirtualPages
      BY <1>1, <2>1, <2>3
    <3>0. KernelBase <= start[i] /\ start[i] <= l BY <2>3
    <3>2. start[i] + pages < VirtualPages BY <3>0, <3>1
    <3>3. CASE ContextBase <= s.base
      <4>1. start[i + 1] = start[i] BY <1>1, <2>3, <3>1, <3>2, <3>3, PassFacts
      <4>2. KernelBase <= start[i + 1] /\ start[i + 1] <= l BY ONLY <3>0, <4>1
      <4>3. ASSUME NEW j \in 1 .. i + 1, map[j].base < ContextBase
            PROVE  map[j].base + map[j].length <= start[i + 1]
        <5>1. j # i + 1
          BY ONLY <3>1, <3>3, map[j].base < ContextBase, ContextBase \in Nat
        <5>2. j \in 1 .. i BY ONLY <5>1, i \in 0 .. Len(map) - 1, j \in 1 .. i + 1, <1>1
        <5> QED BY ONLY <2>3, <4>1, <4>3, <5>2
      <4>4. start[i + 1] = KernelBase \/ \E j \in 1 .. i + 1 :
              map[j].base < ContextBase /\ start[i + 1] = map[j].base + map[j].length
        <5>1. 1 .. i \subseteq 1 .. i + 1 BY ONLY i \in 0 .. Len(map) - 1, <1>1
        <5> QED BY ONLY <2>3, <4>1, <5>1
      <4> QED BY ONLY <4>2, <4>3, <4>4
    <3>4. CASE s.base < ContextBase
      <4>1. KernelBase <= s.base /\ s.base + s.length <= l BY <1>1, <3>1, <3>4, BlockByIndex
      <4>2. start[i] <= s.base
        <5>1. \A j \in 1 .. i : j \in 1 .. Len(map) /\ j < i + 1 OBVIOUS
        <5>2. \A j \in 1 .. i : map[j].base + map[j].length <= s.base BY <1>1, <3>1, <5>1
        <5> QED BY <2>3, <4>1, <5>2
      <4>3. PICK k \in 1 .. Len(map) : Holds(map[k], start[i])
        <5>1. start[i] < l BY ONLY <3>0, <3>1, <4>1, <4>2, l \in Nat
        <5>2. start[i] \in KernelBase .. l - 1 BY ONLY <3>0, <3>1, <5>1, l \in Nat, KernelBase \in Nat
        <5> QED BY <1>1, <5>2, BlockByIndex
      <4>4. map[k].base < ContextBase
        <5>1. map[k].base \in Int /\ map[k].base <= start[i] BY <1>1, <4>3
        <5>2. start[i] < ContextBase
          BY ONLY <3>0, <3>1, l \in Nat, pages \in Nat, l + pages < ContextBase, ContextBase \in Nat
        <5> QED BY ONLY <3>1, <5>1, <5>2, ContextBase \in Nat
      <4>5. ~(k <= i)
        <5>1. k <= i => k \in 1 .. i OBVIOUS
        <5>2. k <= i => map[k].base + map[k].length <= start[i] BY ONLY <2>3, <4>4, <5>1
        <5>3. /\ map[k].base \in Int /\ map[k].length \in Int
              /\ start[i] < map[k].base + map[k].length
          BY <1>1, <4>3 DEF Holds
        <5> QED BY ONLY <3>1, <5>2, <5>3
      <4>6. ~(i + 1 < k)
        <5>1. i + 1 < k => s.base + s.length <= map[k].base BY <1>1, <3>1
        <5>2. map[k].base \in Int /\ map[k].base <= start[i] BY <1>1, <4>3
        <5>3. s.base \in Int /\ s.length \in Int /\ 1 <= s.length /\ start[i] \in Int BY ONLY <3>1
        <5> HIDE DEF s
        <5> QED BY ONLY <4>2, <5>1, <5>2, <5>3
      <4>7. k = i + 1 BY <4>5, <4>6
      <4>8. Holds(s, start[i]) BY <4>3, <4>7
      <4>9. start[i + 1] = s.base + s.length
        <5>1. s.base + s.length + pages < VirtualPages
          BY ONLY <3>1, <4>1, l \in Nat, pages \in Nat, l + pages < ContextBase,
                  ContextBase \in Nat, VirtualPages \in Nat, ContextBase <= VirtualPages
        <5>2. Pass(start[i], s, pages) = s.base + s.length
          <6>1. s \in Segments /\ 0 <= s.base /\ 1 <= s.length
                /\ s.base + s.length <= VirtualPages
            BY ONLY <1>1, <3>1
          <6>2. start[i] \in Nat BY ONLY <3>1
          <6> HIDE DEF s
          <6> QED BY ONLY <3>2, <4>8, <5>1, <6>1, <6>2, pages \in Nat,
                          VirtualPages \in Nat \ {0}, PassFacts
        <5> QED BY ONLY <3>1, <5>2
      <4>10. \A j \in 1 .. i + 1 : map[j].base < ContextBase =>
               map[j].base + map[j].length <= start[i + 1]
        <5>1. \A j \in 1 .. i + 1 : j \in 1 .. i \/ j = i + 1 OBVIOUS
        <5>2. start[i] <= start[i + 1] BY <3>1, <4>2, <4>9
        <5>3. ASSUME NEW j \in 1 .. i, map[j].base < ContextBase
              PROVE  map[j].base + map[j].length <= start[i + 1]
          <6>1. j \in 1 .. Len(map) OBVIOUS
          <6>2. map[j].base \in Int /\ map[j].length \in Int BY <1>1, <6>1
          <6>3. map[j].base + map[j].length <= start[i] BY <2>3, <5>3
          <6>4. start[i + 1] \in Int BY <3>1, <4>9
          <6> QED BY ONLY <3>1, <5>2, <6>2, <6>3, <6>4
        <5>4. ASSUME NEW j \in 1 .. i + 1, map[j].base < ContextBase
              PROVE  map[j].base + map[j].length <= start[i + 1]
          <6>1. CASE j = i + 1 BY ONLY <3>1, <4>9, <6>1
          <6>2. CASE j \in 1 .. i BY ONLY <5>3, <5>4, <6>2
          <6> QED BY ONLY <5>1, <5>4, <6>1, <6>2
        <5> QED BY <5>4
      <4>11. start[i + 1] = KernelBase \/ \E j \in 1 .. i + 1 :
               map[j].base < ContextBase /\ start[i + 1] = map[j].base + map[j].length
        <5>1. i + 1 \in 1 .. i + 1 BY ONLY i \in 0 .. Len(map) - 1, <1>1
        <5> QED BY ONLY <3>4, <4>9, <5>1
      <4>12. KernelBase <= start[i + 1] /\ start[i + 1] <= l
        <5>1. KernelBase <= s.base + s.length
          BY ONLY <3>1, <4>1, KernelBase \in Nat
        <5> QED BY ONLY <4>1, <4>9, <5>1
      <4> QED BY ONLY <4>10, <4>11, <4>12
    <3> QED BY <3>1, <3>3, <3>4
  <2>4. Right(Len(map))
    <3>1. ASSUME NEW i \in 0 .. Len(map) - 1, i \in P PROVE i + 1 \in P BY <1>1, <2>3, <3>1
    <3> HIDE DEF P
    <3>2. 0 .. Len(map) \subseteq P BY <1>1, <2>2, <3>1, RangeInduction DEF Climbs
    <3> QED BY <1>1, <3>2 DEF P
  <2>5. ~(start[Len(map)] < l)
    <3> SUFFICES ASSUME start[Len(map)] < l PROVE FALSE OBVIOUS
    <3>1. start[Len(map)] \in Int BY <1>1, <2>1
    <3>2. PICK k \in 1 .. Len(map) : Holds(map[k], start[Len(map)])
      <4>1. start[Len(map)] \in KernelBase .. l - 1 BY <2>4, <3>1
      <4> QED BY <1>1, <4>1, BlockByIndex
    <3>3. map[k].base < ContextBase BY <1>1, <2>4, <3>1, <3>2
    <3> QED BY <1>1, <2>4, <3>1, <3>2, <3>3
  <2>6. start[Len(map)] \in Int BY <1>1, <2>1
  <2> QED BY <2>1, <2>4, <2>5, <2>6
<1>3. NextFree(map, l, pages) = l
  <2>3. l \in Int /\ pages \in Int OBVIOUS
  <2>0. PICK start : IsSearch(start, map, l, pages)
    BY ONLY <1>1, <2>3, VirtualPages \in Nat \ {0}, SearchLoop
  <2>1. /\ \A i \in 0 .. Len(map) : start[i] \in Int
        /\ start[0] = l /\ NextFree(map, l, pages) = start[Len(map)]
        /\ \A i \in 0 .. Len(map) - 1 :
             i + 1 \in 1 .. Len(map) /\ start[i + 1] = Pass(start[i], map[i + 1], pages)
    BY <2>0 DEF IsSearch
  <2> DEFINE P == {i \in 0 .. Len(map) : start[i] = l}
  <2>2. 0 \in P BY <1>1, <2>1
  <2>6. ASSUME NEW i \in 0 .. Len(map) - 1, start[i] = l PROVE start[i + 1] = l
    <3>1. i + 1 \in 1 .. Len(map) /\ (i + 1) - 1 = i /\ start[i + 1] = Pass(l, map[i + 1], pages)
      BY <2>1, <2>6
    <3>2. map[i + 1].base + map[i + 1].length <= l \/ l + pages < map[i + 1].base
      BY <1>1, <3>1, BlockByIndex
    <3>3. Pass(l, map[i + 1], pages) = l BY <1>1, <3>1, <3>2, PassFacts
    <3> QED BY <3>1, <3>3
  <2>4. ASSUME NEW i \in 0 .. Len(map) - 1, i \in P PROVE i + 1 \in P BY <1>1, <2>6, <2>4
  <2> HIDE DEF P
  <2>5. 0 .. Len(map) \subseteq P BY <1>1, <2>2, <2>4, RangeInduction DEF Climbs
  <2> QED BY <1>1, <2>1, <2>5 DEF P, IsSearch
<1> QED BY <1>2, <1>3

\* An address inside a segment is never found free.
LEMMA ReservedIsNotFree ==
  ASSUME NEW map, NEW page \in Nat \ {0}, NEW pages \in Nat, MapInOrder(map),
         NEW k \in 1 .. Len(map), Holds(map[k], page),
         map[k].base + map[k].length < VirtualPages, VirtualPages \in Nat \ {0}
  PROVE  NextFree(map, page, pages) # page
<1>1. /\ map \in Seq(Segments) /\ Len(map) \in Nat
      /\ \A i \in 1 .. Len(map) :
           /\ map[i] \in Segments /\ map[i].base \in Int /\ map[i].length \in Int
           /\ 0 <= map[i].base /\ 1 <= map[i].length
  BY SegmentsOfMap
<1>0. PICK start : IsSearch(start, map, page, pages) BY <1>1, SearchLoop
<1>2. /\ \A i \in 0 .. Len(map) : start[i] \in Int
      /\ start[0] = page /\ NextFree(map, page, pages) = start[Len(map)]
      /\ \A i \in 0 .. Len(map) - 1 :
           i + 1 \in 1 .. Len(map) /\ start[i + 1] = Pass(start[i], map[i + 1], pages)
  BY <1>0 DEF IsSearch
<1> DEFINE Right(i) == /\ start[i] = WrapsAround \/ start[i] >= page
                       /\ i >= k => start[i] # page
           P == {i \in 0 .. Len(map) : Right(i)}
<1>3. 0 \in P BY <1>1, <1>2
<1>4. ASSUME NEW i \in 0 .. Len(map) - 1, Right(i) PROVE Right(i + 1)
  <2> DEFINE s == map[i + 1]
  <2>1. /\ i + 1 \in 1 .. Len(map) /\ (i + 1) - 1 = i
        /\ start[i] \in Int /\ start[i + 1] = Pass(start[i], s, pages)
        /\ s \in Segments /\ End(s) \in Nat
    <3>1. i + 1 \in 1 .. Len(map) /\ (i + 1) - 1 = i BY ONLY i \in 0 .. Len(map) - 1, <1>1
    <3>2. start[i] \in Int /\ start[i + 1] = Pass(start[i], s, pages)
      <4>1. i \in 0 .. Len(map) BY ONLY i \in 0 .. Len(map) - 1, <1>1
      <4> QED BY ONLY <1>2, <4>1, i \in 0 .. Len(map) - 1
    <3>3. s \in Segments BY <1>1, <3>1
    <3>4. End(s) \in VirtualSpace BY <3>3, EndIsAddress
    <3>5. End(s) \in Nat BY <3>4 DEF VirtualSpace
    <3> QED BY <3>1, <3>2, <3>3, <3>5
  <2>2. CASE i + 1 # k
    <3>1. \/ start[i + 1] = start[i] \/ start[i + 1] = WrapsAround
          \/ start[i + 1] = End(s) /\ End(s) >= start[i]
      BY ONLY <2>1 DEF Pass, Collides
    <3>2. start[i + 1] = start[i] \/ start[i + 1] = WrapsAround \/ start[i + 1] > start[i]
      <4>1. start[i + 1] = End(s) /\ start[i + 1] # start[i] /\ End(s) >= start[i]
              => start[i + 1] > start[i]
        BY ONLY <2>1
      <4> QED BY ONLY <3>1, <4>1
    <3>3. i + 1 >= k => i >= k BY ONLY <2>1, <2>2, i \in 0 .. Len(map) - 1, k \in 1 .. Len(map), <1>1
    <3>4. start[i] # WrapsAround => start[i] >= page BY ONLY <1>4
    <3>5. CASE start[i] = WrapsAround
      <4>1. start[i + 1] = WrapsAround BY ONLY <2>1, <3>5 DEF Pass
      <4> QED BY <4>1 DEF WrapsAround
    <3>6. CASE start[i] # WrapsAround
      <4>1. CASE start[i + 1] = start[i] BY ONLY <1>4, <3>3, <4>1
      <4>2. CASE start[i + 1] = WrapsAround BY <4>2 DEF WrapsAround
      <4>3. CASE start[i + 1] > start[i]
        <5>1. start[i + 1] \in Int /\ start[i + 1] > page
          <6>1. start[i + 1] \in Int
            <7>1. WrapsAround \in Int BY DEF WrapsAround
            <7> QED BY ONLY <2>1, <3>1, <7>1
          <6> QED BY ONLY <2>1, <3>4, <3>6, <4>3, <6>1, page \in Nat \ {0}
        <5>2. start[i + 1] >= page /\ start[i + 1] # page BY ONLY <5>1, page \in Nat \ {0}
        <5> QED BY ONLY <5>2
      <4> QED BY ONLY <3>2, <4>1, <4>2, <4>3
    <3> QED BY ONLY <3>5, <3>6
  <2>3. CASE i + 1 = k
    <3>1. End(s) = s.base + s.length BY <1>1, <2>1, <2>3, EndBelowTop
    <3>2. CASE start[i] = page
      <4>1. Collides(s, page, pages) BY <1>1, <2>1, <2>3, <3>1 DEF Collides, Holds
      <4> QED BY <1>1, <2>1, <2>3, <3>1, <3>2, <4>1 DEF Pass, WrapsAround, Holds
    <3>3. CASE start[i] # page
      <4>1. start[i] = WrapsAround \/ start[i] >= page BY ONLY <1>4
      <4>2. \/ start[i + 1] = start[i] \/ start[i + 1] = WrapsAround
            \/ start[i + 1] = End(s)
        BY ONLY <2>1 DEF Pass
      <4>3. End(s) \in Int /\ End(s) > page BY <1>1, <2>3, <3>1 DEF Holds
      <4>4. page \in Nat \ {0} /\ start[i] \in Int /\ WrapsAround = -1 BY ONLY <2>1, page \in Nat \ {0} DEF WrapsAround
      <4>5. /\ start[i + 1] = WrapsAround \/ start[i + 1] >= page
            /\ start[i + 1] # page
        BY ONLY <3>3, <4>1, <4>2, <4>3, <4>4
      <4> QED BY ONLY <4>5
    <3> QED BY <3>2, <3>3
  <2> QED BY <2>2, <2>3
<1>5. Right(Len(map))
  <2>1. ASSUME NEW i \in 0 .. Len(map) - 1, i \in P PROVE i + 1 \in P BY <1>1, <1>4, <2>1
  <2> HIDE DEF P
  <2>2. 0 .. Len(map) \subseteq P BY <1>1, <1>3, <2>1, RangeInduction DEF Climbs
  <2> QED BY <1>1, <2>2 DEF P
<1> QED BY <1>1, <1>2, <1>5

\* stand_virtualSegmentSortedInsert finds the first segment that is not below.
LEMMA InsertionPlace ==
  ASSUME NEW map \in Seq(Segments), NEW s \in Segments
  PROVE  \E k \in 1 .. Len(map) + 1 :
           /\ SortedInsert(map, s) = InsertAt(map, k, s)
           /\ \A i \in 1 .. k - 1 : ~(s.base <= map[i].base)
           /\ k <= Len(map) => s.base <= map[k].base
<1> DEFINE above == {i \in 1 .. Len(map) : s.base <= map[i].base}
           found == IF above # {} THEN Min(above) ELSE 0
<1>1. SortedInsert(map, s) = InsertAt(map, IF found = 0 THEN Len(map) + 1 ELSE found, s)
  BY DEF SortedInsert, SelectInSeq
<1>2. CASE above = {}
  <2>1. Len(map) + 1 \in 1 .. Len(map) + 1 OBVIOUS
  <2>2. \A i \in 1 .. Len(map) : ~(s.base <= map[i].base) BY <1>2
  <2> QED BY <1>1, <1>2, <2>1, <2>2
<1>3. CASE above # {}
  <2>1. PICK m \in above : \A i \in above : m <= i
    <3>1. above \in SUBSET Nat OBVIOUS
    <3> HIDE DEF above
    <3> QED BY <1>3, <3>1, NatLeast
  <2>2. Min(above) \in above /\ \A i \in above : Min(above) <= i
    <3> HIDE DEF above
    <3> QED BY <2>1 DEF Min
  <2>3. found = Min(above) /\ found # 0 BY <1>3, <2>2
  <2>4. found \in 1 .. Len(map) /\ s.base <= map[found].base BY <2>2, <2>3
  <2>5. \A i \in 1 .. found - 1 : i \in 1 .. Len(map) /\ ~(found <= i) BY <2>4
  <2>6. \A i \in 1 .. found - 1 : ~(s.base <= map[i].base) BY <2>2, <2>3, <2>5
  <2>7. found \in 1 .. Len(map) + 1 BY <2>4
  <2> HIDE DEF found
  <2> QED BY <1>1, <2>3, <2>4, <2>6, <2>7
<1> QED BY <1>2, <1>3

\* A sequence with one element more.
LEMMA InsertAtFacts ==
  ASSUME NEW map \in Seq(Segments), NEW s \in Segments, NEW k \in 1 .. Len(map) + 1
  PROVE  /\ InsertAt(map, k, s) \in Seq(Segments)
         /\ Len(InsertAt(map, k, s)) = Len(map) + 1
         /\ \A i \in 1 .. Len(map) + 1 :
              InsertAt(map, k, s)[i] = IF i < k THEN map[i] ELSE IF i = k THEN s ELSE map[i - 1]
<1> DEFINE below == SubSeq(map, 1, k - 1)
           above == SubSeq(map, k, Len(map))
<1>1. below \in Seq(Segments) /\ Len(below) = k - 1 /\ \A i \in 1 .. k - 1 : below[i] = map[i]
  OBVIOUS
<1>2. /\ above \in Seq(Segments) /\ Len(above) = Len(map) - k + 1
      /\ \A i \in 1 .. Len(map) - k + 1 : above[i] = map[k + i - 1]
  OBVIOUS
<1> HIDE DEF below, above
<1> DEFINE front == below \o <<s>>
<1>3. front \in Seq(Segments) /\ Len(front) = k
      /\ \A i \in 1 .. k : front[i] = IF i < k THEN map[i] ELSE s
  BY <1>1
<1>4. InsertAt(map, k, s) = front \o above BY DEF InsertAt, below, above
<1> HIDE DEF front
<1>5. front \o above \in Seq(Segments) /\ Len(front \o above) = Len(map) + 1 BY <1>2, <1>3
<1>6. \A i \in 1 .. Len(map) + 1 : (front \o above)[i] = IF i <= k THEN front[i] ELSE above[i - k]
  BY <1>2, <1>3
<1>7. \A i \in 1 .. Len(map) + 1 : i > k => i - k \in 1 .. Len(map) - k + 1 /\ k + (i - k) - 1 = i - 1
  OBVIOUS
<1> QED BY <1>2, <1>3, <1>4, <1>5, <1>6, <1>7

\* Reserving what is apart from all segments keeps their order.
Apart(s, t) == s.base + s.length <= t.base \/ t.base + t.length <= s.base

\* A segment apart from all others is inserted in its order.
LEMMA Inserted ==
  ASSUME NEW map, MapInOrder(map), NEW s \in Segments,
         0 <= s.base, 1 <= s.length, s.base + s.length <= VirtualPages,
         \A t \in ToSet(map) : Apart(s, t)
  PROVE  /\ MapInOrder(SortedInsert(map, s))
         /\ ToSet(SortedInsert(map, s)) = ToSet(map) \cup {s}
<1>1. /\ map \in Seq(Segments) /\ Len(map) \in Nat
      /\ \A i \in 1 .. Len(map) :
           /\ map[i] \in Segments /\ map[i].base \in Int /\ map[i].length \in Int
           /\ 0 <= map[i].base /\ 1 <= map[i].length
           /\ map[i].base + map[i].length <= VirtualPages
      /\ \A i, j \in 1 .. Len(map) : i < j => map[i].base + map[i].length <= map[j].base
  BY SegmentsOfMap
<1>2. PICK k \in 1 .. Len(map) + 1 :
        /\ SortedInsert(map, s) = InsertAt(map, k, s)
        /\ \A i \in 1 .. k - 1 : ~(s.base <= map[i].base)
        /\ k <= Len(map) => s.base <= map[k].base
  BY <1>1, InsertionPlace
<1> DEFINE n == Len(map)
           new == SortedInsert(map, s)
<1>3. /\ new \in Seq(Segments) /\ Len(new) = n + 1
      /\ \A i \in 1 .. n + 1 : new[i] = IF i < k THEN map[i] ELSE IF i = k THEN s ELSE map[i - 1]
  <2>1. /\ InsertAt(map, k, s) \in Seq(Segments) /\ Len(InsertAt(map, k, s)) = n + 1
        /\ \A i \in 1 .. n + 1 :
             InsertAt(map, k, s)[i] = IF i < k THEN map[i] ELSE IF i = k THEN s ELSE map[i - 1]
    <3>1. map \in Seq(Segments) BY ONLY <1>1
    <3> QED BY <3>1, InsertAtFacts
  <2> QED BY ONLY <1>2, <2>1
<1>4. s.base \in Int /\ s.length \in Int BY DEF Segments
<1>5. \A i \in 1 .. n : map[i] \in ToSet(map)
  <2>1. DOMAIN map = 1 .. n BY <1>1
  <2> QED BY <2>1 DEF ToSet
<1> HIDE DEF new
<1>6. ASSUME NEW i \in 1 .. n, i < k PROVE map[i].base + map[i].length <= s.base
  <2>1. ~(s.base <= map[i].base) BY <1>1, <1>2, <1>6
  <2>2. Apart(s, map[i]) BY <1>5
  <2> QED BY <1>1, <1>4, <2>1, <2>2 DEF Apart
<1>7. ASSUME NEW i \in 1 .. n, k <= i PROVE s.base + s.length <= map[i].base
  <2>1. k \in 1 .. n BY <1>1, <1>7
  <2>2. s.base <= map[k].base BY <1>2, <2>1
  <2>3. s.base <= map[i].base
    <3>1. k = i \/ map[k].base + map[k].length <= map[i].base BY <1>1, <1>7, <2>1
    <3>2. /\ map[k].base \in Int /\ map[k].length \in Int /\ 1 <= map[k].length
          /\ map[i].base \in Int
      BY ONLY <1>1, <2>1, i \in 1 .. n
    <3> QED BY ONLY <1>4, <2>2, <3>1, <3>2
  <2>4. Apart(s, map[i]) BY <1>5
  <2> QED BY <1>1, <1>4, <2>3, <2>4 DEF Apart
<1>8. ASSUME NEW i \in 1 .. n + 1
      PROVE  0 <= new[i].base /\ 1 <= new[i].length /\ new[i].base + new[i].length <= VirtualPages
  <2>1. i < k => i \in 1 .. n BY <1>1
  <2>2. i > k => i - 1 \in 1 .. n BY <1>1
  <2>3. new[i] = IF i < k THEN map[i] ELSE IF i = k THEN s ELSE map[i - 1] BY <1>3
  <2>4. CASE i < k BY <1>1, <2>1, <2>3, <2>4
  <2>5. CASE i = k BY <2>3, <2>5
  <2>6. CASE i > k BY <1>1, <2>2, <2>3, <2>6
  <2> QED BY <1>1, <2>4, <2>5, <2>6
<1>9. ASSUME NEW i \in 1 .. n + 1, NEW j \in 1 .. n + 1, i < j
      PROVE  new[i].base + new[i].length <= new[j].base
  <2>1. CASE j < k
    <3>1. i \in 1 .. n /\ j \in 1 .. n /\ new[i] = map[i] /\ new[j] = map[j] BY <1>1, <1>3, <1>9, <2>1
    <3> QED BY <1>1, <1>9, <3>1
  <2>2. CASE j = k
    <3>1. i \in 1 .. n /\ new[i] = map[i] /\ new[j] = s BY <1>1, <1>3, <1>9, <2>2
    <3> QED BY <1>6, <1>9, <2>2, <3>1
  <2>3. CASE j > k /\ i < k
    <3>1. i \in 1 .. n /\ j - 1 \in 1 .. n /\ i < j - 1 /\ new[i] = map[i] /\ new[j] = map[j - 1]
      BY <1>1, <1>3, <1>9, <2>3
    <3> QED BY <1>1, <3>1
  <2>4. CASE j > k /\ i = k
    <3>1. j - 1 \in 1 .. n /\ k <= j - 1 /\ new[i] = s /\ new[j] = map[j - 1]
      BY <1>1, <1>3, <1>9, <2>4
    <3> QED BY <1>7, <3>1
  <2>5. CASE j > k /\ i > k
    <3>1. i - 1 \in 1 .. n /\ j - 1 \in 1 .. n /\ i - 1 < j - 1
          /\ new[i] = map[i - 1] /\ new[j] = map[j - 1]
      BY <1>1, <1>3, <1>9, <2>5
    <3> QED BY <1>1, <3>1
  <2> QED BY <1>1, <2>1, <2>2, <2>3, <2>4, <2>5
<1>10. MapInOrder(new) BY <1>3, <1>8, <1>9 DEF MapInOrder
<1>11. ToSet(new) = ToSet(map) \cup {s}
  <2>1. DOMAIN new = 1 .. n + 1 /\ DOMAIN map = 1 .. n BY <1>1, <1>3
  <2>2. ASSUME NEW x \in ToSet(new) PROVE x \in ToSet(map) \cup {s}
    <3>1. PICK i \in 1 .. n + 1 : x = new[i] BY <2>1, <2>2 DEF ToSet
    <3>2. i < k => i \in 1 .. n BY <1>1
    <3>3. i > k => i - 1 \in 1 .. n BY <1>1
    <3>4. i = k \/ i < k \/ i > k BY ONLY <1>2, <1>1, <3>1
    <3>5. x = s \/ x \in ToSet(map)
      <4>1. CASE i = k BY ONLY <1>3, <3>1, <4>1
      <4>2. CASE i < k BY ONLY <1>3, <1>5, <3>1, <3>2, <4>2
      <4>3. CASE i > k
        <5>1. ~(i < k) /\ i # k BY ONLY <1>1, <1>2, <3>1, <4>3
        <5> QED BY ONLY <1>3, <1>5, <3>1, <3>3, <4>3, <5>1
      <4> QED BY ONLY <3>4, <4>1, <4>2, <4>3
    <3> QED BY ONLY <3>5
  <2>3. s \in ToSet(new)
    <3>1. new[k] = s /\ k \in 1 .. n + 1 BY <1>1, <1>3
    <3> QED BY <2>1, <3>1 DEF ToSet
  <2>4. ASSUME NEW x \in ToSet(map) PROVE x \in ToSet(new)
    <3>1. PICK i \in 1 .. n : x = map[i] BY <2>1, <2>4 DEF ToSet
    <3>2. i < k => i \in 1 .. n + 1 /\ new[i] = map[i] BY <1>1, <1>3
    <3>3. i >= k => i + 1 \in 1 .. n + 1 /\ new[i + 1] = map[i]
      <4>1. i >= k => i + 1 \in 1 .. n + 1 /\ ~(i + 1 < k) /\ i + 1 # k /\ (i + 1) - 1 = i BY <1>1
      <4> QED BY <1>3, <4>1
    <3>4. \E m \in 1 .. n + 1 : new[m] = x BY <1>1, <3>1, <3>2, <3>3
    <3> QED BY <2>1, <3>4 DEF ToSet
  <2> QED BY <2>2, <2>3, <2>4
<1> QED BY <1>10, <1>11 DEF new

-----------------------------------------------------------------------------
(***************************************************************************)
(* The hypothesis of the theorems: the constants are those of a machine    *)
(* and a kernel for which Memory's SufficesFor holds.                      *)
(***************************************************************************)
MemorySuffices == \E imageEnd, largest \in Nat : SufficesFor(imageEnd, largest)

ImageEnd == CHOOSE e \in Nat : \E largest \in Nat : SufficesFor(e, largest)
Largest == CHOOSE g \in Nat : SufficesFor(ImageEnd, g)

\* The two numbers chosen are such numbers.
LEMMA Sufficient ==
  ASSUME MemorySuffices
  PROVE  ImageEnd \in Nat /\ Largest \in Nat /\ SufficesFor(ImageEnd, Largest)
<1>1. ImageEnd \in Nat /\ \E largest \in Nat : SufficesFor(ImageEnd, largest)
  BY DEF MemorySuffices, ImageEnd
<1> QED BY <1>1 DEF Largest

\* The two segments of the loader below the page tables.
Stack == Segment(StackBase, StackPages)
Context == Segment(ContextBase, ContextPages)
Table(d) == Segment(TablePage(d), 1)

\* Division without a remainder.
LEMMA ExactQuotient ==
  ASSUME NEW v \in Nat, NEW t \in Nat \ {0}, v % t = 0
  PROVE  v = (v \div t) * t /\ v \div t \in Nat
OBVIOUS

\* The quotient of a multiple and a rest.
LEMMA QuotientIs ==
  ASSUME NEW q \in Nat, NEW t \in Nat \ {0}, NEW r \in 0 .. t - 1
  PROVE  (q * t + r) \div t = q
OBVIOUS

\* Division keeps the order.
LEMMA QuotientBelow ==
  ASSUME NEW p \in Nat, NEW q \in Nat, NEW t \in Nat \ {0}
  PROVE  /\ p \div t \in Nat
         /\ p < q * t => p \div t < q
         /\ q * t <= p => q <= p \div t
<1>1. p \div t \in Nat OBVIOUS
<1>2. p < q * t => p \div t < q OBVIOUS
<1>3. q * t <= p => q <= p \div t OBVIOUS
<1> QED BY <1>1, <1>2, <1>3

\* The directory covers the virtual space, its own entry the last table of it.
LEMMA TablesFillSpace ==
  /\ VirtualPages \in Nat \ {0} /\ TablePages \in Nat \ {0} /\ MaxSegments \in Nat
  /\ HyperDirectory \in Nat /\ HyperDirectory < TablePages
  /\ VirtualPages = HyperDirectory * TablePages + TablePages
<1>1. VirtualPages \in Nat \ {0} /\ TablePages \in Nat \ {0} /\ MaxSegments \in Nat
      /\ VirtualPages % TablePages = 0 /\ VirtualPages \div TablePages <= TablePages
  BY PageTablesAssumption DEF PageTablesAssumption
<1>3. VirtualPages = (VirtualPages \div TablePages) * TablePages /\ VirtualPages \div TablePages \in Nat
  BY <1>1, ExactQuotient
<1>4. VirtualPages \div TablePages # 0 BY <1>1, <1>3
<1>5. HyperDirectory \in Nat /\ VirtualPages \div TablePages = HyperDirectory + 1
  BY <1>3, <1>4 DEF HyperDirectory
<1>6. (HyperDirectory + 1) * TablePages = HyperDirectory * TablePages + TablePages BY <1>1, <1>5
<1> QED BY <1>1, <1>3, <1>5, <1>6

\* Where things lie: the identity mapping, the kernel and its regions, the
\* boot context, the stack, the page tables.
LEMMA Layout ==
  ASSUME MemorySuffices
  PROVE  /\ VirtualPages \in Nat \ {0} /\ TablePages \in Nat \ {0} /\ MaxSegments \in Nat
         /\ HyperDirectory \in Nat \ {0} /\ HyperDirectory \in Directories /\ 0 \in Directories
         /\ KernelBase \in Nat /\ TablePages <= KernelBase /\ KernelBase < ContextBase
         /\ ContextBase \in Nat /\ StackBase \in Nat /\ HYPERSPACE \in Nat
         /\ ContextPages \in Nat \ {0} /\ StackPages \in Nat \ {0} /\ PfdPages \in Nat \ {0}
         /\ ContextBase + ContextPages = StackBase
         /\ StackBase + StackPages = HYPERSPACE
         /\ HYPERSPACE + TablePages = VirtualPages
<1>1. SufficesFor(ImageEnd, Largest) /\ ImageEnd \in Nat /\ Largest \in Nat BY Sufficient
<1>2. /\ ContextPages \in Nat \ {0} /\ StackPages \in Nat \ {0} /\ PfdPages \in Nat \ {0}
      /\ MaxRegions \in Nat
  BY MemoryAssumption DEF MemoryAssumption
<1>3. KernelBase \in Nat /\ TablePages <= KernelBase /\ KernelBase <= ImageEnd
  BY <1>1 DEF SufficesFor
<1>4. ImageEnd + PfdPages + MaxRegions * Largest < ContextBase BY <1>1 DEF SufficesFor
<1>5. MaxRegions * Largest \in Nat BY <1>1, <1>2
<1>6. HYPERSPACE \in Int /\ HYPERSPACE + TablePages = VirtualPages
  BY TablesFillSpace DEF HYPERSPACE
<1>7. StackBase \in Int /\ ContextBase \in Int /\ ContextBase + ContextPages = StackBase
      /\ StackBase + StackPages = HYPERSPACE
  BY <1>2, <1>6 DEF StackBase, ContextBase
<1>8. KernelBase < ContextBase BY <1>1, <1>2, <1>3, <1>4, <1>5, <1>7
<1>9. 0 <= ContextBase /\ 0 <= StackBase /\ TablePages < HYPERSPACE
  BY <1>2, <1>3, <1>7, <1>8, TablesFillSpace
<1>10. HyperDirectory # 0 BY <1>6, <1>9, TablesFillSpace DEF HYPERSPACE
<1>11. HyperDirectory \in Directories /\ 0 \in Directories
  BY <1>10, TablesFillSpace DEF Directories, HyperDirectory
<1> QED BY <1>2, <1>3, <1>6, <1>7, <1>8, <1>9, <1>10, <1>11, TablesFillSpace

\* The directory entry of a page; below the page tables it is not the last.
LEMMA DirectoryOfPage ==
  ASSUME MemorySuffices, NEW page \in VirtualSpace
  PROVE  /\ PageDirIndex(page) \in Directories
         /\ page < HYPERSPACE <=> PageDirIndex(page) # HyperDirectory
<1>1. page \in Nat /\ page < VirtualPages BY Layout DEF VirtualSpace
<1>2. /\ page \div TablePages \in Nat
      /\ page < HyperDirectory * TablePages => page \div TablePages < HyperDirectory
      /\ HyperDirectory * TablePages <= page => HyperDirectory <= page \div TablePages
  BY <1>1, Layout, QuotientBelow
<1>3. page < (HyperDirectory + 1) * TablePages BY <1>1, TablesFillSpace
<1>4. page \div TablePages < HyperDirectory + 1
  <2>1. HyperDirectory + 1 \in Nat BY TablesFillSpace
  <2> QED BY <1>1, <1>3, <2>1, TablesFillSpace, QuotientBelow
<1>5. Directories = 0 .. HyperDirectory BY DEF Directories, HyperDirectory
<1>6. HYPERSPACE = HyperDirectory * TablePages /\ HYPERSPACE \in Nat BY Layout DEF HYPERSPACE
<1> QED BY <1>1, <1>2, <1>4, <1>5, <1>6, TablesFillSpace DEF PageDirIndex

\* The page at which a page table appears.
LEMMA PageOfTable ==
  ASSUME MemorySuffices, NEW d \in Directories
  PROVE  /\ TablePage(d) \in VirtualSpace /\ HYPERSPACE <= TablePage(d)
         /\ TablePage(d) - HYPERSPACE = d /\ d \in Nat
         /\ PageDirIndex(TablePage(d)) = HyperDirectory
         /\ TablePage(d) \in Beyond
<1>1. d \in 0 .. HyperDirectory BY DEF Directories, HyperDirectory
<1>2. d \in 0 .. TablePages - 1 BY <1>1, TablesFillSpace
<1>3. (HyperDirectory * TablePages + d) \div TablePages = HyperDirectory
  BY <1>2, TablesFillSpace, QuotientIs
<1>4. TablePage(d) = HYPERSPACE + d BY DEF TablePage
<1>5. TablePages <= HYPERSPACE
  BY Layout
<1> QED BY <1>1, <1>2, <1>3, <1>4, <1>5, Layout DEF HYPERSPACE, PageDirIndex, VirtualSpace, Beyond

-----------------------------------------------------------------------------
(***************************************************************************)
(* The page tables and frames that a call leaves: what holds of hat.       *)
(***************************************************************************)
Hats ==
  [map : Seq(Segments), directory : [Directories -> Int], table : [VirtualSpace -> Int],
   last : Int, fromPfd : BOOLEAN, free : Seq(Int), used : SUBSET Int, panicked : BOOLEAN]

MappedIn(h) == {page \in Beyond : Frame(h, page) # None}

\* Each segment belongs to the block that ends at l, or is one of the loader's
\* two, or has the page of a page table; and every page table has one.
MapSound(h, l, fixed) ==
  /\ MapInOrder(h.map) /\ Block(h.map, l)
  /\ \A s \in ToSet(h.map) :
       \/ s.base + s.length <= l \/ s \in fixed
       \/ \E d \in Directories : h.directory[d] # None /\ s = Table(d)
  /\ \A d \in Directories : h.directory[d] # None => Table(d) \in ToSet(h.map)
  /\ l \in Nat /\ KernelBase <= l /\ l < ContextBase
  /\ fixed \subseteq {Stack, Context} /\ fixed \subseteq ToSet(h.map)

\* Pages are mapped under tables that exist, where memory is reserved.
TablesSound(h) ==
  /\ h.directory \in [Directories -> Frames \cup {None}]
  /\ h.table \in [VirtualSpace -> Frames \cup {None}]
  /\ \A page \in VirtualSpace : h.table[page] # None =>
       /\ page < HYPERSPACE /\ h.directory[PageDirIndex(page)] # None
       /\ page \in Beyond => \E s \in ToSet(h.map) : Holds(s, page)

\* Frames are handed out once.  Those of kept are not under any page yet.
FramesSound(h, kept) ==
  /\ h.last \in Frames
  /\ h.fromPfd => /\ IsInjective(h.free) /\ ToSet(h.free) \subseteq Ram
                  /\ h.used \subseteq Frames /\ h.used \cap ToSet(h.free) = {}
  /\ ~h.fromPfd => /\ h.free = <<>> /\ h.used = {}
                   /\ \A page \in MappedIn(h) : Frame(h, page) >= h.last
  /\ \A page, other \in MappedIn(h) :
       (page # other /\ Frame(h, page) = Frame(h, other)) => Frame(h, page) \in DmaFrames
  /\ \A page \in MappedIn(h) :
       /\ Frame(h, page) \in ToSet(h.free) => Frame(h, page) \in DmaFrames
       /\ Frame(h, page) \notin kept

HatSound(h, l, fixed, kept) ==
  h \in Hats /\ MapSound(h, l, fixed) /\ TablesSound(h) /\ FramesSound(h, kept)

LoaderFirst == TopFrame - 4 - 2 * LoadedPages(ImageEnd)

\* The loader can take n frames more.
Room(h, n) == ~h.fromPfd => LoaderFirst + n <= h.last

\* From h to r at most the given pages have been mapped, and page tables made.
Maps(r, h, pages) ==
  /\ r.fromPfd = h.fromPfd
  /\ ToSet(h.map) \subseteq ToSet(r.map)
  /\ \A page \in Beyond :
       /\ Frame(h, page) # None => Frame(r, page) = Frame(h, page)
       /\ (page < HYPERSPACE /\ page \notin pages) => Frame(r, page) = Frame(h, page)

\* What hat_virtualToPhysical finds, below the page tables and in them.
LEMMA FrameOf ==
  ASSUME MemorySuffices, NEW h \in Hats, NEW page \in VirtualSpace
  PROVE  /\ page < HYPERSPACE =>
              /\ PageDirIndex(page) \in Directories
              /\ Frame(h, page) = IF h.directory[PageDirIndex(page)] = None THEN None
                                  ELSE h.table[page]
         /\ HYPERSPACE <= page =>
              Frame(h, page) = IF page - HYPERSPACE \in Directories
                                 THEN h.directory[page - HYPERSPACE] ELSE None
<1>1. page \in Nat BY Layout DEF VirtualSpace
<1> QED BY <1>1, Layout, DirectoryOfPage DEF Frame

\* A page beyond the identity mapping is one of the virtual space.
LEMMA BeyondIsVirtual ==
  ASSUME NEW page \in Beyond
  PROVE  page \in VirtualSpace
BY DEF Beyond

\* Mapped pages have been reserved.
LEMMA MappedIsReserved ==
  ASSUME MemorySuffices, NEW h, NEW l, NEW fixed, h \in Hats, MapSound(h, l, fixed), TablesSound(h),
         NEW page \in MappedIn(h)
  PROVE  \E s \in ToSet(h.map) : Holds(s, page)
<1>1. page \in Beyond /\ page \in VirtualSpace /\ Frame(h, page) # None /\ page \in Nat
  BY Layout DEF MappedIn, Beyond, VirtualSpace
<1>2. CASE page < HYPERSPACE
  <2>1. h.table[page] # None BY <1>1, <1>2, FrameOf
  <2> QED BY <1>1, <2>1 DEF TablesSound
<1>3. CASE HYPERSPACE <= page
  <2>1. page - HYPERSPACE \in Directories /\ h.directory[page - HYPERSPACE] # None
    BY <1>1, <1>3, FrameOf
  <2>2. Table(page - HYPERSPACE) \in ToSet(h.map) BY <2>1 DEF MapSound
  <2>3. Holds(Table(page - HYPERSPACE), page)
    BY <1>1, <2>1, Layout DEF Holds, Table, Segment, TablePage
  <2> QED BY <2>2, <2>3
<1> QED BY <1>1, <1>2, <1>3, Layout

\* The pages above the block that are in none of the loader's segments.
LEMMA UnreservedIsUnmapped ==
  ASSUME MemorySuffices, NEW h, NEW l, NEW fixed, h \in Hats, MapSound(h, l, fixed), TablesSound(h),
         NEW page \in Beyond, l <= page, page < HYPERSPACE, \A s \in fixed : ~Holds(s, page)
  PROVE  Frame(h, page) = None
<1> SUFFICES ASSUME Frame(h, page) # None PROVE FALSE OBVIOUS
<1>1. PICK s \in ToSet(h.map) : Holds(s, page) BY MappedIsReserved DEF MappedIn
<1>2. page \in Nat /\ l \in Nat BY Layout DEF Beyond, VirtualSpace, MapSound
<1>3. s.base \in Int /\ s.length \in Int
  <2>1. h.map \in Seq(Segments) BY DEF Hats
  <2>2. s \in Segments BY <1>1, <2>1 DEF ToSet
  <2> QED BY <2>2 DEF Segments
<1>4. ~(s.base + s.length <= l) BY <1>1, <1>2, <1>3 DEF Holds
<1>5. PICK d \in Directories : s = Table(d) BY <1>1, <1>4 DEF MapSound
<1>6. s.base = TablePage(d) BY <1>5 DEF Table, Segment
<1>7. HYPERSPACE <= s.base BY <1>6, PageOfTable
<1> QED BY <1>1, <1>2, <1>3, <1>7, Layout DEF Holds

\* Frames depend on the directory and the tables only.
LEMMA SameFrames ==
  ASSUME NEW h, NEW r, r.directory = h.directory, r.table = h.table
  PROVE  MappedIn(r) = MappedIn(h) /\ \A page : Frame(r, page) = Frame(h, page)
BY DEF Frame, MappedIn

\* A frame that may be put under a page.
FreshFrame(h, f, kept) ==
  /\ f \in Frames /\ f \notin kept
  /\ f \in ToSet(h.free) => f \in DmaFrames
  /\ ~h.fromPfd => f >= h.last
  /\ \A page \in MappedIn(h) : Frame(h, page) = f => f \in DmaFrames

\* r is h with f under the page.
IsFilled(r, h, page, f) ==
  /\ r.last = h.last /\ r.fromPfd = h.fromPfd /\ r.free = h.free /\ r.used = h.used
  /\ page \in Beyond /\ Frame(h, page) = None /\ Frame(r, page) = f
  /\ \A other \in Beyond \ {page} : Frame(r, other) = Frame(h, other)

\* A fresh frame under a page that had none keeps the frames sound.
LEMMA FramesFilled ==
  ASSUME NEW h, NEW r, NEW page, NEW f, NEW kept, FramesSound(h, kept), FreshFrame(h, f, kept),
         IsFilled(r, h, page, f)
  PROVE  FramesSound(r, kept)
<1>1. MappedIn(r) \subseteq MappedIn(h) \cup {page} BY DEF IsFilled, MappedIn
<1>2. ASSUME NEW p \in MappedIn(r)
      PROVE  \/ p = page /\ Frame(r, p) = f
             \/ p # page /\ p \in MappedIn(h) /\ Frame(r, p) = Frame(h, p)
  <2>1. p \in Beyond /\ Frame(r, p) # None BY <1>2 DEF MappedIn
  <2> QED BY <2>1 DEF IsFilled, MappedIn
<1>3. r.last = h.last /\ r.fromPfd = h.fromPfd /\ r.free = h.free /\ r.used = h.used
  BY DEF IsFilled
<1>4. ~r.fromPfd => \A p \in MappedIn(r) : Frame(r, p) >= r.last
  BY <1>2, <1>3 DEF FramesSound, FreshFrame
<1>5. \A p \in MappedIn(r) : /\ Frame(r, p) \in ToSet(r.free) => Frame(r, p) \in DmaFrames
                             /\ Frame(r, p) \notin kept
  BY <1>2, <1>3 DEF FramesSound, FreshFrame
<1>6. ASSUME NEW p \in MappedIn(r), NEW other \in MappedIn(r), p # other, Frame(r, p) = Frame(r, other)
      PROVE  Frame(r, p) \in DmaFrames
  <2>1. CASE p = page BY <1>2, <1>6, <2>1 DEF FreshFrame
  <2>2. CASE other = page BY <1>2, <1>6, <2>2 DEF FreshFrame
  <2>3. CASE p # page /\ other # page BY <1>2, <1>6, <2>3 DEF FramesSound
  <2> QED BY <2>1, <2>2, <2>3
<1> QED BY <1>3, <1>4, <1>5, <1>6 DEF FramesSound

\* r is h without the frame that was taken.
IsTaken(r, h, n, kept) ==
  /\ r \in Hats
  /\ r.map = h.map /\ r.directory = h.directory /\ r.table = h.table
  /\ r.fromPfd = h.fromPfd /\ r.panicked = h.panicked
  /\ FramesSound(r, kept) /\ FreshFrame(r, NextFrame(h), kept)
  /\ Room(r, n)

\* The types of what the frame allocators work with.
LEMMA FrameConstants ==
  ASSUME MemorySuffices
  PROVE  /\ TopFrame \in Nat /\ LoaderFirst \in Nat
         /\ TablePages <= TopFrame /\ LoaderFirst = TopFrame - 4 - 2 * LoadedPages(ImageEnd)
         /\ LoadedPages(ImageEnd) \in Nat
         /\ Ram \subseteq Frames /\ DmaFrames \subseteq Frames /\ VgaFrames \subseteq Frames
         /\ Frames \subseteq Nat /\ None \notin Frames
         /\ \A f \in VgaFrames : f \notin Ram /\ f \notin DmaFrames
                                 /\ ~(LoaderFirst <= f /\ f < TopFrame)
<1>1. SufficesFor(ImageEnd, Largest) /\ ImageEnd \in Nat BY Sufficient
<1>2. /\ TopFrame \in Nat /\ 2 * LoadedPages(ImageEnd) + 4 <= TopFrame
      /\ TablePages <= TopFrame /\ KernelBase <= ImageEnd
      /\ {VgaFrame, DmaFrame} \subseteq Int /\ VgaFrames \cup DmaFrames \subseteq Frames
      /\ VgaFrames \cap (Ram \cup LoaderFrames(ImageEnd) \cup DmaFrames) = {}
  BY <1>1 DEF SufficesFor
<1>3. LoadedPages(ImageEnd) \in Nat BY <1>1, <1>2, Layout DEF LoadedPages
<1>4. LoaderFirst \in Nat /\ LoaderFirst = TopFrame - 4 - 2 * LoadedPages(ImageEnd)
  BY <1>2, <1>3 DEF LoaderFirst
<1>5. LoaderFrames(ImageEnd) = LoaderFirst .. TopFrame - 1 BY DEF LoaderFrames, LoaderFirst
<1>6. Ram \subseteq Frames BY MemoryAssumption DEF MemoryAssumption, Frames
<1>7. Frames \subseteq Nat /\ None \notin Frames BY <1>2 DEF Frames, None
<1>8. \A f \in VgaFrames : f \notin LoaderFirst .. TopFrame - 1 BY <1>2, <1>5
<1>9. \A f \in VgaFrames : f \in Nat BY <1>2, <1>7
<1> QED BY <1>2, <1>3, <1>4, <1>6, <1>7, <1>8, <1>9

\* Both allocators take a frame that is under no page.
LEMMA FrameTaken ==
  ASSUME MemorySuffices, NEW h \in Hats, NEW kept, kept \subseteq VgaFrames,
         FramesSound(h, kept), ~NoFrame(h), NEW n \in Nat, Room(h, n + 1)
  PROVE  IsTaken(TakeFrame(h), h, n, kept)
<1> DEFINE r == TakeFrame(h)
           f == NextFrame(h)
<1>1. h.last \in Int /\ h.free \in Seq(Int) /\ h.used \subseteq Int /\ h.fromPfd \in BOOLEAN
  BY DEF Hats
<1>2. h.last \in Frames BY DEF FramesSound
<1>3. CASE h.fromPfd
  <2>1. h.free # <<>> BY <1>3 DEF NoFrame
  <2>2. /\ Head(h.free) \in Int /\ Tail(h.free) \in Seq(Int)
        /\ Len(Tail(h.free)) = Len(h.free) - 1 /\ Len(h.free) \in Nat \ {0}
        /\ \A i \in 1 .. Len(h.free) - 1 : Tail(h.free)[i] = h.free[i + 1]
        /\ Head(h.free) = h.free[1]
    BY <1>1, <2>1
  <2>3. r = [h EXCEPT !.free = Tail(h.free), !.used = h.used \cup {Head(h.free)}] /\ f = Head(h.free)
    BY <1>3 DEF TakeFrame, NextFrame
  <2>4. h.used \cup {Head(h.free)} \in SUBSET Int BY <1>1, <2>2
  <2>5. /\ r \in Hats /\ r.map = h.map /\ r.directory = h.directory /\ r.table = h.table
        /\ r.fromPfd = h.fromPfd /\ r.panicked = h.panicked /\ r.last = h.last
        /\ r.free = Tail(h.free) /\ r.used = h.used \cup {f}
    BY <2>2, <2>3, <2>4 DEF Hats
  <2>6. DOMAIN h.free = 1 .. Len(h.free) /\ DOMAIN Tail(h.free) = 1 .. Len(h.free) - 1 BY <1>1, <2>2
  <2>7. ToSet(Tail(h.free)) \subseteq ToSet(h.free) /\ f \in ToSet(h.free)
    <3>1. \A i \in 1 .. Len(h.free) - 1 : i + 1 \in 1 .. Len(h.free) BY <2>2
    <3>2. 1 \in 1 .. Len(h.free) BY <2>2
    <3> QED BY <2>2, <2>3, <2>6, <3>1, <3>2 DEF ToSet
  <2>8. /\ IsInjective(h.free) /\ ToSet(h.free) \subseteq Ram
        /\ h.used \subseteq Frames /\ h.used \cap ToSet(h.free) = {}
    BY <1>3 DEF FramesSound
  <2>9. f \notin ToSet(Tail(h.free))
    <3> SUFFICES ASSUME NEW i \in 1 .. Len(h.free) - 1, Tail(h.free)[i] = f PROVE FALSE
      BY <2>6 DEF ToSet
    <3>1. i + 1 \in 1 .. Len(h.free) /\ 1 \in 1 .. Len(h.free) /\ i + 1 # 1
      <4>1. Len(h.free) \in Nat \ {0} BY <2>2
      <4> QED BY ONLY <4>1, i \in 1 .. Len(h.free) - 1
    <3>2. h.free[i + 1] = h.free[1] BY <2>2, <2>3
    <3> QED BY <2>6, <2>8, <3>1, <3>2 DEF IsInjective
  <2>10. IsInjective(Tail(h.free))
    <3> SUFFICES ASSUME NEW i \in 1 .. Len(h.free) - 1, NEW j \in 1 .. Len(h.free) - 1,
                        Tail(h.free)[i] = Tail(h.free)[j]
                 PROVE  i = j
      BY <2>6 DEF IsInjective
    <3>0. Len(h.free) \in Nat BY <2>2
    <3>1. i + 1 \in 1 .. Len(h.free) /\ j + 1 \in 1 .. Len(h.free)
      BY ONLY <3>0, i \in 1 .. Len(h.free) - 1, j \in 1 .. Len(h.free) - 1
    <3>2. h.free[i + 1] = h.free[j + 1] BY <2>2
    <3>3. i + 1 = j + 1 BY <2>6, <2>8, <3>1, <3>2 DEF IsInjective
    <3> QED BY <3>3
  <2> HIDE DEF r, f
  <2>11. f \in Ram /\ f \in Frames BY <2>7, <2>8, FrameConstants
  <2>12. MappedIn(r) = MappedIn(h) /\ \A page : Frame(r, page) = Frame(h, page)
    BY <2>5, SameFrames
  <2>13. FramesSound(r, kept)
    <3>1. r.used \cap ToSet(r.free) = {} BY <2>5, <2>7, <2>8, <2>9
    <3>2. r.used \subseteq Frames BY <2>5, <2>8, <2>11
    <3>3. ToSet(r.free) \subseteq Ram /\ IsInjective(r.free) BY <2>5, <2>7, <2>8, <2>10
    <3>4. \A page \in MappedIn(r) : Frame(r, page) \in ToSet(r.free) => Frame(r, page) \in DmaFrames
      BY <2>5, <2>7, <2>12 DEF FramesSound
    <3> QED BY <1>2, <1>3, <2>5, <2>12, <3>1, <3>2, <3>3, <3>4 DEF FramesSound
  <2>14. FreshFrame(r, f, kept)
    <3>1. f \notin kept BY <2>11, FrameConstants
    <3>2. \A page \in MappedIn(r) : Frame(r, page) = f => f \in DmaFrames
      BY <2>7, <2>12 DEF FramesSound
    <3> QED BY <1>3, <2>5, <2>9, <2>11, <3>1, <3>2 DEF FreshFrame
  <2> QED BY <1>3, <2>5, <2>13, <2>14 DEF IsTaken, Room, r, f
<1>4. CASE ~h.fromPfd
  <2>1. r = [h EXCEPT !.last = h.last - 1] /\ f = h.last - 1 /\ h.last - 1 \in Int
    BY <1>1, <1>4 DEF TakeFrame, NextFrame
  <2> HIDE DEF r, f
  <2>2. /\ r \in Hats /\ r.map = h.map /\ r.directory = h.directory /\ r.table = h.table
        /\ r.fromPfd = h.fromPfd /\ r.panicked = h.panicked /\ r.last = f
        /\ r.free = h.free /\ r.used = h.used
    BY <1>1, <2>1 DEF Hats
  <2>3. LoaderFirst + n <= f /\ f < h.last /\ f \in Int
    <3>1. LoaderFirst + (n + 1) <= h.last BY <1>4 DEF Room
    <3>2. LoaderFirst \in Nat BY FrameConstants
    <3> QED BY ONLY <1>1, <2>1, <3>1, <3>2, n \in Nat
  <2>4. f \in Frames /\ f < TopFrame BY <1>2, <2>3, FrameConstants DEF Frames
  <2>5. f \notin kept BY <2>3, <2>4, FrameConstants
  <2>6. MappedIn(r) = MappedIn(h) /\ \A page : Frame(r, page) = Frame(h, page)
    BY <2>2, SameFrames
  <2>7. \A page \in MappedIn(h) : Frame(h, page) >= h.last BY <1>4 DEF FramesSound
  <2>8. \A page \in MappedIn(h) : Frame(h, page) \in Int
    <3>1. \A page \in VirtualSpace : Frame(h, page) \in Int
      <4> SUFFICES ASSUME NEW page \in VirtualSpace PROVE Frame(h, page) \in Int OBVIOUS
      <4>1. page \in Nat BY Layout DEF VirtualSpace
      <4>2. h.directory \in [Directories -> Int] /\ h.table \in [VirtualSpace -> Int] BY DEF Hats
      <4> QED BY <4>1, <4>2, FrameOf, Layout DEF None
    <3> QED BY <3>1, BeyondIsVirtual DEF MappedIn
  <2>9. \A page \in MappedIn(r) : Frame(r, page) >= r.last /\ Frame(r, page) # f
    BY <1>1, <2>2, <2>3, <2>6, <2>7, <2>8
  <2>10. r.free = <<>> /\ r.used = {} /\ ToSet(r.free) = {}
    BY <1>4, <2>2 DEF FramesSound, ToSet
  <2>11. FramesSound(r, kept)
    <3>1. /\ \A page, other \in MappedIn(r) :
               (page # other /\ Frame(r, page) = Frame(r, other)) => Frame(r, page) \in DmaFrames
          /\ \A page \in MappedIn(r) : Frame(r, page) \notin kept
      BY <2>6 DEF FramesSound
    <3> QED BY <1>4, <2>2, <2>4, <2>9, <2>10, <3>1 DEF FramesSound
  <2>12. FreshFrame(r, f, kept)
    BY <2>2, <2>3, <2>4, <2>5, <2>9, <2>10 DEF FreshFrame
  <2>13. Room(r, n) BY <2>2, <2>3 DEF Room
  <2> QED BY <1>4, <2>2, <2>11, <2>12, <2>13 DEF IsTaken, r, f
<1> QED BY <1>1, <1>3, <1>4

\* What a call that cannot go on leaves.
LEMMA PanicSound ==
  ASSUME NEW h, NEW l, NEW fixed, NEW kept, HatSound(h, l, fixed, kept)
  PROVE  /\ HatSound(Panic(h), l, fixed, kept) /\ Panic(h).panicked
         /\ Maps(Panic(h), h, {}) /\ \A n : Room(h, n) => Room(Panic(h), n)
         /\ Panic(h).map = h.map /\ Panic(h).directory = h.directory /\ Panic(h).table = h.table
         /\ Panic(h).fromPfd = h.fromPfd /\ \A page : Frame(Panic(h), page) = Frame(h, page)
<1> DEFINE r == Panic(h)
<1>1. h \in Hats BY DEF HatSound
<1>2. /\ r \in Hats /\ r.panicked = TRUE
      /\ r.map = h.map /\ r.directory = h.directory /\ r.table = h.table
      /\ r.fromPfd = h.fromPfd /\ r.last = h.last /\ r.free = h.free /\ r.used = h.used
  BY <1>1 DEF Hats, Panic
<1> HIDE DEF r
<1>3. MappedIn(r) = MappedIn(h) /\ \A page : Frame(r, page) = Frame(h, page) BY <1>2, SameFrames
<1>4. MapSound(r, l, fixed) BY <1>2 DEF HatSound, MapSound
<1>5. TablesSound(r) BY <1>2 DEF HatSound, TablesSound
<1>6. FramesSound(r, kept) BY <1>2, <1>3 DEF HatSound, FramesSound
<1>7. Maps(r, h, {}) BY <1>2, <1>3 DEF Maps
<1>8. \A n : Room(h, n) => Room(r, n) BY <1>2 DEF Room
<1> QED BY <1>2, <1>3, <1>4, <1>5, <1>6, <1>7, <1>8 DEF HatSound, r

\* Taking a frame changes nothing else.
LEMMA TakenSound ==
  ASSUME MemorySuffices, NEW h, NEW l, NEW fixed, NEW kept, kept \subseteq VgaFrames,
         HatSound(h, l, fixed, kept), ~NoFrame(h), NEW n \in Nat, Room(h, n + 1)
  PROVE  /\ IsTaken(TakeFrame(h), h, n, kept) /\ HatSound(TakeFrame(h), l, fixed, kept)
         /\ MappedIn(TakeFrame(h)) = MappedIn(h)
         /\ \A page : Frame(TakeFrame(h), page) = Frame(h, page)
<1> DEFINE r == TakeFrame(h)
<1>1. h \in Hats /\ FramesSound(h, kept) /\ MapSound(h, l, fixed) /\ TablesSound(h) BY DEF HatSound
<1>2. IsTaken(r, h, n, kept) BY <1>1, FrameTaken
<1> HIDE DEF r
<1>3. r.map = h.map /\ r.directory = h.directory /\ r.table = h.table BY <1>2 DEF IsTaken
<1>4. MapSound(r, l, fixed) BY <1>1, <1>3 DEF MapSound
<1>5. TablesSound(r) BY <1>1, <1>3 DEF TablesSound
<1>6. HatSound(r, l, fixed, kept) BY <1>2, <1>4, <1>5 DEF HatSound, IsTaken
<1>7. MappedIn(r) = MappedIn(h) /\ \A page : Frame(r, page) = Frame(h, page) BY <1>3, SameFrames
<1> QED BY <1>2, <1>6, <1>7 DEF r

\* Mapping nothing is mapping at most some pages.
LEMMA MapsOnly ==
  ASSUME NEW h, NEW r, NEW pages, Maps(r, h, {})
  PROVE  Maps(r, h, pages)
BY DEF Maps

\* One call after another.
LEMMA MapsThen ==
  ASSUME NEW h, NEW r, NEW q, NEW pages, NEW more, Maps(r, h, pages), Maps(q, r, more)
  PROVE  Maps(q, h, pages \cup more)
<1>1. q.fromPfd = h.fromPfd /\ ToSet(h.map) \subseteq ToSet(q.map) BY DEF Maps
<1>2. ASSUME NEW page \in Beyond
      PROVE  /\ Frame(h, page) # None => Frame(q, page) = Frame(h, page)
             /\ (page < HYPERSPACE /\ page \notin pages \cup more) => Frame(q, page) = Frame(h, page)
  BY <1>2 DEF Maps
<1> QED BY <1>1, <1>2 DEF Maps

\* A call that leaves directory, tables and segments.
LEMMA MapsNothing ==
  ASSUME NEW h, NEW r, r.map = h.map, r.directory = h.directory, r.table = h.table,
         r.fromPfd = h.fromPfd
  PROVE  Maps(r, h, {})
BY SameFrames DEF Maps

\* A page table's page lies apart from everything but itself.
LEMMA TableApart ==
  ASSUME MemorySuffices, NEW h, NEW l, NEW fixed, h \in Hats, MapSound(h, l, fixed),
         NEW d \in Directories, NEW s \in ToSet(h.map), s.base # TablePage(d)
  PROVE  Apart(Table(d), s)
<1>1. TablePage(d) \in Int /\ HYPERSPACE <= TablePage(d) /\ Table(d).base = TablePage(d)
      /\ Table(d).length = 1
  BY Layout, PageOfTable DEF Table, Segment, VirtualSpace
<1>2. s \in Segments
  <2>1. h.map \in Seq(Segments) BY DEF Hats
  <2> QED BY <2>1 DEF ToSet
<1>3. s.base \in Int /\ s.length \in Int BY <1>2 DEF Segments
<1>4. CASE s.base + s.length <= l BY <1>1, <1>3, <1>4, Layout DEF MapSound, Apart
<1>5. CASE s \in fixed
  <2>1. s = Stack \/ s = Context BY <1>5 DEF MapSound
  <2>2. s.base + s.length <= HYPERSPACE BY <2>1, Layout DEF Stack, Context, Segment
  <2> QED BY <1>1, <1>3, <2>2, Layout DEF Apart
<1>6. ASSUME NEW q \in Directories, s = Table(q) PROVE Apart(Table(d), s)
  <2>1. TablePage(q) \in Int /\ s.base = TablePage(q) /\ s.length = 1
    BY <1>6, Layout, PageOfTable DEF Table, Segment, VirtualSpace
  <2> QED BY <1>1, <2>1 DEF Apart
<1> QED BY <1>4, <1>5, <1>6 DEF MapSound

\* The segments and tables with a new table and its segment.
LEMMA MapWithTable ==
  ASSUME MemorySuffices, NEW h, NEW l, NEW fixed, h \in Hats, MapSound(h, l, fixed),
         NEW d \in Directories, ~CannotReserve(h.map, TablePage(d)),
         NEW r, r.map = SortedInsert(h.map, Table(d)), NEW f \in Int, f # None,
         r.directory = [h.directory EXCEPT ![d] = f]
  PROVE  MapSound(r, l, fixed) /\ h.directory[d] = None
         /\ ToSet(r.map) = ToSet(h.map) \cup {Table(d)} /\ r.map \in Seq(Segments)
<1>1. h.map \in Seq(Segments) /\ h.directory \in [Directories -> Int] BY DEF Hats
<1>2. \A s \in ToSet(h.map) : s.base # TablePage(d)
  BY <1>1 DEF CannotReserve, ToSet
<1>3. /\ TablePage(d) \in VirtualSpace /\ HYPERSPACE <= TablePage(d) /\ Table(d).base = TablePage(d)
      /\ Table(d).length = 1 /\ Table(d) \in Segments /\ VirtualPages \in Nat
  BY Layout, PageOfTable DEF Table, Segment, VirtualSpace, Segments
<1>4. 0 <= Table(d).base /\ 1 <= Table(d).length /\ Table(d).base + Table(d).length <= VirtualPages
  BY <1>3 DEF VirtualSpace
<1>5. \A s \in ToSet(h.map) : Apart(Table(d), s) BY <1>2, TableApart
<1>6. MapInOrder(r.map) /\ ToSet(r.map) = ToSet(h.map) \cup {Table(d)}
  BY <1>3, <1>4, <1>5, Inserted DEF MapSound
<1>7. r.map \in Seq(Segments) BY <1>6 DEF MapInOrder
<1>8. h.directory[d] = None
  <2>1. h.directory[d] # None => Table(d) \in ToSet(h.map) BY DEF MapSound
  <2> QED BY <1>2, <1>3, <2>1
<1>9. \A q \in Directories : r.directory[q] = IF q = d THEN f ELSE h.directory[q] BY <1>1
<1>10. Block(r.map, l)
  <2>1. ContextBase <= Table(d).base BY <1>3, Layout DEF VirtualSpace
  <2> QED BY <1>6, <2>1 DEF Block, MapSound
<1>11. \A s \in ToSet(r.map) :
       \/ s.base + s.length <= l \/ s \in fixed
       \/ \E q \in Directories : r.directory[q] # None /\ s = Table(q)
  <2>1. ASSUME NEW s \in ToSet(h.map)
        PROVE \/ s.base + s.length <= l \/ s \in fixed
              \/ \E q \in Directories : r.directory[q] # None /\ s = Table(q)
    BY <1>9 DEF MapSound
  <2>2. r.directory[d] # None BY <1>9
  <2> QED BY <1>6, <2>1, <2>2
<1>12. \A q \in Directories : r.directory[q] # None => Table(q) \in ToSet(r.map)
  BY <1>6, <1>9 DEF MapSound
<1>13. fixed \subseteq ToSet(r.map) BY <1>6 DEF MapSound
<1> QED BY <1>6, <1>7, <1>8, <1>10, <1>11, <1>12, <1>13 DEF MapSound


\* A frame under the page of a new table.
IsTabledHat(r, h, d, f) ==
  /\ r.map = SortedInsert(h.map, Table(d)) /\ r.directory = [h.directory EXCEPT ![d] = f]
  /\ r = [h EXCEPT !.map = r.map, !.directory = r.directory]

\* A frame becomes a page table in a directory entry that was empty.
LEMMA TableFilled ==
  ASSUME MemorySuffices, NEW h, NEW l, NEW fixed, NEW kept, HatSound(h, l, fixed, kept),
         NEW d \in Directories, d # HyperDirectory, ~CannotReserve(h.map, TablePage(d)),
         NEW f, FreshFrame(h, f, kept), NEW r, IsTabledHat(r, h, d, f)
  PROVE  /\ HatSound(r, l, fixed, kept) /\ Maps(r, h, {})
         /\ r.table = h.table /\ r.last = h.last /\ r.fromPfd = h.fromPfd
         /\ r.directory[d] # None
<1>1. h \in Hats /\ MapSound(h, l, fixed) /\ TablesSound(h) /\ FramesSound(h, kept) BY DEF HatSound
<1>2. f \in Frames /\ f \in Int /\ f # None BY FrameConstants DEF FreshFrame
<1>3. h.directory \in [Directories -> Int] BY <1>1 DEF Hats
<1>4. /\ r.map = SortedInsert(h.map, Table(d)) /\ r.directory = [h.directory EXCEPT ![d] = f]
      /\ r.table = h.table /\ r.last = h.last /\ r.fromPfd = h.fromPfd
      /\ r.free = h.free /\ r.used = h.used /\ r.panicked = h.panicked
  BY <1>1 DEF Hats, IsTabledHat
<1>5. /\ MapSound(r, l, fixed) /\ h.directory[d] = None
      /\ ToSet(r.map) = ToSet(h.map) \cup {Table(d)} /\ r.map \in Seq(Segments)
  BY <1>1, <1>2, <1>4, MapWithTable
<1>6. \A q \in Directories : r.directory[q] = IF q = d THEN f ELSE h.directory[q] BY <1>3, <1>4
<1>7. r \in Hats
  <2>1. r.directory \in [Directories -> Int] BY <1>2, <1>3, <1>4
  <2>2. r = [h EXCEPT !.map = r.map, !.directory = r.directory] BY DEF IsTabledHat
  <2> QED BY <1>1, <1>5, <2>1, <2>2 DEF Hats
<1>8. TablesSound(r)
  <2>1. r.directory \in [Directories -> Frames \cup {None}]
    BY <1>1, <1>2, <1>4 DEF TablesSound
  <2>2. ASSUME NEW page \in VirtualSpace, r.table[page] # None
        PROVE  /\ page < HYPERSPACE /\ r.directory[PageDirIndex(page)] # None
               /\ page \in Beyond => \E s \in ToSet(r.map) : Holds(s, page)
    BY <1>1, <1>2, <1>4, <1>5, <1>6, <2>2, DirectoryOfPage DEF TablesSound
  <2> QED BY <1>1, <1>4, <2>1, <2>2 DEF TablesSound
<1>9. IsFilled(r, h, TablePage(d), f)
  <2>1. TablePage(d) \in Beyond /\ TablePage(d) \in VirtualSpace /\ HYPERSPACE <= TablePage(d)
        /\ TablePage(d) - HYPERSPACE = d
    BY PageOfTable
  <2>2. Frame(h, TablePage(d)) = None /\ Frame(r, TablePage(d)) = f
    <3>1. Frame(h, TablePage(d)) = h.directory[d] BY <1>1, <2>1, FrameOf
    <3>2. Frame(r, TablePage(d)) = r.directory[d] BY <1>7, <2>1, FrameOf
    <3> QED BY <1>5, <1>6, <3>1, <3>2
  <2>3. ASSUME NEW other \in Beyond \ {TablePage(d)} PROVE Frame(r, other) = Frame(h, other)
    <3>1. other \in VirtualSpace /\ other \in Nat BY Layout DEF Beyond, VirtualSpace
    <3>2. CASE HYPERSPACE <= other
      <4>1. other - HYPERSPACE # d BY <3>1, <2>1, Layout DEF TablePage
      <4>2. Frame(h, other) = IF other - HYPERSPACE \in Directories
                                THEN h.directory[other - HYPERSPACE] ELSE None
        BY <1>1, <3>1, <3>2, FrameOf
      <4>3. Frame(r, other) = IF other - HYPERSPACE \in Directories
                                THEN r.directory[other - HYPERSPACE] ELSE None
        BY <1>7, <3>1, <3>2, FrameOf
      <4> QED BY <1>6, <4>1, <4>2, <4>3
    <3>3. CASE other < HYPERSPACE
      <4>1. PageDirIndex(other) \in Directories BY <3>1, <3>3, DirectoryOfPage
      <4>2. Frame(h, other) = IF h.directory[PageDirIndex(other)] = None THEN None
                              ELSE h.table[other]
        BY <1>1, <3>1, <3>3, FrameOf
      <4>3. Frame(r, other) = IF r.directory[PageDirIndex(other)] = None THEN None
                              ELSE r.table[other]
        BY <1>7, <3>1, <3>3, FrameOf
      <4>4. CASE PageDirIndex(other) # d BY <1>4, <1>6, <4>1, <4>2, <4>3, <4>4
      <4>5. CASE PageDirIndex(other) = d
        <5>1. h.table[other] = None BY <1>1, <1>5, <3>1, <4>5 DEF TablesSound
        <5> QED BY <1>4, <4>2, <4>3, <5>1
      <4> QED BY <4>4, <4>5
    <3> QED BY <3>1, <3>2, <3>3, Layout
  <2> QED BY <1>4, <2>1, <2>2, <2>3 DEF IsFilled
<1>10. FramesSound(r, kept) BY <1>1, <1>9, FramesFilled
<1>11. Maps(r, h, {})
  <2>1. ASSUME NEW page \in Beyond
        PROVE  /\ Frame(h, page) # None => Frame(r, page) = Frame(h, page)
               /\ (page < HYPERSPACE /\ page \notin {}) => Frame(r, page) = Frame(h, page)
    <3>1. page = TablePage(d) => Frame(h, page) = None /\ ~(page < HYPERSPACE)
      BY <1>9, PageOfTable, Layout DEF IsFilled, VirtualSpace
    <3> QED BY <1>9, <3>1 DEF IsFilled
  <2> QED BY <1>4, <1>5, <2>1 DEF Maps
<1> QED BY <1>2, <1>4, <1>6, <1>7, <1>5, <1>8, <1>10, <1>11 DEF HatSound

\* w is what making the table of a page leaves, if it was h.
IsTabled(w, h, page, l, fixed, kept, n) ==
  /\ HatSound(w, l, fixed, kept) /\ Room(w, n) /\ Maps(w, h, {}) /\ w.table = h.table
  /\ ~w.panicked => ~h.panicked /\ w.directory[PageDirIndex(page)] # None

\* The start of both loops leaves the hat sound, with a table or in a panic.
LEMMA TableMade ==
  ASSUME MemorySuffices, NEW h, NEW l, NEW fixed, NEW kept, kept \subseteq VgaFrames,
         HatSound(h, l, fixed, kept), NEW page \in VirtualSpace, page < HYPERSPACE,
         NEW n \in Nat, Room(h, n + 1)
  PROVE  IsTabled(WithTable(h, page), h, page, l, fixed, kept, n)
<1> DEFINE d == PageDirIndex(page)
           f == NextFrame(h)
           t == TakeFrame(h)
<1>1. h \in Hats /\ d \in Directories /\ d # HyperDirectory BY DirectoryOfPage DEF HatSound
<1>2. h.last \in Int BY <1>1 DEF Hats
<1>3. Room(h, n) BY <1>2, FrameConstants DEF Room
<1>4. CASE h.panicked \/ HasTable(h, page)
  <2>1. WithTable(h, page) = h BY <1>4 DEF WithTable
  <2>2. Maps(h, h, {}) BY MapsNothing
  <2>3. ~h.panicked => h.directory[d] # None BY <1>4 DEF HasTable
  <2> QED BY <1>3, <2>1, <2>2, <2>3 DEF IsTabled
<1>5. CASE ~h.panicked /\ ~HasTable(h, page) /\ NoFrame(h)
  <2>1. WithTable(h, page) = Panic(h) BY <1>5 DEF WithTable
  <2> QED BY <1>3, <2>1, PanicSound DEF IsTabled
<1>6. CASE ~h.panicked /\ ~HasTable(h, page) /\ ~NoFrame(h)
  <2>1. /\ IsTaken(t, h, n, kept) /\ HatSound(t, l, fixed, kept)
        /\ t.map = h.map /\ t.directory = h.directory /\ t.table = h.table
        /\ t.fromPfd = h.fromPfd /\ t.panicked = h.panicked
        /\ FreshFrame(t, f, kept) /\ Room(t, n) /\ t \in Hats
    BY <1>6, TakenSound DEF IsTaken
  <2>2. WithTable(h, page) = LET k == Reserve(t, TablePage(d), 1)
                             IN IF k.panicked THEN k ELSE [k EXCEPT !.directory[d] = f]
    BY <1>6 DEF WithTable
  <2> HIDE DEF t, f
  <2>3. Maps(t, h, {}) BY <2>1, MapsNothing
  <2>4. CASE CannotReserve(t.map, TablePage(d))
    <3>1. Reserve(t, TablePage(d), 1) = Panic(t) BY <2>4 DEF Reserve
    <3>2. Panic(t).panicked /\ Maps(Panic(t), t, {}) BY <2>1, PanicSound
    <3>3. WithTable(h, page) = Panic(t) BY <2>2, <3>1, <3>2
    <3>4. Maps(Panic(t), h, {}) BY <2>3, <3>2, MapsThen
    <3>5. HatSound(Panic(t), l, fixed, kept) /\ Room(Panic(t), n) /\ Panic(t).table = t.table
      BY <2>1, PanicSound
    <3> QED BY <2>1, <3>2, <3>3, <3>4, <3>5 DEF IsTabled
  <2>5. CASE ~CannotReserve(t.map, TablePage(d))
    <3> DEFINE r == [t EXCEPT !.map = SortedInsert(t.map, Table(d)), !.directory[d] = f]
    <3>1. ~t.panicked BY <1>6, <2>1
    <3>2. Reserve(t, TablePage(d), 1) = [t EXCEPT !.map = SortedInsert(t.map, Table(d))]
      BY <2>5, <3>1 DEF Reserve, Table
    <3>3. WithTable(h, page) = r BY <2>1, <2>2, <3>1, <3>2 DEF Hats
    <3> HIDE DEF r
    <3>4. /\ HatSound(r, l, fixed, kept) /\ Maps(r, t, {})
          /\ r.table = t.table /\ r.last = t.last /\ r.fromPfd = t.fromPfd
          /\ r.directory[d] # None
      <4>1. r.map = SortedInsert(t.map, Table(d)) /\ r.directory = [t.directory EXCEPT ![d] = f]
        BY <2>1 DEF r, Hats
      <4>2. r = [t EXCEPT !.map = r.map, !.directory = r.directory] BY <2>1, <4>1 DEF r, Hats
      <4>3. IsTabledHat(r, t, d, f) BY <4>1, <4>2 DEF IsTabledHat
      <4> QED BY <1>1, <2>1, <2>5, <4>3, TableFilled
    <3>5. Maps(r, h, {}) BY <2>3, <3>4, MapsThen
    <3>6. Room(r, n) BY <2>1, <3>4 DEF Room
    <3> QED BY <1>6, <2>1, <3>3, <3>4, <3>5, <3>6 DEF IsTabled
  <2> QED BY <2>4, <2>5
<1> QED BY <1>4, <1>5, <1>6

Reserved(h, page) == \E s \in ToSet(h.map) : Holds(s, page)

\* A frame under a page, by way of its table.
IsMappedHat(r, h, page, f) ==
  r.table = [h.table EXCEPT ![page] = f] /\ r = [h EXCEPT !.table = r.table]

\* A fresh frame under a reserved page keeps the hat sound.
LEMMA PageFilled ==
  ASSUME MemorySuffices, NEW h, NEW l, NEW fixed, NEW kept, HatSound(h, l, fixed, kept),
         NEW page \in Beyond, page < HYPERSPACE, h.directory[PageDirIndex(page)] # None,
         Reserved(h, page), Frame(h, page) = None,
         NEW f, FreshFrame(h, f, kept), NEW r, IsMappedHat(r, h, page, f)
  PROVE  /\ HatSound(r, l, fixed, kept) /\ Maps(r, h, {page})
         /\ r.last = h.last /\ r.fromPfd = h.fromPfd /\ r.panicked = h.panicked
<1>1. h \in Hats /\ MapSound(h, l, fixed) /\ TablesSound(h) /\ FramesSound(h, kept) BY DEF HatSound
<1>2. f \in Frames /\ f \in Int /\ f # None BY FrameConstants DEF FreshFrame
<1>3. h.table \in [VirtualSpace -> Int] BY <1>1 DEF Hats
<1>4. /\ r.map = h.map /\ r.directory = h.directory
      /\ r.table = [h.table EXCEPT ![page] = f] /\ r.last = h.last /\ r.fromPfd = h.fromPfd
      /\ r.free = h.free /\ r.used = h.used /\ r.panicked = h.panicked
  BY <1>1 DEF Hats, IsMappedHat
<1>5. page \in VirtualSpace BY DEF Beyond
<1>6. \A q \in VirtualSpace : r.table[q] = IF q = page THEN f ELSE h.table[q] BY <1>3, <1>4
<1>7. r \in Hats
  <2>1. r.table \in [VirtualSpace -> Int] BY <1>2, <1>3, <1>4
  <2>2. r = [h EXCEPT !.table = r.table] BY DEF IsMappedHat
  <2> QED BY <1>1, <2>1, <2>2 DEF Hats
<1>8. MapSound(r, l, fixed) BY <1>1, <1>4 DEF MapSound
<1>9. TablesSound(r)
  <2>1. r.table \in [VirtualSpace -> Frames \cup {None}] BY <1>1, <1>2, <1>4 DEF TablesSound
  <2>2. ASSUME NEW q \in VirtualSpace, r.table[q] # None
        PROVE  /\ q < HYPERSPACE /\ r.directory[PageDirIndex(q)] # None
               /\ q \in Beyond => \E s \in ToSet(r.map) : Holds(s, q)
    <3>1. CASE q = page BY <1>4, <3>1 DEF Reserved
    <3>2. CASE q # page BY <1>1, <1>4, <1>6, <2>2, <3>2 DEF TablesSound
    <3> QED BY <3>1, <3>2
  <2> QED BY <1>1, <1>4, <2>1, <2>2 DEF TablesSound
<1>10. IsFilled(r, h, page, f)
  <2>1. ASSUME NEW q \in Beyond PROVE Frame(r, q) = IF q = page THEN f ELSE Frame(h, q)
    <3>1. q \in VirtualSpace /\ q \in Nat BY Layout DEF Beyond, VirtualSpace
    <3>2. CASE q < HYPERSPACE
      <4>1. Frame(h, q) = IF h.directory[PageDirIndex(q)] = None THEN None ELSE h.table[q]
        BY <1>1, <3>1, <3>2, FrameOf
      <4>2. Frame(r, q) = IF r.directory[PageDirIndex(q)] = None THEN None ELSE r.table[q]
        BY <1>7, <3>1, <3>2, FrameOf
      <4>3. CASE q = page
        <5>1. r.directory[PageDirIndex(q)] # None /\ r.table[q] = f BY <1>4, <1>6, <3>1, <4>3
        <5> QED BY <4>2, <4>3, <5>1
      <4>4. CASE q # page
        <5>1. r.directory = h.directory /\ r.table[q] = h.table[q] BY <1>4, <1>6, <3>1, <4>4
        <5> QED BY <4>1, <4>2, <4>4, <5>1
      <4> QED BY <4>3, <4>4
    <3>3. CASE HYPERSPACE <= q
      <4>1. Frame(h, q) = IF q - HYPERSPACE \in Directories THEN h.directory[q - HYPERSPACE] ELSE None
        BY <1>1, <3>1, <3>3, FrameOf
      <4>2. Frame(r, q) = IF q - HYPERSPACE \in Directories THEN r.directory[q - HYPERSPACE] ELSE None
        BY <1>7, <3>1, <3>3, FrameOf
      <4>3. q # page BY <3>1, <3>3, Layout
      <4> QED BY <1>4, <4>1, <4>2, <4>3
    <3> QED BY <3>1, <3>2, <3>3, Layout
  <2> QED BY <1>4, <2>1 DEF IsFilled
<1>11. FramesSound(r, kept) BY <1>1, <1>10, FramesFilled
<1>12. Maps(r, h, {page})
  <2>1. ASSUME NEW q \in Beyond
        PROVE  /\ Frame(h, q) # None => Frame(r, q) = Frame(h, q)
               /\ (q < HYPERSPACE /\ q \notin {page}) => Frame(r, q) = Frame(h, q)
    BY <1>10 DEF IsFilled
  <2> QED BY <1>4, <2>1 DEF Maps
<1> QED BY <1>4, <1>7, <1>8, <1>9, <1>11, <1>12 DEF HatSound

\* A page can be mapped: it is reserved, and not mapped yet.
Mappable(h, page) == h.panicked \/ (Reserved(h, page) /\ Frame(h, page) = None)

\* r is what mapping the pages leaves, if it was h; n frames can still be taken.
IsGrown(r, h, pages, l, fixed, kept, n) ==
  /\ HatSound(r, l, fixed, kept) /\ Room(r, n) /\ Maps(r, h, pages)
  /\ h.panicked => r.panicked

\* Making a page table leaves a page mappable.
LEMMA GrownByTable ==
  ASSUME NEW h, NEW w, NEW page, NEW l, NEW fixed, NEW kept, NEW n,
         IsTabled(w, h, page, l, fixed, kept, n), NEW q \in Beyond, q < HYPERSPACE,
         Mappable(h, q)
  PROVE  Mappable(w, q)
<1>1. Maps(w, h, {}) /\ (~w.panicked => ~h.panicked) BY DEF IsTabled
<1>2. Frame(w, q) = Frame(h, q) /\ ToSet(h.map) \subseteq ToSet(w.map) BY <1>1 DEF Maps
<1> QED BY <1>1, <1>2 DEF Mappable, Reserved

\* Mapping a page at a frame of the allocator.
LEMMA AnonPageMapped ==
  ASSUME MemorySuffices, NEW h, NEW l, NEW fixed, NEW kept, kept \subseteq VgaFrames,
         HatSound(h, l, fixed, kept), NEW page \in Beyond, page < HYPERSPACE,
         Mappable(h, page), NEW n \in Nat, Room(h, n + 2)
  PROVE  IsGrown(MapAnonPage(h, page), h, {page}, l, fixed, kept, n)
<1> DEFINE w == WithTable(h, page)
           t == TakeFrame(w)
           f == NextFrame(w)
           r == [t EXCEPT !.table[page] = f]
<1>1. page \in VirtualSpace BY DEF Beyond
<1>2. n + 1 \in Nat /\ Room(h, (n + 1) + 1)
  <2>1. (n + 1) + 1 = n + 2 OBVIOUS
  <2> QED BY <2>1
<1>3. IsTabled(w, h, page, l, fixed, kept, n + 1) BY <1>1, <1>2, TableMade
<1>4. MapAnonPage(h, page) = IF w.panicked THEN w ELSE IF NoFrame(w) THEN Panic(w) ELSE r
  BY DEF MapAnonPage
<1> HIDE DEF w
<1>5. /\ HatSound(w, l, fixed, kept) /\ Room(w, n + 1) /\ Maps(w, h, {}) /\ w \in Hats
      /\ ~w.panicked => ~h.panicked /\ w.directory[PageDirIndex(page)] # None
  BY <1>3 DEF IsTabled, HatSound
<1>6. Room(w, n)
  <2>1. w.last \in Int BY <1>5 DEF Hats
  <2> QED BY <1>5, <2>1, FrameConstants DEF Room
<1>7. Maps(w, h, {page}) BY <1>5, MapsOnly
<1>8. CASE w.panicked BY <1>4, <1>5, <1>6, <1>7, <1>8 DEF IsGrown
<1>9. CASE ~w.panicked /\ NoFrame(w)
  <2>1. HatSound(Panic(w), l, fixed, kept) /\ Panic(w).panicked /\ Maps(Panic(w), w, {})
        /\ Room(Panic(w), n)
    BY <1>5, <1>6, PanicSound
  <2>2. {page} \cup {} = {page} OBVIOUS
  <2>3. Maps(Panic(w), h, {page}) BY <1>7, <2>1, <2>2, MapsThen
  <2> QED BY <1>4, <1>9, <2>1, <2>3 DEF IsGrown
<1>10. CASE ~w.panicked /\ ~NoFrame(w)
  <2>1. /\ IsTaken(t, w, n, kept) /\ HatSound(t, l, fixed, kept) /\ Frame(t, page) = Frame(w, page)
        /\ t.map = w.map /\ t.directory = w.directory /\ t.table = w.table
        /\ t.fromPfd = w.fromPfd /\ t.panicked = w.panicked
        /\ FreshFrame(t, f, kept) /\ Room(t, n) /\ t \in Hats
    BY <1>5, <1>10, TakenSound DEF IsTaken
  <2>2. MapAnonPage(h, page) = r BY <1>4, <1>10
  <2> HIDE DEF t, f
  <2>3. Mappable(w, page) BY <1>3, GrownByTable
  <2>4. Reserved(t, page) /\ Frame(t, page) = None BY <1>10, <2>1, <2>3 DEF Mappable, Reserved
  <2>5. IsMappedHat(r, t, page, f)
    <3>1. r.table = [t.table EXCEPT ![page] = f] BY <2>1 DEF Hats
    <3>2. r = [t EXCEPT !.table = r.table] BY <2>1, <3>1 DEF Hats
    <3> QED BY <3>1, <3>2 DEF IsMappedHat
  <2> HIDE DEF r
  <2>6. /\ HatSound(r, l, fixed, kept) /\ Maps(r, t, {page})
        /\ r.last = t.last /\ r.fromPfd = t.fromPfd /\ r.panicked = t.panicked
    <3>1. t.directory[PageDirIndex(page)] # None BY <1>5, <1>10, <2>1
    <3> QED BY <2>1, <2>4, <2>5, <3>1, PageFilled
  <2>7. Maps(t, w, {}) BY <2>1, MapsNothing
  <2>8. Maps(r, h, {page})
    <3>1. {page} \cup {} = {page} /\ {page} \cup {page} = {page} OBVIOUS
    <3>2. Maps(t, h, {page}) BY <1>7, <2>7, <3>1, MapsThen
    <3> QED BY <2>6, <3>1, <3>2, MapsThen
  <2>9. Room(r, n) BY <2>1, <2>6 DEF Room
  <2>10. h.panicked => r.panicked BY <1>5, <1>10
  <2> QED BY <2>2, <2>6, <2>8, <2>9, <2>10 DEF IsGrown
<1> QED BY <1>8, <1>9, <1>10

\* Frames that are no longer kept.
LEMMA KeptLess ==
  ASSUME NEW h, NEW l, NEW fixed, NEW kept, NEW less, less \subseteq kept,
         HatSound(h, l, fixed, kept)
  PROVE  HatSound(h, l, fixed, less)
<1>1. FramesSound(h, kept) BY DEF HatSound
<1>2. FramesSound(h, less) BY <1>1 DEF FramesSound
<1> QED BY <1>2 DEF HatSound

\* Mapping a page at a given frame, of the DMA pool or the frame buffer.
LEMMA PageMapped ==
  ASSUME MemorySuffices, NEW h, NEW l, NEW fixed, NEW kept, kept \subseteq VgaFrames,
         HatSound(h, l, fixed, kept), NEW page \in Beyond, page < HYPERSPACE,
         Mappable(h, page), NEW f \in DmaFrames \cup kept, h.fromPfd
  PROVE  IsGrown(MapPage(h, page, f), h, {page}, l, fixed, kept \ {f}, 0)
<1> DEFINE w == WithTable(h, page)
           r == [w EXCEPT !.table[page] = f]
           less == kept \ {f}
<1>1. page \in VirtualSpace BY DEF Beyond
<1>2. Room(h, 0 + 1) BY DEF Room
<1>3. IsTabled(w, h, page, l, fixed, kept, 0) BY <1>1, <1>2, TableMade
<1>4. MapPage(h, page, f) = IF w.panicked THEN w ELSE r BY DEF MapPage
<1> HIDE DEF w
<1>5. /\ HatSound(w, l, fixed, kept) /\ Room(w, 0) /\ Maps(w, h, {}) /\ w \in Hats
      /\ ~w.panicked => ~h.panicked /\ w.directory[PageDirIndex(page)] # None
  BY <1>3 DEF IsTabled, HatSound
<1>6. Maps(w, h, {page}) BY <1>5, MapsOnly
<1>7. HatSound(w, l, fixed, less) /\ less \subseteq VgaFrames BY <1>5, KeptLess
<1>8. CASE w.panicked
  <2> HIDE DEF less
  <2> QED BY <1>4, <1>5, <1>6, <1>7, <1>8 DEF IsGrown, less
<1>9. CASE ~w.panicked
  <2>1. w.fromPfd BY <1>5 DEF Maps
  <2>2. FreshFrame(w, f, less)
    <3>1. FramesSound(w, kept) BY <1>5 DEF HatSound
    <3>2. ToSet(w.free) \subseteq Ram BY <2>1, <3>1 DEF FramesSound
    <3>3. f \in Frames BY FrameConstants
    <3>4. f \in ToSet(w.free) => f \in DmaFrames BY <3>2, FrameConstants
    <3>5. \A q \in MappedIn(w) : Frame(w, q) = f => f \in DmaFrames BY <3>1 DEF FramesSound
    <3> QED BY <2>1, <3>3, <3>4, <3>5 DEF FreshFrame
  <2>3. Mappable(w, page) BY <1>3, GrownByTable
  <2>4. Reserved(w, page) /\ Frame(w, page) = None BY <1>9, <2>3 DEF Mappable
  <2>5. IsMappedHat(r, w, page, f)
    <3>1. r.table = [w.table EXCEPT ![page] = f] BY <1>5 DEF Hats
    <3>2. r = [w EXCEPT !.table = r.table] BY <1>5, <3>1 DEF Hats
    <3> QED BY <3>1, <3>2 DEF IsMappedHat
  <2> HIDE DEF r, less
  <2>6. /\ HatSound(r, l, fixed, less) /\ Maps(r, w, {page})
        /\ r.last = w.last /\ r.fromPfd = w.fromPfd /\ r.panicked = w.panicked
    <3>1. w.directory[PageDirIndex(page)] # None BY <1>5, <1>9
    <3> QED BY <1>7, <2>2, <2>4, <2>5, <3>1, PageFilled
  <2>7. Maps(r, h, {page})
    <3>1. {page} \cup {page} = {page} OBVIOUS
    <3> QED BY <1>6, <2>6, <3>1, MapsThen
  <2>8. Room(r, 0) BY <2>1, <2>6 DEF Room
  <2> QED BY <1>4, <1>5, <1>9, <2>6, <2>7, <2>8 DEF IsGrown, less
<1> QED BY <1>8, <1>9

-----------------------------------------------------------------------------
(***************************************************************************)
(* The loops of hat_initialMapAnonPages and hat_initialMapPages.           *)
(***************************************************************************)

\* What the calls return is a hat, whatever is reserved or free.
LEMMA ReserveTyped ==
  ASSUME NEW h \in Hats, NEW base \in Int, NEW length \in Int
  PROVE  Reserve(h, base, length) \in Hats
<1>1. h.map \in Seq(Segments) BY DEF Hats
<1>2. Segment(base, length) \in Segments BY DEF Segment, Segments
<1>3. SortedInsert(h.map, Segment(base, length)) \in Seq(Segments)
  <2>1. PICK k \in 1 .. Len(h.map) + 1 :
          SortedInsert(h.map, Segment(base, length)) = InsertAt(h.map, k, Segment(base, length))
    BY <1>1, <1>2, InsertionPlace
  <2> QED BY <1>1, <1>2, <2>1, InsertAtFacts
<1> QED BY <1>3 DEF Reserve, Panic, Hats

\* Taking a frame.
LEMMA TakeTyped ==
  ASSUME NEW h \in Hats, ~NoFrame(h)
  PROVE  TakeFrame(h) \in Hats /\ NextFrame(h) \in Int
<1>1. h.last \in Int /\ h.free \in Seq(Int) /\ h.used \subseteq Int BY DEF Hats
<1>2. CASE h.fromPfd
  <2>1. h.free # <<>> BY <1>2 DEF NoFrame
  <2>2. Head(h.free) \in Int /\ Tail(h.free) \in Seq(Int) BY <1>1, <2>1
  <2>3. h.used \cup {Head(h.free)} \in SUBSET Int BY <1>1, <2>2
  <2>4. TakeFrame(h) = [h EXCEPT !.free = Tail(h.free), !.used = h.used \cup {Head(h.free)}]
        /\ NextFrame(h) = Head(h.free)
    BY <1>2 DEF TakeFrame, NextFrame
  <2> QED BY <2>2, <2>3, <2>4 DEF Hats
<1>3. CASE ~h.fromPfd
  <2>1. h.last - 1 \in Int BY <1>1
  <2>2. TakeFrame(h) = [h EXCEPT !.last = h.last - 1] /\ NextFrame(h) = h.last - 1
    BY <1>3 DEF TakeFrame, NextFrame
  <2> QED BY <2>1, <2>2 DEF Hats
<1> QED BY <1>2, <1>3

\* Making a page table.
LEMMA WithTableTyped ==
  ASSUME MemorySuffices, NEW h \in Hats, NEW page \in VirtualSpace
  PROVE  WithTable(h, page) \in Hats
<1> DEFINE d == PageDirIndex(page)
           t == TakeFrame(h)
           f == NextFrame(h)
           k == Reserve(t, TablePage(d), 1)
<1>1. d \in Directories BY DirectoryOfPage
<1>2. TablePage(d) \in Int BY <1>1, Layout, PageOfTable DEF VirtualSpace
<1>3. WithTable(h, page) = IF h.panicked \/ HasTable(h, page) THEN h
                           ELSE IF NoFrame(h) THEN Panic(h)
                           ELSE IF k.panicked THEN k ELSE [k EXCEPT !.directory[d] = f]
  BY DEF WithTable
<1>4. Panic(h) \in Hats BY DEF Panic, Hats
<1>5. ASSUME ~NoFrame(h)
      PROVE  k \in Hats /\ [k EXCEPT !.directory[d] = f] \in Hats
  <2>1. t \in Hats /\ f \in Int BY <1>5, TakeTyped
  <2> HIDE DEF t, f, d
  <2>2. k \in Hats BY <1>2, <2>1, ReserveTyped
  <2> HIDE DEF k
  <2>3. [k.directory EXCEPT ![d] = f] \in [Directories -> Int]
    <3>1. k.directory \in [Directories -> Int] BY <2>2 DEF Hats
    <3> QED BY <1>1, <2>1, <3>1
  <2> QED BY <2>2, <2>3 DEF Hats
<1> HIDE DEF k, f, d
<1> QED BY <1>3, <1>4, <1>5

\* Mapping a page at a frame of the allocator.
LEMMA MapAnonPageTyped ==
  ASSUME MemorySuffices, NEW h \in Hats, NEW page \in VirtualSpace
  PROVE  MapAnonPage(h, page) \in Hats
<1> DEFINE w == WithTable(h, page)
           t == TakeFrame(w)
           f == NextFrame(w)
<1>1. w \in Hats BY WithTableTyped
<1>2. MapAnonPage(h, page) = IF w.panicked THEN w ELSE IF NoFrame(w) THEN Panic(w)
                             ELSE [t EXCEPT !.table[page] = f]
  BY DEF MapAnonPage
<1> HIDE DEF w
<1>3. Panic(w) \in Hats BY <1>1 DEF Panic, Hats
<1>4. ASSUME ~NoFrame(w) PROVE [t EXCEPT !.table[page] = f] \in Hats
  <2>1. t \in Hats /\ f \in Int BY <1>1, <1>4, TakeTyped
  <2> HIDE DEF t, f
  <2>2. [t.table EXCEPT ![page] = f] \in [VirtualSpace -> Int]
    <3>1. t.table \in [VirtualSpace -> Int] BY <2>1 DEF Hats
    <3> QED BY <2>1, <3>1
  <2> QED BY <2>1, <2>2 DEF Hats
<1> HIDE DEF t, f
<1> QED BY <1>1, <1>2, <1>3, <1>4

\* Mapping a page at a given frame.
LEMMA MapPageTyped ==
  ASSUME MemorySuffices, NEW h \in Hats, NEW page \in VirtualSpace, NEW f \in Int
  PROVE  MapPage(h, page, f) \in Hats
<1> DEFINE w == WithTable(h, page)
<1>1. w \in Hats BY WithTableTyped
<1>2. MapPage(h, page, f) = IF w.panicked THEN w ELSE [w EXCEPT !.table[page] = f]
  BY DEF MapPage
<1> HIDE DEF w
<1>3. [w.table EXCEPT ![page] = f] \in [VirtualSpace -> Int]
  <2>1. w.table \in [VirtualSpace -> Int] BY <1>1 DEF Hats
  <2> QED BY <2>1
<1> QED BY <1>1, <1>2, <1>3 DEF Hats

IsAnonLoop(after, start, h, base, length) ==
  /\ after[0] = start /\ MapAnonPages(h, base, length) = after[length]
  /\ \A i \in 0 .. length - 1 : after[i + 1] = MapAnonPage(after[i], base + i)

\* hat_initialMapAnonPages is such a loop.
LEMMA AnonLoop ==
  ASSUME MemorySuffices, NEW h, NEW base \in Nat, NEW length \in Nat,
         base + length <= VirtualPages, ReservedIfFree(h, base, length, length) \in Hats
  PROVE  \E after : IsAnonLoop(after, ReservedIfFree(h, base, length, length), h, base, length)
<1> DEFINE start == ReservedIfFree(h, base, length, length)
           round == [i \in 1 .. length |-> [k \in Hats |-> MapAnonPage(k, base + i - 1)]]
           Is(f) == f = [n \in 0 .. length |->
                           IF n = 0 THEN start ELSE MapAnonPage(f[n - 1], base + n - 1)]
           after == CHOOSE f : Is(f)
<1>1. ASSUME NEW i \in 1 .. length, NEW k \in Hats PROVE MapAnonPage(k, base + i - 1) \in Hats
  <2>1. base + i - 1 \in VirtualSpace BY Layout DEF VirtualSpace
  <2> QED BY <2>1, MapAnonPageTyped
<1>2. round \in [1 .. length -> [Hats -> Hats]] BY <1>1
<1>3. PICK f : IsLoop(f, Hats, length, start, round)
  <2> HIDE DEF round, start
  <2>1. start \in Hats BY DEF start
  <2> QED BY <1>2, <2>1, LoopExists
<1>4. ASSUME NEW i \in 1 .. length
      PROVE  round[i][f[i - 1]] = MapAnonPage(f[i - 1], base + i - 1)
  <2>1. i - 1 \in 0 .. length OBVIOUS
  <2>2. f[i - 1] \in Hats BY ONLY <1>3, <2>1 DEF IsLoop
  <2> QED BY ONLY <1>4, <2>2
<1>5. Is(f)
  <2> HIDE DEF start
  <2>1. /\ f \in [0 .. length -> Hats] /\ f[0] = start
        /\ \A i \in 1 .. length : f[i] = MapAnonPage(f[i - 1], base + i - 1)
    <3> HIDE DEF round
    <3> QED BY <1>3, <1>4 DEF IsLoop
  <2>2. \A i \in 0 .. length : f[i] = IF i = 0 THEN start ELSE MapAnonPage(f[i - 1], base + i - 1)
    <3>1. \A i \in 0 .. length : i = 0 \/ i \in 1 .. length OBVIOUS
    <3> QED BY <2>1, <3>1
  <2> QED BY ONLY <2>1, <2>2
<1>6. Is(after) BY <1>5
<1>7. MapAnonPages(h, base, length) = after[length] BY DEF MapAnonPages
<1> HIDE DEF after, start
<1>8. after[0] = start BY <1>6
<1>9. ASSUME NEW i \in 0 .. length - 1 PROVE after[i + 1] = MapAnonPage(after[i], base + i)
  <2>1. i + 1 \in 0 .. length /\ i + 1 # 0 /\ (i + 1) - 1 = i /\ base + (i + 1) - 1 = base + i
    OBVIOUS
  <2>2. after[i + 1] = MapAnonPage(after[(i + 1) - 1], base + (i + 1) - 1) BY <1>6, <2>1
  <2> QED BY <2>1, <2>2
<1> QED BY <1>7, <1>8, <1>9 DEF IsAnonLoop, start

\* A range is mapped if all its pages can be.
LEMMA AnonPagesMapped ==
  ASSUME MemorySuffices, NEW h, NEW l, NEW fixed, NEW kept, kept \subseteq VgaFrames,
         NEW base \in Nat, NEW length \in Nat, TablePages <= base, base + length <= HYPERSPACE,
         NEW start, start = ReservedIfFree(h, base, length, length),
         HatSound(start, l, fixed, kept),
         \A page \in base .. base + length - 1 : Mappable(start, page),
         NEW n \in Nat, Room(start, n + 2 * length)
  PROVE  IsGrown(MapAnonPages(h, base, length), start, base .. base + length - 1, l, fixed, kept, n)
<1>1. start \in Hats BY DEF HatSound
<1>2. PICK after : IsAnonLoop(after, start, h, base, length)
  <2>1. base + length <= VirtualPages BY Layout
  <2> QED BY <1>1, <2>1, AnonLoop
<1>3. /\ after[0] = start /\ MapAnonPages(h, base, length) = after[length]
      /\ \A i \in 0 .. length - 1 : after[i + 1] = MapAnonPage(after[i], base + i)
  BY <1>2 DEF IsAnonLoop
<1> DEFINE Right(i) == IsGrown(after[i], start, base .. base + i - 1, l, fixed, kept,
                               n + 2 * (length - i))
           P == {i \in 0 .. length : Right(i)}
<1>4. Right(0)
  <2>1. Maps(start, start, {}) BY MapsNothing
  <2>2. Maps(start, start, base .. base + 0 - 1) BY <2>1, MapsOnly
  <2>3. n + 2 * (length - 0) = n + 2 * length OBVIOUS
  <2> QED BY <1>3, <2>2, <2>3 DEF IsGrown
<1>5. ASSUME NEW i \in 0 .. length - 1, Right(i) PROVE Right(i + 1)
  <2> DEFINE k == after[i]
             m == n + 2 * (length - (i + 1))
             page == base + i
  <2>1. m \in Nat /\ n + 2 * (length - i) = m + 2 OBVIOUS
  <2>2. page \in base .. base + length - 1 /\ page < HYPERSPACE /\ page \in Beyond
        /\ page \notin base .. base + i - 1
    BY Layout DEF Beyond, VirtualSpace
  <2> HIDE DEF m, k, page
  <2>3. /\ HatSound(k, l, fixed, kept) /\ Room(k, m + 2)
        /\ Maps(k, start, base .. base + i - 1) /\ (start.panicked => k.panicked)
    BY <1>5, <2>1 DEF IsGrown, k
  <2>4. Mappable(k, page)
    <3>1. Mappable(start, page) BY <2>2
    <3>2. Frame(k, page) = Frame(start, page) /\ ToSet(start.map) \subseteq ToSet(k.map)
      BY <2>2, <2>3 DEF Maps
    <3> QED BY <2>3, <3>1, <3>2 DEF Mappable, Reserved
  <2>5. IsGrown(MapAnonPage(k, page), k, {page}, l, fixed, kept, m)
    BY <2>1, <2>2, <2>3, <2>4, AnonPageMapped
  <2>6. after[i + 1] = MapAnonPage(k, page) BY <1>3 DEF k, page
  <2>7. (base .. base + i - 1) \cup {page} = base .. base + (i + 1) - 1 BY DEF page
  <2>8. Maps(after[i + 1], start, base .. base + (i + 1) - 1)
    <3>1. Maps(after[i + 1], k, {page}) BY <2>5, <2>6 DEF IsGrown
    <3>2. Maps(after[i + 1], start, (base .. base + i - 1) \cup {page}) BY <2>3, <3>1, MapsThen
    <3> QED BY <2>7, <3>2
  <2> QED BY <2>3, <2>5, <2>6, <2>8 DEF IsGrown, m
<1>6. Right(length)
  <2>1. 0 \in P BY <1>4
  <2>2. ASSUME NEW i \in 0 .. length - 1, i \in P PROVE i + 1 \in P BY <1>5, <2>2
  <2> HIDE DEF P
  <2>3. 0 .. length \subseteq P BY <2>1, <2>2, RangeInduction DEF Climbs
  <2>4. length \in 0 .. length OBVIOUS
  <2> QED BY <2>3, <2>4 DEF P
<1>7. n + 2 * (length - length) = n OBVIOUS
<1> QED BY <1>3, <1>6, <1>7

IsPageLoop(after, start, h, base, frame, length) ==
  /\ after[0] = start /\ MapPages(h, base, frame, length) = after[length]
  /\ \A i \in 0 .. length - 1 : after[i + 1] = MapPage(after[i], base + i, frame + i)

\* hat_initialMapPages is such a loop.
LEMMA PageLoop ==
  ASSUME MemorySuffices, NEW h, NEW base \in Nat, NEW length \in Nat, NEW frame \in Int,
         base + length <= VirtualPages, ReservedIfFree(h, base, 1, length) \in Hats
  PROVE  \E after : IsPageLoop(after, ReservedIfFree(h, base, 1, length), h, base, frame, length)
<1> DEFINE start == ReservedIfFree(h, base, 1, length)
           round == [i \in 1 .. length |-> [k \in Hats |-> MapPage(k, base + i - 1, frame + i - 1)]]
           Is(f) == f = [n \in 0 .. length |->
                           IF n = 0 THEN start ELSE MapPage(f[n - 1], base + n - 1, frame + n - 1)]
           after == CHOOSE f : Is(f)
<1>1. ASSUME NEW i \in 1 .. length, NEW k \in Hats
      PROVE  MapPage(k, base + i - 1, frame + i - 1) \in Hats
  <2>1. base + i - 1 \in VirtualSpace BY Layout DEF VirtualSpace
  <2> QED BY <2>1, MapPageTyped
<1>2. round \in [1 .. length -> [Hats -> Hats]] BY <1>1
<1>3. PICK f : IsLoop(f, Hats, length, start, round)
  <2> HIDE DEF round, start
  <2>1. start \in Hats BY DEF start
  <2> QED BY <1>2, <2>1, LoopExists
<1>4. ASSUME NEW i \in 1 .. length
      PROVE  round[i][f[i - 1]] = MapPage(f[i - 1], base + i - 1, frame + i - 1)
  <2>1. i - 1 \in 0 .. length OBVIOUS
  <2>2. f[i - 1] \in Hats BY ONLY <1>3, <2>1 DEF IsLoop
  <2> QED BY ONLY <1>4, <2>2
<1>5. Is(f)
  <2> HIDE DEF start
  <2>1. /\ f \in [0 .. length -> Hats] /\ f[0] = start
        /\ \A i \in 1 .. length : f[i] = MapPage(f[i - 1], base + i - 1, frame + i - 1)
    <3> HIDE DEF round
    <3> QED BY <1>3, <1>4 DEF IsLoop
  <2>2. \A i \in 0 .. length :
          f[i] = IF i = 0 THEN start ELSE MapPage(f[i - 1], base + i - 1, frame + i - 1)
    <3>1. \A i \in 0 .. length : i = 0 \/ i \in 1 .. length OBVIOUS
    <3> QED BY <2>1, <3>1
  <2> QED BY ONLY <2>1, <2>2
<1>6. Is(after) BY <1>5
<1>7. MapPages(h, base, frame, length) = after[length] BY DEF MapPages
<1> HIDE DEF after, start
<1>8. after[0] = start BY <1>6
<1>9. ASSUME NEW i \in 0 .. length - 1 PROVE after[i + 1] = MapPage(after[i], base + i, frame + i)
  <2>1. i + 1 \in 0 .. length /\ i + 1 # 0 /\ (i + 1) - 1 = i /\ base + (i + 1) - 1 = base + i
      /\ frame + (i + 1) - 1 = frame + i
    OBVIOUS
  <2>2. after[i + 1] = MapPage(after[(i + 1) - 1], base + (i + 1) - 1,
                                frame + (i + 1) - 1)
    BY <1>6, <2>1
  <2> QED BY <2>1, <2>2
<1> QED BY <1>7, <1>8, <1>9 DEF IsPageLoop, start

\* The same at given frames, which are kept no longer.
LEMMA PagesMapped ==
  ASSUME MemorySuffices, NEW h, NEW l, NEW fixed, NEW kept, kept \subseteq VgaFrames,
         NEW base \in Nat, NEW length \in Nat, TablePages <= base, base + length <= HYPERSPACE,
         NEW start, start = ReservedIfFree(h, base, 1, length),
         HatSound(start, l, fixed, kept),
         \A page \in base .. base + length - 1 : Mappable(start, page),
         NEW frame \in Int, frame .. frame + length - 1 \subseteq DmaFrames \cup kept, start.fromPfd
  PROVE  IsGrown(MapPages(h, base, frame, length), start, base .. base + length - 1, l, fixed,
                 kept \ (frame .. frame + length - 1), 0)
<1>1. start \in Hats BY DEF HatSound
<1>2. PICK after : IsPageLoop(after, start, h, base, frame, length)
  <2>1. base + length <= VirtualPages BY Layout
  <2> QED BY <1>1, <2>1, PageLoop
<1>3. /\ after[0] = start /\ MapPages(h, base, frame, length) = after[length]
      /\ \A i \in 0 .. length - 1 : after[i + 1] = MapPage(after[i], base + i, frame + i)
  BY <1>2 DEF IsPageLoop
<1> DEFINE Kept(i) == kept \ (frame .. frame + i - 1)
           Right(i) == IsGrown(after[i], start, base .. base + i - 1, l, fixed, Kept(i), 0)
           P == {i \in 0 .. length : Right(i)}
<1>4. Right(0)
  <2>1. Maps(start, start, {}) BY MapsNothing
  <2>2. Maps(start, start, base .. base + 0 - 1) BY <2>1, MapsOnly
  <2>3. Kept(0) \subseteq kept /\ Room(start, 0) BY DEF Room
  <2> HIDE DEF Kept
  <2>4. HatSound(start, l, fixed, Kept(0)) BY <2>3, KeptLess
  <2> QED BY <1>3, <2>2, <2>3, <2>4 DEF IsGrown
<1>5. ASSUME NEW i \in 0 .. length - 1, Right(i) PROVE Right(i + 1)
  <2> DEFINE k == after[i]
             page == base + i
             f == frame + i
  <2>1. /\ Kept(i) \ {f} = Kept(i + 1) /\ Kept(i) \subseteq VgaFrames
        /\ f \in DmaFrames \cup Kept(i)
    <3>1. f \in frame .. frame + length - 1 /\ f \notin frame .. frame + i - 1 OBVIOUS
    <3>2. frame .. frame + (i + 1) - 1 = (frame .. frame + i - 1) \cup {f} OBVIOUS
    <3> QED BY <3>1, <3>2
  <2>2. page \in base .. base + length - 1 /\ page < HYPERSPACE /\ page \in Beyond
        /\ page \notin base .. base + i - 1
    BY Layout DEF Beyond, VirtualSpace
  <2> HIDE DEF k, page, f, Kept
  <2>3. /\ HatSound(k, l, fixed, Kept(i)) /\ k.fromPfd
        /\ Maps(k, start, base .. base + i - 1) /\ (start.panicked => k.panicked)
    BY <1>5, <2>1 DEF IsGrown, k, Maps
  <2>4. Mappable(k, page)
    <3>1. Mappable(start, page) BY <2>2
    <3>2. Frame(k, page) = Frame(start, page) /\ ToSet(start.map) \subseteq ToSet(k.map)
      BY <2>2, <2>3 DEF Maps
    <3> QED BY <2>3, <3>1, <3>2 DEF Mappable, Reserved
  <2>5. IsGrown(MapPage(k, page, f), k, {page}, l, fixed, Kept(i + 1), 0)
    <3>1. IsGrown(MapPage(k, page, f), k, {page}, l, fixed, Kept(i) \ {f}, 0)
      BY <2>1, <2>2, <2>3, <2>4, PageMapped
    <3> QED BY <2>1, <3>1
  <2>6. after[i + 1] = MapPage(k, page, f) BY <1>3 DEF k, page, f
  <2>7. (base .. base + i - 1) \cup {page} = base .. base + (i + 1) - 1 BY DEF page
  <2>8. Maps(after[i + 1], start, base .. base + (i + 1) - 1)
    <3>1. Maps(after[i + 1], k, {page}) BY <2>5, <2>6 DEF IsGrown
    <3>2. Maps(after[i + 1], start, (base .. base + i - 1) \cup {page}) BY <2>3, <3>1, MapsThen
    <3> QED BY <2>7, <3>2
  <2> QED BY <2>3, <2>5, <2>6, <2>8 DEF IsGrown
<1>6. Right(length)
  <2> HIDE DEF Right, Kept
  <2>1. 0 \in P BY <1>4
  <2>2. ASSUME NEW i \in 0 .. length - 1, i \in P PROVE i + 1 \in P BY <1>5, <2>2
  <2> HIDE DEF P
  <2>3. 0 .. length \subseteq P BY <2>1, <2>2, RangeInduction DEF Climbs
  <2>4. length \in 0 .. length OBVIOUS
  <2> QED BY <2>3, <2>4 DEF P
<1> QED BY <1>3, <1>6

-----------------------------------------------------------------------------
(***************************************************************************)
(* Reservations: behind the block, or of one of the loader's segments.     *)
(***************************************************************************)

\* What reserving s leaves, wherever s lies.
IsReservedHat(r, h, s) == r = [h EXCEPT !.map = SortedInsert(h.map, s)]

\* Reserving a segment apart from all others leaves the tables and frames sound.
LEMMA SegmentReserved ==
  ASSUME NEW h, NEW l, NEW fixed, NEW kept, HatSound(h, l, fixed, kept),
         NEW s \in Segments, 0 <= s.base, 1 <= s.length, s.base + s.length <= VirtualPages,
         \A t \in ToSet(h.map) : Apart(s, t), NEW r, ~h.panicked, IsReservedHat(r, h, s)
  PROVE  /\ r \in Hats /\ MapInOrder(r.map) /\ ToSet(r.map) = ToSet(h.map) \cup {s}
         /\ r.directory = h.directory /\ r.last = h.last /\ ~r.panicked
         /\ TablesSound(r) /\ FramesSound(r, kept) /\ Maps(r, h, {})
         /\ \A page : Frame(r, page) = Frame(h, page)
<1>1. h \in Hats /\ MapSound(h, l, fixed) /\ TablesSound(h) /\ FramesSound(h, kept) BY DEF HatSound
<1>2. /\ r.map = SortedInsert(h.map, s)
      /\ r.directory = h.directory /\ r.table = h.table /\ r.last = h.last
      /\ r.fromPfd = h.fromPfd /\ r.free = h.free /\ r.used = h.used /\ r.panicked = h.panicked
  BY <1>1 DEF Hats, IsReservedHat
<1>3. MapInOrder(r.map) /\ ToSet(r.map) = ToSet(h.map) \cup {s}
  BY <1>1, <1>2, Inserted DEF MapSound
<1>4. r \in Hats
  <2>1. r.map \in Seq(Segments) BY <1>3 DEF MapInOrder
  <2>2. SortedInsert(h.map, s) \in Seq(Segments) BY <1>2, <2>1
  <2>3. r = [h EXCEPT !.map = SortedInsert(h.map, s)] BY DEF IsReservedHat
  <2> QED BY <1>1, <2>2, <2>3 DEF Hats
<1>5. MappedIn(r) = MappedIn(h) /\ \A page : Frame(r, page) = Frame(h, page) BY <1>2, SameFrames
<1>6. TablesSound(r) BY <1>1, <1>2, <1>3 DEF TablesSound
<1>7. FramesSound(r, kept) BY <1>1, <1>2, <1>5 DEF FramesSound
<1>8. Maps(r, h, {}) BY <1>2, <1>3, <1>5 DEF Maps
<1> QED BY <1>2, <1>3, <1>4, <1>5, <1>6, <1>7, <1>8

\* Where a segment of the map can lie.
LEMMA SegmentBounds ==
  ASSUME MemorySuffices, NEW h, NEW l, NEW fixed, h \in Hats, MapSound(h, l, fixed),
         NEW s \in ToSet(h.map)
  PROVE  /\ s \in Segments /\ s.base \in Int /\ s.length \in Int
         /\ \/ s.base + s.length <= l
            \/ s \in fixed /\ (s = Stack \/ s = Context)
            \/ HYPERSPACE <= s.base
<1>1. s \in Segments
  <2>1. h.map \in Seq(Segments) BY DEF Hats
  <2> QED BY <2>1 DEF ToSet
<1>2. \A d \in Directories : s = Table(d) => HYPERSPACE <= s.base
  BY PageOfTable DEF Table, Segment
<1> QED BY <1>1, <1>2 DEF Segments, MapSound

\* r is what reserving length pages behind the block leaves, if it was h.
IsReserved(r, h, l, length, fixed, kept) ==
  /\ \E m \in {l, l + length} :
       /\ HatSound(r, m, fixed, kept)
       /\ ~r.panicked => m = l + length /\ Segment(l, length) \in ToSet(r.map)
  /\ Maps(r, h, {}) /\ (h.panicked => r.panicked)
  /\ \A n : Room(h, n) => Room(r, n)
  /\ \A page \in l .. l + length - 1 : Mappable(r, page)

\* A range right behind the block is reserved: the block grows, or a panic.
LEMMA BlockReserved ==
  ASSUME MemorySuffices, NEW h, NEW l, NEW fixed, NEW kept, HatSound(h, l, fixed, kept),
         NEW length \in Nat \ {0}, l + length < ContextBase
  PROVE  IsReserved(Reserve(h, l, length), h, l, length, fixed, kept)
<1> DEFINE s == Segment(l, length)
<1>1. h \in Hats /\ MapSound(h, l, fixed) /\ TablesSound(h) /\ FramesSound(h, kept) BY DEF HatSound
<1>2. l \in Nat /\ KernelBase <= l /\ l < ContextBase BY <1>1 DEF MapSound
<1>3. CASE h.panicked \/ CannotReserve(h.map, l)
  <2>1. Reserve(h, l, length) = Panic(h) BY <1>3 DEF Reserve
  <2> QED BY <2>1, PanicSound DEF IsReserved, Mappable
<1>4. CASE ~(h.panicked \/ CannotReserve(h.map, l))
  <2> DEFINE r == [h EXCEPT !.map = SortedInsert(h.map, s)]
  <2>1. Reserve(h, l, length) = r BY <1>4 DEF Reserve
  <2>2. s \in Segments /\ s.base = l /\ s.length = length BY <1>2 DEF Segment, Segments
  <2> HIDE DEF r, s
  <2>3. \A t \in ToSet(h.map) : Apart(s, t)
    <3> SUFFICES ASSUME NEW t \in ToSet(h.map) PROVE Apart(s, t) OBVIOUS
    <3>1. /\ t \in Segments /\ t.base \in Int /\ t.length \in Int
          /\ \/ t.base + t.length <= l
             \/ t \in fixed /\ (t = Stack \/ t = Context)
             \/ HYPERSPACE <= t.base
      BY <1>1, SegmentBounds
    <3>2. t = Stack \/ t = Context => ContextBase <= t.base
      BY Layout DEF Stack, Context, Segment
    <3> QED BY <1>2, <2>2, <3>1, <3>2, Layout DEF Apart
  <2>4. 0 <= s.base /\ 1 <= s.length /\ s.base + s.length <= VirtualPages
    BY <1>2, <2>2, Layout
  <2>5. /\ r \in Hats /\ MapInOrder(r.map) /\ ToSet(r.map) = ToSet(h.map) \cup {s}
        /\ r.directory = h.directory /\ r.last = h.last /\ ~r.panicked
        /\ TablesSound(r) /\ FramesSound(r, kept) /\ Maps(r, h, {})
        /\ \A page : Frame(r, page) = Frame(h, page)
    <3>1. ~h.panicked /\ IsReservedHat(r, h, s) BY <1>4 DEF r, IsReservedHat
    <3> QED BY <2>2, <2>3, <2>4, <3>1, SegmentReserved
  <2>6. Block(r.map, l + length)
    <3>1. ASSUME NEW t \in ToSet(r.map)
          PROVE \/ KernelBase <= t.base /\ t.base + t.length <= l + length
                \/ ContextBase <= t.base
      <4>1. CASE t = s BY <1>2, <2>2, <4>1
      <4>2. CASE t \in ToSet(h.map)
        <5>1. t.base \in Int /\ t.length \in Int BY <1>1, <4>2, SegmentBounds
        <5>2. (KernelBase <= t.base /\ t.base + t.length <= l) \/ ContextBase <= t.base
          BY <1>1, <4>2 DEF MapSound, Block
        <5> QED BY <1>2, <5>1, <5>2
      <4> QED BY <2>5, <4>1, <4>2
    <3>2. ASSUME NEW page \in KernelBase .. (l + length) - 1
          PROVE \E t \in ToSet(r.map) : Holds(t, page)
      <4>1. CASE page < l
        <5>1. page \in KernelBase .. l - 1 BY <1>2, <4>1
        <5> QED BY <1>1, <2>5, <5>1 DEF MapSound, Block
      <4>2. CASE l <= page
        <5>1. Holds(s, page) BY <1>2, <2>2, <4>2 DEF Holds
        <5> QED BY <2>5, <5>1
      <4>3. page \in Int /\ l \in Int BY <1>2, Layout
      <4> QED BY <4>1, <4>2, <4>3
    <3> QED BY <3>1, <3>2 DEF Block
  <2>7. MapSound(r, l + length, fixed)
    <3>1. ASSUME NEW t \in ToSet(r.map)
          PROVE \/ t.base + t.length <= l + length \/ t \in fixed
                \/ \E d \in Directories : r.directory[d] # None /\ t = Table(d)
      <4>1. CASE t = s BY <1>2, <2>2, <4>1, Layout
      <4>2. CASE t \in ToSet(h.map)
        <5>1. t.base \in Int /\ t.length \in Int BY <1>1, <4>2, SegmentBounds
        <5> QED BY <1>1, <1>2, <2>5, <4>2, <5>1 DEF MapSound
      <4> QED BY <2>5, <4>1, <4>2
    <3>2. \A d \in Directories : r.directory[d] # None => Table(d) \in ToSet(r.map)
      BY <1>1, <2>5 DEF MapSound
    <3>3. fixed \subseteq {Stack, Context} /\ fixed \subseteq ToSet(r.map)
      BY <1>1, <2>5 DEF MapSound
    <3>4. l + length \in Nat /\ KernelBase <= l + length BY <1>2, Layout
    <3> QED BY <2>5, <2>6, <3>1, <3>2, <3>3, <3>4 DEF MapSound
  <2>8. ASSUME NEW page \in l .. l + length - 1 PROVE Mappable(r, page)
    <3>1. page \in Beyond /\ l <= page /\ page < ContextBase /\ page < HYPERSPACE
      BY <1>2, Layout DEF Beyond, VirtualSpace
    <3>2. Holds(s, page) BY <1>2, <2>2 DEF Holds
    <3>3. \A t \in fixed : ~Holds(t, page)
      <4>1. \A t \in {Stack, Context} : ContextBase <= t.base
        BY Layout DEF Stack, Context, Segment
      <4>2. \A t \in {Stack, Context} : t.base \in Int BY Layout DEF Stack, Context, Segment
      <4> QED BY <1>1, <1>2, <3>1, <4>1, <4>2, Layout DEF Holds, MapSound
    <3>4. Frame(h, page) = None BY <1>1, <3>1, <3>3, UnreservedIsUnmapped
    <3> QED BY <2>5, <3>2, <3>4 DEF Mappable, Reserved
  <2>9. \A n : Room(h, n) => Room(r, n) BY <2>5 DEF Room, Maps
  <2>10. HatSound(r, l + length, fixed, kept) BY <2>5, <2>7 DEF HatSound
  <2> QED BY <1>4, <2>1, <2>5, <2>8, <2>9, <2>10 DEF IsReserved, s
<1> QED BY <1>3, <1>4

\* q is r, or r with the panic of a call.
IsStopped(q, r, l, fixed, kept) ==
  /\ HatSound(q, l, fixed, kept) /\ Maps(q, r, {}) /\ (r.panicked => q.panicked)
  /\ \A n : Room(r, n) => Room(q, n)
  /\ \A page : Mappable(r, page) => Mappable(q, page)

\* Doing nothing, and a panic, leave such a hat.
LEMMA Stopped ==
  ASSUME NEW r, NEW l, NEW fixed, NEW kept, HatSound(r, l, fixed, kept)
  PROVE  IsStopped(r, r, l, fixed, kept) /\ IsStopped(Panic(r), r, l, fixed, kept)
<1>1. Maps(r, r, {}) BY MapsNothing
<1>2. IsStopped(r, r, l, fixed, kept) BY <1>1 DEF IsStopped
<1>3. IsStopped(Panic(r), r, l, fixed, kept) BY PanicSound DEF IsStopped, Mappable
<1> QED BY <1>2, <1>3

\* A range that starts in a segment is not reserved again.
LEMMA ReservedOnce ==
  ASSUME MemorySuffices, NEW r, NEW l, NEW fixed, NEW kept, HatSound(r, l, fixed, kept),
         NEW base \in Nat \ {0}, NEW tested \in Nat, NEW length,
         r.panicked \/ \E t \in ToSet(r.map) : Holds(t, base) /\ t.base + t.length < VirtualPages
  PROVE  IsStopped(ReservedIfFree(r, base, tested, length), r, l, fixed, kept)
<1> DEFINE q == ReservedIfFree(r, base, tested, length)
<1>1. q = r \/ q = Panic(r)
  <2>1. CASE r.panicked
    <3>1. Reserve(r, base, length) = Panic(r) BY <2>1 DEF Reserve
    <3> QED BY <3>1 DEF ReservedIfFree
  <2>2. CASE ~r.panicked
    <3>1. PICK t \in ToSet(r.map) : Holds(t, base) /\ t.base + t.length < VirtualPages BY <2>2
    <3>2. MapInOrder(r.map) /\ r.map \in Seq(Segments) BY DEF HatSound, MapSound, MapInOrder
    <3>3. PICK k \in 1 .. Len(r.map) : t = r.map[k]
      <4>1. DOMAIN r.map = 1 .. Len(r.map) BY <3>2
      <4> QED BY <4>1 DEF ToSet
    <3>4. NextFree(r.map, base, tested) # base BY <3>1, <3>2, <3>3, Layout, ReservedIsNotFree
    <3> QED BY <3>4 DEF ReservedIfFree
  <2> QED BY <2>1, <2>2
<1> HIDE DEF q
<1>2. IsStopped(q, r, l, fixed, kept) BY <1>1, Stopped
<1> QED BY <1>2 DEF q

\* r is what reserving s, one of the loader's segments, leaves, if it was h.
IsLoaderReserved(r, h, s, l, fixed, kept) ==
  /\ \/ r.panicked /\ HatSound(r, l, fixed, kept)
     \/ ~r.panicked /\ HatSound(r, l, fixed \cup {s}, kept) /\ s \in ToSet(r.map)
  /\ Maps(r, h, {}) /\ (h.panicked => r.panicked)
  /\ \A n : Room(h, n) => Room(r, n)
  /\ \A page : Holds(s, page) /\ page \in Nat => Mappable(r, page)

\* The stack and the boot context are apart from all that is reserved.
LEMMA LoaderSegmentReserved ==
  ASSUME MemorySuffices, NEW h, NEW l, NEW fixed, NEW kept, HatSound(h, l, fixed, kept),
         NEW s \in {Stack, Context}, s \notin fixed
  PROVE  IsLoaderReserved(Reserve(h, s.base, s.length), h, s, l, fixed, kept)
<1>1. h \in Hats /\ MapSound(h, l, fixed) /\ TablesSound(h) /\ FramesSound(h, kept) BY DEF HatSound
<1>2. l \in Nat /\ KernelBase <= l /\ l < ContextBase BY <1>1 DEF MapSound
<1>3. /\ s \in Segments /\ s.base \in Nat /\ s.length \in Nat \ {0}
      /\ ContextBase <= s.base /\ s.base + s.length <= HYPERSPACE
      /\ s = Segment(s.base, s.length)
      /\ \A t \in {Stack, Context} : t # s => Apart(s, t)
  <2>1. Stack.base = StackBase /\ Stack.length = StackPages
        /\ Context.base = ContextBase /\ Context.length = ContextPages
    BY DEF Stack, Context, Segment
  <2>2. Stack \in Segments /\ Context \in Segments
    BY Layout DEF Stack, Context, Segment, Segments
  <2>3. Apart(Stack, Context) /\ Apart(Context, Stack) BY <2>1, Layout DEF Apart
  <2>4. s = Segment(s.base, s.length) BY <2>1 DEF Stack, Context
  <2> QED BY <2>1, <2>2, <2>3, <2>4, Layout
<1>4. CASE h.panicked \/ CannotReserve(h.map, s.base)
  <2>1. Reserve(h, s.base, s.length) = Panic(h) BY <1>4 DEF Reserve
  <2> QED BY <2>1, PanicSound DEF IsLoaderReserved, Mappable
<1>5. CASE ~(h.panicked \/ CannotReserve(h.map, s.base))
  <2> DEFINE r == [h EXCEPT !.map = SortedInsert(h.map, s)]
  <2>1. Reserve(h, s.base, s.length) = r BY <1>3, <1>5 DEF Reserve
  <2>2. ~h.panicked /\ IsReservedHat(r, h, s) BY <1>5 DEF IsReservedHat
  <2> HIDE DEF r
  <2>3. \A t \in ToSet(h.map) : Apart(s, t)
    <3> SUFFICES ASSUME NEW t \in ToSet(h.map) PROVE Apart(s, t) OBVIOUS
    <3>1. /\ t \in Segments /\ t.base \in Int /\ t.length \in Int
          /\ \/ t.base + t.length <= l
             \/ t \in fixed /\ (t = Stack \/ t = Context)
             \/ HYPERSPACE <= t.base
      BY <1>1, SegmentBounds
    <3>2. CASE t \in fixed BY <1>3, <3>1, <3>2, <1>1 DEF MapSound
    <3>3. CASE t \notin fixed BY <1>2, <1>3, <3>1, <3>3, Layout DEF Apart
    <3> QED BY <3>2, <3>3
  <2>4. 0 <= s.base /\ 1 <= s.length /\ s.base + s.length <= VirtualPages
    BY <1>3, Layout
  <2>5. /\ r \in Hats /\ MapInOrder(r.map) /\ ToSet(r.map) = ToSet(h.map) \cup {s}
        /\ r.directory = h.directory /\ r.last = h.last /\ ~r.panicked
        /\ TablesSound(r) /\ FramesSound(r, kept) /\ Maps(r, h, {})
        /\ \A page : Frame(r, page) = Frame(h, page)
    <3>1. s \in Segments BY <1>3
    <3>2. HatSound(h, l, fixed, kept) OBVIOUS
    <3> QED BY ONLY <2>2, <2>3, <2>4, <3>1, <3>2, SegmentReserved
  <2>6. Block(r.map, l) BY <1>1, <1>3, <2>5 DEF MapSound, Block
  <2>7. MapSound(r, l, fixed \cup {s})
    <3>1. \A t \in ToSet(r.map) : \/ t.base + t.length <= l \/ t \in fixed \cup {s}
                                  \/ \E d \in Directories : r.directory[d] # None /\ t = Table(d)
      BY <1>1, <2>5 DEF MapSound
    <3>2. \A d \in Directories : r.directory[d] # None => Table(d) \in ToSet(r.map)
      BY <1>1, <2>5 DEF MapSound
    <3>3. fixed \cup {s} \subseteq {Stack, Context} /\ fixed \cup {s} \subseteq ToSet(r.map)
      BY <1>1, <2>5 DEF MapSound
    <3> QED BY <1>2, <2>5, <2>6, <3>1, <3>2, <3>3 DEF MapSound
  <2>8. ASSUME NEW page \in Nat, Holds(s, page) PROVE Mappable(r, page)
    <3>1. page \in Beyond /\ l <= page /\ page < HYPERSPACE
      BY <1>2, <1>3, <2>8, Layout DEF Beyond, VirtualSpace, Holds
    <3>2. \A t \in fixed : ~Holds(t, page)
      <4> SUFFICES ASSUME NEW t \in fixed PROVE ~Holds(t, page) OBVIOUS
      <4>1. t \in ToSet(h.map) /\ t \in {Stack, Context} /\ t # s BY <1>1 DEF MapSound
      <4>2. Apart(s, t) BY <1>3, <4>1
      <4>3. t.base \in Int /\ t.length \in Int BY <1>1, <4>1, SegmentBounds
      <4> QED BY <1>3, <2>8, <4>2, <4>3 DEF Apart, Holds
    <3>3. Frame(h, page) = None BY <1>1, <3>1, <3>2, UnreservedIsUnmapped
    <3>4. s \in ToSet(r.map) BY <2>5
    <3> QED BY <2>5, <2>8, <3>3, <3>4 DEF Mappable, Reserved
  <2>9. \A n : Room(h, n) => Room(r, n) BY <2>5 DEF Room, Maps
  <2>10. HatSound(r, l, fixed \cup {s}, kept) BY <2>5, <2>7 DEF HatSound
  <2> QED BY <1>5, <2>1, <2>5, <2>8, <2>9, <2>10 DEF IsLoaderReserved
<1> QED BY <1>4, <1>5

\* r is what the loader's segment s, reserved and mapped, leaves, if it was h.
IsLoaderMapped(r, h, s, l, fixed, kept, n) ==
  /\ \E f \in {fixed, fixed \cup {s}} : HatSound(r, l, f, kept) /\ (~r.panicked => f = fixed \cup {s})
  /\ Maps(r, h, s.base .. s.base + s.length - 1) /\ Room(r, n)

\* Their pages are mapped after that.
LEMMA LoaderSegmentMapped ==
  ASSUME MemorySuffices, NEW h, NEW l, NEW fixed, NEW kept, kept \subseteq VgaFrames,
         HatSound(h, l, fixed, kept), NEW s \in {Stack, Context}, s \notin fixed,
         NEW n \in Nat, Room(h, n + 2 * s.length)
  PROVE  IsLoaderMapped(MapAnonPages(Reserve(h, s.base, s.length), s.base, s.length),
                        h, s, l, fixed, kept, n)
<1> DEFINE r == Reserve(h, s.base, s.length)
           start == ReservedIfFree(r, s.base, s.length, s.length)
           q == MapAnonPages(r, s.base, s.length)
           pages == s.base .. s.base + s.length - 1
<1>1. IsLoaderReserved(r, h, s, l, fixed, kept) BY LoaderSegmentReserved
<1>2. /\ s.base \in Nat \ {0} /\ s.length \in Nat \ {0}
      /\ TablePages <= s.base /\ s.base + s.length <= HYPERSPACE
  BY Layout DEF Stack, Context, Segment
<1> HIDE DEF r
<1>3. PICK f \in {fixed, fixed \cup {s}} :
        HatSound(r, l, f, kept) /\ (~r.panicked => f = fixed \cup {s} /\ s \in ToSet(r.map))
  BY <1>1 DEF IsLoaderReserved
<1>4. IsStopped(start, r, l, f, kept)
  <2>1. ~r.panicked => Holds(s, s.base) /\ s.base + s.length < VirtualPages
    BY <1>2, Layout DEF Holds
  <2>2. s.length \in Nat BY <1>2
  <2> QED BY <1>2, <1>3, <2>1, <2>2, ReservedOnce
<1>5. HatSound(start, l, f, kept) /\ Maps(start, r, {}) /\ (r.panicked => start.panicked)
      /\ Room(start, n + 2 * s.length)
  BY <1>1, <1>4 DEF IsStopped, IsLoaderReserved
<1>6. ASSUME NEW page \in pages PROVE Mappable(start, page)
  <2>1. Holds(s, page) /\ page \in Nat BY <1>2 DEF Holds
  <2> QED BY <1>1, <1>4, <2>1 DEF IsStopped, IsLoaderReserved
<1>7. IsGrown(q, start, pages, l, f, kept, n)
  <2> DEFINE k == start
  <2>1. k = ReservedIfFree(r, s.base, s.length, s.length) OBVIOUS
  <2>2. HatSound(k, l, f, kept) /\ Room(k, n + 2 * s.length) BY <1>5
  <2>3. \A page \in s.base .. s.base + s.length - 1 : Mappable(k, page) BY <1>6
  <2> HIDE DEF k
  <2> QED BY <1>2, <2>1, <2>2, <2>3, AnonPagesMapped
<1> HIDE DEF q, start, pages
<1>8. HatSound(q, l, f, kept) /\ Maps(q, start, pages) /\ Room(q, n) /\ (start.panicked => q.panicked)
  BY <1>7 DEF IsGrown
<1>9. Maps(q, h, pages)
  <2>1. Maps(r, h, pages) BY <1>1, MapsOnly DEF IsLoaderReserved
  <2>2. Maps(start, r, pages) BY <1>5, MapsOnly
  <2>3. pages \cup pages = pages OBVIOUS
  <2>4. Maps(start, h, pages) BY <2>1, <2>2, <2>3, MapsThen
  <2> QED BY <1>8, <2>3, <2>4, MapsThen
<1>10. ~q.panicked => f = fixed \cup {s} BY <1>3, <1>5, <1>8
<1> QED BY <1>8, <1>9, <1>10 DEF IsLoaderMapped, q, r, pages

\* A range behind the block is found free and reserved.
LEMMA FreeIsReserved ==
  ASSUME MemorySuffices, NEW h, NEW l, NEW fixed, NEW kept, HatSound(h, l, fixed, kept),
         NEW length \in Nat \ {0}, NEW tested \in 1 .. length, l + length < ContextBase
  PROVE  IsReserved(ReservedIfFree(h, l, tested, length), h, l, length, fixed, kept)
<1>1. /\ MapInOrder(h.map) /\ Block(h.map, l) /\ l \in Nat /\ KernelBase <= l
  BY DEF HatSound, MapSound
<1>2. NextFree(h.map, l, tested) = l
  <2>1. tested \in Nat /\ l + tested < ContextBase /\ ContextBase < VirtualPages BY <1>1, Layout
  <2> QED BY <1>1, <2>1, Layout, PlacedBehindBlock
<1>3. l # WrapsAround BY <1>1 DEF WrapsAround
<1>4. ReservedIfFree(h, l, tested, length) = Reserve(h, l, length)
  BY <1>2, <1>3 DEF ReservedIfFree
<1> QED BY <1>4, BlockReserved

\* A range of which the start has just been reserved is not reserved again.
LEMMA ReservedStays ==
  ASSUME MemorySuffices, NEW h, NEW l, NEW fixed, NEW kept, HatSound(h, l, fixed, kept),
         NEW length \in Nat \ {0}, l + length < ContextBase, NEW tested \in Nat, NEW count,
         NEW r, IsReserved(r, h, l, length, fixed, kept)
  PROVE  IsReserved(ReservedIfFree(r, l, tested, count), h, l, length, fixed, kept)
<1> DEFINE q == ReservedIfFree(r, l, tested, count)
<1>1. l \in Nat \ {0}
  <2>1. l \in Nat /\ KernelBase <= l BY DEF HatSound, MapSound
  <2> QED BY <2>1, Layout
<1>2. PICK m \in {l, l + length} :
        HatSound(r, m, fixed, kept)
        /\ (~r.panicked => m = l + length /\ Segment(l, length) \in ToSet(r.map))
  BY DEF IsReserved
<1>3. IsStopped(q, r, m, fixed, kept)
  <2>1. Holds(Segment(l, length), l) /\ l + length < VirtualPages
        /\ Segment(l, length).base + Segment(l, length).length = l + length
    BY <1>1, Layout DEF Holds, Segment
  <2> QED BY <1>1, <1>2, <2>1, ReservedOnce
<1> HIDE DEF q
<1>4. HatSound(q, m, fixed, kept) /\ Maps(q, r, {}) /\ (r.panicked => q.panicked)
      /\ (\A n : Room(r, n) => Room(q, n)) /\ \A page : Mappable(r, page) => Mappable(q, page)
  BY <1>3 DEF IsStopped
<1>5. ~q.panicked => m = l + length /\ Segment(l, length) \in ToSet(q.map)
  BY <1>2, <1>4 DEF Maps
<1>6. /\ Maps(r, h, {}) /\ (h.panicked => r.panicked) /\ (\A n : Room(h, n) => Room(r, n))
      /\ \A page \in l .. l + length - 1 : Mappable(r, page)
  BY DEF IsReserved
<1>7. Maps(q, h, {})
  <2>1. {} \cup {} = {} OBVIOUS
  <2> QED BY <1>4, <1>6, <2>1, MapsThen
<1> QED BY <1>4, <1>5, <1>6, <1>7 DEF IsReserved, q

\* q is what mapping the first pages of a range of length behind the block, and
\* reserving the range, leaves, if it was h.
IsBlockMapped(q, h, l, length, count, fixed, kept, n) ==
  /\ \E m \in {l, l + length} :
       /\ HatSound(q, m, fixed, kept)
       /\ ~q.panicked => m = l + length /\ Segment(l, length) \in ToSet(q.map)
  /\ Maps(q, h, l .. l + count - 1) /\ Room(q, n)

\* A reservation and the mapping that follows.
LEMMA ReservedThenMapped ==
  ASSUME NEW h, NEW l, NEW fixed, NEW kept, NEW less, NEW length, NEW count, NEW n,
         NEW start, IsReserved(start, h, l, length, fixed, kept), NEW q,
         \A m : HatSound(start, m, fixed, kept) =>
                  IsGrown(q, start, l .. l + count - 1, m, fixed, less, n)
  PROVE  IsBlockMapped(q, h, l, length, count, fixed, less, n)
<1> DEFINE pages == l .. l + count - 1
<1>1. PICK m \in {l, l + length} :
        HatSound(start, m, fixed, kept)
        /\ (~start.panicked => m = l + length /\ Segment(l, length) \in ToSet(start.map))
  BY DEF IsReserved
<1>2. /\ HatSound(q, m, fixed, less) /\ Room(q, n) /\ Maps(q, start, pages)
      /\ (start.panicked => q.panicked)
  BY <1>1 DEF IsGrown
<1>3. ~q.panicked => m = l + length /\ Segment(l, length) \in ToSet(q.map)
  BY <1>1, <1>2 DEF Maps
<1> HIDE DEF pages
<1>4. Maps(q, h, pages)
  <2>1. Maps(start, h, {}) /\ {} \cup pages = pages BY DEF IsReserved
  <2> QED BY <1>2, <2>1, MapsThen
<1> QED BY <1>2, <1>3, <1>4 DEF IsBlockMapped, pages

\* The calls that map a range behind the block: at frames of the allocator ...
LEMMA BlockMappedAnon ==
  ASSUME MemorySuffices, NEW h, NEW l, NEW fixed, NEW kept, kept \subseteq VgaFrames,
         HatSound(h, l, fixed, kept), NEW length \in Nat \ {0}, NEW count \in 1 .. length,
         l + length < ContextBase, NEW n \in Nat, Room(h, n + 2 * count), NEW r,
         IsReserved(ReservedIfFree(r, l, count, count), h, l, length, fixed, kept)
  PROVE  IsBlockMapped(MapAnonPages(r, l, count), h, l, length, count, fixed, kept, n)
<1> DEFINE start == ReservedIfFree(r, l, count, count)
           q == MapAnonPages(r, l, count)
<1>1. /\ l \in Nat /\ TablePages <= l /\ count \in Nat /\ l + count <= HYPERSPACE
  <2>1. l \in Nat /\ KernelBase <= l BY DEF HatSound, MapSound
  <2> QED BY <2>1, Layout
<1>2. Room(start, n + 2 * count) /\ \A page \in l .. l + length - 1 : Mappable(start, page)
  BY DEF IsReserved
<1>3. \A page \in l .. l + count - 1 : Mappable(start, page)
  <2>1. l .. l + count - 1 \subseteq l .. l + length - 1 BY <1>1
  <2> QED BY <1>2, <2>1
<1>4. ASSUME NEW m, HatSound(start, m, fixed, kept)
      PROVE  IsGrown(q, start, l .. l + count - 1, m, fixed, kept, n)
  <2> DEFINE k == start
  <2>1. k = ReservedIfFree(r, l, count, count) OBVIOUS
  <2>2. HatSound(k, m, fixed, kept) /\ Room(k, n + 2 * count) BY <1>2, <1>4
  <2>3. \A page \in l .. l + count - 1 : Mappable(k, page) BY <1>3
  <2> HIDE DEF k
  <2> QED BY <1>1, <2>1, <2>2, <2>3, AnonPagesMapped
<1> HIDE DEF start, q
<1>5. IsReserved(start, h, l, length, fixed, kept) BY DEF start
<1>6. IsBlockMapped(q, h, l, length, count, fixed, kept, n) BY <1>4, <1>5, ReservedThenMapped
<1> QED BY <1>6 DEF q

\* ... and at given frames.
LEMMA BlockMappedAt ==
  ASSUME MemorySuffices, NEW h, NEW l, NEW fixed, NEW kept, kept \subseteq VgaFrames,
         HatSound(h, l, fixed, kept), NEW length \in Nat \ {0}, l + length < ContextBase,
         NEW r, IsReserved(ReservedIfFree(r, l, 1, length), h, l, length, fixed, kept),
         NEW frame \in Int, frame .. frame + length - 1 \subseteq DmaFrames \cup kept, h.fromPfd
  PROVE  IsBlockMapped(MapPages(r, l, frame, length), h, l, length, length, fixed,
                       kept \ (frame .. frame + length - 1), 0)
<1> DEFINE start == ReservedIfFree(r, l, 1, length)
           q == MapPages(r, l, frame, length)
           less == kept \ (frame .. frame + length - 1)
<1>1. /\ l \in Nat /\ TablePages <= l /\ length \in Nat /\ l + length <= HYPERSPACE
  <2>1. l \in Nat /\ KernelBase <= l BY DEF HatSound, MapSound
  <2> QED BY <2>1, Layout
<1>2. start.fromPfd /\ \A page \in l .. l + length - 1 : Mappable(start, page)
  BY DEF IsReserved, Maps
<1>4. ASSUME NEW m, HatSound(start, m, fixed, kept)
      PROVE  IsGrown(q, start, l .. l + length - 1, m, fixed, less, 0)
  <2> DEFINE k == start
  <2>1. k = ReservedIfFree(r, l, 1, length) OBVIOUS
  <2>2. HatSound(k, m, fixed, kept) /\ k.fromPfd BY <1>2, <1>4
  <2>3. \A page \in l .. l + length - 1 : Mappable(k, page) BY <1>2
  <2> HIDE DEF k
  <2> QED BY <1>1, <2>1, <2>2, <2>3, PagesMapped
<1> HIDE DEF start, q, less
<1>5. IsReserved(start, h, l, length, fixed, kept) BY DEF start
<1>6. IsBlockMapped(q, h, l, length, length, fixed, less, 0) BY <1>4, <1>5, ReservedThenMapped
<1> QED BY <1>6 DEF q, less

-----------------------------------------------------------------------------
(***************************************************************************)
(* The page frame database.                                                *)
(***************************************************************************)

\* The list of the frames below f.
IsListBelow(s, frames, f) ==
  s \in Seq(Int) /\ IsInjective(s) /\ ToSet(s) = frames \cap (0 .. f - 1)

\* A frame put before the list of the lower ones.
LEMMA Prepended ==
  ASSUME NEW s \in Seq(Int), IsInjective(s), NEW x \in Int, x \notin ToSet(s)
  PROVE  /\ <<x>> \o s \in Seq(Int) /\ IsInjective(<<x>> \o s)
         /\ ToSet(<<x>> \o s) = ToSet(s) \cup {x}
<1> DEFINE t == <<x>> \o s
<1>1. /\ t \in Seq(Int) /\ Len(t) = Len(s) + 1 /\ Len(s) \in Nat
      /\ t[1] = x /\ \A i \in 1 .. Len(s) : t[i + 1] = s[i]
  OBVIOUS
<1> HIDE DEF t
<1>2. DOMAIN t = 1 .. Len(s) + 1 /\ DOMAIN s = 1 .. Len(s) BY <1>1
<1>3. ASSUME NEW i \in 1 .. Len(s) + 1
      PROVE  /\ i = 1 => t[i] = x
             /\ i # 1 => i - 1 \in 1 .. Len(s) /\ t[i] = s[i - 1]
  <2>1. i # 1 => i - 1 \in 1 .. Len(s) /\ (i - 1) + 1 = i BY <1>1
  <2> QED BY <1>1, <2>1
<1>4. \A i \in 1 .. Len(s) : i + 1 \in 1 .. Len(s) + 1 BY <1>1
<1>5. \A i \in 1 .. Len(s) : s[i] \in ToSet(s) BY <1>2 DEF ToSet
<1>6. IsInjective(t)
  <2> SUFFICES ASSUME NEW i \in 1 .. Len(s) + 1, NEW j \in 1 .. Len(s) + 1, t[i] = t[j]
               PROVE  i = j
    BY <1>2 DEF IsInjective
  <2>1. CASE i = 1 BY <1>3, <1>5, <2>1
  <2>2. CASE j = 1 BY <1>3, <1>5, <2>2
  <2>3. CASE i # 1 /\ j # 1
    <3>1. i - 1 \in 1 .. Len(s) /\ j - 1 \in 1 .. Len(s) /\ s[i - 1] = s[j - 1] BY <1>3, <2>3
    <3>2. i - 1 = j - 1 BY <1>2, <3>1 DEF IsInjective
    <3> QED BY <3>2
  <2> QED BY <2>1, <2>2, <2>3
<1>7. ToSet(t) = ToSet(s) \cup {x}
  <2>1. ASSUME NEW y \in ToSet(t) PROVE y \in ToSet(s) \cup {x}
    <3>1. PICK i \in 1 .. Len(s) + 1 : y = t[i] BY <1>2 DEF ToSet
    <3> QED BY <1>3, <1>5, <3>1
  <2>2. x \in ToSet(t)
    <3>1. 1 \in 1 .. Len(s) + 1 BY <1>1
    <3> QED BY <1>1, <1>2, <3>1 DEF ToSet
  <2>3. ASSUME NEW y \in ToSet(s) PROVE y \in ToSet(t)
    <3>1. PICK i \in 1 .. Len(s) : y = s[i] BY <1>2 DEF ToSet
    <3> QED BY <1>1, <1>2, <1>4, <3>1 DEF ToSet
  <2> QED BY <2>1, <2>2, <2>3
<1> QED BY <1>1, <1>6, <1>7 DEF t

\* The free list of mm_initPfd holds each of its frames once.
LEMMA FreeListFacts ==
  ASSUME NEW frames, TopFrame \in Nat
  PROVE  IsListBelow(FreeList(frames), frames, TopFrame)
<1> DEFINE Grow(f, s) == IF f - 1 \in frames THEN <<f - 1>> \o s ELSE s
           round == [f \in 1 .. TopFrame |-> [s \in Seq(Int) |-> Grow(f, s)]]
           Is(g) == g = [f \in 0 .. TopFrame |->
                           IF f = 0 THEN <<>>
                           ELSE IF f - 1 \in frames THEN <<f - 1>> \o g[f - 1] ELSE g[f - 1]]
           below == CHOOSE g : Is(g)
<1>1. ASSUME NEW f \in 1 .. TopFrame, NEW s \in Seq(Int) PROVE Grow(f, s) \in Seq(Int)
  <2>1. f - 1 \in Int OBVIOUS
  <2>2. <<f - 1>> \o s \in Seq(Int) BY <2>1
  <2> QED BY <2>2
<1>2. round \in [1 .. TopFrame -> [Seq(Int) -> Seq(Int)]]
  <2> HIDE DEF Grow
  <2> QED BY <1>1
<1>3. PICK g : IsLoop(g, Seq(Int), TopFrame, <<>>, round)
  <2> HIDE DEF round
  <2>1. <<>> \in Seq(Int) OBVIOUS
  <2> QED BY <1>2, <2>1, LoopExists
<1>4. ASSUME NEW f \in 1 .. TopFrame PROVE round[f][g[f - 1]] = Grow(f, g[f - 1])
  <2> HIDE DEF Grow
  <2>1. f - 1 \in 0 .. TopFrame OBVIOUS
  <2>2. g[f - 1] \in Seq(Int) BY ONLY <1>3, <2>1 DEF IsLoop
  <2> QED BY ONLY <1>4, <2>2
<1>5. Is(g)
  <2>1. /\ g \in [0 .. TopFrame -> Seq(Int)] /\ g[0] = <<>>
        /\ \A f \in 1 .. TopFrame : g[f] = Grow(f, g[f - 1])
    <3> HIDE DEF round, Grow
    <3> QED BY <1>3, <1>4 DEF IsLoop
  <2>2. \A f \in 0 .. TopFrame : g[f] = IF f = 0 THEN <<>>
                           ELSE IF f - 1 \in frames THEN <<f - 1>> \o g[f - 1] ELSE g[f - 1]
    <3>1. \A f \in 0 .. TopFrame : f = 0 \/ f \in 1 .. TopFrame OBVIOUS
    <3> QED BY <2>1, <3>1
  <2> QED BY ONLY <2>1, <2>2
<1>6. Is(below) BY <1>5
<1>7. FreeList(frames) = below[TopFrame] BY DEF FreeList
<1> HIDE DEF below
<1> DEFINE P == {f \in 0 .. TopFrame : IsListBelow(below[f], frames, f)}
<1>8. 0 \in P
  <2>1. 0 \in 0 .. TopFrame /\ below[0] = <<>> BY <1>6
  <2>2. <<>> \in Seq(Int) /\ IsInjective(<<>>) /\ ToSet(<<>>) = {} BY DEF IsInjective, ToSet
  <2>3. 0 .. 0 - 1 = {} OBVIOUS
  <2> QED BY <2>1, <2>2, <2>3 DEF IsListBelow
<1>9. ASSUME NEW f \in 0 .. TopFrame - 1, f \in P PROVE f + 1 \in P
  <2>1. f + 1 \in 0 .. TopFrame /\ f + 1 # 0 /\ (f + 1) - 1 = f /\ f \in Int OBVIOUS
  <2>2. below[f + 1] = IF f \in frames THEN <<f>> \o below[f] ELSE below[f] BY <1>6, <2>1
  <2>3. below[f] \in Seq(Int) /\ IsInjective(below[f]) /\ ToSet(below[f]) = frames \cap (0 .. f - 1)
    BY <1>9 DEF IsListBelow
  <2>4. 0 .. (f + 1) - 1 = (0 .. f - 1) \cup {f} /\ f \notin 0 .. f - 1 OBVIOUS
  <2>5. CASE f \in frames
    <3>1. f \notin ToSet(below[f]) BY <2>3, <2>4
    <3>2. /\ <<f>> \o below[f] \in Seq(Int) /\ IsInjective(<<f>> \o below[f])
          /\ ToSet(<<f>> \o below[f]) = ToSet(below[f]) \cup {f}
      BY <2>1, <2>3, <3>1, Prepended
    <3>3. frames \cap (0 .. (f + 1) - 1) = ToSet(below[f]) \cup {f} BY <2>3, <2>4, <2>5
    <3>4. IsListBelow(below[f + 1], frames, f + 1) BY <2>2, <2>5, <3>2, <3>3 DEF IsListBelow
    <3> QED BY <2>1, <3>4
  <2>6. CASE f \notin frames
    <3>1. frames \cap (0 .. (f + 1) - 1) = ToSet(below[f]) BY <2>3, <2>4, <2>6
    <3>2. IsListBelow(below[f + 1], frames, f + 1) BY <2>2, <2>3, <2>6, <3>1 DEF IsListBelow
    <3> QED BY <2>1, <3>2
  <2> QED BY <2>5, <2>6
<1>10. TopFrame \in P
  <2> HIDE DEF P
  <2>1. 0 .. TopFrame \subseteq P BY <1>8, <1>9, RangeInduction DEF Climbs
  <2> QED BY <2>1
<1> QED BY <1>7, <1>10

\* Making the lists moves no page.
LEMMA Classified ==
  ASSUME MemorySuffices, NEW h, NEW l, NEW fixed, NEW kept, HatSound(h, l, fixed, kept)
  PROVE  /\ HatSound(Classify(h), l, fixed, kept) /\ Classify(h).fromPfd
         /\ Classify(h).map = h.map /\ \A page : Frame(Classify(h), page) = Frame(h, page)
<1> DEFINE r == Classify(h)
           used == FramesOf(h, ReservedPages(h))
           frames == Ram \ (used \cup (TopFrame - 4 .. TopFrame - 1))
<1>1. h \in Hats /\ MapSound(h, l, fixed) /\ TablesSound(h) /\ FramesSound(h, kept) BY DEF HatSound
<1>2. IsListBelow(FreeList(frames), frames, TopFrame) BY FrameConstants, FreeListFacts
<1>3. used \subseteq Frames
  <2> SUFFICES ASSUME NEW s \in ToSet(h.map), NEW page \in s.base .. s.base + s.length - 1,
                      Frame(h, page) # None
               PROVE  Frame(h, page) \in Frames
    BY DEF FramesOf, ReservedPages, PagesOf
  <2>1. page \in VirtualSpace /\ page \in Nat
    <3>1. DOMAIN h.map = 1 .. Len(h.map) BY <1>1 DEF Hats
    <3>2. PICK i \in 1 .. Len(h.map) : s = h.map[i] BY <3>1 DEF ToSet
    <3>3. MapInOrder(h.map) BY <1>1 DEF MapSound
    <3>4. 0 <= s.base /\ s.base + s.length <= VirtualPages /\ s.base \in Int /\ s.length \in Int
      BY <3>2, <3>3, SegmentsOfMap
    <3>5. page \in Int /\ s.base <= page /\ page < s.base + s.length BY <3>4
    <3>6. VirtualPages \in Nat BY Layout
    <3>7. 0 <= page /\ page < VirtualPages BY <3>4, <3>5, <3>6
    <3> QED BY <3>5, <3>6, <3>7 DEF VirtualSpace
  <2>2. CASE page < HYPERSPACE BY <1>1, <2>1, <2>2, FrameOf DEF TablesSound
  <2>3. CASE HYPERSPACE <= page BY <1>1, <2>1, <2>3, FrameOf DEF TablesSound
  <2> QED BY <2>1, <2>2, <2>3, Layout
<1>4. r = [h EXCEPT !.used = used, !.fromPfd = TRUE, !.free = FreeList(frames)] BY DEF Classify
<1> HIDE DEF r, frames, used
<1>5. FreeList(frames) \in Seq(Int) /\ used \in SUBSET Int
  BY <1>2, <1>3, FrameConstants DEF IsListBelow
<1>6. /\ r \in Hats /\ r.map = h.map /\ r.directory = h.directory /\ r.table = h.table
      /\ r.last = h.last /\ r.fromPfd = TRUE /\ r.free = FreeList(frames) /\ r.used = used
  BY <1>1, <1>4, <1>5 DEF Hats
<1>7. MappedIn(r) = MappedIn(h) /\ \A page : Frame(r, page) = Frame(h, page) BY <1>6, SameFrames
<1>8. MapSound(r, l, fixed) BY <1>1, <1>6 DEF MapSound
<1>9. TablesSound(r) BY <1>1, <1>6 DEF TablesSound
<1>10. ToSet(r.free) \subseteq Ram /\ r.used \cap ToSet(r.free) = {}
  BY <1>2, <1>6 DEF IsListBelow, frames
<1>11. \A page \in MappedIn(r) : Frame(r, page) \notin ToSet(r.free)
  <2> SUFFICES ASSUME NEW page \in MappedIn(h) PROVE Frame(h, page) \in used
    BY <1>6, <1>7, <1>10
  <2>1. PICK s \in ToSet(h.map) : Holds(s, page) BY <1>1, MappedIsReserved
  <2>2. page \in Nat /\ Frame(h, page) # None BY Layout DEF MappedIn, Beyond, VirtualSpace
  <2>3. s.base \in Int /\ s.length \in Int BY <1>1, SegmentBounds
  <2>4. page \in s.base .. s.base + s.length - 1 BY <2>1, <2>2, <2>3 DEF Holds
  <2>5. page \in ReservedPages(h) BY <2>4 DEF ReservedPages, PagesOf
  <2> QED BY <2>2, <2>5 DEF used, FramesOf
<1>12. FramesSound(r, kept)
  <2>1. IsInjective(r.free) BY <1>2, <1>6 DEF IsListBelow
  <2> QED BY <1>1, <1>3, <1>6, <1>7, <1>10, <1>11, <2>1 DEF FramesSound
<1> QED BY <1>6, <1>7, <1>8, <1>9, <1>12 DEF HatSound, r

-----------------------------------------------------------------------------
(***************************************************************************)
(* What the loader starts with.                                            *)
(***************************************************************************)

\* The map after the two first reservations.
LEMMA TwoTables ==
  ASSUME MemorySuffices,
         NEW first, first = SortedInsert(<<>>, Table(HyperDirectory)),
         NEW second, second = SortedInsert(first, Table(0))
  PROVE  /\ ~CannotReserve(<<>>, TablePage(HyperDirectory)) /\ ~CannotReserve(first, TablePage(0))
         /\ MapInOrder(second) /\ ToSet(second) = {Table(HyperDirectory), Table(0)}
<1> DEFINE hyper == Table(HyperDirectory)
           zero == Table(0)
<1>1. /\ HyperDirectory \in Directories /\ 0 \in Directories /\ HyperDirectory # 0
      /\ HyperDirectory \in Nat
  BY Layout
<1>2. \A d \in Directories :
        /\ Table(d) \in Segments /\ Table(d).base = TablePage(d) /\ Table(d).length = 1
        /\ 0 <= TablePage(d) /\ TablePage(d) \in Int /\ TablePage(d) + 1 <= VirtualPages
  <2> SUFFICES ASSUME NEW d \in Directories
               PROVE  /\ Table(d) \in Segments /\ Table(d).base = TablePage(d) /\ Table(d).length = 1
                      /\ 0 <= TablePage(d) /\ TablePage(d) \in Int /\ TablePage(d) + 1 <= VirtualPages
    OBVIOUS
  <2>1. TablePage(d) \in VirtualSpace BY PageOfTable
  <2>2. VirtualPages \in Nat BY Layout
  <2>3. 0 <= TablePage(d) /\ TablePage(d) \in Int /\ TablePage(d) + 1 <= VirtualPages
    BY ONLY <2>1, <2>2 DEF VirtualSpace
  <2>4. Table(d) = [base |-> TablePage(d), length |-> 1] BY DEF Table, Segment
  <2>5. Table(d) \in Segments BY ONLY <2>3, <2>4 DEF Segments
  <2> QED BY ONLY <2>3, <2>4, <2>5
<1>3. MapInOrder(<<>>) /\ ToSet(<<>>) = {} /\ <<>> \in Seq(Segments) /\ Len(<<>>) = 0
  BY DEF MapInOrder, ToSet
<1>4. \A t \in ToSet(<<>>) : Apart(hyper, t) BY <1>3
<1>5. hyper \in Segments /\ 0 <= hyper.base /\ 1 <= hyper.length /\ hyper.base + hyper.length <= VirtualPages
  BY <1>1, <1>2
<1>6. MapInOrder(first) /\ ToSet(first) = {hyper}
  <2> HIDE DEF hyper
  <2>1. first = SortedInsert(<<>>, hyper) BY DEF hyper
  <2> QED BY <1>3, <1>4, <1>5, <2>1, Inserted
<1>7. first \in Seq(Segments) /\ Len(first) = 1
  <2> HIDE DEF hyper
  <2>1. PICK k \in 1 .. Len(<<>>) + 1 : SortedInsert(<<>>, hyper) = InsertAt(<<>>, k, hyper)
    BY <1>3, <1>5, InsertionPlace
  <2>2. first = InsertAt(<<>>, k, hyper) BY <2>1 DEF hyper
  <2>3. InsertAt(<<>>, k, hyper) \in Seq(Segments)
        /\ Len(InsertAt(<<>>, k, hyper)) = Len(<<>>) + 1
    BY <1>3, <1>5, InsertAtFacts
  <2> QED BY <1>3, <2>2, <2>3
<1>8. TablePage(0) # TablePage(HyperDirectory) BY <1>1, Layout DEF TablePage
<1>9. Apart(zero, hyper) BY <1>1, <1>2, <1>8 DEF Apart
<1>10. MapInOrder(second) /\ ToSet(second) = {hyper, zero}
  <2>1. zero \in Segments /\ 0 <= zero.base /\ 1 <= zero.length /\ zero.base + zero.length <= VirtualPages
    BY <1>1, <1>2
  <2>2. \A t \in ToSet(first) : Apart(zero, t) BY <1>6, <1>9
  <2> HIDE DEF hyper, zero
  <2>3. second = SortedInsert(first, zero) BY DEF zero
  <2> QED BY <1>6, <2>1, <2>2, <2>3, Inserted
<1>11. MaxSegments >= 2 /\ MaxSegments \in Nat
  <2>1. SufficesFor(ImageEnd, Largest) BY Sufficient
  <2> QED BY <2>1, Layout DEF SufficesFor
<1>12. ~CannotReserve(<<>>, TablePage(HyperDirectory))
  <2>1. DOMAIN <<>> = {} OBVIOUS
  <2> QED BY <1>3, <1>11, <2>1 DEF CannotReserve
<1>13. ~CannotReserve(first, TablePage(0))
  <2>1. \A i \in DOMAIN first : first[i].base = TablePage(HyperDirectory)
    <3>1. \A i \in DOMAIN first : first[i] \in ToSet(first) BY DEF ToSet
    <3> QED BY <1>1, <1>2, <1>6, <3>1
  <2> QED BY <1>7, <1>8, <1>11, <2>1 DEF CannotReserve
<1> QED BY <1>10, <1>12, <1>13

\* hat_initInitialPaging leaves a sound hat, with no block.
LEMMA InitialPagingSound ==
  ASSUME MemorySuffices
  PROVE  /\ HatSound(InitialPaging(TopFrame), KernelBase, {}, VgaFrames)
         /\ Room(InitialPaging(TopFrame), 2 * LoadedPages(ImageEnd))
<1> DEFINE identity == TopFrame - 4
           root == TopFrame - 3
           directory == [d \in Directories |-> IF d = 0 THEN identity ELSE
                                               IF d = HyperDirectory THEN root ELSE None]
           table == [page \in VirtualSpace |-> IF page < TablePages THEN page ELSE None]
           Blank(map) == [map |-> map, directory |-> directory, table |-> table,
                          last |-> identity, fromPfd |-> FALSE,
                          free |-> <<>>, used |-> {}, panicked |-> FALSE]
           first == SortedInsert(<<>>, Table(HyperDirectory))
           second == SortedInsert(first, Table(0))
           r == Blank(second)
<1>1. InitialPaging(TopFrame) = Reserve(Reserve(Blank(<<>>), TablePage(HyperDirectory), 1), TablePage(0), 1)
  BY DEF InitialPaging
<1>2. /\ ~CannotReserve(<<>>, TablePage(HyperDirectory)) /\ ~CannotReserve(first, TablePage(0))
      /\ MapInOrder(second) /\ ToSet(second) = {Table(HyperDirectory), Table(0)}
  <2> HIDE DEF second, first
  <2> QED BY TwoTables DEF first, second
<1> HIDE DEF directory, table, identity, root
<1>3. Reserve(Blank(<<>>), TablePage(HyperDirectory), 1) = Blank(first)
  BY <1>2 DEF Reserve, Table
<1>4. Reserve(Blank(first), TablePage(0), 1) = r BY <1>2 DEF Reserve, Table
<1>5. InitialPaging(TopFrame) = r BY <1>1, <1>3, <1>4
<1>6. /\ identity \in Frames /\ root \in Frames /\ root = identity + 1 /\ identity \in Nat
      /\ identity \in Int /\ root \in Int /\ identity # None /\ root # None
      /\ identity = LoaderFirst + 2 * LoadedPages(ImageEnd)
      /\ identity \notin VgaFrames /\ root \notin VgaFrames
  <2>1. identity = LoaderFirst + 2 * LoadedPages(ImageEnd) /\ identity \in Nat
        /\ root = identity + 1 /\ root < TopFrame /\ LoaderFirst <= identity
    BY FrameConstants DEF identity, root
  <2> QED BY <2>1, FrameConstants DEF Frames, None
<1>7. /\ HyperDirectory \in Directories /\ 0 \in Directories /\ HyperDirectory # 0
      /\ HyperDirectory \in Nat /\ TablePages \in Nat \ {0} /\ VirtualPages \in Nat
      /\ TablePages <= KernelBase /\ KernelBase < ContextBase /\ ContextBase < HYPERSPACE
      /\ KernelBase \in Nat /\ HYPERSPACE \in Nat
  BY Layout
<1>8. /\ directory \in [Directories -> Frames \cup {None}]
      /\ \A d \in Directories : directory[d] = IF d = 0 THEN identity ELSE
                                               IF d = HyperDirectory THEN root ELSE None
  BY <1>6 DEF directory
<1>9. /\ table \in [VirtualSpace -> Frames \cup {None}]
      /\ \A page \in VirtualSpace : table[page] = IF page < TablePages THEN page ELSE None
  BY <1>7, FrameConstants DEF table, VirtualSpace, Frames
<1>10. /\ r.map = second /\ r.directory = directory /\ r.table = table /\ r.last = identity
       /\ r.fromPfd = FALSE /\ r.free = <<>> /\ r.used = {} /\ r.panicked = FALSE
  OBVIOUS
<1>11. r \in Hats
  <2>1. second \in Seq(Segments) BY <1>2 DEF MapInOrder
  <2>2. directory \in [Directories -> Int] /\ table \in [VirtualSpace -> Int]
    <3>1. Frames \cup {None} \subseteq Int BY FrameConstants DEF None
    <3> QED BY <1>8, <1>9, <3>1
  <2> HIDE DEF second
  <2> QED BY <1>6, <2>1, <2>2 DEF Hats
<1> HIDE DEF r, second, first
<1>12. MapSound(r, KernelBase, {})
  <2>1. \A d \in Directories : HYPERSPACE <= Table(d).base
    BY PageOfTable DEF Table, Segment
  <2>2. \A d \in Directories : Table(d).base \in Int
    <3> SUFFICES ASSUME NEW d \in Directories PROVE Table(d).base \in Int OBVIOUS
    <3>1. TablePage(d) \in Int BY PageOfTable DEF VirtualSpace
    <3> QED BY ONLY <3>1 DEF Table, Segment
  <2>3. \A s \in ToSet(r.map) : ContextBase <= s.base BY <1>2, <1>7, <1>10, <2>1, <2>2, Layout
  <2>4. KernelBase .. KernelBase - 1 = {} BY <1>7
  <2>5. Block(r.map, KernelBase) BY <2>3, <2>4 DEF Block
  <2>6. \A d \in Directories : r.directory[d] # None => d = 0 \/ d = HyperDirectory
    BY <1>8, <1>10
  <2>7. r.directory[0] # None /\ r.directory[HyperDirectory] # None
    BY <1>6, <1>7, <1>8, <1>10
  <2>8. \A d \in Directories : r.directory[d] # None => Table(d) \in ToSet(r.map)
    BY <1>2, <1>10, <2>6
  <2>9. \A s \in ToSet(r.map) : \E d \in Directories : r.directory[d] # None /\ s = Table(d)
    BY <1>2, <1>7, <1>10, <2>7
  <2> QED BY <1>2, <1>7, <1>10, <2>5, <2>8, <2>9 DEF MapSound
<1>13. TablesSound(r)
  <2> SUFFICES ASSUME NEW page \in VirtualSpace, table[page] # None
               PROVE  /\ page < HYPERSPACE /\ directory[PageDirIndex(page)] # None
                      /\ page \notin Beyond
    BY <1>8, <1>9, <1>10 DEF TablesSound
  <2>1. page \in Nat /\ page < TablePages BY <1>9 DEF VirtualSpace
  <2>2. page < HYPERSPACE BY <1>7, <2>1, Layout
  <2>3. PageDirIndex(page) = 0
    <3>1. (0 * TablePages + page) \div TablePages = 0 BY <1>7, <2>1, QuotientIs
    <3>2. 0 * TablePages + page = page BY <1>7, <2>1
    <3> QED BY <3>1, <3>2 DEF PageDirIndex
  <2>4. page \notin Beyond BY <2>1, <1>7 DEF Beyond
  <2> QED BY <1>6, <1>7, <1>8, <2>2, <2>3, <2>4
<1>14. ASSUME NEW page \in MappedIn(r)
       PROVE  \/ page = TablePage(0) /\ Frame(r, page) = identity
              \/ page = TablePage(HyperDirectory) /\ Frame(r, page) = root
  <2>1. page \in VirtualSpace /\ page \in Nat /\ TablePages <= page /\ Frame(r, page) # None
    BY <1>7 DEF MappedIn, Beyond, VirtualSpace
  <2>2. HYPERSPACE <= page
    <3> SUFFICES ASSUME page < HYPERSPACE PROVE FALSE BY <1>7, <2>1
    <3>1. table[page] # None BY <1>10, <1>11, <2>1, FrameOf
    <3> QED BY <1>7, <1>9, <2>1, <3>1
  <2>3. page - HYPERSPACE \in Directories /\ Frame(r, page) = directory[page - HYPERSPACE]
    BY <1>10, <1>11, <2>1, <2>2, FrameOf
  <2>4. page = TablePage(page - HYPERSPACE) BY <1>7, <2>1 DEF TablePage
  <2>5. page - HYPERSPACE = 0 \/ page - HYPERSPACE = HyperDirectory BY <1>8, <2>1, <2>3
  <2>6. directory[0] = identity /\ directory[HyperDirectory] = root BY <1>7, <1>8
  <2> QED BY <2>3, <2>4, <2>5, <2>6
<1>15. FramesSound(r, VgaFrames)
  <2>1. \A page \in MappedIn(r) : Frame(r, page) >= r.last BY <1>6, <1>10, <1>14
  <2>2. \A page, other \in MappedIn(r) : Frame(r, page) = Frame(r, other) => page = other
    BY <1>6, <1>14
  <2>3. \A page \in MappedIn(r) : Frame(r, page) \notin VgaFrames BY <1>6, <1>14
  <2>4. ToSet(r.free) = {} BY <1>10 DEF ToSet
  <2> QED BY <1>6, <1>10, <2>1, <2>2, <2>3, <2>4 DEF FramesSound
<1>16. Room(r, 2 * LoadedPages(ImageEnd)) BY <1>6, <1>10 DEF Room
<1> QED BY <1>5, <1>11, <1>12, <1>13, <1>15, <1>16 DEF HatSound

-----------------------------------------------------------------------------
(***************************************************************************)
(* The inductive invariant: hat is sound, each region is a segment of the  *)
(* block, and while the machine runs, as far as the initialisation has     *)
(* come, the block ends in time and there are frames for what is left.     *)
(***************************************************************************)
Phases == {"loader", "kernel", "pfd", "pool", "dma", "ready"}

KeptIn(step) == IF step = "ready" THEN {} ELSE VgaFrames

MostRegions(step) ==
  IF step = "pool" THEN 1 ELSE IF step = "dma" THEN 2
  ELSE IF step = "ready" THEN MaxRegions ELSE 0

RegionsSound(set, map, l) ==
  /\ IsFiniteSet(set)
  /\ \A r \in set : /\ r.kind \in {"pool", "dma", "device", "zero"}
                    /\ r.base \in Nat /\ r.length \in Nat \ {0}
                    /\ KernelBase <= r.base /\ r.base + r.length <= l
                    /\ Segment(r.base, r.length) \in ToSet(map)
  /\ \A r, q \in set : r # q => Apart(r, q)

InTime(h, set, step, end, l, fixed) ==
  /\ step = "loader" => /\ fixed = {} /\ l = end
                        /\ Room(h, 2 * (ImageEnd - l + StackPages + ContextPages + PfdPages))
  /\ step = "kernel" => Room(h, 2 * PfdPages)
  /\ step \in {"loader", "kernel"} => l <= ImageEnd /\ set = {}
  /\ step \notin {"loader", "kernel"} =>
       /\ h.fromPfd /\ Cardinality(set) <= MostRegions(step)
       /\ l <= ImageEnd + PfdPages + Cardinality(set) * Largest

StateSound(h, set, step, end, l, fixed) ==
  /\ HatSound(h, l, fixed, KeptIn(step)) /\ RegionsSound(set, h.map, l) /\ step \in Phases
  /\ ~h.panicked => InTime(h, set, step, end, l, fixed)

IInv == \E l, fixed : StateSound(hat, regions, phase, kernelEnd, l, fixed)

\* Room for fewer frames.
LEMMA RoomLess ==
  ASSUME MemorySuffices, NEW h \in Hats, NEW m \in Nat, NEW n \in Nat, n <= m, Room(h, m)
  PROVE  Room(h, n)
<1>1. h.last \in Int BY DEF Hats
<1> QED BY <1>1, FrameConstants DEF Room

\* The constants of the calls.
LEMMA Sizes ==
  ASSUME MemorySuffices
  PROVE  /\ ImageEnd \in Nat /\ Largest \in Nat /\ MaxRegions \in Nat /\ MaxRegions >= 3
         /\ PfdPages \in Nat \ {0} /\ PoolPages \in Nat \ {0} /\ DmaPages \in Nat \ {0}
         /\ VgaPages \in Nat \ {0} /\ VgaRequest \in Nat \ {0}
         /\ PoolPages <= Largest /\ DmaPages <= Largest /\ VgaPages <= Largest
         /\ VgaRequest <= Largest
         /\ DmaFrame \in Int /\ VgaFrame \in Int
         /\ \A s \in Sections : s \in Segments /\ s.length > 0 /\ s.base + s.length <= ImageEnd
         /\ MaxRegions * Largest \in Nat
         /\ ImageEnd + PfdPages + MaxRegions * Largest < ContextBase
<1>1. SufficesFor(ImageEnd, Largest) /\ ImageEnd \in Nat /\ Largest \in Nat BY Sufficient
<1>2. /\ {PfdPages, PoolPages, DmaPages, VgaPages, VgaRequest} \subseteq 0 .. Largest
      /\ {VgaFrame, DmaFrame} \subseteq Int
      /\ \A s \in Sections : s \in Segments /\ s.base + s.length <= ImageEnd
      /\ MaxRegions >= 3 /\ ImageEnd + PfdPages + MaxRegions * Largest < ContextBase
  BY <1>1 DEF SufficesFor, Segments
<1>3. /\ {StackPages, ContextPages, PfdPages, PoolPages, DmaPages, VgaPages, VgaRequest} \subseteq Nat \ {0}
      /\ \A s \in Sections : s.length > 0
      /\ MaxRegions \in Nat
  BY MemoryAssumption DEF MemoryAssumption
<1>4. MaxRegions * Largest \in Nat BY <1>1, <1>3
<1> QED BY <1>1, <1>2, <1>3, <1>4

\* Where the kernel looks for pages, it finds the end of the block.
LEMMA PlaceIs ==
  ASSUME MemorySuffices, NEW l, NEW fixed, NEW kept, HatSound(hat, l, fixed, kept),
         NEW pages \in Nat, l + pages < ContextBase
  PROVE  Place(pages) = l
<1>1. MapInOrder(hat.map) /\ Block(hat.map, l) /\ l \in Nat /\ KernelBase <= l
  BY DEF HatSound, MapSound
<1>2. ContextBase < VirtualPages BY Layout
<1> QED BY <1>1, <1>2, Layout, PlacedBehindBlock DEF Place

\* A page keeps its frame.
Keeps(h, r) == \A page \in Beyond : Frame(h, page) # None => Frame(r, page) = Frame(h, page)

\* A call that maps pages leaves those mapped before.
LEMMA MapsKeeps ==
  ASSUME NEW h, NEW r, NEW pages, Maps(r, h, pages)
  PROVE  Keeps(h, r)
BY DEF Maps, Keeps

\* The regions stay sound when reservations are added.
LEMMA RegionsStay ==
  ASSUME NEW set, NEW map, NEW new, NEW l \in Nat, NEW m \in Nat, l <= m, KernelBase \in Nat,
         RegionsSound(set, map, l), ToSet(map) \subseteq ToSet(new)
  PROVE  RegionsSound(set, new, m)
<1>1. ASSUME NEW r \in set
      PROVE  r.base + r.length <= m /\ Segment(r.base, r.length) \in ToSet(new)
  BY DEF RegionsSound
<1> QED BY <1>1 DEF RegionsSound

\* The initial state.
LEMMA InitSound ==
  ASSUME MemorySuffices, Init
  PROVE  IInv
<1>1. hat = InitialPaging(TopFrame) /\ regions = {} /\ kernelEnd = KernelBase /\ phase = "loader"
  BY DEF Init
<1>2. HatSound(hat, KernelBase, {}, VgaFrames) /\ Room(hat, 2 * LoadedPages(ImageEnd))
  BY <1>1, InitialPagingSound
<1>3. RegionsSound(regions, hat.map, KernelBase)
  BY <1>1, FS_EmptySet DEF RegionsSound
<1>4. KernelBase <= ImageEnd
  <2>1. SufficesFor(ImageEnd, Largest) BY Sufficient
  <2> QED BY <2>1 DEF SufficesFor
<1>5. InTime(hat, regions, phase, kernelEnd, KernelBase, {})
  <2>1. Room(hat, 2 * (ImageEnd - KernelBase + StackPages + ContextPages + PfdPages))
    BY <1>2 DEF LoadedPages
  <2> QED BY <1>1, <1>4, <2>1 DEF InTime
<1>6. StateSound(hat, regions, phase, kernelEnd, KernelBase, {})
  BY <1>1, <1>2, <1>3, <1>5 DEF StateSound, KeptIn, Phases
<1> QED BY <1>6 DEF IInv

\* A state that is sound after the step.
LEMMA SoundAfter ==
  ASSUME NEW l, NEW fixed, StateSound(hat', regions', phase', kernelEnd', l, fixed)
  PROVE  IInv'
BY DEF IInv

\* load_elf, of images without holes.
LEMMA LoadSectionPreserves ==
  ASSUME MemorySuffices, IInv, NEW section \in Sections, LoadSection(section),
         section.base = kernelEnd
  PROVE  IInv' /\ Keeps(hat, hat')
<1> DEFINE length == section.length
<1>1. PICK l, fixed : StateSound(hat, regions, phase, kernelEnd, l, fixed) BY DEF IInv
<1>2. /\ ~hat.panicked /\ phase = "loader" /\ kernelEnd' = kernelEnd + length
      /\ hat' = MapAnonPages(hat, kernelEnd, length)
      /\ regions' = regions /\ phase' = phase
  BY DEF LoadSection, Running
<1>3. /\ HatSound(hat, l, fixed, VgaFrames) /\ RegionsSound(regions, hat.map, l)
      /\ fixed = {} /\ l = kernelEnd /\ l <= ImageEnd /\ regions = {}
      /\ Room(hat, 2 * (ImageEnd - l + StackPages + ContextPages + PfdPages))
  BY <1>1, <1>2 DEF StateSound, InTime, KeptIn
<1>4. l \in Nat BY <1>3 DEF HatSound, MapSound
<1>5. /\ length \in Nat \ {0} /\ l + length <= ImageEnd /\ l + length < ContextBase
  <2>1. section \in Segments /\ section.length > 0 /\ section.base + section.length <= ImageEnd
    BY Sizes
  <2>2. length \in Int BY <2>1 DEF Segments
  <2>3. length \in Nat \ {0} BY <2>1, <2>2
  <2>4. l + length <= ImageEnd BY <1>3, <2>1
  <2>5. ImageEnd <= ContextBase - 1 BY Sizes, Layout
  <2> QED BY <1>4, <2>3, <2>4, <2>5, Sizes, Layout
<1> HIDE DEF length
<1> DEFINE rest == 2 * (ImageEnd - (l + length) + StackPages + ContextPages + PfdPages)
<1>6. rest \in Nat /\ 2 * (ImageEnd - l + StackPages + ContextPages + PfdPages) = rest + 2 * length
  <2>1. /\ ImageEnd \in Nat /\ StackPages \in Nat /\ ContextPages \in Nat /\ PfdPages \in Nat
    BY Sizes, Layout
  <2> QED BY <1>4, <1>5, <2>1
<1> HIDE DEF rest
<1>7. IsBlockMapped(hat', hat, l, length, length, {}, VgaFrames, rest)
  <2>1. IsReserved(ReservedIfFree(hat, l, length, length), hat, l, length, {}, VgaFrames)
    <3>1. length \in 1 .. length BY <1>5
    <3> QED BY <1>3, <1>5, <3>1, FreeIsReserved
  <2>2. Room(hat, rest + 2 * length) BY <1>3, <1>6
  <2>3. length \in 1 .. length BY <1>5
  <2>4. IsBlockMapped(MapAnonPages(hat, l, length), hat, l, length, length, {}, VgaFrames, rest)
    BY <1>3, <1>5, <1>6, <2>1, <2>2, <2>3, BlockMappedAnon
  <2> QED BY <1>2, <1>3, <2>4
<1>8. PICK m \in {l, l + length} : HatSound(hat', m, {}, VgaFrames) /\ (~hat'.panicked => m = l + length)
  BY <1>7 DEF IsBlockMapped
<1>9. Room(hat', rest) /\ Keeps(hat, hat') BY <1>7, MapsKeeps DEF IsBlockMapped
<1>10. RegionsSound(regions', hat'.map, m)
  BY <1>2, <1>3, FS_EmptySet DEF RegionsSound
<1>11. ~hat'.panicked => InTime(hat', regions', phase', kernelEnd', m, {})
  BY <1>2, <1>3, <1>5, <1>8, <1>9 DEF InTime, rest
<1>12. StateSound(hat', regions', phase', kernelEnd', m, {})
  BY <1>2, <1>8, <1>10, <1>11 DEF StateSound, KeptIn, Phases
<1> QED BY <1>9, <1>12, SoundAfter

\* createInitStack and virtual_boot_context.
LEMMA StartKernelPreserves ==
  ASSUME MemorySuffices, IInv, StartKernel
  PROVE  IInv' /\ Keeps(hat, hat')
<1>1. PICK l, fixed : StateSound(hat, regions, phase, kernelEnd, l, fixed) BY DEF IInv
<1> DEFINE first == MapAnonPages(Reserve(hat, Stack.base, Stack.length), Stack.base, Stack.length)
<1>2. /\ ~hat.panicked /\ phase = "loader" /\ phase' = "kernel" /\ regions' = regions
      /\ hat' = MapAnonPages(Reserve(first, Context.base, Context.length), Context.base, Context.length)
  BY DEF StartKernel, Running, Stack, Context, Segment
<1>3. /\ HatSound(hat, l, {}, VgaFrames) /\ l <= ImageEnd /\ regions = {}
      /\ Room(hat, 2 * (ImageEnd - l + StackPages + ContextPages + PfdPages))
  BY <1>1, <1>2 DEF StateSound, InTime, KeptIn
<1>4. l \in Nat /\ ImageEnd \in Nat /\ StackPages \in Nat /\ ContextPages \in Nat /\ PfdPages \in Nat
  BY <1>3, Sizes, Layout DEF HatSound, MapSound
<1>5. /\ Stack.length = StackPages /\ Context.length = ContextPages /\ Stack # Context
  BY Layout DEF Stack, Context, Segment
<1>6. /\ Room(hat, (2 * PfdPages + 2 * ContextPages) + 2 * Stack.length)
      /\ 2 * PfdPages + 2 * ContextPages \in Nat /\ 2 * PfdPages \in Nat
  <2>1. hat \in Hats BY <1>3 DEF HatSound
  <2>2. /\ 2 * (ImageEnd - l + StackPages + ContextPages + PfdPages) \in Nat
        /\ (2 * PfdPages + 2 * ContextPages) + 2 * StackPages \in Nat
        /\ (2 * PfdPages + 2 * ContextPages) + 2 * StackPages <=
             2 * (ImageEnd - l + StackPages + ContextPages + PfdPages)
    BY <1>3, <1>4
  <2>3. Room(hat, (2 * PfdPages + 2 * ContextPages) + 2 * StackPages)
    BY <1>3, <2>1, <2>2, RoomLess
  <2> QED BY <1>4, <1>5, <2>3
<1>7. IsLoaderMapped(first, hat, Stack, l, {}, VgaFrames, 2 * PfdPages + 2 * ContextPages)
  <2>1. Stack \in {Stack, Context} /\ Stack \notin {} OBVIOUS
  <2> QED BY <1>3, <1>6, <2>1, LoaderSegmentMapped
<1> HIDE DEF first
<1>8. PICK f \in {{}, {} \cup {Stack}} : HatSound(first, l, f, VgaFrames)
  BY <1>7 DEF IsLoaderMapped
<1>9. Keeps(hat, first) /\ Room(first, 2 * PfdPages + 2 * Context.length)
  BY <1>5, <1>7, MapsKeeps DEF IsLoaderMapped
<1>10. IsLoaderMapped(hat', first, Context, l, f, VgaFrames, 2 * PfdPages)
  <2>1. Context \in {Stack, Context} /\ Context \notin f BY <1>5, <1>8
  <2> QED BY <1>2, <1>6, <1>8, <1>9, <2>1, LoaderSegmentMapped
<1>11. PICK g : HatSound(hat', l, g, VgaFrames) BY <1>10 DEF IsLoaderMapped
<1>12. Keeps(first, hat') /\ Room(hat', 2 * PfdPages) BY <1>10, MapsKeeps DEF IsLoaderMapped
<1>13. Keeps(hat, hat') BY <1>9, <1>12 DEF Keeps
<1>14. RegionsSound(regions', hat'.map, l) BY <1>2, <1>3, FS_EmptySet DEF RegionsSound
<1>15. InTime(hat', regions', phase', kernelEnd', l, g) BY <1>2, <1>3, <1>12 DEF InTime
<1>16. StateSound(hat', regions', phase', kernelEnd', l, g)
  BY <1>2, <1>11, <1>14, <1>15 DEF StateSound, KeptIn, Phases
<1> QED BY <1>13, <1>16, SoundAfter

\* mm_initPfd: its own pages are mapped, then the frames are put in lists.
LEMMA InitPfdPreserves ==
  ASSUME MemorySuffices, IInv, InitPfd
  PROVE  IInv' /\ Keeps(hat, hat')
<1> DEFINE mapped == MapAnonPages(hat, Place(PfdPages), PfdPages)
           h == Classify(mapped)
<1>1. PICK l, fixed : StateSound(hat, regions, phase, kernelEnd, l, fixed) BY DEF IInv
<1>2. /\ ~hat.panicked /\ phase = "kernel" /\ phase' = "pfd" /\ regions' = regions
      /\ \/ hat' = mapped /\ mapped.panicked
         \/ hat' = Panic(h)
         \/ hat' = h
  BY DEF InitPfd, Running
<1>3. /\ HatSound(hat, l, fixed, VgaFrames) /\ l <= ImageEnd /\ regions = {}
      /\ Room(hat, 2 * PfdPages)
  BY <1>1, <1>2 DEF StateSound, InTime, KeptIn
<1>4. l \in Nat /\ PfdPages \in Nat \ {0} /\ l + PfdPages < ContextBase /\ ImageEnd \in Nat
  <2>1. l \in Nat BY <1>3 DEF HatSound, MapSound
  <2> QED BY <1>3, <2>1, Sizes, Layout
<1>5. IsBlockMapped(mapped, hat, l, PfdPages, PfdPages, fixed, VgaFrames, 0)
  <2>1. PfdPages \in 1 .. PfdPages BY <1>4
  <2>2. IsReserved(ReservedIfFree(hat, l, PfdPages, PfdPages), hat, l, PfdPages, fixed, VgaFrames)
    BY <1>3, <1>4, <2>1, FreeIsReserved
  <2>3. Room(hat, 0 + 2 * PfdPages) /\ 0 \in Nat BY <1>3, <1>4
  <2>4. IsBlockMapped(MapAnonPages(hat, l, PfdPages), hat, l, PfdPages, PfdPages, fixed, VgaFrames, 0)
    BY <1>3, <1>4, <2>1, <2>2, <2>3, BlockMappedAnon
  <2>5. Place(PfdPages) = l BY <1>3, <1>4, PlaceIs
  <2> QED BY <2>4, <2>5
<1> HIDE DEF mapped
<1>6. PICK m \in {l, l + PfdPages} : HatSound(mapped, m, fixed, VgaFrames)
  BY <1>5 DEF IsBlockMapped
<1>7. Keeps(hat, mapped) BY <1>5, MapsKeeps DEF IsBlockMapped
<1>8. /\ HatSound(h, m, fixed, VgaFrames) /\ h.fromPfd
      /\ \A page : Frame(h, page) = Frame(mapped, page)
  BY <1>6, Classified
<1> HIDE DEF h
<1>9. /\ HatSound(hat', m, fixed, VgaFrames) /\ Keeps(hat, hat')
      /\ ~hat'.panicked => hat'.fromPfd
  <2>1. CASE hat' = mapped /\ mapped.panicked BY <1>6, <1>7, <2>1
  <2>2. CASE hat' = Panic(h)
    <3>1. /\ HatSound(Panic(h), m, fixed, VgaFrames) /\ Panic(h).panicked
          /\ \A page : Frame(Panic(h), page) = Frame(h, page)
      BY <1>8, PanicSound
    <3> QED BY <1>7, <1>8, <2>2, <3>1 DEF Keeps
  <2>3. CASE hat' = h BY <1>7, <1>8, <2>3 DEF Keeps
  <2> QED BY <1>2, <2>1, <2>2, <2>3
<1>10. RegionsSound(regions', hat'.map, m) BY <1>2, <1>3, FS_EmptySet DEF RegionsSound
<1>11. ~hat'.panicked => InTime(hat', regions', phase', kernelEnd', m, fixed)
  <2>1. Cardinality(regions') = 0 BY <1>2, <1>3, FS_EmptySet
  <2>2. m <= ImageEnd + PfdPages + 0 * Largest BY <1>3, <1>4, <1>6, Sizes
  <2>3. MostRegions("pfd") = 0 BY DEF MostRegions
  <2> QED BY <1>2, <1>9, <2>1, <2>2, <2>3 DEF InTime
<1>12. StateSound(hat', regions', phase', kernelEnd', m, fixed)
  BY <1>2, <1>9, <1>10, <1>11 DEF StateSound, KeptIn, Phases
<1> QED BY <1>9, <1>12, SoundAfter

\* What a step that adds a region finds, and where the region goes.
LEMMA RegionFits ==
  ASSUME MemorySuffices, NEW l, NEW fixed, StateSound(hat, regions, phase, kernelEnd, l, fixed),
         ~hat.panicked, phase \in {"pfd", "pool", "dma", "ready"},
         phase = "ready" => Cardinality(regions) < MaxRegions,
         NEW length \in Nat, length <= Largest
  PROVE  /\ HatSound(hat, l, fixed, KeptIn(phase)) /\ KeptIn(phase) \subseteq VgaFrames
         /\ l \in Nat /\ KernelBase <= l /\ l + length < ContextBase /\ hat.fromPfd
         /\ Place(length) = l
         /\ Cardinality(regions) \in Nat
         /\ l + length <= ImageEnd + PfdPages + (Cardinality(regions) + 1) * Largest
<1>1. /\ HatSound(hat, l, fixed, KeptIn(phase)) /\ RegionsSound(regions, hat.map, l)
      /\ hat.fromPfd /\ Cardinality(regions) <= MostRegions(phase)
      /\ l <= ImageEnd + PfdPages + Cardinality(regions) * Largest
  BY DEF StateSound, InTime
<1>2. Cardinality(regions) \in Nat BY <1>1, FS_CardinalityType DEF RegionsSound
<1>3. l \in Nat /\ KernelBase <= l BY <1>1 DEF HatSound, MapSound
<1>4. KeptIn(phase) \subseteq VgaFrames BY DEF KeptIn
<1>5. /\ ImageEnd \in Nat /\ Largest \in Nat /\ MaxRegions \in Nat /\ PfdPages \in Nat
      /\ MaxRegions >= 3 /\ MaxRegions * Largest \in Nat
      /\ ImageEnd + PfdPages + MaxRegions * Largest < ContextBase
  BY Sizes
<1>6. Cardinality(regions) + 1 <= MaxRegions BY <1>1, <1>2, <1>5 DEF MostRegions
<1>7. (Cardinality(regions) + 1) * Largest \in Nat
      /\ (Cardinality(regions) + 1) * Largest = Cardinality(regions) * Largest + Largest
      /\ Cardinality(regions) * Largest \in Nat
  BY <1>2, <1>5
<1>8. (Cardinality(regions) + 1) * Largest <= MaxRegions * Largest
  <2>1. \A a, b, c \in Nat : a <= b => a * c <= b * c OBVIOUS
  <2>2. Cardinality(regions) + 1 \in Nat /\ MaxRegions \in Nat BY <1>2, <1>5
  <2> QED BY <1>5, <1>6, <2>1, <2>2
<1>9. l + length <= ImageEnd + PfdPages + (Cardinality(regions) + 1) * Largest
  BY <1>1, <1>3, <1>5, <1>7
<1>10. l + length < ContextBase BY <1>3, <1>5, <1>7, <1>8, <1>9, Layout
<1>11. Place(length) = l BY <1>1, <1>10, PlaceIs
<1> QED BY <1>1, <1>2, <1>3, <1>4, <1>9, <1>10, <1>11

\* AddressSpace@add of a region that h has at the end of the block.
LEMMA AddPreserves ==
  ASSUME MemorySuffices, NEW l, NEW fixed, StateSound(hat, regions, phase, kernelEnd, l, fixed),
         ~hat.panicked, phase \in {"pfd", "pool", "dma", "ready"},
         phase = "ready" => Cardinality(regions) < MaxRegions,
         NEW length \in Nat \ {0}, length <= Largest,
         NEW kind \in {"pool", "dma", "device", "zero"}, NEW writable,
         NEW h, NEW count, NEW n, IsBlockMapped(h, hat, l, length, count, fixed, KeptIn(phase'), n),
         Add(Region(kind, l, length, writable), h),
         phase' \in {"pool", "dma", "ready"},
         KeptIn(phase') \subseteq KeptIn(phase),
         Cardinality(regions) + 1 <= MostRegions(phase')
  PROVE  IInv' /\ Keeps(hat, hat')
<1> DEFINE region == Region(kind, l, length, writable)
<1>1. /\ HatSound(hat, l, fixed, KeptIn(phase)) /\ KeptIn(phase) \subseteq VgaFrames
      /\ l \in Nat /\ KernelBase <= l /\ l + length < ContextBase /\ hat.fromPfd
      /\ Cardinality(regions) \in Nat
      /\ l + length <= ImageEnd + PfdPages + (Cardinality(regions) + 1) * Largest
  BY RegionFits
<1>2. RegionsSound(regions, hat.map, l) BY DEF StateSound
<1>3. phase' \in Phases /\ phase' \notin {"loader", "kernel"} BY DEF Phases
<1>4. /\ region.kind = kind /\ region.base = l /\ region.length = length
  BY DEF Region
<1> HIDE DEF region
<1>5. CASE hat' = Panic(hat) /\ regions' = regions
  <2>1. HatSound(hat, l, fixed, KeptIn(phase')) BY <1>1, KeptLess
  <2>2. /\ HatSound(hat', l, fixed, KeptIn(phase')) /\ hat'.panicked
        /\ hat'.map = hat.map /\ \A page : Frame(hat', page) = Frame(hat, page)
    BY <1>5, <2>1, PanicSound
  <2>3. Keeps(hat, hat') BY <2>2 DEF Keeps
  <2>4. StateSound(hat', regions', phase', kernelEnd', l, fixed)
    BY <1>2, <1>3, <1>5, <2>2 DEF StateSound
  <2> QED BY <2>3, <2>4, SoundAfter
<1>6. CASE hat' = h /\ ~h.panicked /\ regions' = regions \cup {region}
  <2> DEFINE kept == KeptIn(phase')
             pages == l .. l + count - 1
  <2>0. IsBlockMapped(h, hat, l, length, count, fixed, kept, n) OBVIOUS
  <2>1. /\ HatSound(h, l + length, fixed, kept) /\ Segment(l, length) \in ToSet(h.map)
        /\ Maps(h, hat, pages)
    <3> HIDE DEF kept
    <3>1. PICK m \in {l, l + length} :
            /\ HatSound(h, m, fixed, kept)
            /\ ~h.panicked => m = l + length /\ Segment(l, length) \in ToSet(h.map)
      BY <2>0 DEF IsBlockMapped
    <3>2. m = l + length /\ Segment(l, length) \in ToSet(h.map) BY <1>6, <3>1
    <3>3. Maps(h, hat, pages) BY <2>0 DEF IsBlockMapped
    <3> QED BY <3>1, <3>2, <3>3
  <2>2. Keeps(hat, hat') /\ hat'.fromPfd /\ ToSet(hat.map) \subseteq ToSet(h.map)
    <3> HIDE DEF pages, kept
    <3>1. Keeps(hat, h) BY <2>1, MapsKeeps
    <3>2. h.fromPfd /\ ToSet(hat.map) \subseteq ToSet(h.map) BY <1>1, <2>1 DEF Maps
    <3> QED BY <1>6, <3>1, <3>2
  <2>3. RegionsSound(regions, h.map, l + length)
    <3>1. l + length \in Nat /\ l <= l + length BY <1>1
    <3>2. l \in Nat /\ KernelBase \in Nat BY <1>1, Layout
    <3> DEFINE m == l + length
    <3>3. m \in Nat /\ l <= m BY <3>1
    <3> HIDE DEF m
    <3>4. RegionsSound(regions, h.map, m) BY <1>2, <2>2, <3>2, <3>3, RegionsStay
    <3> QED BY <3>4 DEF m
  <2>4. \A r \in regions : r.base \in Nat /\ r.length \in Nat \ {0} /\ r.base + r.length <= l
    BY <1>2 DEF RegionsSound
  <2>5. region \notin regions
    <3> SUFFICES ASSUME region \in regions PROVE FALSE OBVIOUS
    <3>1. l + length <= l BY <1>4, <2>4
    <3> QED BY <1>1, <3>1
  <2>6. RegionsSound(regions', hat'.map, l + length)
    <3>1. IsFiniteSet(regions') BY <1>2, <1>6, FS_AddElement DEF RegionsSound
    <3>2. /\ region.kind \in {"pool", "dma", "device", "zero"}
          /\ region.base \in Nat /\ region.length \in Nat \ {0}
          /\ KernelBase <= region.base /\ region.base + region.length <= l + length
          /\ Segment(region.base, region.length) \in ToSet(h.map)
      BY <1>1, <1>4, <2>1
    <3>3. \A r \in regions : Apart(r, region) /\ Apart(region, r)
      BY <1>4, <2>4 DEF Apart
    <3> QED BY <1>6, <2>3, <3>1, <3>2, <3>3 DEF RegionsSound
  <2>7. Cardinality(regions') = Cardinality(regions) + 1
    BY <1>2, <1>6, <2>5, FS_AddElement DEF RegionsSound
  <2>8. InTime(hat', regions', phase', kernelEnd', l + length, fixed)
    BY <1>1, <1>3, <2>2, <2>7 DEF InTime
  <2>9. StateSound(hat', regions', phase', kernelEnd', l + length, fixed)
    BY <1>3, <1>6, <2>1, <2>6, <2>8 DEF StateSound
  <2> QED BY <2>2, <2>9, SoundAfter
<1> QED BY <1>5, <1>6 DEF Add, region

\* A range that is reserved and not mapped.
LEMMA ReservedOnly ==
  ASSUME NEW r, NEW h, NEW l, NEW length, NEW fixed, NEW kept,
         IsReserved(r, h, l, length, fixed, kept), NEW n, Room(h, n)
  PROVE  IsBlockMapped(r, h, l, length, 0, fixed, kept, n)
<1>1. Maps(r, h, {}) /\ Room(r, n) BY DEF IsReserved
<1>2. Maps(r, h, l .. l + 0 - 1) BY <1>1, MapsOnly
<1> QED BY <1>1, <1>2 DEF IsReserved, IsBlockMapped

\* The step that adds a region starts in a sound state.
LEMMA RegionStarts ==
  ASSUME MemorySuffices, IInv, Running, phase \in {"pfd", "pool", "dma", "ready"}
  PROVE  /\ \E l, fixed : StateSound(hat, regions, phase, kernelEnd, l, fixed)
         /\ hat.fromPfd /\ \A n : Room(hat, n)
<1>1. PICK l, fixed : StateSound(hat, regions, phase, kernelEnd, l, fixed) BY DEF IInv
<1>2. hat.fromPfd BY <1>1 DEF StateSound, InTime, Running
<1> QED BY <1>1, <1>2 DEF Room

\* mm_pool_init.
LEMMA InitPoolPreserves ==
  ASSUME MemorySuffices, IInv, InitPool
  PROVE  IInv' /\ Keeps(hat, hat')
<1> DEFINE r == Reserve(hat, Place(PoolPages), PoolPages)
           h == MapAnonPages(r, Place(PoolPages), 1)
<1>1. /\ ~hat.panicked /\ phase = "pfd" /\ phase' = "pool" /\ Running
      /\ Add(Region("pool", Place(PoolPages), PoolPages, TRUE), h)
  BY DEF InitPool, Running
<1>2. PICK l, fixed : StateSound(hat, regions, phase, kernelEnd, l, fixed)
  BY <1>1, RegionStarts
<1>3. /\ HatSound(hat, l, fixed, VgaFrames) /\ l + PoolPages < ContextBase
      /\ Place(PoolPages) = l /\ Cardinality(regions) = 0
  <2>1. HatSound(hat, l, fixed, KeptIn(phase)) /\ l + PoolPages < ContextBase /\ Place(PoolPages) = l
        /\ Cardinality(regions) \in Nat
    BY <1>1, <1>2, Sizes, RegionFits
  <2>2. Cardinality(regions) <= MostRegions(phase) BY <1>1, <1>2 DEF StateSound, InTime
  <2> QED BY <1>1, <2>1, <2>2 DEF KeptIn, MostRegions
<1>4. IsReserved(r, hat, l, PoolPages, fixed, VgaFrames) BY <1>3, Sizes, BlockReserved
<1>5. h = MapAnonPages(r, l, 1) BY <1>3
<1> HIDE DEF h, r
<1>6. IsBlockMapped(h, hat, l, PoolPages, 1, fixed, VgaFrames, 0)
  <2>1. IsReserved(ReservedIfFree(r, l, 1, 1), hat, l, PoolPages, fixed, VgaFrames)
    BY <1>3, <1>4, Sizes, ReservedStays
  <2>2. 1 \in 1 .. PoolPages BY Sizes
  <2>3. Room(hat, 0 + 2 * 1) BY <1>1, RegionStarts
  <2> QED BY <1>3, <1>5, <2>1, <2>2, <2>3, Sizes, BlockMappedAnon
<1>7. KeptIn(phase') = VgaFrames /\ KeptIn(phase) = VgaFrames /\ MostRegions(phase') = 1
  BY <1>1 DEF KeptIn, MostRegions
<1>8. IsBlockMapped(h, hat, l, PoolPages, 1, fixed, KeptIn(phase'), 0) BY <1>6, <1>7
<1>9. Add(Region("pool", l, PoolPages, TRUE), h) BY <1>1, <1>3
<1>10. /\ phase \in {"pfd", "pool", "dma", "ready"} /\ phase # "ready"
       /\ phase' \in {"pool", "dma", "ready"}
       /\ KeptIn(phase') \subseteq KeptIn(phase) /\ Cardinality(regions) + 1 <= MostRegions(phase')
  BY <1>1, <1>3, <1>7
<1>11. PoolPages \in Nat \ {0} /\ PoolPages <= Largest BY Sizes
<1> QED BY <1>1, <1>2, <1>8, <1>9, <1>10, <1>11, AddPreserves

\* mm_dma_init.
LEMMA InitDmaPreserves ==
  ASSUME MemorySuffices, IInv, InitDma
  PROVE  IInv' /\ Keeps(hat, hat')
<1> DEFINE h == MapPages(hat, Place(DmaPages), DmaFrame, DmaPages)
<1>1. /\ ~hat.panicked /\ phase = "pool" /\ phase' = "dma" /\ Running
      /\ Add(Region("dma", Place(DmaPages), DmaPages, TRUE), h)
  BY DEF InitDma, Running
<1>2. PICK l, fixed : StateSound(hat, regions, phase, kernelEnd, l, fixed)
  BY <1>1, RegionStarts
<1>3. /\ HatSound(hat, l, fixed, VgaFrames) /\ l + DmaPages < ContextBase
      /\ Place(DmaPages) = l /\ Cardinality(regions) + 1 <= 2
  <2>1. HatSound(hat, l, fixed, KeptIn(phase)) /\ l + DmaPages < ContextBase /\ Place(DmaPages) = l
        /\ Cardinality(regions) \in Nat
    BY <1>1, <1>2, Sizes, RegionFits
  <2>2. Cardinality(regions) <= MostRegions(phase) BY <1>1, <1>2 DEF StateSound, InTime
  <2> QED BY <1>1, <2>1, <2>2 DEF KeptIn, MostRegions
<1>4. h = MapPages(hat, l, DmaFrame, DmaPages) BY <1>3
<1> HIDE DEF h
<1>5. IsBlockMapped(h, hat, l, DmaPages, DmaPages, fixed, VgaFrames, 0)
  <2>1. 1 \in 1 .. DmaPages BY Sizes
  <2>2. IsReserved(ReservedIfFree(hat, l, 1, DmaPages), hat, l, DmaPages, fixed, VgaFrames)
    BY <1>3, <2>1, Sizes, FreeIsReserved
  <2>3. DmaFrame .. DmaFrame + DmaPages - 1 = DmaFrames /\ DmaFrames \subseteq DmaFrames \cup VgaFrames
    BY DEF DmaFrames
  <2>4. hat.fromPfd BY <1>1, RegionStarts
  <2>5. DmaFrame .. DmaFrame + DmaPages - 1 \subseteq DmaFrames \cup VgaFrames BY <2>3
  <2>6. IsBlockMapped(MapPages(hat, l, DmaFrame, DmaPages), hat, l, DmaPages, DmaPages, fixed,
                      VgaFrames \ (DmaFrame .. DmaFrame + DmaPages - 1), 0)
    BY <1>3, <2>2, <2>4, <2>5, Sizes, BlockMappedAt
  <2>7. VgaFrames \ (DmaFrame .. DmaFrame + DmaPages - 1) = VgaFrames
    <3>1. VgaFrames \cap DmaFrames = {}
      <4>1. SufficesFor(ImageEnd, Largest) BY Sufficient
      <4> QED BY <4>1 DEF SufficesFor
    <3> QED BY <2>3, <3>1
  <2> QED BY <1>4, <2>6, <2>7
<1>6. KeptIn(phase') = VgaFrames /\ KeptIn(phase) = VgaFrames /\ MostRegions(phase') = 2
  BY <1>1 DEF KeptIn, MostRegions
<1>7. IsBlockMapped(h, hat, l, DmaPages, DmaPages, fixed, KeptIn(phase'), 0) BY <1>5, <1>6
<1>8. Add(Region("dma", l, DmaPages, TRUE), h) BY <1>1, <1>3
<1> QED BY <1>1, <1>2, <1>3, <1>6, <1>7, <1>8, Sizes, AddPreserves

\* mm_initFramebuffer.
LEMMA InitFramebufferPreserves ==
  ASSUME MemorySuffices, IInv, InitFramebuffer
  PROVE  IInv' /\ Keeps(hat, hat')
<1> DEFINE r == Reserve(hat, Place(VgaRequest), VgaPages)
           h == MapPages(r, Place(VgaRequest), VgaFrame, VgaPages)
<1>1. /\ ~hat.panicked /\ phase = "dma" /\ phase' = "ready" /\ Running
      /\ Add(Region("device", Place(VgaRequest), VgaPages, FALSE), h)
  BY DEF InitFramebuffer, Running
<1>2. PICK l, fixed : StateSound(hat, regions, phase, kernelEnd, l, fixed)
  BY <1>1, RegionStarts
<1>3. /\ HatSound(hat, l, fixed, VgaFrames) /\ l + VgaPages < ContextBase
      /\ Place(VgaRequest) = l /\ Cardinality(regions) + 1 <= MaxRegions
  <2>1. Place(VgaRequest) = l BY <1>1, <1>2, Sizes, RegionFits
  <2>2. HatSound(hat, l, fixed, KeptIn(phase)) /\ l + VgaPages < ContextBase
        /\ Cardinality(regions) \in Nat
    BY <1>1, <1>2, Sizes, RegionFits
  <2>3. Cardinality(regions) <= MostRegions(phase) BY <1>1, <1>2 DEF StateSound, InTime
  <2> QED BY <1>1, <2>1, <2>2, <2>3, Sizes DEF KeptIn, MostRegions
<1>4. IsReserved(r, hat, l, VgaPages, fixed, VgaFrames) BY <1>3, Sizes, BlockReserved
<1>5. h = MapPages(r, l, VgaFrame, VgaPages) BY <1>3
<1> HIDE DEF h, r
<1>6. IsBlockMapped(h, hat, l, VgaPages, VgaPages, fixed, {}, 0)
  <2>1. IsReserved(ReservedIfFree(r, l, 1, VgaPages), hat, l, VgaPages, fixed, VgaFrames)
    BY <1>3, <1>4, Sizes, ReservedStays
  <2>2. hat.fromPfd BY <1>1, RegionStarts
  <2>3. VgaFrame .. VgaFrame + VgaPages - 1 \subseteq DmaFrames \cup VgaFrames BY DEF VgaFrames
  <2>4. IsBlockMapped(MapPages(r, l, VgaFrame, VgaPages), hat, l, VgaPages, VgaPages, fixed,
                      VgaFrames \ (VgaFrame .. VgaFrame + VgaPages - 1), 0)
    BY <1>3, <2>1, <2>2, <2>3, Sizes, BlockMappedAt
  <2>5. VgaFrames \ (VgaFrame .. VgaFrame + VgaPages - 1) = {} BY DEF VgaFrames
  <2> QED BY <1>5, <2>4, <2>5
<1>7. KeptIn(phase') = {} /\ MostRegions(phase') = MaxRegions
  BY <1>1 DEF KeptIn, MostRegions
<1>8. IsBlockMapped(h, hat, l, VgaPages, VgaPages, fixed, KeptIn(phase'), 0) BY <1>6, <1>7
<1>9. Add(Region("device", l, VgaPages, FALSE), h) BY <1>1, <1>3
<1> QED BY <1>1, <1>2, <1>3, <1>7, <1>8, <1>9, Sizes, AddPreserves

\* A client's region: reserved, nothing mapped.
LEMMA NewRegionPreserves ==
  ASSUME MemorySuffices, IInv, NEW pages \in 1 .. PoolPages, NEW writable,
         NewRegion(pages, writable)
  PROVE  IInv' /\ Keeps(hat, hat')
<1> DEFINE h == Reserve(hat, Place(pages), pages)
<1>1. /\ ~hat.panicked /\ phase = "ready" /\ phase' = "ready" /\ Running
      /\ Cardinality(regions) < MaxRegions
      /\ Add(Region("zero", Place(pages), pages, writable), h)
  BY DEF NewRegion, Running
<1>2. PICK l, fixed : StateSound(hat, regions, phase, kernelEnd, l, fixed)
  BY <1>1, RegionStarts
<1>3. pages \in Nat \ {0} /\ pages <= Largest BY Sizes
<1>4. /\ HatSound(hat, l, fixed, {}) /\ l + pages < ContextBase
      /\ Place(pages) = l /\ Cardinality(regions) + 1 <= MaxRegions
  <2>1. HatSound(hat, l, fixed, KeptIn(phase)) /\ l + pages < ContextBase /\ Place(pages) = l
        /\ Cardinality(regions) \in Nat
    BY <1>1, <1>2, <1>3, RegionFits
  <2> QED BY <1>1, <2>1, Sizes DEF KeptIn
<1>5. h = Reserve(hat, l, pages) BY <1>4
<1> HIDE DEF h
<1>6. IsBlockMapped(h, hat, l, pages, 0, fixed, {}, 0)
  <2>1. IsReserved(h, hat, l, pages, fixed, {}) BY <1>3, <1>4, <1>5, BlockReserved
  <2>2. Room(hat, 0) BY <1>1, RegionStarts
  <2> QED BY <2>1, <2>2, ReservedOnly
<1>7. KeptIn(phase') = {} /\ KeptIn(phase) = {} /\ MostRegions(phase') = MaxRegions
  BY <1>1 DEF KeptIn, MostRegions
<1>8. IsBlockMapped(h, hat, l, pages, 0, fixed, KeptIn(phase'), 0) BY <1>6, <1>7
<1>9. Add(Region("zero", l, pages, writable), h) BY <1>1, <1>4
<1> QED BY <1>1, <1>2, <1>3, <1>4, <1>7, <1>8, <1>9, AddPreserves

-----------------------------------------------------------------------------
(***************************************************************************)
(* Page faults, and the steps that leave the page tables alone.            *)
(***************************************************************************)

\* A page is mapped where a region is and nothing is mapped yet.
LEMMA PageInSound ==
  ASSUME MemorySuffices, NEW l, NEW fixed, HatSound(hat, l, fixed, {}), hat.fromPfd,
         RegionsSound(regions, hat.map, l), NEW page \in Beyond, Frame(hat, page) = None,
         NEW region \in RegionsAt(page)
  PROVE  HatSound(PageIn(region, page), l, fixed, {}) /\ Maps(PageIn(region, page), hat, page .. page + 1 - 1)
<1> DEFINE start == ReservedIfFree(hat, page, 1, 1)
           own == Segment(region.base, region.length)
<1>1. page \in Nat /\ TablePages <= page
  BY Layout DEF Beyond, VirtualSpace
<1>2. l \in Nat /\ l < ContextBase BY DEF HatSound, MapSound
<1>3. /\ region \in regions /\ region.base \in Nat /\ region.length \in Nat
      /\ region.base <= page /\ page <= (region.base + region.length) - 1
      /\ region.base + region.length <= l /\ own \in ToSet(hat.map)
  BY DEF RegionsAt, RegionsSound
<1>4. /\ own.base = region.base /\ own.length = region.length BY DEF Segment
<1> HIDE DEF own
<1>5. page < ContextBase /\ page + 1 <= HYPERSPACE /\ page \in Nat \ {0}
  BY <1>1, <1>2, <1>3, Layout
<1>6. Holds(own, page) /\ own.base + own.length < VirtualPages
  BY <1>1, <1>2, <1>3, <1>4, Layout DEF Holds
<1>7. IsStopped(start, hat, l, fixed, {}) BY <1>3, <1>5, <1>6, ReservedOnce
<1>8. Mappable(hat, page) BY <1>3, <1>6 DEF Mappable, Reserved
<1> HIDE DEF start
<1>9. HatSound(start, l, fixed, {}) /\ Mappable(start, page) /\ Maps(start, hat, {})
      /\ start.fromPfd
  BY <1>7, <1>8 DEF IsStopped, Maps
<1>10. Room(start, 0 + 2 * 1) BY <1>9 DEF Room
<1>11. \A q \in page .. page + 1 - 1 : Mappable(start, q)
  <2>1. page .. page + 1 - 1 = {page} BY <1>1
  <2> QED BY <1>9, <2>1
<1>12. IsGrown(MapAnonPages(hat, page, 1), start, page .. page + 1 - 1, l, fixed, {}, 0)
  <2> DEFINE k == start
             one == 1
  <2>1. k = ReservedIfFree(hat, page, one, one) BY DEF start
  <2>2. HatSound(k, l, fixed, {}) /\ Room(k, 0 + 2 * one) BY <1>9, <1>10
  <2>3. \A q \in page .. page + one - 1 : Mappable(k, q) BY <1>11
  <2>4. {} \subseteq VgaFrames /\ one \in Nat /\ 0 \in Nat /\ page + one <= HYPERSPACE BY <1>5
  <2> HIDE DEF k, one
  <2>5. IsGrown(MapAnonPages(hat, page, one), k, page .. page + one - 1, l, fixed, {}, 0)
    BY <1>1, <2>1, <2>2, <2>3, <2>4, AnonPagesMapped
  <2> QED BY <2>5 DEF k, one
<1> DEFINE q == MapAnonPages(hat, page, 1)
<1>13. HatSound(q, l, fixed, {}) /\ Maps(q, start, page .. page + 1 - 1) BY <1>12 DEF IsGrown
<1> HIDE DEF q
<1>14. Maps(q, hat, page .. page + 1 - 1)
  <2>1. {} \cup (page .. page + 1 - 1) = page .. page + 1 - 1 OBVIOUS
  <2> QED BY <1>9, <1>13, <2>1, MapsThen
<1> QED BY <1>13, <1>14 DEF q, PageIn

\* AddressSpace@pageFault.
LEMMA PageFaultPreserves ==
  ASSUME MemorySuffices, IInv, NEW page \in Beyond, NEW write, PageFault(page, write)
  PROVE  IInv' /\ Keeps(hat, hat')
<1>1. PICK l, fixed : StateSound(hat, regions, phase, kernelEnd, l, fixed) BY DEF IInv
<1>2. /\ ~hat.panicked /\ phase = "ready" /\ phase' = "ready" /\ regions' = regions
      /\ Frame(hat, page) = None
  BY DEF PageFault, Running
<1>3. PICK region \in RegionsAt(page) : hat' = PageIn(region, page) BY DEF PageFault
<1>4. /\ HatSound(hat, l, fixed, {}) /\ RegionsSound(regions, hat.map, l) /\ hat.fromPfd
      /\ Cardinality(regions) <= MostRegions(phase)
      /\ l <= ImageEnd + PfdPages + Cardinality(regions) * Largest
  BY <1>1, <1>2 DEF StateSound, InTime, KeptIn
<1>5. HatSound(hat', l, fixed, {}) /\ Maps(hat', hat, page .. page + 1 - 1)
  BY <1>2, <1>3, <1>4, PageInSound
<1>6. Keeps(hat, hat') BY <1>5, MapsKeeps
<1>7. hat'.fromPfd /\ ToSet(hat.map) \subseteq ToSet(hat'.map) BY <1>4, <1>5 DEF Maps
<1>8. l \in Nat /\ KernelBase \in Nat
  <2>1. l \in Nat BY <1>4 DEF HatSound, MapSound
  <2> QED BY <2>1, Layout
<1>9. RegionsSound(regions', hat'.map, l)
  <2>1. l <= l BY <1>8
  <2>2. RegionsSound(regions, hat'.map, l) BY <1>4, <1>7, <1>8, <2>1, RegionsStay
  <2> QED BY <1>2, <2>2
<1>10. InTime(hat', regions', phase', kernelEnd', l, fixed) BY <1>2, <1>4, <1>7 DEF InTime
<1>11. StateSound(hat', regions', phase', kernelEnd', l, fixed)
  BY <1>2, <1>5, <1>9, <1>10 DEF StateSound, KeptIn, Phases
<1> QED BY <1>6, <1>11, SoundAfter

\* A page fault that panics.
LEMMA PageFaultPanicsPreserves ==
  ASSUME IInv, NEW page, NEW write, PageFaultPanics(page, write)
  PROVE  IInv' /\ Keeps(hat, hat')
<1>1. PICK l, fixed : StateSound(hat, regions, phase, kernelEnd, l, fixed) BY DEF IInv
<1>2. hat' = Panic(hat) /\ UNCHANGED <<regions, phase, kernelEnd>> BY DEF PageFaultPanics
<1>3. /\ HatSound(hat, l, fixed, KeptIn(phase)) /\ RegionsSound(regions, hat.map, l)
      /\ phase \in Phases
  BY <1>1 DEF StateSound
<1>4. /\ HatSound(hat', l, fixed, KeptIn(phase)) /\ hat'.panicked /\ hat'.map = hat.map
      /\ \A q : Frame(hat', q) = Frame(hat, q)
  BY <1>2, <1>3, PanicSound
<1>5. StateSound(hat', regions', phase', kernelEnd', l, fixed)
  BY <1>2, <1>3, <1>4 DEF StateSound
<1> QED BY <1>4, <1>5, SoundAfter DEF Keeps

\* Nothing that the invariant speaks of changes.
LEMMA UnchangedPreserves ==
  ASSUME IInv, UNCHANGED <<hat, regions, kernelEnd, phase>>
  PROVE  IInv' /\ Keeps(hat, hat')
<1>1. PICK l, fixed : StateSound(hat, regions, phase, kernelEnd, l, fixed) BY DEF IInv
<1>2. StateSound(hat', regions', phase', kernelEnd', l, fixed) BY <1>1
<1>3. Keeps(hat, hat') BY DEF Keeps
<1> QED BY <1>2, <1>3, SoundAfter

\* In a sound state each section that is loaded moves the end.
LEMMA SectionsMoveEnd ==
  ASSUME MemorySuffices, IInv, NEW section \in Sections, LoadSection(section)
  PROVE  kernelEnd' # kernelEnd
<1>1. PICK l, fixed : StateSound(hat, regions, phase, kernelEnd, l, fixed) BY DEF IInv
<1>2. HatSound(hat, l, fixed, KeptIn(phase)) /\ l = kernelEnd
  BY <1>1 DEF LoadSection, Running, StateSound, InTime
<1>3. kernelEnd \in Nat BY <1>2 DEF HatSound, MapSound
<1>4. section.base \in Int /\ section.length \in Int /\ section.length > 0 BY Sizes DEF Segments
<1> QED BY <1>3, <1>4 DEF LoadSection

\* Every step, if images have no holes.
LEMMA NextPreserves ==
  ASSUME MemorySuffices, IInv, [Next]_vars, [SectionsAdjoin]_vars
  PROVE  IInv' /\ Keeps(hat, hat')
<1>1. CASE UNCHANGED vars BY <1>1, UnchangedPreserves DEF vars
<1>2. ASSUME NEW section \in Sections, LoadSection(section) PROVE IInv' /\ Keeps(hat, hat')
  <2>1. kernelEnd' # kernelEnd BY <1>2, SectionsMoveEnd
  <2>2. PICK other \in Sections : other.base = kernelEnd /\ LoadSection(other)
    BY <2>1 DEF SectionsAdjoin, vars
  <2> QED BY <2>2, LoadSectionPreserves
<1>3. CASE StartKernel BY <1>3, StartKernelPreserves
<1>4. CASE InitPfd BY <1>4, InitPfdPreserves
<1>5. CASE InitPool BY <1>5, InitPoolPreserves
<1>6. CASE InitDma BY <1>6, InitDmaPreserves
<1>7. CASE InitFramebuffer BY <1>7, InitFramebufferPreserves
<1>8. ASSUME NEW pages \in 1 .. PoolPages, NEW writable \in BOOLEAN, NewRegion(pages, writable)
      PROVE  IInv' /\ Keeps(hat, hat')
  BY <1>8, NewRegionPreserves
<1>9. ASSUME NEW first, NEW pages, AllocRange(first, pages) PROVE IInv' /\ Keeps(hat, hat')
  BY <1>9, UnchangedPreserves DEF AllocRange
<1>10. ASSUME NEW page \in Beyond, NEW write \in BOOLEAN, PageFault(page, write)
       PROVE  IInv' /\ Keeps(hat, hat')
  BY <1>10, PageFaultPreserves
<1>11. ASSUME NEW page \in Beyond, NEW write \in BOOLEAN, PageFaultPanics(page, write)
       PROVE  IInv' /\ Keeps(hat, hat')
  BY <1>11, PageFaultPanicsPreserves
<1> QED BY <1>1, <1>2, <1>3, <1>4, <1>5, <1>6, <1>7, <1>8, <1>9, <1>10, <1>11 DEF Next

-----------------------------------------------------------------------------
(***************************************************************************)
(* The theorems.                                                           *)
(***************************************************************************)

\* Of a kernel without holes that has the memory it asks for, the map of
\* reserved memory, the page tables, the frames and the regions stay sound, and
\* a page that is mapped keeps its frame from the loader to the running kernel.
THEOREM MemoryStaysSound ==
  ASSUME MemorySuffices
  PROVE  Spec /\ [][SectionsAdjoin]_vars => []IInv /\ [][Keeps(hat, hat')]_vars
<1>1. Init => IInv BY InitSound
<1>2. IInv /\ [Next]_vars /\ [SectionsAdjoin]_vars => IInv' /\ [Keeps(hat, hat')]_vars
  BY NextPreserves
<1> QED BY <1>1, <1>2, PTL DEF Spec

\* Sound states are typed.
LEMMA SoundTypes ==
  ASSUME MemorySuffices, IInv
  PROVE  TypeOK
<1>1. PICK l, fixed : StateSound(hat, regions, phase, kernelEnd, l, fixed) BY DEF IInv
<1>2. /\ hat \in Hats /\ MapSound(hat, l, fixed) /\ TablesSound(hat) /\ FramesSound(hat, KeptIn(phase))
      /\ RegionsSound(regions, hat.map, l) /\ phase \in Phases
  BY <1>1 DEF StateSound, HatSound
<1>3. MapInOrder(hat.map) /\ hat.map \in Seq(Segments) /\ Len(hat.map) \in Nat
  BY <1>2 DEF MapSound, MapInOrder
<1>4. \A i \in DOMAIN hat.map : hat.map[i].base \in VirtualSpace /\ hat.map[i].length > 0
  <2>1. DOMAIN hat.map = 1 .. Len(hat.map) BY <1>3
  <2>2. VirtualPages \in Int BY Layout
  <2> QED BY <1>3, <2>1, <2>2, SegmentsOfMap DEF VirtualSpace
<1>5. SegmentsOrdered
  <2>1. \A i \in 1 .. Len(hat.map) - 1 :
          i \in 1 .. Len(hat.map) /\ i + 1 \in 1 .. Len(hat.map) /\ i < i + 1
    BY <1>3
  <2> QED BY <1>3, <2>1, SegmentsOfMap DEF SegmentsOrdered
<1>6. IsInjective(hat.free) /\ ToSet(hat.free) \subseteq Ram
      /\ hat.used \subseteq Frames /\ hat.used \cap ToSet(hat.free) = {}
  <2>1. CASE hat.fromPfd BY <1>2, <2>1 DEF FramesSound
  <2>2. CASE ~hat.fromPfd
    <3>1. hat.free = <<>> /\ hat.used = {} BY <1>2, <2>2 DEF FramesSound
    <3>2. IsInjective(<<>>) /\ ToSet(<<>>) = {} BY DEF IsInjective, ToSet
    <3> QED BY <3>1, <3>2
  <2> QED BY <2>1, <2>2
<1>7. hat.directory \in [Directories -> Frames \cup {None}]
      /\ hat.table \in [VirtualSpace -> Frames \cup {None}]
  BY <1>2 DEF TablesSound
<1>8. hat.last \in Frames BY <1>2 DEF FramesSound
<1>9. {hat.fromPfd, hat.panicked} \subseteq BOOLEAN BY <1>2 DEF Hats
<1>10. \A r \in regions : r.kind \in {"pool", "dma", "device", "zero"} BY <1>2 DEF RegionsSound
<1> QED BY <1>2, <1>4, <1>5, <1>6, <1>7, <1>8, <1>9, <1>10 DEF TypeOK, Phases

\* Page tables hold frames that exist, the list of segments is ordered by
\* address and without overlaps, and the free list and the used list of the
\* page frame database never share a frame.
THEOREM MemoryTypes ==
  ASSUME MemorySuffices
  PROVE  Spec /\ [][SectionsAdjoin]_vars => []TypeOK
<1>1. IInv => TypeOK BY SoundTypes
<1> QED BY <1>1, MemoryStaysSound, PTL

\* Whatever is mapped above the identity mapping is reserved, by the loader, by
\* the kernel or by the functions that make page tables.
THEOREM MappedIsReservedMemory ==
  ASSUME MemorySuffices
  PROVE  Spec /\ [][SectionsAdjoin]_vars => []MappedPagesReserved
<1>1. ASSUME IInv PROVE MappedPagesReserved
  <2>1. PICK l, fixed : HatSound(hat, l, fixed, KeptIn(phase)) BY <1>1 DEF IInv, StateSound
  <2>2. hat \in Hats /\ MapSound(hat, l, fixed) /\ TablesSound(hat) /\ hat.map \in Seq(Segments)
    BY <2>1 DEF HatSound, Hats
  <2>3. ASSUME NEW page \in Mapped PROVE page \in ReservedPages(hat)
    <3>1. page \in MappedIn(hat) /\ page \in Int
      BY Layout DEF Mapped, MappedIn, Beyond, VirtualSpace
    <3>2. PICK s \in ToSet(hat.map) : Holds(s, page) BY <2>2, <3>1, MappedIsReserved
    <3>3. s.base \in Int /\ s.length \in Int
      <4>1. s \in Segments BY <2>2, <3>2 DEF ToSet
      <4> QED BY <4>1 DEF Segments
    <3>4. page \in s.base .. s.base + s.length - 1 BY <3>1, <3>2, <3>3 DEF Holds
    <3> QED BY <3>2, <3>4 DEF ReservedPages, PagesOf
  <2> QED BY <2>3 DEF MappedPagesReserved
<1> QED BY <1>1, MemoryStaysSound, PTL

\* The loader's allocator and the page frame database never give one frame to
\* two pages or page tables.
THEOREM FramesHaveOneOwner ==
  ASSUME MemorySuffices
  PROVE  Spec /\ [][SectionsAdjoin]_vars => []OneOwnerPerFrame
<1>1. IInv => OneOwnerPerFrame
  BY DEF IInv, StateSound, HatSound, FramesSound, OneOwnerPerFrame, Mapped, MappedIn
<1> QED BY <1>1, MemoryStaysSound, PTL

\* What mm_initPfd puts in the free list, and all that is left there later, is
\* mapped nowhere.
THEOREM FreeFramesAreUnmapped ==
  ASSUME MemorySuffices
  PROVE  Spec /\ [][SectionsAdjoin]_vars => []FreeFramesUnmapped
<1>1. IInv => FreeFramesUnmapped
  BY DEF IInv, StateSound, HatSound, FramesSound, FreeFramesUnmapped, FramesOf, Mapped, MappedIn
<1> QED BY <1>1, MemoryStaysSound, PTL

\* AddressSpace@add tests two pages of a region only, and yet no two regions
\* overlap, and each is a segment of the map.
THEOREM RegionsStayApart ==
  ASSUME MemorySuffices
  PROVE  Spec /\ [][SectionsAdjoin]_vars => []RegionsApart
<1>1. ASSUME IInv PROVE RegionsApart
  <2>1. PICK l, fixed : RegionsSound(regions, hat.map, l) BY <1>1 DEF IInv, StateSound
  <2>2. ASSUME NEW r \in regions, NEW q \in regions, r # q
        PROVE  PagesOf({r}) \cap PagesOf({q}) = {}
    <3>1. Apart(r, q) /\ r.base \in Nat /\ r.length \in Nat /\ q.base \in Nat /\ q.length \in Nat
      BY <2>1, <2>2 DEF RegionsSound
    <3>2. (r.base .. r.base + r.length - 1) \cap (q.base .. q.base + q.length - 1) = {}
      BY <3>1 DEF Apart
    <3> QED BY <3>2 DEF PagesOf
  <2>3. \A r \in regions : Segment(r.base, r.length) \in ToSet(hat.map)
    BY <2>1 DEF RegionsSound
  <2> QED BY <2>2, <2>3 DEF RegionsApart
<1> QED BY <1>1, MemoryStaysSound, PTL

\* No step, a page fault least of all, takes the frame from a mapped page or
\* gives it another.
THEOREM MappingsStayStable ==
  ASSUME MemorySuffices
  PROVE  Spec /\ [][SectionsAdjoin]_vars => MappingsStable
<1>1. Keeps(hat, hat') => \A page \in Mapped : Frame(hat', page) = Frame(hat, page)
  BY DEF Keeps, Mapped
<1> QED BY <1>1, MemoryStaysSound, PTL DEF MappingsStable
=============================================================================
