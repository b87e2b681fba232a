----------------------------- MODULE PoolProofs -----------------------------
(***************************************************************************)
(* Theorems about the pool for every pool size, number of slots and        *)
(* request size.                                                           *)
(***************************************************************************)
EXTENDS Pool, TLAPS

-----------------------------------------------------------------------------
(* Lists as the code uses them: pop the head, push at the head, unlink.    *)

\* What unlinking the i-th element leaves: list_del on a list of slots.
LEMMA RemoveAtElements ==
  ASSUME NEW S, NEW s \in Seq(S), NEW i \in DOMAIN s
  PROVE  /\ RemoveAt(s, i) \in Seq(S)
         /\ Len(RemoveAt(s, i)) = Len(s) - 1
         /\ \A j \in 1 .. Len(s) - 1 :
              RemoveAt(s, i)[j] = IF j < i THEN s[j] ELSE s[j + 1]
  <1> DEFINE a == SubSeq(s, 1, i - 1)
             b == SubSeq(s, i + 1, Len(s))
  <1>1. i \in 1 .. Len(s) /\ Len(s) \in Nat /\ i \in Int
    OBVIOUS
  <1>2. /\ a \in Seq(S) /\ Len(a) = i - 1
        /\ \A j \in 1 .. i - 1 : a[j] = s[j]
    BY <1>1
  <1>3. /\ b \in Seq(S) /\ Len(b) = Len(s) - i
        /\ \A j \in 1 .. Len(s) - i : b[j] = s[i + j]
    BY <1>1
  <1>4. RemoveAt(s, i) = a \o b
    BY DEF RemoveAt
  <1> HIDE DEF a, b
  <1>5. /\ a \o b \in Seq(S) /\ Len(a \o b) = Len(s) - 1
    BY <1>1, <1>2, <1>3
  <1>6. ASSUME NEW j \in 1 .. Len(s) - 1
        PROVE  (a \o b)[j] = IF j < i THEN s[j] ELSE s[j + 1]
    <2>1. CASE j < i
      BY <2>1, <1>1, <1>2, <1>3
    <2>2. CASE j >= i
      <3>1. (a \o b)[j] = b[j - (i - 1)]
        BY <2>2, <1>1, <1>2, <1>3
      <3>2. j - (i - 1) \in 1 .. Len(s) - i
        BY <2>2, <1>1
      <3>3. b[j - (i - 1)] = s[i + (j - (i - 1))]
        BY <3>2, <1>3
      <3>4. i + (j - (i - 1)) = j + 1
        BY <1>1
      <3>. QED
        BY <2>2, <3>1, <3>3, <3>4, <1>1
    <2>3. j < i \/ j >= i
      BY <1>1
    <2>. QED
      BY <2>1, <2>2, <2>3
  <1>. QED
    BY <1>4, <1>5, <1>6

\* Unlinking an element of a list without repetitions removes exactly it.
LEMMA RemoveAtSet ==
  ASSUME NEW S, NEW s \in Seq(S), NEW i \in DOMAIN s, NoRepeats(s)
  PROVE  /\ NoRepeats(RemoveAt(s, i))
         /\ ToSet(RemoveAt(s, i)) = ToSet(s) \ {s[i]}
  <1> DEFINE r == RemoveAt(s, i)
  <1>1. /\ r \in Seq(S) /\ Len(r) = Len(s) - 1
        /\ \A j \in 1 .. Len(s) - 1 : r[j] = IF j < i THEN s[j] ELSE s[j + 1]
    BY RemoveAtElements
  <1>2. i \in 1 .. Len(s) /\ Len(s) \in Nat
    OBVIOUS
  <1> HIDE DEF r
  <1>3. NoRepeats(r)
    <2> SUFFICES ASSUME NEW j \in 1 .. Len(s) - 1, NEW k \in 1 .. Len(s) - 1,
                        r[j] = r[k]
                 PROVE  j = k
      BY <1>1, <1>2 DEF NoRepeats
    <2> DEFINE Old(m) == IF m < i THEN m ELSE m + 1
    <2>1. /\ Old(j) \in DOMAIN s /\ Old(k) \in DOMAIN s
          /\ r[j] = s[Old(j)] /\ r[k] = s[Old(k)]
      BY <1>1, <1>2
    <2>2. Old(j) = Old(k) => j = k
      BY <1>2
    <2> HIDE DEF Old
    <2>. QED
      BY <2>1, <2>2 DEF NoRepeats
  <1>4. ASSUME NEW x \in ToSet(r) PROVE x \in ToSet(s) \ {s[i]}
    <2>1. PICK j \in 1 .. Len(s) - 1 : x = r[j]
      BY <1>1, <1>4 DEF ToSet
    <2>2. CASE j < i
      BY <2>1, <2>2, <1>1, <1>2 DEF ToSet, NoRepeats
    <2>3. CASE ~ (j < i)
      BY <2>1, <2>3, <1>1, <1>2 DEF ToSet, NoRepeats
    <2>. QED
      BY <2>2, <2>3
  <1>5. ASSUME NEW x \in ToSet(s) \ {s[i]} PROVE x \in ToSet(r)
    <2>1. PICK j \in 1 .. Len(s) : x = s[j] /\ j # i
      BY <1>5 DEF ToSet
    <2>2. CASE j < i
      <3>1. j \in 1 .. Len(s) - 1 /\ r[j] = x
        BY <2>1, <2>2, <1>1, <1>2
      <3>. QED
        BY <3>1, <1>1 DEF ToSet
    <2>3. CASE j > i
      <3>1. j - 1 \in 1 .. Len(s) - 1 /\ r[j - 1] = x
        BY <2>1, <2>3, <1>1, <1>2
      <3>. QED
        BY <3>1, <1>1 DEF ToSet
    <2>. QED
      BY <2>1, <2>2, <2>3, <1>2
  <1>. QED
    BY <1>3, <1>4, <1>5 DEF r

\* Popping the head of such a list removes exactly it.
LEMMA TailSet ==
  ASSUME NEW S, NEW s \in Seq(S), s # <<>>, NoRepeats(s)
  PROVE  /\ Tail(s) \in Seq(S)
         /\ Len(Tail(s)) = Len(s) - 1
         /\ Head(s) \in ToSet(s)
         /\ NoRepeats(Tail(s))
         /\ ToSet(Tail(s)) = ToSet(s) \ {Head(s)}
  <1>1. Len(s) \in Nat \ {0} /\ Head(s) = s[1] /\ 1 \in DOMAIN s
    OBVIOUS
  <1>2. /\ Tail(s) \in Seq(S) /\ Len(Tail(s)) = Len(s) - 1
        /\ \A j \in 1 .. Len(s) - 1 : Tail(s)[j] = s[j + 1]
    BY <1>1
  <1>3. NoRepeats(Tail(s))
    BY <1>1, <1>2 DEF NoRepeats
  <1>4. ASSUME NEW x \in ToSet(Tail(s)) PROVE x \in ToSet(s) \ {Head(s)}
    <2>1. PICK j \in 1 .. Len(s) - 1 : x = Tail(s)[j]
      BY <1>2, <1>4 DEF ToSet
    <2>2. x = s[j + 1] /\ j + 1 \in DOMAIN s /\ j + 1 # 1
      BY <2>1, <1>1, <1>2
    <2>. QED
      BY <2>2, <1>1 DEF ToSet, NoRepeats
  <1>5. ASSUME NEW x \in ToSet(s) \ {Head(s)} PROVE x \in ToSet(Tail(s))
    <2>1. PICK j \in 1 .. Len(s) : x = s[j] /\ j # 1
      BY <1>5, <1>1 DEF ToSet
    <2>2. j - 1 \in 1 .. Len(s) - 1 /\ Tail(s)[j - 1] = x
      BY <2>1, <1>1, <1>2
    <2>3. DOMAIN Tail(s) = 1 .. Len(s) - 1
      BY <1>1, <1>2
    <2>. QED
      BY <2>2, <2>3 DEF ToSet
  <1>6. Head(s) \in ToSet(s)
    BY <1>1 DEF ToSet
  <1>. QED
    BY <1>2, <1>3, <1>4, <1>5, <1>6

\* Pushing an element that is not in the list adds exactly it.
LEMMA PushSet ==
  ASSUME NEW S, NEW s \in Seq(S), NEW e \in S, NoRepeats(s), e \notin ToSet(s)
  PROVE  /\ <<e>> \o s \in Seq(S)
         /\ Len(<<e>> \o s) = Len(s) + 1
         /\ NoRepeats(<<e>> \o s)
         /\ ToSet(<<e>> \o s) = ToSet(s) \cup {e}
  <1> DEFINE p == <<e>> \o s
  <1>1. /\ p \in Seq(S) /\ Len(p) = Len(s) + 1 /\ Len(s) \in Nat
        /\ p[1] = e
        /\ \A j \in 1 .. Len(s) : p[j + 1] = s[j]
    OBVIOUS
  <1>2. \A j \in 2 .. Len(s) + 1 : p[j] = s[j - 1] /\ j - 1 \in DOMAIN s
    <2> TAKE j \in 2 .. Len(s) + 1
    <2>1. j - 1 \in 1 .. Len(s) /\ (j - 1) + 1 = j
      BY <1>1
    <2>. QED
      BY <2>1, <1>1
  <1>3. DOMAIN p = 1 .. Len(s) + 1
    BY <1>1
  <1> HIDE DEF p
  <1>4. NoRepeats(p)
    <2> SUFFICES ASSUME NEW j \in 1 .. Len(s) + 1, NEW k \in 1 .. Len(s) + 1,
                        p[j] = p[k]
                 PROVE  j = k
      BY <1>3 DEF NoRepeats
    <2>1. ASSUME NEW m \in 2 .. Len(s) + 1 PROVE p[m] # e
      BY <1>2, <2>1 DEF ToSet
    <2>2. CASE j = 1 \/ k = 1
      BY <2>1, <2>2, <1>1
    <2>3. CASE j # 1 /\ k # 1
      <3>1. /\ j \in 2 .. Len(s) + 1 /\ k \in 2 .. Len(s) + 1
        BY <2>3
      <3>2. s[j - 1] = s[k - 1] /\ j - 1 \in DOMAIN s /\ k - 1 \in DOMAIN s
        BY <3>1, <1>2
      <3>3. j - 1 = k - 1
        BY <3>2 DEF NoRepeats
      <3>. QED
        BY <3>1, <3>3
    <2>. QED
      BY <2>2, <2>3
  <1>5. ASSUME NEW x \in ToSet(p) PROVE x \in ToSet(s) \cup {e}
    <2>1. PICK j \in 1 .. Len(s) + 1 : x = p[j]
      BY <1>3, <1>5 DEF ToSet
    <2>2. CASE j = 1
      BY <2>1, <2>2, <1>1
    <2>3. CASE j # 1
      <3>1. x = s[j - 1] /\ j - 1 \in DOMAIN s
        BY <2>1, <2>3, <1>2
      <3>. QED
        BY <3>1 DEF ToSet
    <2>. QED
      BY <2>2, <2>3
  <1>6. ASSUME NEW x \in ToSet(s) \cup {e} PROVE x \in ToSet(p)
    <2>1. CASE x = e
      BY <2>1, <1>1, <1>3 DEF ToSet
    <2>2. CASE x \in ToSet(s)
      <3>1. PICK j \in 1 .. Len(s) : x = s[j]
        BY <2>2 DEF ToSet
      <3>2. p[j + 1] = x /\ j + 1 \in DOMAIN p
        BY <3>1, <1>1, <1>3
      <3>. QED
        BY <3>2 DEF ToSet
    <2>. QED
      BY <1>6, <2>1, <2>2
  <1>. QED
    BY <1>1, <1>4, <1>5, <1>6 DEF p

-----------------------------------------------------------------------------
(* The inductive invariant.  The lists, the tags and the geometry lean on  *)
(* each other: that a new used range is apart from the others needs the    *)
(* slot popped to be unallocated, which needs the list to be exact, which  *)
(* needs the counter not to promise more than the list holds.              *)

IInv ==
  /\ TypeOK
  /\ SlotsInOneContainer
  /\ CounterNeverExceedsList
  /\ RangesTileThePool
  /\ EmptyPanicMeansFull

LEMMA InitIInv == Init => IInv
  <1> SUFFICES ASSUME Init PROVE IInv
    OBVIOUS
  <1> USE PoolAssumption
  <1>1. 0 \in Slots /\ 1 \in Slots /\ Slots \subseteq Nat
    BY DEF Slots
  <1>2. \A s \in Slots :
          /\ slotType[s] = IF s = 0 THEN "USED"
                           ELSE IF s = 1 THEN "FREE" ELSE "UNALLOCATED"
          /\ start[s] = IF s = 1 THEN 1 ELSE 0
          /\ length[s] = IF s = 0 THEN 1
                         ELSE IF s = 1 THEN PoolPages - 1 ELSE 0
    BY <1>1 DEF Init
  <1>3. /\ unallocatedSlots \in Seq(Slots)
        /\ Len(unallocatedSlots) = NumSlots - 2
        /\ DOMAIN unallocatedSlots = 1 .. NumSlots - 2
        /\ \A i \in 1 .. NumSlots - 2 : unallocatedSlots[i] = i + 1
    BY DEF Init, Slots
  <1>4. TypeOK
    <2>1. slotType \in [Slots -> SlotTypes]
      BY <1>2 DEF Init, SlotTypes
    <2>2. start \in [Slots -> Nat] /\ length \in [Slots -> Nat]
      BY <1>2 DEF Init
    <2>3. freeList \in Seq(Slots) /\ usedRoot \in SUBSET Slots
      BY <1>1 DEF Init
    <2>4. mapped \in SUBSET Pages /\ panicked \in Panics \cup {"none"}
      BY DEF Init, Pages, Panics
    <2>5. numUnallocatedSlots \in Nat
      BY DEF Init
    <2>. QED
      BY <1>3, <2>1, <2>2, <2>3, <2>4, <2>5 DEF TypeOK
  <1>5. OfType("USED") = {0} /\ OfType("FREE") = {1}
    <2>1. OfType("USED") = {0}
      BY <1>1, <1>2 DEF OfType
    <2>2. slotType[1] = "FREE" /\ \A s \in Slots : slotType[s] = "FREE" => s = 1
      BY <1>1, <1>2
    <2>3. OfType("FREE") = {1}
      BY <1>1, <2>2, Zenon DEF OfType
    <2>. QED
      BY <2>1, <2>3
  <1>6. OfType("UNALLOCATED") = 2 .. NumSlots - 1
    BY <1>1, <1>2 DEF OfType, Slots
  <1>7. ToSet(unallocatedSlots) = 2 .. NumSlots - 1
    <2>1. ASSUME NEW x \in 2 .. NumSlots - 1 PROVE x \in ToSet(unallocatedSlots)
      <3>1. x - 1 \in 1 .. NumSlots - 2 /\ (x - 1) + 1 = x
        OBVIOUS
      <3>2. unallocatedSlots[x - 1] = x
        BY <1>3, <3>1
      <3>. QED
        BY <1>3, <3>1, <3>2 DEF ToSet
    <2>2. ASSUME NEW x \in ToSet(unallocatedSlots) PROVE x \in 2 .. NumSlots - 1
      <3>1. PICK i \in 1 .. NumSlots - 2 : x = i + 1
        BY <2>2, <1>3 DEF ToSet
      <3>. QED
        BY <3>1
    <2>. QED
      BY <2>1, <2>2
  <1>8. NoRepeats(unallocatedSlots)
    BY <1>3 DEF NoRepeats
  <1>9. freeList = <<1>> /\ NoRepeats(freeList) /\ ToSet(freeList) = {1}
    BY DEF Init, NoRepeats, ToSet
  <1>10. SlotsInOneContainer
    BY <1>5, <1>6, <1>7, <1>8, <1>9 DEF SlotsInOneContainer, Init
  <1>11. CounterNeverExceedsList
    <2>1. numUnallocatedSlots = NumSlots - 2
      BY DEF Init
    <2>. QED
      BY <2>1, <1>3 DEF CounterNeverExceedsList
  <1>12. LiveSlots = {0, 1}
    BY <1>5 DEF LiveSlots
  <1>13. RangesTileThePool
    <2>1. /\ start[0] = 0 /\ length[0] = 1
          /\ start[1] = 1 /\ length[1] = PoolPages - 1
      BY <1>1, <1>2
    <2>2. RangesApart
      BY <1>12, <2>1 DEF RangesApart
    <2>3. RangesInPool
      BY <1>12, <2>1 DEF RangesInPool
    <2>4. PagesCovered
      BY <1>12, <2>1 DEF PagesCovered, Holds, Pages
    <2>5. MetadataProtected
      BY <2>1 DEF MetadataProtected, Init
    <2>. QED
      BY <2>2, <2>3, <2>4, <2>5 DEF RangesTileThePool
  <1>14. EmptyPanicMeansFull
    BY DEF Init, EmptyPanicMeansFull
  <1>. QED
    BY <1>4, <1>10, <1>11, <1>13, <1>14 DEF IInv

\* What an allocation finds: the free slot and the new one are different,
\* and the lists lose exactly them.
LEMMA AllocFinds ==
  ASSUME TypeOK, SlotsInOneContainer, CounterNeverExceedsList, CanAllocSlot,
         NEW i \in DOMAIN freeList
  PROVE  /\ freeList[i] \in Slots /\ slotType[freeList[i]] = "FREE"
         /\ Head(unallocatedSlots) \in Slots
         /\ slotType[Head(unallocatedSlots)] = "UNALLOCATED"
         /\ freeList[i] \in LiveSlots
         /\ Head(unallocatedSlots) \notin LiveSlots
         /\ Head(unallocatedSlots) # freeList[i]
         /\ freeList[i] \notin usedRoot
         /\ Tail(unallocatedSlots) \in Seq(Slots)
         /\ Len(Tail(unallocatedSlots)) = Len(unallocatedSlots) - 1
         /\ NoRepeats(Tail(unallocatedSlots))
         /\ ToSet(Tail(unallocatedSlots))
              = OfType("UNALLOCATED") \ {Head(unallocatedSlots)}
  <1>1. freeList[i] \in OfType("FREE")
    BY DEF SlotsInOneContainer, ToSet
  <1>2. unallocatedSlots # <<>>
    <2>1. Len(unallocatedSlots) \in Nat /\ numUnallocatedSlots \in Nat
      BY DEF TypeOK
    <2>2. Len(unallocatedSlots) >= 2
      BY <2>1 DEF CounterNeverExceedsList, CanAllocSlot
    <2>. QED
      BY <2>2
  <1>3. Head(unallocatedSlots) \in OfType("UNALLOCATED")
    BY <1>2, TailSet DEF SlotsInOneContainer, TypeOK
  <1>4. /\ freeList[i] \in Slots /\ slotType[freeList[i]] = "FREE"
        /\ Head(unallocatedSlots) \in Slots
        /\ slotType[Head(unallocatedSlots)] = "UNALLOCATED"
    BY <1>1, <1>3 DEF OfType
  <1>5. freeList[i] \notin usedRoot
    BY <1>4 DEF SlotsInOneContainer, OfType
  <1>6. freeList[i] \in LiveSlots /\ Head(unallocatedSlots) \notin LiveSlots
    BY <1>4 DEF LiveSlots, OfType
  <1>. QED
    BY <1>2, <1>4, <1>5, <1>6, TailSet DEF SlotsInOneContainer, TypeOK

\* The new used range replaces the first pages of the free one.
LEMMA CarvePreserves ==
  ASSUME IInv, NEW pages \in Nat \ {0}, NEW i \in DOMAIN freeList,
         CanAllocSlot, Running,
         Carve(freeList[i], Head(unallocatedSlots), pages),
         numUnallocatedSlots' = numUnallocatedSlots - 1,
         usedRoot' = usedRoot \cup {Head(unallocatedSlots)},
         UNCHANGED <<mapped, panicked>>
  PROVE  IInv'
  <1> DEFINE free == freeList[i]
             new == Head(unallocatedSlots)
  <1>1. /\ free \in Slots /\ slotType[free] = "FREE"
        /\ new \in Slots /\ slotType[new] = "UNALLOCATED"
        /\ free \in LiveSlots /\ new \notin LiveSlots /\ new # free
        /\ free \notin usedRoot
        /\ Tail(unallocatedSlots) \in Seq(Slots)
        /\ Len(Tail(unallocatedSlots)) = Len(unallocatedSlots) - 1
        /\ NoRepeats(Tail(unallocatedSlots))
        /\ ToSet(Tail(unallocatedSlots)) = OfType("UNALLOCATED") \ {new}
    BY AllocFinds DEF IInv
  <1>2. /\ slotType \in [Slots -> SlotTypes]
        /\ start \in [Slots -> Nat] /\ length \in [Slots -> Nat]
        /\ numUnallocatedSlots \in Nat
    BY DEF IInv, TypeOK
  <1>3. /\ length[free] > pages
        /\ slotType' = [slotType EXCEPT ![new] = "USED"]
        /\ start' = [start EXCEPT ![new] = start[free], ![free] = @ + pages]
        /\ length' = [length EXCEPT ![new] = pages, ![free] = @ - pages]
        /\ unallocatedSlots' = Tail(unallocatedSlots)
        /\ freeList' = freeList
    BY DEF Carve
  <1> HIDE DEF free, new
  <1>4. \A s \in Slots : slotType'[s] = IF s = new THEN "USED" ELSE slotType[s]
    BY <1>1, <1>2, <1>3
  <1>5. \A s \in Slots :
          start'[s] = IF s = new THEN start[free]
                      ELSE IF s = free THEN start[free] + pages ELSE start[s]
    BY <1>1, <1>2, <1>3
  <1>6. \A s \in Slots :
          length'[s] = IF s = new THEN pages
                       ELSE IF s = free THEN length[free] - pages ELSE length[s]
    BY <1>1, <1>2, <1>3
  <1>7. TypeOK'
    <2>1. slotType' \in [Slots -> SlotTypes]
      BY <1>2, <1>3 DEF SlotTypes
    <2>2. start' \in [Slots -> Nat]
      <3>1. start[free] \in Nat /\ start[free] + pages \in Nat
        BY <1>1, <1>2
      <3>. QED
        BY <1>1, <1>2, <1>3, <3>1
    <2>3. length[free] - pages \in Nat
      BY <1>1, <1>2, <1>3
    <2>4. length' \in [Slots -> Nat]
      BY <1>1, <1>2, <1>3, <2>3
    <2>5. numUnallocatedSlots - 1 \in Nat
      BY <1>2 DEF CanAllocSlot
    <2>6. unallocatedSlots' \in Seq(Slots) /\ freeList' \in Seq(Slots)
      BY <1>1, <1>3 DEF IInv, TypeOK
    <2>7. /\ usedRoot' \in SUBSET Slots /\ mapped' \in SUBSET Pages
          /\ panicked' \in Panics \cup {"none"}
      BY <1>1 DEF IInv, TypeOK, new
    <2>. QED
      BY <2>1, <2>2, <2>4, <2>5, <2>6, <2>7 DEF TypeOK
  <1>8. /\ OfType("USED")' = OfType("USED") \cup {new}
        /\ OfType("FREE")' = OfType("FREE")
        /\ OfType("UNALLOCATED")' = OfType("UNALLOCATED") \ {new}
    BY <1>1, <1>4 DEF OfType
  <1>9. SlotsInOneContainer'
    BY <1>1, <1>3, <1>8 DEF IInv, SlotsInOneContainer, new
  <1>10. CounterNeverExceedsList'
    BY <1>1, <1>2, <1>3 DEF IInv, CounterNeverExceedsList, TypeOK
  <1>11. LiveSlots' = LiveSlots \cup {new}
    BY <1>8 DEF LiveSlots
  <1>12. LiveSlots \subseteq Slots /\ pages \in Nat /\ pages > 0
    BY DEF LiveSlots, OfType
  <1>13. RangesTileThePool'
    <2>1. /\ RangesApart /\ RangesInPool /\ PagesCovered /\ MetadataProtected
      BY DEF IInv, RangesTileThePool
    <2>2. /\ start'[new] = start[free] /\ length'[new] = pages
          /\ start'[free] = start[free] + pages
          /\ length'[free] = length[free] - pages
      BY <1>1, <1>5, <1>6
    <2>3. \A s \in LiveSlots \ {free} :
            s # new /\ start'[s] = start[s] /\ length'[s] = length[s]
      BY <1>1, <1>5, <1>6, <1>12
    <2>4. \A s \in LiveSlots : start[s] \in Nat /\ length[s] \in Nat
      BY <1>2, <1>12
    <2>5. RangesApart'
      <3> SUFFICES ASSUME NEW s \in LiveSlots', NEW t \in LiveSlots', s # t
                   PROVE  \/ start'[s] + length'[s] <= start'[t]
                          \/ start'[t] + length'[t] <= start'[s]
        BY DEF RangesApart
      <3>1. \A q \in LiveSlots \ {free} :
              \/ start[q] + length[q] <= start[free]
              \/ start[free] + length[free] <= start[q]
        BY <1>1, <2>1 DEF RangesApart
      <3>2. CASE s \in LiveSlots \ {free} /\ t \in LiveSlots \ {free}
        BY <2>1, <2>3, <3>2 DEF RangesApart
      <3>3. CASE s = free /\ t = new
        BY <1>1, <1>2, <1>3, <2>2, <3>3
      <3>4. CASE s = new /\ t = free
        BY <1>1, <1>2, <1>3, <2>2, <3>4
      <3>5. ASSUME NEW q \in LiveSlots \ {free}, NEW r \in {free, new}
            PROVE  \/ start'[q] + length'[q] <= start'[r]
                   \/ start'[r] + length'[r] <= start'[q]
        <4>1. /\ start[q] \in Nat /\ length[q] \in Nat
              /\ start[free] \in Nat /\ length[free] \in Nat
              /\ start'[q] = start[q] /\ length'[q] = length[q]
          BY <1>1, <2>3, <2>4
        <4>2. \/ start[q] + length[q] <= start[free]
              \/ start[free] + length[free] <= start[q]
          BY <3>1
        <4>3. CASE r = free
          BY <1>3, <1>12, <2>2, <4>1, <4>2, <4>3
        <4>4. CASE r = new
          BY <1>3, <1>12, <2>2, <4>1, <4>2, <4>4
        <4>. QED
          BY <4>3, <4>4
      <3>. QED
        BY <1>11, <3>2, <3>3, <3>4, <3>5
    <2>6. RangesInPool'
      <3> SUFFICES ASSUME NEW s \in LiveSlots'
                   PROVE  length'[s] > 0 /\ start'[s] + length'[s] <= PoolPages
        BY DEF RangesInPool
      <3>1. start[free] + length[free] <= PoolPages
        BY <1>1, <2>1 DEF RangesInPool
      <3>2. CASE s \in LiveSlots \ {free}
        BY <2>1, <2>3, <3>2 DEF RangesInPool
      <3>3. CASE s = free
        BY <1>1, <1>3, <1>12, <2>2, <2>4, <3>1, <3>3, PoolAssumption
      <3>4. CASE s = new
        BY <1>1, <1>3, <1>12, <2>2, <2>4, <3>1, <3>4, PoolAssumption
      <3>. QED
        BY <1>11, <3>2, <3>3, <3>4
    <2>7. PagesCovered'
      <3> SUFFICES ASSUME NEW page \in Pages
                   PROVE  \E s \in LiveSlots' : Holds(s, page)'
        BY DEF PagesCovered
      <3>1. PICK s \in LiveSlots : Holds(s, page)
        BY <2>1 DEF PagesCovered
      <3>2. CASE s # free
        BY <1>11, <2>3, <3>1, <3>2 DEF Holds
      <3>3. CASE s = free /\ page < start[free] + pages
        <4>1. start'[new] <= page /\ page < start'[new] + length'[new]
          BY <2>2, <3>1, <3>3 DEF Holds
        <4>. QED
          BY <1>11, <4>1 DEF Holds
      <3>4. CASE s = free /\ ~(page < start[free] + pages)
        <4>1. page \in Int /\ start[free] \in Nat /\ length[free] \in Nat
          BY <1>1, <2>4, PoolAssumption DEF Pages
        <4>2. start[free] <= page /\ page < start[free] + length[free]
          BY <3>1, <3>4 DEF Holds
        <4>3. /\ start[free] + pages <= page
              /\ page < (start[free] + pages) + (length[free] - pages)
          BY <1>12, <3>4, <4>1, <4>2
        <4>4. start'[free] <= page /\ page < start'[free] + length'[free]
          BY <2>2, <4>3
        <4>. QED
          BY <1>1, <1>11, <4>4 DEF Holds
      <3>. QED
        BY <3>2, <3>3, <3>4
    <2>8. MetadataProtected'
      <3>1. 0 \in usedRoot' /\ 0 # new /\ 0 # free /\ 0 \in Slots
        BY <1>1, <2>1 DEF MetadataProtected, IInv, SlotsInOneContainer, OfType
      <3>. QED
        BY <1>5, <1>6, <2>1, <3>1 DEF MetadataProtected
    <2>. QED
      BY <2>5, <2>6, <2>7, <2>8 DEF RangesTileThePool
  <1>14. EmptyPanicMeansFull'
    BY DEF Running, EmptyPanicMeansFull
  <1>. QED
    BY <1>7, <1>9, <1>10, <1>13, <1>14 DEF IInv

\* The new used range replaces the whole free one, whose slot is given back.
LEMMA TakeWholePreserves ==
  ASSUME IInv, NEW pages \in Nat \ {0}, NEW i \in DOMAIN freeList,
         CanAllocSlot, Running,
         TakeWhole(freeList[i], Head(unallocatedSlots), i, pages),
         numUnallocatedSlots' = numUnallocatedSlots - 1,
         usedRoot' = usedRoot \cup {Head(unallocatedSlots)},
         UNCHANGED <<mapped, panicked>>
  PROVE  IInv'
  <1> DEFINE free == freeList[i]
             new == Head(unallocatedSlots)
  <1>1. /\ free \in Slots /\ slotType[free] = "FREE"
        /\ new \in Slots /\ slotType[new] = "UNALLOCATED"
        /\ free \in LiveSlots /\ new \notin LiveSlots /\ new # free
        /\ free \notin usedRoot
        /\ Tail(unallocatedSlots) \in Seq(Slots)
        /\ Len(Tail(unallocatedSlots)) = Len(unallocatedSlots) - 1
        /\ NoRepeats(Tail(unallocatedSlots))
        /\ ToSet(Tail(unallocatedSlots)) = OfType("UNALLOCATED") \ {new}
    BY AllocFinds DEF IInv
  <1>2. /\ slotType \in [Slots -> SlotTypes]
        /\ start \in [Slots -> Nat] /\ length \in [Slots -> Nat]
        /\ numUnallocatedSlots \in Nat /\ Len(unallocatedSlots) \in Nat
    BY DEF IInv, TypeOK
  <1>3. /\ length[free] = pages
        /\ slotType' = [slotType EXCEPT ![new] = "USED", ![free] = "UNALLOCATED"]
        /\ start' = [start EXCEPT ![new] = start[free], ![free] = 0]
        /\ length' = [length EXCEPT ![new] = pages, ![free] = 0]
        /\ unallocatedSlots' = <<free>> \o Tail(unallocatedSlots)
        /\ freeList' = RemoveAt(freeList, i)
    BY DEF TakeWhole
  <1>4. /\ freeList' \in Seq(Slots) /\ NoRepeats(freeList')
        /\ ToSet(freeList') = OfType("FREE") \ {free}
    <2>1. freeList \in Seq(Slots) /\ NoRepeats(freeList)
      BY DEF IInv, TypeOK, SlotsInOneContainer
    <2>2. /\ NoRepeats(RemoveAt(freeList, i))
          /\ ToSet(RemoveAt(freeList, i)) = ToSet(freeList) \ {freeList[i]}
      BY <2>1, RemoveAtSet
    <2>3. RemoveAt(freeList, i) \in Seq(Slots)
      BY <2>1, RemoveAtElements
    <2>. QED
      BY <1>3, <2>2, <2>3 DEF IInv, SlotsInOneContainer
  <1> HIDE DEF free, new
  <1>5. /\ unallocatedSlots' \in Seq(Slots)
        /\ Len(unallocatedSlots') = Len(unallocatedSlots)
        /\ NoRepeats(unallocatedSlots')
        /\ ToSet(unallocatedSlots') = (OfType("UNALLOCATED") \ {new}) \cup {free}
    <2>1. free \notin ToSet(Tail(unallocatedSlots))
      BY <1>1 DEF OfType
    <2> DEFINE rest == Tail(unallocatedSlots)
    <2>0. /\ rest \in Seq(Slots) /\ NoRepeats(rest) /\ free \in Slots
          /\ free \notin ToSet(rest)
      BY <1>1, <2>1
    <2> HIDE DEF rest
    <2>2. /\ <<free>> \o rest \in Seq(Slots)
          /\ Len(<<free>> \o rest) = Len(rest) + 1
          /\ NoRepeats(<<free>> \o rest)
          /\ ToSet(<<free>> \o rest) = ToSet(rest) \cup {free}
      BY <2>0, PushSet
    <2>3. Len(rest) + 1 = Len(unallocatedSlots)
      BY <1>1, <1>2 DEF rest
    <2>4. ToSet(rest) = OfType("UNALLOCATED") \ {new}
      BY <1>1 DEF rest
    <2>5. unallocatedSlots' = <<free>> \o rest
      BY <1>3 DEF rest
    <2>. QED
      BY <2>2, <2>3, <2>4, <2>5
  <1>6. \A s \in Slots :
          slotType'[s] = IF s = new THEN "USED"
                         ELSE IF s = free THEN "UNALLOCATED" ELSE slotType[s]
    BY <1>1, <1>2, <1>3
  <1>7. /\ start'[new] = start[free] /\ length'[new] = pages
        /\ \A s \in Slots \ {new, free} :
             start'[s] = start[s] /\ length'[s] = length[s]
    BY <1>1, <1>2, <1>3
  <1>8. TypeOK'
    <2>1. slotType' \in [Slots -> SlotTypes]
      BY <1>2, <1>3 DEF SlotTypes
    <2>2. start' \in [Slots -> Nat] /\ length' \in [Slots -> Nat]
      BY <1>1, <1>2, <1>3
    <2>3. numUnallocatedSlots - 1 \in Nat
      BY <1>2 DEF CanAllocSlot
    <2>4. /\ usedRoot' \in SUBSET Slots /\ mapped' \in SUBSET Pages
          /\ panicked' \in Panics \cup {"none"}
      BY <1>1 DEF IInv, TypeOK, new
    <2>. QED
      BY <1>4, <1>5, <2>1, <2>2, <2>3, <2>4 DEF TypeOK
  <1>9. /\ OfType("USED")' = OfType("USED") \cup {new}
        /\ OfType("FREE")' = OfType("FREE") \ {free}
        /\ OfType("UNALLOCATED")' = (OfType("UNALLOCATED") \ {new}) \cup {free}
    BY <1>1, <1>6 DEF OfType
  <1>10. SlotsInOneContainer'
    BY <1>4, <1>5, <1>9 DEF IInv, SlotsInOneContainer, new
  <1>11. CounterNeverExceedsList'
    BY <1>2, <1>5 DEF IInv, CounterNeverExceedsList
  <1>12. LiveSlots' = (LiveSlots \ {free}) \cup {new}
    BY <1>1, <1>9 DEF LiveSlots, OfType
  <1>13. \A s \in LiveSlots \ {free} :
           s # new /\ start'[s] = start[s] /\ length'[s] = length[s]
    BY <1>1, <1>7 DEF LiveSlots, OfType
  <1>14. RangesTileThePool'
    <2>1. /\ RangesApart /\ RangesInPool /\ PagesCovered /\ MetadataProtected
      BY DEF IInv, RangesTileThePool
    <2>0. start'[new] = start[free] /\ length'[new] = length[free]
      BY <1>3, <1>7
    <2>2. RangesApart'
      <3> SUFFICES ASSUME NEW s \in LiveSlots', NEW t \in LiveSlots', s # t
                   PROVE  \/ start'[s] + length'[s] <= start'[t]
                          \/ start'[t] + length'[t] <= start'[s]
        BY DEF RangesApart
      <3> DEFINE Was(u) == IF u = new THEN free ELSE u
      <3>1. ASSUME NEW u \in LiveSlots'
            PROVE  /\ Was(u) \in LiveSlots
                   /\ start'[u] = start[Was(u)] /\ length'[u] = length[Was(u)]
        BY <1>1, <1>12, <1>13, <2>0, <3>1
      <3>2. Was(s) # Was(t)
        BY <1>12
      <3> HIDE DEF Was
      <3>3. \/ start[Was(s)] + length[Was(s)] <= start[Was(t)]
            \/ start[Was(t)] + length[Was(t)] <= start[Was(s)]
        BY <2>1, <3>1, <3>2 DEF RangesApart
      <3>. QED
        BY <3>1, <3>3
    <2>3. RangesInPool'
      BY <1>1, <1>12, <1>13, <2>0, <2>1 DEF RangesInPool
    <2>4. PagesCovered'
      <3> SUFFICES ASSUME NEW page \in Pages
                   PROVE  \E s \in LiveSlots' : Holds(s, page)'
        BY DEF PagesCovered
      <3>1. PICK s \in LiveSlots : Holds(s, page)
        BY <2>1 DEF PagesCovered
      <3>2. CASE s # free
        BY <1>12, <1>13, <3>1, <3>2 DEF Holds
      <3>3. CASE s = free
        BY <1>3, <1>7, <1>12, <3>1, <3>3 DEF Holds
      <3>. QED
        BY <3>2, <3>3
    <2>5. MetadataProtected'
      <3>1. 0 \in usedRoot' /\ 0 # new /\ 0 # free /\ 0 \in Slots
        BY <1>1, <2>1 DEF MetadataProtected, IInv, SlotsInOneContainer, OfType
      <3>. QED
        BY <1>7, <2>1, <3>1 DEF MetadataProtected
    <2>. QED
      BY <2>2, <2>3, <2>4, <2>5 DEF RangesTileThePool
  <1>15. EmptyPanicMeansFull'
    BY DEF Running, EmptyPanicMeansFull
  <1>. QED
    BY <1>8, <1>10, <1>11, <1>14, <1>15 DEF IInv

LEMMA AllocRangePreserves ==
  ASSUME IInv, NEW pages \in Nat \ {0}, AllocRange(pages)
  PROVE  IInv'
  <1>1. PICK i \in DOMAIN freeList : AllocInFreeSlot(i, pages)
    BY DEF AllocRange
  <1>2. Running
    BY DEF AllocRange
  <1>3. CASE Carve(freeList[i], Head(unallocatedSlots), pages)
    BY <1>1, <1>2, <1>3, CarvePreserves DEF AllocInFreeSlot
  <1>4. CASE TakeWhole(freeList[i], Head(unallocatedSlots), i, pages)
    BY <1>1, <1>2, <1>4, TakeWholePreserves DEF AllocInFreeSlot
  <1>. QED
    BY <1>1, <1>3, <1>4 DEF AllocInFreeSlot

\* The freed range only changes sides.
LEMMA FreeRangePreserves ==
  ASSUME IInv, NEW addr \in Pages \ {0}, FreeRange(addr)
  PROVE  IInv'
  <1>1. PICK s \in usedRoot :
          /\ Holds(s, addr)
          /\ usedRoot' = usedRoot \ {s}
          /\ slotType' = [slotType EXCEPT ![s] = "FREE"]
          /\ freeList' = <<s>> \o freeList
    BY DEF FreeRange
  <1>2. UNCHANGED <<start, length, unallocatedSlots, numUnallocatedSlots,
                    mapped, panicked>>
    BY DEF FreeRange
  <1>3. /\ slotType \in [Slots -> SlotTypes] /\ freeList \in Seq(Slots)
        /\ usedRoot \in SUBSET Slots
    BY DEF IInv, TypeOK
  <1>4. s \in Slots /\ slotType[s] = "USED"
    BY <1>3 DEF IInv, SlotsInOneContainer, OfType
  <1>5. s # 0
    BY <1>1, PoolAssumption
       DEF IInv, RangesTileThePool, MetadataProtected, Holds, Pages
  <1>6. \A r \in Slots : slotType'[r] = IF r = s THEN "FREE" ELSE slotType[r]
    BY <1>1, <1>3, <1>4
  <1>7. /\ OfType("USED")' = OfType("USED") \ {s}
        /\ OfType("FREE")' = OfType("FREE") \cup {s}
        /\ OfType("UNALLOCATED")' = OfType("UNALLOCATED")
    BY <1>4, <1>6 DEF OfType
  <1>8. /\ freeList' \in Seq(Slots) /\ NoRepeats(freeList')
        /\ ToSet(freeList') = ToSet(freeList) \cup {s}
    <2>1. s \notin ToSet(freeList) /\ NoRepeats(freeList)
      BY <1>4 DEF IInv, SlotsInOneContainer, OfType
    <2>. QED
      BY <1>1, <1>3, <1>4, <2>1, PushSet
  <1>9. TypeOK'
    <2>1. slotType' \in [Slots -> SlotTypes]
      BY <1>1, <1>3 DEF SlotTypes
    <2>. QED
      BY <1>1, <1>2, <1>3, <1>8, <2>1 DEF IInv, TypeOK
  <1>10. SlotsInOneContainer'
    BY <1>1, <1>2, <1>7, <1>8 DEF IInv, SlotsInOneContainer
  <1>11. CounterNeverExceedsList'
    BY <1>2 DEF IInv, CounterNeverExceedsList
  <1>12. LiveSlots' = LiveSlots
    BY <1>4, <1>7 DEF LiveSlots, OfType
  <1>13. RangesTileThePool'
    BY <1>1, <1>2, <1>5, <1>12
       DEF IInv, RangesTileThePool, RangesApart, RangesInPool, PagesCovered,
           MetadataProtected, Holds
  <1>14. EmptyPanicMeansFull'
    BY <1>2 DEF FreeRange, Running, EmptyPanicMeansFull
  <1>. QED
    BY <1>9, <1>10, <1>11, <1>13, <1>14 DEF IInv

\* Nothing an invariant speaks of changes but the mapped pages or the panic.
LEMMA SameSlotsPreserves ==
  ASSUME IInv, UNCHANGED slotVars, mapped' \in SUBSET Pages,
         panicked' \in Panics \cup {"none"}, EmptyPanicMeansFull'
  PROVE  IInv'
  <1>1. /\ slotType' = slotType /\ start' = start /\ length' = length
        /\ unallocatedSlots' = unallocatedSlots
        /\ numUnallocatedSlots' = numUnallocatedSlots
        /\ freeList' = freeList /\ usedRoot' = usedRoot
    BY DEF slotVars
  <1>2. TypeOK'
    BY <1>1 DEF IInv, TypeOK
  <1>3. SlotsInOneContainer' /\ CounterNeverExceedsList'
    BY <1>1 DEF IInv, SlotsInOneContainer, CounterNeverExceedsList, OfType
  <1>4. RangesTileThePool'
    BY <1>1 DEF IInv, RangesTileThePool, RangesApart, RangesInPool,
                PagesCovered, MetadataProtected, Holds, LiveSlots, OfType
  <1>. QED
    BY <1>2, <1>3, <1>4 DEF IInv

LEMMA PanicPreserves ==
  ASSUME IInv, NEW message \in Panics \ {"FreeListEmpty"}, Panic(message)
  PROVE  IInv'
  <1>1. EmptyPanicMeansFull'
    BY DEF Panic, EmptyPanicMeansFull
  <1>. QED
    BY <1>1, SameSlotsPreserves DEF Panic, IInv, TypeOK

\* With no free range, the used ones cover the pool.
LEMMA EmptyPanicPreserves ==
  ASSUME IInv, freeList = <<>>, Panic("FreeListEmpty")
  PROVE  IInv'
  <1>1. OfType("FREE") = {}
    BY DEF IInv, SlotsInOneContainer, ToSet
  <1>2. LiveSlots = usedRoot
    BY <1>1 DEF LiveSlots, IInv, SlotsInOneContainer
  <1>3. \A page \in Pages : \E s \in usedRoot : Holds(s, page)
    BY <1>2 DEF IInv, RangesTileThePool, PagesCovered
  <1>4. EmptyPanicMeansFull'
    BY <1>3 DEF EmptyPanicMeansFull, Panic, slotVars, Holds
  <1>. QED
    BY <1>4, SameSlotsPreserves DEF Panic, Panics, IInv, TypeOK

LEMMA StepIInv == IInv /\ [Next]_vars => IInv'
  <1> SUFFICES ASSUME IInv, [Next]_vars PROVE IInv'
    OBVIOUS
  <1>1. ASSUME NEW pages \in 1 .. MaxRequest, AllocRange(pages) PROVE IInv'
    BY <1>1, AllocRangePreserves, PoolAssumption
  <1>2. ASSUME NEW pages \in 1 .. MaxRequest, AllocRangePanics(pages)
        PROVE  IInv'
    BY <1>2, EmptyPanicPreserves, PanicPreserves DEF AllocRangePanics, Panics
  <1>3. CASE UNCHANGED vars
    <2>1. EmptyPanicMeansFull'
      BY <1>3 DEF vars, slotVars, IInv, EmptyPanicMeansFull, Holds
    <2>. QED
      BY <1>3, <2>1, SameSlotsPreserves DEF vars, IInv, TypeOK
  <1>4. ASSUME NEW pages \in 1 .. MaxRequest, AllocRangeReturnsNull(pages)
        PROVE  IInv'
    BY <1>3, <1>4 DEF AllocRangeReturnsNull
  <1>5. ASSUME NEW page \in Pages \ {0}, FreeRange(page) PROVE IInv'
    BY <1>5, FreeRangePreserves
  <1>6. ASSUME NEW page \in Pages \ {0}, FreeRangePanics(page) PROVE IInv'
    BY <1>6, PanicPreserves DEF FreeRangePanics, Panics
  <1>7. ASSUME NEW page \in Pages \ {0}, PageIn(page) PROVE IInv'
    <2>1. EmptyPanicMeansFull'
      BY <1>7 DEF PageIn, Running, EmptyPanicMeansFull
    <2>. QED
      BY <1>7, <2>1, SameSlotsPreserves DEF PageIn, IInv, TypeOK
  <1>8. ASSUME NEW page \in Pages \ {0}, PageInPanics(page) PROVE IInv'
    BY <1>8, PanicPreserves DEF PageInPanics, Panics
  <1>. QED
    BY <1>1, <1>2, <1>3, <1>4, <1>5, <1>6, <1>7, <1>8 DEF Next

-----------------------------------------------------------------------------
(* The theorems.                                                           *)

LEMMA Inductive == Spec => []IInv
  BY InitIInv, StepIInv, PTL DEF Spec

\* Type correctness of the pool.
THEOREM PoolTyping == Spec => []TypeOK
  BY Inductive, PTL DEF IInv

\* Whatever is requested and freed in whatever order, every slot is in
\* exactly the container of its type (pool.co keeps three of them by hand).
THEOREM PoolContainers == Spec => []SlotsInOneContainer
  BY Inductive, PTL DEF IInv

\* pool_chunk_allocSlot never pops an empty list.
THEOREM PoolCounterSafe == Spec => []CounterNeverExceedsList
  BY Inductive, PTL DEF IInv

\* Used and free ranges tile every pool: no overlap, no lost page.
THEOREM PoolTiling == Spec => []RangesTileThePool
  BY Inductive, PTL DEF IInv

\* The pool panics with "FREE LIST EMPTY" only when it is full.
THEOREM PoolHonestPanic == Spec => []EmptyPanicMeansFull
  BY Inductive, PTL DEF IInv

\* The range of a used slot stays where it is until it is freed.
THEOREM PoolStability == Spec => UsedRangesStable
  <1> DEFINE Stable == \A s \in usedRoot \cap usedRoot' :
                         start'[s] = start[s] /\ length'[s] = length[s]
  <1>1. IInv /\ [Next]_vars => Stable
    <2> SUFFICES ASSUME IInv, [Next]_vars, NEW s \in usedRoot
                 PROVE  start'[s] = start[s] /\ length'[s] = length[s]
      OBVIOUS
    <2>1. CASE UNCHANGED <<start, length>>
      BY <2>1
    <2>2. ASSUME NEW pages \in 1 .. MaxRequest, AllocRange(pages)
          PROVE  start'[s] = start[s] /\ length'[s] = length[s]
      <3>1. PICK i \in DOMAIN freeList : AllocInFreeSlot(i, pages)
        BY <2>2 DEF AllocRange
      <3>2. s # freeList[i] /\ s # Head(unallocatedSlots) /\ s \in Slots
        BY <3>1, AllocFinds
           DEF AllocInFreeSlot, IInv, SlotsInOneContainer, OfType
      <3>. QED
        BY <3>1, <3>2 DEF AllocInFreeSlot, Carve, TakeWhole, IInv, TypeOK
    <2>. QED
      BY <2>1, <2>2
         DEF Next, vars, slotVars, AllocRangePanics, AllocRangeReturnsNull,
             FreeRange, FreeRangePanics, PageIn, PageInPanics, Panic
  <1>2. IInv /\ [Next]_vars => [Stable]_vars
    BY <1>1
  <1>. QED
    BY <1>2, Inductive, PTL DEF Spec, UsedRangesStable

-----------------------------------------------------------------------------
(* The pool implements the abstract range allocator.                       *)

LEMMA AllocRefines ==
  ASSUME IInv, NEW pages \in 1 .. MaxRequest, AllocRange(pages)
  PROVE  Abstract!Alloc
  <1>1. PICK i \in DOMAIN freeList : AllocInFreeSlot(i, pages)
    BY DEF AllocRange
  <1> DEFINE free == freeList[i]
             new == Head(unallocatedSlots)
             given == [start |-> start[free], length |-> pages]
  <1>2. /\ free \in LiveSlots /\ free \notin usedRoot
        /\ new \notin LiveSlots /\ new # free
        /\ free \in Slots /\ new \in Slots
    BY <1>1, AllocFinds DEF AllocInFreeSlot, IInv
  <1>3. /\ start \in [Slots -> Nat] /\ length \in [Slots -> Nat]
        /\ pages \in Nat /\ pages > 0
    BY PoolAssumption DEF IInv, TypeOK
  <1>4. length[free] >= pages
    BY <1>1, <1>2, <1>3 DEF AllocInFreeSlot, Carve, TakeWhole
  <1>5. /\ usedRoot' = usedRoot \cup {new}
        /\ usedRoot \subseteq LiveSlots /\ LiveSlots \subseteq Slots
    BY <1>1 DEF AllocInFreeSlot, IInv, SlotsInOneContainer, LiveSlots, OfType
  <1>6. /\ start'[new] = start[free] /\ length'[new] = pages
        /\ \A s \in usedRoot : start'[s] = start[s] /\ length'[s] = length[s]
    BY <1>1, <1>2, <1>3, <1>5 DEF AllocInFreeSlot, Carve, TakeWhole
  <1>7. /\ start[free] + length[free] <= PoolPages
        /\ \A s \in usedRoot : \/ start[s] + length[s] <= start[free]
                               \/ start[free] + length[free] <= start[s]
    BY <1>2, <1>5 DEF IInv, RangesTileThePool, RangesInPool, RangesApart
  <1> HIDE DEF free, new
  <1>8. OwnedRanges' = OwnedRanges \cup {given}
    BY <1>5, <1>6 DEF OwnedRanges
  <1>9. start[free] \in 0 .. PoolPages - 1 /\ pages \in 1 .. PoolPages
    BY <1>2, <1>3, <1>4, <1>7, PoolAssumption
  <1>10. Abstract!InsidePool(given)
    <2>1. /\ start[free] \in Nat /\ length[free] \in Nat
          /\ start[free] + pages <= PoolPages
      BY <1>2, <1>3, <1>4, <1>7, PoolAssumption
    <2>2. given.start = start[free] /\ given.length = pages
      OBVIOUS
    <2>. QED
      BY <1>3, <2>1, <2>2 DEF Abstract!InsidePool
  <1>11. ASSUME NEW r \in OwnedRanges PROVE Abstract!Apart(r, given)
    <2>1. PICK s \in usedRoot : r = [start |-> start[s], length |-> length[s]]
      BY DEF OwnedRanges
    <2>2. /\ start[s] \in Nat /\ length[s] \in Nat
          /\ start[free] \in Nat /\ length[free] \in Nat
      BY <1>2, <1>3, <1>5
    <2>3. \/ start[s] + length[s] <= start[free]
          \/ start[free] + pages <= start[s]
      BY <1>3, <1>4, <1>7, <2>2
    <2>. QED
      BY <2>1, <2>3 DEF Abstract!Apart
  <1>. QED
    BY <1>8, <1>9, <1>10, <1>11
       DEF Abstract!Alloc, Abstract!AllocAt, Abstract!Range

LEMMA FreeRefines ==
  ASSUME IInv, NEW addr \in Pages \ {0}, FreeRange(addr)
  PROVE  Abstract!Free
  <1>1. PICK s \in usedRoot : Holds(s, addr) /\ usedRoot' = usedRoot \ {s}
    BY DEF FreeRange
  <1> DEFINE freed == [start |-> start[s], length |-> length[s]]
  <1>2. start' = start /\ length' = length
    BY DEF FreeRange
  <1>3. usedRoot \subseteq LiveSlots /\ LiveSlots \subseteq Slots
    BY DEF IInv, SlotsInOneContainer, LiveSlots, OfType
  <1>4. start \in [Slots -> Nat] /\ length \in [Slots -> Nat]
    BY DEF IInv, TypeOK
  <1>5. ASSUME NEW t \in usedRoot, t # s PROVE start[t] # start[s]
    BY <1>3, <1>4, <1>5
       DEF IInv, RangesTileThePool, RangesApart, RangesInPool
  <1>6. OwnedRanges' = OwnedRanges \ {freed}
    <2>1. ASSUME NEW t \in usedRoot, t # s
          PROVE  [start |-> start[t], length |-> length[t]] # freed
      BY <1>5, <2>1
    <2>. QED
      BY <1>1, <1>2, <2>1 DEF OwnedRanges
  <1>7. start[s] # 0
    <2>1. s # 0
      BY <1>1, PoolAssumption
         DEF IInv, RangesTileThePool, MetadataProtected, Holds, Pages
    <2>. QED
      BY <1>5, <2>1 DEF IInv, RangesTileThePool, MetadataProtected
  <1>8. freed \in OwnedRanges \ {Abstract!MetadataRange}
    BY <1>1, <1>7 DEF OwnedRanges, Abstract!MetadataRange, Abstract!Range
  <1>. QED
    BY <1>6, <1>8 DEF Abstract!Free

\* Every behaviour of the pool, seen through the ranges of its used slots, is
\* one of the abstract allocator: allocRange never hands out a page twice.
THEOREM PoolRefinement == Spec => ImplementsRangeAllocator
  <1>1. Init => Abstract!Init
    BY PoolAssumption
       DEF Init, OwnedRanges, Slots, Abstract!Init, Abstract!MetadataRange,
           Abstract!Range
  <1>2. IInv /\ [Next]_vars => [Abstract!Next]_OwnedRanges
    <2> SUFFICES ASSUME IInv, [Next]_vars
                 PROVE  Abstract!Next \/ UNCHANGED OwnedRanges
      OBVIOUS
    <2>1. CASE UNCHANGED <<start, length, usedRoot>>
      BY <2>1 DEF OwnedRanges
    <2>2. ASSUME NEW pages \in 1 .. MaxRequest, AllocRange(pages)
          PROVE  Abstract!Next
      BY <2>2, AllocRefines DEF Abstract!Next
    <2>3. ASSUME NEW page \in Pages \ {0}, FreeRange(page)
          PROVE  Abstract!Next
      BY <2>3, FreeRefines DEF Abstract!Next
    <2>. QED
      BY <2>1, <2>2, <2>3
         DEF Next, vars, slotVars, AllocRangePanics, AllocRangeReturnsNull,
             FreeRangePanics, PageIn, PageInPanics, Panic
  <1>. QED
    BY <1>1, <1>2, Inductive, PTL
       DEF Spec, ImplementsRangeAllocator, Abstract!Spec
-----------------------------------------------------------------------------
(* What every client of a pool relies on.                                  *)

\* A range that is apart from all others may join them.
LEMMA AllocKeepsExclusive ==
  ASSUME Abstract!Exclusive, NEW first \in Nat, NEW pages \in Nat, Abstract!AllocAt(first, pages)
  PROVE  Abstract!Exclusive'
  <1> DEFINE new == Abstract!Range(first, pages)
  <1>1. /\ OwnedRanges' = OwnedRanges \cup {new} /\ Abstract!InsidePool(new)
        /\ \A r \in OwnedRanges : Abstract!Apart(r, new)
    BY DEF Abstract!AllocAt
  <1>2. \A r \in OwnedRanges : Abstract!Apart(new, r)
    BY <1>1 DEF Abstract!Apart
  <1>3. Abstract!MetadataRange \in OwnedRanges'
    BY <1>1 DEF Abstract!Exclusive
  <1>4. \A r \in OwnedRanges' : Abstract!InsidePool(r)
    BY <1>1 DEF Abstract!Exclusive
  <1>5. \A r, q \in OwnedRanges' : r # q => Abstract!Apart(r, q)
    BY <1>1, <1>2 DEF Abstract!Exclusive
  <1>. QED
    BY <1>3, <1>4, <1>5
       DEF Abstract!Exclusive, Abstract!InsidePool, Abstract!Apart, Abstract!MetadataRange

\* The range allocator gives no page to two owners and no range that leaves
\* the pool, and keeps the page of metadata, whatever its clients do.
THEOREM ExclusiveOwnership == Abstract!Spec => []Abstract!Exclusive
  <1>1. Abstract!Init => Abstract!Exclusive
    BY PoolAssumption
       DEF Abstract!Init, Abstract!Exclusive, Abstract!MetadataRange, Abstract!Range,
           Abstract!InsidePool
  <1>2. Abstract!Exclusive /\ [Abstract!Next]_OwnedRanges => Abstract!Exclusive'
    <2> SUFFICES ASSUME Abstract!Exclusive, [Abstract!Next]_OwnedRanges
                 PROVE  Abstract!Exclusive'
      OBVIOUS
    <2>1. ASSUME Abstract!Alloc PROVE Abstract!Exclusive'
      <3>1. PICK first \in 0 .. PoolPages - 1, pages \in 1 .. PoolPages :
              Abstract!AllocAt(first, pages)
        BY <2>1 DEF Abstract!Alloc
      <3>. QED
        BY <3>1, AllocKeepsExclusive
    <2>2. ASSUME Abstract!Free PROVE Abstract!Exclusive'
      BY <2>2 DEF Abstract!Free, Abstract!Exclusive, Abstract!MetadataRange,
                  Abstract!InsidePool, Abstract!Apart
    <2>3. CASE UNCHANGED OwnedRanges
      BY <2>3 DEF Abstract!Exclusive, Abstract!MetadataRange, Abstract!InsidePool,
                  Abstract!Apart
    <2>. QED
      BY <2>1, <2>2, <2>3 DEF Abstract!Next
  <1>. QED
    BY <1>1, <1>2, PTL DEF Abstract!Spec

\* So does the pool, which implements it.
THEOREM PoolOwnership == Spec => []Abstract!Exclusive
  BY PoolRefinement, ExclusiveOwnership, PTL DEF ImplementsRangeAllocator
=============================================================================
