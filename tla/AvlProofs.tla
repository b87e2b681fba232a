------------------------------ MODULE AvlProofs ------------------------------
(***************************************************************************)
(* Theorems about the trees for every set of keys and every sequence of    *)
(* insertions.                                                             *)
(***************************************************************************)
EXTENDS Avl, NatRecursion, FiniteSetTheorems

-----------------------------------------------------------------------------
(* What a tree is.  nodes and depth say of every node which nodes hang     *)
(* from it, itself included, and in how many levels; each is determined by *)
(* the values at the children.                                             *)

Below(nodes, p) == IF p = Null THEN {} ELSE nodes[p]
Depth(depth, p) == IF p = Null THEN 0 ELSE depth[p]
Deeper(l, r) == IF l > r THEN l ELSE r

\* What the skew of a node says of the depths below it.
Tells(skew, l, r) ==
  \/ skew = "NONE" /\ l = r
  \/ skew = "LEFT" /\ l = r + 1
  \/ skew = "RIGHT" /\ r = l + 1

Less(S, n) == \A m \in S : m < n
More(S, n) == \A m \in S : n < m

Sound(h, nodes, depth, n) ==
  LET l == h.left[n]
      r == h.right[n]
  IN /\ nodes[n] = {n} \cup Below(nodes, l) \cup Below(nodes, r)
     /\ Less(Below(nodes, l), n) /\ More(Below(nodes, r), n)
     /\ depth[n] = 1 + Deeper(Depth(depth, l), Depth(depth, r))
     /\ Tells(h.skew[n], Depth(depth, l), Depth(depth, r))

IsGhost(nodes, depth) ==
  /\ nodes \in [Keys -> SUBSET Keys] /\ depth \in [Keys -> Nat]
  /\ \A n \in Keys : n \in nodes[n]

\* The tree that hangs from a pointer.
Tree(h, nodes, depth, p) ==
  /\ p \in Pointers
  /\ \A n \in Below(nodes, p) : Sound(h, nodes, depth, n)

-----------------------------------------------------------------------------
(* Trees.                                                                  *)

\* The null pointer is no key.
LEMMA NullIsNoKey == Null \notin Keys /\ \A n \in Keys : n \in Nat /\ n # Null
BY AvlAssumption DEF Null

\* Links of a heap.
LEMMA Links ==
  ASSUME NEW h \in Heaps(Keys), NEW n \in Keys
  PROVE  /\ h.left[n] \in Pointers /\ h.right[n] \in Pointers
         /\ h.skew[n] \in {"NONE", "LEFT", "RIGHT"}
BY DEF Heaps, Pointers

\* What hangs from a node of a tree hangs from the tree.
LEMMA TreeIsClosed ==
  ASSUME NEW h \in Heaps(Keys), NEW nodes, NEW depth, IsGhost(nodes, depth),
         NEW p \in Keys, Tree(h, nodes, depth, p)
  PROVE  \A m \in nodes[p] : nodes[m] \subseteq nodes[p]
<1>1. nodes \in [Keys -> SUBSET Keys] /\ depth \in [Keys -> Nat] /\ \A n \in Keys : n \in nodes[n]
  BY DEF IsGhost
<1>2. \A n \in nodes[p] : Sound(h, nodes, depth, n) BY NullIsNoKey DEF Tree, Below
<1> DEFINE Bad == {k \in Nat : \E n \in Keys :
                     /\ depth[n] = k /\ nodes[n] \subseteq nodes[p]
                     /\ \E m \in nodes[n] : ~(nodes[m] \subseteq nodes[n])}
<1>3. ASSUME Bad # {} PROVE FALSE
  <2>1. PICK k \in Bad : \A j \in Bad : k <= j
    <3>1. Bad \in SUBSET Nat OBVIOUS
    <3> HIDE DEF Bad
    <3> QED BY <1>3, <3>1, NatLeast
  <2>2. PICK n \in Keys : /\ depth[n] = k /\ nodes[n] \subseteq nodes[p]
                          /\ \E m \in nodes[n] : ~(nodes[m] \subseteq nodes[n])
    OBVIOUS
  <2>3. PICK m \in nodes[n] : ~(nodes[m] \subseteq nodes[n]) BY <2>2
  <2>4. Sound(h, nodes, depth, n) BY <1>1, <1>2, <2>2
  <2>5. ASSUME NEW c \in Keys, c = h.left[n] \/ c = h.right[n], m \in nodes[c] PROVE FALSE
    <3>1. nodes[c] \subseteq nodes[n] /\ depth[c] < depth[n]
      <4>1. depth[c] \in Nat /\ depth[n] \in Nat BY <1>1
      <4>2. h.left[n] \in Pointers /\ h.right[n] \in Pointers BY Links
      <4>3. Depth(depth, h.left[n]) \in Nat /\ Depth(depth, h.right[n]) \in Nat
        BY <1>1, <4>2 DEF Depth, Pointers
      <4> QED BY <2>4, <2>5, <4>1, <4>3, NullIsNoKey DEF Sound, Below, Depth, Deeper
    <3>2. depth[c] \in Nat /\ depth[c] \notin Bad BY <1>1, <2>1, <2>2, <3>1
    <3>3. nodes[c] \subseteq nodes[p] BY <2>2, <3>1
    <3>4. nodes[m] \subseteq nodes[c] BY <2>5, <3>2, <3>3
    <3> QED BY <2>3, <3>1, <3>4
  <2>6. m = n \/ m \in Below(nodes, h.left[n]) \/ m \in Below(nodes, h.right[n])
    BY <2>3, <2>4 DEF Sound
  <2>7. h.left[n] \in Pointers /\ h.right[n] \in Pointers BY Links
  <2> QED BY <2>3, <2>5, <2>6, <2>7 DEF Below, Pointers
<1>4. depth[p] \in Nat /\ depth[p] \notin Bad BY <1>1, <1>3
<1> QED BY <1>4

\* The children of a node of a tree are trees.
LEMMA ChildrenAreTrees ==
  ASSUME NEW h \in Heaps(Keys), NEW nodes, NEW depth, IsGhost(nodes, depth),
         NEW p \in Keys, Tree(h, nodes, depth, p)
  PROVE  /\ Sound(h, nodes, depth, p)
         /\ Tree(h, nodes, depth, h.left[p]) /\ Tree(h, nodes, depth, h.right[p])
<1>1. nodes \in [Keys -> SUBSET Keys] /\ \A n \in Keys : n \in nodes[n] BY DEF IsGhost
<1>2. \A n \in nodes[p] : Sound(h, nodes, depth, n) BY NullIsNoKey DEF Tree, Below
<1>3. Sound(h, nodes, depth, p) BY <1>1, <1>2
<1>4. Below(nodes, h.left[p]) \subseteq nodes[p] /\ Below(nodes, h.right[p]) \subseteq nodes[p]
  BY <1>3 DEF Sound
<1> QED BY <1>2, <1>3, <1>4, Links DEF Tree

\* A tree stays one if nothing in it changes.
LEMMA TreeStays ==
  ASSUME NEW h \in Heaps(Keys), NEW nodes, NEW depth, IsGhost(nodes, depth),
         NEW k \in Heaps(Keys), NEW nodes2, NEW depth2, IsGhost(nodes2, depth2),
         NEW p, Tree(h, nodes, depth, p),
         \A n \in Below(nodes, p) :
           /\ k.left[n] = h.left[n] /\ k.right[n] = h.right[n] /\ k.skew[n] = h.skew[n]
           /\ nodes2[n] = nodes[n] /\ depth2[n] = depth[n]
  PROVE  /\ Tree(k, nodes2, depth2, p)
         /\ Below(nodes2, p) = Below(nodes, p) /\ Depth(depth2, p) = Depth(depth, p)
<1>1. CASE p = Null BY <1>1 DEF Tree, Below, Depth
<1>2. CASE p \in Keys
  <2>0. p # Null /\ Below(nodes, p) = nodes[p] /\ Below(nodes2, p) = nodes2[p]
    BY <1>2, NullIsNoKey DEF Below
  <2>1. p \in nodes[p] /\ nodes \in [Keys -> SUBSET Keys] BY <1>2 DEF IsGhost
  <2>2. nodes2[p] = nodes[p] /\ depth2[p] = depth[p] BY <2>0, <2>1
  <2>3. ASSUME NEW n \in nodes[p] PROVE Sound(k, nodes2, depth2, n)
    <3>1. Sound(h, nodes, depth, n) BY <2>0, <2>3 DEF Tree
    <3>2. n \in Keys BY <2>1, <1>2
    <3>3. ASSUME NEW c \in Pointers, c = h.left[n] \/ c = h.right[n]
          PROVE  Below(nodes2, c) = Below(nodes, c) /\ Depth(depth2, c) = Depth(depth, c)
      <4>1. CASE c = Null BY <4>1 DEF Below, Depth
      <4>2. CASE c \in Keys
        <5>1. c \in nodes[c] BY <4>2 DEF IsGhost
        <5>2. c # Null BY <4>2, NullIsNoKey
        <5>3. nodes[c] \subseteq nodes[n] BY <3>1, <3>3, <5>2 DEF Sound, Below
        <5>4. nodes[n] \subseteq nodes[p] BY <1>2, <2>3, TreeIsClosed
        <5>5. c \in nodes[p] BY <5>1, <5>3, <5>4
        <5> QED BY <2>0, <5>2, <5>5 DEF Below, Depth
      <4> QED BY <4>1, <4>2 DEF Pointers
    <3>4. h.left[n] \in Pointers /\ h.right[n] \in Pointers BY <3>2, Links
    <3>5. /\ k.left[n] = h.left[n] /\ k.right[n] = h.right[n] /\ k.skew[n] = h.skew[n]
          /\ nodes2[n] = nodes[n] /\ depth2[n] = depth[n]
      BY <2>0, <2>3
    <3>6. /\ Below(nodes2, h.left[n]) = Below(nodes, h.left[n])
          /\ Below(nodes2, h.right[n]) = Below(nodes, h.right[n])
          /\ Depth(depth2, h.left[n]) = Depth(depth, h.left[n])
          /\ Depth(depth2, h.right[n]) = Depth(depth, h.right[n])
      BY <3>3, <3>4
    <3> QED BY <3>1, <3>5, <3>6 DEF Sound
  <2> QED BY <1>2, <2>0, <2>2, <2>3 DEF Tree, Depth
<1> QED BY <1>1, <1>2 DEF Tree, Pointers

\* A node joins two trees.
LEMMA TreeJoin ==
  ASSUME NEW h \in Heaps(Keys), NEW nodes, NEW depth, NEW n \in Keys,
         Tree(h, nodes, depth, h.left[n]), Tree(h, nodes, depth, h.right[n]),
         Sound(h, nodes, depth, n)
  PROVE  Tree(h, nodes, depth, n)
BY NullIsNoKey DEF Tree, Sound, Below, Pointers

-----------------------------------------------------------------------------
(* Rotations.                                                              *)

Clear(c, S) == c # RootCell => c.node \notin S

\* Only the cell and the nodes of S may differ.
SameElsewhere(h, k, c, S) ==
  /\ c # RootCell => k.root = h.root
  /\ \A n \in Keys \ S : /\ k.skew[n] = h.skew[n]
                         /\ c # LeftOf(n) => k.left[n] = h.left[n]
                         /\ c # RightOf(n) => k.right[n] = h.right[n]

\* A store into a cell changes nothing else.
LEMMA StoreFacts ==
  ASSUME NEW h \in Heaps(Keys), NEW c \in Cells(Keys), NEW p \in Pointers
  PROVE  /\ Store(h, c, p) \in Heaps(Keys) /\ At(Store(h, c, p), c) = p
         /\ Store(h, c, p).skew = h.skew /\ Store(h, c, p).ok = h.ok
         /\ c # RootCell => Store(h, c, p).root = h.root
         /\ \A n \in Keys :
              /\ Store(h, c, p).left[n] = IF c = LeftOf(n) THEN p ELSE h.left[n]
              /\ Store(h, c, p).right[n] = IF c = RightOf(n) THEN p ELSE h.right[n]
<1>1. CASE c = RootCell
  BY <1>1 DEF Store, At, Heaps, Pointers, RootCell, LeftOf, RightOf
<1>2. ASSUME NEW m \in Keys, c = LeftOf(m) PROVE c.member = "left" /\ c.node = m
  BY <1>2 DEF LeftOf
<1>3. ASSUME NEW m \in Keys, c = RightOf(m) PROVE c.member = "right" /\ c.node = m
  BY <1>3 DEF RightOf
<1>4. ASSUME NEW m \in Keys, c = LeftOf(m)
      PROVE  Store(h, c, p) = [h EXCEPT !.left = [h.left EXCEPT ![m] = p]]
  BY <1>2, <1>4 DEF Store, Heaps
<1>5. ASSUME NEW m \in Keys, c = RightOf(m)
      PROVE  Store(h, c, p) = [h EXCEPT !.right = [h.right EXCEPT ![m] = p]]
  BY <1>3, <1>5 DEF Store, Heaps
<1>6. ASSUME NEW m \in Keys, c = LeftOf(m)
      PROVE  /\ Store(h, c, p) \in Heaps(Keys) /\ At(Store(h, c, p), c) = p
             /\ Store(h, c, p).skew = h.skew /\ Store(h, c, p).ok = h.ok
             /\ Store(h, c, p).root = h.root
             /\ \A n \in Keys :
                  /\ Store(h, c, p).left[n] = IF c = LeftOf(n) THEN p ELSE h.left[n]
                  /\ Store(h, c, p).right[n] = IF c = RightOf(n) THEN p ELSE h.right[n]
  <2>1. \A n \in Keys : (c = LeftOf(n) <=> n = m) /\ c # RightOf(n)
    BY <1>6 DEF LeftOf, RightOf
  <2> QED BY <1>2, <1>4, <1>6, <2>1 DEF At, Heaps, Pointers
<1>7. ASSUME NEW m \in Keys, c = RightOf(m)
      PROVE  /\ Store(h, c, p) \in Heaps(Keys) /\ At(Store(h, c, p), c) = p
             /\ Store(h, c, p).skew = h.skew /\ Store(h, c, p).ok = h.ok
             /\ Store(h, c, p).root = h.root
             /\ \A n \in Keys :
                  /\ Store(h, c, p).left[n] = IF c = LeftOf(n) THEN p ELSE h.left[n]
                  /\ Store(h, c, p).right[n] = IF c = RightOf(n) THEN p ELSE h.right[n]
  <2>1. \A n \in Keys : (c = RightOf(n) <=> n = m) /\ c # LeftOf(n)
    BY <1>7 DEF LeftOf, RightOf
  <2> QED BY <1>3, <1>5, <1>7, <2>1 DEF At, Heaps, Pointers
<1> QED BY <1>1, <1>6, <1>7 DEF Cells

\* The child u of n, which is p, can come up.
CanRotate(h, c, n, u, p) == n = At(h, c) /\ u = p /\ u # n /\ Clear(c, {n, u})

RotatedRight(h, k, c, n, u) ==
  /\ k \in Heaps(Keys) /\ k.ok = h.ok /\ k.skew = h.skew
  /\ At(k, c) = u /\ SameElsewhere(h, k, c, {n, u})
  /\ k.left[n] = h.right[u] /\ k.right[n] = h.right[n]
  /\ k.left[u] = h.left[u] /\ k.right[u] = n

RotatedLeft(h, k, c, n, u) ==
  /\ k \in Heaps(Keys) /\ k.ok = h.ok /\ k.skew = h.skew
  /\ At(k, c) = u /\ SameElsewhere(h, k, c, {n, u})
  /\ k.right[n] = h.left[u] /\ k.left[n] = h.left[n]
  /\ k.right[u] = h.right[u] /\ k.left[u] = n

\* avl_rotateRight: the left child comes up, its right child goes over.
LEMMA RotateRightFacts ==
  ASSUME NEW h \in Heaps(Keys), NEW c \in Cells(Keys), NEW n \in Keys, NEW u \in Keys,
         CanRotate(h, c, n, u, h.left[n])
  PROVE  RotatedRight(h, RotateRight(h, c), c, n, u)
<1> DEFINE g == [h EXCEPT !.left[n] = h.right[u], !.right[u] = n]
           k == Store(g, c, u)
<1>1. /\ g \in Heaps(Keys) /\ g.ok = h.ok /\ g.skew = h.skew /\ g.root = h.root
      /\ g.left = [h.left EXCEPT ![n] = h.right[u]] /\ g.right = [h.right EXCEPT ![u] = n]
  BY DEF Heaps
<1>2. RotateRight(h, c) = k BY DEF RotateRight, CanRotate
<1>3. c # LeftOf(n) /\ c # LeftOf(u) /\ c # RightOf(n) /\ c # RightOf(u)
  BY DEF CanRotate, Clear, RootCell, LeftOf, RightOf
<1>4. /\ k \in Heaps(Keys) /\ At(k, c) = u /\ k.skew = g.skew /\ k.ok = g.ok
      /\ c # RootCell => k.root = g.root
      /\ \A m \in Keys :
           /\ k.left[m] = IF c = LeftOf(m) THEN u ELSE g.left[m]
           /\ k.right[m] = IF c = RightOf(m) THEN u ELSE g.right[m]
  <2>1. g \in Heaps(Keys) /\ u \in Pointers BY <1>1 DEF Pointers
  <2> HIDE DEF g
  <2> QED BY ONLY <2>1, c \in Cells(Keys), StoreFacts
<1> HIDE DEF g, k
<1>5. /\ g.left[n] = h.right[u] /\ g.right[n] = h.right[n]
      /\ g.left[u] = h.left[u] /\ g.right[u] = n
      /\ \A m \in Keys \ {n, u} : g.left[m] = h.left[m] /\ g.right[m] = h.right[m]
  BY <1>1 DEF Heaps, CanRotate
<1> QED BY <1>1, <1>2, <1>3, <1>4, <1>5 DEF SameElsewhere, RotatedRight

\* avl_rotateLeft: the right child comes up, its left child goes over.
LEMMA RotateLeftFacts ==
  ASSUME NEW h \in Heaps(Keys), NEW c \in Cells(Keys), NEW n \in Keys, NEW u \in Keys,
         CanRotate(h, c, n, u, h.right[n])
  PROVE  RotatedLeft(h, RotateLeft(h, c), c, n, u)
<1> DEFINE g == [h EXCEPT !.right[n] = h.left[u], !.left[u] = n]
           k == Store(g, c, u)
<1>1. /\ g \in Heaps(Keys) /\ g.ok = h.ok /\ g.skew = h.skew /\ g.root = h.root
      /\ g.right = [h.right EXCEPT ![n] = h.left[u]] /\ g.left = [h.left EXCEPT ![u] = n]
  BY DEF Heaps
<1>2. RotateLeft(h, c) = k BY DEF RotateLeft, CanRotate
<1>3. c # LeftOf(n) /\ c # LeftOf(u) /\ c # RightOf(n) /\ c # RightOf(u)
  BY DEF CanRotate, Clear, RootCell, LeftOf, RightOf
<1>4. /\ k \in Heaps(Keys) /\ At(k, c) = u /\ k.skew = g.skew /\ k.ok = g.ok
      /\ c # RootCell => k.root = g.root
      /\ \A m \in Keys :
           /\ k.left[m] = IF c = LeftOf(m) THEN u ELSE g.left[m]
           /\ k.right[m] = IF c = RightOf(m) THEN u ELSE g.right[m]
  <2>1. g \in Heaps(Keys) /\ u \in Pointers BY <1>1 DEF Pointers
  <2> HIDE DEF g
  <2> QED BY ONLY <2>1, c \in Cells(Keys), StoreFacts
<1> HIDE DEF g, k
<1>5. /\ g.right[n] = h.left[u] /\ g.left[n] = h.left[n]
      /\ g.right[u] = h.right[u] /\ g.left[u] = n
      /\ \A m \in Keys \ {n, u} : g.left[m] = h.left[m] /\ g.right[m] = h.right[m]
  BY <1>1 DEF Heaps, CanRotate
<1> QED BY <1>1, <1>2, <1>3, <1>4, <1>5 DEF SameElsewhere, RotatedLeft

\* The ghosts of a node that joins the trees at a and b.
NodesOver(nodes, n, a, b) == [nodes EXCEPT ![n] = {n} \cup Below(nodes, a) \cup Below(nodes, b)]
DepthOver(depth, n, a, b) == [depth EXCEPT ![n] = 1 + Deeper(Depth(depth, a), Depth(depth, b))]

\* What the ghosts say of a pointer.
LEMMA GhostTypes ==
  ASSUME NEW nodes, NEW depth, IsGhost(nodes, depth), NEW p \in Pointers
  PROVE  Below(nodes, p) \subseteq Keys /\ Depth(depth, p) \in Nat
BY DEF IsGhost, Below, Depth, Pointers

\* What it takes for n to join the trees at a and b, which h holds, in k.
CanJoin(h, k, nodes, depth, n, a, b) ==
  /\ h \in Heaps(Keys) /\ k \in Heaps(Keys) /\ IsGhost(nodes, depth) /\ n \in Keys
  /\ Tree(h, nodes, depth, a) /\ Tree(h, nodes, depth, b)
  /\ k.left[n] = a /\ k.right[n] = b
  /\ \A m \in Below(nodes, a) \cup Below(nodes, b) :
       k.left[m] = h.left[m] /\ k.right[m] = h.right[m] /\ k.skew[m] = h.skew[m]
  /\ Less(Below(nodes, a), n) /\ More(Below(nodes, b), n)
  /\ Tells(k.skew[n], Depth(depth, a), Depth(depth, b))

Joined(k, nodes, depth, n, a, b, nodes2, depth2) ==
  /\ IsGhost(nodes2, depth2) /\ Tree(k, nodes2, depth2, n)
  /\ nodes2[n] = {n} \cup Below(nodes, a) \cup Below(nodes, b)
  /\ depth2[n] = 1 + Deeper(Depth(depth, a), Depth(depth, b))
  /\ \A m \in Keys \ {n} : nodes2[m] = nodes[m] /\ depth2[m] = depth[m]

\* A node is put over two trees: by an insertion that makes one of them
\* deeper, or by a rotation.
LEMMA JoinUnder ==
  ASSUME NEW h, NEW k, NEW nodes, NEW depth, NEW n, NEW a, NEW b,
         CanJoin(h, k, nodes, depth, n, a, b)
  PROVE  Joined(k, nodes, depth, n, a, b, NodesOver(nodes, n, a, b), DepthOver(depth, n, a, b))
<1> DEFINE nodes2 == NodesOver(nodes, n, a, b)
           depth2 == DepthOver(depth, n, a, b)
<1> USE DEF CanJoin
<1>1. a \in Pointers /\ b \in Pointers BY DEF Tree
<1>2. /\ Below(nodes, a) \subseteq Keys /\ Depth(depth, a) \in Nat
      /\ Below(nodes, b) \subseteq Keys /\ Depth(depth, b) \in Nat
  BY <1>1, GhostTypes
<1>3. nodes \in [Keys -> SUBSET Keys] /\ depth \in [Keys -> Nat] /\ \A m \in Keys : m \in nodes[m]
  BY DEF IsGhost
<1>4. 1 + Deeper(Depth(depth, a), Depth(depth, b)) \in Nat BY <1>2 DEF Deeper
<1>5. /\ nodes2 \in [Keys -> SUBSET Keys] /\ depth2 \in [Keys -> Nat]
      /\ nodes2[n] = {n} \cup Below(nodes, a) \cup Below(nodes, b)
      /\ depth2[n] = 1 + Deeper(Depth(depth, a), Depth(depth, b))
      /\ \A m \in Keys \ {n} : nodes2[m] = nodes[m] /\ depth2[m] = depth[m]
  BY <1>2, <1>3, <1>4 DEF NodesOver, DepthOver
<1> HIDE DEF nodes2, depth2
<1>6. IsGhost(nodes2, depth2) BY <1>3, <1>5 DEF IsGhost
<1>7. n \notin Below(nodes, a) /\ n \notin Below(nodes, b)
  BY NullIsNoKey DEF Less, More
<1>8. /\ Tree(k, nodes2, depth2, a) /\ Below(nodes2, a) = Below(nodes, a) /\ Depth(depth2, a) = Depth(depth, a)
  <2>1. \A m \in Below(nodes, a) :
          /\ k.left[m] = h.left[m] /\ k.right[m] = h.right[m] /\ k.skew[m] = h.skew[m]
          /\ nodes2[m] = nodes[m] /\ depth2[m] = depth[m]
    BY <1>2, <1>5, <1>7
  <2> QED BY <1>6, <2>1, TreeStays
<1>9. /\ Tree(k, nodes2, depth2, b) /\ Below(nodes2, b) = Below(nodes, b) /\ Depth(depth2, b) = Depth(depth, b)
  <2>1. \A m \in Below(nodes, b) :
          /\ k.left[m] = h.left[m] /\ k.right[m] = h.right[m] /\ k.skew[m] = h.skew[m]
          /\ nodes2[m] = nodes[m] /\ depth2[m] = depth[m]
    BY <1>2, <1>5, <1>7
  <2> QED BY <1>6, <2>1, TreeStays
<1>10. Sound(k, nodes2, depth2, n) BY <1>5, <1>8, <1>9 DEF Sound
<1>11. Tree(k, nodes2, depth2, n) BY <1>8, <1>9, <1>10, TreeJoin
<1> QED BY <1>5, <1>6, <1>11 DEF Joined, nodes2, depth2

-----------------------------------------------------------------------------
(* avl_grownLeft and avl_grownRight.                                       *)

\* What becomes of a cell: a tree of the nodes of S in so many levels hangs
\* there, and nothing else is changed.
Grafted(h, nodes, depth, c, k, nodes2, depth2, S, levels) ==
  /\ k \in Heaps(Keys) /\ k.ok = h.ok
  /\ SameElsewhere(h, k, c, S)
  /\ IsGhost(nodes2, depth2)
  /\ \A m \in Keys \ S : nodes2[m] = nodes[m] /\ depth2[m] = depth[m]
  /\ At(k, c) \in Keys /\ Tree(k, nodes2, depth2, At(k, c))
  /\ nodes2[At(k, c)] = S /\ depth2[At(k, c)] = levels

CanGraft(h, nodes, depth, c, k, S, levels) ==
  \E nodes2, depth2 : Grafted(h, nodes, depth, c, k, nodes2, depth2, S, levels)

\* The node in a cell gets another skew, and is right with it.
Skewed(h, nodes, depth, c, k, n, skew, S, levels) ==
  /\ At(k, c) = n /\ k.skew[n] = skew
  /\ CanGraft(h, nodes, depth, c, k, S, levels)

\* The tree a to the left of n has grown: n has children that are trees, and
\* its skew is still that of the time before.
GrewLeft(h, nodes, depth, c, n, a, b, S) ==
  /\ IsGhost(nodes, depth) /\ n = At(h, c) /\ a = h.left[n] /\ b = h.right[n]
  /\ Tree(h, nodes, depth, a) /\ Tree(h, nodes, depth, b)
  /\ S = {n} \cup nodes[a] \cup Below(nodes, b)
  /\ Less(nodes[a], n) /\ More(Below(nodes, b), n)
  /\ Tells(h.skew[n], depth[a] - 1, Depth(depth, b))
  /\ Clear(c, S)

\* Only the skew of n changes.
LEMMA SkewLeftFacts ==
  ASSUME NEW h \in Heaps(Keys), NEW nodes, NEW depth, NEW c \in Cells(Keys),
         NEW n \in Keys, NEW a \in Keys, NEW b, NEW S, GrewLeft(h, nodes, depth, c, n, a, b, S),
         NEW skew \in {"NONE", "LEFT", "RIGHT"}, Tells(skew, depth[a], Depth(depth, b)),
         NEW k, k = [h EXCEPT !.skew[n] = skew]
  PROVE  Skewed(h, nodes, depth, c, k, n, skew, S, 1 + Deeper(depth[a], Depth(depth, b)))
<1> DEFINE nodes2 == NodesOver(nodes, n, a, b)
           depth2 == DepthOver(depth, n, a, b)
<1>1. /\ k \in Heaps(Keys) /\ k.ok = h.ok /\ k.root = h.root /\ k.left = h.left /\ k.right = h.right
      /\ k.skew[n] = skew /\ \A m \in Keys \ {n} : k.skew[m] = h.skew[m]
  BY DEF Heaps
<1>2. At(k, c) = n
  <2>1. n = At(h, c) BY DEF GrewLeft
  <2> QED BY ONLY <1>1, <2>1 DEF At
<1>3. Below(nodes, a) = nodes[a] /\ Depth(depth, a) = depth[a] BY NullIsNoKey DEF Below, Depth
<1>4. IsGhost(nodes, depth) /\ Tree(h, nodes, depth, a) /\ Tree(h, nodes, depth, b) BY DEF GrewLeft
<1>5. /\ k.left[n] = a /\ k.right[n] = b
      /\ Less(Below(nodes, a), n) /\ More(Below(nodes, b), n)
      /\ Tells(k.skew[n], Depth(depth, a), Depth(depth, b))
  BY <1>1, <1>3 DEF GrewLeft
<1>6. \A m \in Below(nodes, a) \cup Below(nodes, b) :
        k.left[m] = h.left[m] /\ k.right[m] = h.right[m] /\ k.skew[m] = h.skew[m]
  <2>1. b \in Pointers BY <1>4 DEF Tree
  <2>2. Below(nodes, a) \subseteq Keys /\ Below(nodes, b) \subseteq Keys
    BY <1>4, <2>1, GhostTypes DEF Pointers
  <2>3. n \notin Below(nodes, a) /\ n \notin Below(nodes, b) BY <1>5, NullIsNoKey DEF Less, More
  <2> QED BY <1>1, <2>2, <2>3
<1> HIDE DEF nodes2, depth2
<1>7. Joined(k, nodes, depth, n, a, b, nodes2, depth2)
  <2>1. CanJoin(h, k, nodes, depth, n, a, b) BY <1>1, <1>4, <1>5, <1>6 DEF CanJoin
  <2> QED BY <2>1, JoinUnder DEF nodes2, depth2
<1>8. S = {n} \cup Below(nodes, a) \cup Below(nodes, b) BY <1>3 DEF GrewLeft
<1>9. SameElsewhere(h, k, c, S) BY <1>1, <1>8 DEF SameElsewhere
<1>10. Grafted(h, nodes, depth, c, k, nodes2, depth2, S, 1 + Deeper(depth[a], Depth(depth, b)))
  BY <1>1, <1>2, <1>3, <1>7, <1>8, <1>9 DEF Grafted, Joined
<1> QED BY <1>1, <1>2, <1>10 DEF Skewed, CanGraft

\* What hangs from n when the left child has become two levels deeper than the
\* right one: the trees x, y and b, divided by a and n.
PartsLeft(h, nodes, depth, n, a, b, S, x, y) ==
  /\ x \in Pointers /\ y \in Pointers /\ b \in Pointers
  /\ Tree(h, nodes, depth, x) /\ Tree(h, nodes, depth, y) /\ Tree(h, nodes, depth, b)
  /\ S = {n, a} \cup Below(nodes, x) \cup Below(nodes, y) \cup Below(nodes, b)
  /\ Below(nodes, x) \subseteq Keys /\ Below(nodes, y) \subseteq Keys /\ Below(nodes, b) \subseteq Keys
  /\ Depth(depth, x) \in Nat /\ Depth(depth, y) \in Nat /\ Depth(depth, b) \in Nat
  /\ Less(Below(nodes, x), a) /\ More(Below(nodes, y), a) /\ Less(Below(nodes, y), n)
  /\ More(Below(nodes, b), n) /\ a < n
  /\ depth[a] = 1 + Deeper(Depth(depth, x), Depth(depth, y))
  /\ depth[a] = Depth(depth, b) + 2
  /\ Tells(h.skew[a], Depth(depth, x), Depth(depth, y))

\* There are these parts.
LEMMA LeftParts ==
  ASSUME NEW h \in Heaps(Keys), NEW nodes, NEW depth, NEW c \in Cells(Keys),
         NEW n \in Keys, NEW a \in Keys, NEW b, NEW S, GrewLeft(h, nodes, depth, c, n, a, b, S),
         h.skew[n] = "LEFT"
  PROVE  PartsLeft(h, nodes, depth, n, a, b, S, h.left[a], h.right[a])
<1> DEFINE x == h.left[a]
           y == h.right[a]
<1>1. /\ IsGhost(nodes, depth) /\ Tree(h, nodes, depth, a) /\ Tree(h, nodes, depth, b)
      /\ S = {n} \cup nodes[a] \cup Below(nodes, b)
      /\ Less(nodes[a], n) /\ More(Below(nodes, b), n)
      /\ Tells(h.skew[n], depth[a] - 1, Depth(depth, b))
  BY DEF GrewLeft
<1>2. x \in Pointers /\ y \in Pointers /\ b \in Pointers BY <1>1, Links DEF Tree
<1>3. Sound(h, nodes, depth, a) /\ Tree(h, nodes, depth, x) /\ Tree(h, nodes, depth, y)
  BY <1>1, ChildrenAreTrees
<1>4. /\ Below(nodes, x) \subseteq Keys /\ Below(nodes, y) \subseteq Keys /\ Below(nodes, b) \subseteq Keys
      /\ Depth(depth, x) \in Nat /\ Depth(depth, y) \in Nat /\ Depth(depth, b) \in Nat
  BY <1>1, <1>2, GhostTypes
<1>5. /\ nodes[a] = {a} \cup Below(nodes, x) \cup Below(nodes, y)
      /\ Less(Below(nodes, x), a) /\ More(Below(nodes, y), a)
      /\ depth[a] = 1 + Deeper(Depth(depth, x), Depth(depth, y))
      /\ Tells(h.skew[a], Depth(depth, x), Depth(depth, y))
  BY <1>3 DEF Sound
<1>6. a < n /\ Less(Below(nodes, y), n) BY <1>1, <1>5 DEF Less
<1>7. depth[a] = Depth(depth, b) + 2
  <2>1. depth[a] \in Nat BY <1>1 DEF IsGhost
  <2>2. depth[a] - 1 = Depth(depth, b) + 1 BY <1>1 DEF Tells
  <2> QED BY <1>4, <2>1, <2>2
<1> HIDE DEF x, y
<1>8. PartsLeft(h, nodes, depth, n, a, b, S, x, y)
  BY <1>1, <1>2, <1>3, <1>4, <1>5, <1>6, <1>7 DEF PartsLeft
<1> QED BY <1>8 DEF x, y

\* The outer subtree of the child is the deeper one: a single rotation.
LEMMA SingleRotationLeft ==
  ASSUME NEW h \in Heaps(Keys), NEW nodes, NEW depth, NEW c \in Cells(Keys),
         NEW n \in Keys, NEW a \in Keys, NEW b, NEW S, GrewLeft(h, nodes, depth, c, n, a, b, S),
         h.skew[n] = "LEFT", h.skew[a] = "LEFT",
         NEW k, k = RotateRight([h EXCEPT !.skew[n] = "NONE", !.skew[a] = "NONE"], c)
  PROVE  CanGraft(h, nodes, depth, c, k, S, depth[a])
<1> DEFINE g == [h EXCEPT !.skew[n] = "NONE", !.skew[a] = "NONE"]
           x == h.left[a]
           y == h.right[a]
           X == Below(nodes, x)
           Y == Below(nodes, y)
           B == Below(nodes, b)
<1>1. /\ x \in Pointers /\ y \in Pointers /\ b \in Pointers
      /\ Tree(h, nodes, depth, x) /\ Tree(h, nodes, depth, y) /\ Tree(h, nodes, depth, b)
      /\ S = {n, a} \cup X \cup Y \cup B
      /\ X \subseteq Keys /\ Y \subseteq Keys /\ B \subseteq Keys
      /\ Depth(depth, x) \in Nat /\ Depth(depth, y) \in Nat /\ Depth(depth, b) \in Nat
      /\ Less(X, a) /\ More(Y, a) /\ Less(Y, n) /\ More(B, n) /\ a < n
      /\ depth[a] = 1 + Deeper(Depth(depth, x), Depth(depth, y))
      /\ depth[a] = Depth(depth, b) + 2
      /\ Tells(h.skew[a], Depth(depth, x), Depth(depth, y))
  <2>1. PartsLeft(h, nodes, depth, n, a, b, S, x, y) BY LeftParts
  <2> QED BY <2>1 DEF PartsLeft
<1>2. /\ IsGhost(nodes, depth) /\ n = At(h, c) /\ a = h.left[n] /\ b = h.right[n] /\ Clear(c, S)
  BY DEF GrewLeft
<1>3. /\ g \in Heaps(Keys) /\ g.ok = h.ok /\ g.root = h.root /\ g.left = h.left /\ g.right = h.right
      /\ g.skew[n] = "NONE" /\ g.skew[a] = "NONE" /\ \A m \in Keys \ {n, a} : g.skew[m] = h.skew[m]
  <2>1. a # n BY <1>1, NullIsNoKey
  <2> QED BY <2>1 DEF Heaps
<1> HIDE DEF g
<1>4. n = At(g, c) BY ONLY <1>2, <1>3 DEF At
<1>5. /\ k \in Heaps(Keys) /\ k.ok = g.ok /\ k.skew = g.skew
      /\ At(k, c) = a /\ SameElsewhere(g, k, c, {n, a})
      /\ k.left[n] = y /\ k.right[n] = b /\ k.left[a] = x /\ k.right[a] = n
  <2>1. Clear(c, {n, a}) BY <1>1, <1>2 DEF Clear
  <2>2. a # n BY <1>1, NullIsNoKey
  <2>3. k = RotateRight(g, c) BY DEF g
  <2>4. a = g.left[n] BY <1>2, <1>3
  <2>5. CanRotate(g, c, n, a, g.left[n]) BY <1>4, <2>1, <2>2, <2>4 DEF CanRotate
  <2>6. RotatedRight(g, k, c, n, a) BY <1>3, <2>3, <2>5, RotateRightFacts
  <2> QED BY <1>2, <1>3, <2>6 DEF RotatedRight
<1> HIDE DEF x, y, X, Y, B
<1>6. \A m \in X \cup Y \cup B : m \in Keys /\ m # n /\ m # a
  BY <1>1, NullIsNoKey DEF Less, More
<1>7. \A m \in X \cup Y \cup B :
        k.left[m] = h.left[m] /\ k.right[m] = h.right[m] /\ k.skew[m] = h.skew[m]
  <2> SUFFICES ASSUME NEW m \in X \cup Y \cup B
               PROVE  k.left[m] = h.left[m] /\ k.right[m] = h.right[m] /\ k.skew[m] = h.skew[m]
    OBVIOUS
  <2>1. c # LeftOf(m) /\ c # RightOf(m)
    BY <1>1, <1>2 DEF Clear, RootCell, LeftOf, RightOf
  <2> QED BY <1>3, <1>5, <1>6, <2>1 DEF SameElsewhere
<1> DEFINE nodes1 == NodesOver(nodes, n, y, b)
           depth1 == DepthOver(depth, n, y, b)
<1>8. Joined(k, nodes, depth, n, y, b, nodes1, depth1)
  <2>1. Tells(k.skew[n], Depth(depth, y), Depth(depth, b))
    <3>1. Depth(depth, y) = Depth(depth, b) BY <1>1 DEF Tells, Deeper
    <3> QED BY <1>3, <1>5, <3>1 DEF Tells
  <2>2. CanJoin(h, k, nodes, depth, n, y, b)
    BY <1>1, <1>2, <1>5, <1>7, <2>1 DEF CanJoin, X, Y, B
  <2> QED BY <2>2, JoinUnder
<1> HIDE DEF nodes1, depth1
<1>9. /\ IsGhost(nodes1, depth1) /\ Tree(k, nodes1, depth1, n)
      /\ nodes1[n] = {n} \cup Y \cup B
      /\ depth1[n] = 1 + Deeper(Depth(depth, y), Depth(depth, b))
      /\ \A m \in Keys \ {n} : nodes1[m] = nodes[m] /\ depth1[m] = depth[m]
  BY <1>8 DEF Joined, Y, B
<1>10. /\ Tree(k, nodes1, depth1, x) /\ Below(nodes1, x) = X /\ Depth(depth1, x) = Depth(depth, x)
  <2>1. \A m \in X : /\ k.left[m] = h.left[m] /\ k.right[m] = h.right[m] /\ k.skew[m] = h.skew[m]
                     /\ nodes1[m] = nodes[m] /\ depth1[m] = depth[m]
    BY <1>6, <1>7, <1>9
  <2>2. Tree(h, nodes, depth, x) /\ IsGhost(nodes, depth) /\ IsGhost(nodes1, depth1)
    BY <1>1, <1>2, <1>9
  <2>3. h \in Heaps(Keys) /\ k \in Heaps(Keys) BY <1>5
  <2> QED BY ONLY <2>1, <2>2, <2>3, TreeStays DEF X
<1> DEFINE nodes2 == NodesOver(nodes1, a, x, n)
           depth2 == DepthOver(depth1, a, x, n)
<1>11. Below(nodes1, n) = nodes1[n] /\ Depth(depth1, n) = depth1[n] BY NullIsNoKey DEF Below, Depth
<1>12. Joined(k, nodes1, depth1, a, x, n, nodes2, depth2)
  <2>1. Tells(k.skew[a], Depth(depth1, x), Depth(depth1, n))
    <3>1. Depth(depth, x) = 1 + Deeper(Depth(depth, y), Depth(depth, b))
      BY <1>1 DEF Tells, Deeper
    <3> QED BY <1>3, <1>5, <1>9, <1>10, <1>11, <3>1 DEF Tells
  <2>2. Less(Below(nodes1, x), a) /\ More(Below(nodes1, n), a)
    BY <1>1, <1>6, <1>9, <1>10, <1>11, NullIsNoKey DEF Less, More
  <2>3. CanJoin(k, k, nodes1, depth1, a, x, n)
    BY <1>5, <1>9, <1>10, <2>1, <2>2 DEF CanJoin
  <2> QED BY <2>3, JoinUnder
<1> HIDE DEF nodes2, depth2
<1>13. /\ IsGhost(nodes2, depth2) /\ Tree(k, nodes2, depth2, a)
       /\ nodes2[a] = {a} \cup X \cup {n} \cup Y \cup B
       /\ depth2[a] = 1 + Deeper(Depth(depth1, x), depth1[n])
       /\ \A m \in Keys \ {a} : nodes2[m] = nodes1[m] /\ depth2[m] = depth1[m]
  BY <1>9, <1>10, <1>11, <1>12 DEF Joined
<1>14. depth2[a] = depth[a] BY <1>1, <1>9, <1>10, <1>13 DEF Tells, Deeper
<1>15. SameElsewhere(h, k, c, S)
  BY <1>1, <1>3, <1>5 DEF SameElsewhere
<1>16. \A m \in Keys \ S : nodes2[m] = nodes[m] /\ depth2[m] = depth[m]
  BY <1>1, <1>9, <1>13
<1>17. nodes2[a] = S BY <1>1, <1>13
<1>18. k.ok = h.ok BY <1>3, <1>5
<1> QED BY <1>5, <1>13, <1>14, <1>15, <1>16, <1>17, <1>18 DEF Grafted, CanGraft

\* A cell that is not concerned keeps what it holds.
LEMMA AtElsewhere ==
  ASSUME NEW h, NEW k, NEW c \in Cells(Keys), NEW d \in Cells(Keys), NEW S,
         SameElsewhere(h, k, d, S), c # d, Clear(c, S), d # RootCell
  PROVE  At(k, c) = At(h, c)
<1>1. CASE c = RootCell BY <1>1 DEF SameElsewhere, At, RootCell
<1>2. ASSUME NEW m \in Keys, c = LeftOf(m) PROVE At(k, c) = At(h, c)
  BY <1>2 DEF SameElsewhere, At, Clear, RootCell, LeftOf
<1>3. ASSUME NEW m \in Keys, c = RightOf(m) PROVE At(k, c) = At(h, c)
  BY <1>3 DEF SameElsewhere, At, Clear, RootCell, RightOf
<1> QED BY <1>1, <1>2, <1>3 DEF Cells

\* The skews that GrownLeft sets before a double rotation.
TiltedLeft(h, n, a, y) ==
  [h EXCEPT !.skew[n] = IF h.skew[y] = "LEFT" THEN "RIGHT" ELSE "NONE",
            !.skew[a] = IF h.skew[y] = "RIGHT" THEN "LEFT" ELSE "NONE",
            !.skew[y] = "NONE"]

\* What two rotations leave: y over a and n, over x, y1, y2 and b.
DoublyRotatedLeft(h, k, c, n, a, y, b) ==
  /\ k \in Heaps(Keys) /\ k.ok = h.ok
  /\ At(k, c) = y /\ SameElsewhere(h, k, c, {n, a, y})
  /\ k.left[a] = h.left[a] /\ k.right[a] = h.left[y]
  /\ k.left[n] = h.right[y] /\ k.right[n] = b
  /\ k.left[y] = a /\ k.right[y] = n
  /\ k.skew[y] = "NONE"
  /\ k.skew[n] = IF h.skew[y] = "LEFT" THEN "RIGHT" ELSE "NONE"
  /\ k.skew[a] = IF h.skew[y] = "RIGHT" THEN "LEFT" ELSE "NONE"

\* Two rotations, on the links alone.
LEMMA DoubleRotationLeftLinks ==
  ASSUME NEW h \in Heaps(Keys), NEW c \in Cells(Keys),
         NEW n \in Keys, NEW a \in Keys, NEW y \in Keys, NEW b,
         n = At(h, c), a = h.left[n], b = h.right[n], y = h.right[a],
         n # a, a # y, n # y, Clear(c, {n, a, y}),
         NEW k, k = RotateRight(RotateLeft(TiltedLeft(h, n, a, y), LeftOf(n)), c)
  PROVE  DoublyRotatedLeft(h, k, c, n, a, y, b)
<1> DEFINE g == TiltedLeft(h, n, a, y)
           f == RotateLeft(g, LeftOf(n))
<1>1. /\ g \in Heaps(Keys) /\ g.ok = h.ok /\ g.root = h.root /\ g.left = h.left /\ g.right = h.right
      /\ g.skew[y] = "NONE"
      /\ g.skew[n] = IF h.skew[y] = "LEFT" THEN "RIGHT" ELSE "NONE"
      /\ g.skew[a] = IF h.skew[y] = "RIGHT" THEN "LEFT" ELSE "NONE"
      /\ \A m \in Keys \ {n, a, y} : g.skew[m] = h.skew[m]
  <2> DEFINE ofn == IF h.skew[y] = "LEFT" THEN "RIGHT" ELSE "NONE"
             ofa == IF h.skew[y] = "RIGHT" THEN "LEFT" ELSE "NONE"
             skews == [h.skew EXCEPT ![n] = ofn, ![a] = ofa, ![y] = "NONE"]
  <2>1. h.skew \in [Keys -> {"NONE", "LEFT", "RIGHT"}] BY DEF Heaps
  <2>2. ofn \in {"NONE", "LEFT", "RIGHT"} /\ ofa \in {"NONE", "LEFT", "RIGHT"} OBVIOUS
  <2>3. g = [root |-> h.root, left |-> h.left, right |-> h.right, skew |-> skews, ok |-> h.ok]
    <3>1. PICK root, left, right, skew, ok :
            h = [root |-> root, left |-> left, right |-> right, skew |-> skew, ok |-> ok]
      BY DEF Heaps
    <3>2. h.root = root /\ h.left = left /\ h.right = right /\ h.skew = skew /\ h.ok = ok BY ONLY <3>1
    <3> DEFINE Tilt(s) == [root |-> root, left |-> left, right |-> right, skew |-> s, ok |-> ok]
               s1 == [skew EXCEPT ![n] = ofn]
               s2 == [s1 EXCEPT ![a] = ofa]
    <3>3. g = [Tilt(skew) EXCEPT !.skew[n] = ofn, !.skew[a] = ofa, !.skew[y] = "NONE"]
      BY ONLY <3>1, <3>2 DEF TiltedLeft
    <3> HIDE DEF ofn, ofa, g
    <3>4. [Tilt(skew) EXCEPT !.skew[n] = ofn] = Tilt(s1) OBVIOUS
    <3>5. [Tilt(s1) EXCEPT !.skew[a] = ofa] = Tilt(s2) OBVIOUS
    <3>6. [Tilt(s2) EXCEPT !.skew[y] = "NONE"] = Tilt([s2 EXCEPT ![y] = "NONE"]) OBVIOUS
    <3> QED BY ONLY <3>2, <3>3, <3>4, <3>5, <3>6
  <2> HIDE DEF ofn, ofa
  <2>4. /\ skews \in [Keys -> {"NONE", "LEFT", "RIGHT"}]
        /\ skews[y] = "NONE" /\ skews[n] = ofn /\ skews[a] = ofa
        /\ \A m \in Keys \ {n, a, y} : skews[m] = h.skew[m]
    BY ONLY n \in Keys, a \in Keys, y \in Keys, n # a, a # y, n # y, <2>1, <2>2
  <2> HIDE DEF skews, g
  <2>5. g \in Heaps(Keys) BY <2>3, <2>4 DEF Heaps
  <2> QED BY ONLY <2>3, <2>4, <2>5 DEF ofn, ofa
<1>2. k = RotateRight(f, c) OBVIOUS
<1> HIDE DEF g, f
<1>3. RotatedLeft(g, f, LeftOf(n), a, y)
  <2>1. LeftOf(n) \in Cells(Keys) BY DEF Cells
  <2>2. At(g, LeftOf(n)) = a BY <1>1 DEF At, LeftOf
  <2>3. Clear(LeftOf(n), {a, y}) BY DEF Clear, LeftOf
  <2>4. CanRotate(g, LeftOf(n), a, y, g.right[a]) BY <1>1, <2>2, <2>3 DEF CanRotate
  <2> QED BY <1>1, <2>1, <2>4, RotateLeftFacts DEF f
<1>4. c # LeftOf(n) /\ c # LeftOf(a) /\ c # RightOf(a) /\ c # LeftOf(y) /\ c # RightOf(y) /\ c # RightOf(n)
  BY DEF Clear, RootCell, LeftOf, RightOf
<1>5. /\ f \in Heaps(Keys) /\ f.ok = h.ok /\ f.skew = g.skew /\ f.root = h.root
      /\ f.left[n] = y /\ f.right[n] = b
      /\ f.left[a] = h.left[a] /\ f.right[a] = h.left[y]
      /\ f.left[y] = a /\ f.right[y] = h.right[y]
      /\ \A m \in Keys \ {n, a, y} : f.left[m] = h.left[m] /\ f.right[m] = h.right[m]
  <2>1. LeftOf(n) # RootCell /\ LeftOf(n) # RightOf(n) BY DEF LeftOf, RightOf, RootCell
  <2>2. \A m \in Keys : m # n => LeftOf(n) # LeftOf(m) BY DEF LeftOf
  <2>3. \A m \in Keys : LeftOf(n) # RightOf(m) BY DEF LeftOf, RightOf
  <2>4. At(f, LeftOf(n)) = f.left[n] BY DEF At, LeftOf
  <2> QED BY <1>1, <1>3, <2>1, <2>2, <2>3, <2>4 DEF RotatedLeft, SameElsewhere
<1>6. At(f, c) = n
  <2>1. SameElsewhere(g, f, LeftOf(n), {a, y}) BY <1>3 DEF RotatedLeft
  <2>2. LeftOf(n) \in Cells(Keys) /\ LeftOf(n) # RootCell BY DEF Cells, LeftOf, RootCell
  <2>3. Clear(c, {a, y}) BY DEF Clear
  <2>4. At(f, c) = At(g, c) BY <1>4, <2>1, <2>2, <2>3, AtElsewhere
  <2>5. At(g, c) = At(h, c) BY ONLY <1>1 DEF At
  <2> QED BY <2>4, <2>5
<1>7. RotatedRight(f, k, c, n, y)
  <2>1. Clear(c, {n, y}) BY DEF Clear
  <2>2. CanRotate(f, c, n, y, f.left[n]) BY <1>5, <1>6, <2>1 DEF CanRotate
  <2> QED BY <1>2, <1>5, <2>2, RotateRightFacts
<1>8. /\ k \in Heaps(Keys) /\ k.ok = h.ok /\ At(k, c) = y /\ k.skew = g.skew
      /\ k.left[n] = h.right[y] /\ k.right[n] = b /\ k.left[y] = a /\ k.right[y] = n
  BY <1>5, <1>7 DEF RotatedRight
<1>9. k.left[a] = h.left[a] /\ k.right[a] = h.left[y]
  BY <1>4, <1>5, <1>7 DEF RotatedRight, SameElsewhere
<1>10. SameElsewhere(h, k, c, {n, a, y})
  <2>1. SameElsewhere(f, k, c, {n, y}) BY <1>7 DEF RotatedRight
  <2>2. c # RootCell => k.root = h.root BY <1>5, <2>1 DEF SameElsewhere
  <2>3. ASSUME NEW m \in Keys \ {n, a, y}
        PROVE  /\ k.skew[m] = h.skew[m]
               /\ c # LeftOf(m) => k.left[m] = h.left[m]
               /\ c # RightOf(m) => k.right[m] = h.right[m]
    <3>1. f.left[m] = h.left[m] /\ f.right[m] = h.right[m] BY ONLY <1>5, <2>3
    <3>2. g.skew[m] = h.skew[m] BY ONLY <1>1, <2>3
    <3>3. c # LeftOf(m) => k.left[m] = f.left[m] BY <2>1, <2>3 DEF SameElsewhere
    <3>4. c # RightOf(m) => k.right[m] = f.right[m] BY <2>1, <2>3 DEF SameElsewhere
    <3>5. k.skew = g.skew BY <1>8
    <3> QED BY ONLY <3>1, <3>2, <3>3, <3>4, <3>5
  <2> QED BY ONLY <2>2, <2>3 DEF SameElsewhere
<1> QED BY <1>1, <1>8, <1>9, <1>10 DEF DoublyRotatedLeft

\* The inner subtree of the child is the deeper one: a double rotation.
LEMMA DoubleRotationLeft ==
  ASSUME NEW h \in Heaps(Keys), NEW nodes, NEW depth, NEW c \in Cells(Keys),
         NEW n \in Keys, NEW a \in Keys, NEW b, NEW S, GrewLeft(h, nodes, depth, c, n, a, b, S),
         h.skew[n] = "LEFT", h.skew[a] = "RIGHT", NEW y, y = h.right[a],
         NEW k, k = RotateRight(RotateLeft(TiltedLeft(h, n, a, y), LeftOf(n)), c)
  PROVE  /\ y # Null
         /\ CanGraft(h, nodes, depth, c, k, S, depth[a])
<1> DEFINE x == h.left[a]
           y1 == h.left[y]
           y2 == h.right[y]
           X == Below(nodes, x)
           Y1 == Below(nodes, y1)
           Y2 == Below(nodes, y2)
           B == Below(nodes, b)
<1>1. PartsLeft(h, nodes, depth, n, a, b, S, x, y) BY LeftParts
<1>2. /\ x \in Pointers /\ y \in Pointers /\ b \in Pointers
      /\ Tree(h, nodes, depth, x) /\ Tree(h, nodes, depth, y) /\ Tree(h, nodes, depth, b)
      /\ S = {n, a} \cup X \cup Below(nodes, y) \cup B
      /\ X \subseteq Keys /\ B \subseteq Keys
      /\ Depth(depth, x) \in Nat /\ Depth(depth, y) \in Nat /\ Depth(depth, b) \in Nat
      /\ Less(X, a) /\ More(Below(nodes, y), a) /\ Less(Below(nodes, y), n) /\ More(B, n) /\ a < n
      /\ depth[a] = 1 + Deeper(Depth(depth, x), Depth(depth, y))
      /\ depth[a] = Depth(depth, b) + 2
      /\ Tells(h.skew[a], Depth(depth, x), Depth(depth, y))
  BY <1>1 DEF PartsLeft
<1>3. IsGhost(nodes, depth) /\ n = At(h, c) /\ a = h.left[n] /\ b = h.right[n] /\ Clear(c, S)
  BY DEF GrewLeft
<1>4. y \in Keys /\ Below(nodes, y) = nodes[y] /\ Depth(depth, y) = depth[y]
  <2>1. Depth(depth, y) = Depth(depth, x) + 1 BY <1>2 DEF Tells
  <2>2. y # Null BY <1>2, <2>1 DEF Depth
  <2> QED BY <1>2, <2>2 DEF Below, Depth, Pointers
<1>5. /\ y1 \in Pointers /\ y2 \in Pointers
      /\ Tree(h, nodes, depth, y1) /\ Tree(h, nodes, depth, y2)
      /\ nodes[y] = {y} \cup Y1 \cup Y2 /\ Less(Y1, y) /\ More(Y2, y)
      /\ depth[y] = 1 + Deeper(Depth(depth, y1), Depth(depth, y2))
      /\ Tells(h.skew[y], Depth(depth, y1), Depth(depth, y2))
      /\ Y1 \subseteq Keys /\ Y2 \subseteq Keys
      /\ Depth(depth, y1) \in Nat /\ Depth(depth, y2) \in Nat
  <2>1. Sound(h, nodes, depth, y) /\ Tree(h, nodes, depth, y1) /\ Tree(h, nodes, depth, y2)
    BY <1>2, <1>3, <1>4, ChildrenAreTrees
  <2>2. y1 \in Pointers /\ y2 \in Pointers BY <1>4, Links
  <2>3. /\ Y1 \subseteq Keys /\ Y2 \subseteq Keys
        /\ Depth(depth, y1) \in Nat /\ Depth(depth, y2) \in Nat
    BY <1>3, <2>2, GhostTypes
  <2> QED BY <2>1, <2>2, <2>3 DEF Sound
<1>6. a < y /\ y < n /\ n # a /\ a # y /\ n # y
  <2>1. y \in nodes[y] BY <1>4, <1>5
  <2>2. a < y /\ y < n BY <1>2, <1>4, <2>1 DEF Less, More
  <2> QED BY <1>2, <1>4, <2>2, NullIsNoKey
<1>7. S = {n, a, y} \cup X \cup Y1 \cup Y2 \cup B BY ONLY <1>2, <1>4, <1>5
<1>8. /\ Less(X, a) /\ Less(Y1, y) /\ More(Y1, a) /\ More(Y2, y) /\ Less(Y2, n) /\ More(B, n)
      /\ More(Y2, a) /\ Less(Y1, n)
  BY ONLY <1>2, <1>4, <1>5 DEF Less, More
<1> HIDE DEF x, y1, y2, X, Y1, Y2, B
<1>9. /\ k \in Heaps(Keys) /\ k.ok = h.ok
      /\ At(k, c) = y /\ SameElsewhere(h, k, c, {n, a, y})
      /\ k.left[a] = x /\ k.right[a] = y1 /\ k.left[n] = y2 /\ k.right[n] = b
      /\ k.left[y] = a /\ k.right[y] = n /\ k.skew[y] = "NONE"
      /\ k.skew[n] = IF h.skew[y] = "LEFT" THEN "RIGHT" ELSE "NONE"
      /\ k.skew[a] = IF h.skew[y] = "RIGHT" THEN "LEFT" ELSE "NONE"
  <2>1. Clear(c, {n, a, y}) BY <1>3, <1>7 DEF Clear
  <2>2. DoublyRotatedLeft(h, k, c, n, a, y, b)
    BY <1>3, <1>4, <1>6, <2>1, DoubleRotationLeftLinks
  <2> QED BY <2>2 DEF DoublyRotatedLeft, x, y1, y2
<1>10. \A m \in X \cup Y1 \cup Y2 \cup B : m \in Keys /\ m # n /\ m # a /\ m # y
  <2>1. \A m \in X : m < a /\ m \in Nat BY <1>2, <1>8, NullIsNoKey DEF Less
  <2>2. \A m \in Y1 : a < m /\ m < y /\ m \in Nat BY <1>5, <1>8, NullIsNoKey DEF Less, More
  <2>3. \A m \in Y2 : y < m /\ m < n /\ m \in Nat BY <1>5, <1>8, NullIsNoKey DEF Less, More
  <2>4. \A m \in B : n < m /\ m \in Nat BY <1>2, <1>8, NullIsNoKey DEF More
  <2>5. a \in Nat /\ y \in Nat /\ n \in Nat BY <1>4, NullIsNoKey
  <2>6. X \subseteq Keys /\ Y1 \subseteq Keys /\ Y2 \subseteq Keys /\ B \subseteq Keys BY <1>2, <1>5
  <2> QED BY ONLY <1>6, <2>1, <2>2, <2>3, <2>4, <2>5, <2>6
<1>11. ASSUME NEW m \in X \cup Y1 \cup Y2 \cup B
       PROVE  k.left[m] = h.left[m] /\ k.right[m] = h.right[m] /\ k.skew[m] = h.skew[m]
  <2>1. c # LeftOf(m) /\ c # RightOf(m)
    BY <1>3, <1>7 DEF Clear, RootCell, LeftOf, RightOf
  <2> QED BY <1>9, <1>10, <2>1 DEF SameElsewhere
<1>12. /\ Depth(depth, x) = Depth(depth, b) /\ Depth(depth, b) \in Nat
       /\ depth[a] = Depth(depth, b) + 2
       /\ Deeper(Depth(depth, y1), Depth(depth, y2)) = Depth(depth, b)
  <2>1. Depth(depth, y) = Depth(depth, x) + 1 BY <1>2 DEF Tells
  <2>2. Depth(depth, x) \in Nat /\ Depth(depth, y) \in Nat /\ Depth(depth, b) \in Nat BY <1>2
  <2>3. depth[a] = 1 + Depth(depth, y) BY <1>2, <2>1, <2>2 DEF Deeper
  <2>4. depth[a] = Depth(depth, b) + 2 BY <1>2
  <2>5. depth[y] = 1 + Deeper(Depth(depth, y1), Depth(depth, y2)) BY <1>5
  <2>6. Deeper(Depth(depth, y1), Depth(depth, y2)) \in Nat BY <1>5 DEF Deeper
  <2>7. Depth(depth, y) = Depth(depth, b) + 1 BY ONLY <2>2, <2>3, <2>4
  <2>8. Depth(depth, x) = Depth(depth, b) BY ONLY <2>1, <2>2, <2>7
  <2>9. Depth(depth, y) = 1 + Deeper(Depth(depth, y1), Depth(depth, y2)) BY <1>4, <2>5
  <2>10. Deeper(Depth(depth, y1), Depth(depth, y2)) = Depth(depth, b)
    BY ONLY <2>2, <2>6, <2>7, <2>9
  <2> QED BY ONLY <2>2, <2>4, <2>8, <2>10
<1> DEFINE nodes1 == NodesOver(nodes, a, x, y1)
           depth1 == DepthOver(depth, a, x, y1)
<1>13. Joined(k, nodes, depth, a, x, y1, nodes1, depth1)
  <2>1. Tells(k.skew[a], Depth(depth, x), Depth(depth, y1))
    BY <1>5, <1>9, <1>12 DEF Tells, Deeper
  <2>2. \A m \in X \cup Y1 :
          k.left[m] = h.left[m] /\ k.right[m] = h.right[m] /\ k.skew[m] = h.skew[m]
    BY <1>11
  <2>3. CanJoin(h, k, nodes, depth, a, x, y1)
    <3>1. h \in Heaps(Keys) /\ k \in Heaps(Keys) /\ IsGhost(nodes, depth) /\ a \in Keys BY <1>3, <1>9
    <3>2. Tree(h, nodes, depth, x) /\ Tree(h, nodes, depth, y1) BY <1>2, <1>5
    <3>3. k.left[a] = x /\ k.right[a] = y1 BY <1>9
    <3>4. X = Below(nodes, x) /\ Y1 = Below(nodes, y1) BY DEF X, Y1
    <3>5. Less(X, a) /\ More(Y1, a) BY <1>8
    <3> QED BY ONLY <2>1, <2>2, <3>1, <3>2, <3>3, <3>4, <3>5 DEF CanJoin
  <2> QED BY <2>3, JoinUnder
<1> HIDE DEF nodes1, depth1
<1>14. /\ IsGhost(nodes1, depth1) /\ Tree(k, nodes1, depth1, a)
       /\ nodes1[a] = {a} \cup X \cup Y1
       /\ depth1[a] = 1 + Deeper(Depth(depth, x), Depth(depth, y1))
       /\ \A m \in Keys \ {a} : nodes1[m] = nodes[m] /\ depth1[m] = depth[m]
  BY <1>13 DEF Joined, X, Y1
<1>15. /\ Tree(k, nodes1, depth1, y2) /\ Below(nodes1, y2) = Y2 /\ Depth(depth1, y2) = Depth(depth, y2)
  <2>1. \A m \in Y2 : /\ k.left[m] = h.left[m] /\ k.right[m] = h.right[m] /\ k.skew[m] = h.skew[m]
                      /\ nodes1[m] = nodes[m] /\ depth1[m] = depth[m]
    BY <1>10, <1>11, <1>14
  <2>2. Tree(h, nodes, depth, y2) BY <1>5
  <2>3. IsGhost(nodes, depth) /\ IsGhost(nodes1, depth1) /\ k \in Heaps(Keys) /\ h \in Heaps(Keys)
    BY <1>3, <1>9, <1>14
  <2>4. Y2 = Below(nodes, y2) BY DEF Y2
  <2> QED BY ONLY <2>1, <2>2, <2>3, <2>4, TreeStays
<1>16. /\ Tree(k, nodes1, depth1, b) /\ Below(nodes1, b) = B /\ Depth(depth1, b) = Depth(depth, b)
  <2>1. \A m \in B : /\ k.left[m] = h.left[m] /\ k.right[m] = h.right[m] /\ k.skew[m] = h.skew[m]
                     /\ nodes1[m] = nodes[m] /\ depth1[m] = depth[m]
    BY <1>10, <1>11, <1>14
  <2>2. Tree(h, nodes, depth, b) BY <1>2
  <2>3. IsGhost(nodes, depth) /\ IsGhost(nodes1, depth1) /\ k \in Heaps(Keys) /\ h \in Heaps(Keys)
    BY <1>3, <1>9, <1>14
  <2>4. B = Below(nodes, b) BY DEF B
  <2> QED BY ONLY <2>1, <2>2, <2>3, <2>4, TreeStays
<1> DEFINE nodes2 == NodesOver(nodes1, n, y2, b)
           depth2 == DepthOver(depth1, n, y2, b)
<1>17. Joined(k, nodes1, depth1, n, y2, b, nodes2, depth2)
  <2>1. Tells(k.skew[n], Depth(depth1, y2), Depth(depth1, b))
    BY <1>5, <1>9, <1>12, <1>15, <1>16 DEF Tells, Deeper
  <2>2. CanJoin(k, k, nodes1, depth1, n, y2, b)
    BY <1>8, <1>9, <1>14, <1>15, <1>16, <2>1 DEF CanJoin
  <2> QED BY <2>2, JoinUnder
<1> HIDE DEF nodes2, depth2
<1>18. /\ IsGhost(nodes2, depth2) /\ Tree(k, nodes2, depth2, n)
       /\ nodes2[n] = {n} \cup Y2 \cup B
       /\ depth2[n] = 1 + Deeper(Depth(depth, y2), Depth(depth, b))
       /\ \A m \in Keys \ {n} : nodes2[m] = nodes1[m] /\ depth2[m] = depth1[m]
  BY <1>15, <1>16, <1>17 DEF Joined
<1>19. /\ Below(nodes1, a) = nodes1[a] /\ Depth(depth1, a) = depth1[a]
       /\ Below(nodes2, a) = nodes2[a] /\ Depth(depth2, a) = depth2[a]
       /\ Below(nodes2, n) = nodes2[n] /\ Depth(depth2, n) = depth2[n]
  BY NullIsNoKey DEF Below, Depth
<1>20. /\ Tree(k, nodes2, depth2, a) /\ nodes2[a] = nodes1[a] /\ depth2[a] = depth1[a]
  <2>1. n \notin nodes1[a] /\ nodes1[a] \subseteq Keys BY <1>2, <1>5, <1>6, <1>10, <1>14
  <2>2. \A m \in Below(nodes1, a) :
          /\ k.left[m] = k.left[m] /\ k.right[m] = k.right[m] /\ k.skew[m] = k.skew[m]
          /\ nodes2[m] = nodes1[m] /\ depth2[m] = depth1[m]
    BY ONLY <1>18, <1>19, <2>1
  <2> QED BY <1>9, <1>14, <1>18, <1>19, <2>2, TreeStays
<1> DEFINE nodes3 == NodesOver(nodes2, y, a, n)
           depth3 == DepthOver(depth2, y, a, n)
<1>21. depth2[a] = Depth(depth, b) + 1 /\ depth2[n] = Depth(depth, b) + 1
  <2>1. Deeper(Depth(depth, x), Depth(depth, y1)) = Depth(depth, b)
    BY ONLY <1>5, <1>12 DEF Deeper
  <2>2. Deeper(Depth(depth, y2), Depth(depth, b)) = Depth(depth, b)
    BY ONLY <1>5, <1>12 DEF Deeper
  <2> QED BY ONLY <1>12, <1>14, <1>18, <1>20, <2>1, <2>2
<1>22. Joined(k, nodes2, depth2, y, a, n, nodes3, depth3)
  <2>1. Tells(k.skew[y], Depth(depth2, a), Depth(depth2, n)) BY <1>9, <1>19, <1>21 DEF Tells
  <2>2. Less(Below(nodes2, a), y) /\ More(Below(nodes2, n), y)
    <3>1. Below(nodes2, a) = {a} \cup X \cup Y1 /\ Below(nodes2, n) = {n} \cup Y2 \cup B
      BY <1>14, <1>18, <1>19, <1>20
    <3>2. \A m \in X : m < y BY <1>2, <1>4, <1>6, <1>8, NullIsNoKey DEF Less
    <3>3. \A m \in B : y < m BY <1>2, <1>4, <1>6, <1>8, NullIsNoKey DEF More
    <3> QED BY ONLY <1>6, <1>8, <3>1, <3>2, <3>3 DEF Less, More
  <2>3. CanJoin(k, k, nodes2, depth2, y, a, n)
    BY <1>4, <1>9, <1>18, <1>20, <2>1, <2>2 DEF CanJoin
  <2> QED BY <2>3, JoinUnder
<1> HIDE DEF nodes3, depth3
<1>23. /\ IsGhost(nodes3, depth3) /\ Tree(k, nodes3, depth3, y)
       /\ nodes3[y] = {y} \cup nodes2[a] \cup nodes2[n]
       /\ depth3[y] = 1 + Deeper(depth2[a], depth2[n])
       /\ \A m \in Keys \ {y} : nodes3[m] = nodes2[m] /\ depth3[m] = depth2[m]
  BY <1>19, <1>22 DEF Joined
<1>24. nodes3[y] = S
  BY ONLY <1>7, <1>14, <1>18, <1>20, <1>23
<1>25. depth3[y] = depth[a] BY ONLY <1>12, <1>21, <1>23 DEF Deeper
<1>26. \A m \in Keys \ S : nodes3[m] = nodes[m] /\ depth3[m] = depth[m]
  BY ONLY <1>7, <1>14, <1>18, <1>23
<1>27. SameElsewhere(h, k, c, S) BY <1>7, <1>9 DEF SameElsewhere
<1>28. Grafted(h, nodes, depth, c, k, nodes3, depth3, S, depth[a])
  BY <1>4, <1>9, <1>23, <1>24, <1>25, <1>26, <1>27 DEF Grafted
<1> QED BY <1>4, <1>28, NullIsNoKey DEF CanGraft

\* GrownLeft on a tree that has become deeper on the left.
LEMMA GrownLeftFacts ==
  ASSUME NEW h \in Heaps(Keys), NEW nodes, NEW depth, NEW c \in Cells(Keys),
         NEW n \in Keys, NEW a \in Keys, NEW b, NEW S, GrewLeft(h, nodes, depth, c, n, a, b, S),
         h.skew[n] = "LEFT" => h.skew[a] # "NONE",
         NEW r, r = GrownLeft(h, c)
  PROVE  /\ r.grown \in BOOLEAN
         /\ r.grown => r.tree.skew[At(r.tree, c)] # "NONE"
         /\ CanGraft(h, nodes, depth, c, r.tree, S,
                     1 + Deeper(depth[a] - 1, Depth(depth, b)) + IF r.grown THEN 1 ELSE 0)
<1>1. /\ IsGhost(nodes, depth) /\ n = At(h, c) /\ a = h.left[n] /\ b = h.right[n]
      /\ Tells(h.skew[n], depth[a] - 1, Depth(depth, b))
  BY DEF GrewLeft
<1>2. depth[a] \in Nat /\ Depth(depth, b) \in Nat
  <2>1. b \in Pointers BY DEF GrewLeft, Tree
  <2> QED BY <1>1, <2>1, GhostTypes DEF IsGhost
<1>3. a # Null BY NullIsNoKey
<1>4. CASE h.skew[n] = "NONE"
  <2>1. r = Result([h EXCEPT !.skew[n] = "LEFT"], TRUE) BY <1>1, <1>4 DEF GrownLeft
  <2>2. r.grown = TRUE /\ r.tree = [h EXCEPT !.skew[n] = "LEFT"] BY <2>1 DEF Result
  <2>3. depth[a] - 1 = Depth(depth, b) BY <1>1, <1>4 DEF Tells
  <2>4. "LEFT" \in {"NONE", "LEFT", "RIGHT"} /\ Tells("LEFT", depth[a], Depth(depth, b))
    BY <1>2, <2>3 DEF Tells
  <2>5. /\ At(r.tree, c) = n /\ r.tree.skew[n] = "LEFT"
        /\ CanGraft(h, nodes, depth, c, r.tree, S, 1 + Deeper(depth[a], Depth(depth, b)))
    <3>1. Skewed(h, nodes, depth, c, r.tree, n, "LEFT", S, 1 + Deeper(depth[a], Depth(depth, b)))
      BY <2>2, <2>4, SkewLeftFacts
    <3> QED BY <3>1 DEF Skewed
  <2>6. 1 + Deeper(depth[a], Depth(depth, b))
          = 1 + Deeper(depth[a] - 1, Depth(depth, b)) + IF r.grown THEN 1 ELSE 0
    BY <1>2, <2>2, <2>3 DEF Deeper
  <2> QED BY ONLY <2>2, <2>5, <2>6
<1>5. CASE h.skew[n] = "RIGHT"
  <2>1. r = Result([h EXCEPT !.skew[n] = "NONE"], FALSE) BY <1>1, <1>5 DEF GrownLeft
  <2>2. r.grown = FALSE /\ r.tree = [h EXCEPT !.skew[n] = "NONE"] BY <2>1 DEF Result
  <2>3. Depth(depth, b) = depth[a] BY <1>1, <1>2, <1>5 DEF Tells
  <2>4. "NONE" \in {"NONE", "LEFT", "RIGHT"} /\ Tells("NONE", depth[a], Depth(depth, b))
    BY <2>3 DEF Tells
  <2>5. CanGraft(h, nodes, depth, c, r.tree, S, 1 + Deeper(depth[a], Depth(depth, b)))
    <3>1. Skewed(h, nodes, depth, c, r.tree, n, "NONE", S, 1 + Deeper(depth[a], Depth(depth, b)))
      BY <2>2, <2>4, SkewLeftFacts
    <3> QED BY <3>1 DEF Skewed
  <2>6. 1 + Deeper(depth[a], Depth(depth, b))
          = 1 + Deeper(depth[a] - 1, Depth(depth, b)) + IF r.grown THEN 1 ELSE 0
    BY <1>2, <2>2, <2>3 DEF Deeper
  <2> QED BY ONLY <2>2, <2>5, <2>6
<1>6. CASE h.skew[n] = "LEFT"
  <2>1. h.skew[a] = "LEFT" \/ h.skew[a] = "RIGHT" BY <1>6, Links
  <2>2. depth[a] - 1 = Depth(depth, b) + 1 BY <1>1, <1>6 DEF Tells
  <2>3. depth[a] = 1 + Deeper(depth[a] - 1, Depth(depth, b)) + 0 BY <1>2, <2>2 DEF Deeper
  <2>4. CASE h.skew[a] = "LEFT"
    <3>1. r = Result(RotateRight([h EXCEPT !.skew[n] = "NONE", !.skew[a] = "NONE"], c), FALSE)
      BY <1>1, <1>3, <1>6, <2>4 DEF GrownLeft
    <3>2. r.grown = FALSE /\ r.tree = RotateRight([h EXCEPT !.skew[n] = "NONE", !.skew[a] = "NONE"], c)
      BY <3>1 DEF Result
    <3>3. CanGraft(h, nodes, depth, c, r.tree, S, depth[a])
      BY <1>6, <2>4, <3>2, SingleRotationLeft
    <3> QED BY ONLY <2>3, <3>2, <3>3
  <2>5. CASE h.skew[a] = "RIGHT"
    <3> DEFINE y == h.right[a]
    <3>1. /\ y # Null
          /\ CanGraft(h, nodes, depth, c, RotateRight(RotateLeft(TiltedLeft(h, n, a, y), LeftOf(n)), c),
                      S, depth[a])
      BY <1>6, <2>5, DoubleRotationLeft
    <3>2. r = Result(RotateRight(RotateLeft(TiltedLeft(h, n, a, y), LeftOf(n)), c), FALSE)
      BY <1>1, <1>3, <1>6, <2>5, <3>1 DEF GrownLeft, TiltedLeft
    <3>3. r.grown = FALSE /\ r.tree = RotateRight(RotateLeft(TiltedLeft(h, n, a, y), LeftOf(n)), c)
      BY <3>2 DEF Result
    <3> QED BY ONLY <2>3, <3>1, <3>3
  <2> QED BY <2>1, <2>4, <2>5
<1> QED BY <1>4, <1>5, <1>6, Links

-----------------------------------------------------------------------------
(* The same on the right.                                                  *)

\* The tree a to the right of n has grown: n has children that are trees, and
\* its skew is still that of the time before.
GrewRight(h, nodes, depth, c, n, a, b, S) ==
  /\ IsGhost(nodes, depth) /\ n = At(h, c) /\ a = h.right[n] /\ b = h.left[n]
  /\ Tree(h, nodes, depth, a) /\ Tree(h, nodes, depth, b)
  /\ S = {n} \cup nodes[a] \cup Below(nodes, b)
  /\ More(nodes[a], n) /\ Less(Below(nodes, b), n)
  /\ Tells(h.skew[n], Depth(depth, b), depth[a] - 1)
  /\ Clear(c, S)

\* Only the skew of n changes.
LEMMA SkewRightFacts ==
  ASSUME NEW h \in Heaps(Keys), NEW nodes, NEW depth, NEW c \in Cells(Keys),
         NEW n \in Keys, NEW a \in Keys, NEW b, NEW S, GrewRight(h, nodes, depth, c, n, a, b, S),
         NEW skew \in {"NONE", "RIGHT", "LEFT"}, Tells(skew, Depth(depth, b), depth[a]),
         NEW k, k = [h EXCEPT !.skew[n] = skew]
  PROVE  Skewed(h, nodes, depth, c, k, n, skew, S, 1 + Deeper(Depth(depth, b), depth[a]))
<1> DEFINE nodes2 == NodesOver(nodes, n, b, a)
           depth2 == DepthOver(depth, n, b, a)
<1>1. /\ k \in Heaps(Keys) /\ k.ok = h.ok /\ k.root = h.root /\ k.right = h.right /\ k.left = h.left
      /\ k.skew[n] = skew /\ \A m \in Keys \ {n} : k.skew[m] = h.skew[m]
  BY DEF Heaps
<1>2. At(k, c) = n
  <2>1. n = At(h, c) BY DEF GrewRight
  <2> QED BY ONLY <1>1, <2>1 DEF At
<1>3. Below(nodes, a) = nodes[a] /\ Depth(depth, a) = depth[a] BY NullIsNoKey DEF Below, Depth
<1>4. IsGhost(nodes, depth) /\ Tree(h, nodes, depth, a) /\ Tree(h, nodes, depth, b) BY DEF GrewRight
<1>5. /\ k.right[n] = a /\ k.left[n] = b
      /\ More(Below(nodes, a), n) /\ Less(Below(nodes, b), n)
      /\ Tells(k.skew[n], Depth(depth, b), Depth(depth, a))
  BY <1>1, <1>3 DEF GrewRight
<1>6. \A m \in Below(nodes, a) \cup Below(nodes, b) :
        k.right[m] = h.right[m] /\ k.left[m] = h.left[m] /\ k.skew[m] = h.skew[m]
  <2>1. b \in Pointers BY <1>4 DEF Tree
  <2>2. Below(nodes, a) \subseteq Keys /\ Below(nodes, b) \subseteq Keys
    BY <1>4, <2>1, GhostTypes DEF Pointers
  <2>3. n \notin Below(nodes, a) /\ n \notin Below(nodes, b) BY <1>5, NullIsNoKey DEF More, Less
  <2> QED BY <1>1, <2>2, <2>3
<1> HIDE DEF nodes2, depth2
<1>7. Joined(k, nodes, depth, n, b, a, nodes2, depth2)
  <2>1. CanJoin(h, k, nodes, depth, n, b, a) BY <1>1, <1>4, <1>5, <1>6 DEF CanJoin
  <2> QED BY <2>1, JoinUnder DEF nodes2, depth2
<1>8. S = {n} \cup Below(nodes, a) \cup Below(nodes, b) BY <1>3 DEF GrewRight
<1>9. SameElsewhere(h, k, c, S) BY <1>1, <1>8 DEF SameElsewhere
<1>10. Grafted(h, nodes, depth, c, k, nodes2, depth2, S, 1 + Deeper(Depth(depth, b), depth[a]))
  BY <1>1, <1>2, <1>3, <1>7, <1>8, <1>9 DEF Grafted, Joined
<1> QED BY <1>1, <1>2, <1>10 DEF Skewed, CanGraft

\* What hangs from n when the right child has become two levels deeper than the
\* left one: the trees x, y and b, divided by a and n.
PartsRight(h, nodes, depth, n, a, b, S, x, y) ==
  /\ x \in Pointers /\ y \in Pointers /\ b \in Pointers
  /\ Tree(h, nodes, depth, x) /\ Tree(h, nodes, depth, y) /\ Tree(h, nodes, depth, b)
  /\ S = {n, a} \cup Below(nodes, x) \cup Below(nodes, y) \cup Below(nodes, b)
  /\ Below(nodes, x) \subseteq Keys /\ Below(nodes, y) \subseteq Keys /\ Below(nodes, b) \subseteq Keys
  /\ Depth(depth, x) \in Nat /\ Depth(depth, y) \in Nat /\ Depth(depth, b) \in Nat
  /\ More(Below(nodes, x), a) /\ Less(Below(nodes, y), a) /\ More(Below(nodes, y), n)
  /\ Less(Below(nodes, b), n) /\ n < a
  /\ depth[a] = 1 + Deeper(Depth(depth, y), Depth(depth, x))
  /\ depth[a] = Depth(depth, b) + 2
  /\ Tells(h.skew[a], Depth(depth, y), Depth(depth, x))

\* There are these parts.
LEMMA RightParts ==
  ASSUME NEW h \in Heaps(Keys), NEW nodes, NEW depth, NEW c \in Cells(Keys),
         NEW n \in Keys, NEW a \in Keys, NEW b, NEW S, GrewRight(h, nodes, depth, c, n, a, b, S),
         h.skew[n] = "RIGHT"
  PROVE  PartsRight(h, nodes, depth, n, a, b, S, h.right[a], h.left[a])
<1> DEFINE x == h.right[a]
           y == h.left[a]
<1>1. /\ IsGhost(nodes, depth) /\ Tree(h, nodes, depth, a) /\ Tree(h, nodes, depth, b)
      /\ S = {n} \cup nodes[a] \cup Below(nodes, b)
      /\ More(nodes[a], n) /\ Less(Below(nodes, b), n)
      /\ Tells(h.skew[n], Depth(depth, b), depth[a] - 1)
  BY DEF GrewRight
<1>2. x \in Pointers /\ y \in Pointers /\ b \in Pointers BY <1>1, Links DEF Tree
<1>3. Sound(h, nodes, depth, a) /\ Tree(h, nodes, depth, x) /\ Tree(h, nodes, depth, y)
  BY <1>1, ChildrenAreTrees
<1>4. /\ Below(nodes, x) \subseteq Keys /\ Below(nodes, y) \subseteq Keys /\ Below(nodes, b) \subseteq Keys
      /\ Depth(depth, x) \in Nat /\ Depth(depth, y) \in Nat /\ Depth(depth, b) \in Nat
  BY <1>1, <1>2, GhostTypes
<1>5. /\ nodes[a] = {a} \cup Below(nodes, x) \cup Below(nodes, y)
      /\ More(Below(nodes, x), a) /\ Less(Below(nodes, y), a)
      /\ depth[a] = 1 + Deeper(Depth(depth, y), Depth(depth, x))
      /\ Tells(h.skew[a], Depth(depth, y), Depth(depth, x))
  BY <1>3 DEF Sound
<1>6. n < a /\ More(Below(nodes, y), n) BY <1>1, <1>5 DEF More
<1>7. depth[a] = Depth(depth, b) + 2
  <2>1. depth[a] \in Nat BY <1>1 DEF IsGhost
  <2>2. depth[a] - 1 = Depth(depth, b) + 1 BY <1>1 DEF Tells
  <2> QED BY <1>4, <2>1, <2>2
<1> HIDE DEF x, y
<1>8. PartsRight(h, nodes, depth, n, a, b, S, x, y)
  BY <1>1, <1>2, <1>3, <1>4, <1>5, <1>6, <1>7 DEF PartsRight
<1> QED BY <1>8 DEF x, y

\* The outer subtree of the child is the deeper one: a single rotation.
LEMMA SingleRotationRight ==
  ASSUME NEW h \in Heaps(Keys), NEW nodes, NEW depth, NEW c \in Cells(Keys),
         NEW n \in Keys, NEW a \in Keys, NEW b, NEW S, GrewRight(h, nodes, depth, c, n, a, b, S),
         h.skew[n] = "RIGHT", h.skew[a] = "RIGHT",
         NEW k, k = RotateLeft([h EXCEPT !.skew[n] = "NONE", !.skew[a] = "NONE"], c)
  PROVE  CanGraft(h, nodes, depth, c, k, S, depth[a])
<1> DEFINE g == [h EXCEPT !.skew[n] = "NONE", !.skew[a] = "NONE"]
           x == h.right[a]
           y == h.left[a]
           X == Below(nodes, x)
           Y == Below(nodes, y)
           B == Below(nodes, b)
<1>1. /\ x \in Pointers /\ y \in Pointers /\ b \in Pointers
      /\ Tree(h, nodes, depth, x) /\ Tree(h, nodes, depth, y) /\ Tree(h, nodes, depth, b)
      /\ S = {n, a} \cup X \cup Y \cup B
      /\ X \subseteq Keys /\ Y \subseteq Keys /\ B \subseteq Keys
      /\ Depth(depth, x) \in Nat /\ Depth(depth, y) \in Nat /\ Depth(depth, b) \in Nat
      /\ More(X, a) /\ Less(Y, a) /\ More(Y, n) /\ Less(B, n) /\ n < a
      /\ depth[a] = 1 + Deeper(Depth(depth, y), Depth(depth, x))
      /\ depth[a] = Depth(depth, b) + 2
      /\ Tells(h.skew[a], Depth(depth, y), Depth(depth, x))
  <2>1. PartsRight(h, nodes, depth, n, a, b, S, x, y) BY RightParts
  <2> QED BY <2>1 DEF PartsRight
<1>2. /\ IsGhost(nodes, depth) /\ n = At(h, c) /\ a = h.right[n] /\ b = h.left[n] /\ Clear(c, S)
  BY DEF GrewRight
<1>3. /\ g \in Heaps(Keys) /\ g.ok = h.ok /\ g.root = h.root /\ g.right = h.right /\ g.left = h.left
      /\ g.skew[n] = "NONE" /\ g.skew[a] = "NONE" /\ \A m \in Keys \ {n, a} : g.skew[m] = h.skew[m]
  <2>1. a # n BY <1>1, NullIsNoKey
  <2> QED BY <2>1 DEF Heaps
<1> HIDE DEF g
<1>4. n = At(g, c) BY ONLY <1>2, <1>3 DEF At
<1>5. /\ k \in Heaps(Keys) /\ k.ok = g.ok /\ k.skew = g.skew
      /\ At(k, c) = a /\ SameElsewhere(g, k, c, {n, a})
      /\ k.right[n] = y /\ k.left[n] = b /\ k.right[a] = x /\ k.left[a] = n
  <2>1. Clear(c, {n, a}) BY <1>1, <1>2 DEF Clear
  <2>2. a # n BY <1>1, NullIsNoKey
  <2>3. k = RotateLeft(g, c) BY DEF g
  <2>4. a = g.right[n] BY <1>2, <1>3
  <2>5. CanRotate(g, c, n, a, g.right[n]) BY <1>4, <2>1, <2>2, <2>4 DEF CanRotate
  <2>6. RotatedLeft(g, k, c, n, a) BY <1>3, <2>3, <2>5, RotateLeftFacts
  <2> QED BY <1>2, <1>3, <2>6 DEF RotatedLeft
<1> HIDE DEF x, y, X, Y, B
<1>6. \A m \in X \cup Y \cup B : m \in Keys /\ m # n /\ m # a
  BY <1>1, NullIsNoKey DEF More, Less
<1>7. \A m \in X \cup Y \cup B :
        k.right[m] = h.right[m] /\ k.left[m] = h.left[m] /\ k.skew[m] = h.skew[m]
  <2> SUFFICES ASSUME NEW m \in X \cup Y \cup B
               PROVE  k.right[m] = h.right[m] /\ k.left[m] = h.left[m] /\ k.skew[m] = h.skew[m]
    OBVIOUS
  <2>1. c # RightOf(m) /\ c # LeftOf(m)
    BY <1>1, <1>2 DEF Clear, RootCell, RightOf, LeftOf
  <2> QED BY <1>3, <1>5, <1>6, <2>1 DEF SameElsewhere
<1> DEFINE nodes1 == NodesOver(nodes, n, b, y)
           depth1 == DepthOver(depth, n, b, y)
<1>8. Joined(k, nodes, depth, n, b, y, nodes1, depth1)
  <2>1. Tells(k.skew[n], Depth(depth, b), Depth(depth, y))
    <3>1. Depth(depth, y) = Depth(depth, b) BY <1>1 DEF Tells, Deeper
    <3> QED BY <1>3, <1>5, <3>1 DEF Tells
  <2>2. CanJoin(h, k, nodes, depth, n, b, y)
    BY <1>1, <1>2, <1>5, <1>7, <2>1 DEF CanJoin, X, Y, B
  <2> QED BY <2>2, JoinUnder
<1> HIDE DEF nodes1, depth1
<1>9. /\ IsGhost(nodes1, depth1) /\ Tree(k, nodes1, depth1, n)
      /\ nodes1[n] = {n} \cup Y \cup B
      /\ depth1[n] = 1 + Deeper(Depth(depth, b), Depth(depth, y))
      /\ \A m \in Keys \ {n} : nodes1[m] = nodes[m] /\ depth1[m] = depth[m]
  BY <1>8 DEF Joined, Y, B
<1>10. /\ Tree(k, nodes1, depth1, x) /\ Below(nodes1, x) = X /\ Depth(depth1, x) = Depth(depth, x)
  <2>1. \A m \in X : /\ k.right[m] = h.right[m] /\ k.left[m] = h.left[m] /\ k.skew[m] = h.skew[m]
                     /\ nodes1[m] = nodes[m] /\ depth1[m] = depth[m]
    BY <1>6, <1>7, <1>9
  <2> QED BY <1>1, <1>2, <1>5, <1>9, <2>1, TreeStays DEF X
<1> DEFINE nodes2 == NodesOver(nodes1, a, n, x)
           depth2 == DepthOver(depth1, a, n, x)
<1>11. Below(nodes1, n) = nodes1[n] /\ Depth(depth1, n) = depth1[n] BY NullIsNoKey DEF Below, Depth
<1>12. Joined(k, nodes1, depth1, a, n, x, nodes2, depth2)
  <2>1. Tells(k.skew[a], Depth(depth1, n), Depth(depth1, x))
    <3>1. Depth(depth, x) = 1 + Deeper(Depth(depth, b), Depth(depth, y))
      BY <1>1 DEF Tells, Deeper
    <3> QED BY <1>3, <1>5, <1>9, <1>10, <1>11, <3>1 DEF Tells
  <2>2. More(Below(nodes1, x), a) /\ Less(Below(nodes1, n), a)
    BY <1>1, <1>6, <1>9, <1>10, <1>11, NullIsNoKey DEF More, Less
  <2>3. CanJoin(k, k, nodes1, depth1, a, n, x)
    BY <1>5, <1>9, <1>10, <2>1, <2>2 DEF CanJoin
  <2> QED BY <2>3, JoinUnder
<1> HIDE DEF nodes2, depth2
<1>13. /\ IsGhost(nodes2, depth2) /\ Tree(k, nodes2, depth2, a)
       /\ nodes2[a] = {a} \cup X \cup {n} \cup Y \cup B
       /\ depth2[a] = 1 + Deeper(depth1[n], Depth(depth1, x))
       /\ \A m \in Keys \ {a} : nodes2[m] = nodes1[m] /\ depth2[m] = depth1[m]
  BY <1>9, <1>10, <1>11, <1>12 DEF Joined
<1>14. depth2[a] = depth[a] BY <1>1, <1>9, <1>10, <1>13 DEF Tells, Deeper
<1>15. SameElsewhere(h, k, c, S)
  BY <1>1, <1>3, <1>5 DEF SameElsewhere
<1>16. \A m \in Keys \ S : nodes2[m] = nodes[m] /\ depth2[m] = depth[m]
  BY <1>1, <1>9, <1>13
<1>17. nodes2[a] = S BY <1>1, <1>13
<1>18. k.ok = h.ok BY <1>3, <1>5
<1> QED BY <1>5, <1>13, <1>14, <1>15, <1>16, <1>17, <1>18 DEF Grafted, CanGraft

\* The skews that GrownRight sets before a double rotation.
TiltedRight(h, n, a, y) ==
  [h EXCEPT !.skew[n] = IF h.skew[y] = "RIGHT" THEN "LEFT" ELSE "NONE",
            !.skew[a] = IF h.skew[y] = "LEFT" THEN "RIGHT" ELSE "NONE",
            !.skew[y] = "NONE"]

\* What two rotations leave: y over a and n, over x, y1, y2 and b.
DoublyRotatedRight(h, k, c, n, a, y, b) ==
  /\ k \in Heaps(Keys) /\ k.ok = h.ok
  /\ At(k, c) = y /\ SameElsewhere(h, k, c, {n, a, y})
  /\ k.right[a] = h.right[a] /\ k.left[a] = h.right[y]
  /\ k.right[n] = h.left[y] /\ k.left[n] = b
  /\ k.right[y] = a /\ k.left[y] = n
  /\ k.skew[y] = "NONE"
  /\ k.skew[n] = IF h.skew[y] = "RIGHT" THEN "LEFT" ELSE "NONE"
  /\ k.skew[a] = IF h.skew[y] = "LEFT" THEN "RIGHT" ELSE "NONE"

\* Two rotations, on the links alone.
LEMMA DoubleRotationRightLinks ==
  ASSUME NEW h \in Heaps(Keys), NEW c \in Cells(Keys),
         NEW n \in Keys, NEW a \in Keys, NEW y \in Keys, NEW b,
         n = At(h, c), a = h.right[n], b = h.left[n], y = h.left[a],
         n # a, a # y, n # y, Clear(c, {n, a, y}),
         NEW k, k = RotateLeft(RotateRight(TiltedRight(h, n, a, y), RightOf(n)), c)
  PROVE  DoublyRotatedRight(h, k, c, n, a, y, b)
<1> DEFINE g == TiltedRight(h, n, a, y)
           f == RotateRight(g, RightOf(n))
<1>1. /\ g \in Heaps(Keys) /\ g.ok = h.ok /\ g.root = h.root /\ g.right = h.right /\ g.left = h.left
      /\ g.skew[y] = "NONE"
      /\ g.skew[n] = IF h.skew[y] = "RIGHT" THEN "LEFT" ELSE "NONE"
      /\ g.skew[a] = IF h.skew[y] = "LEFT" THEN "RIGHT" ELSE "NONE"
      /\ \A m \in Keys \ {n, a, y} : g.skew[m] = h.skew[m]
  <2> DEFINE ofn == IF h.skew[y] = "RIGHT" THEN "LEFT" ELSE "NONE"
             ofa == IF h.skew[y] = "LEFT" THEN "RIGHT" ELSE "NONE"
             skews == [h.skew EXCEPT ![n] = ofn, ![a] = ofa, ![y] = "NONE"]
  <2>1. h.skew \in [Keys -> {"NONE", "LEFT", "RIGHT"}] BY DEF Heaps
  <2>2. ofn \in {"NONE", "LEFT", "RIGHT"} /\ ofa \in {"NONE", "LEFT", "RIGHT"} OBVIOUS
  <2>3. g = [root |-> h.root, left |-> h.left, right |-> h.right, skew |-> skews, ok |-> h.ok]
    <3>1. PICK root, left, right, skew, ok :
            h = [root |-> root, left |-> left, right |-> right, skew |-> skew, ok |-> ok]
      BY DEF Heaps
    <3>2. h.root = root /\ h.left = left /\ h.right = right /\ h.skew = skew /\ h.ok = ok BY ONLY <3>1
    <3> DEFINE Tilt(s) == [root |-> root, left |-> left, right |-> right, skew |-> s, ok |-> ok]
               s1 == [skew EXCEPT ![n] = ofn]
               s2 == [s1 EXCEPT ![a] = ofa]
    <3>3. g = [Tilt(skew) EXCEPT !.skew[n] = ofn, !.skew[a] = ofa, !.skew[y] = "NONE"]
      BY ONLY <3>1, <3>2 DEF TiltedRight
    <3> HIDE DEF ofn, ofa, g
    <3>4. [Tilt(skew) EXCEPT !.skew[n] = ofn] = Tilt(s1) OBVIOUS
    <3>5. [Tilt(s1) EXCEPT !.skew[a] = ofa] = Tilt(s2) OBVIOUS
    <3>6. [Tilt(s2) EXCEPT !.skew[y] = "NONE"] = Tilt([s2 EXCEPT ![y] = "NONE"]) OBVIOUS
    <3> QED BY ONLY <3>2, <3>3, <3>4, <3>5, <3>6
  <2> HIDE DEF ofn, ofa
  <2>4. /\ skews \in [Keys -> {"NONE", "LEFT", "RIGHT"}]
        /\ skews[y] = "NONE" /\ skews[n] = ofn /\ skews[a] = ofa
        /\ \A m \in Keys \ {n, a, y} : skews[m] = h.skew[m]
    BY ONLY n \in Keys, a \in Keys, y \in Keys, n # a, a # y, n # y, <2>1, <2>2
  <2> HIDE DEF skews, g
  <2>5. g \in Heaps(Keys) BY <2>3, <2>4 DEF Heaps
  <2> QED BY ONLY <2>3, <2>4, <2>5 DEF ofn, ofa
<1>2. k = RotateLeft(f, c) OBVIOUS
<1> HIDE DEF g, f
<1>3. RotatedRight(g, f, RightOf(n), a, y)
  <2>1. RightOf(n) \in Cells(Keys) BY DEF Cells
  <2>2. At(g, RightOf(n)) = a BY <1>1 DEF At, RightOf
  <2>3. Clear(RightOf(n), {a, y}) BY DEF Clear, RightOf
  <2>4. CanRotate(g, RightOf(n), a, y, g.left[a]) BY <1>1, <2>2, <2>3 DEF CanRotate
  <2> QED BY <1>1, <2>1, <2>4, RotateRightFacts DEF f
<1>4. c # RightOf(n) /\ c # RightOf(a) /\ c # LeftOf(a) /\ c # RightOf(y) /\ c # LeftOf(y) /\ c # LeftOf(n)
  BY DEF Clear, RootCell, RightOf, LeftOf
<1>5. /\ f \in Heaps(Keys) /\ f.ok = h.ok /\ f.skew = g.skew /\ f.root = h.root
      /\ f.right[n] = y /\ f.left[n] = b
      /\ f.right[a] = h.right[a] /\ f.left[a] = h.right[y]
      /\ f.right[y] = a /\ f.left[y] = h.left[y]
      /\ \A m \in Keys \ {n, a, y} : f.right[m] = h.right[m] /\ f.left[m] = h.left[m]
  <2>1. RightOf(n) # RootCell /\ RightOf(n) # LeftOf(n) BY DEF RightOf, LeftOf, RootCell
  <2>2. \A m \in Keys : m # n => RightOf(n) # RightOf(m) BY DEF RightOf
  <2>3. \A m \in Keys : RightOf(n) # LeftOf(m) BY DEF RightOf, LeftOf
  <2>4. At(f, RightOf(n)) = f.right[n] BY DEF At, RightOf
  <2> QED BY <1>1, <1>3, <2>1, <2>2, <2>3, <2>4 DEF RotatedRight, SameElsewhere
<1>6. At(f, c) = n
  <2>1. SameElsewhere(g, f, RightOf(n), {a, y}) BY <1>3 DEF RotatedRight
  <2>2. RightOf(n) \in Cells(Keys) /\ RightOf(n) # RootCell BY DEF Cells, RightOf, RootCell
  <2>3. Clear(c, {a, y}) BY DEF Clear
  <2>4. At(f, c) = At(g, c) BY <1>4, <2>1, <2>2, <2>3, AtElsewhere
  <2>5. At(g, c) = At(h, c) BY ONLY <1>1 DEF At
  <2> QED BY <2>4, <2>5
<1>7. RotatedLeft(f, k, c, n, y)
  <2>1. Clear(c, {n, y}) BY DEF Clear
  <2>2. CanRotate(f, c, n, y, f.right[n]) BY <1>5, <1>6, <2>1 DEF CanRotate
  <2> QED BY <1>2, <1>5, <2>2, RotateLeftFacts
<1>8. /\ k \in Heaps(Keys) /\ k.ok = h.ok /\ At(k, c) = y /\ k.skew = g.skew
      /\ k.right[n] = h.left[y] /\ k.left[n] = b /\ k.right[y] = a /\ k.left[y] = n
  BY <1>5, <1>7 DEF RotatedLeft
<1>9. k.right[a] = h.right[a] /\ k.left[a] = h.right[y]
  BY <1>4, <1>5, <1>7 DEF RotatedLeft, SameElsewhere
<1>10. SameElsewhere(h, k, c, {n, a, y})
  <2>1. SameElsewhere(f, k, c, {n, y}) BY <1>7 DEF RotatedLeft
  <2>2. c # RootCell => k.root = h.root BY <1>5, <2>1 DEF SameElsewhere
  <2>3. ASSUME NEW m \in Keys \ {n, a, y}
        PROVE  /\ k.skew[m] = h.skew[m]
               /\ c # RightOf(m) => k.right[m] = h.right[m]
               /\ c # LeftOf(m) => k.left[m] = h.left[m]
    <3>1. f.right[m] = h.right[m] /\ f.left[m] = h.left[m] BY ONLY <1>5, <2>3
    <3>2. g.skew[m] = h.skew[m] BY ONLY <1>1, <2>3
    <3>3. c # RightOf(m) => k.right[m] = f.right[m] BY <2>1, <2>3 DEF SameElsewhere
    <3>4. c # LeftOf(m) => k.left[m] = f.left[m] BY <2>1, <2>3 DEF SameElsewhere
    <3>5. k.skew = g.skew BY <1>8
    <3> QED BY ONLY <3>1, <3>2, <3>3, <3>4, <3>5
  <2> QED BY ONLY <2>2, <2>3 DEF SameElsewhere
<1> QED BY <1>1, <1>8, <1>9, <1>10 DEF DoublyRotatedRight

\* The inner subtree of the child is the deeper one: a double rotation.
LEMMA DoubleRotationRight ==
  ASSUME NEW h \in Heaps(Keys), NEW nodes, NEW depth, NEW c \in Cells(Keys),
         NEW n \in Keys, NEW a \in Keys, NEW b, NEW S, GrewRight(h, nodes, depth, c, n, a, b, S),
         h.skew[n] = "RIGHT", h.skew[a] = "LEFT", NEW y, y = h.left[a],
         NEW k, k = RotateLeft(RotateRight(TiltedRight(h, n, a, y), RightOf(n)), c)
  PROVE  /\ y # Null
         /\ CanGraft(h, nodes, depth, c, k, S, depth[a])
<1> DEFINE x == h.right[a]
           y1 == h.right[y]
           y2 == h.left[y]
           X == Below(nodes, x)
           Y1 == Below(nodes, y1)
           Y2 == Below(nodes, y2)
           B == Below(nodes, b)
<1>1. PartsRight(h, nodes, depth, n, a, b, S, x, y) BY RightParts
<1>2. /\ x \in Pointers /\ y \in Pointers /\ b \in Pointers
      /\ Tree(h, nodes, depth, x) /\ Tree(h, nodes, depth, y) /\ Tree(h, nodes, depth, b)
      /\ S = {n, a} \cup X \cup Below(nodes, y) \cup B
      /\ X \subseteq Keys /\ B \subseteq Keys
      /\ Depth(depth, x) \in Nat /\ Depth(depth, y) \in Nat /\ Depth(depth, b) \in Nat
      /\ More(X, a) /\ Less(Below(nodes, y), a) /\ More(Below(nodes, y), n) /\ Less(B, n) /\ n < a
      /\ depth[a] = 1 + Deeper(Depth(depth, y), Depth(depth, x))
      /\ depth[a] = Depth(depth, b) + 2
      /\ Tells(h.skew[a], Depth(depth, y), Depth(depth, x))
  BY <1>1 DEF PartsRight
<1>3. IsGhost(nodes, depth) /\ n = At(h, c) /\ a = h.right[n] /\ b = h.left[n] /\ Clear(c, S)
  BY DEF GrewRight
<1>4. y \in Keys /\ Below(nodes, y) = nodes[y] /\ Depth(depth, y) = depth[y]
  <2>1. Depth(depth, y) = Depth(depth, x) + 1 BY <1>2 DEF Tells
  <2>2. y # Null BY <1>2, <2>1 DEF Depth
  <2> QED BY <1>2, <2>2 DEF Below, Depth, Pointers
<1>5. /\ y1 \in Pointers /\ y2 \in Pointers
      /\ Tree(h, nodes, depth, y1) /\ Tree(h, nodes, depth, y2)
      /\ nodes[y] = {y} \cup Y1 \cup Y2 /\ More(Y1, y) /\ Less(Y2, y)
      /\ depth[y] = 1 + Deeper(Depth(depth, y2), Depth(depth, y1))
      /\ Tells(h.skew[y], Depth(depth, y2), Depth(depth, y1))
      /\ Y1 \subseteq Keys /\ Y2 \subseteq Keys
      /\ Depth(depth, y1) \in Nat /\ Depth(depth, y2) \in Nat
  <2>1. Sound(h, nodes, depth, y) /\ Tree(h, nodes, depth, y1) /\ Tree(h, nodes, depth, y2)
    BY <1>2, <1>3, <1>4, ChildrenAreTrees
  <2>2. y1 \in Pointers /\ y2 \in Pointers BY <1>4, Links
  <2>3. /\ Y1 \subseteq Keys /\ Y2 \subseteq Keys
        /\ Depth(depth, y1) \in Nat /\ Depth(depth, y2) \in Nat
    BY <1>3, <2>2, GhostTypes
  <2> QED BY <2>1, <2>2, <2>3 DEF Sound
<1>6. y < a /\ n < y /\ n # a /\ a # y /\ n # y
  <2>1. y \in nodes[y] BY <1>4, <1>5
  <2>2. y < a /\ n < y BY <1>2, <1>4, <2>1 DEF More, Less
  <2> QED BY <1>2, <1>4, <2>2, NullIsNoKey
<1>7. S = {n, a, y} \cup X \cup Y1 \cup Y2 \cup B BY ONLY <1>2, <1>4, <1>5
<1>8. /\ More(X, a) /\ More(Y1, y) /\ Less(Y1, a) /\ Less(Y2, y) /\ More(Y2, n) /\ Less(B, n)
      /\ Less(Y2, a) /\ More(Y1, n)
  BY ONLY <1>2, <1>4, <1>5 DEF More, Less
<1> HIDE DEF x, y1, y2, X, Y1, Y2, B
<1>9. /\ k \in Heaps(Keys) /\ k.ok = h.ok
      /\ At(k, c) = y /\ SameElsewhere(h, k, c, {n, a, y})
      /\ k.right[a] = x /\ k.left[a] = y1 /\ k.right[n] = y2 /\ k.left[n] = b
      /\ k.right[y] = a /\ k.left[y] = n /\ k.skew[y] = "NONE"
      /\ k.skew[n] = IF h.skew[y] = "RIGHT" THEN "LEFT" ELSE "NONE"
      /\ k.skew[a] = IF h.skew[y] = "LEFT" THEN "RIGHT" ELSE "NONE"
  <2>1. Clear(c, {n, a, y}) BY <1>3, <1>7 DEF Clear
  <2>2. DoublyRotatedRight(h, k, c, n, a, y, b)
    BY <1>3, <1>4, <1>6, <2>1, DoubleRotationRightLinks
  <2> QED BY <2>2 DEF DoublyRotatedRight, x, y1, y2
<1>10. \A m \in X \cup Y1 \cup Y2 \cup B : m \in Keys /\ m # n /\ m # a /\ m # y
  <2>1. \A m \in X : a < m /\ m \in Nat BY <1>2, <1>8, NullIsNoKey DEF More
  <2>2. \A m \in Y1 : m < a /\ y < m /\ m \in Nat BY <1>5, <1>8, NullIsNoKey DEF More, Less
  <2>3. \A m \in Y2 : m < y /\ n < m /\ m \in Nat BY <1>5, <1>8, NullIsNoKey DEF More, Less
  <2>4. \A m \in B : m < n /\ m \in Nat BY <1>2, <1>8, NullIsNoKey DEF Less
  <2>5. a \in Nat /\ y \in Nat /\ n \in Nat BY <1>4, NullIsNoKey
  <2>6. X \subseteq Keys /\ Y1 \subseteq Keys /\ Y2 \subseteq Keys /\ B \subseteq Keys BY <1>2, <1>5
  <2> QED BY ONLY <1>6, <2>1, <2>2, <2>3, <2>4, <2>5, <2>6
<1>11. ASSUME NEW m \in X \cup Y1 \cup Y2 \cup B
       PROVE  k.right[m] = h.right[m] /\ k.left[m] = h.left[m] /\ k.skew[m] = h.skew[m]
  <2>1. c # RightOf(m) /\ c # LeftOf(m)
    BY <1>3, <1>7 DEF Clear, RootCell, RightOf, LeftOf
  <2> QED BY <1>9, <1>10, <2>1 DEF SameElsewhere
<1>12. /\ Depth(depth, x) = Depth(depth, b) /\ Depth(depth, b) \in Nat
       /\ depth[a] = Depth(depth, b) + 2
       /\ Deeper(Depth(depth, y2), Depth(depth, y1)) = Depth(depth, b)
  <2>1. Depth(depth, y) = Depth(depth, x) + 1 BY <1>2 DEF Tells
  <2>2. Depth(depth, x) \in Nat /\ Depth(depth, y) \in Nat /\ Depth(depth, b) \in Nat BY <1>2
  <2>3. depth[a] = 1 + Depth(depth, y) BY <1>2, <2>1, <2>2 DEF Deeper
  <2>4. depth[a] = Depth(depth, b) + 2 BY <1>2
  <2>5. depth[y] = 1 + Deeper(Depth(depth, y2), Depth(depth, y1)) BY <1>5
  <2>6. Deeper(Depth(depth, y2), Depth(depth, y1)) \in Nat BY <1>5 DEF Deeper
  <2>7. Depth(depth, y) = Depth(depth, b) + 1 BY ONLY <2>2, <2>3, <2>4
  <2>8. Depth(depth, x) = Depth(depth, b) BY ONLY <2>1, <2>2, <2>7
  <2>9. Depth(depth, y) = 1 + Deeper(Depth(depth, y2), Depth(depth, y1)) BY <1>4, <2>5
  <2>10. Deeper(Depth(depth, y2), Depth(depth, y1)) = Depth(depth, b)
    BY ONLY <2>2, <2>6, <2>7, <2>9
  <2> QED BY ONLY <2>2, <2>4, <2>8, <2>10
<1> DEFINE nodes1 == NodesOver(nodes, a, y1, x)
           depth1 == DepthOver(depth, a, y1, x)
<1>13. Joined(k, nodes, depth, a, y1, x, nodes1, depth1)
  <2>1. Tells(k.skew[a], Depth(depth, y1), Depth(depth, x))
    BY <1>5, <1>9, <1>12 DEF Tells, Deeper
  <2>2. \A m \in X \cup Y1 :
          k.right[m] = h.right[m] /\ k.left[m] = h.left[m] /\ k.skew[m] = h.skew[m]
    BY <1>11
  <2>3. CanJoin(h, k, nodes, depth, a, y1, x)
    <3>1. h \in Heaps(Keys) /\ k \in Heaps(Keys) /\ IsGhost(nodes, depth) /\ a \in Keys BY <1>3, <1>9
    <3>2. Tree(h, nodes, depth, x) /\ Tree(h, nodes, depth, y1) BY <1>2, <1>5
    <3>3. k.right[a] = x /\ k.left[a] = y1 BY <1>9
    <3>4. X = Below(nodes, x) /\ Y1 = Below(nodes, y1) BY DEF X, Y1
    <3>5. More(X, a) /\ Less(Y1, a) BY <1>8
    <3> QED BY ONLY <2>1, <2>2, <3>1, <3>2, <3>3, <3>4, <3>5 DEF CanJoin
  <2> QED BY <2>3, JoinUnder
<1> HIDE DEF nodes1, depth1
<1>14. /\ IsGhost(nodes1, depth1) /\ Tree(k, nodes1, depth1, a)
       /\ nodes1[a] = {a} \cup X \cup Y1
       /\ depth1[a] = 1 + Deeper(Depth(depth, y1), Depth(depth, x))
       /\ \A m \in Keys \ {a} : nodes1[m] = nodes[m] /\ depth1[m] = depth[m]
  BY <1>13 DEF Joined, X, Y1
<1>15. /\ Tree(k, nodes1, depth1, y2) /\ Below(nodes1, y2) = Y2 /\ Depth(depth1, y2) = Depth(depth, y2)
  <2>1. \A m \in Y2 : /\ k.right[m] = h.right[m] /\ k.left[m] = h.left[m] /\ k.skew[m] = h.skew[m]
                      /\ nodes1[m] = nodes[m] /\ depth1[m] = depth[m]
    BY <1>10, <1>11, <1>14
  <2>2. Tree(h, nodes, depth, y2) BY <1>5
  <2>3. IsGhost(nodes, depth) /\ IsGhost(nodes1, depth1) /\ k \in Heaps(Keys) /\ h \in Heaps(Keys)
    BY <1>3, <1>9, <1>14
  <2>4. Y2 = Below(nodes, y2) BY DEF Y2
  <2> QED BY ONLY <2>1, <2>2, <2>3, <2>4, TreeStays
<1>16. /\ Tree(k, nodes1, depth1, b) /\ Below(nodes1, b) = B /\ Depth(depth1, b) = Depth(depth, b)
  <2>1. \A m \in B : /\ k.right[m] = h.right[m] /\ k.left[m] = h.left[m] /\ k.skew[m] = h.skew[m]
                     /\ nodes1[m] = nodes[m] /\ depth1[m] = depth[m]
    BY <1>10, <1>11, <1>14
  <2>2. Tree(h, nodes, depth, b) BY <1>2
  <2>3. IsGhost(nodes, depth) /\ IsGhost(nodes1, depth1) /\ k \in Heaps(Keys) /\ h \in Heaps(Keys)
    BY <1>3, <1>9, <1>14
  <2>4. B = Below(nodes, b) BY DEF B
  <2> QED BY ONLY <2>1, <2>2, <2>3, <2>4, TreeStays
<1> DEFINE nodes2 == NodesOver(nodes1, n, b, y2)
           depth2 == DepthOver(depth1, n, b, y2)
<1>17. Joined(k, nodes1, depth1, n, b, y2, nodes2, depth2)
  <2>1. Tells(k.skew[n], Depth(depth1, b), Depth(depth1, y2))
    BY <1>5, <1>9, <1>12, <1>15, <1>16 DEF Tells, Deeper
  <2>2. CanJoin(k, k, nodes1, depth1, n, b, y2)
    BY <1>8, <1>9, <1>14, <1>15, <1>16, <2>1 DEF CanJoin
  <2> QED BY <2>2, JoinUnder
<1> HIDE DEF nodes2, depth2
<1>18. /\ IsGhost(nodes2, depth2) /\ Tree(k, nodes2, depth2, n)
       /\ nodes2[n] = {n} \cup Y2 \cup B
       /\ depth2[n] = 1 + Deeper(Depth(depth, b), Depth(depth, y2))
       /\ \A m \in Keys \ {n} : nodes2[m] = nodes1[m] /\ depth2[m] = depth1[m]
  BY <1>15, <1>16, <1>17 DEF Joined
<1>19. /\ Below(nodes1, a) = nodes1[a] /\ Depth(depth1, a) = depth1[a]
       /\ Below(nodes2, a) = nodes2[a] /\ Depth(depth2, a) = depth2[a]
       /\ Below(nodes2, n) = nodes2[n] /\ Depth(depth2, n) = depth2[n]
  BY NullIsNoKey DEF Below, Depth
<1>20. /\ Tree(k, nodes2, depth2, a) /\ nodes2[a] = nodes1[a] /\ depth2[a] = depth1[a]
  <2>1. n \notin nodes1[a] /\ nodes1[a] \subseteq Keys BY <1>2, <1>5, <1>6, <1>10, <1>14
  <2>2. \A m \in Below(nodes1, a) :
          /\ k.right[m] = k.right[m] /\ k.left[m] = k.left[m] /\ k.skew[m] = k.skew[m]
          /\ nodes2[m] = nodes1[m] /\ depth2[m] = depth1[m]
    BY ONLY <1>18, <1>19, <2>1
  <2> QED BY <1>9, <1>14, <1>18, <1>19, <2>2, TreeStays
<1> DEFINE nodes3 == NodesOver(nodes2, y, n, a)
           depth3 == DepthOver(depth2, y, n, a)
<1>21. depth2[a] = Depth(depth, b) + 1 /\ depth2[n] = Depth(depth, b) + 1
  <2>1. Deeper(Depth(depth, y1), Depth(depth, x)) = Depth(depth, b)
    BY ONLY <1>5, <1>12 DEF Deeper
  <2>2. Deeper(Depth(depth, b), Depth(depth, y2)) = Depth(depth, b)
    BY ONLY <1>5, <1>12 DEF Deeper
  <2> QED BY ONLY <1>12, <1>14, <1>18, <1>20, <2>1, <2>2
<1>22. Joined(k, nodes2, depth2, y, n, a, nodes3, depth3)
  <2>1. Tells(k.skew[y], Depth(depth2, n), Depth(depth2, a)) BY <1>9, <1>19, <1>21 DEF Tells
  <2>2. More(Below(nodes2, a), y) /\ Less(Below(nodes2, n), y)
    <3>1. Below(nodes2, a) = {a} \cup X \cup Y1 /\ Below(nodes2, n) = {n} \cup Y2 \cup B
      BY <1>14, <1>18, <1>19, <1>20
    <3>2. \A m \in X : y < m BY <1>2, <1>4, <1>6, <1>8, NullIsNoKey DEF More
    <3>3. \A m \in B : m < y BY <1>2, <1>4, <1>6, <1>8, NullIsNoKey DEF Less
    <3> QED BY ONLY <1>6, <1>8, <3>1, <3>2, <3>3 DEF More, Less
  <2>3. CanJoin(k, k, nodes2, depth2, y, n, a)
    BY <1>4, <1>9, <1>18, <1>20, <2>1, <2>2 DEF CanJoin
  <2> QED BY <2>3, JoinUnder
<1> HIDE DEF nodes3, depth3
<1>23. /\ IsGhost(nodes3, depth3) /\ Tree(k, nodes3, depth3, y)
       /\ nodes3[y] = {y} \cup nodes2[a] \cup nodes2[n]
       /\ depth3[y] = 1 + Deeper(depth2[n], depth2[a])
       /\ \A m \in Keys \ {y} : nodes3[m] = nodes2[m] /\ depth3[m] = depth2[m]
  BY <1>19, <1>22 DEF Joined
<1>24. nodes3[y] = S
  BY ONLY <1>7, <1>14, <1>18, <1>20, <1>23
<1>25. depth3[y] = depth[a] BY ONLY <1>12, <1>21, <1>23 DEF Deeper
<1>26. \A m \in Keys \ S : nodes3[m] = nodes[m] /\ depth3[m] = depth[m]
  BY ONLY <1>7, <1>14, <1>18, <1>23
<1>27. SameElsewhere(h, k, c, S) BY <1>7, <1>9 DEF SameElsewhere
<1>28. Grafted(h, nodes, depth, c, k, nodes3, depth3, S, depth[a])
  BY <1>4, <1>9, <1>23, <1>24, <1>25, <1>26, <1>27 DEF Grafted
<1> QED BY <1>4, <1>28, NullIsNoKey DEF CanGraft

\* GrownRight on a tree that has become deeper on the right.
LEMMA GrownRightFacts ==
  ASSUME NEW h \in Heaps(Keys), NEW nodes, NEW depth, NEW c \in Cells(Keys),
         NEW n \in Keys, NEW a \in Keys, NEW b, NEW S, GrewRight(h, nodes, depth, c, n, a, b, S),
         h.skew[n] = "RIGHT" => h.skew[a] # "NONE",
         NEW r, r = GrownRight(h, c)
  PROVE  /\ r.grown \in BOOLEAN
         /\ r.grown => r.tree.skew[At(r.tree, c)] # "NONE"
         /\ CanGraft(h, nodes, depth, c, r.tree, S,
                     1 + Deeper(Depth(depth, b), depth[a] - 1) + IF r.grown THEN 1 ELSE 0)
<1>1. /\ IsGhost(nodes, depth) /\ n = At(h, c) /\ a = h.right[n] /\ b = h.left[n]
      /\ Tells(h.skew[n], Depth(depth, b), depth[a] - 1)
  BY DEF GrewRight
<1>2. depth[a] \in Nat /\ Depth(depth, b) \in Nat
  <2>1. b \in Pointers BY DEF GrewRight, Tree
  <2> QED BY <1>1, <2>1, GhostTypes DEF IsGhost
<1>3. a # Null BY NullIsNoKey
<1>4. CASE h.skew[n] = "NONE"
  <2>1. r = Result([h EXCEPT !.skew[n] = "RIGHT"], TRUE) BY <1>1, <1>4 DEF GrownRight
  <2>2. r.grown = TRUE /\ r.tree = [h EXCEPT !.skew[n] = "RIGHT"] BY <2>1 DEF Result
  <2>3. depth[a] - 1 = Depth(depth, b) BY <1>1, <1>4 DEF Tells
  <2>4. "RIGHT" \in {"NONE", "RIGHT", "LEFT"} /\ Tells("RIGHT", Depth(depth, b), depth[a])
    BY <1>2, <2>3 DEF Tells
  <2>5. /\ At(r.tree, c) = n /\ r.tree.skew[n] = "RIGHT"
        /\ CanGraft(h, nodes, depth, c, r.tree, S, 1 + Deeper(Depth(depth, b), depth[a]))
    <3>1. Skewed(h, nodes, depth, c, r.tree, n, "RIGHT", S, 1 + Deeper(Depth(depth, b), depth[a]))
      BY <2>2, <2>4, SkewRightFacts
    <3> QED BY <3>1 DEF Skewed
  <2>6. 1 + Deeper(Depth(depth, b), depth[a])
          = 1 + Deeper(Depth(depth, b), depth[a] - 1) + IF r.grown THEN 1 ELSE 0
    BY <1>2, <2>2, <2>3 DEF Deeper
  <2> QED BY ONLY <2>2, <2>5, <2>6
<1>5. CASE h.skew[n] = "LEFT"
  <2>1. r = Result([h EXCEPT !.skew[n] = "NONE"], FALSE) BY <1>1, <1>5 DEF GrownRight
  <2>2. r.grown = FALSE /\ r.tree = [h EXCEPT !.skew[n] = "NONE"] BY <2>1 DEF Result
  <2>3. Depth(depth, b) = depth[a] BY <1>1, <1>2, <1>5 DEF Tells
  <2>4. "NONE" \in {"NONE", "RIGHT", "LEFT"} /\ Tells("NONE", Depth(depth, b), depth[a])
    BY <2>3 DEF Tells
  <2>5. CanGraft(h, nodes, depth, c, r.tree, S, 1 + Deeper(Depth(depth, b), depth[a]))
    <3>1. Skewed(h, nodes, depth, c, r.tree, n, "NONE", S, 1 + Deeper(Depth(depth, b), depth[a]))
      BY <2>2, <2>4, SkewRightFacts
    <3> QED BY <3>1 DEF Skewed
  <2>6. 1 + Deeper(Depth(depth, b), depth[a])
          = 1 + Deeper(Depth(depth, b), depth[a] - 1) + IF r.grown THEN 1 ELSE 0
    BY <1>2, <2>2, <2>3 DEF Deeper
  <2> QED BY ONLY <2>2, <2>5, <2>6
<1>6. CASE h.skew[n] = "RIGHT"
  <2>1. h.skew[a] = "RIGHT" \/ h.skew[a] = "LEFT" BY <1>6, Links
  <2>2. depth[a] - 1 = Depth(depth, b) + 1 BY <1>1, <1>6 DEF Tells
  <2>3. depth[a] = 1 + Deeper(Depth(depth, b), depth[a] - 1) + 0 BY <1>2, <2>2 DEF Deeper
  <2>4. CASE h.skew[a] = "RIGHT"
    <3>1. r = Result(RotateLeft([h EXCEPT !.skew[n] = "NONE", !.skew[a] = "NONE"], c), FALSE)
      BY <1>1, <1>3, <1>6, <2>4 DEF GrownRight
    <3>2. r.grown = FALSE /\ r.tree = RotateLeft([h EXCEPT !.skew[n] = "NONE", !.skew[a] = "NONE"], c)
      BY <3>1 DEF Result
    <3>3. CanGraft(h, nodes, depth, c, r.tree, S, depth[a])
      BY <1>6, <2>4, <3>2, SingleRotationRight
    <3> QED BY ONLY <2>3, <3>2, <3>3
  <2>5. CASE h.skew[a] = "LEFT"
    <3> DEFINE y == h.left[a]
    <3>1. /\ y # Null
          /\ CanGraft(h, nodes, depth, c, RotateLeft(RotateRight(TiltedRight(h, n, a, y), RightOf(n)), c),
                      S, depth[a])
      BY <1>6, <2>5, DoubleRotationRight
    <3>2. r = Result(RotateLeft(RotateRight(TiltedRight(h, n, a, y), RightOf(n)), c), FALSE)
      BY <1>1, <1>3, <1>6, <2>5, <3>1 DEF GrownRight, TiltedRight
    <3>3. r.grown = FALSE /\ r.tree = RotateLeft(RotateRight(TiltedRight(h, n, a, y), RightOf(n)), c)
      BY <3>2 DEF Result
    <3> QED BY ONLY <2>3, <3>1, <3>3
  <2> QED BY <2>1, <2>4, <2>5
<1> QED BY <1>4, <1>5, <1>6, Links

-----------------------------------------------------------------------------
(* _avl_add.                                                               *)

\* A node as null_avl_node leaves it.
Fresh(h, node) ==
  node \in Keys /\ h.left[node] = Null /\ h.right[node] = Null /\ h.skew[node] = "NONE"

\* A fresh node can go to the tree in a cell.
CanAdd(h, nodes, depth, c, node) ==
  /\ h \in Heaps(Keys) /\ IsGhost(nodes, depth) /\ c \in Cells(Keys) /\ Fresh(h, node)
  /\ Tree(h, nodes, depth, At(h, c)) /\ node \notin Below(nodes, At(h, c))
  /\ Clear(c, Below(nodes, At(h, c)) \cup {node})

\* It is there, nothing else is changed, and the answer is whether the tree
\* became deeper; a tree that did, and was one before, leans to a side.
Added(h, nodes, depth, c, node, r) ==
  /\ r.grown \in BOOLEAN
  /\ CanGraft(h, nodes, depth, c, r.tree, Below(nodes, At(h, c)) \cup {node},
              Depth(depth, At(h, c)) + IF r.grown THEN 1 ELSE 0)
  /\ r.grown /\ At(h, c) # Null => r.tree.skew[At(r.tree, c)] # "NONE"

\* The node is put into an empty cell.
LEMMA AddToEmptyCell ==
  ASSUME NEW h, NEW nodes, NEW depth, NEW c, NEW node, CanAdd(h, nodes, depth, c, node),
         At(h, c) = Null
  PROVE  Added(h, nodes, depth, c, node, Result(Store(h, c, node), TRUE))
<1> DEFINE k == Store(h, c, node)
           nodes2 == NodesOver(nodes, node, Null, Null)
           depth2 == DepthOver(depth, node, Null, Null)
<1>1. /\ h \in Heaps(Keys) /\ IsGhost(nodes, depth) /\ c \in Cells(Keys) /\ node \in Keys
      /\ h.left[node] = Null /\ h.right[node] = Null /\ h.skew[node] = "NONE"
      /\ Clear(c, {node})
  BY DEF CanAdd, Fresh, Clear
<1>2. /\ k \in Heaps(Keys) /\ At(k, c) = node /\ k.skew = h.skew /\ k.ok = h.ok
      /\ c # RootCell => k.root = h.root
      /\ \A n \in Keys : /\ k.left[n] = IF c = LeftOf(n) THEN node ELSE h.left[n]
                         /\ k.right[n] = IF c = RightOf(n) THEN node ELSE h.right[n]
  BY <1>1, StoreFacts DEF Pointers
<1> HIDE DEF k
<1>3. c # LeftOf(node) /\ c # RightOf(node)
  BY <1>1 DEF Clear, RootCell, LeftOf, RightOf
<1>4. k.left[node] = Null /\ k.right[node] = Null /\ k.skew[node] = "NONE" BY <1>1, <1>2, <1>3
<1>5. /\ Below(nodes, Null) = {} /\ Depth(depth, Null) = 0 /\ Tree(h, nodes, depth, Null)
      /\ Less({}, node) /\ More({}, node) /\ Tells("NONE", 0, 0)
  BY DEF Below, Depth, Tree, Pointers, Less, More, Tells
<1>6. Joined(k, nodes, depth, node, Null, Null, nodes2, depth2)
  <2>1. CanJoin(h, k, nodes, depth, node, Null, Null) BY <1>1, <1>2, <1>4, <1>5 DEF CanJoin
  <2> QED BY <2>1, JoinUnder
<1> HIDE DEF nodes2, depth2
<1>7. /\ IsGhost(nodes2, depth2) /\ Tree(k, nodes2, depth2, node)
      /\ nodes2[node] = {node} /\ depth2[node] = 1
      /\ \A m \in Keys \ {node} : nodes2[m] = nodes[m] /\ depth2[m] = depth[m]
  BY <1>5, <1>6 DEF Joined, Deeper
<1>8. SameElsewhere(h, k, c, {node}) BY <1>2 DEF SameElsewhere
<1>9. Grafted(h, nodes, depth, c, k, nodes2, depth2, {node}, 1)
  BY <1>1, <1>2, <1>7, <1>8 DEF Grafted
<1>10. CanGraft(h, nodes, depth, c, k, Below(nodes, Null) \cup {node}, Depth(depth, Null) + 1)
  BY <1>5, <1>9 DEF CanGraft
<1>11. Result(k, TRUE).tree = k /\ Result(k, TRUE).grown = TRUE BY DEF Result
<1> QED BY <1>10, <1>11 DEF Added, k

\* An insertion goes on to the left.
LEMMA DescendLeft ==
  ASSUME NEW h, NEW nodes, NEW depth, NEW c, NEW node, CanAdd(h, nodes, depth, c, node),
         NEW n \in Keys, n = At(h, c), node < n
  PROVE  CanAdd(h, nodes, depth, LeftOf(n), node)
<1> USE DEF CanAdd
<1>1. Sound(h, nodes, depth, n) /\ Tree(h, nodes, depth, h.left[n]) BY ChildrenAreTrees
<1>2. At(h, LeftOf(n)) = h.left[n] BY DEF At, LeftOf
<1>3. LeftOf(n) \in Cells(Keys) /\ LeftOf(n).node = n BY DEF Cells, LeftOf
<1>4. Below(nodes, n) = nodes[n] BY NullIsNoKey DEF Below
<1>5. Below(nodes, h.left[n]) \subseteq nodes[n] /\ Less(Below(nodes, h.left[n]), n)
  BY <1>1 DEF Sound
<1>6. n \notin Below(nodes, h.left[n]) /\ n # node
  BY <1>5, NullIsNoKey DEF Less, Fresh
<1> QED BY <1>1, <1>2, <1>3, <1>4, <1>5, <1>6 DEF Clear

\* An insertion comes back from the left.
LEMMA ReturnLeft ==
  ASSUME NEW h, NEW nodes, NEW depth, NEW c, NEW node, CanAdd(h, nodes, depth, c, node),
         NEW n \in Keys, n = At(h, c), node < n,
         NEW below, Added(h, nodes, depth, LeftOf(n), node, below),
         NEW r, r = IF ~below.grown THEN below ELSE GrownLeft(below.tree, c)
  PROVE  Added(h, nodes, depth, c, node, r)
<1> DEFINE l == h.left[n]
           b == h.right[n]
           t == below.tree
           a == At(t, LeftOf(n))
           S == nodes[n] \cup {node}
           S1 == Below(nodes, l) \cup {node}
<1>1. /\ h \in Heaps(Keys) /\ IsGhost(nodes, depth) /\ c \in Cells(Keys) /\ node \in Keys
      /\ Tree(h, nodes, depth, n) /\ node \notin nodes[n] /\ Clear(c, S) /\ Below(nodes, n) = nodes[n]
      /\ Depth(depth, n) = depth[n]
  BY NullIsNoKey DEF CanAdd, Fresh, Below, Depth
<1>2. /\ nodes[n] = {n} \cup Below(nodes, l) \cup Below(nodes, b)
      /\ Less(Below(nodes, l), n) /\ More(Below(nodes, b), n)
      /\ depth[n] = 1 + Deeper(Depth(depth, l), Depth(depth, b))
      /\ Tells(h.skew[n], Depth(depth, l), Depth(depth, b))
      /\ Tree(h, nodes, depth, l) /\ Tree(h, nodes, depth, b)
  BY <1>1, ChildrenAreTrees DEF Sound
<1>3. /\ l \in Pointers /\ b \in Pointers
      /\ Below(nodes, l) \subseteq Keys /\ Below(nodes, b) \subseteq Keys
      /\ Depth(depth, l) \in Nat /\ Depth(depth, b) \in Nat
  BY <1>1, <1>2, GhostTypes DEF Tree
<1>4. At(h, LeftOf(n)) = l /\ LeftOf(n) \in Cells(Keys) /\ a = t.left[n]
  BY DEF At, LeftOf, Cells
<1>5. /\ below.grown \in BOOLEAN
      /\ CanGraft(h, nodes, depth, LeftOf(n), t, S1, Depth(depth, l) + IF below.grown THEN 1 ELSE 0)
      /\ below.grown /\ l # Null => t.skew[a] # "NONE"
  BY <1>4 DEF Added
<1> HIDE DEF l, b, t, a
<1>6. PICK nodes2, depth2 :
        Grafted(h, nodes, depth, LeftOf(n), t, nodes2, depth2, S1,
                Depth(depth, l) + IF below.grown THEN 1 ELSE 0)
  BY <1>5 DEF CanGraft
<1>7. /\ t \in Heaps(Keys) /\ t.ok = h.ok /\ SameElsewhere(h, t, LeftOf(n), S1)
      /\ IsGhost(nodes2, depth2) /\ \A m \in Keys \ S1 : nodes2[m] = nodes[m] /\ depth2[m] = depth[m]
      /\ a \in Keys /\ Tree(t, nodes2, depth2, a) /\ nodes2[a] = S1
      /\ depth2[a] = Depth(depth, l) + IF below.grown THEN 1 ELSE 0
  BY <1>6 DEF Grafted, a
<1>8. n \notin S1 /\ \A m \in Below(nodes, b) : m \in Keys /\ m \notin S1 /\ m # n
  <2>1. n \in Nat /\ \A m \in Keys : m \in Nat BY NullIsNoKey
  <2>2. \A m \in Below(nodes, b) : n < m BY <1>2 DEF More
  <2>3. \A m \in Below(nodes, l) : m < n BY <1>2 DEF Less
  <2>4. node \notin Below(nodes, b) /\ Below(nodes, b) \subseteq Keys /\ Below(nodes, l) \subseteq Keys
    BY <1>1, <1>2, <1>3
  <2>5. node \in Nat /\ node < n BY <1>1, <2>1
  <2>6. n # node BY ONLY <2>1, <2>5
  <2>7. n \notin Below(nodes, l) BY ONLY <2>1, <2>3
  <2>8. ASSUME NEW m \in Below(nodes, b) PROVE m \in Keys /\ m # n /\ m # node /\ m \notin Below(nodes, l)
    <3>1. m \in Keys /\ m \in Nat /\ n < m /\ n \in Nat /\ m # node BY <2>1, <2>2, <2>4
    <3>2. m \in Below(nodes, l) => m < n BY <2>3
    <3> QED BY ONLY <3>1, <3>2
  <2> QED BY ONLY <2>6, <2>7, <2>8
<1>9. t.left[n] = a /\ t.right[n] = b /\ t.skew[n] = h.skew[n]
  <2>1. LeftOf(n) # RightOf(n) BY DEF LeftOf, RightOf
  <2> QED BY <1>4, <1>7, <1>8, <2>1 DEF SameElsewhere, b
<1>10. /\ Tree(t, nodes2, depth2, b) /\ Below(nodes2, b) = Below(nodes, b)
       /\ Depth(depth2, b) = Depth(depth, b)
  <2>1. \A m \in Keys : m # n => LeftOf(n) # LeftOf(m) BY DEF LeftOf
  <2>2. \A m \in Keys : LeftOf(n) # RightOf(m) BY DEF LeftOf, RightOf
  <2>3. \A m \in Below(nodes, b) :
          /\ t.left[m] = h.left[m] /\ t.right[m] = h.right[m] /\ t.skew[m] = h.skew[m]
          /\ nodes2[m] = nodes[m] /\ depth2[m] = depth[m]
    BY <1>7, <1>8, <2>1, <2>2 DEF SameElsewhere
  <2>4. /\ t \in Heaps(Keys) /\ h \in Heaps(Keys) /\ IsGhost(nodes, depth) /\ IsGhost(nodes2, depth2)
        /\ Tree(h, nodes, depth, b)
    BY <1>1, <1>2, <1>7
  <2> QED BY ONLY <2>3, <2>4, TreeStays
<1>11. At(t, c) = n
  <2>1. c # LeftOf(n) BY <1>1, <1>2 DEF Clear, RootCell, LeftOf
  <2>2. Clear(c, S1) BY <1>1, <1>2 DEF Clear
  <2>3. LeftOf(n) # RootCell BY DEF LeftOf, RootCell
  <2> QED BY <1>1, <1>4, <1>7, <2>1, <2>2, <2>3, AtElsewhere
<1>12. S = {n} \cup nodes2[a] \cup Below(nodes2, b) BY ONLY <1>2, <1>7, <1>10
<1>13. Less(nodes2[a], n) /\ More(Below(nodes2, b), n) BY <1>2, <1>7, <1>10 DEF Less
<1>14. \A m \in Keys \ S : nodes2[m] = nodes[m] /\ depth2[m] = depth[m] BY <1>2, <1>7
<1>15. SameElsewhere(h, t, c, S)
  <2>1. LeftOf(n) # RootCell BY DEF LeftOf, RootCell
  <2>2. \A m \in Keys : m # n => LeftOf(n) # LeftOf(m) BY DEF LeftOf
  <2>3. \A m \in Keys : LeftOf(n) # RightOf(m) BY DEF LeftOf, RightOf
  <2>4. \A m \in Keys \ S : m \in Keys \ S1 /\ m # n BY <1>2
  <2> QED BY ONLY <1>7, <2>1, <2>2, <2>3, <2>4 DEF SameElsewhere
<1> HIDE DEF S
<1>16. CASE ~below.grown
  <2> DEFINE nodes3 == NodesOver(nodes2, n, a, b)
             depth3 == DepthOver(depth2, n, a, b)
  <2>0. r = below BY <1>16
  <2>1. Below(nodes2, a) = nodes2[a] /\ Depth(depth2, a) = depth2[a] BY <1>7, NullIsNoKey DEF Below, Depth
  <2>2. depth2[a] = Depth(depth, l) BY <1>3, <1>7, <1>16
  <2>3. CanJoin(t, t, nodes2, depth2, n, a, b)
    BY <1>2, <1>7, <1>9, <1>10, <1>13, <2>1, <2>2 DEF CanJoin
  <2>4. Joined(t, nodes2, depth2, n, a, b, nodes3, depth3) BY <2>3, JoinUnder
  <2> HIDE DEF nodes3, depth3
  <2>5. /\ IsGhost(nodes3, depth3) /\ Tree(t, nodes3, depth3, n)
        /\ nodes3[n] = S /\ depth3[n] = depth[n]
        /\ \A m \in Keys \ {n} : nodes3[m] = nodes2[m] /\ depth3[m] = depth2[m]
    BY <1>2, <1>10, <1>12, <2>1, <2>2, <2>4 DEF Joined
  <2>6. \A m \in Keys \ S : nodes3[m] = nodes[m] /\ depth3[m] = depth[m] BY ONLY <1>12, <1>14, <2>5
  <2>7. depth[n] = depth[n] + IF r.grown THEN 1 ELSE 0 BY <1>1, <1>16, <2>0 DEF IsGhost
  <2>8. Grafted(h, nodes, depth, c, t, nodes3, depth3, S, depth[n])
    BY ONLY n \in Keys, <1>7, <1>11, <1>15, <2>5, <2>6 DEF Grafted
  <2>9. CanGraft(h, nodes, depth, c, r.tree, S, depth[n] + IF r.grown THEN 1 ELSE 0)
    BY ONLY <2>0, <2>7, <2>8 DEF CanGraft, t
  <2> QED BY <1>1, <1>5, <1>16, <2>0, <2>9 DEF Added, S
<1>17. CASE below.grown
  <2>1. r = GrownLeft(t, c) BY <1>17 DEF t
  <2>2. depth2[a] = Depth(depth, l) + 1 BY <1>7, <1>17
  <2>3. Tells(t.skew[n], depth2[a] - 1, Depth(depth2, b)) BY <1>2, <1>3, <1>9, <1>10, <2>2
  <2>4. GrewLeft(t, nodes2, depth2, c, n, a, b, S)
    BY <1>1, <1>7, <1>9, <1>10, <1>11, <1>12, <1>13, <2>3 DEF GrewLeft, S
  <2>5. t.skew[n] = "LEFT" => t.skew[a] # "NONE"
    <3>1. h.skew[n] = "LEFT" => Depth(depth, l) # 0 BY <1>2, <1>3 DEF Tells
    <3> QED BY <1>5, <1>9, <1>17, <3>1 DEF Depth
  <2>6. /\ r.grown \in BOOLEAN
        /\ r.grown => r.tree.skew[At(r.tree, c)] # "NONE"
        /\ CanGraft(t, nodes2, depth2, c, r.tree, S,
                    1 + Deeper(depth2[a] - 1, Depth(depth2, b)) + IF r.grown THEN 1 ELSE 0)
    BY ONLY <1>1, <1>7, <2>1, <2>4, <2>5, n \in Keys, GrownLeftFacts
  <2>7. 1 + Deeper(depth2[a] - 1, Depth(depth2, b)) = depth[n]
    <3>1. depth2[a] - 1 = Depth(depth, l) BY <1>3, <2>2
    <3> QED BY <1>2, <1>10, <3>1
  <2>8. PICK nodes3, depth3 :
          Grafted(t, nodes2, depth2, c, r.tree, nodes3, depth3, S, depth[n] + IF r.grown THEN 1 ELSE 0)
    BY ONLY <2>6, <2>7 DEF CanGraft
  <2>9. \A m \in Keys \ S : nodes3[m] = nodes[m] /\ depth3[m] = depth[m] BY <1>14, <2>8 DEF Grafted
  <2>10. SameElsewhere(h, r.tree, c, S)
    <3>1. SameElsewhere(t, r.tree, c, S) BY <2>8 DEF Grafted
    <3> QED BY ONLY <1>15, <3>1 DEF SameElsewhere
  <2>11. Grafted(h, nodes, depth, c, r.tree, nodes3, depth3, S, depth[n] + IF r.grown THEN 1 ELSE 0)
    BY <1>7, <2>8, <2>9, <2>10 DEF Grafted
  <2>12. CanGraft(h, nodes, depth, c, r.tree, S, depth[n] + IF r.grown THEN 1 ELSE 0)
    BY <2>11 DEF CanGraft
  <2>13. /\ Below(nodes, At(h, c)) \cup {node} = S /\ Depth(depth, At(h, c)) = depth[n]
    BY <1>1 DEF S
  <2>14. CanGraft(h, nodes, depth, c, r.tree, Below(nodes, At(h, c)) \cup {node},
                  Depth(depth, At(h, c)) + IF r.grown THEN 1 ELSE 0)
    BY ONLY <2>12, <2>13
  <2> QED BY ONLY <2>6, <2>14 DEF Added
<1> QED BY <1>5, <1>16, <1>17

\* An insertion goes on to the right.
LEMMA DescendRight ==
  ASSUME NEW h, NEW nodes, NEW depth, NEW c, NEW node, CanAdd(h, nodes, depth, c, node),
         NEW n \in Keys, n = At(h, c), n < node
  PROVE  CanAdd(h, nodes, depth, RightOf(n), node)
<1> USE DEF CanAdd
<1>1. Sound(h, nodes, depth, n) /\ Tree(h, nodes, depth, h.right[n]) BY ChildrenAreTrees
<1>2. At(h, RightOf(n)) = h.right[n] BY DEF At, RightOf
<1>3. RightOf(n) \in Cells(Keys) /\ RightOf(n).node = n BY DEF Cells, RightOf
<1>4. Below(nodes, n) = nodes[n] BY NullIsNoKey DEF Below
<1>5. Below(nodes, h.right[n]) \subseteq nodes[n] /\ More(Below(nodes, h.right[n]), n)
  BY <1>1 DEF Sound
<1>6. n \notin Below(nodes, h.right[n]) /\ n # node
  BY <1>5, NullIsNoKey DEF More, Fresh
<1> QED BY <1>1, <1>2, <1>3, <1>4, <1>5, <1>6 DEF Clear

\* An insertion comes back from the right.
LEMMA ReturnRight ==
  ASSUME NEW h, NEW nodes, NEW depth, NEW c, NEW node, CanAdd(h, nodes, depth, c, node),
         NEW n \in Keys, n = At(h, c), n < node,
         NEW below, Added(h, nodes, depth, RightOf(n), node, below),
         NEW r, r = IF ~below.grown THEN below ELSE GrownRight(below.tree, c)
  PROVE  Added(h, nodes, depth, c, node, r)
<1> DEFINE l == h.right[n]
           b == h.left[n]
           t == below.tree
           a == At(t, RightOf(n))
           S == nodes[n] \cup {node}
           S1 == Below(nodes, l) \cup {node}
<1>1. /\ h \in Heaps(Keys) /\ IsGhost(nodes, depth) /\ c \in Cells(Keys) /\ node \in Keys
      /\ Tree(h, nodes, depth, n) /\ node \notin nodes[n] /\ Clear(c, S) /\ Below(nodes, n) = nodes[n]
      /\ Depth(depth, n) = depth[n]
  BY NullIsNoKey DEF CanAdd, Fresh, Below, Depth
<1>2. /\ nodes[n] = {n} \cup Below(nodes, l) \cup Below(nodes, b)
      /\ More(Below(nodes, l), n) /\ Less(Below(nodes, b), n)
      /\ depth[n] = 1 + Deeper(Depth(depth, b), Depth(depth, l))
      /\ Tells(h.skew[n], Depth(depth, b), Depth(depth, l))
      /\ Tree(h, nodes, depth, l) /\ Tree(h, nodes, depth, b)
  BY <1>1, ChildrenAreTrees DEF Sound
<1>3. /\ l \in Pointers /\ b \in Pointers
      /\ Below(nodes, l) \subseteq Keys /\ Below(nodes, b) \subseteq Keys
      /\ Depth(depth, l) \in Nat /\ Depth(depth, b) \in Nat
  BY <1>1, <1>2, GhostTypes DEF Tree
<1>4. At(h, RightOf(n)) = l /\ RightOf(n) \in Cells(Keys) /\ a = t.right[n]
  BY DEF At, RightOf, Cells
<1>5. /\ below.grown \in BOOLEAN
      /\ CanGraft(h, nodes, depth, RightOf(n), t, S1, Depth(depth, l) + IF below.grown THEN 1 ELSE 0)
      /\ below.grown /\ l # Null => t.skew[a] # "NONE"
  BY <1>4 DEF Added
<1> HIDE DEF l, b, t, a
<1>6. PICK nodes2, depth2 :
        Grafted(h, nodes, depth, RightOf(n), t, nodes2, depth2, S1,
                Depth(depth, l) + IF below.grown THEN 1 ELSE 0)
  BY <1>5 DEF CanGraft
<1>7. /\ t \in Heaps(Keys) /\ t.ok = h.ok /\ SameElsewhere(h, t, RightOf(n), S1)
      /\ IsGhost(nodes2, depth2) /\ \A m \in Keys \ S1 : nodes2[m] = nodes[m] /\ depth2[m] = depth[m]
      /\ a \in Keys /\ Tree(t, nodes2, depth2, a) /\ nodes2[a] = S1
      /\ depth2[a] = Depth(depth, l) + IF below.grown THEN 1 ELSE 0
  BY <1>6 DEF Grafted, a
<1>8. n \notin S1 /\ \A m \in Below(nodes, b) : m \in Keys /\ m \notin S1 /\ m # n
  <2>1. n \in Nat /\ \A m \in Keys : m \in Nat BY NullIsNoKey
  <2>2. \A m \in Below(nodes, b) : m < n BY <1>2 DEF Less
  <2>3. \A m \in Below(nodes, l) : n < m BY <1>2 DEF More
  <2>4. node \notin Below(nodes, b) /\ Below(nodes, b) \subseteq Keys /\ Below(nodes, l) \subseteq Keys
    BY <1>1, <1>2, <1>3
  <2>5. node \in Nat /\ n < node BY <1>1, <2>1
  <2>6. n # node BY ONLY <2>1, <2>5
  <2>7. n \notin Below(nodes, l) BY ONLY <2>1, <2>3
  <2>8. ASSUME NEW m \in Below(nodes, b) PROVE m \in Keys /\ m # n /\ m # node /\ m \notin Below(nodes, l)
    <3>1. m \in Keys /\ m \in Nat /\ m < n /\ n \in Nat /\ m # node BY <2>1, <2>2, <2>4
    <3>2. m \in Below(nodes, l) => n < m BY <2>3
    <3> QED BY ONLY <3>1, <3>2
  <2> QED BY ONLY <2>6, <2>7, <2>8
<1>9. t.right[n] = a /\ t.left[n] = b /\ t.skew[n] = h.skew[n]
  <2>1. RightOf(n) # LeftOf(n) BY DEF RightOf, LeftOf
  <2> QED BY <1>4, <1>7, <1>8, <2>1 DEF SameElsewhere, b
<1>10. /\ Tree(t, nodes2, depth2, b) /\ Below(nodes2, b) = Below(nodes, b)
       /\ Depth(depth2, b) = Depth(depth, b)
  <2>1. \A m \in Keys : m # n => RightOf(n) # RightOf(m) BY DEF RightOf
  <2>2. \A m \in Keys : RightOf(n) # LeftOf(m) BY DEF RightOf, LeftOf
  <2>3. \A m \in Below(nodes, b) :
          /\ t.right[m] = h.right[m] /\ t.left[m] = h.left[m] /\ t.skew[m] = h.skew[m]
          /\ nodes2[m] = nodes[m] /\ depth2[m] = depth[m]
    BY <1>7, <1>8, <2>1, <2>2 DEF SameElsewhere
  <2>4. /\ t \in Heaps(Keys) /\ h \in Heaps(Keys) /\ IsGhost(nodes, depth) /\ IsGhost(nodes2, depth2)
        /\ Tree(h, nodes, depth, b)
    BY <1>1, <1>2, <1>7
  <2> QED BY ONLY <2>3, <2>4, TreeStays
<1>11. At(t, c) = n
  <2>1. c # RightOf(n) BY <1>1, <1>2 DEF Clear, RootCell, RightOf
  <2>2. Clear(c, S1) BY <1>1, <1>2 DEF Clear
  <2>3. RightOf(n) # RootCell BY DEF RightOf, RootCell
  <2> QED BY <1>1, <1>4, <1>7, <2>1, <2>2, <2>3, AtElsewhere
<1>12. S = {n} \cup nodes2[a] \cup Below(nodes2, b) BY ONLY <1>2, <1>7, <1>10
<1>13. More(nodes2[a], n) /\ Less(Below(nodes2, b), n) BY <1>2, <1>7, <1>10 DEF More
<1>14. \A m \in Keys \ S : nodes2[m] = nodes[m] /\ depth2[m] = depth[m] BY <1>2, <1>7
<1>15. SameElsewhere(h, t, c, S)
  <2>1. RightOf(n) # RootCell BY DEF RightOf, RootCell
  <2>2. \A m \in Keys : m # n => RightOf(n) # RightOf(m) BY DEF RightOf
  <2>3. \A m \in Keys : RightOf(n) # LeftOf(m) BY DEF RightOf, LeftOf
  <2>4. \A m \in Keys \ S : m \in Keys \ S1 /\ m # n BY <1>2
  <2> QED BY ONLY <1>7, <2>1, <2>2, <2>3, <2>4 DEF SameElsewhere
<1> HIDE DEF S
<1>16. CASE ~below.grown
  <2> DEFINE nodes3 == NodesOver(nodes2, n, b, a)
             depth3 == DepthOver(depth2, n, b, a)
  <2>0. r = below BY <1>16
  <2>1. Below(nodes2, a) = nodes2[a] /\ Depth(depth2, a) = depth2[a] BY <1>7, NullIsNoKey DEF Below, Depth
  <2>2. depth2[a] = Depth(depth, l) BY <1>3, <1>7, <1>16
  <2>3. CanJoin(t, t, nodes2, depth2, n, b, a)
    BY <1>2, <1>7, <1>9, <1>10, <1>13, <2>1, <2>2 DEF CanJoin
  <2>4. Joined(t, nodes2, depth2, n, b, a, nodes3, depth3) BY <2>3, JoinUnder
  <2> HIDE DEF nodes3, depth3
  <2>5. /\ IsGhost(nodes3, depth3) /\ Tree(t, nodes3, depth3, n)
        /\ nodes3[n] = S /\ depth3[n] = depth[n]
        /\ \A m \in Keys \ {n} : nodes3[m] = nodes2[m] /\ depth3[m] = depth2[m]
    BY <1>2, <1>10, <1>12, <2>1, <2>2, <2>4 DEF Joined
  <2>6. \A m \in Keys \ S : nodes3[m] = nodes[m] /\ depth3[m] = depth[m] BY ONLY <1>12, <1>14, <2>5
  <2>7. depth[n] = depth[n] + IF r.grown THEN 1 ELSE 0 BY <1>1, <1>16, <2>0 DEF IsGhost
  <2>8. Grafted(h, nodes, depth, c, t, nodes3, depth3, S, depth[n])
    BY ONLY n \in Keys, <1>7, <1>11, <1>15, <2>5, <2>6 DEF Grafted
  <2>9. CanGraft(h, nodes, depth, c, r.tree, S, depth[n] + IF r.grown THEN 1 ELSE 0)
    BY ONLY <2>0, <2>7, <2>8 DEF CanGraft, t
  <2> QED BY <1>1, <1>5, <1>16, <2>0, <2>9 DEF Added, S
<1>17. CASE below.grown
  <2>1. r = GrownRight(t, c) BY <1>17 DEF t
  <2>2. depth2[a] = Depth(depth, l) + 1 BY <1>7, <1>17
  <2>3. Tells(t.skew[n], Depth(depth2, b), depth2[a] - 1) BY <1>2, <1>3, <1>9, <1>10, <2>2
  <2>4. GrewRight(t, nodes2, depth2, c, n, a, b, S)
    BY <1>1, <1>7, <1>9, <1>10, <1>11, <1>12, <1>13, <2>3 DEF GrewRight, S
  <2>5. t.skew[n] = "RIGHT" => t.skew[a] # "NONE"
    <3>1. h.skew[n] = "RIGHT" => Depth(depth, l) # 0 BY <1>2, <1>3 DEF Tells
    <3> QED BY <1>5, <1>9, <1>17, <3>1 DEF Depth
  <2>6. /\ r.grown \in BOOLEAN
        /\ r.grown => r.tree.skew[At(r.tree, c)] # "NONE"
        /\ CanGraft(t, nodes2, depth2, c, r.tree, S,
                    1 + Deeper(Depth(depth2, b), depth2[a] - 1) + IF r.grown THEN 1 ELSE 0)
    BY ONLY <1>1, <1>7, <2>1, <2>4, <2>5, n \in Keys, GrownRightFacts
  <2>7. 1 + Deeper(Depth(depth2, b), depth2[a] - 1) = depth[n]
    <3>1. depth2[a] - 1 = Depth(depth, l) BY <1>3, <2>2
    <3> QED BY <1>2, <1>10, <3>1
  <2>8. PICK nodes3, depth3 :
          Grafted(t, nodes2, depth2, c, r.tree, nodes3, depth3, S, depth[n] + IF r.grown THEN 1 ELSE 0)
    BY ONLY <2>6, <2>7 DEF CanGraft
  <2>9. \A m \in Keys \ S : nodes3[m] = nodes[m] /\ depth3[m] = depth[m] BY <1>14, <2>8 DEF Grafted
  <2>10. SameElsewhere(h, r.tree, c, S)
    <3>1. SameElsewhere(t, r.tree, c, S) BY <2>8 DEF Grafted
    <3> QED BY ONLY <1>15, <3>1 DEF SameElsewhere
  <2>11. Grafted(h, nodes, depth, c, r.tree, nodes3, depth3, S, depth[n] + IF r.grown THEN 1 ELSE 0)
    BY <1>7, <2>8, <2>9, <2>10 DEF Grafted
  <2>12. CanGraft(h, nodes, depth, c, r.tree, S, depth[n] + IF r.grown THEN 1 ELSE 0)
    BY <2>11 DEF CanGraft
  <2>13. /\ Below(nodes, At(h, c)) \cup {node} = S /\ Depth(depth, At(h, c)) = depth[n]
    BY <1>1 DEF S
  <2>14. CanGraft(h, nodes, depth, c, r.tree, Below(nodes, At(h, c)) \cup {node},
                  Depth(depth, At(h, c)) + IF r.grown THEN 1 ELSE 0)
    BY ONLY <2>12, <2>13
  <2> QED BY ONLY <2>6, <2>14 DEF Added
<1> QED BY <1>5, <1>16, <1>17

\* All nodes are right, those of the tree and the others.
AllSound(h, nodes, depth) == IsGhost(nodes, depth) /\ \A n \in Keys : Sound(h, nodes, depth, n)

\* The depths below a node are smaller.
LEMMA DepthFacts ==
  ASSUME NEW h \in Heaps(Keys), NEW nodes, NEW depth, AllSound(h, nodes, depth), NEW n \in Keys
  PROVE  /\ Tree(h, nodes, depth, n)
         /\ depth[n] \in Nat /\ depth[n] # 0
         /\ Depth(depth, h.left[n]) \in Nat /\ Depth(depth, h.left[n]) < depth[n]
         /\ Depth(depth, h.right[n]) \in Nat /\ Depth(depth, h.right[n]) < depth[n]
<1>1. IsGhost(nodes, depth) /\ Sound(h, nodes, depth, n) BY DEF AllSound
<1>2. /\ depth[n] \in Nat /\ Depth(depth, h.left[n]) \in Nat /\ Depth(depth, h.right[n]) \in Nat
  BY <1>1, Links, GhostTypes DEF IsGhost
<1>3. nodes \in [Keys -> SUBSET Keys] BY <1>1 DEF IsGhost
<1>4. Tree(h, nodes, depth, n) BY <1>3, NullIsNoKey DEF Tree, Below, AllSound, Pointers
<1> QED BY <1>1, <1>2, <1>4 DEF Sound, Deeper

\* There are no more levels than nodes.
LEMMA DepthBound ==
  ASSUME NEW h \in Heaps(Keys), NEW nodes, NEW depth, AllSound(h, nodes, depth)
  PROVE  /\ Cardinality(Keys) \in Nat
         /\ \A p \in Pointers : Depth(depth, p) \in 0 .. Cardinality(Keys)
<1>1. nodes \in [Keys -> SUBSET Keys] /\ depth \in [Keys -> Nat] /\ \A n \in Keys : Sound(h, nodes, depth, n)
  BY DEF AllSound, IsGhost
<1>2. IsFiniteSet(Keys) /\ Cardinality(Keys) \in Nat BY AvlAssumption, FS_CardinalityType
<1>3. \A n \in Keys : /\ IsFiniteSet(nodes[n]) /\ Cardinality(nodes[n]) \in Nat
                      /\ Cardinality(nodes[n]) <= Cardinality(Keys)
  <2> SUFFICES ASSUME NEW n \in Keys
               PROVE  /\ IsFiniteSet(nodes[n]) /\ Cardinality(nodes[n]) \in Nat
                      /\ Cardinality(nodes[n]) <= Cardinality(Keys)
    OBVIOUS
  <2>1. nodes[n] \subseteq Keys BY <1>1
  <2>2. IsFiniteSet(nodes[n]) /\ Cardinality(nodes[n]) <= Cardinality(Keys) BY <1>2, <2>1, FS_Subset
  <2> QED BY <2>2, FS_CardinalityType
<1> DEFINE Bad == {k \in Nat : \E n \in Keys : depth[n] = k /\ ~(depth[n] <= Cardinality(nodes[n]))}
<1>4. ASSUME Bad # {} PROVE FALSE
  <2>1. PICK k \in Bad : \A j \in Bad : k <= j
    <3>1. Bad \in SUBSET Nat OBVIOUS
    <3> HIDE DEF Bad
    <3> QED BY <1>4, <3>1, NatLeast
  <2>2. PICK n \in Keys : depth[n] = k /\ ~(depth[n] <= Cardinality(nodes[n])) OBVIOUS
  <2>3. IsFiniteSet(nodes[n]) /\ Cardinality(nodes[n]) \in Nat BY <1>3
  <2>4. n \in nodes[n] BY DEF AllSound, IsGhost
  <2>5. IsFiniteSet(nodes[n] \ {n}) /\ Cardinality(nodes[n] \ {n}) = Cardinality(nodes[n]) - 1
        /\ Cardinality(nodes[n] \ {n}) \in Nat
    BY <2>3, <2>4, FS_RemoveElement, FS_CardinalityType
  <2>6. ASSUME NEW c \in Pointers, c = h.left[n] \/ c = h.right[n]
        PROVE  Depth(depth, c) <= Cardinality(nodes[n]) - 1
    <3>1. CASE c = Null BY <2>5, <3>1 DEF Depth
    <3>2. CASE c \in Keys
      <4>1. c # Null /\ Depth(depth, c) = depth[c] /\ Below(nodes, c) = nodes[c]
        BY <3>2, NullIsNoKey DEF Depth, Below
      <4>2. depth[c] \in Nat /\ depth[c] < depth[n] /\ depth[n] \in Nat BY <2>6, <4>1, DepthFacts
      <4>3. depth[c] \notin Bad BY <2>1, <2>2, <4>2
      <4>4. depth[c] <= Cardinality(nodes[c]) BY <3>2, <4>2, <4>3
      <4>5. Sound(h, nodes, depth, n) BY <1>1
      <4>6. nodes[c] \subseteq nodes[n] /\ n \notin nodes[c]
        BY <2>6, <4>1, <4>5, NullIsNoKey DEF Sound, Less, More
      <4>7. nodes[c] \subseteq nodes[n] \ {n} BY <4>6
      <4>8. Cardinality(nodes[c]) <= Cardinality(nodes[n] \ {n}) BY <2>5, <4>7, FS_Subset
      <4>9. Cardinality(nodes[c]) \in Nat BY <1>3, <3>2
      <4> QED BY ONLY <2>3, <2>5, <4>1, <4>2, <4>4, <4>8, <4>9
    <3> QED BY <3>1, <3>2 DEF Pointers
  <2>7. /\ Depth(depth, h.left[n]) <= Cardinality(nodes[n]) - 1
        /\ Depth(depth, h.right[n]) <= Cardinality(nodes[n]) - 1
    BY <2>6, Links
  <2>8. depth[n] = 1 + Deeper(Depth(depth, h.left[n]), Depth(depth, h.right[n])) BY <1>1 DEF Sound
  <2>9. Depth(depth, h.left[n]) \in Nat /\ Depth(depth, h.right[n]) \in Nat BY DepthFacts
  <2> QED BY ONLY <2>2, <2>3, <2>7, <2>8, <2>9 DEF Deeper
<1>5. \A n \in Keys : depth[n] \in Nat /\ depth[n] <= Cardinality(nodes[n])
  BY <1>1, <1>4
<1> HIDE DEF Bad
<1>6. ASSUME NEW n \in Keys PROVE depth[n] \in 0 .. Cardinality(Keys)
  BY <1>2, <1>3, <1>5
<1>7. 0 \in 0 .. Cardinality(Keys) BY <1>2
<1> QED BY <1>2, <1>6, <1>7 DEF Depth, Pointers

\* One call of _avl_add, with what the call below it returns.
AddBody(h, node, c, below) ==
  LET n == At(h, c)
  IN IF n = Null THEN Result(Store(h, c, node), TRUE)
     ELSE IF node = n THEN Result(h, FALSE)
     ELSE IF ~below.grown THEN below
     ELSE IF node < n THEN GrownLeft(below.tree, c)
     ELSE GrownRight(below.tree, c)

NextCell(h, node, c) == IF node < At(h, c) THEN LeftOf(At(h, c)) ELSE RightOf(At(h, c))

\* The calls end: every call gets what the one below it returns.
LEMMA AddCalls ==
  ASSUME NEW h \in Heaps(Keys), NEW nodes, NEW depth, AllSound(h, nodes, depth), NEW node \in Keys
  PROVE  \A c \in Cells(Keys) :
           AddAt(h, node)[c] = AddBody(h, node, c, AddAt(h, node)[NextCell(h, node, c)])
<1> DEFINE K == Cardinality(Keys)
           Rank(c) == Depth(depth, At(h, c))
           Right(g, c) == g[c] = AddBody(h, node, c, g[NextCell(h, node, c)])
           P == {k \in 0 .. K : \E g : \A c \in Cells(Keys) : Rank(c) <= k => Right(g, c)}
           Is(f) == f = [c \in Cells(Keys) |-> AddBody(h, node, c, f[NextCell(h, node, c)])]
<1>1. K \in Nat /\ \A c \in Cells(Keys) : At(h, c) \in Pointers /\ Rank(c) \in 0 .. K
  <2>1. \A c \in Cells(Keys) : At(h, c) \in Pointers
    BY DEF Cells, At, Heaps, Pointers, RootCell, LeftOf, RightOf
  <2> QED BY <2>1, DepthBound
<1>2. ASSUME NEW c \in Cells(Keys), At(h, c) # Null
      PROVE  NextCell(h, node, c) \in Cells(Keys) /\ Rank(NextCell(h, node, c)) < Rank(c)
  <2>1. At(h, c) \in Keys BY <1>1, <1>2 DEF Pointers
  <2>2. At(h, LeftOf(At(h, c))) = h.left[At(h, c)] /\ At(h, RightOf(At(h, c))) = h.right[At(h, c)]
    BY DEF At, LeftOf, RightOf
  <2>3. LeftOf(At(h, c)) \in Cells(Keys) /\ RightOf(At(h, c)) \in Cells(Keys) BY <2>1 DEF Cells
  <2>4. Rank(c) = depth[At(h, c)] BY <1>2 DEF Depth
  <2> QED BY <2>1, <2>2, <2>3, <2>4, DepthFacts DEF NextCell
<1>3. ASSUME NEW c \in Cells(Keys), At(h, c) = Null, NEW v, NEW w
      PROVE  AddBody(h, node, c, v) = AddBody(h, node, c, w)
  BY <1>3 DEF AddBody
<1>4. ASSUME NEW c \in Cells(Keys), Rank(c) = 0 PROVE At(h, c) = Null
  <2>1. At(h, c) \in Keys => Rank(c) # 0 BY DepthFacts, NullIsNoKey DEF Depth
  <2> QED BY <1>1, <1>4, <2>1 DEF Pointers
<1> HIDE DEF K, Rank
<1>5. 0 \in P
  <2> DEFINE g == [c \in Cells(Keys) |-> AddBody(h, node, c, 0)]
  <2>1. ASSUME NEW c \in Cells(Keys), Rank(c) <= 0 PROVE Right(g, c)
    <3>1. At(h, c) = Null BY <1>1, <1>4, <2>1
    <3>2. g[c] = AddBody(h, node, c, 0) OBVIOUS
    <3>3. AddBody(h, node, c, 0) = AddBody(h, node, c, g[NextCell(h, node, c)])
      BY ONLY <3>1 DEF AddBody
    <3> QED BY <3>2, <3>3
  <2> HIDE DEF g
  <2> QED BY <1>1, <2>1
<1>6. ASSUME NEW k \in 0 .. K - 1, k \in P PROVE k + 1 \in P
  <2>1. PICK g : \A c \in Cells(Keys) : Rank(c) <= k => Right(g, c) BY <1>6
  <2> DEFINE f == [c \in Cells(Keys) |->
                     IF Rank(c) <= k THEN g[c] ELSE AddBody(h, node, c, g[NextCell(h, node, c)])]
  <2>2. ASSUME NEW c \in Cells(Keys) PROVE f[c] = AddBody(h, node, c, g[NextCell(h, node, c)])
    BY <2>1
  <2>3. ASSUME NEW c \in Cells(Keys), Rank(c) <= k PROVE f[c] = g[c]
    BY <2>3
  <2> HIDE DEF f
  <2>4. ASSUME NEW c \in Cells(Keys), Rank(c) <= k + 1 PROVE Right(f, c)
    <3>1. CASE At(h, c) = Null BY <1>3, <2>2, <3>1
    <3>2. CASE At(h, c) # Null
      <4>1. NextCell(h, node, c) \in Cells(Keys) /\ Rank(NextCell(h, node, c)) <= k
        BY <1>1, <1>2, <2>4, <3>2
      <4>2. f[NextCell(h, node, c)] = g[NextCell(h, node, c)] BY <2>3, <4>1
      <4> QED BY <2>2, <4>2
    <3> QED BY <3>1, <3>2
  <2>5. k + 1 \in 0 .. K BY <1>1
  <2> QED BY <2>4, <2>5
<1>7. K \in P
  <2> HIDE DEF P
  <2>1. 0 .. K \subseteq P BY <1>1, <1>5, <1>6, RangeInduction DEF Climbs
  <2> QED BY <1>1, <2>1
<1>8. PICK g : \A c \in Cells(Keys) : Right(g, c) BY <1>1, <1>7
<1> DEFINE f == [c \in Cells(Keys) |-> g[c]]
<1>9. Is(f)
  <2>1. ASSUME NEW c \in Cells(Keys) PROVE g[c] = AddBody(h, node, c, f[NextCell(h, node, c)])
    <3>1. CASE At(h, c) = Null BY <1>3, <1>8, <3>1
    <3>2. CASE At(h, c) # Null BY <1>2, <1>8, <3>2
    <3> QED BY <3>1, <3>2
  <2> QED BY <2>1
<1> DEFINE add == CHOOSE a : Is(a)
<1>10. Is(add) BY <1>9
<1>11. AddAt(h, node) = add
  <2>1. DOMAIN h.left = Keys BY DEF Heaps
  <2> QED BY <2>1 DEF AddAt, AddBody, NextCell
<1> HIDE DEF add
<1> QED BY <1>10, <1>11

\* An insertion into a tree.
LEMMA AddFacts ==
  ASSUME NEW h, NEW nodes, NEW depth, AllSound(h, nodes, depth),
         NEW c, NEW node, CanAdd(h, nodes, depth, c, node)
  PROVE  Added(h, nodes, depth, c, node, AddAt(h, node)[c])
<1>1. h \in Heaps(Keys) /\ node \in Keys /\ c \in Cells(Keys) /\ IsGhost(nodes, depth)
  BY DEF CanAdd, Fresh
<1>2. \A d \in Cells(Keys) : AddAt(h, node)[d] = AddBody(h, node, d, AddAt(h, node)[NextCell(h, node, d)])
  BY <1>1, AddCalls
<1> DEFINE add == AddAt(h, node)
           Bad == {k \in Nat : \E d \in Cells(Keys) :
                     /\ CanAdd(h, nodes, depth, d, node) /\ Depth(depth, At(h, d)) = k
                     /\ ~Added(h, nodes, depth, d, node, add[d])}
<1>3. ASSUME Bad # {} PROVE FALSE
  <2>1. PICK k \in Bad : \A j \in Bad : k <= j
    <3>1. Bad \in SUBSET Nat OBVIOUS
    <3> HIDE DEF Bad
    <3> QED BY <1>3, <3>1, NatLeast
  <2>2. PICK d \in Cells(Keys) :
          /\ CanAdd(h, nodes, depth, d, node) /\ Depth(depth, At(h, d)) = k
          /\ ~Added(h, nodes, depth, d, node, add[d])
    OBVIOUS
  <2> DEFINE n == At(h, d)
  <2>3. n \in Pointers /\ node \notin Below(nodes, n) BY <2>2 DEF CanAdd, Tree
  <2>4. CASE n = Null
    <3>1. add[d] = Result(Store(h, d, node), TRUE) BY <1>2, <2>4 DEF AddBody
    <3> QED BY <2>2, <2>4, <3>1, AddToEmptyCell
  <2>5. CASE n \in Keys
    <3>1. n # Null /\ Below(nodes, n) = nodes[n] /\ Depth(depth, n) = depth[n]
      BY <2>5, NullIsNoKey DEF Below, Depth
    <3>2. n \in nodes[n] BY <1>1, <2>5 DEF IsGhost
    <3>3. node # n BY <2>3, <3>1, <3>2
    <3>4. CASE node < n
      <4>1. CanAdd(h, nodes, depth, LeftOf(n), node) BY <2>2, <2>5, <3>4, DescendLeft
      <4>2. Depth(depth, At(h, LeftOf(n))) \in Nat /\ Depth(depth, At(h, LeftOf(n))) < k
        <5>1. At(h, LeftOf(n)) = h.left[n] BY DEF At, LeftOf
        <5> QED BY <1>1, <2>2, <2>5, <3>1, <5>1, DepthFacts
      <4>3. LeftOf(n) \in Cells(Keys) BY <2>5 DEF Cells
      <4>4. Depth(depth, At(h, LeftOf(n))) \notin Bad BY <2>1, <4>2
      <4>5. Added(h, nodes, depth, LeftOf(n), node, add[LeftOf(n)]) BY <4>1, <4>2, <4>3, <4>4
      <4>6. add[d] = IF ~add[LeftOf(n)].grown THEN add[LeftOf(n)] ELSE GrownLeft(add[LeftOf(n)].tree, d)
        BY <1>2, <3>1, <3>3, <3>4 DEF AddBody, NextCell
      <4> QED BY <2>2, <2>5, <3>4, <4>5, <4>6, ReturnLeft
    <3>5. CASE n < node
      <4>1. CanAdd(h, nodes, depth, RightOf(n), node) BY <2>2, <2>5, <3>5, DescendRight
      <4>2. Depth(depth, At(h, RightOf(n))) \in Nat /\ Depth(depth, At(h, RightOf(n))) < k
        <5>1. At(h, RightOf(n)) = h.right[n] BY DEF At, RightOf
        <5> QED BY <1>1, <2>2, <2>5, <3>1, <5>1, DepthFacts
      <4>3. RightOf(n) \in Cells(Keys) BY <2>5 DEF Cells
      <4>4. Depth(depth, At(h, RightOf(n))) \notin Bad BY <2>1, <4>2
      <4>5. Added(h, nodes, depth, RightOf(n), node, add[RightOf(n)]) BY <4>1, <4>2, <4>3, <4>4
      <4>6. ~(node < n) BY <1>1, <2>5, <3>5, NullIsNoKey
      <4>7. add[d] = IF ~add[RightOf(n)].grown THEN add[RightOf(n)] ELSE GrownRight(add[RightOf(n)].tree, d)
        BY <1>2, <3>1, <3>3, <4>6 DEF AddBody, NextCell
      <4> QED BY <2>2, <2>5, <3>5, <4>5, <4>7, ReturnRight
    <3> QED BY <1>1, <2>5, <3>3, <3>4, <3>5, NullIsNoKey
  <2> QED BY <2>3, <2>4, <2>5 DEF Pointers
<1>4. Depth(depth, At(h, c)) \in Nat
  <2>1. At(h, c) \in Pointers BY DEF CanAdd, Tree
  <2> QED BY <1>1, <2>1, GhostTypes
<1>5. Depth(depth, At(h, c)) \notin Bad BY <1>3
<1> QED BY <1>1, <1>4, <1>5

-----------------------------------------------------------------------------
(* The invariant.                                                          *)

\* A node that is in no tree is as null_avl_node left it.
Apart(h, n) == h.left[n] = Null /\ h.right[n] = Null /\ h.skew[n] = "NONE"

Holds(h, nodes, depth, S) ==
  /\ AllSound(h, nodes, depth)
  /\ Below(nodes, h.root) = S
  /\ \A n \in Keys \ S : Apart(h, n)

IInv ==
  /\ heap \in Heaps(Keys) /\ heap.ok /\ members \subseteq Keys
  /\ \E nodes, depth : Holds(heap, nodes, depth, members)

\* The empty tree.
LEMMA InitIInv == Init => IInv
<1> SUFFICES ASSUME Init PROVE IInv OBVIOUS
<1> DEFINE nodes == [n \in Keys |-> {n}]
           depth == [n \in Keys |-> 1]
<1>1. /\ heap \in Heaps(Keys) /\ heap.ok /\ heap.root = Null
      /\ \A n \in Keys : Apart(heap, n)
  BY DEF Init, EmptyTree, Heaps, Apart
<1>2. IsGhost(nodes, depth) BY DEF IsGhost
<1>3. ASSUME NEW n \in Keys PROVE Sound(heap, nodes, depth, n)
  <2>1. heap.left[n] = Null /\ heap.right[n] = Null /\ heap.skew[n] = "NONE" BY <1>1 DEF Apart
  <2> QED BY <2>1 DEF Sound, Below, Depth, Deeper, Less, More, Tells
<1>4. Below(nodes, heap.root) = {} BY <1>1 DEF Below
<1> HIDE DEF nodes, depth
<1>5. Holds(heap, nodes, depth, {}) BY <1>1, <1>2, <1>3, <1>4 DEF Holds, AllSound
<1> QED BY <1>1, <1>5 DEF IInv, Init

\* An insertion keeps it.
LEMMA AddIInv ==
  ASSUME IInv, NEW n \in Keys, Add(n)
  PROVE  IInv'
<1>1. heap \in Heaps(Keys) /\ heap.ok /\ members \subseteq Keys BY DEF IInv
<1>2. PICK nodes, depth : Holds(heap, nodes, depth, members) BY DEF IInv
<1>3. AllSound(heap, nodes, depth) /\ IsGhost(nodes, depth) /\ Below(nodes, heap.root) = members
  BY <1>2 DEF Holds, AllSound
<1>4. n \notin members /\ Apart(heap, n) BY <1>2 DEF Add, Holds
<1>5. [heap EXCEPT !.left[n] = Null, !.right[n] = Null, !.skew[n] = "NONE"] = heap
  <2>1. /\ [heap.left EXCEPT ![n] = Null] = heap.left /\ [heap.right EXCEPT ![n] = Null] = heap.right
        /\ [heap.skew EXCEPT ![n] = "NONE"] = heap.skew
    BY <1>1, <1>4 DEF Heaps, Apart
  <2>2. [heap EXCEPT !.left = heap.left, !.right = heap.right, !.skew = heap.skew] = heap
    BY <1>1 DEF Heaps
  <2>3. [heap EXCEPT !.left[n] = Null, !.right[n] = Null, !.skew[n] = "NONE"]
          = [heap EXCEPT !.left = [heap.left EXCEPT ![n] = Null],
                         !.right = [heap.right EXCEPT ![n] = Null],
                         !.skew = [heap.skew EXCEPT ![n] = "NONE"]]
    BY <1>1 DEF Heaps
  <2> QED BY ONLY <2>1, <2>2, <2>3
<1>6. heap' = AddAt(heap, n)[RootCell].tree /\ members' = members \cup {n}
  BY <1>5 DEF Add, AvlAdd
<1>7. CanAdd(heap, nodes, depth, RootCell, n)
  <2>1. At(heap, RootCell) = heap.root /\ RootCell \in Cells(Keys) BY DEF At, RootCell, Cells
  <2>2. heap.root \in Pointers BY <1>1 DEF Heaps, Pointers
  <2>3. Tree(heap, nodes, depth, heap.root) BY <1>1, <1>3, <2>2 DEF Tree, AllSound
  <2> QED BY <1>1, <1>3, <1>4, <2>1, <2>3 DEF CanAdd, Fresh, Apart, Clear
<1>8. Added(heap, nodes, depth, RootCell, n, AddAt(heap, n)[RootCell]) BY <1>3, <1>7, AddFacts
<1> DEFINE S == members \cup {n}
           levels == Depth(depth, heap.root) + IF AddAt(heap, n)[RootCell].grown THEN 1 ELSE 0
<1>9. CanGraft(heap, nodes, depth, RootCell, heap', S, levels)
  <2>1. At(heap, RootCell) = heap.root BY DEF At, RootCell
  <2> QED BY <1>3, <1>6, <1>8, <2>1 DEF Added
<1> HIDE DEF levels
<1>10. PICK nodes2, depth2 : Grafted(heap, nodes, depth, RootCell, heap', nodes2, depth2, S, levels)
  BY <1>9 DEF CanGraft
<1>11. /\ heap' \in Heaps(Keys) /\ heap'.ok /\ SameElsewhere(heap, heap', RootCell, S)
       /\ IsGhost(nodes2, depth2)
       /\ \A m \in Keys \ S : nodes2[m] = nodes[m] /\ depth2[m] = depth[m]
       /\ heap'.root \in Keys /\ Tree(heap', nodes2, depth2, heap'.root) /\ nodes2[heap'.root] = S
  BY <1>1, <1>10 DEF Grafted, At, RootCell
<1>12. Below(nodes2, heap'.root) = S BY <1>11, NullIsNoKey DEF Below
<1>13. ASSUME NEW m \in Keys \ S PROVE Apart(heap', m) /\ Sound(heap', nodes2, depth2, m)
  <2>1. Apart(heap, m) BY <1>2 DEF Holds
  <2>2. RootCell # LeftOf(m) /\ RootCell # RightOf(m) BY DEF RootCell, LeftOf, RightOf
  <2>3. heap'.left[m] = heap.left[m] /\ heap'.right[m] = heap.right[m] /\ heap'.skew[m] = heap.skew[m]
    BY <1>11, <2>2 DEF SameElsewhere
  <2>4. Apart(heap', m) BY ONLY <2>1, <2>3 DEF Apart
  <2>5. Sound(heap, nodes, depth, m) BY <1>3 DEF AllSound
  <2>6. nodes2[m] = nodes[m] /\ depth2[m] = depth[m] BY <1>11
  <2>7. Sound(heap', nodes2, depth2, m)
    BY ONLY <2>1, <2>3, <2>5, <2>6 DEF Sound, Apart, Below, Depth
  <2> QED BY <2>4, <2>7
<1>14. ASSUME NEW m \in S PROVE m \in Keys /\ Sound(heap', nodes2, depth2, m)
  BY <1>1, <1>11, <1>12 DEF Tree
<1>15. AllSound(heap', nodes2, depth2) BY <1>11, <1>13, <1>14 DEF AllSound
<1>16. Holds(heap', nodes2, depth2, S) BY <1>12, <1>13, <1>15 DEF Holds
<1> QED BY <1>1, <1>6, <1>11, <1>16 DEF IInv

\* A kernel that deletes nothing, as this one.
NothingDeleted == MaxDelete = 0

\* Every step keeps it.
LEMMA NextIInv == NothingDeleted => (IInv /\ [Next]_vars => IInv')
<1> SUFFICES ASSUME NothingDeleted, IInv, [Next]_vars PROVE IInv' OBVIOUS
<1>1. ASSUME NEW n \in Keys, Add(n) PROVE IInv' BY <1>1, AddIInv
<1>2. ASSUME NEW n \in Keys, Delete(n) PROVE FALSE
  <2>1. n \in members /\ Cardinality(members) <= 0 BY <1>2 DEF Delete, NothingDeleted
  <2>2. IsFiniteSet(members) BY AvlAssumption, FS_Subset DEF IInv
  <2>3. Cardinality(members) \in Nat /\ (Cardinality(members) = 0 <=> members = {})
    BY <2>2, FS_CardinalityType, FS_EmptySet
  <2> QED BY <2>1, <2>3
<1>3. CASE UNCHANGED vars BY <1>3 DEF vars, IInv, Holds, AllSound, Apart, Sound
<1> QED BY <1>1, <1>2, <1>3 DEF Next

THEOREM Inductive == NothingDeleted => (Spec => []IInv)
<1> SUFFICES ASSUME NothingDeleted PROVE Spec => []IInv OBVIOUS
<1>1. IInv /\ [Next]_vars => IInv' BY NextIInv
<1> QED BY <1>1, InitIInv, PTL DEF Spec

-----------------------------------------------------------------------------
(* The walks.                                                              *)

\* A walk over the nodes of S in increasing order.
Sorted(w, S) ==
  w \in Seq(Keys) /\ ToSet(w) = S /\ \A i, j \in DOMAIN w : i < j => w[i] < w[j]

\* The walk of a node is made of those of its children.
LEMMA SortedJoin ==
  ASSUME NEW n \in Keys, NEW v, NEW A, Sorted(v, A), Less(A, n), NEW w, NEW B, Sorted(w, B), More(B, n)
  PROVE  Sorted(v \o <<n>> \o w, {n} \cup A \cup B)
<1> DEFINE u == v \o <<n>> \o w
           L == Len(v)
           M == Len(w)
<1>1. /\ v \in Seq(Keys) /\ w \in Seq(Keys) /\ L \in Nat /\ M \in Nat
      /\ DOMAIN v = 1 .. L /\ DOMAIN w = 1 .. M
  BY DEF Sorted
<1>2. /\ u \in Seq(Keys) /\ Len(u) = L + 1 + M /\ DOMAIN u = 1 .. L + 1 + M
      /\ \A i \in 1 .. L : u[i] = v[i]
      /\ u[L + 1] = n
      /\ \A i \in L + 2 .. L + 1 + M : u[i] = w[i - (L + 1)]
  BY <1>1
<1>3. /\ \A x : x \in A <=> \E i \in 1 .. L : v[i] = x
      /\ \A x : x \in B <=> \E i \in 1 .. M : w[i] = x
  BY <1>1 DEF Sorted, ToSet
<1> HIDE DEF u, L, M
<1>4. \A i \in 1 .. L : v[i] \in A /\ v[i] \in Keys /\ v[i] < n BY <1>1, <1>3 DEF Less
<1>5. \A i \in 1 .. M : w[i] \in B /\ w[i] \in Keys /\ n < w[i] BY <1>1, <1>3 DEF More
<1>6. ToSet(u) = {n} \cup A \cup B
  <2>1. ASSUME NEW i \in 1 .. L + 1 + M PROVE u[i] \in {n} \cup A \cup B
    <3>1. CASE i \in 1 .. L BY <1>2, <1>4, <3>1
    <3>2. CASE i = L + 1 BY <1>2, <3>2
    <3>3. CASE i \in L + 2 .. L + 1 + M
      <4>1. i - (L + 1) \in 1 .. M BY <1>1, <3>3
      <4> QED BY <1>2, <1>5, <3>3, <4>1
    <3> QED BY <1>1, <3>1, <3>2, <3>3
  <2>2. ASSUME NEW x \in A PROVE \E i \in 1 .. L + 1 + M : u[i] = x
    <3>1. PICK i \in 1 .. L : v[i] = x BY <1>3
    <3>2. i \in 1 .. L + 1 + M BY <1>1
    <3> QED BY <1>2, <3>1, <3>2
  <2>3. ASSUME NEW x \in B PROVE \E i \in 1 .. L + 1 + M : u[i] = x
    <3>1. PICK i \in 1 .. M : w[i] = x BY <1>3
    <3>2. /\ i + (L + 1) \in 1 .. L + 1 + M /\ i + (L + 1) \in L + 2 .. L + 1 + M
          /\ (i + (L + 1)) - (L + 1) = i
      BY <1>1
    <3> QED BY <1>2, <3>1, <3>2
  <2>4. L + 1 \in 1 .. L + 1 + M BY <1>1
  <2>5. ToSet(u) = {u[i] : i \in 1 .. L + 1 + M} BY <1>2 DEF ToSet
  <2> QED BY <1>2, <2>1, <2>2, <2>3, <2>4, <2>5
<1>7. ASSUME NEW i \in 1 .. L + 1 + M, NEW j \in 1 .. L + 1 + M, i < j PROVE u[i] < u[j]
  <2>1. \A m \in Keys : m \in Nat BY NullIsNoKey
  <2>2. CASE j \in 1 .. L
    <3>1. i \in 1 .. L BY <1>1, <1>7, <2>2
    <3> QED BY <1>1, <1>2, <1>7, <2>2, <3>1 DEF Sorted
  <2>3. CASE j = L + 1
    <3>1. i \in 1 .. L BY <1>1, <1>7, <2>3
    <3> QED BY <1>2, <1>4, <2>3, <3>1
  <2>4. CASE j \in L + 2 .. L + 1 + M
    <3>1. j - (L + 1) \in 1 .. M /\ u[j] = w[j - (L + 1)] BY <1>1, <1>2, <2>4
    <3>2. u[j] \in Nat /\ n < u[j] /\ n \in Nat BY <1>5, <2>1, <3>1
    <3>3. CASE i \in 1 .. L
      <4>1. u[i] \in Nat /\ u[i] < n BY <1>2, <1>4, <2>1, <3>3
      <4> QED BY ONLY <3>2, <4>1
    <3>4. CASE i = L + 1 BY <1>2, <3>2, <3>4
    <3>5. CASE i \in L + 2 .. L + 1 + M
      <4>1. i - (L + 1) \in 1 .. M /\ u[i] = w[i - (L + 1)] /\ i - (L + 1) < j - (L + 1)
        BY <1>1, <1>2, <1>7, <2>4, <3>5
      <4> QED BY <1>1, <3>1, <4>1 DEF Sorted
    <3> QED BY <1>1, <3>3, <3>4, <3>5
  <2> QED BY <1>1, <2>2, <2>3, <2>4
<1>8. Sorted(u, {n} \cup A \cup B) BY <1>2, <1>6, <1>7 DEF Sorted
<1> QED BY <1>8 DEF u

\* A walk and the heights, level by level.
IsWalk(f) ==
  /\ \A p \in Pointers : f[0][p] = <<>>
  /\ \A i \in 1 .. MaxDepth : \A p \in Pointers :
       f[i][p] = IF p = Null THEN <<>>
                 ELSE f[i - 1][heap.left[p]] \o <<p>> \o f[i - 1][heap.right[p]]

IsHeight(f) ==
  /\ \A p \in Pointers : f[0][p] = 0
  /\ \A i \in 1 .. MaxDepth : \A p \in Pointers :
       f[i][p] = IF p = Null THEN 0
                 ELSE 1 + Deeper(f[i - 1][heap.left[p]], f[i - 1][heap.right[p]])

\* InOrder is such a walk.
LEMMA InOrderIsWalk ==
  ASSUME heap \in Heaps(Keys), MaxDepth \in Nat
  PROVE  IsWalk(InOrder)
<1> DEFINE Walks == [Pointers -> Seq(Keys)]
           Body(w) == [p \in Pointers |-> IF p = Null THEN <<>>
                                          ELSE w[heap.left[p]] \o <<p>> \o w[heap.right[p]]]
           start == [p \in Pointers |-> <<>>]
           round == [i \in 1 .. MaxDepth |-> [w \in Walks |-> Body(w)]]
           Is(f) == f = [i \in 0 .. MaxDepth |-> [p \in Pointers |->
                           IF p = Null \/ i = 0 THEN <<>>
                           ELSE f[i - 1][heap.left[p]] \o <<p>> \o f[i - 1][heap.right[p]]]]
<1>1. start \in Walks OBVIOUS
<1>2. ASSUME NEW w \in Walks PROVE Body(w) \in Walks
  <2> SUFFICES ASSUME NEW p \in Pointers, p # Null
               PROVE  w[heap.left[p]] \o <<p>> \o w[heap.right[p]] \in Seq(Keys)
    OBVIOUS
  <2>1. p \in Keys BY DEF Pointers
  <2>2. heap.left[p] \in Pointers /\ heap.right[p] \in Pointers BY <2>1, Links
  <2>3. w[heap.left[p]] \in Seq(Keys) /\ w[heap.right[p]] \in Seq(Keys) /\ <<p>> \in Seq(Keys)
    BY <2>1, <2>2
  <2> QED BY ONLY <2>3
<1>3. round \in [1 .. MaxDepth -> [Walks -> Walks]] BY <1>2
<1>4. PICK f : IsLoop(f, Walks, MaxDepth, start, round)
  <2> HIDE DEF Walks, round, start
  <2> QED BY <1>1, <1>3, LoopExists
<1>5. ASSUME NEW i \in 1 .. MaxDepth PROVE f[i] = Body(f[i - 1])
  <2>1. i - 1 \in 0 .. MaxDepth OBVIOUS
  <2>2. f[i - 1] \in Walks BY ONLY <1>4, <2>1 DEF IsLoop
  <2>3. f[i] = round[i][f[i - 1]] BY ONLY <1>4, <1>5 DEF IsLoop
  <2> HIDE DEF Walks, Body
  <2> QED BY <2>2, <2>3
<1>6. Is(f)
  <2>1. f \in [0 .. MaxDepth -> Walks] /\ f[0] = start
    <3> HIDE DEF Walks, round, start
    <3> QED BY <1>4 DEF IsLoop
  <2>2. ASSUME NEW i \in 0 .. MaxDepth
        PROVE  f[i] = [p \in Pointers |->
                         IF p = Null \/ i = 0 THEN <<>>
                         ELSE f[i - 1][heap.left[p]] \o <<p>> \o f[i - 1][heap.right[p]]]
    <3>1. CASE i = 0 BY ONLY <2>1, <3>1
    <3>2. CASE i \in 1 .. MaxDepth
      <4>1. i # 0 BY <3>2
      <4>2. f[i] = Body(f[i - 1]) BY ONLY <1>5, <3>2
      <4> QED BY ONLY <4>1, <4>2
    <3>3. i = 0 \/ i \in 1 .. MaxDepth BY ONLY MaxDepth \in Nat, i \in 0 .. MaxDepth
    <3> QED BY ONLY <3>1, <3>2, <3>3
  <2>3. DOMAIN f = 0 .. MaxDepth /\ f = [i \in DOMAIN f |-> f[i]]
    <3> HIDE DEF Walks
    <3> QED BY ONLY <2>1
  <2> QED BY ONLY <2>2, <2>3
<1> DEFINE walk == CHOOSE g : Is(g)
<1>7. Is(walk) BY <1>6
<1>8. InOrder = walk BY DEF InOrder
<1> HIDE DEF walk
<1>9. \A p \in Pointers : walk[0][p] = <<>>
  <2>1. 0 \in 0 .. MaxDepth BY ONLY MaxDepth \in Nat
  <2>2. walk[0] = [p \in Pointers |-> IF p = Null \/ 0 = 0 THEN <<>>
                                   ELSE walk[0 - 1][heap.left[p]] \o <<p>> \o walk[0 - 1][heap.right[p]]]
    BY ONLY <1>7, <2>1
  <2> QED BY ONLY <2>2
<1>10. ASSUME NEW i \in 1 .. MaxDepth, NEW p \in Pointers
       PROVE  walk[i][p] = IF p = Null THEN <<>>
                           ELSE walk[i - 1][heap.left[p]] \o <<p>> \o walk[i - 1][heap.right[p]]
  <2>1. i \in 0 .. MaxDepth /\ i # 0 BY ONLY MaxDepth \in Nat, i \in 1 .. MaxDepth
  <2>2. walk[i] = [q \in Pointers |-> IF q = Null \/ i = 0 THEN <<>>
                                   ELSE walk[i - 1][heap.left[q]] \o <<q>> \o walk[i - 1][heap.right[q]]]
    BY ONLY <1>7, <2>1
  <2> QED BY ONLY <2>1, <2>2, p \in Pointers
<1> QED BY ONLY <1>8, <1>9, <1>10 DEF IsWalk

\* Height is such a function.
LEMMA HeightIsHeight ==
  ASSUME heap \in Heaps(Keys), MaxDepth \in Nat
  PROVE  IsHeight(Height)
<1> DEFINE Walks == [Pointers -> Nat]
           Body(w) == [p \in Pointers |-> IF p = Null THEN 0
                                          ELSE 1 + Deeper(w[heap.left[p]], w[heap.right[p]])]
           start == [p \in Pointers |-> 0]
           round == [i \in 1 .. MaxDepth |-> [w \in Walks |-> Body(w)]]
           Is(f) == f = [i \in 0 .. MaxDepth |-> [p \in Pointers |->
                           IF p = Null \/ i = 0 THEN 0
                           ELSE 1 + Deeper(f[i - 1][heap.left[p]], f[i - 1][heap.right[p]])]]
<1>1. start \in Walks OBVIOUS
<1>2. ASSUME NEW w \in Walks PROVE Body(w) \in Walks
  <2> SUFFICES ASSUME NEW p \in Pointers, p # Null
               PROVE  1 + Deeper(w[heap.left[p]], w[heap.right[p]]) \in Nat
    OBVIOUS
  <2>1. p \in Keys BY DEF Pointers
  <2>2. heap.left[p] \in Pointers /\ heap.right[p] \in Pointers BY <2>1, Links
  <2>3. w[heap.left[p]] \in Nat /\ w[heap.right[p]] \in Nat BY <2>2
  <2> QED BY ONLY <2>3 DEF Deeper
<1>3. round \in [1 .. MaxDepth -> [Walks -> Walks]] BY <1>2
<1>4. PICK f : IsLoop(f, Walks, MaxDepth, start, round)
  <2> HIDE DEF Walks, round, start
  <2> QED BY <1>1, <1>3, LoopExists
<1>5. ASSUME NEW i \in 1 .. MaxDepth PROVE f[i] = Body(f[i - 1])
  <2>1. i - 1 \in 0 .. MaxDepth OBVIOUS
  <2>2. f[i - 1] \in Walks BY ONLY <1>4, <2>1 DEF IsLoop
  <2>3. f[i] = round[i][f[i - 1]] BY ONLY <1>4, <1>5 DEF IsLoop
  <2> HIDE DEF Walks, Body
  <2> QED BY <2>2, <2>3
<1>6. Is(f)
  <2>1. f \in [0 .. MaxDepth -> Walks] /\ f[0] = start
    <3> HIDE DEF Walks, round, start
    <3> QED BY <1>4 DEF IsLoop
  <2>2. ASSUME NEW i \in 0 .. MaxDepth
        PROVE  f[i] = [p \in Pointers |->
                         IF p = Null \/ i = 0 THEN 0
                         ELSE 1 + Deeper(f[i - 1][heap.left[p]], f[i - 1][heap.right[p]])]
    <3>1. CASE i = 0 BY ONLY <2>1, <3>1
    <3>2. CASE i \in 1 .. MaxDepth
      <4>1. i # 0 BY <3>2
      <4> QED BY ONLY <1>5, <3>2, <4>1
    <3>3. i = 0 \/ i \in 1 .. MaxDepth BY ONLY MaxDepth \in Nat, i \in 0 .. MaxDepth
    <3> QED BY ONLY <3>1, <3>2, <3>3
  <2>3. DOMAIN f = 0 .. MaxDepth /\ f = [i \in DOMAIN f |-> f[i]]
    <3> HIDE DEF Walks
    <3> QED BY ONLY <2>1
  <2> QED BY ONLY <2>2, <2>3
<1> DEFINE height == CHOOSE g : Is(g)
<1>7. Is(height) BY <1>6
<1>8. Height = height BY DEF Height, Deeper
<1> HIDE DEF height
<1>9. \A p \in Pointers : height[0][p] = 0 BY ONLY <1>7, MaxDepth \in Nat
<1>10. ASSUME NEW i \in 1 .. MaxDepth, NEW p \in Pointers
       PROVE  height[i][p] = IF p = Null THEN 0
                             ELSE 1 + Deeper(height[i - 1][heap.left[p]], height[i - 1][heap.right[p]])
  <2>1. i \in 0 .. MaxDepth /\ i # 0 BY ONLY MaxDepth \in Nat, i \in 1 .. MaxDepth
  <2>2. height[i] = [q \in Pointers |-> IF q = Null \/ i = 0 THEN 0
                                   ELSE 1 + Deeper(height[i - 1][heap.left[q]], height[i - 1][heap.right[q]])]
    BY ONLY <1>7, <2>1
  <2> QED BY ONLY <2>1, <2>2, p \in Pointers
<1> QED BY ONLY <1>8, <1>9, <1>10 DEF IsHeight

\* The walk from a node is the sorted walk of what hangs from it, its height is
\* the depth of that.
LEMMA WalksAreRight ==
  ASSUME heap \in Heaps(Keys), NEW nodes, NEW depth, AllSound(heap, nodes, depth)
  PROVE  /\ MaxDepth \in Nat
         /\ \A p \in Pointers : /\ Depth(depth, p) \in Nat
                                /\ Sorted(InOrder[MaxDepth][p], Below(nodes, p))
                                /\ Height[MaxDepth][p] = Depth(depth, p)
<1> DEFINE walk == InOrder
           height == Height
<1>1. /\ MaxDepth \in Nat
      /\ \A p \in Pointers : Depth(depth, p) \in Nat /\ Depth(depth, p) <= MaxDepth
  BY DepthBound DEF MaxDepth
<1>2. IsWalk(walk) /\ IsHeight(height) BY <1>1, InOrderIsWalk, HeightIsHeight
<1> HIDE DEF walk, height
<1> DEFINE Right(i, p) == Sorted(walk[i][p], Below(nodes, p)) /\ height[i][p] = Depth(depth, p)
           P == {i \in 0 .. MaxDepth : \A p \in Pointers : Depth(depth, p) <= i => Right(i, p)}
<1>3. ASSUME NEW i \in 0 .. MaxDepth PROVE Right(i, Null)
  <2>1. walk[i][Null] = <<>> /\ height[i][Null] = 0
    <3>1. Null \in Pointers BY DEF Pointers
    <3>2. i = 0 \/ i \in 1 .. MaxDepth BY <1>1
    <3> QED BY ONLY <1>2, <3>1, <3>2 DEF IsWalk, IsHeight
  <2>2. Sorted(<<>>, {}) BY DEF Sorted, ToSet
  <2> QED BY <2>1, <2>2 DEF Below, Depth
<1>4. 0 \in P
  <2>1. ASSUME NEW p \in Pointers, Depth(depth, p) <= 0 PROVE p = Null
    <3>1. p \in Keys => Depth(depth, p) = depth[p] BY NullIsNoKey DEF Depth
    <3>2. p \in Keys => depth[p] \in Nat /\ depth[p] # 0 BY DepthFacts
    <3> QED BY <2>1, <3>1, <3>2 DEF Pointers
  <2> HIDE DEF Right
  <2> QED BY <1>1, <1>3, <2>1
<1>5. ASSUME NEW i \in 0 .. MaxDepth - 1, i \in P PROVE i + 1 \in P
  <2>1. /\ i \in Nat /\ i \in 0 .. MaxDepth /\ i + 1 \in 0 .. MaxDepth
        /\ i + 1 \in 1 .. MaxDepth /\ (i + 1) - 1 = i
    BY <1>1
  <2>2. ASSUME NEW p \in Keys, Depth(depth, p) <= i + 1 PROVE Right(i + 1, p)
    <3>1. p # Null /\ p \in Pointers /\ Below(nodes, p) = nodes[p] /\ Depth(depth, p) = depth[p]
      BY NullIsNoKey DEF Pointers, Below, Depth
    <3>2. heap.left[p] \in Pointers /\ heap.right[p] \in Pointers BY Links
    <3>3. /\ depth[p] \in Nat
          /\ Depth(depth, heap.left[p]) \in Nat /\ Depth(depth, heap.left[p]) < depth[p]
          /\ Depth(depth, heap.right[p]) \in Nat /\ Depth(depth, heap.right[p]) < depth[p]
      BY DepthFacts
    <3>4. Depth(depth, heap.left[p]) <= i /\ Depth(depth, heap.right[p]) <= i
      BY ONLY <2>1, <2>2, <3>1, <3>3
    <3>5. Right(i, heap.left[p]) /\ Right(i, heap.right[p])
      <4> HIDE DEF Right
      <4> QED BY <1>5, <3>2, <3>4
    <3>6. Sound(heap, nodes, depth, p) BY DEF AllSound
    <3>7. walk[i + 1][p] = walk[i][heap.left[p]] \o <<p>> \o walk[i][heap.right[p]]
      BY ONLY <1>2, <2>1, <3>1 DEF IsWalk
    <3>8. height[i + 1][p] = 1 + Deeper(height[i][heap.left[p]], height[i][heap.right[p]])
      BY ONLY <1>2, <2>1, <3>1 DEF IsHeight
    <3>9. /\ Less(Below(nodes, heap.left[p]), p) /\ More(Below(nodes, heap.right[p]), p)
          /\ nodes[p] = {p} \cup Below(nodes, heap.left[p]) \cup Below(nodes, heap.right[p])
          /\ depth[p] = 1 + Deeper(Depth(depth, heap.left[p]), Depth(depth, heap.right[p]))
      BY ONLY <3>6 DEF Sound
    <3>10. Sorted(walk[i + 1][p], nodes[p])
      <4> DEFINE v == walk[i][heap.left[p]]
                 w == walk[i][heap.right[p]]
                 A == Below(nodes, heap.left[p])
                 B == Below(nodes, heap.right[p])
      <4>1. Sorted(v, A) /\ Sorted(w, B) BY ONLY <3>5
      <4>2. Less(A, p) /\ More(B, p) BY ONLY <3>9
      <4>3. walk[i + 1][p] = v \o <<p>> \o w /\ nodes[p] = {p} \cup A \cup B BY ONLY <3>7, <3>9
      <4> HIDE DEF v, w, A, B
      <4>4. Sorted(v \o <<p>> \o w, {p} \cup A \cup B)
        BY ONLY p \in Keys, <4>1, <4>2, SortedJoin
      <4> QED BY ONLY <4>3, <4>4
    <3> QED BY ONLY <3>1, <3>5, <3>8, <3>9, <3>10
  <2>3. Right(i + 1, Null) BY ONLY <1>3, <2>1
  <2> HIDE DEF Right
  <2> QED BY <2>1, <2>2, <2>3 DEF Pointers
<1>6. MaxDepth \in P
  <2> HIDE DEF P
  <2>1. 0 .. MaxDepth \subseteq P BY <1>1, <1>4, <1>5, RangeInduction DEF Climbs
  <2> QED BY <1>1, <2>1
<1> QED BY <1>1, <1>6 DEF walk, height

\* One step of the loop of avl_find.
FindBody(match, n, below) == IF n = Null \/ match[n] = 0 THEN n ELSE below
NextNode(h, match, n) == IF match[n] < 0 THEN h.left[n] ELSE h.right[n]

\* The loop ends: every step is followed by the next one.
LEMMA FindSteps ==
  ASSUME NEW h \in Heaps(Keys), NEW nodes, NEW depth, AllSound(h, nodes, depth), NEW match
  PROVE  \A n \in Pointers :
           FindFrom(h, match)[n] = FindBody(match, n, FindFrom(h, match)[NextNode(h, match, n)])
<1> DEFINE K == Cardinality(Keys)
           Rank(n) == Depth(depth, n)
           Right(g, n) == g[n] = FindBody(match, n, g[NextNode(h, match, n)])
           P == {k \in 0 .. K : \E g : \A n \in Pointers : Rank(n) <= k => Right(g, n)}
           Is(f) == f = [n \in Pointers |-> FindBody(match, n, f[NextNode(h, match, n)])]
<1>1. K \in Nat /\ \A n \in Pointers : Rank(n) \in 0 .. K BY DepthBound
<1>2. ASSUME NEW n \in Pointers, n # Null
      PROVE  NextNode(h, match, n) \in Pointers /\ Rank(NextNode(h, match, n)) < Rank(n)
  <2>1. n \in Keys BY <1>2 DEF Pointers
  <2>2. Rank(n) = depth[n] BY <1>2 DEF Depth
  <2> QED BY <2>1, <2>2, DepthFacts, Links DEF NextNode
<1>3. ASSUME NEW v, NEW w PROVE FindBody(match, Null, v) = FindBody(match, Null, w)
  BY DEF FindBody
<1>4. ASSUME NEW n \in Pointers, Rank(n) = 0 PROVE n = Null
  <2>1. n \in Keys => Rank(n) # 0 BY DepthFacts, NullIsNoKey DEF Depth
  <2> QED BY <1>4, <2>1 DEF Pointers
<1> HIDE DEF K, Rank
<1>5. 0 \in P
  <2> DEFINE g == [n \in Pointers |-> FindBody(match, n, 0)]
  <2>1. ASSUME NEW n \in Pointers, Rank(n) <= 0 PROVE Right(g, n)
    <3>1. n = Null BY <1>1, <1>4, <2>1
    <3>2. g[n] = FindBody(match, n, 0) OBVIOUS
    <3>3. FindBody(match, n, 0) = FindBody(match, n, g[NextNode(h, match, n)])
      BY ONLY <3>1 DEF FindBody
    <3> QED BY <3>2, <3>3
  <2> HIDE DEF g
  <2> QED BY <1>1, <2>1
<1>6. ASSUME NEW k \in 0 .. K - 1, k \in P PROVE k + 1 \in P
  <2>1. PICK g : \A n \in Pointers : Rank(n) <= k => Right(g, n) BY <1>6
  <2> DEFINE f == [n \in Pointers |->
                     IF Rank(n) <= k THEN g[n] ELSE FindBody(match, n, g[NextNode(h, match, n)])]
  <2>2. ASSUME NEW n \in Pointers PROVE f[n] = FindBody(match, n, g[NextNode(h, match, n)])
    BY <2>1
  <2>3. ASSUME NEW n \in Pointers, Rank(n) <= k PROVE f[n] = g[n]
    BY <2>3
  <2> HIDE DEF f
  <2>4. ASSUME NEW n \in Pointers, Rank(n) <= k + 1 PROVE Right(f, n)
    <3>1. CASE n = Null BY <1>3, <2>2, <3>1
    <3>2. CASE n # Null
      <4>1. NextNode(h, match, n) \in Pointers /\ Rank(NextNode(h, match, n)) <= k
        BY <1>1, <1>2, <2>4, <3>2
      <4>2. f[NextNode(h, match, n)] = g[NextNode(h, match, n)] BY <2>3, <4>1
      <4> QED BY <2>2, <4>2
    <3> QED BY <3>1, <3>2
  <2>5. k + 1 \in 0 .. K BY <1>1
  <2> QED BY <2>4, <2>5
<1>7. K \in P
  <2> HIDE DEF P
  <2>1. 0 .. K \subseteq P BY <1>1, <1>5, <1>6, RangeInduction DEF Climbs
  <2> QED BY <1>1, <2>1
<1>8. PICK g : \A n \in Pointers : Right(g, n) BY <1>1, <1>7
<1> DEFINE f == [n \in Pointers |-> g[n]]
<1>9. Is(f)
  <2>1. ASSUME NEW n \in Pointers PROVE g[n] = FindBody(match, n, f[NextNode(h, match, n)])
    <3>1. CASE n = Null BY <1>3, <1>8, <3>1
    <3>2. CASE n # Null BY <1>2, <1>8, <3>2
    <3> QED BY <3>1, <3>2
  <2> QED BY <2>1
<1> DEFINE find == CHOOSE a : Is(a)
<1>10. Is(find) BY <1>9
<1>11. FindFrom(h, match) = find
  <2>1. DOMAIN h.left \cup {Null} = Pointers BY DEF Heaps, Pointers
  <2> QED BY <2>1 DEF FindFrom, FindBody, NextNode
<1> HIDE DEF find
<1> QED BY <1>10, <1>11

\* avl_find finds what hangs from where it starts, and nothing else.
LEMMA FindFacts ==
  ASSUME NEW h \in Heaps(Keys), NEW nodes, NEW depth, AllSound(h, nodes, depth),
         NEW key \in Keys, NEW p \in Pointers
  PROVE  FindFrom(h, [n \in Keys |-> key - n])[p] = IF key \in Below(nodes, p) THEN key ELSE Null
<1> DEFINE match == [n \in Keys |-> key - n]
           find == FindFrom(h, match)
           Right(q) == find[q] = IF key \in Below(nodes, q) THEN key ELSE Null
           Bad == {k \in Nat : \E q \in Pointers : Depth(depth, q) = k /\ ~Right(q)}
<1>1. \A n \in Pointers : find[n] = FindBody(match, n, find[NextNode(h, match, n)]) BY FindSteps
<1>2. ASSUME Bad # {} PROVE FALSE
  <2>1. PICK k \in Bad : \A j \in Bad : k <= j
    <3>1. Bad \in SUBSET Nat OBVIOUS
    <3> HIDE DEF Bad
    <3> QED BY <1>2, <3>1, NatLeast
  <2>2. PICK q \in Pointers : Depth(depth, q) = k /\ ~Right(q) OBVIOUS
  <2>3. CASE q = Null
    <3>1. find[q] = Null BY <1>1, <2>3 DEF FindBody
    <3> QED BY <2>2, <2>3, <3>1 DEF Below
  <2>4. CASE q \in Keys
    <3>1. q # Null /\ Below(nodes, q) = nodes[q] /\ Depth(depth, q) = depth[q]
      BY <2>4, NullIsNoKey DEF Below, Depth
    <3>2. /\ nodes[q] = {q} \cup Below(nodes, h.left[q]) \cup Below(nodes, h.right[q])
          /\ Less(Below(nodes, h.left[q]), q) /\ More(Below(nodes, h.right[q]), q)
      BY <2>4 DEF AllSound, Sound
    <3>3. key \in Nat /\ q \in Nat /\ match[q] = key - q BY <2>4, NullIsNoKey
    <3>4. ASSUME NEW d \in Pointers, d = h.left[q] \/ d = h.right[q] PROVE Right(d)
      <4>1. Depth(depth, d) \in Nat /\ Depth(depth, d) < depth[q] BY <2>4, <3>4, DepthFacts
      <4>2. depth[q] \in Nat /\ depth[q] = k BY <2>2, <2>4, <3>1, DepthFacts
      <4>3. Depth(depth, d) \notin Bad BY <2>1, <4>1, <4>2
      <4> HIDE DEF Right
      <4> QED BY <4>1, <4>3
    <3>5. Right(h.left[q]) /\ Right(h.right[q]) BY <2>4, <3>4, Links
    <3> HIDE DEF find, match
    <3>6. CASE key = q
      <4>1. find[q] = q BY <1>1, <3>3, <3>6 DEF FindBody
      <4> QED BY <2>2, <3>1, <3>2, <3>6, <4>1
    <3>7. CASE key < q
      <4>1. match[q] # 0 /\ match[q] < 0 BY <3>3, <3>7
      <4>2. find[q] = find[h.left[q]] BY <1>1, <3>1, <4>1 DEF FindBody, NextNode
      <4>3. key # q /\ key \notin Below(nodes, h.right[q]) BY <3>2, <3>3, <3>7 DEF More
      <4> QED BY <2>2, <3>1, <3>2, <3>5, <4>2, <4>3
    <3>8. CASE q < key
      <4>1. match[q] # 0 /\ ~(match[q] < 0) BY <3>3, <3>8
      <4>2. find[q] = find[h.right[q]] BY <1>1, <3>1, <4>1 DEF FindBody, NextNode
      <4>3. key # q /\ key \notin Below(nodes, h.left[q]) BY <3>2, <3>3, <3>8 DEF Less
      <4> QED BY <2>2, <3>1, <3>2, <3>5, <4>2, <4>3
    <3> QED BY <3>3, <3>6, <3>7, <3>8
  <2> QED BY <2>3, <2>4 DEF Pointers
<1>3. Depth(depth, p) \in Nat /\ Depth(depth, p) \notin Bad
  <2>1. IsGhost(nodes, depth) BY DEF AllSound
  <2> QED BY <1>2, <2>1, GhostTypes
<1> QED BY <1>3

-----------------------------------------------------------------------------
(* The theorems.                                                           *)

\* The walk of the tree is its members in order, and avl_find finds them.
LEMMA InvHoldsMembers == IInv => HoldsMembersInOrder
<1> SUFFICES ASSUME IInv PROVE HoldsMembersInOrder OBVIOUS
<1>1. heap \in Heaps(Keys) /\ members \subseteq Keys BY DEF IInv
<1>2. PICK nodes, depth : Holds(heap, nodes, depth, members) BY DEF IInv
<1>3. AllSound(heap, nodes, depth) /\ Below(nodes, heap.root) = members BY <1>2 DEF Holds
<1>4. heap.root \in Pointers BY <1>1 DEF Heaps, Pointers
<1>5. Sorted(InOrder[MaxDepth][heap.root], members) BY <1>1, <1>3, <1>4, WalksAreRight
<1>6. ASSUME NEW key \in Keys
      PROVE  AvlFind(heap, [n \in Keys |-> key - n]) = IF key \in members THEN key ELSE Null
  BY <1>1, <1>3, <1>4, FindFacts DEF AvlFind
<1>7. TypeOK BY <1>1 DEF TypeOK, Heaps, Pointers
<1> QED BY <1>5, <1>6, <1>7 DEF HoldsMembersInOrder, Sorted

\* The subtrees of a node differ by at most one level, and its skew says how.
LEMMA InvBalanced == IInv => Balanced
<1> SUFFICES ASSUME IInv, NEW n \in members
             PROVE  LET tilt == Height[MaxDepth][heap.right[n]] - Height[MaxDepth][heap.left[n]]
                    IN /\ tilt \in -1 .. 1
                       /\ heap.skew[n] = IF tilt < 0 THEN "LEFT" ELSE
                                         IF tilt > 0 THEN "RIGHT" ELSE "NONE"
  BY DEF Balanced
<1>1. heap \in Heaps(Keys) /\ n \in Keys BY DEF IInv
<1>2. PICK nodes, depth : Holds(heap, nodes, depth, members) BY DEF IInv
<1>3. AllSound(heap, nodes, depth) BY <1>2 DEF Holds
<1> DEFINE l == Depth(depth, heap.left[n])
           r == Depth(depth, heap.right[n])
<1>4. /\ l \in Nat /\ r \in Nat
      /\ Height[MaxDepth][heap.left[n]] = l /\ Height[MaxDepth][heap.right[n]] = r
  BY <1>1, <1>3, Links, WalksAreRight
<1>5. Tells(heap.skew[n], l, r) BY <1>1, <1>3 DEF AllSound, Sound
<1> HIDE DEF l, r
<1> QED BY ONLY <1>4, <1>5 DEF Tells

\* No rotation of an insertion loses, duplicates or misplaces a node, whatever
\* the keys and the order they come in.
THEOREM TreesHoldTheirMembers == NothingDeleted => (Spec => []HoldsMembersInOrder)
<1> SUFFICES ASSUME NothingDeleted PROVE Spec => []HoldsMembersInOrder OBVIOUS
<1> QED BY Inductive, InvHoldsMembers, PTL

\* The trees stay balanced: _avl_add sets every skew right.
THEOREM TreesAreBalanced == NothingDeleted => (Spec => []Balanced)
<1> SUFFICES ASSUME NothingDeleted PROVE Spec => []Balanced OBVIOUS
<1> QED BY Inductive, InvBalanced, PTL

\* No insertion dereferences a null pointer: where AVL_BALANCE takes the child
\* of a child, there is one.
THEOREM InsertionsDoNotFault == NothingDeleted => (Spec => []NeverFaults)
<1> SUFFICES ASSUME NothingDeleted PROVE Spec => []NeverFaults OBVIOUS
<1>1. IInv => NeverFaults BY DEF IInv, NeverFaults
<1> QED BY <1>1, Inductive, PTL
=============================================================================
