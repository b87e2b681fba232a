--------------------------------- MODULE Avl ---------------------------------
(***************************************************************************)
(* A tree of src/src/lib/algo/avl.c under every sequence of insertions,    *)
(* and of deletions from small trees.  The kernel today only inserts       *)
(* (regions, used slots, slabs): avl_delete has one caller, Pool@freeRange *)
(* which nothing calls yet.                                                *)
(***************************************************************************)
EXTENDS AvlTree, FiniteSets, SequencesExt

CONSTANTS
  Keys,        \* the keys of the nodes
  MaxMembers,  \* bound: nodes in the tree at one time
  MaxDelete    \* bound: nodes in a tree a client deletes from

ASSUME AvlAssumption ==
  /\ Keys \subseteq Nat /\ IsFiniteSet(Keys)
  /\ MaxMembers \in Nat /\ MaxDelete \in Nat

VARIABLES
  heap,      \* the nodes and the root variable
  members    \* the nodes clients put in the tree and did not take out

vars == <<heap, members>>

-----------------------------------------------------------------------------

Init ==
  /\ heap = EmptyTree(Keys)
  /\ members = {}

\* The node arrives with the members of null_avl_node; a member of the tree
\* is never passed again, its own links would be lost.
Add(n) ==
  /\ heap.ok
  /\ n \notin members /\ Cardinality(members) < MaxMembers
  /\ heap' = AvlAdd([heap EXCEPT !.left[n] = Null, !.right[n] = Null,
                                 !.skew[n] = "NONE"], n)
  /\ members' = members \cup {n}

\* "Make sure the item really exist."
Delete(n) ==
  /\ heap.ok
  /\ n \in members /\ Cardinality(members) <= MaxDelete
  /\ heap' = AvlDelete(heap, n)
  /\ members' = members \ {n}

Next == \E n \in Keys : Add(n) \/ Delete(n)

Spec == Init /\ [][Next]_vars

-----------------------------------------------------------------------------

Pointers == Keys \cup {Null}

TypeOK ==
  /\ heap.root \in Pointers
  /\ heap.left \in [Keys -> Pointers]
  /\ heap.right \in [Keys -> Pointers]
  /\ heap.skew \in [Keys -> {"NONE", "LEFT", "RIGHT"}]
  /\ heap.ok \in BOOLEAN
  /\ members \in SUBSET Keys

MaxDepth == Cardinality(Keys) + 1

\* The nodes reached from a pointer in at most depth links: none is counted
\* twice in a tree, and a cycle does not trap the walk.
InOrder[depth \in 0 .. MaxDepth] ==
  [n \in Pointers |->
     IF n = Null \/ depth = 0 THEN <<>>
     ELSE InOrder[depth - 1][heap.left[n]] \o <<n>> \o InOrder[depth - 1][heap.right[n]]]

Height[depth \in 0 .. MaxDepth] ==
  [n \in Pointers |->
     IF n = Null \/ depth = 0 THEN 0
     ELSE LET l == Height[depth - 1][heap.left[n]]
              r == Height[depth - 1][heap.right[n]]
          IN 1 + IF l > r THEN l ELSE r]

(***************************************************************************)
(* The in-order walk is exactly the members in increasing order: no        *)
(* rotation or deletion loses, duplicates or misplaces a node; and the     *)
(* walk of avl_find finds every member and nothing else.                   *)
(***************************************************************************)
HoldsMembersInOrder ==
  /\ TypeOK
  /\ LET walk == InOrder[MaxDepth][heap.root]
     IN /\ ToSet(walk) = members
        /\ \A i, j \in DOMAIN walk : i < j => walk[i] < walk[j]
  /\ \A key \in Keys :
       AvlFind(heap, [n \in Keys |-> key - n]) = IF key \in members THEN key ELSE Null

(***************************************************************************)
(* lib.tex: "AVL trees are balanced binary search trees": the subtrees of  *)
(* every member differ by at most one in height, and its skew says which   *)
(* is deeper.  A rotation that sets one skew wrong shows only several      *)
(* insertions later, as a dereferenced null pointer.                       *)
(***************************************************************************)
Balanced ==
  \A n \in members :
    LET tilt == Height[MaxDepth][heap.right[n]] - Height[MaxDepth][heap.left[n]]
    IN /\ tilt \in -1 .. 1
       /\ heap.skew[n] = IF tilt < 0 THEN "LEFT" ELSE
                         IF tilt > 0 THEN "RIGHT" ELSE "NONE"

\* No operation dereferences a null pointer.
NeverFaults == heap.ok
=============================================================================
