------------------------------- MODULE AvlTree -------------------------------
(***************************************************************************)
(* The balanced search trees of src/src/lib/algo/avl.c, as operators on a  *)
(* heap of nodes.  The pointers are kept: rotations and deletions rewrite  *)
(* the cells that hold them, and a deletion can leave a cell nobody        *)
(* rewrote.                                                                *)
(*                                                                         *)
(* A node is named by its key (Region@start, pool_slot.start, ...), Null   *)
(* is the null pointer, and a cell is what the code passes as avl_node_t   *)
(* **: the root variable or the left or right member of a node.  A step    *)
(* that dereferences Null leaves the heap with ok = FALSE: the kernel      *)
(* stops in its page fault handler.                                        *)
(***************************************************************************)
EXTENDS Integers, Sequences

Null == -1

RootCell == [member |-> "root", node |-> Null]
LeftOf(n) == [member |-> "left", node |-> n]
RightOf(n) == [member |-> "right", node |-> n]

\* The cells of the nodes of a heap.
Cells(nodes) == {RootCell} \cup {LeftOf(n) : n \in nodes} \cup {RightOf(n) : n \in nodes}

EmptyTree(nodes) ==
  [root |-> Null,
   left |-> [n \in nodes |-> Null],
   right |-> [n \in nodes |-> Null],
   skew |-> [n \in nodes |-> "NONE"],
   ok |-> TRUE]

At(h, cell) ==
  IF cell.member = "root" THEN h.root ELSE
  IF cell.member = "left" THEN h.left[cell.node] ELSE h.right[cell.node]

Store(h, cell, n) ==
  IF cell.member = "root" THEN [h EXCEPT !.root = n] ELSE
  IF cell.member = "left" THEN [h EXCEPT !.left[cell.node] = n]
                          ELSE [h EXCEPT !.right[cell.node] = n]

Fault(h) == [h EXCEPT !.ok = FALSE]

\* What _avl_add and _avl_delete return next to the tree they leave.
Result(h, grown) == [tree |-> h, grown |-> grown]

-----------------------------------------------------------------------------

RotateRight(h, cell) ==
  LET tmp == At(h, cell)
      up == h.left[tmp]
  IN Store([h EXCEPT !.left[tmp] = h.right[up], !.right[up] = tmp], cell, up)

\* Mutant: the inner subtree is lost.
RotateLeftLosesChild(h, cell) ==
  LET tmp == At(h, cell)
      up == h.right[tmp]
  IN Store([h EXCEPT !.right[tmp] = Null, !.left[up] = tmp], cell, up)

RotateLeft(h, cell) ==
  LET tmp == At(h, cell)
      up == h.right[tmp]
  IN Store([h EXCEPT !.right[tmp] = h.left[up], !.left[up] = tmp], cell, up)

(***************************************************************************)
(* avl_grownLeft and avl_grownRight: the tree below a cell became deeper   *)
(* on one side.  They answer whether the tree as a whole became deeper     *)
(* (AVL_BALANCE).                                                          *)
(***************************************************************************)
GrownLeft(h, cell) ==
  LET n == At(h, cell)
      l == h.left[n]
      lr == h.right[l]
      tilted == [h EXCEPT
        !.skew[n] = IF h.skew[lr] = "LEFT" THEN "RIGHT" ELSE "NONE",
        !.skew[l] = IF h.skew[lr] = "RIGHT" THEN "LEFT" ELSE "NONE",
        !.skew[lr] = "NONE"]
  IN IF h.skew[n] = "NONE"
       THEN Result([h EXCEPT !.skew[n] = "LEFT"], TRUE)
     ELSE IF h.skew[n] = "RIGHT"
       THEN Result([h EXCEPT !.skew[n] = "NONE"], FALSE)
     ELSE IF l = Null THEN Result(Fault(h), FALSE)
     ELSE IF h.skew[l] = "LEFT"
       THEN Result(RotateRight([h EXCEPT !.skew[n] = "NONE",
                                         !.skew[l] = "NONE"], cell), FALSE)
     ELSE IF lr = Null THEN Result(Fault(h), FALSE)
     ELSE Result(RotateRight(RotateLeft(tilted, LeftOf(n)), cell), FALSE)

\* Mutants: a double rotation leaves the middle node's skew; the double
\* rotation is done where a single one is due.
GrownRightKeepsSkew(h, cell) ==
  LET n == At(h, cell)
      r == h.right[n]
      rl == h.left[r]
      tilted == [h EXCEPT
        !.skew[n] = IF h.skew[rl] = "RIGHT" THEN "LEFT" ELSE "NONE",
        !.skew[r] = IF h.skew[rl] = "LEFT" THEN "RIGHT" ELSE "NONE"]
  IN IF h.skew[n] = "NONE"
       THEN Result([h EXCEPT !.skew[n] = "RIGHT"], TRUE)
     ELSE IF h.skew[n] = "LEFT"
       THEN Result([h EXCEPT !.skew[n] = "NONE"], FALSE)
     ELSE IF r = Null THEN Result(Fault(h), FALSE)
     ELSE IF h.skew[r] = "RIGHT"
       THEN Result(RotateLeft([h EXCEPT !.skew[n] = "NONE",
                                        !.skew[r] = "NONE"], cell), FALSE)
     ELSE IF rl = Null THEN Result(Fault(h), FALSE)
     ELSE Result(RotateLeft(RotateRight(tilted, RightOf(n)), cell), FALSE)

GrownRightOnlyDouble(h, cell) ==
  LET n == At(h, cell)
      r == h.right[n]
      rl == h.left[r]
  IN IF h.skew[n] = "NONE"
       THEN Result([h EXCEPT !.skew[n] = "RIGHT"], TRUE)
     ELSE IF h.skew[n] = "LEFT"
       THEN Result([h EXCEPT !.skew[n] = "NONE"], FALSE)
     ELSE IF r = Null \/ rl = Null THEN Result(Fault(h), FALSE)
     ELSE Result(RotateLeft(RotateRight(h, RightOf(n)), cell), FALSE)

GrownRight(h, cell) ==
  LET n == At(h, cell)
      r == h.right[n]
      rl == h.left[r]
      tilted == [h EXCEPT
        !.skew[n] = IF h.skew[rl] = "RIGHT" THEN "LEFT" ELSE "NONE",
        !.skew[r] = IF h.skew[rl] = "LEFT" THEN "RIGHT" ELSE "NONE",
        !.skew[rl] = "NONE"]
  IN IF h.skew[n] = "NONE"
       THEN Result([h EXCEPT !.skew[n] = "RIGHT"], TRUE)
     ELSE IF h.skew[n] = "LEFT"
       THEN Result([h EXCEPT !.skew[n] = "NONE"], FALSE)
     ELSE IF r = Null THEN Result(Fault(h), FALSE)
     ELSE IF h.skew[r] = "RIGHT"
       THEN Result(RotateLeft([h EXCEPT !.skew[n] = "NONE",
                                        !.skew[r] = "NONE"], cell), FALSE)
     ELSE IF rl = Null THEN Result(Fault(h), FALSE)
     ELSE Result(RotateLeft(RotateRight(tilted, RightOf(n)), cell), FALSE)

(***************************************************************************)
(* _avl_add: a node whose key is already in the tree is silently dropped.  *)
(***************************************************************************)
AddAt(h, node) ==
  LET Add[cell \in Cells(DOMAIN h.left)] ==
        LET n == At(h, cell)
            below == Add[IF node < n THEN LeftOf(n) ELSE RightOf(n)]
        IN IF n = Null THEN Result(Store(h, cell, node), TRUE)
           ELSE IF node = n THEN Result(h, FALSE)
           ELSE IF ~below.grown THEN below
           ELSE IF node < n THEN GrownLeft(below.tree, cell)
           ELSE GrownRight(below.tree, cell)
  IN Add

AvlAdd(h, node) == AddAt(h, node)[RootCell].tree

-----------------------------------------------------------------------------

\* The cell of the in-order predecessor, which avl.c calls the successor.
LastCell(h) ==
  LET Last[cell \in Cells(DOMAIN h.left)] ==
        IF h.right[At(h, cell)] = Null THEN cell ELSE Last[RightOf(At(h, cell))]
  IN Last

(***************************************************************************)
(* avl_swap: the two nodes exchange their children, the cell of the root   *)
(* gets the successor.  Nothing is stored in the successor's own cell, and *)
(* the skews stay with the nodes.                                          *)
(***************************************************************************)
Swap(h, cell, succCell) ==
  LET root == At(h, cell)
      succ == At(h, succCell)
      Moved(child) == IF child = succ THEN root ELSE child
  IN Store([h EXCEPT !.left[succ] = Moved(h.left[root]),
                     !.right[succ] = Moved(h.right[root]),
                     !.left[root] = h.left[succ],
                     !.right[root] = h.right[succ]], cell, succ)

Heaps(nodes) ==
  LET Pointers == nodes \cup {Null}
  IN [root : Pointers, left : [nodes -> Pointers], right : [nodes -> Pointers],
      skew : [nodes -> {"NONE", "LEFT", "RIGHT"}], ok : BOOLEAN]

\* _avl_delete; what it returns as grown is AVL_BALANCE.
DeleteAt(nodes, node) ==
  LET Delete[h \in Heaps(nodes), cell \in Cells(nodes)] ==
        LET n == At(h, cell)
            succCell == LastCell(h)[LeftOf(n)]
            swapped == Delete[Swap(h, cell, succCell), LeftOf(At(h, succCell))]
            below == Delete[h, IF node < n THEN LeftOf(n) ELSE RightOf(n)]
        IN IF n = Null THEN Result(Fault(h), FALSE)
           ELSE IF n = node THEN
             IF h.right[n] = Null THEN Result(Store(h, cell, h.left[n]), TRUE)
             ELSE IF h.left[n] = Null THEN Result(Store(h, cell, h.right[n]), TRUE)
             ELSE IF ~swapped.tree.ok \/ ~swapped.grown THEN Result(swapped.tree, FALSE)
             ELSE GrownRight(swapped.tree, cell)
           ELSE IF ~below.tree.ok \/ ~below.grown THEN Result(below.tree, FALSE)
           ELSE IF node < n THEN GrownRight(below.tree, cell)
           ELSE GrownLeft(below.tree, cell)
  IN Delete

AvlDelete(h, node) == DeleteAt(DOMAIN h.left, node)[h, RootCell].tree

-----------------------------------------------------------------------------

(***************************************************************************)
(* avl_find: the walk from the root by the answers of a match function     *)
(* (type ## _avlmatch): 0, a negative or a positive number for each node.  *)
(***************************************************************************)
FindFrom(h, match) ==
  LET Find[n \in DOMAIN h.left \cup {Null}] ==
        IF n = Null \/ match[n] = 0 THEN n
        ELSE Find[IF match[n] < 0 THEN h.left[n] ELSE h.right[n]]
  IN Find

AvlFind(h, match) == FindFrom(h, match)[h.root]
=============================================================================
