-------------------------------- MODULE MCAvl --------------------------------
(***************************************************************************)
(* The tree with a few nodes: seven insertions reach every rotation at     *)
(* every level of a tree of height three.                                  *)
(***************************************************************************)
EXTENDS Avl

MCKeys == 1 .. 7
MCFewKeys == 1 .. 5
=============================================================================
