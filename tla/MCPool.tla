------------------------------- MODULE MCPool -------------------------------
(***************************************************************************)
(* The pool on a small instance.                                           *)
(***************************************************************************)
EXTENDS Pool
=============================================================================
