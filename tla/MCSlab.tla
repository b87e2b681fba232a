-------------------------------- MODULE MCSlab --------------------------------
(***************************************************************************)
(* Two sizes of objects, in slabs of one and of two pages, in two pools    *)
(* of a few pages of 44 bytes; requests too small and too large.           *)
(*                                                                         *)
(* Beside that instance, the assumptions on the sizes are evaluated with   *)
(* the constants of the i386 build, for which the theorems about them hold *)
(* then.                                                                   *)
(***************************************************************************)
EXTENDS Slab, TLC

MCRequests == {3, 4, 5, 8, 9, 13, 16, 17}

Build == INSTANCE SlabSizes WITH PAGE_SIZE <- 4096, SLAB_MAX_GFP_ORDER <- 6,
           SlabHeader <- 36, Bufctl <- 4, SmallestCache <- 32, SizeCaches <- 13

\* In the build slab_cache_cache holds 127 descriptors of 60 bytes in two pages.
ASSUME BuildAssumption ==
  /\ Build!SizesFitSlabs
  /\ 36 + 127 * (60 + 4) <= Build!SlabBytes(1)
=============================================================================
