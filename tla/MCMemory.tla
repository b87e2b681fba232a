------------------------------ MODULE MCMemory ------------------------------
(***************************************************************************)
(* Eight tables of eight pages, with the kernel in the third, the stack    *)
(* and the boot context at the end of the seventh.  Of the frames, one     *)
(* below the higher RAM segment is the frame buffer's.  The sections of    *)
(* the kernel are adjacent or have a page between them.                    *)
(***************************************************************************)
EXTENDS Memory

MCSections == {Segment(20, 1), Segment(20, 2), Segment(21, 1), Segment(22, 2)}
MCRam == (0 .. 2) \cup (4 .. 21)

\* What the theorems of MemoryProofs ask of the constants.
ASSUME InstanceSuffices == SufficesFor(24, 3)
=============================================================================
