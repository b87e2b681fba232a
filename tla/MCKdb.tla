------------------------------- MODULE MCKdb -------------------------------
(***************************************************************************)
(* The sessions that are checked.  In the first the program meets          *)
(* breakpoints, its own and one that gdb plants; interrupts may come late. *)
(* In the second gdb interrupts the program with CTRL-C and detaches.  The *)
(* acknowledgements that may be lost are those of packets that can be      *)
(* executed twice; in the third session it is that of a continue packet.   *)
(***************************************************************************)
EXTENDS Kdb

Breakpoints ==
  [commands |-> {"continue", "step", "insert", "remove"}, prompt |-> FALSE,
   traps |-> 2, lossy |-> {"getSignal", "insert", "remove"}]

Interrupts ==
  [commands |-> {"continue", "detach", "interrupt"}, prompt |-> TRUE,
   traps |-> 0, lossy |-> {"getSignal"}]

LostAck == [Interrupts EXCEPT !.lossy = {"continue"}]

MCSessions == {Breakpoints, Interrupts}
MCLostAck == {LostAck}

\* The sessions of the passing run are of the kinds that the theorems are about.
ASSUME SessionsAreOrderly ==
  \A s \in MCSessions : BreakpointSession(s) \/ InterruptSession(s)
=============================================================================
