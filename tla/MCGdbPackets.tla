---------------------------- MODULE MCGdbPackets ----------------------------
(***************************************************************************)
(* A checksum modulo 9.  Two known commands and one that is not; arguments *)
(* that fit their array, fill it, and are longer.                          *)
(***************************************************************************)
EXTENDS GdbPackets, TLC

MCDigits == <<"0", "1", "2">>
MCCode == ("$" :> 2) @@ ("#" :> 1) @@ ("^C" :> 3) @@ ("0" :> 4) @@ ("1" :> 5)
          @@ ("2" :> 6) @@ ("c" :> 7) @@ ("m" :> 8) @@ ("q" :> 1)
\* "q" and "c" are taken for digits too, as ":" and "A" are by fromhex.
MCFromHex == [ch \in DOMAIN MCCode |->
                CASE ch = "0" -> 0 [] ch \in {"1", "c"} -> 1 [] ch \in {"2", "q"} -> 2
                  [] ch = "m" -> 7 [] OTHER -> -1]
MCNames == {"c", "m"}
MCPackets == {<<"c">>, <<"m", "1">>, <<"m", "0", "2">>, <<"m", "0", "1", "2", "0">>,
              <<"q", "1">>}
=============================================================================
