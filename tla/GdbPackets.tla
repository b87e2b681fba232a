----------------------------- MODULE GdbPackets -----------------------------
(***************************************************************************)
(* The packets of the gdb serial protocol as the kernel debugger takes     *)
(* them in, character by character: the two state machines of              *)
(* src/src/kernel/kdb/gdb.c and command.c, and gdb at the other end of a   *)
(* serial line that may lose or garble characters.                         *)
(*                                                                         *)
(* A packet is "$", a command, its arguments, "#" and two digits of        *)
(* checksum.  What the callback of a command then does is in module Kdb.   *)
(* The checksum here has digits to the base Len(Digits).                   *)
(***************************************************************************)
EXTENDS Integers, Sequences, SequencesExt

CONSTANTS
  Names,          \* the characters in kdb_commands
  Code,           \* the number of each character
  FromHex,        \* what fromhex makes of each character
  Digits,         \* the digits of a checksum, in order
  Packets,        \* what gdb may send: a command and its arguments
  ArgumentsSize,  \* size of the arguments array of a command
  MaxPackets, MaxInterrupts, MaxNoise   \* bounds

VARIABLES
  main, checksum,        \* gdb.c: currentState, kdb_checksum
  state, current,        \* command.c: currentState, kdb_currentCommand
  arguments, argpos,     \* of each command
  executed,              \* the command the last callback was called for
  served,                \* how often CTRL-C called kdb_service
  failed,                \* an assertion failed
  sent,                  \* acknowledgements on their way to gdb
  packet, toSend,        \* gdb: the packet that is not acknowledged, characters to send
  packets, interrupts, noise

commandVars == <<state, current, arguments, argpos>>
kdbVars == <<main, checksum, commandVars, executed, served, failed, sent>>
vars == <<kdbVars, packet, toSend, packets, interrupts, noise>>

None == "none"
Unknown == "unknown"     \* kdb_commands[0]
Junk == "junk"           \* what is read behind the end of an array

Chars == DOMAIN Code
Special == {"$", "#", "^C"}
Commands == Names \cup {Unknown}
Base == Len(Digits)

ASSUME GdbPacketsAssumption ==
  /\ Code \in [Chars -> Nat] /\ FromHex \in [Chars -> Int]
  /\ Names \cup Special \subseteq Chars
  /\ Digits \in Seq(Chars) /\ Digits # <<>>
  /\ \A i \in 1 .. Base : FromHex[Digits[i]] = i - 1
  /\ \A p \in Packets : p \in Seq(Chars \ Special) /\ p # <<>>
  /\ {None, Unknown, Junk} \cap Chars = {}
  /\ ArgumentsSize \in Nat \ {0}

Init ==
  /\ main = "JUNK" /\ checksum = 0
  /\ state = "COMMAND" /\ current = None
  /\ arguments = [c \in Commands |-> <<>>]
  /\ argpos = [c \in Commands |-> 0]
  /\ executed = [name |-> None, arguments |-> <<>>]
  /\ served = 0 /\ failed = FALSE /\ sent = <<>>
  /\ packet = <<>> /\ toSend = <<>>
  /\ packets = 0 /\ interrupts = 0 /\ noise = 0

-----------------------------------------------------------------------------
\* command.c

\* Mutant: the arguments of the previous command of that name are kept.
CommandProcessKeepsPosition(ch) ==
  /\ state' = "ARGUMENTS"
  /\ IF ch \in Names THEN current' = ch ELSE UNCHANGED current
  /\ UNCHANGED <<arguments, argpos, failed>>

\* kdb_command_process: an unknown name leaves kdb_currentCommand as it is.
CommandProcess(ch) ==
  /\ state' = "ARGUMENTS"
  /\ IF ch \in Names
       THEN current' = ch /\ argpos' = [argpos EXCEPT ![ch] = 0]
       ELSE UNCHANGED <<current, argpos>>
  /\ UNCHANGED <<arguments, failed>>

Store(characters, pos) ==
  /\ arguments' = [arguments EXCEPT ![current] = characters]
  /\ argpos' = [argpos EXCEPT ![current] = pos]

\* The string in the array when ch is written at pos.
Written(c, pos, ch) == Append(SubSeq(arguments[c], 1, pos), ch)

\* Mutant: nothing stops at the end of the array.
ArgumentsProcessUnchecked(ch) ==
  /\ UNCHANGED <<state, current>>
  /\ \/ /\ current = None /\ failed' = TRUE
        /\ UNCHANGED <<arguments, argpos>>
     \/ /\ current # None /\ UNCHANGED failed
        /\ LET pos == argpos[current]
           IN Store(Written(current, pos, ch), pos + 1)

(***************************************************************************)
(* kdb_arguments_process.  The character behind the last one is set to 0;  *)
(* behind the last of the array that is the low byte of argpos, which      *)
(* becomes 0, unless the compiler stores argpos after it: then its 128 is  *)
(* read as one more character.                                             *)
(***************************************************************************)
ArgumentsProcess(ch) ==
  /\ UNCHANGED <<state, current>>
  /\ \/ /\ current = None /\ failed' = TRUE     \* assert(kdb_currentCommand)
        /\ UNCHANGED <<arguments, argpos>>
     \/ /\ current # None /\ UNCHANGED failed
        /\ LET pos == argpos[current]
               written == Written(current, pos, ch)
           IN \/ /\ pos >= ArgumentsSize
                 /\ UNCHANGED <<arguments, argpos>>
              \/ /\ pos + 1 < ArgumentsSize
                 /\ Store(written, pos + 1)
              \/ /\ pos + 1 = ArgumentsSize
                 /\ \/ Store(written, 0)
                    \/ Store(Append(written, Junk), ArgumentsSize)

CommandReceive(ch) ==
  \/ state = "COMMAND" /\ CommandProcess(ch)
  \/ state = "ARGUMENTS" /\ ArgumentsProcess(ch)

CommandReset ==
  /\ state' = "COMMAND" /\ current' = Unknown
  /\ UNCHANGED <<arguments, argpos>>

-----------------------------------------------------------------------------
\* gdb.c

Reply(ch) == sent' = Append(sent, ch)

\* Mutant: the checksum goes on from the packet before.
JunkProcessKeepsChecksum(ch) ==
  /\ IF ch = "^C" THEN served' = served + 1 /\ UNCHANGED main
     ELSE /\ main' = IF ch = "$" THEN "DATA" ELSE main
          /\ UNCHANGED served
  /\ UNCHANGED <<checksum, commandVars, executed, failed, sent>>

\* kdb_junk_process
JunkProcess(ch) ==
  /\ \/ /\ ch = "^C" /\ served' = served + 1     \* kdb_service
        /\ UNCHANGED <<main, checksum>>
     \/ /\ ch = "$" /\ main' = "DATA" /\ checksum' = 0
        /\ UNCHANGED served
     \/ /\ ch \notin {"^C", "$"}
        /\ UNCHANGED <<main, checksum, served>>
  /\ UNCHANGED <<commandVars, executed, failed, sent>>

\* kdb_data_process
DataProcess(ch) ==
  /\ \/ /\ ch = "#" /\ main' = "CHECKSUM"
        /\ UNCHANGED <<checksum, commandVars, failed>>
     \/ /\ ch # "#" /\ checksum' = (checksum + Code[ch]) % (Base * Base)
        /\ CommandReceive(ch)
        /\ UNCHANGED main
  /\ UNCHANGED <<executed, served, sent>>

\* fromhex(ch) == n, which characters that are no digits may satisfy too.
IsNibble(ch, n) == FromHex[ch] = n

\* kdb_sendNack, and back to JUNK: nothing else is reset.
Nack ==
  /\ Reply("-") /\ main' = "JUNK"
  /\ UNCHANGED <<commandVars, executed, failed>>

\* Mutant: a wrong first digit is waited out.
ChecksumProcessWaits(ch) ==
  /\ main' = IF IsNibble(ch, checksum \div Base) THEN "CHECKSUM2" ELSE main
  /\ UNCHANGED <<checksum, commandVars, executed, served, failed, sent>>

\* kdb_checksum_process
ChecksumProcess(ch) ==
  /\ \/ /\ IsNibble(ch, checksum \div Base) /\ main' = "CHECKSUM2"
        /\ UNCHANGED <<commandVars, executed, failed, sent>>
     \/ ~IsNibble(ch, checksum \div Base) /\ Nack
  /\ UNCHANGED <<checksum, served>>

\* The call of kdb_currentCommand->callback; a null pointer is a failure.
Execute ==
  \/ /\ current = None /\ failed' = TRUE
     /\ UNCHANGED <<main, commandVars, executed>>
  \/ /\ current # None /\ main' = "JUNK"
     /\ executed' = [name |-> current, arguments |-> arguments[current]]
     /\ CommandReset
     /\ UNCHANGED failed

\* kdb_checksum2_process: acknowledge, call the callback, reset.
Checksum2Process(ch) ==
  /\ \/ IsNibble(ch, checksum % Base) /\ Reply("+") /\ Execute
     \/ ~IsNibble(ch, checksum % Base) /\ Nack
  /\ UNCHANGED <<checksum, served>>

\* kdb_receive
Receive(ch) ==
  \/ main = "JUNK" /\ JunkProcess(ch)
  \/ main = "DATA" /\ DataProcess(ch)
  \/ main = "CHECKSUM" /\ ChecksumProcess(ch)
  \/ main = "CHECKSUM2" /\ Checksum2Process(ch)

-----------------------------------------------------------------------------
(***************************************************************************)
(* gdb and the line (external).  gdb sends one packet at a time and sends  *)
(* it again on "-" and when no answer comes; CTRL-C is sent between        *)
(* packets.                                                                *)
(***************************************************************************)

\* The checksum of each prefix of a packet.
ChecksumOf(p) ==
  LET sum[n \in 0 .. Len(p)] ==
        IF n = 0 THEN 0 ELSE (sum[n - 1] + Code[p[n]]) % (Base * Base)
  IN sum

Frame(p) ==
  LET sum == ChecksumOf(p)[Len(p)]
  IN <<"$">> \o p \o <<"#", Digits[sum \div Base + 1], Digits[(sum % Base) + 1]>>

Idle == packet = <<>> /\ toSend = <<>> /\ sent = <<>>

SendPacket(p) ==
  /\ Idle /\ packets < MaxPackets /\ packets' = packets + 1
  /\ packet' = p /\ toSend' = Frame(p)
  /\ UNCHANGED <<kdbVars, interrupts, noise>>

SendInterrupt ==
  /\ Idle /\ interrupts < MaxInterrupts /\ interrupts' = interrupts + 1
  /\ toSend' = <<"^C">>
  /\ UNCHANGED <<kdbVars, packet, packets, noise>>

Transmitting == toSend # <<>> /\ ~failed

Arrives(ch) ==
  /\ Receive(ch) /\ toSend' = Tail(toSend)
  /\ UNCHANGED <<packet, packets, interrupts>>

Transmit ==
  /\ Transmitting /\ Arrives(Head(toSend))
  /\ UNCHANGED noise

Garble(ch) ==
  /\ Transmitting /\ ch # Head(toSend) /\ Arrives(ch)
  /\ noise < MaxNoise /\ noise' = noise + 1

Lose ==
  /\ Transmitting /\ noise < MaxNoise /\ noise' = noise + 1
  /\ toSend' = Tail(toSend)
  /\ UNCHANGED <<kdbVars, packet, packets, interrupts>>

HostReceives ==
  /\ toSend = <<>> /\ sent # <<>>
  /\ sent' = Tail(sent)
  /\ \/ /\ Head(sent) = "+" /\ packet' = <<>>
        /\ UNCHANGED toSend
     \/ /\ Head(sent) = "-" /\ packet # <<>> /\ toSend' = Frame(packet)
        /\ UNCHANGED packet
     \/ /\ Head(sent) = "-" /\ packet = <<>>
        /\ UNCHANGED <<packet, toSend>>
  /\ UNCHANGED <<main, checksum, commandVars, executed, served, failed>>
  /\ UNCHANGED <<packets, interrupts, noise>>

NoAnswer == packet # <<>> /\ toSend = <<>> /\ sent = <<>>

Timeout ==
  /\ NoAnswer /\ ~failed
  /\ toSend' = Frame(packet)
  /\ UNCHANGED <<kdbVars, packet, packets, interrupts, noise>>

Next ==
  \/ \E p \in Packets : SendPacket(p)
  \/ SendInterrupt
  \/ Transmit
  \/ \E ch \in Chars : Garble(ch)
  \/ Lose
  \/ HostReceives
  \/ Timeout

Spec == Init /\ [][Next]_vars

(***************************************************************************)
(* The line and the interrupt handler deliver what is sent; gdb reads what *)
(* it gets and has a timeout.  Nobody needs to send anything.              *)
(***************************************************************************)
FairSpec == Spec /\ WF_vars(Transmit) /\ WF_vars(HostReceives) /\ WF_vars(Timeout)

-----------------------------------------------------------------------------

(***************************************************************************)
(* Whatever the line does, an index stays in its array, and the debugger   *)
(* can meet a null kdb_currentCommand only before the first packet was     *)
(* executed ("robustness" in kdb_command_reset).                           *)
(***************************************************************************)
TypeOK ==
  /\ main \in {"JUNK", "DATA", "CHECKSUM", "CHECKSUM2"}
  /\ checksum \in 0 .. Base * Base - 1
  /\ state \in {"COMMAND", "ARGUMENTS"}
  /\ current \in Commands \cup {None}
  /\ arguments \in [Commands -> Seq(Chars \cup {Junk})]
  /\ argpos \in [Commands -> 0 .. ArgumentsSize]
  /\ \A c \in Commands :
       /\ Len(arguments[c]) <= ArgumentsSize + 1
       /\ argpos[c] <= Len(arguments[c])
  /\ sent \in Seq({"+", "-"})
  /\ failed \in BOOLEAN
  /\ executed.name \in Commands \cup {None}
  /\ executed.name # None => current # None /\ ~failed

Reliable == noise = 0

ExecutedIsThePacket ==
  IF Head(packet) \notin Names THEN executed.name = Unknown
  ELSE /\ executed.name = Head(packet)
       /\ Len(Tail(packet)) \in 1 .. ArgumentsSize - 1 =>
            executed.arguments = Tail(packet)

(***************************************************************************)
(* On a reliable line the command a packet executes is the one in the      *)
(* packet, with the arguments in the packet when they fit their array,     *)
(* whatever was executed before.                                           *)
(***************************************************************************)
ExecutesWhatWasSent ==
  (Reliable /\ sent = <<"+">> /\ ~failed) => ExecutedIsThePacket

(***************************************************************************)
(* The same on a line that garbles one character, for the packet gdb sends *)
(* again because the debugger refused it (gdb.h, kdb_checksum2_process:    *)
(* "if correct executes the parsed command").  In the code a refused       *)
(* packet leaves the command state machine in the middle of its arguments, *)
(* and the packet that is sent again is appended to them.                  *)
(***************************************************************************)
RetransmissionExecutesWhatWasSent ==
  (sent = <<"+">> /\ packet # <<>> /\ ~failed) => ExecutedIsThePacket

(***************************************************************************)
(* On a reliable line every packet is acknowledged the first time (the     *)
(* debugger never sends "-", and never leaves gdb without an answer), and  *)
(* no CTRL-C is taken for a part of a packet.                              *)
(***************************************************************************)
ReliableLineIsServed ==
  (Reliable /\ ~failed) =>
     /\ "-" \notin ToSet(sent) /\ ~NoAnswer
     /\ toSend = <<>> => served = interrupts

(***************************************************************************)
(* The state machines find their way back: after any noise gdb sends its   *)
(* packet until it is acknowledged.                                        *)
(***************************************************************************)
PacketsGetThrough ==
  (packet # <<>>) ~> (packet = <<>> \/ failed)

(***************************************************************************)
(* assert(kdb_currentCommand) in kdb_arguments_process, and the call of    *)
(* kdb_currentCommand->callback, always find a command.                    *)
(***************************************************************************)
CurrentCommandIsSet == ~failed
=============================================================================
