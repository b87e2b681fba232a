--------------------------- MODULE GdbPacketsProofs ---------------------------
(***************************************************************************)
(* What the debugger makes of the packets of gdb, for every alphabet,      *)
(* every base of the checksum, every set of packets and every size of the  *)
(* arrays of arguments.                                                    *)
(***************************************************************************)
EXTENDS GdbPackets, NatRecursion, SequenceTheorems

\* gdb has at most one packet on its way, and counts.
HostInOrder ==
  /\ packet \in Packets \cup {<<>>} /\ toSend \in Seq(Chars)
  /\ served \in Nat /\ interrupts \in Nat /\ noise \in Nat

\* Between two packets.
Waiting == main = "JUNK" /\ state = "COMMAND" /\ current \in {None, Unknown}

\* The command machine after the first n characters of the packet.
Parsed(n) ==
  /\ state = "ARGUMENTS"
  /\ Head(packet) \notin Names => current \in {None, Unknown}
  /\ Head(packet) \in Names =>
       /\ current = Head(packet)
       /\ n <= ArgumentsSize => argpos[current] = n - 1
       /\ n \in 2 .. ArgumentsSize => arguments[current] = SubSeq(packet, 2, n)

\* Both machines after the first n characters of the packet.
HasRead(n) ==
  /\ n \in 0 .. Len(packet)
  /\ checksum = ChecksumOf(packet)[n]
  /\ n = 0 => state = "COMMAND" /\ current \in {None, Unknown}
  /\ n > 0 => Parsed(n)

\* All but the first n characters of the frame are still to be sent.
RestOfFrame(n) ==
  /\ Len(toSend) = Len(packet) + 4 - n
  /\ \A i \in 1 .. Len(toSend) : toSend[i] = Frame(packet)[n + i]

\* The machines are where the first n characters of the frame lead them.
InStep(n) ==
  \/ n = 0 /\ Waiting /\ sent = <<>>
  \/ n >= 1 /\ main = "DATA" /\ HasRead(n - 1) /\ sent = <<>>
  \/ n = Len(packet) + 2 /\ main = "CHECKSUM" /\ HasRead(Len(packet)) /\ sent = <<>>
  \/ n = Len(packet) + 3 /\ main = "CHECKSUM2" /\ HasRead(Len(packet)) /\ sent = <<>>
  \/ n = Len(packet) + 4 /\ Waiting /\ ExecutedIsThePacket /\ sent = <<"+">>

BetweenPackets ==
  /\ Waiting /\ sent = <<>>
  /\ toSend \in {<<>>, <<"^C">>}
  /\ served + Len(toSend) = interrupts

OnReliableLine ==
  /\ packet = <<>> => BetweenPackets
  /\ packet # <<>> =>
       /\ served = interrupts
       /\ \E n \in 0 .. Len(packet) + 4 : RestOfFrame(n) /\ InStep(n)

(***************************************************************************)
(* The inductive invariant: whatever the line does the types hold, and     *)
(* while it has done nothing the machines follow the frame.                *)
(***************************************************************************)
IInv ==
  /\ TypeOK /\ HostInOrder
  /\ (Reliable /\ ~failed) => OnReliableLine

-----------------------------------------------------------------------------
(* Types                                                                   *)

\* Checksums are numbers of two digits.
LEMMA Digital ==
  /\ Base \in Nat \ {0} /\ Base * Base \in Nat \ {0}
  /\ \A c \in 0 .. Base * Base - 1 : c \div Base \in 0 .. Base - 1 /\ c % Base \in 0 .. Base - 1
  /\ \A c \in Int : c % (Base * Base) \in 0 .. Base * Base - 1
  <1>1. Base \in Nat \ {0}
    BY GdbPacketsAssumption, EmptySeq DEF Base
  <1>2. ASSUME NEW b \in Nat \ {0}
        PROVE  /\ b * b \in Nat \ {0}
               /\ \A c \in 0 .. b * b - 1 : c \div b \in 0 .. b - 1 /\ c % b \in 0 .. b - 1
    <2>1. b * b \in Nat \ {0}
      OBVIOUS
    <2>2. ASSUME NEW c \in 0 .. b * b - 1
          PROVE  c \div b \in 0 .. b - 1 /\ c % b \in 0 .. b - 1
      <3>1. c \in Nat /\ c < b * b
        BY <2>1
      <3>2. PICK q \in Nat, r \in 0 .. b - 1 : q = c \div b /\ r = c % b /\ q * b + r = c
        BY <3>1
      <3>3. q * b < b * b
        BY <3>1, <3>2
      <3>4. q < b
        <4>1. SUFFICES ASSUME q >= b PROVE FALSE
          BY <3>2
        <4>2. q * b >= b * b
          BY <3>2, <4>1
        <4>. QED
          BY <3>2, <3>3, <4>2, <2>1
      <3>. QED
        BY <3>2, <3>4
    <2>. QED
      BY <2>1, <2>2
  <1>3. ASSUME NEW m \in Nat \ {0}, NEW c \in Int
        PROVE  c % m \in 0 .. m - 1
    OBVIOUS
  <1>. QED
    BY <1>1, <1>2, <1>3

\* The types of the variables of command.c.
CommandTyped ==
  /\ state \in {"COMMAND", "ARGUMENTS"}
  /\ current \in Commands \cup {None}
  /\ arguments \in [Commands -> Seq(Chars \cup {Junk})]
  /\ argpos \in [Commands -> 0 .. ArgumentsSize]
  /\ \A c \in Commands :
       /\ Len(arguments[c]) <= ArgumentsSize + 1
       /\ argpos[c] <= Len(arguments[c])

\* What is written at the end of the arguments there are.
LEMMA WrittenFacts ==
  ASSUME CommandTyped, NEW c \in Commands, NEW ch \in Chars, NEW pos \in Nat, pos = argpos[c]
  PROVE  /\ Written(c, pos, ch) \in Seq(Chars \cup {Junk})
         /\ Len(Written(c, pos, ch)) = pos + 1
         /\ Written(c, pos, ch)[pos + 1] = ch
         /\ \A i \in 1 .. pos : Written(c, pos, ch)[i] = arguments[c][i]
  <1> DEFINE a == arguments[c]
             b == SubSeq(a, 1, pos)
  <1>1. a \in Seq(Chars \cup {Junk}) /\ pos <= Len(a) /\ Len(a) \in Nat
    BY DEF CommandTyped
  <1> HIDE DEF a
  <1>2. b \in Seq(Chars \cup {Junk}) /\ Len(b) = pos /\ \A i \in 1 .. pos : b[i] = a[i]
    <2>1. \A i \in 1 .. pos : a[i] \in Chars \cup {Junk}
      BY <1>1
    <2>2. /\ b \in Seq(Chars \cup {Junk})
          /\ Len(b) = IF 1 <= pos THEN pos - 1 + 1 ELSE 0
          /\ \A i \in 1 .. pos - 1 + 1 : b[i] = a[1 + i - 1]
      BY <2>1, SubSeqProperties
    <2>. QED
      BY <2>2
  <1> HIDE DEF b
  <1>3. /\ Append(b, ch) \in Seq(Chars \cup {Junk})
        /\ Len(Append(b, ch)) = pos + 1
        /\ Append(b, ch)[pos + 1] = ch
        /\ \A i \in 1 .. pos : Append(b, ch)[i] = b[i]
    BY <1>2
  <1>. QED
    BY <1>2, <1>3 DEF Written, a, b

\* An index stays in its array.
LEMMA StoreTyped ==
  ASSUME CommandTyped, current \in Commands, NEW w \in Seq(Chars \cup {Junk}),
         NEW pos \in 0 .. ArgumentsSize, pos <= Len(w), Len(w) <= ArgumentsSize + 1,
         Store(w, pos), UNCHANGED <<state, current>>
  PROVE  CommandTyped'
  BY DEF CommandTyped, Store

\* kdb_command_receive
LEMMA CommandReceiveTyped ==
  ASSUME CommandTyped, failed \in BOOLEAN, NEW ch \in Chars, CommandReceive(ch)
  PROVE  /\ CommandTyped'
         /\ failed' = failed \/ (current = None /\ failed' = TRUE)
         /\ current # None => current' # None
  <1>0. ArgumentsSize \in Nat \ {0} /\ None \notin Names
    BY GdbPacketsAssumption DEF Chars
  <1>1. CASE CommandProcess(ch)
    <2>1. /\ state' = "ARGUMENTS" /\ arguments' = arguments /\ failed' = failed
          /\ \/ ch \in Names /\ current' = ch /\ argpos' = [argpos EXCEPT ![ch] = 0]
             \/ current' = current /\ argpos' = argpos
      BY <1>1 DEF CommandProcess
    <2>2. \A c \in Commands : Len(arguments[c]) \in Nat
      BY DEF CommandTyped
    <2>3. CommandTyped'
      BY <1>0, <2>1, <2>2 DEF CommandTyped, Commands
    <2>. QED
      BY <1>0, <2>1, <2>3
  <1>2. CASE ArgumentsProcess(ch)
    <2>1. state' = state /\ current' = current
      BY <1>2 DEF ArgumentsProcess
    <2>2. CASE current = None /\ failed' = TRUE /\ UNCHANGED <<arguments, argpos>>
      BY <2>1, <2>2 DEF CommandTyped
    <2>3. CASE current # None /\ failed' = failed
      <3> DEFINE pos == argpos[current]
                 w == Written(current, pos, ch)
      <3>1. current \in Commands /\ pos \in Nat /\ pos \in 0 .. ArgumentsSize
        BY <1>0, <2>3 DEF CommandTyped
      <3>2. w \in Seq(Chars \cup {Junk}) /\ Len(w) = pos + 1
        BY <3>1, WrittenFacts
      <3>3. \/ UNCHANGED <<arguments, argpos>>
            \/ pos + 1 < ArgumentsSize /\ Store(w, pos + 1)
            \/ pos + 1 = ArgumentsSize /\ Store(w, 0)
            \/ pos + 1 = ArgumentsSize /\ Store(Append(w, Junk), ArgumentsSize)
        BY <1>2, <2>3 DEF ArgumentsProcess
      <3> HIDE DEF pos, w
      <3>4. CASE UNCHANGED <<arguments, argpos>>
        BY <2>1, <2>3, <3>4 DEF CommandTyped
      <3>5. CASE pos + 1 < ArgumentsSize /\ Store(w, pos + 1)
        <4>1. pos + 1 \in 0 .. ArgumentsSize /\ pos + 1 <= Len(w) /\ Len(w) <= ArgumentsSize + 1
          BY <1>0, <3>1, <3>2, <3>5
        <4>. QED
          BY <2>1, <2>3, <3>1, <3>2, <3>5, <4>1, StoreTyped
      <3>6. CASE pos + 1 = ArgumentsSize /\ Store(w, 0)
        <4>1. 0 \in 0 .. ArgumentsSize /\ 0 <= Len(w) /\ Len(w) <= ArgumentsSize + 1
          BY <1>0, <3>1, <3>2, <3>6
        <4>. QED
          BY <2>1, <2>3, <3>1, <3>2, <3>6, <4>1, StoreTyped
      <3>7. CASE pos + 1 = ArgumentsSize /\ Store(Append(w, Junk), ArgumentsSize)
        <4> DEFINE v == Append(w, Junk)
        <4>1. v \in Seq(Chars \cup {Junk}) /\ Len(v) = ArgumentsSize + 1
          BY <1>0, <3>1, <3>2, <3>7
        <4>2. ArgumentsSize \in 0 .. ArgumentsSize /\ ArgumentsSize <= Len(v)
          BY <1>0, <4>1
        <4>3. Store(v, ArgumentsSize)
          BY <3>7
        <4> HIDE DEF v
        <4>. QED
          BY <2>1, <2>3, <3>1, <4>1, <4>2, <4>3, StoreTyped
      <3>. QED
        BY <2>1, <2>3, <3>3, <3>4, <3>5, <3>6, <3>7
    <2>. QED
      BY <1>2, <2>1, <2>2, <2>3 DEF ArgumentsProcess
  <1>. QED
    BY <1>1, <1>2 DEF CommandReceive

\* The types of the variables of gdb.c, and when kdb_currentCommand is set.
MainTyped ==
  /\ main \in {"JUNK", "DATA", "CHECKSUM", "CHECKSUM2"}
  /\ sent \in Seq({"+", "-"})

ChecksumTyped == checksum \in 0 .. Base * Base - 1

ExecutedTyped ==
  /\ failed \in BOOLEAN
  /\ executed.name \in Commands \cup {None}
  /\ executed.name # None => current # None /\ ~failed

\* The type invariant is made of these.
LEMMA TypeParts ==
  /\ TypeOK <=> CommandTyped /\ MainTyped /\ ChecksumTyped /\ ExecutedTyped
  /\ TypeOK' <=> CommandTyped' /\ MainTyped' /\ ChecksumTyped' /\ ExecutedTyped'
  BY DEF TypeOK, CommandTyped, MainTyped, ChecksumTyped, ExecutedTyped

\* An acknowledgement more.
LEMMA ReplyTyped ==
  ASSUME sent \in Seq({"+", "-"}), NEW ch \in {"+", "-"}, Reply(ch)
  PROVE  sent' \in Seq({"+", "-"})
  BY DEF Reply

\* Nothing but the state of the command machine changes when it is reset.
LEMMA ResetTyped ==
  ASSUME CommandTyped, CommandReset
  PROVE  CommandTyped'
  BY DEF CommandTyped, CommandReset, Commands

\* What none of the handlers of gdb.c touches keeps its type.
LEMMA SameCommandTyped ==
  ASSUME CommandTyped, UNCHANGED commandVars
  PROVE  CommandTyped'
  BY DEF CommandTyped, commandVars

\* Neither does the checksum, nor what was executed.
LEMMA SameChecksumTyped ==
  ASSUME ChecksumTyped, UNCHANGED checksum
  PROVE  ChecksumTyped'
  BY DEF ChecksumTyped

LEMMA SameExecutedTyped ==
  ASSUME ExecutedTyped, UNCHANGED <<executed, failed>>, current' = current
  PROVE  ExecutedTyped'
  BY DEF ExecutedTyped

\* A packet is refused.
LEMMA NackTyped ==
  ASSUME TypeOK, Nack, UNCHANGED <<checksum, served>>
  PROVE  TypeOK'
  <1>1. CommandTyped /\ MainTyped /\ ChecksumTyped /\ ExecutedTyped
    BY TypeParts
  <1>2. UNCHANGED commandVars /\ UNCHANGED <<executed, failed>> /\ Reply("-") /\ main' = "JUNK"
    BY DEF Nack
  <1>3. CommandTyped' /\ current' = current
    BY <1>1, <1>2, SameCommandTyped DEF commandVars
  <1>4. MainTyped'
    BY <1>1, <1>2, ReplyTyped DEF MainTyped
  <1>. QED
    BY <1>1, <1>2, <1>3, <1>4, SameChecksumTyped, SameExecutedTyped, TypeParts

\* kdb_junk_process
LEMMA JunkProcessTyped ==
  ASSUME TypeOK, NEW ch \in Chars, JunkProcess(ch)
  PROVE  TypeOK'
  <1>1. CommandTyped /\ MainTyped /\ ChecksumTyped /\ ExecutedTyped
    BY TypeParts
  <1>2. /\ UNCHANGED commandVars /\ UNCHANGED <<executed, failed>> /\ sent' = sent
        /\ main' = main \/ main' = "DATA"
        /\ checksum' = checksum \/ checksum' = 0
    BY DEF JunkProcess
  <1>3. CommandTyped' /\ current' = current
    BY <1>1, <1>2, SameCommandTyped DEF commandVars
  <1>4. MainTyped'
    BY <1>1, <1>2 DEF MainTyped
  <1>5. ChecksumTyped'
    <2>1. 0 \in 0 .. Base * Base - 1
      <3>1. Base * Base \in Nat \ {0}
        BY Digital
      <3>. QED
        BY <3>1
    <2>. QED
      BY <1>1, <1>2, <2>1 DEF ChecksumTyped
  <1>. QED
    BY <1>1, <1>2, <1>3, <1>4, <1>5, SameExecutedTyped, TypeParts

\* kdb_data_process
LEMMA DataProcessTyped ==
  ASSUME TypeOK, ~failed, NEW ch \in Chars, DataProcess(ch)
  PROVE  TypeOK'
  <1>1. CommandTyped /\ MainTyped /\ ChecksumTyped /\ ExecutedTyped
    BY TypeParts
  <1>2. executed' = executed /\ sent' = sent
    BY DEF DataProcess
  <1>3. CASE ch = "#" /\ main' = "CHECKSUM" /\ UNCHANGED <<checksum, commandVars, failed>>
    <2>1. CommandTyped' /\ current' = current
      BY <1>1, <1>3, SameCommandTyped DEF commandVars
    <2>2. MainTyped'
      BY <1>1, <1>2, <1>3 DEF MainTyped
    <2>. QED
      BY <1>1, <1>2, <1>3, <2>1, <2>2, SameChecksumTyped, SameExecutedTyped, TypeParts
  <1>4. CASE /\ ch # "#" /\ checksum' = (checksum + Code[ch]) % (Base * Base)
             /\ CommandReceive(ch) /\ UNCHANGED main
    <2>1. failed \in BOOLEAN
      BY <1>1 DEF ExecutedTyped
    <2>2. /\ CommandTyped'
          /\ failed' = failed \/ (current = None /\ failed' = TRUE)
          /\ current # None => current' # None
      BY <1>1, <1>4, <2>1, CommandReceiveTyped
    <2>3. ChecksumTyped'
      <3>1. checksum \in Int
        BY <1>1 DEF ChecksumTyped
      <3>2. Code[ch] \in Int
        BY GdbPacketsAssumption
      <3>3. checksum + Code[ch] \in Int
        BY <3>1, <3>2
      <3>. QED
        BY <1>4, <3>3, Digital DEF ChecksumTyped
    <2>4. failed' \in BOOLEAN
      BY <2>1, <2>2
    <2>5. executed.name # None => current' # None /\ ~failed'
      BY <1>1, <2>2 DEF ExecutedTyped
    <2>6. ExecutedTyped'
      BY <1>1, <1>2, <2>4, <2>5, <2>2 DEF ExecutedTyped
    <2>7. MainTyped'
      BY <1>1, <1>2, <1>4 DEF MainTyped
    <2>. QED
      BY <2>2, <2>3, <2>6, <2>7, TypeParts
  <1>. QED
    BY <1>3, <1>4 DEF DataProcess

\* kdb_checksum_process
LEMMA ChecksumProcessTyped ==
  ASSUME TypeOK, NEW ch \in Chars, ChecksumProcess(ch)
  PROVE  TypeOK'
  <1>1. CommandTyped /\ MainTyped /\ ChecksumTyped /\ ExecutedTyped
    BY TypeParts
  <1>2. UNCHANGED <<checksum, served>>
    BY DEF ChecksumProcess
  <1>3. CASE main' = "CHECKSUM2" /\ UNCHANGED <<commandVars, executed, failed, sent>>
    <2>1. CommandTyped' /\ current' = current
      BY <1>1, <1>3, SameCommandTyped DEF commandVars
    <2>2. MainTyped'
      BY <1>1, <1>3 DEF MainTyped
    <2>. QED
      BY <1>1, <1>2, <1>3, <2>1, <2>2, SameChecksumTyped, SameExecutedTyped, TypeParts
  <1>. QED
    BY <1>2, <1>3, NackTyped DEF ChecksumProcess

\* kdb_checksum2_process
LEMMA Checksum2ProcessTyped ==
  ASSUME TypeOK, ~failed, NEW ch \in Chars, Checksum2Process(ch)
  PROVE  TypeOK'
  <1>1. CommandTyped /\ MainTyped /\ ChecksumTyped /\ ExecutedTyped
    BY TypeParts
  <1>2. UNCHANGED <<checksum, served>>
    BY DEF Checksum2Process
  <1>3. CASE Reply("+") /\ Execute
    <2>1. sent' \in Seq({"+", "-"}) /\ ChecksumTyped'
      BY <1>1, <1>2, <1>3, ReplyTyped, SameChecksumTyped DEF MainTyped
    <2>2. CASE current = None /\ failed' = TRUE /\ UNCHANGED <<main, commandVars, executed>>
      <3>1. CommandTyped' /\ current' = current
        BY <1>1, <2>2, SameCommandTyped DEF commandVars
      <3>2. MainTyped' /\ ExecutedTyped'
        BY <1>1, <2>1, <2>2, <3>1 DEF MainTyped, ExecutedTyped
      <3>. QED
        BY <2>1, <3>1, <3>2, TypeParts
    <2>3. CASE /\ current # None /\ main' = "JUNK"
               /\ executed' = [name |-> current, arguments |-> arguments[current]]
               /\ CommandReset /\ UNCHANGED failed
      <3>1. CommandTyped' /\ current' = Unknown
        BY <1>1, <2>3, ResetTyped DEF CommandReset
      <3>2. executed'.name = current /\ current \in Commands
        BY <1>1, <2>3 DEF CommandTyped
      <3>3. MainTyped'
        BY <1>1, <2>1, <2>3 DEF MainTyped
      <3>4. Unknown # None
        BY DEF Unknown, None
      <3>5. ~failed' /\ failed' \in BOOLEAN
        BY <1>1, <2>3 DEF ExecutedTyped
      <3>6. ExecutedTyped'
        BY <3>1, <3>2, <3>4, <3>5 DEF ExecutedTyped
      <3>. QED
        BY <2>1, <3>1, <3>3, <3>6, TypeParts
    <2>. QED
      BY <1>3, <2>2, <2>3 DEF Execute
  <1>. QED
    BY <1>2, <1>3, NackTyped DEF Checksum2Process

\* kdb_receive
LEMMA ReceiveTyped ==
  ASSUME TypeOK, ~failed, NEW ch \in Chars, Receive(ch)
  PROVE  TypeOK'
  BY JunkProcessTyped, DataProcessTyped, ChecksumProcessTyped, Checksum2ProcessTyped DEF Receive

-----------------------------------------------------------------------------
(* Frames                                                                  *)

\* The recursion over the prefixes of a packet has a solution: a checksum of
\* two digits for each.
LEMMA ChecksumFacts ==
  ASSUME NEW p \in Packets
  PROVE  /\ \A n \in 0 .. Len(p) : ChecksumOf(p)[n] \in 0 .. Base * Base - 1
         /\ ChecksumOf(p)[0] = 0
         /\ \A n \in 1 .. Len(p) :
              ChecksumOf(p)[n] = (ChecksumOf(p)[n - 1] + Code[p[n]]) % (Base * Base)
  <1> DEFINE M == Base * Base
             S == 0 .. M - 1
  <1>1. S \subseteq Int /\ 0 \in S /\ \A c \in Int : c % M \in S
    <2>1. M \in Nat \ {0} /\ \A c \in Int : c % M \in S
      BY Digital
    <2> HIDE DEF M
    <2>2. S \subseteq Int /\ 0 \in S
      BY <2>1
    <2>. QED
      BY <2>1, <2>2
  <1>2. Len(p) \in Nat /\ \A n \in 1 .. Len(p) : Code[p[n]] \in Nat
    BY GdbPacketsAssumption
  <1>15. S \subseteq Int
    BY <1>1
  <1> HIDE DEF M, S
  <1> DEFINE Next1(n, g) == IF n \in 1 .. Len(p) THEN (g[n - 1] + Code[p[n]]) % M ELSE 0
             step == [n \in Nat |-> [g \in [Nat -> S] |-> Next1(n, g)]]
  <1>3. ASSUME NEW n \in Nat, NEW g \in [Nat -> S]
        PROVE  Next1(n, g) \in S
    <2>1. CASE n \in 1 .. Len(p)
      <3>1. n - 1 \in Nat
        BY <2>1, <1>2
      <3>2. g[n - 1] \in Int /\ Code[p[n]] \in Int
        <4>1. g[n - 1] \in S
          BY <3>1
        <4>2. g[n - 1] \in Int
          BY <4>1, <1>15
        <4>. QED
          BY <2>1, <4>2, <1>2
      <3>3. g[n - 1] + Code[p[n]] \in Int
        BY <3>2
      <3>. QED
        BY <2>1, <3>3, <1>1
    <2>2. CASE n \notin 1 .. Len(p)
      BY <2>2, <1>1
    <2>. QED
      BY <2>1, <2>2
  <1>4. ASSUME NEW n \in Nat, NEW g \in [Nat -> S], NEW h \in [Nat -> S],
               \A i \in 0 .. n - 1 : g[i] = h[i]
        PROVE  Next1(n, g) = Next1(n, h)
    <2>1. n \in 1 .. Len(p) => n - 1 \in 0 .. n - 1
      BY <1>2
    <2>. QED
      BY <1>4, <2>1
  <1> HIDE DEF Next1
  <1>5. step \in [Nat -> [[Nat -> S] -> S]]
    BY <1>3
  <1>6. \A n \in Nat, g \in [Nat -> S] : step[n][g] = Next1(n, g)
    OBVIOUS
  <1> HIDE DEF step
  <1>7. PICK f \in [Nat -> S] : \A n \in Nat : f[n] = Next1(n, f)
    <2>0. \A n \in Nat : \A g, h \in [Nat -> S] :
            (\A i \in 0 .. n - 1 : g[i] = h[i]) => step[n][g] = step[n][h]
      <3> SUFFICES ASSUME NEW n \in Nat, NEW g \in [Nat -> S], NEW h \in [Nat -> S],
                          \A i \in 0 .. n - 1 : g[i] = h[i]
                   PROVE  step[n][g] = step[n][h]
        OBVIOUS
      <3>1. Next1(n, g) = Next1(n, h)
        BY <1>4
      <3>. QED
        BY <1>6, <3>1
    <2>1. IsStep(step, S)
      BY <1>5, <2>0 DEF IsStep
    <2>2. S # {}
      BY <1>1
    <2>3. PICK f : IsSolution(f, step, S)
      BY <2>1, <2>2, RecursionExists
    <2>. QED
      BY <2>3, <1>6 DEF IsSolution
  <1> DEFINE r == [n \in 0 .. Len(p) |-> f[n]]
             Sum(q) == [n \in 0 .. Len(p) |->
                          IF n = 0 THEN 0 ELSE (q[n - 1] + Code[p[n]]) % M]
  <1>8. r = Sum(r)
    <2>1. ASSUME NEW n \in 0 .. Len(p)
          PROVE  f[n] = IF n = 0 THEN 0 ELSE (r[n - 1] + Code[p[n]]) % M
      <3>1. n \in Nat /\ f[n] = Next1(n, f)
        BY <1>2, <1>7
      <3>2. CASE n = 0
        BY <3>1, <3>2, <1>2 DEF Next1
      <3>3. CASE n # 0
        <4>1. n \in 1 .. Len(p) /\ n - 1 \in 0 .. Len(p)
          BY <3>3, <1>2
        <4>2. r[n - 1] = f[n - 1]
          BY <4>1
        <4>. QED
          BY <3>1, <3>3, <4>1, <4>2 DEF Next1
      <3>. QED
        BY <3>2, <3>3
    <2>. QED
      BY <2>1
  <1>9. ChecksumOf(p) = CHOOSE q : q = Sum(q)
    BY DEF ChecksumOf, M
  <1>10. ChecksumOf(p) = Sum(ChecksumOf(p))
    BY <1>8, <1>9
  <1> DEFINE c == ChecksumOf(p)
  <1> HIDE DEF c
  <1>11. c = [n \in 0 .. Len(p) |-> IF n = 0 THEN 0 ELSE (c[n - 1] + Code[p[n]]) % M]
    BY <1>10 DEF c
  <1>12. c[0] = 0
    <2>1. 0 \in 0 .. Len(p)
      BY <1>2
    <2>. QED
      BY <1>11, <2>1
  <1>13. ASSUME NEW n \in 1 .. Len(p)
         PROVE  c[n] = (c[n - 1] + Code[p[n]]) % M
    <2>1. n \in 0 .. Len(p) /\ n # 0
      BY <1>2
    <2>. QED
      BY <1>11, <2>1
  <1>14. \A n \in 0 .. Len(p) : c[n] \in S
    <2> DEFINE T == {n \in 0 .. Len(p) : c[n] \notin S}
    <2>1. SUFFICES ASSUME T # {} PROVE FALSE
      OBVIOUS
    <2>0. T \in SUBSET Nat
      BY <1>2
    <2> HIDE DEF T
    <2>2. PICK n \in T : \A k \in T : n <= k
      BY <2>0, <2>1, NatLeast
    <2> USE DEF T
    <2>5. n \in 0 .. Len(p) /\ n \in Nat
      BY <1>2
    <2>3. CASE n = 0
      BY <2>3, <1>1, <1>12
    <2>4. CASE n # 0
      <3>1. n \in 1 .. Len(p) /\ n - 1 \in 0 .. Len(p) /\ ~ (n <= n - 1)
        BY <2>5, <2>4, <1>2
      <3>2. c[n - 1] \in S
        BY <2>2, <3>1
      <3>3. c[n - 1] \in Int /\ Code[p[n]] \in Int
        <4>1. c[n - 1] \in Int
          BY <3>2, <1>15
        <4>. QED
          BY <3>1, <4>1, <1>2
      <3>4. c[n - 1] + Code[p[n]] \in Int
        BY <3>3
      <3>5. c[n] \in S
        BY <1>1, <1>13, <3>1, <3>4
      <3>. QED
        BY <2>2, <3>5
    <2>. QED
      BY <2>3, <2>4
  <1>. QED
    BY <1>12, <1>13, <1>14 DEF c, M, S

\* What each character of a frame is.
LEMMA FrameFacts ==
  ASSUME NEW p \in Packets
  PROVE  /\ Len(p) \in Nat \ {0}
         /\ Frame(p) \in Seq(Chars) /\ Len(Frame(p)) = Len(p) + 4
         /\ Frame(p)[1] = "$"
         /\ \A i \in 1 .. Len(p) : Frame(p)[i + 1] = p[i] /\ p[i] \in Chars \ Special
         /\ Frame(p)[Len(p) + 2] = "#"
         /\ FromHex[Frame(p)[Len(p) + 3]] = ChecksumOf(p)[Len(p)] \div Base
         /\ FromHex[Frame(p)[Len(p) + 4]] = ChecksumOf(p)[Len(p)] % Base
  <1> DEFINE sum == ChecksumOf(p)[Len(p)]
             high == Digits[sum \div Base + 1]
             low == Digits[(sum % Base) + 1]
             head == <<"$">> \o p
             tail == <<"#", high, low>>
  <1>1. p \in Seq(Chars) /\ Len(p) \in Nat \ {0} /\ \A i \in 1 .. Len(p) : p[i] \in Chars \ Special
    <2>1. p \in Seq(Chars \ Special) /\ p # <<>>
      BY GdbPacketsAssumption
    <2>. QED
      BY <2>1, EmptySeq
  <1>2. "$" \in Chars /\ "#" \in Chars
    BY GdbPacketsAssumption DEF Special
  <1>3. sum \div Base \in 0 .. Base - 1 /\ sum % Base \in 0 .. Base - 1
    <2>1. Len(p) \in 0 .. Len(p)
      BY <1>1
    <2>. QED
      BY <2>1, ChecksumFacts, Digital
  <1> HIDE DEF sum
  <1>4. /\ high \in Chars /\ FromHex[high] = sum \div Base
        /\ low \in Chars /\ FromHex[low] = sum % Base
    <2>1. ASSUME NEW k \in 0 .. Base - 1
          PROVE  Digits[k + 1] \in Chars /\ FromHex[Digits[k + 1]] = k
      <3>1. k + 1 \in 1 .. Base /\ (k + 1) - 1 = k
        BY Digital
      <3>. QED
        BY <3>1, GdbPacketsAssumption DEF Base
    <2>. QED
      BY <1>3, <2>1
  <1> HIDE DEF high, low
  <1>5. /\ head \in Seq(Chars) /\ Len(head) = Len(p) + 1 /\ head[1] = "$"
        /\ \A i \in 1 .. Len(p) : head[i + 1] = p[i]
    BY <1>1, <1>2
  <1>6. tail \in Seq(Chars) /\ Len(tail) = 3 /\ tail[1] = "#" /\ tail[2] = high /\ tail[3] = low
    BY <1>2, <1>4
  <1> HIDE DEF head, tail
  <1>7. Frame(p) = head \o tail
    BY DEF Frame, head, tail, high, low, sum
  <1> DEFINE f == head \o tail
  <1>8. /\ f \in Seq(Chars) /\ Len(f) = Len(p) + 4
        /\ \A i \in 1 .. Len(p) + 4 : f[i] = IF i <= Len(p) + 1 THEN head[i]
                                             ELSE tail[i - (Len(p) + 1)]
    <2>1. /\ f \in Seq(Chars) /\ Len(f) = Len(head) + Len(tail)
          /\ \A i \in 1 .. Len(head) + Len(tail) :
               f[i] = IF i <= Len(head) THEN head[i] ELSE tail[i - Len(head)]
      BY <1>5, <1>6, ConcatProperties
    <2>2. Len(head) + Len(tail) = Len(p) + 4 /\ Len(head) = Len(p) + 1
      BY <1>1, <1>5, <1>6
    <2>. QED
      BY <2>1, <2>2
  <1> HIDE DEF f
  <1>9. f[1] = "$" /\ f[Len(p) + 2] = "#" /\ f[Len(p) + 3] = high /\ f[Len(p) + 4] = low
    <2>1. /\ 1 \in 1 .. Len(p) + 4 /\ 1 <= Len(p) + 1
          /\ Len(p) + 2 \in 1 .. Len(p) + 4 /\ ~ (Len(p) + 2 <= Len(p) + 1)
          /\ (Len(p) + 2) - (Len(p) + 1) = 1
          /\ Len(p) + 3 \in 1 .. Len(p) + 4 /\ ~ (Len(p) + 3 <= Len(p) + 1)
          /\ (Len(p) + 3) - (Len(p) + 1) = 2
          /\ Len(p) + 4 \in 1 .. Len(p) + 4 /\ ~ (Len(p) + 4 <= Len(p) + 1)
          /\ (Len(p) + 4) - (Len(p) + 1) = 3
      BY <1>1
    <2>. QED
      BY <1>5, <1>6, <1>8, <2>1
  <1>10. ASSUME NEW i \in 1 .. Len(p)
         PROVE  f[i + 1] = p[i]
    <2>1. i + 1 \in 1 .. Len(p) + 4 /\ i + 1 <= Len(p) + 1
      BY <1>1
    <2>. QED
      BY <1>5, <1>8, <2>1
  <1>. QED
    BY <1>1, <1>4, <1>7, <1>8, <1>9, <1>10 DEF f, sum

\* gdb sends characters, and has a packet of its own on the way or none.
LEMMA HostTyped ==
  ASSUME HostInOrder, TypeOK, [Next]_vars
  PROVE  HostInOrder'
  <1>1. ASSUME NEW s \in Seq(Chars), s # <<>>
        PROVE  Tail(s) \in Seq(Chars) /\ Head(s) \in Chars
    BY <1>1
  <1>2. ASSUME NEW ch, Arrives(ch), toSend # <<>>
        PROVE  /\ packet' = packet /\ toSend' \in Seq(Chars) /\ interrupts' = interrupts
               /\ served' \in Nat
    <2>1. packet' = packet /\ toSend' = Tail(toSend) /\ interrupts' = interrupts /\ Receive(ch)
      BY <1>2 DEF Arrives
    <2>2. served' = served \/ served' = served + 1
      BY <2>1 DEF Receive, JunkProcess, DataProcess, ChecksumProcess, Checksum2Process
    <2>. QED
      BY <1>1, <1>2, <2>1, <2>2 DEF HostInOrder
  <1>3. CASE \E p \in Packets : SendPacket(p)
    BY <1>3, FrameFacts DEF SendPacket, HostInOrder, kdbVars
  <1>4. CASE SendInterrupt
    <2>1. toSend' \in Seq(Chars)
      <3>1. "^C" \in Chars /\ toSend' = <<"^C">>
        BY <1>4, GdbPacketsAssumption DEF SendInterrupt, Special
      <3>. QED
        BY <3>1
    <2>. QED
      BY <1>4, <2>1 DEF SendInterrupt, HostInOrder, kdbVars
  <1>5. CASE Transmit
    BY <1>2, <1>5 DEF Transmit, Transmitting, HostInOrder
  <1>6. CASE \E ch \in Chars : Garble(ch)
    BY <1>2, <1>6 DEF Garble, Transmitting, HostInOrder
  <1>7. CASE Lose
    BY <1>1, <1>7 DEF Lose, Transmitting, HostInOrder, kdbVars
  <1>8. CASE HostReceives
    BY <1>8, FrameFacts DEF HostReceives, HostInOrder
  <1>9. CASE Timeout
    BY <1>9, FrameFacts DEF Timeout, NoAnswer, HostInOrder, kdbVars
  <1>10. CASE UNCHANGED vars
    BY <1>10 DEF vars, HostInOrder, kdbVars
  <1>. QED
    BY <1>3, <1>4, <1>5, <1>6, <1>7, <1>8, <1>9, <1>10 DEF Next

\* Whatever the line does to the characters, the types are kept.
LEMMA TypesKept ==
  ASSUME HostInOrder, TypeOK, [Next]_vars
  PROVE  TypeOK'
  <1>1. UNCHANGED kdbVars => TypeOK'
    BY DEF kdbVars, commandVars, TypeOK
  <1>2. CASE \E p \in Packets : SendPacket(p)
    BY <1>1, <1>2 DEF SendPacket
  <1>3. CASE SendInterrupt
    BY <1>1, <1>3 DEF SendInterrupt
  <1>4. CASE Transmit
    <2>1. toSend # <<>> /\ ~failed /\ Receive(Head(toSend))
      BY <1>4 DEF Transmit, Transmitting, Arrives
    <2>2. Head(toSend) \in Chars
      BY <2>1 DEF HostInOrder
    <2>. QED
      BY <2>1, <2>2, ReceiveTyped
  <1>5. CASE \E ch \in Chars : Garble(ch)
    BY <1>5, ReceiveTyped DEF Garble, Transmitting, Arrives
  <1>6. CASE Lose
    BY <1>1, <1>6 DEF Lose
  <1>7. CASE HostReceives
    <2>1. CommandTyped /\ MainTyped /\ ChecksumTyped /\ ExecutedTyped
      BY TypeParts
    <2>2. UNCHANGED <<main, checksum, commandVars, executed, failed>>
      BY <1>7 DEF HostReceives
    <2>3. sent' \in Seq({"+", "-"})
      <3>1. sent \in Seq({"+", "-"}) /\ sent # <<>> /\ sent' = Tail(sent)
        BY <1>7, <2>1 DEF HostReceives, MainTyped
      <3>. QED
        BY <3>1, HeadTailProperties
    <2>4. CommandTyped' /\ current' = current
      BY <2>1, <2>2, SameCommandTyped DEF commandVars
    <2>5. MainTyped'
      BY <2>1, <2>2, <2>3 DEF MainTyped
    <2>. QED
      BY <2>1, <2>2, <2>4, <2>5, SameChecksumTyped, SameExecutedTyped, TypeParts
  <1>8. CASE Timeout
    BY <1>1, <1>8 DEF Timeout
  <1>9. CASE UNCHANGED vars
    BY <1>1, <1>9 DEF vars
  <1>. QED
    BY <1>2, <1>3, <1>4, <1>5, <1>6, <1>7, <1>8, <1>9 DEF Next

-----------------------------------------------------------------------------
(* A line on which nothing is lost                                         *)

\* The next character of the frame arrives.
LEMMA NextOfFrame ==
  ASSUME packet \in Packets, toSend \in Seq(Chars), toSend # <<>>,
         NEW n \in 0 .. Len(packet) + 4, RestOfFrame(n),
         packet' = packet, toSend' = Tail(toSend)
  PROVE  /\ n \in 0 .. Len(packet) + 3 /\ n + 1 \in 0 .. Len(packet) + 4
         /\ Head(toSend) = Frame(packet)[n + 1]
         /\ RestOfFrame(n + 1)'
  <1>1. /\ Len(packet) \in Nat /\ Len(toSend) \in Nat \ {0}
        /\ Len(toSend) = Len(packet) + 4 - n
        /\ \A i \in 1 .. Len(toSend) : toSend[i] = Frame(packet)[n + i]
    BY FrameFacts DEF RestOfFrame
  <1>2. n \in 0 .. Len(packet) + 3 /\ n + 1 \in 0 .. Len(packet) + 4
    BY <1>1
  <1>3. Head(toSend) = toSend[1]
    OBVIOUS
  <1>4. /\ Len(Tail(toSend)) = Len(toSend) - 1
        /\ \A i \in 1 .. Len(Tail(toSend)) : Tail(toSend)[i] = toSend[i + 1]
    BY HeadTailProperties
  <1>5. ASSUME NEW i \in 1 .. Len(Tail(toSend))
        PROVE  Tail(toSend)[i] = Frame(packet)[(n + 1) + i]
    <2>1. i + 1 \in 1 .. Len(toSend) /\ n + (i + 1) = (n + 1) + i
      BY <1>1, <1>4
    <2>. QED
      BY <1>1, <1>4, <2>1
  <1>6. Len(Tail(toSend)) = Len(packet) + 4 - (n + 1)
    BY <1>1, <1>4
  <1>7. RestOfFrame(n + 1)'
    <2>1. /\ Len(toSend') = Len(packet') + 4 - (n + 1)
          /\ \A i \in 1 .. Len(toSend') : toSend'[i] = Frame(packet')[(n + 1) + i]
      BY <1>5, <1>6
    <2>. QED
      BY <2>1 DEF RestOfFrame
  <1>. QED
    BY <1>1, <1>2, <1>3, <1>7

\* One more argument is what the packet has there.
LEMMA OneMoreArgument ==
  ASSUME CommandTyped, packet \in Packets, current \in Commands,
         NEW n \in 1 .. Len(packet) - 1, argpos[current] = n - 1,
         n >= 2 => arguments[current] = SubSeq(packet, 2, n)
  PROVE  Written(current, n - 1, packet[n + 1]) = SubSeq(packet, 2, n + 1)
  <1> DEFINE w == Written(current, n - 1, packet[n + 1])
             q == SubSeq(packet, 2, n + 1)
             C == Chars \cup {Junk}
  <1>1. Len(packet) \in Nat /\ \A i \in 1 .. Len(packet) : packet[i] \in Chars
    BY FrameFacts
  <1>2. n \in Nat /\ n - 1 \in Nat /\ n + 1 \in 1 .. Len(packet) /\ (n - 1) + 1 = n
    BY <1>1
  <1>3. packet[n + 1] \in Chars
    BY <1>1, <1>2
  <1>4. /\ w \in Seq(C) /\ Len(w) = n /\ w[n] = packet[n + 1]
        /\ \A i \in 1 .. n - 1 : w[i] = arguments[current][i]
    BY <1>2, <1>3, WrittenFacts
  <1> HIDE DEF w
  <1>5. /\ q \in Seq(C) /\ Len(q) = n
        /\ \A i \in 1 .. n : q[i] = packet[i + 1]
    <2>1. \A i \in 2 .. n + 1 : packet[i] \in C
      BY <1>1, <1>2
    <2>2. /\ q \in Seq(C) /\ Len(q) = IF 2 <= n + 1 THEN (n + 1) - 2 + 1 ELSE 0
          /\ \A i \in 1 .. (n + 1) - 2 + 1 : q[i] = packet[2 + i - 1]
      BY <2>1, SubSeqProperties, <1>2
    <2>3. (n + 1) - 2 + 1 = n /\ 2 <= n + 1 /\ \A i \in 1 .. n : 2 + i - 1 = i + 1
      BY <1>2
    <2>. QED
      BY <2>2, <2>3
  <1> HIDE DEF q
  <1>6. ASSUME NEW i \in 1 .. n
        PROVE  w[i] = q[i]
    <2>1. CASE i = n
      BY <1>4, <1>5, <2>1
    <2>2. CASE i # n
      <3>1. i \in 1 .. n - 1 /\ n >= 2
        BY <2>2
      <3>2. \A k \in 2 .. n : packet[k] \in C
        BY <1>1, <1>2
      <3>3. \A k \in 1 .. n - 2 + 1 : SubSeq(packet, 2, n)[k] = packet[2 + k - 1]
        BY <3>2, SubSeqProperties, <1>2
      <3>4. i \in 1 .. n - 2 + 1 /\ 2 + i - 1 = i + 1
        BY <3>1
      <3>5. SubSeq(packet, 2, n)[i] = packet[i + 1]
        BY <3>3, <3>4
      <3>. QED
        BY <1>4, <1>5, <3>1, <3>5
    <2>. QED
      BY <2>1, <2>2
  <1> HIDE DEF C
  <1>7. w = q
    BY <1>4, <1>5, <1>6, SeqEqual
  <1>. QED
    BY <1>7 DEF w, q

\* The command machine reads one more character of the packet.
LEMMA CommandReads ==
  ASSUME CommandTyped, packet \in Packets, packet' = packet,
         NEW n \in 0 .. Len(packet) - 1, HasRead(n),
         CommandReceive(packet[n + 1]), ~failed',
         checksum' = (checksum + Code[packet[n + 1]]) % (Base * Base)
  PROVE  HasRead(n + 1)'
  <1>1. /\ Len(packet) \in Nat \ {0} /\ n \in Nat /\ n + 1 \in 1 .. Len(packet)
        /\ (n + 1) - 1 = n
    BY FrameFacts
  <1>2. checksum' = ChecksumOf(packet)[n + 1]
    BY <1>1, ChecksumFacts DEF HasRead
  <1>3. Head(packet) = packet[1]
    BY GdbPacketsAssumption
  <1>4. ArgumentsSize \in Nat \ {0}
    BY GdbPacketsAssumption
  <1>5. Parsed(n + 1)'
    <2>1. CASE n = 0
      <3>1. state = "COMMAND" /\ current \in {None, Unknown}
        BY <2>1 DEF HasRead
      <3>2. CommandProcess(packet[1])
        BY <2>1, <3>1 DEF CommandReceive
      <3>3. CASE packet[1] \in Names
        <4>1. /\ state' = "ARGUMENTS" /\ current' = packet[1]
              /\ argpos' = [argpos EXCEPT ![packet[1]] = 0]
          BY <3>2, <3>3 DEF CommandProcess
        <4>2. argpos'[packet[1]] = 0
          BY <3>3, <4>1 DEF CommandTyped, Commands
        <4>. QED
          BY <2>1, <1>3, <3>3, <4>1, <4>2 DEF Parsed
      <3>4. CASE packet[1] \notin Names
        <4>1. state' = "ARGUMENTS" /\ current' = current
          BY <3>2, <3>4 DEF CommandProcess
        <4>. QED
          BY <1>3, <3>1, <3>4, <4>1 DEF Parsed
      <3>. QED
        BY <3>3, <3>4
    <2>2. CASE n > 0
      <3>1. Parsed(n)
        BY <2>2 DEF HasRead
      <3>2. ArgumentsProcess(packet[n + 1])
        BY <3>1 DEF CommandReceive, Parsed
      <3>3. state' = state /\ current' = current /\ current # None
        BY <3>2 DEF ArgumentsProcess
      <3>4. CASE Head(packet) \notin Names
        BY <3>1, <3>3, <3>4 DEF Parsed
      <3>5. CASE Head(packet) \in Names /\ n + 1 <= ArgumentsSize
        <4>1. current = Head(packet) /\ current \in Commands /\ argpos[current] = n - 1
          BY <1>1, <1>4, <3>1, <3>5 DEF Parsed, Commands
        <4>2. n >= 2 => arguments[current] = SubSeq(packet, 2, n)
          BY <1>1, <1>4, <3>1, <3>5 DEF Parsed
        <4>3. n \in 1 .. Len(packet) - 1
          BY <1>1, <2>2
        <4>4. Written(current, n - 1, packet[n + 1]) = SubSeq(packet, 2, n + 1)
          BY <4>1, <4>2, <4>3, OneMoreArgument
        <4>5. /\ ~ (n - 1 >= ArgumentsSize) /\ (n - 1) + 1 # ArgumentsSize
              /\ (n - 1) + 1 = n
          BY <1>1, <1>4, <3>5
        <4>6. Store(SubSeq(packet, 2, n + 1), n)
          BY <3>2, <3>3, <4>1, <4>4, <4>5 DEF ArgumentsProcess
        <4>7. argpos'[current] = n /\ arguments'[current] = SubSeq(packet, 2, n + 1)
          BY <4>1, <4>6 DEF Store, CommandTyped
        <4>. QED
          BY <1>1, <3>1, <3>3, <3>5, <4>1, <4>7 DEF Parsed
      <3>6. CASE Head(packet) \in Names /\ ~ (n + 1 <= ArgumentsSize)
        <4>1. n + 1 \notin 2 .. ArgumentsSize
          BY <1>1, <1>4, <3>6
        <4>. QED
          BY <3>1, <3>3, <3>6, <4>1 DEF Parsed
      <3>. QED
        BY <3>4, <3>5, <3>6
    <2>. QED
      BY <1>1, <2>1, <2>2
  <1>6. n + 1 \in 0 .. Len(packet) /\ n + 1 # 0
    BY <1>1
  <1>. QED
    BY <1>2, <1>5, <1>6 DEF HasRead, ChecksumOf

\* The callback is called for the command of the packet.
LEMMA ExecutesThePacket ==
  ASSUME CommandTyped, packet \in Packets, packet' = packet, HasRead(Len(packet)),
         current # None, executed' = [name |-> current, arguments |-> arguments[current]]
  PROVE  ExecutedIsThePacket'
  <1>1. Len(packet) \in Nat \ {0} /\ Parsed(Len(packet))
    BY FrameFacts DEF HasRead
  <1>2. executed'.name = current /\ executed'.arguments = arguments[current]
    OBVIOUS
  <1>3. CASE Head(packet) \notin Names
    BY <1>1, <1>2, <1>3 DEF Parsed, ExecutedIsThePacket
  <1>4. CASE Head(packet) \in Names
    <2>1. ASSUME Len(Tail(packet)) \in 1 .. ArgumentsSize - 1
          PROVE  arguments[current] = Tail(packet)
      <3>1. packet \in Seq(Chars \ Special) /\ packet # <<>> /\ ArgumentsSize \in Nat
        BY GdbPacketsAssumption
      <3>2. Len(Tail(packet)) = Len(packet) - 1 /\ Tail(packet) = SubSeq(packet, 2, Len(packet))
        BY <3>1, HeadTailProperties, TailIsSubSeq
      <3>3. Len(packet) \in 2 .. ArgumentsSize
        BY <1>1, <2>1, <3>1, <3>2
      <3>. QED
        BY <1>1, <1>4, <3>2, <3>3 DEF Parsed
    <2>. QED
      BY <1>1, <1>2, <1>4, <2>1 DEF Parsed, ExecutedIsThePacket
  <1>. QED
    BY <1>3, <1>4

\* The debugger takes in one more character of a packet.
LEMMA PacketArrives ==
  ASSUME TypeOK, packet \in Packets, packet' = packet,
         NEW n \in 0 .. Len(packet) + 3, InStep(n), Receive(Frame(packet)[n + 1]), ~failed'
  PROVE  InStep(n + 1)' /\ served' = served
  <1> DEFINE L == Len(packet)
             ch == Frame(packet)[n + 1]
  <1>1. /\ L \in Nat \ {0} /\ n \in Nat
        /\ n = 0 => ch = "$"
        /\ n \in 1 .. L => ch = packet[n] /\ ch \in Chars \ Special
        /\ n = L + 1 => ch = "#"
        /\ n = L + 2 => FromHex[ch] = ChecksumOf(packet)[L] \div Base
        /\ n = L + 3 => FromHex[ch] = ChecksumOf(packet)[L] % Base
    <2>1. L \in Nat \ {0} /\ n \in Nat
      BY FrameFacts
    <2>2. (L + 1) + 1 = L + 2 /\ (L + 2) + 1 = L + 3 /\ (L + 3) + 1 = L + 4 /\ 0 + 1 = 1
      BY <2>1
    <2>. QED
      BY <2>1, <2>2, FrameFacts
  <1> HIDE DEF ch
  <1>2. Receive(ch)
    BY DEF ch
  <1>3. CommandTyped
    BY TypeParts
  <1>4. CASE n = 0 /\ Waiting /\ sent = <<>>
    <2>1. JunkProcess("$")
      BY <1>1, <1>2, <1>4 DEF Receive, Waiting
    <2>2. /\ main' = "DATA" /\ checksum' = 0 /\ served' = served /\ sent' = <<>>
          /\ state' = state /\ current' = current
      BY <1>4, <2>1 DEF JunkProcess, commandVars
    <2>3. HasRead(0)'
      BY <1>1, <1>4, <2>2, ChecksumFacts DEF HasRead, Waiting
    <2>. QED
      BY <1>1, <1>4, <2>2, <2>3 DEF InStep
  <1>5. CASE n >= 1 /\ main = "DATA" /\ HasRead(n - 1) /\ sent = <<>>
    <2>1. n - 1 \in 0 .. L /\ DataProcess(ch)
      BY <1>2, <1>5 DEF Receive, HasRead
    <2>2. served' = served /\ sent' = <<>>
      BY <1>5, <2>1 DEF DataProcess
    <2>3. CASE n = L + 1
      <3>1. main' = "CHECKSUM" /\ UNCHANGED <<checksum, commandVars>>
        BY <1>1, <2>1, <2>3 DEF DataProcess
      <3>2. HasRead(L)'
        <4>1. HasRead(L)
          <5>1. n - 1 = L
            BY <1>1, <2>3
          <5>. QED
            BY <1>5, <5>1
        <4>. QED
          BY <3>1, <4>1 DEF HasRead, Parsed, commandVars
      <3>3. n + 1 = L + 2
        BY <1>1, <2>3
      <3>. QED
        BY <2>2, <3>1, <3>2, <3>3 DEF InStep
    <2>4. CASE n \in 1 .. L
      <3>1. /\ CommandReceive(ch) /\ main' = main
            /\ checksum' = (checksum + Code[ch]) % (Base * Base)
        BY <1>1, <2>1, <2>4 DEF DataProcess, Special
      <3>2. n - 1 \in 0 .. L - 1 /\ (n - 1) + 1 = n /\ (n + 1) - 1 = n /\ n + 1 >= 1
        BY <1>1, <2>4
      <3> DEFINE k == n - 1
      <3>3. k \in 0 .. L - 1 /\ HasRead(k) /\ ch = packet[k + 1]
        BY <1>1, <1>5, <2>4, <3>2
      <3> HIDE DEF k
      <3>4. HasRead(k + 1)'
        BY <1>3, <3>1, <3>3, CommandReads
      <3>5. HasRead(n)'
        BY <3>2, <3>4 DEF k
      <3>. QED
        BY <1>5, <2>2, <3>1, <3>2, <3>5 DEF InStep
    <2>. QED
      BY <1>1, <1>5, <2>1, <2>3, <2>4
  <1>6. CASE n = L + 2 /\ main = "CHECKSUM" /\ HasRead(L) /\ sent = <<>>
    <2>1. ChecksumProcess(ch)
      BY <1>2, <1>6 DEF Receive
    <2>2. IsNibble(ch, checksum \div Base)
      BY <1>1, <1>6 DEF IsNibble, HasRead
    <2>3. /\ main' = "CHECKSUM2" /\ UNCHANGED commandVars /\ sent' = sent
          /\ checksum' = checksum /\ served' = served
      BY <2>1, <2>2 DEF ChecksumProcess
    <2>4. HasRead(L)'
      BY <1>6, <2>3 DEF HasRead, Parsed, commandVars
    <2>5. n + 1 = L + 3
      BY <1>1, <1>6
    <2>. QED
      BY <1>6, <2>3, <2>4, <2>5 DEF InStep
  <1>7. CASE n = L + 3 /\ main = "CHECKSUM2" /\ HasRead(L) /\ sent = <<>>
    <2>1. Checksum2Process(ch)
      BY <1>2, <1>7 DEF Receive
    <2>2. IsNibble(ch, checksum % Base)
      BY <1>1, <1>7 DEF IsNibble, HasRead
    <2>3. Reply("+") /\ Execute /\ served' = served
      BY <2>1, <2>2 DEF Checksum2Process
    <2>4. /\ current # None /\ main' = "JUNK"
          /\ executed' = [name |-> current, arguments |-> arguments[current]]
          /\ CommandReset
      BY <2>3 DEF Execute
    <2>5. sent' = <<"+">>
      BY <1>7, <2>3 DEF Reply
    <2>6. Waiting' /\ ExecutedIsThePacket'
      BY <1>3, <1>7, <2>4, ExecutesThePacket DEF Waiting, CommandReset
    <2>7. n + 1 = L + 4
      BY <1>1, <1>7
    <2>. QED
      BY <2>3, <2>5, <2>6, <2>7 DEF InStep
  <1>8. n # L + 4
    BY <1>1
  <1>. QED
    BY <1>4, <1>5, <1>6, <1>7, <1>8 DEF InStep

\* A character of gdb arrives as it was sent.
LEMMA TransmitKeeps ==
  ASSUME TypeOK, HostInOrder, OnReliableLine, Transmit, ~failed'
  PROVE  OnReliableLine'
  <1>1. /\ toSend # <<>> /\ Receive(Head(toSend)) /\ toSend' = Tail(toSend)
        /\ packet' = packet /\ interrupts' = interrupts /\ toSend \in Seq(Chars)
    BY DEF Transmit, Transmitting, Arrives, HostInOrder
  <1>2. CASE packet = <<>>
    <2>1. toSend = <<"^C">> /\ Waiting /\ sent = <<>> /\ served + Len(toSend) = interrupts
      BY <1>1, <1>2 DEF OnReliableLine, BetweenPackets
    <2>2. JunkProcess("^C")
      BY <1>1, <2>1 DEF Receive, Waiting
    <2>3. /\ served' = served + 1 /\ sent' = <<>>
          /\ main' = main /\ state' = state /\ current' = current
      BY <2>1, <2>2 DEF JunkProcess, commandVars
    <2>4. toSend' = <<>>
      BY <1>1, <2>1
    <2>5. Len(toSend) = 1 /\ Len(toSend') = 0
      BY <2>1, <2>4
    <2>6. served' + Len(toSend') = interrupts'
      BY <1>1, <2>1, <2>3, <2>5 DEF HostInOrder
    <2>. QED
      BY <1>1, <1>2, <2>1, <2>3, <2>4, <2>6 DEF OnReliableLine, BetweenPackets, Waiting
  <1>3. CASE packet # <<>>
    <2>1. packet \in Packets
      BY <1>3 DEF HostInOrder
    <2>2. PICK n \in 0 .. Len(packet) + 4 : RestOfFrame(n) /\ InStep(n)
      BY <1>3 DEF OnReliableLine
    <2>3. /\ n \in 0 .. Len(packet) + 3 /\ n + 1 \in 0 .. Len(packet) + 4
          /\ Head(toSend) = Frame(packet)[n + 1]
          /\ RestOfFrame(n + 1)'
      BY <1>1, <2>1, <2>2, NextOfFrame
    <2>4. InStep(n + 1)' /\ served' = served
      BY <1>1, <2>1, <2>2, <2>3, PacketArrives
    <2>5. served' = interrupts'
      BY <1>1, <1>3, <2>4 DEF OnReliableLine
    <2>. QED
      BY <1>1, <1>3, <2>3, <2>4, <2>5 DEF OnReliableLine
  <1>. QED
    BY <1>2, <1>3

\* Between packets and at the end of one gdb gets the answer it waits for.
LEMMA HostKeeps ==
  ASSUME TypeOK, HostInOrder, OnReliableLine,
         \/ \E p \in Packets : SendPacket(p)
         \/ SendInterrupt \/ HostReceives \/ Timeout
  PROVE  OnReliableLine'
  <1>1. ASSUME Idle
        PROVE  Waiting /\ sent = <<>> /\ packet = <<>> /\ toSend = <<>> /\ served = interrupts
    <2>1. packet = <<>> /\ toSend = <<>> /\ BetweenPackets
      BY <1>1 DEF Idle, OnReliableLine
    <2>2. Len(toSend) = 0
      BY <2>1
    <2>. QED
      BY <2>1, <2>2 DEF BetweenPackets, HostInOrder
  <1>2. ASSUME packet # <<>>, toSend = <<>>
        PROVE  Waiting /\ sent = <<"+">> /\ served = interrupts
    <2>1. packet \in Packets
      BY <1>2 DEF HostInOrder
    <2>2. PICK n \in 0 .. Len(packet) + 4 : RestOfFrame(n) /\ InStep(n)
      BY <1>2 DEF OnReliableLine
    <2>3. Len(packet) \in Nat /\ Len(toSend) = 0
      BY <1>2, <2>1, FrameFacts
    <2>4. n = Len(packet) + 4
      BY <2>2, <2>3 DEF RestOfFrame
    <2>5. n # 0 /\ n - 1 \notin 0 .. Len(packet) /\ n # Len(packet) + 2 /\ n # Len(packet) + 3
      BY <2>3, <2>4
    <2>. QED
      BY <1>2, <2>2, <2>5 DEF InStep, HasRead, OnReliableLine
  <1>3. ASSUME NEW p \in Packets, SendPacket(p)
        PROVE  OnReliableLine'
    <2>1. /\ Waiting /\ sent = <<>> /\ served = interrupts
          /\ packet' = p /\ toSend' = Frame(p) /\ interrupts' = interrupts /\ UNCHANGED kdbVars
      BY <1>1, <1>3 DEF SendPacket
    <2>2. Waiting' /\ sent' = <<>> /\ served' = interrupts'
      BY <2>1 DEF Waiting, kdbVars, commandVars
    <2>3. /\ Len(p) \in Nat \ {0} /\ Len(Frame(p)) = Len(p) + 4 /\ Frame(p) \in Seq(Chars)
          /\ p # <<>>
      BY FrameFacts, GdbPacketsAssumption
    <2>4. RestOfFrame(0)'
      <3>1. Len(toSend') = Len(packet') + 4 - 0
        BY <2>1, <2>3
      <3>2. \A i \in 1 .. Len(toSend') : toSend'[i] = Frame(packet')[0 + i]
        <4>1. \A i \in 1 .. Len(p) + 4 : 0 + i = i
          BY <2>3
        <4>. QED
          BY <2>1, <2>3, <4>1
      <3>. QED
        BY <3>1, <3>2 DEF RestOfFrame
    <2>5. InStep(0)'
      BY <2>2 DEF InStep
    <2>6. 0 \in 0 .. Len(packet') + 4
      BY <2>1, <2>3
    <2>. QED
      BY <2>1, <2>2, <2>3, <2>4, <2>5, <2>6 DEF OnReliableLine
  <1>4. CASE SendInterrupt
    <2>1. /\ Waiting /\ sent = <<>> /\ packet = <<>> /\ served = interrupts
          /\ toSend' = <<"^C">> /\ interrupts' = interrupts + 1
          /\ packet' = packet /\ UNCHANGED kdbVars
      BY <1>1, <1>4 DEF SendInterrupt
    <2>2. Waiting' /\ sent' = <<>> /\ served' = served
      BY <2>1 DEF Waiting, kdbVars, commandVars
    <2>3. Len(toSend') = 1
      BY <2>1
    <2>4. served' + Len(toSend') = interrupts'
      BY <2>1, <2>2, <2>3 DEF HostInOrder
    <2>. QED
      BY <2>1, <2>2, <2>4 DEF OnReliableLine, BetweenPackets
  <1>5. CASE HostReceives
    <2>1. toSend = <<>> /\ sent # <<>> /\ sent' = Tail(sent)
      BY <1>5 DEF HostReceives
    <2>2. packet # <<>>
      BY <2>1 DEF OnReliableLine, BetweenPackets
    <2>3. Waiting /\ sent = <<"+">> /\ served = interrupts
      BY <1>2, <2>1, <2>2
    <2>4. /\ packet' = <<>> /\ toSend' = toSend /\ sent' = <<>>
          /\ served' = served /\ interrupts' = interrupts
          /\ main' = main /\ UNCHANGED commandVars
      <3>1. Head(sent) = "+" /\ "+" # "-" /\ Tail(sent) = <<>>
        BY <2>3
      <3>. QED
        BY <1>5, <3>1 DEF HostReceives
    <2>5. Waiting'
      BY <2>3, <2>4 DEF Waiting, commandVars
    <2>6. served' + Len(toSend') = interrupts'
      <3>1. Len(toSend') = 0
        BY <2>1, <2>4
      <3>. QED
        BY <2>3, <2>4, <3>1 DEF HostInOrder
    <2>. QED
      BY <2>1, <2>4, <2>5, <2>6 DEF OnReliableLine, BetweenPackets
  <1>6. CASE Timeout
    BY <1>2, <1>6 DEF Timeout, NoAnswer
  <1>. QED
    BY <1>3, <1>4, <1>5, <1>6

\* Every step keeps the invariant: noise only adds up, and nothing arrives
\* after a failure.
LEMMA InvariantKept ==
  ASSUME IInv, [Next]_vars
  PROVE  IInv'
  <1>1. TypeOK /\ HostInOrder /\ TypeOK' /\ HostInOrder'
    BY HostTyped, TypesKept DEF IInv
  <1>2. ASSUME Reliable', ~failed'
        PROVE  OnReliableLine'
    <2>1. failed => failed'
      <3>1. failed \in BOOLEAN
        BY <1>1 DEF TypeOK
      <3>. QED
        BY <3>1 DEF Next, vars, kdbVars, SendPacket, SendInterrupt, Transmit, Garble, Lose,
          HostReceives, Timeout, Transmitting
    <2>2. noise' = 0 /\ noise \in Nat
      BY <1>1, <1>2 DEF Reliable, HostInOrder
    <2>3. ~ \E ch \in Chars : Garble(ch)
      BY <2>2 DEF Garble
    <2>4. ~ Lose
      BY <2>2 DEF Lose
    <2>5. noise' = noise
      BY <2>3, <2>4 DEF Next, vars, SendPacket, SendInterrupt, Transmit, HostReceives, Timeout
    <2>6. OnReliableLine
      BY <1>2, <2>1, <2>2, <2>5 DEF IInv, Reliable
    <2>7. CASE UNCHANGED vars
      <3>1. /\ main' = main /\ checksum' = checksum /\ state' = state /\ current' = current
            /\ arguments' = arguments /\ argpos' = argpos /\ executed' = executed
            /\ served' = served /\ sent' = sent
            /\ packet' = packet /\ toSend' = toSend /\ interrupts' = interrupts
        BY <2>7 DEF vars, kdbVars, commandVars
      <3>2. (Waiting' <=> Waiting) /\ (ExecutedIsThePacket' <=> ExecutedIsThePacket)
        BY ONLY <3>1 DEF Waiting, ExecutedIsThePacket
      <3>3. BetweenPackets' <=> BetweenPackets
        BY ONLY <3>1, <3>2 DEF BetweenPackets
      <3>4. ASSUME NEW n \in Int
            PROVE  (RestOfFrame(n)' <=> RestOfFrame(n)) /\ (InStep(n)' <=> InStep(n))
        <4>1. RestOfFrame(n)' <=> RestOfFrame(n)
          BY ONLY <3>1 DEF RestOfFrame
        <4>2. InStep(n)' <=> InStep(n)
          BY ONLY <3>1, <3>2 DEF InStep, HasRead, Parsed
        <4>. QED
          BY <4>1, <4>2
      <3>5. Len(packet) \in Nat
        BY <1>1 DEF HostInOrder
      <3>6. \A n \in 0 .. Len(packet) + 4 : n \in Int
        BY ONLY <3>5
      <3>. QED
        BY ONLY <2>6, <3>1, <3>3, <3>4, <3>6 DEF OnReliableLine
    <2>. QED
      BY <1>1, <1>2, <2>3, <2>4, <2>6, <2>7, TransmitKeeps, HostKeeps DEF Next
  <1>. QED
    BY <1>1, <1>2 DEF IInv

\* Nothing has been sent or executed at first.
LEMMA InitInOrder == Init => IInv
  <1> SUFFICES ASSUME Init PROVE IInv
    OBVIOUS
  <1>1. CommandTyped
    <2>1. ArgumentsSize \in Nat
      BY GdbPacketsAssumption
    <2>2. <<>> \in Seq(Chars \cup {Junk}) /\ Len(<<>>) = 0
      OBVIOUS
    <2>. QED
      BY <2>1, <2>2 DEF Init, CommandTyped
  <1>2. MainTyped
    BY DEF Init, MainTyped
  <1>3. ChecksumTyped
    <2>1. Base * Base \in Nat \ {0}
      BY Digital
    <2>2. 0 \in 0 .. Base * Base - 1
      BY <2>1
    <2>. QED
      BY <2>2 DEF Init, ChecksumTyped
  <1>4. ExecutedTyped
    BY DEF Init, ExecutedTyped
  <1>5. HostInOrder
    BY DEF Init, HostInOrder
  <1>6. OnReliableLine
    BY DEF Init, OnReliableLine, BetweenPackets, Waiting
  <1>. QED
    BY <1>1, <1>2, <1>3, <1>4, <1>5, <1>6, TypeParts DEF IInv

\* Whatever gdb sends and the line does, the types hold, and as long as the
\* line does nothing the machines follow the frames.
THEOREM PacketsInvariant == Spec => []IInv
  BY InitInOrder, InvariantKept, PTL DEF Spec

\* No index leaves its array, and an assertion can fail only before the first
\* command was executed, whatever noise there is on the line.
THEOREM PacketsTypes == Spec => []TypeOK
  <1>1. IInv => TypeOK
    BY DEF IInv
  <1>. QED
    BY PacketsInvariant, <1>1, PTL

\* On a reliable line a packet executes the command it names, with the
\* arguments it has when they fit, whatever was executed before.
THEOREM ExecutesThePackets == Spec => []ExecutesWhatWasSent
  <1>1. IInv => ExecutesWhatWasSent
    <2> SUFFICES ASSUME IInv, Reliable, sent = <<"+">>, ~failed
                 PROVE  ExecutedIsThePacket
      BY DEF ExecutesWhatWasSent
    <2>1. OnReliableLine
      BY DEF IInv
    <2>2. sent # <<>>
      OBVIOUS
    <2>. QED
      BY <2>1, <2>2 DEF OnReliableLine, BetweenPackets, InStep
  <1>. QED
    BY PacketsInvariant, <1>1, PTL

\* On a reliable line no packet is refused and none goes without an answer,
\* and every CTRL-C is served.
THEOREM ServesAReliableLine == Spec => []ReliableLineIsServed
  <1>1. IInv => ReliableLineIsServed
    <2> SUFFICES ASSUME IInv, Reliable, ~failed
                 PROVE  /\ "-" \notin ToSet(sent) /\ ~NoAnswer
                        /\ toSend = <<>> => served = interrupts
      BY DEF ReliableLineIsServed
    <2>1. OnReliableLine /\ HostInOrder
      BY DEF IInv
    <2>2. sent = <<>> \/ sent = <<"+">>
      BY <2>1 DEF OnReliableLine, BetweenPackets, InStep
    <2>3. "-" \notin ToSet(sent)
      <3>1. ToSet(<<>>) = {} /\ ToSet(<<"+">>) = {"+"}
        BY DEF ToSet
      <3>. QED
        BY <2>2, <3>1
    <2>4. CASE packet = <<>>
      <3>1. toSend = <<>> => Len(toSend) = 0
        OBVIOUS
      <3>. QED
        BY <2>1, <2>3, <2>4, <3>1 DEF OnReliableLine, BetweenPackets, NoAnswer, HostInOrder
    <2>5. CASE packet # <<>>
      <3>1. served = interrupts
        BY <2>1, <2>5 DEF OnReliableLine
      <3>2. ASSUME toSend = <<>>
            PROVE  sent = <<"+">>
        <4>1. packet \in Packets
          BY <2>1, <2>5 DEF HostInOrder
        <4>2. PICK n \in 0 .. Len(packet) + 4 : RestOfFrame(n) /\ InStep(n)
          BY <2>1, <2>5 DEF OnReliableLine
        <4>3. Len(packet) \in Nat /\ Len(toSend) = 0
          BY <3>2, <4>1, FrameFacts
        <4>4. n = Len(packet) + 4
          BY <4>2, <4>3 DEF RestOfFrame
        <4>5. n # 0 /\ n - 1 \notin 0 .. Len(packet) /\ n # Len(packet) + 2 /\ n # Len(packet) + 3
          BY <4>3, <4>4
        <4>. QED
          BY <4>2, <4>5 DEF InStep, HasRead
      <3>. QED
        BY <2>3, <3>1, <3>2 DEF NoAnswer
    <2>. QED
      BY <2>4, <2>5
  <1>. QED
    BY PacketsInvariant, <1>1, PTL

=============================================================================
