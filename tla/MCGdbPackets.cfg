SPECIFICATION FairSpec
CONSTANTS
  Names <- MCNames
  Code <- MCCode
  FromHex <- MCFromHex
  Digits <- MCDigits
  Packets <- MCPackets
  ArgumentsSize = 3
  MaxPackets = 3
  MaxInterrupts = 1
  MaxNoise = 1
INVARIANTS
  TypeOK
  ExecutesWhatWasSent
  ReliableLineIsServed
PROPERTY
  PacketsGetThrough
\* gdb need not send anything; a failed assertion stops the machine.
CHECK_DEADLOCK FALSE
