SPECIFICATION Spec
CONSTANTS
  Names <- MCNames
  Code <- MCCode
  FromHex <- MCFromHex
  Digits <- MCDigits
  Packets <- MCPackets
  ArgumentsSize = 3
  MaxPackets = 3
  MaxInterrupts = 1
  MaxNoise = 1
INVARIANT
  RetransmissionExecutesWhatWasSent
\* gdb need not send anything; a failed assertion stops the machine.
CHECK_DEADLOCK FALSE
