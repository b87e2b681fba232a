SPECIFICATION Spec
CONSTANTS
  Names <- MCNames
  Code <- MCCode
  FromHex <- MCFromHex
  Digits <- MCDigits
  Packets <- MCPackets
  ArgumentsSize = 3
  MaxPackets = 3
  MaxInterrupts = 1
  MaxNoise = 0
INVARIANT
  CurrentCommandIsSet
\* A failed assertion stops the machine.
CHECK_DEADLOCK FALSE
